--------------------------- MODULE MCApplication ---------------------------
(* Instances of Application for TLC.                                        *)
EXTENDS Application

CONSTANTS a, b, s1, s2, s3

\* Two senders live in one process, and one in another.
Placement == [s \in {s1, s2, s3} |-> IF s = s3 THEN b ELSE a]

Complete == [overrides |-> {}, wakeup |-> TRUE, polls |-> {}, deps |-> TRUE,
             outbox |-> "ok"]

Both(c, d) == [i \in {a, b} |-> IF i = a THEN c ELSE d]

Overridden == [Complete EXCEPT !.overrides = Kinds]
Polling == [Complete EXCEPT !.wakeup = FALSE, !.polls = Kinds]
NoOutbox == [Complete EXCEPT !.outbox = "none"]
NoPublisher == [Complete EXCEPT !.outbox = "incomplete"]
NoTxManager == [Complete EXCEPT !.deps = FALSE]
Rival == [Complete EXCEPT !.overrides = {"queue"}, !.outbox = "none"]

\* One process (the other is not started), with wake-ups only, with the notifiers
\* of the module and with others; polling only; no outbox; two whose OnStart
\* fails; and two processes that share the queue.
Typical ==
    {Both(c, Complete) :
        c \in {Complete, Overridden, Polling, NoOutbox, NoPublisher, NoTxManager}}
    \cup {Both(NoOutbox, Rival)}

Within(s, f, p, o) ==
    [started |-> TRUE, sends |-> s, failures |-> f, publications |-> p, outages |-> o]

Each(n) == [s \in Senders |-> n]

Alone(n) == [s \in Senders |-> IF s = s1 THEN n ELSE 0]

Absent == [Within(Each(0), 0, 0, 0) EXCEPT !.started = FALSE]

\* The bus is busiest where nothing takes the commands away; a process with other
\* trouble has one sender.
TypicalBounds ==
    [c \in Typical |->
        CASE c[b] = Rival ->
                Both(Within(Alone(1), 0, 0, 0), Within(Each(0), 0, 0, 1))
          [] c[b] # Rival /\ c[a] = NoTxManager ->
                Both(Within(Each(3), 1, 0, 0), Absent)
          [] c[b] # Rival /\ c[a] = Polling ->
                Both(Within(Alone(1), 1, 1, 0), Absent)
          [] c[b] # Rival /\ c[a] = Overridden ->
                Both(Within(Alone(1), 0, 1, 1), Absent)
          [] c[b] # Rival /\ c[a] = Complete ->
                Both(Within(Each(1), 0, 0, 0), Absent)
          [] OTHER -> Both(Within(Alone(2), 0, 0, 0), Absent)]
=============================================================================
