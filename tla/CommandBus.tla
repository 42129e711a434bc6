----------------------------- MODULE CommandBus -----------------------------
(***************************************************************************)
(* CommandBus.Send in front of the SQL queue: the limit on pending         *)
(* commands with its cached count and its shared COUNT query, the insert,  *)
(* and the increment of the count.  Of the table only the pending rows     *)
(* matter here; whoever executes a command takes its row away.             *)
(***************************************************************************)
EXTENDS Naturals, FiniteSets

CONSTANTS
    Instances,     \* application processes sharing the database
    Senders,       \* goroutines that call CommandBus.Send
    InstanceOf,    \* the instance each sender lives in
    MaxPending,    \* SQLQueueConfig.MaxPending, where there is a limit
    CacheEnabled,  \* PendingCountCacheTTL > 0
    MaxSends,      \* bound: commands of each sender
    MaxFailures    \* bound: failing database calls

ASSUME SendersAssumption ==
    /\ IsFiniteSet(Senders)
    /\ InstanceOf \in [Senders -> Instances]
    /\ \A i \in Instances : \E s \in Senders : InstanceOf[s] = i

ASSUME LimitAssumption ==
    /\ MaxPending \in Nat \ {0}
    /\ {MaxSends, MaxFailures} \subseteq Nat
    /\ CacheEnabled \in BOOLEAN

VARIABLES
    queue,     \* pending rows: the sender of each, and which of its commands
    sent,      \* commands each sender has begun to send
    pc,        \* where each sender is in Send
    cache,     \* pendingCountCache of each instance
    flight,    \* the call each instance's singleflight group has under way
    failures,  \* database calls that failed so far
    slack      \* history: how far the count of each instance may be too high

busVars == <<queue, sent, pc, cache, flight, failures, slack>>

-----------------------------------------------------------------------------
(* Types.                                                                  *)

Rows == Senders \X (0..MaxSends)

\* fresh: cachedAt is set and less than the TTL ago.
Caches == [count : Nat, fresh : BOOLEAN]

EmptyCache == [count |-> 0, fresh |-> FALSE]

Flights == [phase : {"none", "counting", "counted", "done"}, val : Nat]

NoFlight == [phase |-> "none", val |-> 0]

\* "group": the cache did not help, countGroup.Do comes next.
Checking == {"group", "leading", "following"}

Locations == Checking \cup {"idle", "refused", "insert", "count", "notify"}

SendersOf(i) == {s \in Senders : InstanceOf[s] = i}

At(i, where) == {s \in SendersOf(i) : pc[s] \in where}

Own(i) == {c \in queue : InstanceOf[c[1]] = i}

Go(s, to) == pc' = [pc EXCEPT ![s] = to]

-----------------------------------------------------------------------------
(* checkQueueCapacity.                                                     *)

\* Mutant: the command to be sent is counted as well.
VerdictOneLess(n) == IF n + 1 >= MaxPending THEN "refused" ELSE "insert"

\* ErrQueueFull, or on to the insert.
Verdict(n) == IF n >= MaxPending THEN "refused" ELSE "insert"

\* A count that is fresh decides at once.
CheckCache(s) ==
    LET c == cache[InstanceOf[s]]
    IN  Go(s, IF c.fresh THEN Verdict(c.count) ELSE "group")

\* A command is sent for the first time.
Send(s) ==
    /\ pc[s] = "idle"
    /\ sent[s] < MaxSends
    /\ sent' = [sent EXCEPT ![s] = @ + 1]
    /\ CheckCache(s)
    /\ UNCHANGED <<queue, cache, flight, failures, slack>>

\* The client was told ErrQueueFull and sends its command again.
Retry(s) ==
    /\ pc[s] = "refused"
    /\ CheckCache(s)
    /\ UNCHANGED <<queue, sent, cache, flight, failures, slack>>

\* countGroup.Do runs the function, which looks at the cache a second time.
Lead(s) ==
    LET i == InstanceOf[s]
        c == cache[i]
    IN  /\ pc[s] = "group"
        /\ flight[i].phase = "none"
        /\ flight' = [flight EXCEPT ![i] =
                         IF c.fresh THEN [phase |-> "done", val |-> c.count]
                                    ELSE [phase |-> "counting", val |-> 0]]
        /\ Go(s, "leading")
        /\ UNCHANGED <<queue, sent, cache, failures, slack>>

\* countGroup.Do waits for the call another goroutine has under way.
Follow(s) ==
    /\ pc[s] = "group"
    /\ flight[InstanceOf[s]].phase # "none"
    /\ Go(s, "following")
    /\ UNCHANGED <<queue, sent, cache, flight, failures, slack>>

\* SELECT COUNT(*) ... WHERE status = 'pending': all instances' rows.
CountPending(s) ==
    LET i == InstanceOf[s]
    IN  /\ pc[s] = "leading"
        /\ flight[i].phase = "counting"
        /\ flight' = [flight EXCEPT ![i] =
                         [phase |-> "counted", val |-> Cardinality(queue)]]
        /\ slack' = [slack EXCEPT ![i] = 0]
        /\ UNCHANGED <<queue, sent, pc, cache, failures>>

\* The count is stored over whatever was added to the cache meanwhile; increments
\* that are still to come may be of rows the count has.
StoreCount(s) ==
    LET i == InstanceOf[s]
    IN  /\ pc[s] = "leading"
        /\ flight[i].phase = "counted"
        /\ cache' = [cache EXCEPT ![i] = [count |-> flight[i].val,
                                          fresh |-> CacheEnabled]]
        /\ flight' = [flight EXCEPT ![i].phase = "done"]
        /\ slack' = [slack EXCEPT ![i] = @ + Cardinality(At(i, {"count"}))]
        /\ UNCHANGED <<queue, sent, pc, failures>>

\* Do returns to the leader and to all that follow it.
Land(i, to) ==
    /\ pc' = [s \in Senders |->
                IF s \in At(i, {"leading", "following"}) THEN to ELSE pc[s]]
    /\ flight' = [flight EXCEPT ![i] = NoFlight]

\* The count decides for everyone, also for those that came after it.
Finish(s) ==
    LET i == InstanceOf[s]
    IN  /\ pc[s] = "leading"
        /\ flight[i].phase = "done"
        /\ Land(i, Verdict(flight[i].val))
        /\ UNCHANGED <<queue, sent, cache, failures, slack>>

-----------------------------------------------------------------------------
(* Failures, and the rest of Send.                                         *)

ConnectionFails ==
    /\ failures < MaxFailures
    /\ failures' = failures + 1

\* Mutant: when the pending commands cannot be counted, the queue is taken to be full.
CountFailsFull(s) ==
    /\ pc[s] = "leading"
    /\ flight[InstanceOf[s]].phase = "counting"
    /\ ConnectionFails
    /\ Land(InstanceOf[s], "refused")
    /\ UNCHANGED <<queue, sent, cache, slack>>

\* An error of the query is returned by every Send that waits for it.
CountFails(s) ==
    /\ pc[s] = "leading"
    /\ flight[InstanceOf[s]].phase = "counting"
    /\ ConnectionFails
    /\ Land(InstanceOf[s], "idle")
    /\ UNCHANGED <<queue, sent, cache, slack>>

\* RecordPending; identifiers are unique, so it is a new row.
Insert(s) ==
    /\ pc[s] = "insert"
    /\ queue' = queue \cup {<<s, sent[s]>>}
    /\ Go(s, "count")
    /\ UNCHANGED <<sent, cache, flight, failures, slack>>

\* RecordPending, or the marshaler before it, returns an error.
InsertFails(s) ==
    /\ pc[s] = "insert"
    /\ ConnectionFails
    /\ Go(s, "idle")
    /\ UNCHANGED <<queue, sent, cache, flight, slack>>

\* The row is written, but Send is told otherwise: no increment, no signal.
InsertAnswerLost(s) ==
    /\ pc[s] = "insert"
    /\ ConnectionFails
    /\ queue' = queue \cup {<<s, sent[s]>>}
    /\ Go(s, "idle")
    /\ UNCHANGED <<sent, cache, flight, slack>>

\* Mutant: the count is left to the next query.
IncrementForgotten(s) ==
    /\ pc[s] = "count"
    /\ Go(s, "notify")
    /\ UNCHANGED <<queue, sent, cache, flight, failures, slack>>

\* Also when the cached count is out of date; nothing ever decrements it.
Increment(s) ==
    /\ pc[s] = "count"
    /\ cache' = [cache EXCEPT ![InstanceOf[s]].count = @ + 1]
    /\ Go(s, "notify")
    /\ UNCHANGED <<queue, sent, flight, failures, slack>>

\* Notifier.Notify, and Send returns nil.
Notify(s) ==
    /\ pc[s] = "notify"
    /\ Go(s, "idle")
    /\ UNCHANGED <<queue, sent, cache, flight, failures, slack>>

-----------------------------------------------------------------------------
(* Around the bus.                                                         *)

\* The cached count reaches its TTL.
Expire(i) ==
    /\ cache[i].fresh
    /\ cache' = [cache EXCEPT ![i].fresh = FALSE]
    /\ UNCHANGED <<queue, sent, pc, flight, failures, slack>>

\* A worker has executed a command, which is pending no more, also when the
\* answer of the commit is lost.
CommandExecuted(c) ==
    /\ c \in queue
    /\ queue' = queue \ {c}
    /\ slack' = [i \in Instances |-> slack[i] + 1]
    /\ UNCHANGED failures \/ ConnectionFails
    /\ UNCHANGED <<sent, pc, cache, flight>>

\* A call of a worker fails.
WorkerFails ==
    /\ ConnectionFails
    /\ UNCHANGED <<queue, sent, pc, cache, flight, slack>>

\* The process ends, and with it the bus and the calls of its senders.
BusEnds(i) ==
    /\ pc' = [s \in Senders |-> IF InstanceOf[s] = i THEN "idle" ELSE pc[s]]
    /\ cache' = [cache EXCEPT ![i] = EmptyCache]
    /\ flight' = [flight EXCEPT ![i] = NoFlight]
    /\ slack' = [slack EXCEPT ![i] = 0]
    /\ UNCHANGED <<queue, sent, failures>>

-----------------------------------------------------------------------------

BusInit ==
    /\ queue = {}
    /\ sent = [s \in Senders |-> 0]
    /\ pc = [s \in Senders |-> "idle"]
    /\ cache = [i \in Instances |-> EmptyCache]
    /\ flight = [i \in Instances |-> NoFlight]
    /\ failures = 0
    /\ slack = [i \in Instances |-> 0]

\* checkQueueCapacity, once Send or Retry has called it.
Check(s) ==
    \/ Lead(s) \/ Follow(s) \/ CountPending(s) \/ CountFails(s)
    \/ StoreCount(s) \/ Finish(s)

\* What Send does when the limit allows it, up to the signal.
Submit(s) ==
    \/ Insert(s) \/ InsertFails(s) \/ InsertAnswerLost(s) \/ Increment(s)

BusNext ==
    \/ \E s \in Senders :
        Send(s) \/ Retry(s) \/ Check(s) \/ Submit(s) \/ Notify(s)
    \/ \E i \in Instances : Expire(i) \/ BusEnds(i)
    \/ WorkerFails \/ \E c \in queue : CommandExecuted(c)

BusSpec == BusInit /\ [][BusNext]_busVars

-----------------------------------------------------------------------------
(* Correctness.                                                            *)

BusTypeOK ==
    /\ queue \in SUBSET Rows
    /\ sent \in [Senders -> 0..MaxSends]
    /\ pc \in [Senders -> Locations]
    /\ cache \in [Instances -> Caches]
    /\ flight \in [Instances -> Flights]
    /\ failures \in 0..MaxFailures
    /\ slack \in [Instances -> Nat]

\* How far the limit is soft (checkQueueCapacity is not atomic with the
\* insert): apart from rows whose insert was reported as an error, the pending
\* commands of an instance exceed MaxPending by at most three for each sender
\* but one -- one let through beside it by the same count, one by a count it
\* has outdated, and one whose increment a stored count has overwritten.  A
\* single goroutine never exceeds it.
SoftLimit ==
    \A i \in Instances :
        Cardinality(Own(i)) + 3
            <= MaxPending + 3 * Cardinality(SendersOf(i)) + failures

\* ErrQueueFull is not invented: the limit is reached by the commands pending now
\* and those the count cannot know better of -- executed since it was taken, or
\* counted twice because their increment came after the count was stored.  (The
\* count is never decremented: the queue may well be empty at a refusal.)
RefusalsExplained ==
    [][\A s \in Senders :
          pc[s] # "refused" /\ pc'[s] = "refused" =>
              MaxPending <= Cardinality(queue) + slack[InstanceOf[s]]]_busVars
=============================================================================
