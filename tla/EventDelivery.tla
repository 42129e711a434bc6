--------------------------- MODULE EventDelivery ---------------------------
(***************************************************************************)
(* What the transactional outbox promises to whoever publishes an event:   *)
(* only events of committed transactions reach the broker, and an event is *)
(* dropped from the outbox for good only after it has reached the broker   *)
(* at least once.  No batches, workers, locks or wake-ups here.            *)
(***************************************************************************)
EXTENDS Naturals

CONSTANT Events    \* outbox records

VARIABLES committed,  \* events whose transaction has committed
          delivered,  \* how often the broker has got each event
          settled     \* events the outbox is done with

vars == <<committed, delivered, settled>>

Init ==
    /\ committed = {}
    /\ delivered = [e \in Events |-> 0]
    /\ settled = {}

\* A transaction commits, with the events published in it.
Commit(new) ==
    /\ committed' = committed \cup new
    /\ UNCHANGED <<delivered, settled>>

\* The broker gets the event, perhaps not for the first time.
Deliver(e) ==
    /\ e \in committed
    /\ delivered' = [delivered EXCEPT ![e] = @ + 1]
    /\ UNCHANGED <<committed, settled>>

\* The event is known to be delivered and leaves the outbox.
Settle(e) ==
    /\ delivered[e] > 0
    /\ settled' = settled \cup {e}
    /\ UNCHANGED <<committed, delivered>>

Next ==
    \/ \E new \in SUBSET Events : Commit(new)
    \/ \E e \in Events : Deliver(e) \/ Settle(e)

Spec == Init /\ [][Next]_vars
=============================================================================
