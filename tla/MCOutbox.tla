------------------------------ MODULE MCOutbox ------------------------------
(* Instances of Outbox for TLC.                                              *)
EXTENDS Outbox, TLC

CONSTANTS e1, e2, e3, t1, t2, a, b

\* Each transaction publishes one event, or t1 publishes two.
OneEach == (e1 :> t1) @@ (e2 :> t2)

TwoAndOne == (e1 :> t1) @@ (e2 :> t1) @@ (e3 :> t2)

\* The transactions run in two instances, or in the same.
Apart == (t1 :> a) @@ (t2 :> b)

Together == (t1 :> a) @@ (t2 :> a)
=============================================================================
