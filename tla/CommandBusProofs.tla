-------------------------- MODULE CommandBusProofs --------------------------
(***************************************************************************)
(* What is proved about CommandBus for any number of instances, senders,   *)
(* commands and failures: how soft the limit is, and that no refusal is    *)
(* invented.                                                               *)
(***************************************************************************)
EXTENDS CommandBus, FiniteSetTheorems, TLAPS

-----------------------------------------------------------------------------
(* Sizes of sets of senders and of rows.                                   *)

Num(i) == Cardinality(SendersOf(i))

Place(p, i, l) == {s \in SendersOf(i) : p[s] \in l}

Size(p, i, l) == Cardinality(Place(p, i, l))

OwnIn(q, i) == {c \in q : InstanceOf[c[1]] = i}

LEMMA SendersFinite ==
    ASSUME NEW i \in Instances
    PROVE  IsFiniteSet(SendersOf(i)) /\ Num(i) \in Nat \ {0}
<1>1. IsFiniteSet(SendersOf(i)) /\ SendersOf(i) # {}
  BY SendersAssumption, FS_Subset DEF SendersOf
<1>2. Num(i) \in Nat /\ Num(i) # 0
  BY <1>1, FS_CardinalityType, FS_EmptySet DEF Num
<1> QED
  BY <1>1, <1>2

LEMMA PlaceFinite ==
    ASSUME NEW p, NEW i \in Instances, NEW l
    PROVE  IsFiniteSet(Place(p, i, l)) /\ Size(p, i, l) \in Nat /\ Size(p, i, l) <= Num(i)
BY SendersFinite, FS_Subset, FS_CardinalityType DEF Place, Size, Num

\* Senders in different places are different senders.
LEMMA DisjointPlaces ==
    ASSUME NEW p, NEW i \in Instances, NEW k, NEW l, k \cap l = {}
    PROVE  Size(p, i, k) + Size(p, i, l) = Size(p, i, k \cup l)
<1>1. Place(p, i, k \cup l) = Place(p, i, k) \cup Place(p, i, l)
  BY DEF Place
<1>2. Place(p, i, k) \cap Place(p, i, l) = {}
  BY DEF Place
<1>3. Cardinality(Place(p, i, k) \cap Place(p, i, l)) = 0
  BY <1>2, FS_EmptySet
<1>4. IsFiniteSet(Place(p, i, k)) /\ IsFiniteSet(Place(p, i, l))
  BY PlaceFinite
<1>5. Cardinality(Place(p, i, k)) \in Nat /\ Cardinality(Place(p, i, l)) \in Nat
  BY <1>4, FS_CardinalityType
<1>6. Cardinality(Place(p, i, k) \cup Place(p, i, l)) =
          Cardinality(Place(p, i, k)) + Cardinality(Place(p, i, l))
              - Cardinality(Place(p, i, k) \cap Place(p, i, l))
  BY <1>4, FS_Union
<1>7. Cardinality(Place(p, i, k)) + Cardinality(Place(p, i, l)) =
          Cardinality(Place(p, i, k) \cup Place(p, i, l))
  BY <1>3, <1>5, <1>6
<1> QED
  BY <1>1, <1>7, Zenon DEF Size

Moved(p, q, s, to) == \A x \in Senders : q[x] = IF x = s THEN to ELSE p[x]

\* What one sender's move does to the number of those in a place.
LEMMA Move ==
    ASSUME NEW p, NEW q, NEW s \in Senders, NEW to, NEW i \in Instances, NEW l,
           Moved(p, q, s, to)
    PROVE  /\ InstanceOf[s] # i \/ (p[s] \in l <=> to \in l) => Size(q, i, l) = Size(p, i, l)
           /\ InstanceOf[s] = i /\ p[s] \notin l /\ to \in l
                => Size(q, i, l) = Size(p, i, l) + 1
           /\ InstanceOf[s] = i /\ p[s] \in l /\ to \notin l
                => Size(p, i, l) = Size(q, i, l) + 1
<1>1. CASE InstanceOf[s] # i \/ (p[s] \in l <=> to \in l)
  <2>1. Place(q, i, l) = Place(p, i, l)
    BY <1>1 DEF Place, SendersOf, Moved
  <2> QED
    BY <1>1, <2>1 DEF Size
<1>2. CASE InstanceOf[s] = i /\ p[s] \notin l /\ to \in l
  <2>1. Place(q, i, l) = Place(p, i, l) \cup {s} /\ s \notin Place(p, i, l)
    BY <1>2 DEF Place, SendersOf, Moved
  <2>2. IsFiniteSet(Place(p, i, l))
    BY PlaceFinite
  <2>3. Cardinality(Place(p, i, l) \cup {s}) = Cardinality(Place(p, i, l)) + 1
    BY <2>1, <2>2, FS_AddElement
  <2> QED
    BY <1>2, <2>1, <2>3 DEF Size
<1>3. CASE InstanceOf[s] = i /\ p[s] \in l /\ to \notin l
  <2>1. Place(p, i, l) = Place(q, i, l) \cup {s} /\ s \notin Place(q, i, l)
    BY <1>3 DEF Place, SendersOf, Moved
  <2>2. IsFiniteSet(Place(q, i, l))
    BY PlaceFinite
  <2>3. Cardinality(Place(q, i, l) \cup {s}) = Cardinality(Place(q, i, l)) + 1
    BY <2>1, <2>2, FS_AddElement
  <2> QED
    BY <1>3, <2>1, <2>3 DEF Size
<1> QED
  BY <1>1, <1>2, <1>3

LEMMA RowsFinite ==
    ASSUME NEW q \in SUBSET Rows, NEW i
    PROVE  /\ IsFiniteSet(q)
           /\ Cardinality(q) \in Nat
           /\ IsFiniteSet(OwnIn(q, i))
           /\ Cardinality(OwnIn(q, i)) \in Nat
           /\ Cardinality(OwnIn(q, i)) <= Cardinality(q)
<1>1. IsFiniteSet(0..MaxSends)
  BY FS_Interval, LimitAssumption
<1>2. IsFiniteSet(Rows)
  BY <1>1, FS_Product, SendersAssumption DEF Rows
<1>3. IsFiniteSet(q)
  BY <1>2, FS_Subset
<1> QED
  BY <1>3, FS_Subset, FS_CardinalityType DEF OwnIn

LEMMA AddRow ==
    ASSUME NEW q \in SUBSET Rows, NEW c \in Rows, NEW i
    PROVE  /\ Cardinality(q) <= Cardinality(q \cup {c})
           /\ c \notin q => Cardinality(q \cup {c}) = Cardinality(q) + 1
           /\ Cardinality(OwnIn(q \cup {c}, i)) <= Cardinality(OwnIn(q, i)) + 1
           /\ InstanceOf[c[1]] # i => OwnIn(q \cup {c}, i) = OwnIn(q, i)
<1>1. OwnIn(q \cup {c}, i) = IF InstanceOf[c[1]] = i THEN OwnIn(q, i) \cup {c} ELSE OwnIn(q, i)
  BY DEF OwnIn
<1>2. Cardinality(q \cup {c}) = IF c \in q THEN Cardinality(q) ELSE Cardinality(q) + 1
  BY RowsFinite, FS_AddElement
<1>3. Cardinality(OwnIn(q, i) \cup {c}) <= Cardinality(OwnIn(q, i)) + 1
  <2>1. IsFiniteSet(OwnIn(q, i)) /\ Cardinality(OwnIn(q, i)) \in Nat
    BY RowsFinite
  <2>2. Cardinality(OwnIn(q, i) \cup {c}) =
            IF c \in OwnIn(q, i) THEN Cardinality(OwnIn(q, i))
                                 ELSE Cardinality(OwnIn(q, i)) + 1
    BY <2>1, FS_AddElement
  <2> QED
    BY <2>1, <2>2
<1>4. Cardinality(q) \in Nat /\ Cardinality(OwnIn(q, i)) \in Nat
  BY RowsFinite
<1> QED
  BY <1>1, <1>2, <1>3, <1>4

LEMMA RemoveRow ==
    ASSUME NEW q \in SUBSET Rows, NEW c \in q, NEW i
    PROVE  /\ Cardinality(q) = Cardinality(q \ {c}) + 1
           /\ Cardinality(OwnIn(q \ {c}, i)) <= Cardinality(OwnIn(q, i))
<1>1. OwnIn(q \ {c}, i) \subseteq OwnIn(q, i)
  BY DEF OwnIn
<1>2. IsFiniteSet(q) /\ Cardinality(q) \in Nat /\ IsFiniteSet(OwnIn(q, i))
  BY RowsFinite
<1>3. Cardinality(q \ {c}) = Cardinality(q) - 1
  BY <1>2, FS_RemoveElement
<1>4. Cardinality(OwnIn(q \ {c}, i)) <= Cardinality(OwnIn(q, i))
  BY <1>1, <1>2, FS_Subset
<1> QED
  BY <1>2, <1>3, <1>4

-----------------------------------------------------------------------------
(* Types.                                                                  *)

LEMMA CacheTypes ==
    ASSUME NEW f \in [Instances -> Caches], NEW i \in Instances
    PROVE  /\ [f EXCEPT ![i].fresh = FALSE] \in [Instances -> Caches]
           /\ [f EXCEPT ![i].count = @ + 1] \in [Instances -> Caches]
<1>1. f[i] \in [count : Nat, fresh : BOOLEAN]
  BY DEF Caches
<1>2. f[i].count + 1 \in Nat
  BY <1>1
<1>3. [f[i] EXCEPT !.fresh = FALSE] \in Caches
  BY <1>1 DEF Caches
<1>4. [f[i] EXCEPT !.count = f[i].count + 1] \in Caches
  BY <1>1, <1>2 DEF Caches
<1> QED
  BY <1>3, <1>4

LEMMA LandTypes ==
    ASSUME BusTypeOK, NEW i, NEW to \in Locations, Land(i, to)
    PROVE  pc' \in [Senders -> Locations] /\ flight' \in [Instances -> Flights]
BY DEF BusTypeOK, Land, NoFlight, Flights

LEMMA InitTypes == BusInit => BusTypeOK
BY LimitAssumption DEF BusInit, BusTypeOK, EmptyCache, NoFlight, Caches, Flights, Locations

LEMMA NextTypes == BusTypeOK /\ [BusNext]_busVars => BusTypeOK'
<1> USE SendersAssumption, LimitAssumption
<1> SUFFICES ASSUME BusTypeOK, [BusNext]_busVars PROVE BusTypeOK'
  OBVIOUS
<1>0. /\ \A n : Verdict(n) \in Locations
      /\ {"idle", "group", "leading", "following", "count", "notify", "refused"}
             \subseteq Locations
  BY DEF Verdict, Locations, Checking
<1>1. ASSUME NEW s \in Senders, Send(s) \/ Retry(s) PROVE BusTypeOK'
  BY <1>0, <1>1 DEF BusTypeOK, Send, Retry, CheckCache, Go
<1>2. ASSUME NEW s \in Senders, Lead(s) PROVE BusTypeOK'
  <2>1. cache[InstanceOf[s]] \in Caches
    BY DEF BusTypeOK
  <2>2. flight' \in [Instances -> Flights]
    BY <1>2, <2>1 DEF BusTypeOK, Lead, Flights, Caches
  <2> QED
    BY <1>0, <1>2, <2>2 DEF BusTypeOK, Lead, Go
<1>3. ASSUME NEW s \in Senders, Follow(s) PROVE BusTypeOK'
  BY <1>0, <1>3 DEF BusTypeOK, Follow, Go
<1>4. ASSUME NEW s \in Senders, CountPending(s) PROVE BusTypeOK'
  BY <1>4, RowsFinite DEF BusTypeOK, CountPending, Flights
<1>5. ASSUME NEW s \in Senders, StoreCount(s) PROVE BusTypeOK'
  <2> DEFINE i == InstanceOf[s]
  <2>1. i \in Instances
    OBVIOUS
  <2>2. Cardinality(At(i, {"count"})) \in Nat
    <3>1. At(i, {"count"}) = Place(pc, i, {"count"})
      BY DEF At, Place
    <3> QED
      BY <2>1, <3>1, PlaceFinite DEF Size
  <2>3. slack' \in [Instances -> Nat]
    BY <1>5, <2>2 DEF BusTypeOK, StoreCount
  <2>4. flight[i] \in Flights
    BY <2>1 DEF BusTypeOK
  <2>5. cache' \in [Instances -> Caches] /\ flight' \in [Instances -> Flights]
    BY <1>5, <2>4 DEF BusTypeOK, StoreCount, Flights, Caches
  <2> QED
    BY <1>5, <2>3, <2>5 DEF BusTypeOK, StoreCount
<1>6. ASSUME NEW s \in Senders, CountFails(s) PROVE BusTypeOK'
  BY <1>0, <1>6, LandTypes DEF BusTypeOK, CountFails, ConnectionFails
<1>7. ASSUME NEW s \in Senders, Finish(s) PROVE BusTypeOK'
  BY <1>0, <1>7, LandTypes DEF BusTypeOK, Finish
<1>8. ASSUME NEW s \in Senders, Submit(s) PROVE BusTypeOK'
  <2>1. <<s, sent[s]>> \in Rows
    BY DEF BusTypeOK, Rows
  <2>2. CASE Increment(s)
    BY <1>0, <2>2, CacheTypes DEF BusTypeOK, Increment, Go
  <2> QED
    BY <1>0, <1>8, <2>1, <2>2 DEF BusTypeOK, Submit, Insert, InsertFails,
       InsertAnswerLost, ConnectionFails, Go
<1>9. ASSUME NEW s \in Senders, Notify(s) PROVE BusTypeOK'
  BY <1>0, <1>9 DEF BusTypeOK, Notify, Go
<1>10. ASSUME NEW i \in Instances, Expire(i) \/ BusEnds(i) PROVE BusTypeOK'
  <2>1. CASE Expire(i)
    BY <2>1, CacheTypes DEF BusTypeOK, Expire
  <2>2. EmptyCache \in Caches /\ NoFlight \in Flights
    BY DEF EmptyCache, Caches, NoFlight, Flights
  <2>3. CASE BusEnds(i)
    BY <1>0, <2>2, <2>3 DEF BusTypeOK, BusEnds
  <2> QED
    BY <1>10, <2>1, <2>3
<1>11. ASSUME NEW c \in queue, CommandExecuted(c) PROVE BusTypeOK'
  BY <1>11 DEF BusTypeOK, CommandExecuted, ConnectionFails
<1>12. CASE WorkerFails \/ UNCHANGED busVars
  BY <1>12 DEF BusTypeOK, busVars, WorkerFails, ConnectionFails
<1> QED
  BY <1>1, <1>2, <1>3, <1>4, <1>5, <1>6, <1>7, <1>8, <1>9, <1>10, <1>11, <1>12
     DEF BusNext, Check

\* Every variable of the bus keeps its type.
THEOREM Typing == BusSpec => []BusTypeOK
BY InitTypes, NextTypes, PTL DEF BusSpec

-----------------------------------------------------------------------------
(* The calls of the singleflight groups, and the rows.                     *)

\* A call under way has a leader, nobody waits without one, and while the count
\* is being taken there is no fresh one.
FlightInv ==
    \A i \in Instances :
        /\ \A s \in SendersOf(i) :
              pc[s] \in {"leading", "following"} => flight[i].phase # "none"
        /\ flight[i].phase # "none" => \E s \in SendersOf(i) : pc[s] = "leading"
        /\ flight[i].phase \in {"counting", "counted"} => ~cache[i].fresh

\* What a sender is about to insert is not in the table.
RowInv ==
    /\ \A c \in queue : c[2] <= sent[c[1]]
    /\ \A s \in Senders :
          pc[s] \in Checking \cup {"refused", "insert"} => <<s, sent[s]>> \notin queue

LEMMA InitFlight == BusInit => FlightInv /\ RowInv
BY SendersAssumption DEF BusInit, FlightInv, RowInv, NoFlight, Checking, SendersOf

LEMMA NextFlight == BusTypeOK /\ FlightInv /\ [BusNext]_busVars => FlightInv'
<1> SUFFICES ASSUME BusTypeOK, FlightInv, [BusNext]_busVars PROVE FlightInv'
  OBVIOUS
<1> USE SendersAssumption DEF FlightInv, BusTypeOK, SendersOf
<1>0. \A n : Verdict(n) \notin {"leading", "following"}
  BY DEF Verdict
<1>1. ASSUME NEW s \in Senders, Send(s) \/ Retry(s) PROVE FlightInv'
  BY <1>0, <1>1 DEF Send, Retry, CheckCache, Go
<1>2. ASSUME NEW s \in Senders, Lead(s) PROVE FlightInv'
  <2>1. cache[InstanceOf[s]] \in Caches /\ flight[InstanceOf[s]] \in Flights
    OBVIOUS
  <2> QED
    BY <1>2, <2>1 DEF Lead, Go, Flights, Caches
<1>3. ASSUME NEW s \in Senders, Follow(s) PROVE FlightInv'
  BY <1>3 DEF Follow, Go
<1>4. ASSUME NEW s \in Senders, CountPending(s) PROVE FlightInv'
  BY <1>4 DEF CountPending
<1>5. ASSUME NEW s \in Senders, StoreCount(s) PROVE FlightInv'
  <2>1. flight[InstanceOf[s]] \in Flights
    OBVIOUS
  <2> QED
    BY <1>5, <2>1 DEF StoreCount, Flights
<1>6. ASSUME NEW s \in Senders, CountFails(s) \/ Finish(s) PROVE FlightInv'
  BY <1>0, <1>6 DEF CountFails, Finish, Land, At, NoFlight
<1>7. ASSUME NEW s \in Senders, Submit(s) \/ Notify(s) PROVE FlightInv'
  <2>1. CASE Increment(s)
    <3>1. cache[InstanceOf[s]] \in Caches
      OBVIOUS
    <3> QED
      BY <2>1, <3>1 DEF Increment, Go, Caches
  <2> QED
    BY <1>7, <2>1 DEF Submit, Insert, InsertFails, InsertAnswerLost, Notify, Go
<1>8. ASSUME NEW i \in Instances, Expire(i) PROVE FlightInv'
  <2>1. cache[i] \in Caches
    OBVIOUS
  <2> QED
    BY <1>8, <2>1 DEF Expire, Caches
<1>9. ASSUME NEW i \in Instances, BusEnds(i) PROVE FlightInv'
  BY <1>9 DEF BusEnds, EmptyCache, NoFlight
<1>10. CASE (\E c \in queue : CommandExecuted(c)) \/ WorkerFails \/ UNCHANGED busVars
  BY <1>10 DEF CommandExecuted, WorkerFails, busVars
<1> QED
  BY <1>1, <1>2, <1>3, <1>4, <1>5, <1>6, <1>7, <1>8, <1>9, <1>10 DEF BusNext, Check

LEMMA NextRows == BusTypeOK /\ FlightInv /\ RowInv /\ [BusNext]_busVars => RowInv'
<1> SUFFICES ASSUME BusTypeOK, FlightInv, RowInv, [BusNext]_busVars PROVE RowInv'
  OBVIOUS
<1> USE SendersAssumption, LimitAssumption DEF RowInv, BusTypeOK, Checking
<1>0. /\ \A n : Verdict(n) \in {"refused", "insert"}
      /\ \A c \in queue : c[1] \in Senders /\ c[2] \in Nat /\ c = <<c[1], c[2]>>
      /\ \A s \in Senders : sent[s] \in Nat
  BY DEF Verdict, Rows
<1>1. ASSUME NEW s \in Senders, Send(s) PROVE RowInv'
  <2>1. \A c \in queue : c[2] <= sent'[c[1]]
    BY <1>0, <1>1 DEF Send
  <2>2. <<s, sent'[s]>> \notin queue
    BY <1>0, <1>1 DEF Send
  <2> QED
    BY <1>0, <1>1, <2>1, <2>2 DEF Send, CheckCache, Go
<1>2. ASSUME NEW s \in Senders, Retry(s) PROVE RowInv'
  BY <1>0, <1>2 DEF Retry, CheckCache, Go
<1>3. ASSUME NEW s \in Senders, Check(s) PROVE RowInv'
  BY <1>0, <1>3 DEF Check, Lead, Follow, CountPending, StoreCount, CountFails, Finish,
     Land, At, SendersOf, Go
<1>4. ASSUME NEW s \in Senders, Submit(s) PROVE RowInv'
  BY <1>0, <1>4 DEF Submit, Insert, InsertFails, InsertAnswerLost, Increment, Go
<1>5. ASSUME NEW s \in Senders, Notify(s) PROVE RowInv'
  BY <1>5 DEF Notify, Go
<1>6. ASSUME NEW i \in Instances, Expire(i) \/ BusEnds(i) PROVE RowInv'
  BY <1>6 DEF Expire, BusEnds
<1>7. CASE (\E c \in queue : CommandExecuted(c)) \/ WorkerFails \/ UNCHANGED busVars
  BY <1>7 DEF CommandExecuted, WorkerFails, busVars
<1> QED
  BY <1>1, <1>2, <1>3, <1>4, <1>5, <1>6, <1>7 DEF BusNext

-----------------------------------------------------------------------------
(* The counts.  The sizes that matter for one instance: P pending commands  *)
(* of its own, A senders about to insert, C about to increment, n senders,   *)
(* Q pending commands in all.                                                *)

CountsOf(fresh, count, phase, val, sl, P, A, C, n, Q, f) ==
    /\ fresh => count + C <= Q + sl
    /\ phase \in {"counted", "done"} => val <= Q + sl
    /\ phase = "counted" => P + A + 1 <= val + n
    /\ fresh => P + 1 <= count + C + n + f
    /\ phase = "done" /\ val < MaxPending => P + A + 3 <= MaxPending + 2 * n + f
    /\ P + A + 3 <= MaxPending + 3 * n + f

Inserting(p, i) == Size(p, i, {"insert"})

Counting(p, i) == Size(p, i, {"count"})

CountsAt(i) ==
    CountsOf(cache[i].fresh, cache[i].count, flight[i].phase, flight[i].val, slack[i],
             Cardinality(OwnIn(queue, i)), Inserting(pc, i), Counting(pc, i), Num(i),
             Cardinality(queue), failures)

CountsInv == \A i \in Instances : CountsAt(i)

\* There are senders elsewhere while one leads.
LEMMA Crowd ==
    ASSUME NEW p, NEW i \in Instances
    PROVE  /\ Inserting(p, i) + Counting(p, i) <= Num(i)
           /\ Inserting(p, i) + Size(p, i, {"leading", "following"}) <= Num(i)
           /\ (\E s \in SendersOf(i) : p[s] = "leading")
                => Inserting(p, i) + Counting(p, i) + 1 <= Num(i)
<1>1. Inserting(p, i) + Counting(p, i) = Size(p, i, {"insert"} \cup {"count"})
  BY DisjointPlaces DEF Inserting, Counting
<1>2. Inserting(p, i) + Size(p, i, {"leading", "following"})
          = Size(p, i, {"insert"} \cup {"leading", "following"})
  BY DisjointPlaces DEF Inserting
<1>3. Size(p, i, {"insert"} \cup {"count"}) + Size(p, i, {"leading"})
          = Size(p, i, ({"insert"} \cup {"count"}) \cup {"leading"})
  BY DisjointPlaces
<1>4. /\ Size(p, i, {"insert"} \cup {"count"}) \in Nat
      /\ Size(p, i, {"insert"} \cup {"count"}) <= Num(i)
      /\ Size(p, i, {"insert"} \cup {"leading", "following"}) <= Num(i)
      /\ Size(p, i, ({"insert"} \cup {"count"}) \cup {"leading"}) <= Num(i)
      /\ Size(p, i, {"leading"}) \in Nat
      /\ Num(i) \in Nat
  BY PlaceFinite, SendersFinite
<1>5. ASSUME NEW s \in SendersOf(i), p[s] = "leading" PROVE Size(p, i, {"leading"}) # 0
  <2>1. s \in Place(p, i, {"leading"})
    BY <1>5 DEF Place
  <2>2. IsFiniteSet(Place(p, i, {"leading"}))
    BY PlaceFinite
  <2> QED
    BY <2>1, <2>2, FS_EmptySet DEF Size
<1>6. Inserting(p, i) + Counting(p, i) <= Num(i)
  BY <1>1, <1>4
<1>7. ASSUME \E s \in SendersOf(i) : p[s] = "leading"
      PROVE  Inserting(p, i) + Counting(p, i) + 1 <= Num(i)
  <2>1. Size(p, i, {"leading"}) # 0
    BY <1>5, <1>7
  <2> HIDE DEF Size, Num
  <2> QED
    BY <1>1, <1>3, <1>4, <2>1
<1> QED
  BY <1>2, <1>4, <1>6, <1>7

\* Less in the cache, less under way and less pending is no harm.
LEMMA Monotone ==
    ASSUME NEW fr1 \in BOOLEAN, NEW fr2 \in BOOLEAN, NEW ct \in Nat, NEW v \in Nat,
           NEW ph1, NEW ph2, NEW n \in Nat,
           NEW sl1 \in Nat, NEW sl2 \in Nat, NEW P1 \in Nat, NEW P2 \in Nat,
           NEW A1 \in Nat, NEW A2 \in Nat, NEW C \in Nat,
           NEW Q1 \in Nat, NEW Q2 \in Nat, NEW f1 \in Nat, NEW f2 \in Nat,
           fr2 => fr1, ph2 = ph1 \/ ph2 \notin {"counted", "done"},
           P2 <= P1, A2 <= A1, Q1 + sl1 <= Q2 + sl2, f1 <= f2,
           CountsOf(fr1, ct, ph1, v, sl1, P1, A1, C, n, Q1, f1)
    PROVE  CountsOf(fr2, ct, ph2, v, sl2, P2, A2, C, n, Q2, f2)
BY LimitAssumption DEF CountsOf

\* The arithmetic of the steps, in the order of Send.
\* A fresh count lets one more sender through.
LEMMA OneMore ==
    ASSUME NEW fr \in BOOLEAN, NEW ct \in Nat, NEW v \in Nat, NEW ph, NEW n \in Nat \ {0},
           NEW sl \in Nat, NEW P \in Nat, NEW A \in Nat, NEW C \in Nat, NEW Q \in Nat,
           NEW f \in Nat, CountsOf(fr, ct, ph, v, sl, P, A, C, n, Q, f),
           fr, ct < MaxPending, ph # "counted", A + 1 + C <= n, ph = "done" => A + 1 + C + 1 <= n
    PROVE  CountsOf(fr, ct, ph, v, sl, P, A + 1, C, n, Q, f)
BY LimitAssumption DEF CountsOf

\* A fresh count becomes that of the call.
LEMMA TakenOver ==
    ASSUME NEW fr \in BOOLEAN, NEW ct \in Nat, NEW v \in Nat, NEW ph, NEW n \in Nat \ {0},
           NEW sl \in Nat, NEW P \in Nat, NEW A \in Nat, NEW C \in Nat, NEW Q \in Nat,
           NEW f \in Nat, CountsOf(fr, ct, ph, v, sl, P, A, C, n, Q, f),
           fr, A + C + 1 <= n
    PROVE  CountsOf(fr, ct, "done", ct, sl, P, A, C, n, Q, f)
BY LimitAssumption DEF CountsOf

\* The pending commands are counted.
LEMMA Taken ==
    ASSUME NEW fr \in BOOLEAN, NEW ct \in Nat, NEW v \in Nat, NEW ph, NEW n \in Nat \ {0},
           NEW sl \in Nat, NEW P \in Nat, NEW A \in Nat, NEW C \in Nat, NEW Q \in Nat,
           NEW f \in Nat, CountsOf(fr, ct, ph, v, sl, P, A, C, n, Q, f),
           ~fr, P <= Q, A + C + 1 <= n
    PROVE  CountsOf(fr, ct, "counted", Q, 0, P, A, C, n, Q, f)
BY LimitAssumption DEF CountsOf

\* The count taken replaces the one in the cache.
LEMMA Stored ==
    ASSUME NEW fr \in BOOLEAN, NEW ct \in Nat, NEW v \in Nat, NEW ph, NEW n \in Nat \ {0},
           NEW sl \in Nat, NEW P \in Nat, NEW A \in Nat, NEW C \in Nat, NEW Q \in Nat,
           NEW f \in Nat, CountsOf(fr, ct, ph, v, sl, P, A, C, n, Q, f),
           ph = "counted", NEW fr2 \in BOOLEAN, NEW sl2, sl2 = sl + C
    PROVE  CountsOf(fr2, v, "done", v, sl2, P, A, C, n, Q, f)
BY LimitAssumption DEF CountsOf

\* All that wait for a count below the limit are let through.
LEMMA LetThrough ==
    ASSUME NEW fr \in BOOLEAN, NEW ct \in Nat, NEW v \in Nat, NEW ph, NEW n \in Nat \ {0},
           NEW sl \in Nat, NEW P \in Nat, NEW A \in Nat, NEW C \in Nat, NEW Q \in Nat,
           NEW f \in Nat, CountsOf(fr, ct, ph, v, sl, P, A, C, n, Q, f),
           ph = "done", v < MaxPending, NEW L \in Nat, A + L <= n
    PROVE  CountsOf(fr, ct, "none", 0, sl, P, A + L, C, n, Q, f)
BY LimitAssumption DEF CountsOf

\* A row is written, and counted next.
LEMMA Inserted ==
    ASSUME NEW fr \in BOOLEAN, NEW ct \in Nat, NEW v \in Nat, NEW ph, NEW n \in Nat \ {0},
           NEW sl \in Nat, NEW P \in Nat, NEW A \in Nat, NEW C \in Nat, NEW Q \in Nat,
           NEW f \in Nat, CountsOf(fr, ct, ph, v, sl, P, A, C, n, Q, f),
           NEW A2 \in Nat, A = A2 + 1, NEW P2 \in Nat, P2 <= P + 1
    PROVE  CountsOf(fr, ct, ph, v, sl, P2, A2, C + 1, n, Q + 1, f)
BY LimitAssumption DEF CountsOf

\* A row is written or not, and the sender gives up.
LEMMA Unanswered ==
    ASSUME NEW fr \in BOOLEAN, NEW ct \in Nat, NEW v \in Nat, NEW ph, NEW n \in Nat \ {0},
           NEW sl \in Nat, NEW P \in Nat, NEW A \in Nat, NEW C \in Nat, NEW Q \in Nat,
           NEW f \in Nat, CountsOf(fr, ct, ph, v, sl, P, A, C, n, Q, f),
           NEW A2 \in Nat, A = A2 + 1, NEW P2 \in Nat, P2 <= P + 1,
           NEW Q2 \in Nat, Q <= Q2
    PROVE  CountsOf(fr, ct, ph, v, sl, P2, A2, C, n, Q2, f + 1)
BY LimitAssumption DEF CountsOf

\* The cached count is incremented.
LEMMA Incremented ==
    ASSUME NEW fr \in BOOLEAN, NEW ct \in Nat, NEW v \in Nat, NEW ph, NEW n \in Nat \ {0},
           NEW sl \in Nat, NEW P \in Nat, NEW A \in Nat, NEW C \in Nat, NEW Q \in Nat,
           NEW f \in Nat, CountsOf(fr, ct, ph, v, sl, P, A, C, n, Q, f),
           NEW C2 \in Nat, C = C2 + 1
    PROVE  CountsOf(fr, ct + 1, ph, v, sl, P, A, C2, n, Q, f)
BY LimitAssumption DEF CountsOf

\* The instance starts again.
LEMMA Ended ==
    ASSUME NEW fr \in BOOLEAN, NEW ct \in Nat, NEW v \in Nat, NEW ph, NEW n \in Nat \ {0},
           NEW sl \in Nat, NEW P \in Nat, NEW A \in Nat, NEW C \in Nat, NEW Q \in Nat,
           NEW f \in Nat, CountsOf(fr, ct, ph, v, sl, P, A, C, n, Q, f),
           NEW A2 \in Nat, A2 <= A, NEW C2, NEW sl2
    PROVE  CountsOf(FALSE, 0, "none", 0, sl2, P, A2, C2, n, Q, f)
BY LimitAssumption DEF CountsOf

LEMMA Sizes ==
    ASSUME BusTypeOK, NEW i \in Instances
    PROVE  /\ Cardinality(queue) \in Nat
           /\ Cardinality(OwnIn(queue, i)) \in Nat
           /\ Cardinality(OwnIn(queue, i)) <= Cardinality(queue)
           /\ Inserting(pc, i) \in Nat /\ Counting(pc, i) \in Nat
           /\ Num(i) \in Nat \ {0}
           /\ cache[i].fresh \in BOOLEAN /\ cache[i].count \in Nat
           /\ cache[i] = [count |-> cache[i].count, fresh |-> cache[i].fresh]
           /\ flight[i].phase \in {"none", "counting", "counted", "done"}
           /\ flight[i].val \in Nat
           /\ flight[i] = [phase |-> flight[i].phase, val |-> flight[i].val]
           /\ slack[i] \in Nat /\ failures \in Nat
<1>1. /\ queue \in SUBSET Rows /\ failures \in Nat
      /\ cache[i] \in Caches /\ flight[i] \in Flights /\ slack[i] \in Nat
  BY LimitAssumption DEF BusTypeOK
<1>2. Inserting(pc, i) \in Nat /\ Counting(pc, i) \in Nat
  BY PlaceFinite DEF Inserting, Counting
<1>3. /\ Cardinality(queue) \in Nat
      /\ Cardinality(OwnIn(queue, i)) \in Nat
      /\ Cardinality(OwnIn(queue, i)) <= Cardinality(queue)
  BY <1>1, RowsFinite
<1> QED
  BY <1>1, <1>2, <1>3, SendersFinite DEF Caches, Flights

\* What becomes of the sizes when one sender moves.
LEMMA Moves ==
    ASSUME BusTypeOK, NEW s \in Senders, NEW to \in Locations, Go(s, to), NEW i \in Instances
    PROVE  /\ InstanceOf[s] # i \/ {pc[s], to} \cap {"insert", "count"} = {}
                => Inserting(pc', i) = Inserting(pc, i) /\ Counting(pc', i) = Counting(pc, i)
           /\ InstanceOf[s] = i /\ pc[s] \notin {"insert", "count"} /\ to = "insert"
                => /\ Inserting(pc', i) = Inserting(pc, i) + 1
                   /\ Counting(pc', i) = Counting(pc, i)
           /\ InstanceOf[s] = i /\ pc[s] = "insert" /\ to \notin {"insert", "count"}
                => /\ Inserting(pc, i) = Inserting(pc', i) + 1
                   /\ Counting(pc', i) = Counting(pc, i)
           /\ InstanceOf[s] = i /\ pc[s] = "insert" /\ to = "count"
                => /\ Inserting(pc, i) = Inserting(pc', i) + 1
                   /\ Counting(pc', i) = Counting(pc, i) + 1
           /\ InstanceOf[s] = i /\ pc[s] = "count" /\ to \notin {"insert", "count"}
                => /\ Inserting(pc', i) = Inserting(pc, i)
                   /\ Counting(pc, i) = Counting(pc', i) + 1
<1>1. Moved(pc, pc', s, to)
  BY DEF BusTypeOK, Go, Moved
<1>2. ASSUME NEW l
      PROVE  /\ InstanceOf[s] # i \/ (pc[s] \in l <=> to \in l) => Size(pc', i, l) = Size(pc, i, l)
             /\ InstanceOf[s] = i /\ pc[s] \notin l /\ to \in l
                  => Size(pc', i, l) = Size(pc, i, l) + 1
             /\ InstanceOf[s] = i /\ pc[s] \in l /\ to \notin l
                  => Size(pc, i, l) = Size(pc', i, l) + 1
  BY <1>1, Move
<1> QED
  BY <1>2 DEF Inserting, Counting

\* And when a call of the group returns to those that wait for it.
LEMMA LandMoves ==
    ASSUME BusTypeOK, NEW i \in Instances, NEW j \in Instances,
           NEW to \in {"idle", "refused", "insert"}, Land(i, to)
    PROVE  /\ Counting(pc', j) = Counting(pc, j)
           /\ i # j \/ to # "insert" => Inserting(pc', j) = Inserting(pc, j)
           /\ i = j /\ to = "insert"
                => Inserting(pc', j) =
                       Inserting(pc, j) + Size(pc, j, {"leading", "following"})
<1>1. \A s \in SendersOf(j) :
          pc'[s] = IF i = j /\ pc[s] \in {"leading", "following"} THEN to ELSE pc[s]
  BY DEF Land, At, SendersOf
<1>2. Place(pc', j, {"count"}) = Place(pc, j, {"count"})
  BY <1>1 DEF Place
<1>3. i # j \/ to # "insert" => Place(pc', j, {"insert"}) = Place(pc, j, {"insert"})
  BY <1>1 DEF Place
<1>4. i = j /\ to = "insert"
        => Place(pc', j, {"insert"}) = Place(pc, j, {"insert"} \cup {"leading", "following"})
  BY <1>1 DEF Place
<1>5. Size(pc, j, {"insert"}) + Size(pc, j, {"leading", "following"})
          = Size(pc, j, {"insert"} \cup {"leading", "following"})
  BY DisjointPlaces
<1> QED
  BY <1>2, <1>3, <1>4, <1>5, Zenon DEF Inserting, Counting, Size

-----------------------------------------------------------------------------
(* The counts through a step.                                              *)

CountInv == BusTypeOK /\ FlightInv /\ RowInv /\ CountsInv

LEMMA InitCounts == BusInit => CountsInv
<1> SUFFICES ASSUME BusInit, NEW i \in Instances PROVE CountsAt(i)
  BY DEF CountsInv
<1>1. OwnIn(queue, i) = {} /\ queue = {} /\ Cardinality({}) = 0
  BY FS_EmptySet DEF BusInit, OwnIn
<1>2. Place(pc, i, {"insert"}) = {} /\ Place(pc, i, {"count"}) = {}
  BY DEF BusInit, Place, SendersOf
<1>3. Inserting(pc, i) = 0 /\ Counting(pc, i) = 0
  BY <1>1, <1>2 DEF Inserting, Counting, Size
<1>4. ~cache[i].fresh /\ flight[i].phase = "none" /\ failures = 0
  BY DEF BusInit, EmptyCache, NoFlight
<1>5. Num(i) \in Nat \ {0} /\ MaxPending \in Nat \ {0}
  BY SendersFinite, LimitAssumption
<1> QED
  BY <1>1, <1>3, <1>4, <1>5 DEF CountsAt, CountsOf

\* Send and Retry: a fresh count below the limit lets one more through.
LEMMA CountsCheckCache ==
    ASSUME CountInv, NEW s \in Senders, pc[s] \in {"idle", "refused"}, CheckCache(s),
           UNCHANGED <<queue, cache, flight, failures, slack>>, NEW i \in Instances
    PROVE  CountsAt(i)'
<1> DEFINE to == IF cache[InstanceOf[s]].fresh
                   THEN Verdict(cache[InstanceOf[s]].count) ELSE "group"
<1>1. to \in {"group", "refused", "insert"} /\ to \in Locations /\ Go(s, to)
  BY DEF CheckCache, Verdict, Locations, Checking
<1>2. CountsAt(i) /\ BusTypeOK /\ InstanceOf[s] \in Instances
  BY SendersAssumption DEF CountInv, CountsInv
<1>3. CASE InstanceOf[s] # i \/ to # "insert"
  <2>1. Inserting(pc', i) = Inserting(pc, i) /\ Counting(pc', i) = Counting(pc, i)
    BY <1>1, <1>2, <1>3, Moves
  <2> QED
    BY <1>2, <2>1 DEF CountsAt
<1>4. CASE InstanceOf[s] = i /\ to = "insert"
  <2>1. Inserting(pc', i) = Inserting(pc, i) + 1 /\ Counting(pc', i) = Counting(pc, i)
    BY <1>1, <1>2, <1>4, Moves
  <2>2. cache[i].fresh /\ cache[i].count < MaxPending
    <3>1. cache[i].fresh /\ Verdict(cache[i].count) = "insert"
      BY <1>4
    <3>2. cache[i].count \in Nat
      BY <1>2, Sizes
    <3> QED
      BY <3>1, <3>2, LimitAssumption DEF Verdict
  <2>3. flight[i].phase \notin {"counting", "counted"}
    BY <2>2 DEF CountInv, FlightInv
  <2>4. Inserting(pc', i) + Counting(pc', i) <= Num(i)
    BY Crowd
  <2>5. ASSUME flight[i].phase = "done"
        PROVE  Inserting(pc', i) + Counting(pc', i) + 1 <= Num(i)
    <3>1. PICK r \in SendersOf(i) : pc[r] = "leading"
      BY <2>5 DEF CountInv, FlightInv
    <3>2. pc'[r] = "leading"
      BY <1>1, <1>2, <3>1 DEF Go, BusTypeOK, SendersOf
    <3> QED
      BY <3>1, <3>2, Crowd
  <2>6. CountsOf(cache[i].fresh, cache[i].count, flight[i].phase, flight[i].val,
                 slack[i], Cardinality(OwnIn(queue, i)), Inserting(pc, i) + 1,
                 Counting(pc, i), Num(i), Cardinality(queue), failures)
    <3> HIDE DEF to
    <3>1. CountsAt(i) /\ Inserting(pc, i) + 1 + Counting(pc, i) <= Num(i)
      BY <1>2, <2>1, <2>4
    <3>2. flight[i].phase = "done" => Inserting(pc, i) + 1 + Counting(pc, i) + 1 <= Num(i)
      BY <2>1, <2>5
    <3>3. flight[i].phase # "counted"
      BY <2>3
    <3> QED
      BY <1>2, <2>2, <3>1, <3>2, <3>3, Sizes, OneMore DEF CountsAt
  <2> QED
    BY <2>1, <2>6 DEF CountsAt
<1> QED
  BY <1>1, <1>3, <1>4

\* Lead: the count a second look at the cache finds is as good as one taken.
LEMMA CountsLead ==
    ASSUME CountInv, NEW s \in Senders, Lead(s), NEW i \in Instances
    PROVE  CountsAt(i)'
<1>1. CountsAt(i) /\ BusTypeOK /\ InstanceOf[s] \in Instances
  BY SendersAssumption DEF CountInv, CountsInv
<1>2. "leading" \in Locations /\ Go(s, "leading") /\ pc[s] = "group"
  BY DEF Lead, Locations, Checking
<1>3. Inserting(pc', i) = Inserting(pc, i) /\ Counting(pc', i) = Counting(pc, i)
  BY <1>1, <1>2, Moves
<1>4. CASE InstanceOf[s] # i
  <2>1. flight'[i] = flight[i]
    BY <1>1, <1>4 DEF Lead, BusTypeOK
  <2> QED
    BY <1>1, <1>3, <2>1 DEF Lead, CountsAt
<1>5. CASE InstanceOf[s] = i
  <2>1. flight'[i] = IF cache[i].fresh THEN [phase |-> "done", val |-> cache[i].count]
                                      ELSE [phase |-> "counting", val |-> 0]
    BY <1>1, <1>5 DEF Lead, BusTypeOK
  <2>2. s \in SendersOf(i) /\ pc'[s] = "leading"
    BY <1>1, <1>2, <1>5 DEF SendersOf, Go, BusTypeOK
  <2>3. Inserting(pc', i) + Counting(pc', i) + 1 <= Num(i)
    BY <2>2, Crowd
  <2>4. UNCHANGED <<queue, cache, failures, slack>>
    BY DEF Lead
  <2>5. CASE cache[i].fresh
    <3>1. flight'[i].phase = "done" /\ flight'[i].val = cache[i].count
      BY <2>1, <2>5
    <3>2. CountsAt(i) /\ Inserting(pc, i) + Counting(pc, i) + 1 <= Num(i)
      BY <1>1, <1>3, <2>3
    <3>3. CountsOf(cache[i].fresh, cache[i].count, "done", cache[i].count,
                   slack[i], Cardinality(OwnIn(queue, i)), Inserting(pc, i),
                   Counting(pc, i), Num(i), Cardinality(queue), failures)
      BY <1>1, <2>5, <3>2, Sizes, TakenOver DEF CountsAt
    <3> QED
      BY <1>3, <2>4, <3>1, <3>3 DEF CountsAt
  <2>6. CASE ~cache[i].fresh
    <3>1. flight'[i].phase = "counting"
      BY <2>1, <2>6
    <3> QED
      BY <1>1, <1>3, <2>4, <2>6, <3>1 DEF CountsAt, CountsOf
  <2> QED
    BY <2>5, <2>6
<1> QED
  BY <1>4, <1>5

\* CountPending: every pending command of the instance is in the count.
LEMMA CountsCountPending ==
    ASSUME CountInv, NEW s \in Senders, CountPending(s), NEW i \in Instances
    PROVE  CountsAt(i)'
<1>1. CountsAt(i) /\ BusTypeOK /\ InstanceOf[s] \in Instances
  BY SendersAssumption DEF CountInv, CountsInv
<1>2. UNCHANGED <<queue, pc, cache, failures>>
  BY DEF CountPending
<1>3. CASE InstanceOf[s] # i
  <2>1. flight'[i] = flight[i] /\ slack'[i] = slack[i]
    BY <1>1, <1>3 DEF CountPending, BusTypeOK
  <2> QED
    BY <1>1, <1>2, <2>1 DEF CountsAt
<1>4. CASE InstanceOf[s] = i
  <2>1. /\ flight'[i].phase = "counted" /\ flight'[i].val = Cardinality(queue)
        /\ slack'[i] = 0
    BY <1>1, <1>4 DEF CountPending, BusTypeOK
  <2>2. ~cache[i].fresh
    BY <1>4 DEF CountPending, CountInv, FlightInv
  <2>3. s \in SendersOf(i) /\ pc[s] = "leading"
    BY <1>4 DEF SendersOf, CountPending
  <2>4. Inserting(pc, i) + Counting(pc, i) + 1 <= Num(i)
    BY <2>3, Crowd
  <2>5. CountsOf(cache[i].fresh, cache[i].count, "counted", Cardinality(queue),
                 0, Cardinality(OwnIn(queue, i)), Inserting(pc, i),
                 Counting(pc, i), Num(i), Cardinality(queue), failures)
    BY <1>1, <2>2, <2>4, Sizes, Taken DEF CountsAt
  <2> QED
    BY <1>2, <2>1, <2>5 DEF CountsAt
<1> QED
  BY <1>3, <1>4

\* StoreCount: what was added to the cache meanwhile is lost.
LEMMA CountsStoreCount ==
    ASSUME CountInv, NEW s \in Senders, StoreCount(s), NEW i \in Instances
    PROVE  CountsAt(i)'
<1>1. CountsAt(i) /\ BusTypeOK /\ InstanceOf[s] \in Instances
  BY SendersAssumption DEF CountInv, CountsInv
<1>2. UNCHANGED <<queue, pc, failures>>
  BY DEF StoreCount
<1>3. CASE InstanceOf[s] # i
  <2>1. flight'[i] = flight[i] /\ slack'[i] = slack[i] /\ cache'[i] = cache[i]
    BY <1>1, <1>3 DEF StoreCount, BusTypeOK
  <2> QED
    BY <1>1, <1>2, <2>1 DEF CountsAt
<1>4. CASE InstanceOf[s] = i
  <2>1. flight[i] \in Flights
    BY DEF CountInv, BusTypeOK
  <2>2. At(i, {"count"}) = Place(pc, i, {"count"})
    BY DEF At, Place
  <2>3. /\ cache'[i].count = flight[i].val /\ cache'[i].fresh = CacheEnabled
        /\ flight'[i].phase = "done" /\ flight'[i].val = flight[i].val
        /\ flight[i].phase = "counted"
        /\ slack'[i] = slack[i] + Counting(pc, i)
    BY <1>1, <1>4, <2>1, <2>2 DEF StoreCount, BusTypeOK, Flights, Counting, Size
  <2> DEFINE P == Cardinality(OwnIn(queue, i))  A == Inserting(pc, i)
             C == Counting(pc, i)  n == Num(i)  Q == Cardinality(queue)
             fr == cache[i].fresh  ct == cache[i].count  v == flight[i].val
             sl == slack[i]  f == failures
  <2>4. /\ fr \in BOOLEAN /\ ct \in Nat /\ v \in Nat /\ sl \in Nat /\ f \in Nat
        /\ P \in Nat /\ A \in Nat /\ C \in Nat /\ n \in Nat \ {0} /\ Q \in Nat
        /\ CacheEnabled \in BOOLEAN
    BY <1>1, Sizes, LimitAssumption
  <2>5. CountsOf(fr, ct, "counted", v, sl, P, A, C, n, Q, f)
    BY <1>1, <2>3 DEF CountsAt
  <2>6. CountsOf(CacheEnabled, v, "done", v, sl + C, P, A, C, n, Q, f)
    <3> HIDE DEF P, A, C, n, Q, fr, ct, v, sl, f
    <3> QED
      BY <2>4, <2>5, Stored
  <2> QED
    BY <1>2, <2>3, <2>6 DEF CountsAt
<1> QED
  BY <1>3, <1>4


\* Finish and CountFails: those that waited are let through, refused or given an error.
LEMMA CountsLand ==
    ASSUME CountInv, NEW j \in Instances, NEW to \in {"idle", "refused", "insert"},
           Land(j, to), UNCHANGED <<queue, cache, slack>>,
           to = "insert" => flight[j].phase = "done" /\ flight[j].val < MaxPending,
           failures' \in Nat, failures <= failures', NEW i \in Instances
    PROVE  CountsAt(i)'
<1>1. CountsAt(i) /\ BusTypeOK
  BY DEF CountInv, CountsInv
<1>2. Counting(pc', i) = Counting(pc, i)
  BY <1>1, LandMoves
<1>3. flight'[i] = IF i = j THEN NoFlight ELSE flight[i]
  BY <1>1 DEF Land, BusTypeOK
<1> DEFINE P == Cardinality(OwnIn(queue, i))  A == Inserting(pc, i)
           C == Counting(pc, i)  n == Num(i)  Q == Cardinality(queue)
           fr == cache[i].fresh  ct == cache[i].count  v == flight[i].val
           ph == flight[i].phase  sl == slack[i]  f == failures  f2 == failures'
<1>4. /\ fr \in BOOLEAN /\ ct \in Nat /\ v \in Nat /\ sl \in Nat /\ f \in Nat
      /\ P \in Nat /\ A \in Nat /\ C \in Nat /\ n \in Nat \ {0} /\ Q \in Nat
      /\ f2 \in Nat /\ f <= f2
  BY <1>1, Sizes
<1>5. CountsOf(fr, ct, ph, v, sl, P, A, C, n, Q, f)
  BY <1>1 DEF CountsAt
<1>6. CASE i # j \/ to # "insert"
  <2>1. Inserting(pc', i) = A
    BY <1>1, <1>6, LandMoves
  <2>2. CASE i # j
    <3>1. CountsOf(fr, ct, ph, v, sl, P, A, C, n, Q, f2)
      <4> HIDE DEF P, A, C, n, Q, fr, ct, v, ph, sl, f, f2
      <4> QED
        BY <1>4, <1>5, Monotone
    <3> QED
      BY <1>2, <1>3, <2>1, <2>2, <3>1 DEF CountsAt
  <2>3. CASE i = j
    <3>1. CountsOf(fr, ct, "none", 0, sl, P, A, C, n, Q, f2)
      <4> HIDE DEF P, A, C, n, Q, fr, ct, v, ph, sl, f, f2
      <4> QED
        BY <1>4, <1>5, LimitAssumption DEF CountsOf
    <3> QED
      BY <1>2, <1>3, <2>1, <2>3, <3>1 DEF CountsAt, NoFlight
  <2> QED
    BY <2>2, <2>3
<1>7. CASE i = j /\ to = "insert"
  <2> DEFINE L == Size(pc, i, {"leading", "following"})
  <2>1. Inserting(pc', i) = A + L /\ L \in Nat /\ A + L <= n
    BY <1>1, <1>7, LandMoves, Crowd, PlaceFinite
  <2>2. CountsOf(fr, ct, "none", 0, sl, P, A + L, C, n, Q, f)
    <3>1. ph = "done" /\ v < MaxPending
      BY <1>7
    <3> HIDE DEF P, A, C, n, Q, fr, ct, v, ph, sl, f, f2, L
    <3> QED
      BY <1>4, <1>5, <2>1, <3>1, LetThrough
  <2>3. CountsOf(fr, ct, "none", 0, sl, P, A + L, C, n, Q, f2)
    <3> HIDE DEF P, A, C, n, Q, fr, ct, v, ph, sl, f, f2, L
    <3> QED
      BY <1>4, <2>1, <2>2, LimitAssumption DEF CountsOf
  <2> QED
    BY <1>2, <1>3, <1>7, <2>1, <2>3 DEF CountsAt, NoFlight
<1> QED
  BY <1>6, <1>7

\* Insert, InsertFails and InsertAnswerLost: the row is a new one.
LEMMA CountsInsert ==
    ASSUME CountInv, NEW s \in Senders, NEW i \in Instances,
           Insert(s) \/ InsertFails(s) \/ InsertAnswerLost(s)
    PROVE  CountsAt(i)'
<1>1. CountsAt(i) /\ BusTypeOK /\ InstanceOf[s] \in Instances
  BY SendersAssumption DEF CountInv, CountsInv
<1>2. <<s, sent[s]>> \in Rows /\ <<s, sent[s]>> \notin queue /\ queue \in SUBSET Rows
  BY DEF CountInv, RowInv, BusTypeOK, Rows, Insert, InsertFails, InsertAnswerLost
<1>3. UNCHANGED <<cache, flight, slack>> /\ pc[s] = "insert"
  BY DEF Insert, InsertFails, InsertAnswerLost
<1>4. {"idle", "count"} \subseteq Locations
  BY DEF Locations
<1> DEFINE P == Cardinality(OwnIn(queue, i))  A == Inserting(pc, i)
           C == Counting(pc, i)  n == Num(i)  Q == Cardinality(queue)
           fr == cache[i].fresh  ct == cache[i].count  v == flight[i].val
           ph == flight[i].phase  sl == slack[i]  f == failures
           P2 == Cardinality(OwnIn(queue', i))  A2 == Inserting(pc', i)
           C2 == Counting(pc', i)  Q2 == Cardinality(queue')
<1>5. /\ fr \in BOOLEAN /\ ct \in Nat /\ v \in Nat /\ sl \in Nat /\ f \in Nat
      /\ P \in Nat /\ A \in Nat /\ C \in Nat /\ n \in Nat \ {0} /\ Q \in Nat
  BY <1>1, Sizes
<1>6. CountsOf(fr, ct, ph, v, sl, P, A, C, n, Q, f)
  BY <1>1 DEF CountsAt
<1>7. /\ queue' \in {queue, queue \cup {<<s, sent[s]>>}}
      /\ P2 \in Nat /\ A2 \in Nat /\ C2 \in Nat /\ Q2 \in Nat
  <2>1. queue' \in {queue, queue \cup {<<s, sent[s]>>}} /\ queue' \in SUBSET Rows
    BY <1>2 DEF Insert, InsertFails, InsertAnswerLost
  <2>2. P2 \in Nat /\ Q2 \in Nat
    BY <2>1, RowsFinite
  <2>3. A2 \in Nat /\ C2 \in Nat
    BY PlaceFinite DEF Inserting, Counting
  <2> QED
    BY <2>1, <2>2, <2>3
<1>8. /\ Q <= Q2
      /\ P2 <= P + 1
      /\ InstanceOf[s] # i => P2 = P
      /\ queue' # queue => Q2 = Q + 1
  <2>1. CASE queue' = queue
    BY <1>5, <2>1
  <2>2. CASE queue' = queue \cup {<<s, sent[s]>>}
    <3>1. <<s, sent[s]>>[1] = s
      OBVIOUS
    <3> QED
      BY <1>2, <2>2, <3>1, AddRow
  <2> QED
    BY <1>7, <2>1, <2>2
<1>9. failures' \in {f, f + 1}
  BY DEF Insert, InsertFails, InsertAnswerLost, ConnectionFails
<1>10. CASE InstanceOf[s] # i
  <2>1. A2 = A /\ C2 = C
    BY <1>1, <1>3, <1>4, <1>10, Moves DEF Insert, InsertFails, InsertAnswerLost
  <2>2. CountsOf(fr, ct, ph, v, sl, P, A, C, n, Q2, failures')
    <3> DEFINE f2 == failures'
    <3>1. f2 \in Nat /\ f <= f2
      BY <1>5, <1>9
    <3>2. CountsOf(fr, ct, ph, v, sl, P, A, C, n, Q2, f2)
      <4>1. Q + sl <= Q2 + sl /\ P <= P /\ A <= A
        BY <1>5, <1>7, <1>8
      <4> HIDE DEF P, A, C, n, Q, Q2, fr, ct, v, ph, sl, f, f2
      <4> QED
        BY <1>5, <1>6, <1>7, <3>1, <4>1, Monotone
    <3> QED
      BY <3>2
  <2> QED
    BY <1>3, <1>8, <1>10, <2>1, <2>2 DEF CountsAt
<1>11. CASE InstanceOf[s] = i /\ Insert(s)
  <2>1. A = A2 + 1 /\ C2 = C + 1
    BY <1>1, <1>3, <1>4, <1>11, Moves DEF Insert
  <2>2. Q2 = Q + 1 /\ failures' = f
    BY <1>2, <1>8, <1>11 DEF Insert
  <2>3. CountsOf(fr, ct, ph, v, sl, P2, A2, C + 1, n, Q + 1, f)
    <3> HIDE DEF P, A, C, n, Q, fr, ct, v, ph, sl, f, P2, A2, C2, Q2
    <3> QED
      BY <1>5, <1>6, <1>7, <1>8, <2>1, Inserted
  <2> QED
    BY <1>3, <2>1, <2>2, <2>3 DEF CountsAt
<1>12. CASE InstanceOf[s] = i /\ (InsertFails(s) \/ InsertAnswerLost(s))
  <2>1. A = A2 + 1 /\ C2 = C
    BY <1>1, <1>3, <1>4, <1>12, Moves DEF InsertFails, InsertAnswerLost
  <2>2. failures' = f + 1
    BY <1>12 DEF InsertFails, InsertAnswerLost, ConnectionFails
  <2>3. CountsOf(fr, ct, ph, v, sl, P2, A2, C, n, Q2, f + 1)
    <3> HIDE DEF P, A, C, n, Q, fr, ct, v, ph, sl, f, P2, A2, C2, Q2
    <3> QED
      BY <1>5, <1>6, <1>7, <1>8, <2>1, Unanswered
  <2> QED
    BY <1>3, <2>1, <2>2, <2>3 DEF CountsAt
<1> QED
  BY <1>10, <1>11, <1>12


\* Increment: the sender's row is in the cached count instead of about to be.
LEMMA CountsIncrement ==
    ASSUME CountInv, NEW s \in Senders, NEW i \in Instances, Increment(s)
    PROVE  CountsAt(i)'
<1>1. CountsAt(i) /\ BusTypeOK /\ InstanceOf[s] \in Instances
  BY SendersAssumption DEF CountInv, CountsInv
<1>2. UNCHANGED <<queue, flight, slack, failures>> /\ pc[s] = "count" /\ Go(s, "notify")
  BY DEF Increment
<1>3. "notify" \in Locations /\ "notify" \notin {"insert", "count"}
  BY DEF Locations
<1>4. CASE InstanceOf[s] # i
  <2>1. Inserting(pc', i) = Inserting(pc, i) /\ Counting(pc', i) = Counting(pc, i)
    BY <1>1, <1>2, <1>3, <1>4, Moves
  <2>2. cache'[i] = cache[i]
    BY <1>1, <1>4 DEF Increment, BusTypeOK
  <2> QED
    BY <1>1, <1>2, <2>1, <2>2 DEF CountsAt
<1>5. CASE InstanceOf[s] = i
  <2> DEFINE P == Cardinality(OwnIn(queue, i))  A == Inserting(pc, i)
             C == Counting(pc, i)  n == Num(i)  Q == Cardinality(queue)
             fr == cache[i].fresh  ct == cache[i].count  v == flight[i].val
             ph == flight[i].phase  sl == slack[i]  f == failures
             C2 == Counting(pc', i)
  <2>1. Inserting(pc', i) = A /\ C = C2 + 1
    BY <1>1, <1>2, <1>3, <1>5, Moves
  <2>2. cache'[i].fresh = fr /\ cache'[i].count = ct + 1
    <3>1. cache[i] \in Caches
      BY DEF CountInv, BusTypeOK
    <3> QED
      BY <1>5, <3>1 DEF Increment, Caches, CountInv, BusTypeOK
  <2>3. /\ fr \in BOOLEAN /\ ct \in Nat /\ v \in Nat /\ sl \in Nat /\ f \in Nat
        /\ P \in Nat /\ A \in Nat /\ C \in Nat /\ n \in Nat \ {0} /\ Q \in Nat
    BY <1>1, Sizes
  <2>4. C2 \in Nat
    BY PlaceFinite DEF Counting
  <2>5. CountsOf(fr, ct, ph, v, sl, P, A, C, n, Q, f)
    BY <1>1 DEF CountsAt
  <2>6. CountsOf(fr, ct + 1, ph, v, sl, P, A, C2, n, Q, f)
    <3> HIDE DEF P, A, C, n, Q, fr, ct, v, ph, sl, f, C2
    <3> QED
      BY <2>1, <2>3, <2>4, <2>5, Incremented
  <2> QED
    BY <1>2, <2>1, <2>2, <2>6 DEF CountsAt
<1> QED
  BY <1>4, <1>5

\* Follow and Notify move a sender that neither inserts nor counts.
LEMMA CountsMove ==
    ASSUME CountInv, NEW s \in Senders, NEW i \in Instances, Follow(s) \/ Notify(s)
    PROVE  CountsAt(i)'
<1>1. CountsAt(i) /\ BusTypeOK
  BY DEF CountInv, CountsInv
<1>2. PICK to \in {"following", "idle"} : Go(s, to)
  BY DEF Follow, Notify
<1>3. {pc[s], to} \cap {"insert", "count"} = {} /\ to \in Locations
  BY DEF Follow, Notify, Locations, Checking
<1>4. Inserting(pc', i) = Inserting(pc, i) /\ Counting(pc', i) = Counting(pc, i)
  BY <1>1, <1>2, <1>3, Moves
<1> QED
  BY <1>1, <1>4 DEF Follow, Notify, CountsAt

\* Expire: a count that is not fresh promises nothing.
LEMMA CountsExpire ==
    ASSUME CountInv, NEW j \in Instances, NEW i \in Instances, Expire(j)
    PROVE  CountsAt(i)'
<1>1. CountsAt(i) /\ BusTypeOK
  BY DEF CountInv, CountsInv
<1>2. UNCHANGED <<queue, pc, flight, slack, failures>>
  BY DEF Expire
<1>3. /\ cache'[i].count = cache[i].count
      /\ cache'[i].fresh = cache[i].fresh \/ ~cache'[i].fresh
      /\ cache'[i].fresh \in BOOLEAN
  <2>1. cache[i] \in Caches
    BY <1>1 DEF BusTypeOK
  <2> QED
    BY <1>1, <2>1 DEF Expire, BusTypeOK, Caches
<1> QED
  BY <1>1, <1>2, <1>3 DEF CountsAt, CountsOf

\* BusEnds: the new process has nothing cached and nothing under way.
LEMMA CountsBusEnds ==
    ASSUME CountInv, NEW j \in Instances, NEW i \in Instances, BusEnds(j)
    PROVE  CountsAt(i)'
<1>1. CountsAt(i) /\ BusTypeOK
  BY DEF CountInv, CountsInv
<1>2. UNCHANGED <<queue, failures>>
  BY DEF BusEnds
<1>3. CASE i # j
  <2>1. cache'[i] = cache[i] /\ flight'[i] = flight[i] /\ slack'[i] = slack[i]
    BY <1>1, <1>3 DEF BusEnds, BusTypeOK
  <2>2. \A s \in SendersOf(i) : pc'[s] = pc[s]
    BY <1>3 DEF BusEnds, SendersOf
  <2>3. Inserting(pc', i) = Inserting(pc, i) /\ Counting(pc', i) = Counting(pc, i)
    BY <2>2 DEF Inserting, Counting, Size, Place
  <2> QED
    BY <1>1, <1>2, <2>1, <2>3 DEF CountsAt
<1>4. CASE i = j
  <2> DEFINE P == Cardinality(OwnIn(queue, i))  A == Inserting(pc, i)
             C == Counting(pc, i)  n == Num(i)  Q == Cardinality(queue)
             fr == cache[i].fresh  ct == cache[i].count  v == flight[i].val
             ph == flight[i].phase  sl == slack[i]  f == failures
             C2 == Counting(pc', i)
  <2>1. /\ cache'[i].fresh = FALSE /\ cache'[i].count = 0
        /\ flight'[i].phase = "none" /\ flight'[i].val = 0
    BY <1>1, <1>4 DEF BusEnds, BusTypeOK, EmptyCache, NoFlight
  <2>2. Inserting(pc', i) = 0
    <3>1. Place(pc', i, {"insert"}) = {}
      BY <1>4 DEF BusEnds, Place, SendersOf
    <3> QED
      BY <3>1, FS_EmptySet DEF Inserting, Size
  <2>3. /\ fr \in BOOLEAN /\ ct \in Nat /\ v \in Nat /\ sl \in Nat /\ f \in Nat
        /\ P \in Nat /\ A \in Nat /\ C \in Nat /\ n \in Nat \ {0} /\ Q \in Nat
    BY <1>1, Sizes
  <2>4. CountsOf(fr, ct, ph, v, sl, P, A, C, n, Q, f)
    BY <1>1 DEF CountsAt
  <2>5. CountsOf(FALSE, 0, "none", 0, slack'[i], P, 0, C2, n, Q, f)
    <3>1. 0 <= A
      BY <2>3
    <3> HIDE DEF P, A, C, n, Q, fr, ct, v, ph, sl, f, C2
    <3> QED
      BY <2>3, <2>4, <3>1, LimitAssumption DEF CountsOf
  <2> QED
    BY <1>2, <2>1, <2>2, <2>5 DEF CountsAt
<1> QED
  BY <1>3, <1>4

\* CommandExecuted: the counts are too high by one more.
LEMMA CountsCommandExecuted ==
    ASSUME CountInv, NEW c \in queue, NEW i \in Instances, CommandExecuted(c)
    PROVE  CountsAt(i)'
<1>1. CountsAt(i) /\ BusTypeOK
  BY DEF CountInv, CountsInv
<1>2. UNCHANGED <<pc, cache, flight>> /\ queue' = queue \ {c}
  BY DEF CommandExecuted
<1> DEFINE P == Cardinality(OwnIn(queue, i))  A == Inserting(pc, i)
           C == Counting(pc, i)  n == Num(i)  Q == Cardinality(queue)
           fr == cache[i].fresh  ct == cache[i].count  v == flight[i].val
           ph == flight[i].phase  sl == slack[i]  f == failures
           P2 == Cardinality(OwnIn(queue', i))  Q2 == Cardinality(queue')
           sl2 == slack'[i]  f2 == failures'
<1>3. /\ fr \in BOOLEAN /\ ct \in Nat /\ v \in Nat /\ sl \in Nat /\ f \in Nat
      /\ P \in Nat /\ A \in Nat /\ C \in Nat /\ n \in Nat \ {0} /\ Q \in Nat
  BY <1>1, Sizes
<1>4. CountsOf(fr, ct, ph, v, sl, P, A, C, n, Q, f)
  BY <1>1 DEF CountsAt
<1>5. queue \in SUBSET Rows /\ queue' \in SUBSET Rows
  BY <1>1, <1>2 DEF BusTypeOK
<1>6. P2 \in Nat /\ Q2 \in Nat
  BY <1>5, RowsFinite
<1>7. Q = Q2 + 1 /\ P2 <= P
  BY <1>2, <1>5, RemoveRow
<1>8. sl2 = sl + 1
  BY DEF CommandExecuted
<1>9. f2 \in Nat /\ f <= f2
  BY <1>3 DEF CommandExecuted, ConnectionFails
<1>10. CountsOf(fr, ct, ph, v, sl2, P2, A, C, n, Q2, f2)
  <2>1. Q + sl <= Q2 + sl2 /\ A <= A /\ sl2 \in Nat
    BY <1>3, <1>6, <1>7, <1>8
  <2> HIDE DEF P, A, C, n, Q, fr, ct, v, ph, sl, f, P2, Q2, sl2, f2
  <2> QED
    BY <1>3, <1>4, <1>6, <1>7, <1>9, <2>1, Monotone
<1> QED
  BY <1>2, <1>10 DEF CountsAt

LEMMA NextCounts == CountInv /\ [BusNext]_busVars => CountsInv'
<1> SUFFICES ASSUME CountInv, [BusNext]_busVars, NEW i \in Instances PROVE CountsAt(i)'
  BY DEF CountsInv
<1>0. CountsAt(i) /\ BusTypeOK /\ BusTypeOK'
  BY NextTypes DEF CountInv, CountsInv
<1>1. ASSUME NEW s \in Senders, Send(s) \/ Retry(s) PROVE CountsAt(i)'
  BY <1>1, CountsCheckCache DEF Send, Retry
<1>2. ASSUME NEW s \in Senders, CountFails(s) \/ Finish(s) PROVE CountsAt(i)'
  <2>1. InstanceOf[s] \in Instances
    BY SendersAssumption
  <2>2. failures \in Nat /\ failures' \in Nat
    BY <1>0, LimitAssumption DEF BusTypeOK
  <2>3. CASE CountFails(s)
    <3>1. Land(InstanceOf[s], "idle") /\ failures' = failures + 1
          /\ UNCHANGED <<queue, cache, slack>>
      BY <2>3 DEF CountFails, ConnectionFails
    <3>2. failures <= failures'
      BY <2>2, <3>1
    <3> QED
      BY <2>1, <2>2, <3>1, <3>2, CountsLand
  <2>4. CASE Finish(s)
    <3> DEFINE j == InstanceOf[s]  to == Verdict(flight[j].val)
    <3>1. /\ Land(j, to) /\ UNCHANGED <<queue, cache, slack, failures>>
          /\ flight[j].phase = "done" /\ to \in {"idle", "refused", "insert"}
      BY <2>4 DEF Finish, Verdict
    <3>2. to = "insert" => flight[j].val < MaxPending
      <4>1. flight[j].val \in Nat
        BY <1>0, <2>1, Sizes
      <4> HIDE DEF j
      <4> QED
        BY <4>1, LimitAssumption DEF Verdict
    <3>3. failures <= failures'
      BY <2>2, <3>1
    <3> HIDE DEF to, j
    <3> QED
      BY <2>1, <2>2, <3>1, <3>2, <3>3, CountsLand DEF j
  <2> QED
    BY <1>2, <2>3, <2>4
<1>3. ASSUME NEW s \in Senders, Check(s) PROVE CountsAt(i)'
  BY <1>2, <1>3, CountsLead, CountsMove, CountsCountPending, CountsStoreCount DEF Check
<1>4. ASSUME NEW s \in Senders, Submit(s) \/ Notify(s) PROVE CountsAt(i)'
  BY <1>4, CountsInsert, CountsIncrement, CountsMove DEF Submit
<1>5. ASSUME NEW j \in Instances, Expire(j) \/ BusEnds(j) PROVE CountsAt(i)'
  BY <1>5, CountsExpire, CountsBusEnds
<1>6. ASSUME NEW c \in queue, CommandExecuted(c) PROVE CountsAt(i)'
  BY <1>6, CountsCommandExecuted
<1>7. CASE WorkerFails
  <2> DEFINE P == Cardinality(OwnIn(queue, i))  A == Inserting(pc, i)
             C == Counting(pc, i)  n == Num(i)  Q == Cardinality(queue)
             fr == cache[i].fresh  ct == cache[i].count  v == flight[i].val
             ph == flight[i].phase  sl == slack[i]  f == failures  f2 == failures'
  <2>1. /\ fr \in BOOLEAN /\ ct \in Nat /\ v \in Nat /\ sl \in Nat /\ f \in Nat
        /\ P \in Nat /\ A \in Nat /\ C \in Nat /\ n \in Nat \ {0} /\ Q \in Nat
    BY <1>0, Sizes
  <2>2. CountsOf(fr, ct, ph, v, sl, P, A, C, n, Q, f)
    BY <1>0 DEF CountsAt
  <2>3. f2 \in Nat /\ f <= f2
    BY <1>7, <2>1 DEF WorkerFails, ConnectionFails
  <2>4. CountsOf(fr, ct, ph, v, sl, P, A, C, n, Q, f2)
    <3> HIDE DEF P, A, C, n, Q, fr, ct, v, ph, sl, f, f2
    <3> QED
      BY <2>1, <2>2, <2>3, Monotone
  <2> QED
    BY <1>7, <2>4 DEF WorkerFails, CountsAt
<1>8. CASE UNCHANGED busVars
  BY <1>0, <1>8 DEF busVars, CountsAt
<1> QED
  BY <1>1, <1>3, <1>4, <1>5, <1>6, <1>7, <1>8 DEF BusNext


\* CountInv is inductive.
THEOREM BusInvariant == BusSpec => []CountInv
<1>1. BusInit => CountInv
  BY InitTypes, InitFlight, InitCounts DEF CountInv
<1>2. CountInv /\ [BusNext]_busVars => CountInv'
  <2> SUFFICES ASSUME CountInv, [BusNext]_busVars PROVE CountInv'
    OBVIOUS
  <2>1. BusTypeOK' /\ FlightInv' /\ RowInv'
    BY NextTypes, NextFlight, NextRows DEF CountInv
  <2>2. CountsInv'
    BY NextCounts
  <2> QED
    BY <2>1, <2>2 DEF CountInv
<1> QED
  BY <1>1, <1>2, PTL DEF BusSpec

LEMMA LimitFromCounts == CountInv => SoftLimit
<1> SUFFICES ASSUME CountInv, NEW i \in Instances
             PROVE  Cardinality(Own(i)) + 3
                        <= MaxPending + 3 * Cardinality(SendersOf(i)) + failures
  BY DEF SoftLimit
<1>1. CountsAt(i)
  BY DEF CountInv, CountsInv
<1>2. Own(i) = OwnIn(queue, i)
  BY DEF Own, OwnIn
<1>3. Cardinality(OwnIn(queue, i)) + 3 <= MaxPending + 3 * Num(i) + failures
  <2> DEFINE P == Cardinality(OwnIn(queue, i))  A == Inserting(pc, i)  n == Num(i)
  <2>1. P \in Nat /\ A \in Nat /\ n \in Nat /\ failures \in Nat
    BY Sizes DEF CountInv
  <2>2. P + A + 3 <= MaxPending + 3 * n + failures
    BY <1>1 DEF CountsAt, CountsOf
  <2> HIDE DEF P, A, n
  <2>3. P + 3 <= MaxPending + 3 * n + failures
    BY <2>1, <2>2, LimitAssumption
  <2> QED
    BY <2>3 DEF P, n
<1> QED
  BY <1>2, <1>3 DEF Num

\* The limit is as soft as SoftLimit says and no softer, however many instances,
\* senders, commands, failures and restarts there are.
THEOREM SoftLimitKept == BusSpec => []SoftLimit
BY BusInvariant, LimitFromCounts, PTL

\* What decides on a refusal, a fresh count or one just taken, is explained by the
\* pending commands and the slack.
LEMMA RefusalExplained ==
    CountInv /\ [BusNext]_busVars =>
        \A s \in Senders : pc[s] # "refused" /\ pc'[s] = "refused" =>
            MaxPending <= Cardinality(queue) + slack[InstanceOf[s]]
<1> SUFFICES ASSUME CountInv, [BusNext]_busVars, NEW s \in Senders,
                    pc[s] # "refused", pc'[s] = "refused"
             PROVE  MaxPending <= Cardinality(queue) + slack[InstanceOf[s]]
  OBVIOUS
<1> DEFINE i == InstanceOf[s]
<1>1. i \in Instances /\ BusTypeOK /\ CountsAt(i)
  BY SendersAssumption DEF CountInv, CountsInv
<1>2. /\ cache[i].count \in Nat /\ flight[i].val \in Nat /\ Counting(pc, i) \in Nat
      /\ Cardinality(queue) \in Nat /\ slack[i] \in Nat
  BY <1>1, Sizes
<1>3. \/ cache[i].fresh /\ Verdict(cache[i].count) = "refused"
      \/ flight[i].phase = "done" /\ Verdict(flight[i].val) = "refused"
  <2>1. ASSUME NEW r \in Senders, Send(r) \/ Retry(r)
        PROVE  cache[i].fresh /\ Verdict(cache[i].count) = "refused"
    BY <1>1, <2>1 DEF Send, Retry, CheckCache, Go, BusTypeOK
  <2>2. ASSUME NEW r \in Senders, Finish(r)
        PROVE  flight[i].phase = "done" /\ Verdict(flight[i].val) = "refused"
    BY <1>1, <2>2 DEF Finish, Land, At, SendersOf
  <2>3. ASSUME NEW r \in Senders,
               \/ Lead(r) \/ Follow(r) \/ CountPending(r) \/ StoreCount(r)
               \/ CountFails(r) \/ Submit(r) \/ Notify(r)
        PROVE  FALSE
    BY <1>1, <2>3 DEF Lead, Follow, CountPending, StoreCount, CountFails, Land, Submit,
       Insert, InsertFails, InsertAnswerLost, Increment, Notify, Go, BusTypeOK
  <2>4. ASSUME NEW j \in Instances, Expire(j) \/ BusEnds(j) PROVE FALSE
    BY <1>1, <2>4 DEF Expire, BusEnds
  <2>5. CASE (\E c \in queue : CommandExecuted(c)) \/ WorkerFails \/ UNCHANGED busVars
    BY <2>5 DEF CommandExecuted, WorkerFails, busVars
  <2> QED
    BY <2>1, <2>2, <2>3, <2>4, <2>5 DEF BusNext, Check
<1>4. /\ cache[i].fresh => cache[i].count + Counting(pc, i) <= Cardinality(queue) + slack[i]
      /\ flight[i].phase = "done" => flight[i].val <= Cardinality(queue) + slack[i]
  BY <1>1 DEF CountsAt, CountsOf
<1>5. \A n \in Nat : Verdict(n) = "refused" => MaxPending <= n
  BY LimitAssumption DEF Verdict
<1> HIDE DEF i
<1>6. MaxPending <= Cardinality(queue) + slack[i]
  <2>1. CASE cache[i].fresh /\ Verdict(cache[i].count) = "refused"
    BY <1>2, <1>4, <1>5, <2>1, LimitAssumption
  <2>2. CASE flight[i].phase = "done" /\ Verdict(flight[i].val) = "refused"
    BY <1>2, <1>4, <1>5, <2>2, LimitAssumption
  <2> QED
    BY <1>3, <2>1, <2>2
<1> QED
  BY <1>6 DEF i

\* No refusal is invented, however the count, the cache and the group of calls
\* interleave with inserts, increments and the workers.
THEOREM RefusalsTrue == BusSpec => RefusalsExplained
<1>1. CountInv /\ [BusNext]_busVars =>
          [\A s \in Senders : pc[s] # "refused" /\ pc'[s] = "refused" =>
              MaxPending <= Cardinality(queue) + slack[InstanceOf[s]]]_busVars
  BY RefusalExplained
<1> QED
  BY <1>1, BusInvariant, PTL DEF BusSpec, RefusalsExplained
=============================================================================
