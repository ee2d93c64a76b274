-------------------------- MODULE EventQueue_Proofs --------------------------
(* Proofs about EventQueue, for every value of its constants. *)
EXTENDS EventQueue, FiniteSetTheorems, WellFoundedInduction, TLAPS

-----------------------------------------------------------------------------
(* The store's statements. *)

\* Every statement keeps the table a set of rows of the right type.
LEMMA StoreTypes ==
    ASSUME NEW R, R \subseteq Row
    PROVE  /\ \A ks : MarkAcked(R, ks) \subseteq Row
           /\ PurgeExpired(R) \subseteq Row
           /\ Age(R) \subseteq Row
           /\ \A n : ListPending(R, n) \subseteq Items
<1>1. ASSUME NEW r \in R
      PROVE  /\ [r EXCEPT !.acked = TRUE] \in Row
             /\ [r EXCEPT !.ttl = IF @ = 0 THEN 0 ELSE @ - 1] \in Row
             /\ Item(r) \in Items
  <2>1. r \in Row
    OBVIOUS
  <2>2. [r EXCEPT !.acked = TRUE] \in Row
    BY <2>1 DEF Row, Key
  <2>3. (IF r.ttl = 0 THEN 0 ELSE r.ttl - 1) \in 0..Retention
    BY <2>1, QueueConstants DEF Row
  <2>4. [r EXCEPT !.ttl = IF @ = 0 THEN 0 ELSE @ - 1] \in Row
    BY <2>1, <2>3 DEF Row, Key
  <2>5. Item(r) \in Items
    BY <2>1 DEF Row, Items, Item, Key
  <2>. QED
    BY <2>2, <2>4, <2>5
<1>2. \A ks : MarkAcked(R, ks) \subseteq Row
  BY <1>1 DEF MarkAcked
<1>3. PurgeExpired(R) \subseteq Row
  BY DEF PurgeExpired
<1>4. Age(R) \subseteq Row
  BY <1>1 DEF Age
<1>5. \A n : ListPending(R, n) \subseteq Items
  BY <1>1 DEF ListPending, Oldest, Pending
<1>. QED
  BY <1>2, <1>3, <1>4, <1>5

\* An insert of a key of Keys is well-typed while the bound on rows holds.
LEMMA UpsertType ==
    ASSUME NEW R, R \subseteq Row, NEW k \in Keys, NEW s \in 1..MaxSeq
    PROVE  Upsert(R, k, s, Retention) \subseteq Row
<1> DEFINE new == [dev |-> k[1], eid |-> k[2], seq |-> s,
                   acked |-> FALSE, ttl |-> Retention]
<1>1. k[1] \in Devices /\ k[2] \in EventIds /\ k = <<k[1], k[2]>>
  BY QueueConstants
<1>2. Retention \in 0..Retention
  BY QueueConstants
<1>3. new \in Row
  BY <1>1, <1>2 DEF Row, Key
<1>. QED
  BY <1>3 DEF Upsert

-----------------------------------------------------------------------------
(* Type correctness. *)

\* The empty queue is well-typed.
LEMMA InitTypeOK == Init => TypeOK
<1> SUFFICES ASSUME Init PROVE TypeOK
  OBVIOUS
<1>1. nextSeq \in 1..(MaxSeq + 1)
  BY QueueConstants DEF Init
<1>2. lastAcked \in [Devices -> EventIds \cup {None}]
  BY DEF Init
<1>. QED
  BY <1>1, <1>2 DEF Init, TypeOK

\* Requests that are given up are batches of items like those sent.
LEMMA LateType ==
    ASSUME TypeOK, NEW B, B \subseteq SUBSET Items, StillOnItsWay(B)
    PROVE  late' \subseteq SUBSET Items
BY DEF TypeOK, StillOnItsWay

\* What the DS accepts of a batch of items is a set of keys of Keys.
LEMMA AcceptedType ==
    ASSUME NEW b \in SUBSET Items, NEW acc \in Accepts(b)
    PROVE  acc \subseteq b /\ {Key(it) : it \in acc} \subseteq Keys
BY DEF Accepts, Items

\* Every step keeps the state well-typed.
LEMMA NextTypeOK == TypeOK /\ [Next]_vars => TypeOK'
<1> SUFFICES ASSUME TypeOK, [Next]_vars
             PROVE  TypeOK'
  OBVIOUS
<1> USE DEF TypeOK, storeVars, callVars
<1>1. ASSUME NEW k \in Keys, Ingest(k)
      PROVE  TypeOK'
  <2>1. nextSeq \in 1..MaxSeq /\ nextSeq' \in 1..(MaxSeq + 1)
    BY <1>1, QueueConstants DEF Ingest
  <2>2. rows' \subseteq Row
    BY <1>1, <2>1, UpsertType DEF Ingest
  <2>. QED
    BY <1>1, <2>1, <2>2 DEF Ingest
<1>2. ASSUME NEW n \in BatchLimits, DeliverPending(n)
      PROVE  TypeOK'
  <2>1. ListPending(rows, n) \subseteq Items
    BY StoreTypes
  <2>2. calls' \subseteq Call
    BY <1>2, <2>1 DEF DeliverPending, Call
  <2>. QED
    BY <1>2, <2>2 DEF DeliverPending
<1>3. ASSUME NEW ks, ApplyAckResults(ks)
      PROVE  rows' \subseteq Row /\ nextSeq' = nextSeq /\ seen' = seen
             /\ lastAcked' \in [Devices -> EventIds \cup {None}]
  BY <1>3, StoreTypes DEF ApplyAckResults, LastAckedAfter
<1>4. ASSUME NEW c \in calls, Acknowledge(c) \/ AcknowledgeFails(c)
      PROVE  TypeOK'
  BY <1>3, <1>4 DEF Acknowledge, AcknowledgeFails
<1>5. ASSUME NEW c \in calls, TemporaryFailure(c)
      PROVE  TypeOK'
  <2>1. {x.batch : x \in {y \in {c} : y.st = "sent"}} \subseteq SUBSET Items
    BY DEF Call
  <2>. QED
    BY <1>5, <2>1, LateType DEF TemporaryFailure
<1>6. ASSUME NEW c \in calls, PermanentFailure(c)
      PROVE  TypeOK'
  BY <1>6 DEF PermanentFailure
<1>7. ASSUME NEW c \in calls, DsAnswer(c)
      PROVE  TypeOK'
  <2>1. PICK acc \in Accepts(c.batch) :
          /\ dsEvents' = dsEvents \cup {Key(it) : it \in acc}
          /\ calls' = (calls \ {c}) \cup
                 {[c EXCEPT !.st = "answered", !.accepted = acc]}
    BY <1>7 DEF DsAnswer
  <2>2. acc \subseteq c.batch /\ {Key(it) : it \in acc} \subseteq Keys
    BY AcceptedType DEF Call
  <2>3. [c EXCEPT !.st = "answered", !.accepted = acc] \in Call
    <3>1. c \in Call
      OBVIOUS
    <3>. QED
      BY <2>2, <3>1 DEF Call
  <2>. QED
    BY <1>7, <2>1, <2>2, <2>3 DEF DsAnswer
<1>8. ASSUME NEW b \in late, DsTakesLate(b)
      PROVE  TypeOK'
  BY <1>8, AcceptedType DEF DsTakesLate
<1>9. CASE ReRegisterSettled
  BY <1>9 DEF ReRegisterSettled
<1>10. CASE Purge
  BY <1>10, StoreTypes DEF Purge
<1>11. CASE Tick
  BY <1>11, StoreTypes DEF Tick
<1>12. CASE Crash
  <2>1. {c.batch : c \in {x \in calls : x.st = "sent"}} \subseteq SUBSET Items
    BY DEF Call
  <2>. QED
    BY <1>12, <2>1, LateType DEF Crash
<1>13. CASE Restart
  BY <1>13 DEF Restart
<1>14. CASE ApplyLease
  BY <1>14 DEF ApplyLease
<1>15. CASE UNCHANGED vars
  BY <1>15 DEF vars
<1>. QED
  BY <1>1, <1>2, <1>4, <1>5, <1>6, <1>7, <1>8, <1>9, <1>10, <1>11, <1>12,
     <1>13, <1>14, <1>15 DEF Next

\* Every state the queue reaches is well-typed.
THEOREM TypeCorrect == Spec => []TypeOK
BY InitTypeOK, NextTypeOK, PTL DEF Spec

-----------------------------------------------------------------------------
(* The lookup of a result's event. *)

\* pending.find returns an item of the batch with the eventId it is asked for,
\* whenever the batch has one.
LEMMA FindPendingFinds ==
    ASSUME NEW b \in SUBSET Items, NEW it \in b
    PROVE  FindPending(b, it.eid) \in b /\ FindPending(b, it.eid).eid = it.eid
<1> DEFINE same == {x \in b : x.eid = it.eid}
           seqs == {x.seq : x \in same}
<1>1. seqs \subseteq Nat /\ seqs # {}
  BY QueueConstants DEF Items
<1>2. PICK m \in seqs : \A y \in seqs : ~(<<y, m>> \in OpToRel(<, Nat))
  BY <1>1, NatLessThanWellFounded, WFMin
<1>3. \A y \in seqs : m <= y
  <2> SUFFICES ASSUME NEW y \in seqs PROVE m <= y
    OBVIOUS
  <2>1. y \in Nat /\ m \in Nat
    BY <1>1
  <2>2. <<y, m>> \notin OpToRel(<, Nat)
    BY <1>2
  <2>3. ~(y < m)
    BY <2>1, <2>2 DEF OpToRel
  <2>. QED
    BY <2>1, <2>3
<1>4. PICK x \in same : x.seq = m
  OBVIOUS
<1>5. \A other \in b : other.eid = it.eid => x.seq <= other.seq
  BY <1>3, <1>4
<1>. QED
  BY <1>4, <1>5 DEF FindPending

\* applyAckResults marks only events the DS holds: by eventId alone it finds the
\* event the result is about, or one the DS has accepted as well.
LEMMA AckKeysHeld ==
    ASSUME QueueInv, AckLookupIsSound,
           NEW c \in calls, c.st = "answered", NEW done \in SUBSET c.accepted
    PROVE  AckKeys(c.batch, done) \subseteq dsEvents
<1>1. c.batch \in SUBSET Items /\ c.accepted \in SUBSET c.batch
  BY DEF QueueInv, TypeOK, Call, AnswersAreTrue, Accepts
<1>2. SUFFICES ASSUME NEW it \in done
               PROVE  Key(FindPending(c.batch, it.eid)) \in dsEvents
  BY DEF AckKeys
<1>3. it \in c.batch /\ Key(it) \in dsEvents
  BY <1>1 DEF QueueInv, AnswersAreTrue
<1> DEFINE found == FindPending(c.batch, it.eid)
<1>4. found \in c.batch /\ found.eid = it.eid
  BY <1>1, <1>3, FindPendingFinds
<1>5. CASE EventIdsNameOneEvent
  <2>1. Key(found) \in Keys /\ Key(it) \in Keys /\ Key(found)[2] = Key(it)[2]
    BY <1>1, <1>3, <1>4 DEF Items, Key
  <2>. QED
    BY <1>3, <1>5, <2>1 DEF EventIdsNameOneEvent
<1>6. CASE ~DsMayOmit
  <2>1. c.accepted = c.batch
    BY <1>6 DEF QueueInv, AnswersAreTrue, Accepts
  <2>. QED
    BY <1>4, <2>1 DEF QueueInv, AnswersAreTrue
<1>. QED
  BY <1>5, <1>6 DEF AckLookupIsSound

-----------------------------------------------------------------------------
(* The inductive invariant. *)

\* The inductive invariant holds of the empty queue.
LEMMA InitQueueInv == Init => QueueInv
<1> SUFFICES ASSUME Init PROVE QueueInv
  OBVIOUS
<1>1. TypeOK
  BY InitTypeOK
<1>. QED
  BY <1>1 DEF Init, QueueInv, OneRowPerEvent, AnswersAreTrue,
     NothingIsInvented, SentBatches

\* Losing a call, giving it up or clearing deliveryBusy changes nothing the
\* invariant speaks of: the store and the DS stay, and no request is new.
LEMMA CallsShrink ==
    ASSUME QueueInv, TypeOK', UNCHANGED <<rows, nextSeq, seen, dsEvents>>,
           calls' \subseteq calls, SentBatches' \subseteq SentBatches
    PROVE  QueueInv'
BY DEF QueueInv, OneRowPerEvent, AnswersAreTrue, NothingIsInvented

\* Giving up calls makes no request that was not sent before.
LEMMA GivenUpBatches ==
    ASSUME NEW B, B \subseteq SentBatches, StillOnItsWay(B), calls' \subseteq calls
    PROVE  SentBatches' \subseteq SentBatches
BY DEF StillOnItsWay, SentBatches

\* A push, repeated or not, keeps the inductive invariant.
LEMMA IngestInv ==
    ASSUME QueueInv, TypeOK', NEW k \in Keys, Ingest(k)
    PROVE  QueueInv'
<1> USE DEF QueueInv
<1>1. UNCHANGED <<calls, late, dsEvents>> /\ SentBatches' = SentBatches
  BY DEF Ingest, callVars, SentBatches
<1>2. CASE \E r \in rows : Key(r) = k
  <2>1. rows' = rows /\ nextSeq' = nextSeq /\ seen' = seen
    BY <1>2 DEF Ingest, Upsert, NothingIsInvented
  <2>. QED
    BY <1>1, <2>1, CallsShrink
<1>3. CASE \A r \in rows : Key(r) # k
  <2> DEFINE new == [dev |-> k[1], eid |-> k[2], seq |-> nextSeq,
                     acked |-> FALSE, ttl |-> Retention]
  <2>1. rows' = rows \cup {new} /\ seen' = seen \cup {k}
    BY <1>3 DEF Ingest, Upsert
  <2>2. Key(new) = k /\ new.seq = nextSeq
    BY QueueConstants DEF Key
  <2>3. nextSeq' = nextSeq + 1 /\ nextSeq \in Nat
    BY <1>3, <2>1, <2>2, QueueConstants DEF Ingest, TypeOK
  <2>4. \A r \in rows : r.seq < nextSeq /\ r.seq \in Nat
    BY QueueConstants DEF OneRowPerEvent, TypeOK, Row
  <2> HIDE DEF new
  <2>5. OneRowPerEvent'
    <3>1. \A r \in rows' : r.seq < nextSeq'
      BY <2>1, <2>2, <2>3, <2>4
    <3>2. \A r \in rows : Key(r) # Key(new) /\ r.seq # new.seq
      BY <1>3, <2>2, <2>4
    <3>3. \A r, q \in rows' : Key(r) = Key(q) \/ r.seq = q.seq => r = q
      BY <2>1, <3>2 DEF OneRowPerEvent
    <3>. QED
      BY <3>1, <3>3 DEF OneRowPerEvent
  <2>6. AnswersAreTrue'
    BY <1>1 DEF AnswersAreTrue
  <2>7. \A b \in SentBatches : \A it \in b : it.seq \in Nat
    BY QueueConstants DEF SentBatches, TypeOK, Call, Items
  <2>8. NothingIsInvented'
    <3>1. \A r \in rows' : Key(r) \in seen'
      BY <2>1, <2>2 DEF NothingIsInvented
    <3>2. \A b \in SentBatches : \A it \in b : it.seq < nextSeq'
      BY <2>3, <2>7 DEF NothingIsInvented
    <3>. QED
      BY <1>1, <2>1, <3>1, <3>2 DEF NothingIsInvented
  <2>. QED
    BY <2>5, <2>6, <2>8
<1>. QED
  BY <1>2, <1>3

\* So does listing and sending a batch.
LEMMA DeliverInv ==
    ASSUME QueueInv, TypeOK', NEW n \in BatchLimits, DeliverPending(n)
    PROVE  QueueInv'
<1> USE DEF QueueInv
<1> DEFINE batch == ListPending(rows, n)
<1>1. UNCHANGED <<rows, nextSeq, seen, dsEvents>>
  BY DEF DeliverPending, storeVars
<1>2. calls' = calls \cup {[batch |-> batch, st |-> "sent", accepted |-> {}]}
      /\ late' = late
  BY DEF DeliverPending
<1>3. \A it \in batch : \E r \in rows : Key(it) = Key(r) /\ it.seq = r.seq
  <2>1. \A r : Key(Item(r)) = Key(r) /\ Item(r).seq = r.seq
    BY DEF Item, Key
  <2>2. \A it \in batch : \E r \in rows : it = Item(r)
    BY DEF ListPending, Oldest, Pending
  <2>. QED
    BY <2>1, <2>2
<1> HIDE DEF batch
<1>4. NothingIsInvented'
  <2>1. SentBatches' = SentBatches \cup {batch}
    <3> DEFINE new == [batch |-> batch, st |-> "sent", accepted |-> {}]
    <3>1. calls' = calls \cup {new} /\ new.batch = batch
      BY <1>2
    <3> HIDE DEF new
    <3>. QED
      BY <1>2, <3>1 DEF SentBatches
  <2>. QED
    BY <1>1, <1>3, <2>1 DEF NothingIsInvented, OneRowPerEvent
<1>5. AnswersAreTrue'
  BY <1>1, <1>2 DEF AnswersAreTrue
<1>. QED
  BY <1>1, <1>4, <1>5 DEF OneRowPerEvent

\* Marking rows as acked changes no key and no place in the queue.
LEMMA MarkKeepsRows ==
    ASSUME TypeOK, NEW ks, NEW r \in MarkAcked(rows, ks)
    PROVE  \E q \in rows :
             /\ Key(r) = Key(q) /\ r.seq = q.seq
             /\ r = IF Key(q) \in ks THEN [q EXCEPT !.acked = TRUE] ELSE q
<1>1. PICK q \in rows : r = IF Key(q) \in ks THEN [q EXCEPT !.acked = TRUE] ELSE q
  BY DEF MarkAcked
<1>2. q \in Row
  BY DEF TypeOK
<1>3. Key(r) = Key(q) /\ r.seq = q.seq
  BY <1>1, <1>2 DEF Row, Key
<1>. QED
  BY <1>1, <1>3

\* So does applying an answer, all of it or a part.
LEMMA AcknowledgeInv ==
    ASSUME QueueInv, TypeOK', NEW c \in calls, Acknowledge(c) \/ AcknowledgeFails(c)
    PROVE  QueueInv'
<1> USE DEF QueueInv
<1>1. PICK ks : rows' = MarkAcked(rows, ks)
  BY DEF Acknowledge, AcknowledgeFails, ApplyAckResults
<1>2. UNCHANGED <<nextSeq, seen, dsEvents, late>> /\ calls' \subseteq calls
  BY DEF Acknowledge, AcknowledgeFails, ApplyAckResults
<1>3. \A r \in rows' : r.seq < nextSeq' /\ Key(r) \in seen'
  BY <1>1, <1>2, MarkKeepsRows DEF OneRowPerEvent, NothingIsInvented
<1>4. ASSUME NEW r \in rows', NEW p \in rows', Key(r) = Key(p) \/ r.seq = p.seq
      PROVE  r = p
  <2>1. PICK q \in rows :
          /\ Key(r) = Key(q) /\ r.seq = q.seq
          /\ r = IF Key(q) \in ks THEN [q EXCEPT !.acked = TRUE] ELSE q
    BY <1>1, MarkKeepsRows
  <2>2. PICK t \in rows :
          /\ Key(p) = Key(t) /\ p.seq = t.seq
          /\ p = IF Key(t) \in ks THEN [t EXCEPT !.acked = TRUE] ELSE t
    BY <1>1, MarkKeepsRows
  <2>3. q = t
    BY <1>4, <2>1, <2>2 DEF OneRowPerEvent
  <2>. QED
    BY <2>1, <2>2, <2>3
<1>5. OneRowPerEvent' /\ NothingIsInvented'
  BY <1>2, <1>3, <1>4 DEF OneRowPerEvent, NothingIsInvented, SentBatches
<1>6. AnswersAreTrue'
  BY <1>2 DEF AnswersAreTrue
<1>. QED
  BY <1>5, <1>6

\* An answer of the DS is true when it is given.
LEMMA DsAnswerInv ==
    ASSUME QueueInv, TypeOK', NEW c \in calls, DsAnswer(c)
    PROVE  QueueInv'
<1> USE DEF QueueInv
<1>1. PICK acc \in Accepts(c.batch) :
        /\ dsEvents' = dsEvents \cup {Key(it) : it \in acc}
        /\ calls' = (calls \ {c}) \cup
               {[c EXCEPT !.st = "answered", !.accepted = acc]}
  BY DEF DsAnswer
<1>2. UNCHANGED <<rows, nextSeq, seen, late>>
  BY DEF DsAnswer, storeVars
<1>3. c \in Call
  BY DEF TypeOK
<1> DEFINE c2 == [c EXCEPT !.st = "answered", !.accepted = acc]
<1>4. c2.batch = c.batch /\ c2.st = "answered" /\ c2.accepted = acc
  BY <1>3 DEF Call
<1>5. acc \subseteq c.batch
  BY DEF Accepts
<1>6. AnswersAreTrue'
  BY <1>1, <1>4 DEF AnswersAreTrue
<1>7. SentBatches' = SentBatches
  BY <1>1, <1>2, <1>4 DEF SentBatches
<1>8. NothingIsInvented'
  BY <1>1, <1>2, <1>5, <1>7 DEF NothingIsInvented, SentBatches
<1>. QED
  BY <1>2, <1>6, <1>8 DEF OneRowPerEvent

\* A late request makes no answer false: the DS only gains events.
LEMMA DsTakesLateInv ==
    ASSUME QueueInv, TypeOK', NEW b \in late, DsTakesLate(b)
    PROVE  QueueInv'
<1> USE DEF QueueInv
<1>1. PICK acc \in Accepts(b) : dsEvents' = dsEvents \cup {Key(it) : it \in acc}
  BY DEF DsTakesLate
<1>2. UNCHANGED <<rows, nextSeq, seen, calls>> /\ late' \subseteq late
  BY DEF DsTakesLate, storeVars
<1>3. acc \subseteq b
  BY DEF Accepts
<1>4. NothingIsInvented'
  BY <1>1, <1>2, <1>3 DEF NothingIsInvented, SentBatches
<1>. QED
  BY <1>1, <1>2, <1>4 DEF OneRowPerEvent, AnswersAreTrue

\* The purge takes rows away and changes none.
LEMMA PurgeInv ==
    ASSUME QueueInv, TypeOK', Purge
    PROVE  QueueInv'
BY DEF QueueInv, Purge, PurgeExpired, callVars, SentBatches, OneRowPerEvent,
       AnswersAreTrue, NothingIsInvented

\* Time changes no key, no place and no acknowledgement of a row.
LEMMA TickInv ==
    ASSUME QueueInv, TypeOK', Tick
    PROVE  QueueInv'
<1> USE DEF QueueInv
<1>1. UNCHANGED <<nextSeq, seen, calls, late, dsEvents>>
  BY DEF Tick, callVars
<1>2. \A r \in rows' : \E q \in rows :
        /\ Key(r) = Key(q) /\ r.seq = q.seq
        /\ r = [q EXCEPT !.ttl = IF @ = 0 THEN 0 ELSE @ - 1]
  <2>1. ASSUME NEW q \in rows
        PROVE  LET r == [q EXCEPT !.ttl = IF @ = 0 THEN 0 ELSE @ - 1]
               IN  Key(r) = Key(q) /\ r.seq = q.seq
    <3>1. q \in Row
      BY DEF TypeOK
    <3>. QED
      BY <3>1 DEF Row, Key
  <2>. QED
    BY <2>1 DEF Tick, Age
<1>3. OneRowPerEvent'
  BY <1>1, <1>2 DEF OneRowPerEvent
<1>4. NothingIsInvented'
  BY <1>1, <1>2 DEF NothingIsInvented, SentBatches
<1>. QED
  BY <1>1, <1>3, <1>4 DEF AnswersAreTrue

\* Every step keeps the inductive invariant.
LEMMA NextQueueInv ==
    ASSUME QueueInv, [Next]_vars
    PROVE  QueueInv'
<1>1. TypeOK'
  BY NextTypeOK DEF QueueInv
<1>2. ASSUME NEW c \in calls, TemporaryFailure(c)
      PROVE  QueueInv'
  <2>1. {x.batch : x \in {y \in {c} : y.st = "sent"}} \subseteq SentBatches
    BY DEF SentBatches
  <2>. QED
    BY <1>1, <1>2, <2>1, GivenUpBatches, CallsShrink DEF TemporaryFailure, storeVars
<1>3. ASSUME NEW c \in calls, PermanentFailure(c)
      PROVE  QueueInv'
  BY <1>1, <1>3, CallsShrink DEF PermanentFailure, storeVars, SentBatches
<1>4. CASE ReRegisterSettled
  BY <1>1, <1>4, CallsShrink DEF ReRegisterSettled, storeVars, SentBatches
<1>5. CASE Crash
  <2>1. {c.batch : c \in {x \in calls : x.st = "sent"}} \subseteq SentBatches
    BY DEF SentBatches
  <2>. QED
    BY <1>1, <1>5, <2>1, GivenUpBatches, CallsShrink DEF Crash, storeVars
<1>6. CASE Restart
  BY <1>1, <1>6, CallsShrink DEF Restart, storeVars, callVars, SentBatches
<1>7. CASE ApplyLease
  BY <1>1, <1>7, CallsShrink DEF ApplyLease, callVars, SentBatches
<1>8. CASE UNCHANGED vars
  BY <1>1, <1>8, CallsShrink DEF vars, SentBatches
<1>. QED
  BY <1>1, <1>2, <1>3, <1>4, <1>5, <1>6, <1>7, <1>8, IngestInv, DeliverInv,
     AcknowledgeInv, DsAnswerInv, DsTakesLateInv, PurgeInv, TickInv DEF Next

\* The inductive invariant holds of every state the queue reaches.
THEOREM QueueInvariant == Spec => []QueueInv
BY InitQueueInv, NextQueueInv, PTL DEF Spec

\* One row per event and a total order on the queue.
THEOREM RowsAreUnique == Spec => []OneRowPerEvent
<1>1. QueueInv => OneRowPerEvent
  BY DEF QueueInv
<1>. QED
  BY <1>1, QueueInvariant, PTL

-----------------------------------------------------------------------------
(* What is acknowledged is held. *)

\* Every step keeps what is acked, and what device_state names, held by the DS.
LEMMA NextHeld ==
    ASSUME AckLookupIsSound, QueueInv, AckedOnlyIfHeld, LastAckedIsHeld, [Next]_vars
    PROVE  AckedOnlyIfHeld' /\ LastAckedIsHeld'
<1> USE DEF QueueInv
<1>1. ASSUME NEW k \in Keys, Ingest(k)
      PROVE  AckedOnlyIfHeld' /\ LastAckedIsHeld'
  BY <1>1 DEF Ingest, Upsert, AckedOnlyIfHeld, LastAckedIsHeld
<1>2. ASSUME NEW c \in calls, Acknowledge(c) \/ AcknowledgeFails(c)
      PROVE  AckedOnlyIfHeld' /\ LastAckedIsHeld'
  <2>1. PICK done \in SUBSET c.accepted : ApplyAckResults(AckKeys(c.batch, done))
    BY <1>2 DEF Acknowledge, AcknowledgeFails
  <2> DEFINE ks == AckKeys(c.batch, done)
  <2>2. ks \subseteq dsEvents /\ dsEvents' = dsEvents
    BY <1>2, AckKeysHeld DEF Acknowledge, AcknowledgeFails
  <2> HIDE DEF ks
  <2>3. AckedOnlyIfHeld'
    BY <2>1, <2>2, MarkKeepsRows DEF ApplyAckResults, AckedOnlyIfHeld, ks
  <2>4. LastAckedIsHeld'
    BY <2>1, <2>2 DEF ApplyAckResults, LastAckedAfter, LastAckedIsHeld, ks
  <2>. QED
    BY <2>3, <2>4
<1>3. CASE Tick
  <2>1. ASSUME NEW q \in rows
        PROVE  LET r == [q EXCEPT !.ttl = IF @ = 0 THEN 0 ELSE @ - 1]
               IN  Key(r) = Key(q) /\ r.acked = q.acked
    <3>1. q \in Row
      BY DEF TypeOK
    <3>. QED
      BY <3>1 DEF Row, Key
  <2>. QED
    BY <1>3, <2>1 DEF Tick, Age, AckedOnlyIfHeld, LastAckedIsHeld
<1>4. CASE Purge
  BY <1>4 DEF Purge, PurgeExpired, AckedOnlyIfHeld, LastAckedIsHeld
<1>5. CASE UNCHANGED <<rows, lastAcked>> /\ dsEvents \subseteq dsEvents'
  BY <1>5 DEF AckedOnlyIfHeld, LastAckedIsHeld
<1>6. ASSUME \/ \E n \in BatchLimits : DeliverPending(n)
             \/ \E c \in calls : \/ TemporaryFailure(c) \/ PermanentFailure(c)
                                 \/ DsAnswer(c)
             \/ \E b \in late : DsTakesLate(b)
             \/ ReRegisterSettled \/ Crash \/ Restart \/ UNCHANGED vars
      PROVE  UNCHANGED <<rows, lastAcked>> /\ dsEvents \subseteq dsEvents'
  BY <1>6 DEF DeliverPending, TemporaryFailure, PermanentFailure, DsAnswer,
     DsTakesLate, ReRegisterSettled, Crash, Restart, vars, storeVars
<1>7. CASE ApplyLease
  BY <1>7 DEF ApplyLease, AckedOnlyIfHeld, LastAckedIsHeld
<1>. QED
  BY <1>1, <1>2, <1>3, <1>4, <1>5, <1>6, <1>7 DEF Next

\* Only what the DS holds is taken off the queue as delivered, and the last acked
\* id kept for a device is one of its own events, through lost answers, late
\* requests, purges, repeated pushes and crashes.
THEOREM AckedEventsAreHeld ==
    ASSUME AckLookupIsSound
    PROVE  Spec => [](AckedOnlyIfHeld /\ LastAckedIsHeld)
<1>1. Init => AckedOnlyIfHeld /\ LastAckedIsHeld
  BY DEF Init, AckedOnlyIfHeld, LastAckedIsHeld
<1>. QED
  BY <1>1, NextHeld, QueueInvariant, PTL DEF Spec

\* The last acked event kept for a device is one of its own that the DS holds, also
\* when another device has an event with the same id in the batch (markAcked).
THEOREM LastAckedEventIsHeld ==
    ASSUME AckLookupIsSound
    PROVE  Spec => []LastAckedIsHeld
BY AckedEventsAreHeld, PTL

-----------------------------------------------------------------------------
(* One call at a time. *)

\* Every step keeps the delivery callbacks apart.
LEMMA NextSingleFlight == TypeOK /\ SingleFlight /\ [Next]_vars => SingleFlight'
<1> SUFFICES ASSUME TypeOK, SingleFlight, [Next]_vars
             PROVE  SingleFlight'
  OBVIOUS
<1> USE DEF SingleFlight, storeVars, callVars
<1>1. ASSUME NEW n \in BatchLimits, DeliverPending(n)
      PROVE  SingleFlight'
  BY <1>1 DEF DeliverPending
<1>2. ASSUME NEW c \in calls, DsAnswer(c)
      PROVE  SingleFlight'
  BY <1>2 DEF DsAnswer
<1>3. ASSUME NEW c \in calls,
             \/ Acknowledge(c) \/ AcknowledgeFails(c)
             \/ TemporaryFailure(c) \/ PermanentFailure(c)
      PROVE  SingleFlight'
  <2>1. calls = {c} /\ calls' = calls \ {c}
    BY <1>3 DEF Acknowledge, AcknowledgeFails, TemporaryFailure, PermanentFailure
  <2>. QED
    BY <2>1
<1>4. CASE \/ \E k \in Keys : Ingest(k)
           \/ \E b \in late : DsTakesLate(b)
           \/ ApplyLease \/ Purge \/ Tick \/ UNCHANGED vars
  BY <1>4 DEF Ingest, DsTakesLate, ApplyLease, Purge, Tick, vars
<1>5. CASE ReRegisterSettled \/ Crash \/ Restart
  BY <1>5 DEF ReRegisterSettled, Crash, Restart
<1>. QED
  BY <1>1, <1>2, <1>3, <1>4, <1>5 DEF Next

\* deliveryBusy keeps the delivery callbacks from overlapping.
THEOREM DeliveryIsSingleFlight == Spec => []SingleFlight
<1>1. Init => SingleFlight
  BY DEF Init, SingleFlight
<1>. QED
  BY <1>1, NextSingleFlight, TypeCorrect, PTL DEF Spec

-----------------------------------------------------------------------------
(* Order. *)

\* The table is finite: its rows have different places below nextSeq.
LEMMA RowsFinite ==
    ASSUME TypeOK, OneRowPerEvent
    PROVE  IsFiniteSet(rows)
<1> DEFINE f == [r \in rows |-> r.seq]
<1>1. f \in Injection(rows, 1..MaxSeq)
  BY QueueConstants DEF TypeOK, OneRowPerEvent, Row, Injection, IsInjective
<1>2. IsFiniteSet(1..MaxSeq)
  BY FS_Interval, QueueConstants
<1>. QED
  BY <1>1, <1>2, FS_Injection

\* The pending rows that listPending returns are the oldest ones.
LEMMA ListIsPrefix ==
    ASSUME TypeOK, OneRowPerEvent, NEW n \in BatchLimits,
           NEW it \in ListPending(rows, n), NEW r \in Pending(rows), r.seq < it.seq
    PROVE  Item(r) \in ListPending(rows, n)
<1> DEFINE P == Pending(rows)
           Older(x) == {q \in P : q.seq < x.seq}
<1>1. PICK x \in Oldest(P, n) : it = Item(x)
  BY DEF ListPending
<1>2. x \in P /\ x.seq = it.seq /\ Cardinality(Older(x)) < n
  BY <1>1 DEF Oldest, Item
<1>3. P \subseteq rows /\ \A q \in P : q.seq \in Nat
  BY QueueConstants DEF Pending, TypeOK, Row
<1>4. Older(r) \subseteq Older(x)
  BY <1>2, <1>3
<1>5. IsFiniteSet(Older(x))
  BY <1>3, RowsFinite, FS_Subset
<1>6. IsFiniteSet(Older(r)) /\ Cardinality(Older(r)) <= Cardinality(Older(x))
  BY <1>4, <1>5, FS_Subset
<1>7. Cardinality(Older(r)) \in Nat /\ Cardinality(Older(x)) \in Nat /\ n \in Nat
  BY <1>5, <1>6, FS_CardinalityType, QueueConstants
<1>8. Cardinality(Older(r)) < n
  BY <1>2, <1>6, <1>7
<1>9. r \in Oldest(P, n)
  BY <1>8 DEF Oldest
<1>. QED
  BY <1>9 DEF ListPending

\* No pending row that was there before is new, or younger than it was.
LEMMA PendingShrinks ==
    ASSUME NoOvertaking, SentBatches' \subseteq SentBatches,
           \A r \in Pending(rows)' : \E q \in Pending(rows) : Item(r) = Item(q)
    PROVE  NoOvertaking'
<1>1. \A r, q : Item(r) = Item(q) => r.seq = q.seq
  BY DEF Item
<1>. QED
  BY <1>1 DEF NoOvertaking

\* Every step keeps requests in queue order.
LEMMA NextNoOvertaking ==
    ASSUME QueueInv, NoOvertaking, [Next]_vars
    PROVE  NoOvertaking'
<1> USE DEF QueueInv
<1>1. ASSUME NEW k \in Keys, Ingest(k)
      PROVE  NoOvertaking'
  <2>1. SentBatches' = SentBatches
    BY <1>1 DEF Ingest, callVars, SentBatches
  <2>2. ASSUME NEW b \in SentBatches, NEW it \in b, NEW r \in Pending(rows)',
               r.seq < it.seq
        PROVE  Item(r) \in b
    <3>1. it.seq < nextSeq /\ it.seq \in Nat /\ nextSeq \in Nat
      BY QueueConstants DEF NothingIsInvented, SentBatches, TypeOK, Call, Items
    <3>2. r \in Pending(rows) \/ r.seq = nextSeq
      BY <1>1 DEF Ingest, Upsert, Pending
    <3>. QED
      BY <2>2, <3>1, <3>2 DEF NoOvertaking
  <2>. QED
    BY <2>1, <2>2 DEF NoOvertaking
<1>2. ASSUME NEW n \in BatchLimits, DeliverPending(n)
      PROVE  NoOvertaking'
  <2> DEFINE batch == ListPending(rows, n)
             new == [batch |-> batch, st |-> "sent", accepted |-> {}]
  <2>1. rows' = rows /\ late' = late /\ calls' = calls \cup {new} /\ new.batch = batch
    BY <1>2 DEF DeliverPending, storeVars
  <2> HIDE DEF new
  <2>2. SentBatches' = SentBatches \cup {batch}
    BY <2>1 DEF SentBatches
  <2>3. \A it \in batch : \A r \in Pending(rows) : r.seq < it.seq => Item(r) \in batch
    BY ListIsPrefix
  <2> HIDE DEF batch
  <2>. QED
    BY <2>1, <2>2, <2>3 DEF NoOvertaking
<1>3. ASSUME NEW c \in calls, Acknowledge(c) \/ AcknowledgeFails(c)
      PROVE  NoOvertaking'
  <2>1. PICK ks : rows' = MarkAcked(rows, ks)
    BY <1>3 DEF Acknowledge, AcknowledgeFails, ApplyAckResults
  <2>2. ASSUME NEW r \in Pending(rows)'
        PROVE  r \in Pending(rows)
    <3>1. PICK q \in rows : r = IF Key(q) \in ks THEN [q EXCEPT !.acked = TRUE] ELSE q
      BY <2>1 DEF Pending, MarkAcked
    <3>2. q \in Row
      BY DEF TypeOK
    <3>. QED
      BY <2>2, <3>1, <3>2 DEF Pending, Row
  <2>3. SentBatches' \subseteq SentBatches
    BY <1>3 DEF Acknowledge, AcknowledgeFails, SentBatches
  <2>. QED
    BY <2>2, <2>3, PendingShrinks
<1>4. ASSUME NEW c \in calls, TemporaryFailure(c) \/ PermanentFailure(c)
      PROVE  NoOvertaking'
  <2>1. {x.batch : x \in {y \in {c} : y.st = "sent"}} \subseteq SentBatches
    BY DEF SentBatches
  <2>2. rows' = rows /\ SentBatches' \subseteq SentBatches
    BY <1>4, <2>1, GivenUpBatches
    DEF TemporaryFailure, PermanentFailure, storeVars, SentBatches
  <2>. QED
    BY <2>2, PendingShrinks
<1>5. ASSUME NEW c \in calls, DsAnswer(c)
      PROVE  NoOvertaking'
  <2>1. PICK acc : calls' = (calls \ {c}) \cup
                              {[c EXCEPT !.st = "answered", !.accepted = acc]}
    BY <1>5 DEF DsAnswer
  <2>2. [c EXCEPT !.st = "answered", !.accepted = acc].batch = c.batch
    BY DEF TypeOK, Call
  <2>3. rows' = rows /\ SentBatches' = SentBatches
    BY <1>5, <2>1, <2>2 DEF DsAnswer, storeVars, SentBatches
  <2>. QED
    BY <2>3, PendingShrinks
<1>6. ASSUME NEW b \in late, DsTakesLate(b)
      PROVE  NoOvertaking'
  BY <1>6, PendingShrinks DEF DsTakesLate, storeVars, SentBatches
<1>7. CASE Purge
  <2>1. Pending(rows)' \subseteq Pending(rows)
    BY <1>7 DEF Purge, PurgeExpired, Pending
  <2>. QED
    BY <1>7, <2>1, PendingShrinks DEF Purge, callVars, SentBatches
<1>8. CASE Tick
  <2>1. ASSUME NEW r \in Pending(rows)'
        PROVE  \E q \in Pending(rows) : Item(r) = Item(q)
    <3>1. PICK q \in rows : r = [q EXCEPT !.ttl = IF @ = 0 THEN 0 ELSE @ - 1]
      BY <1>8 DEF Tick, Age, Pending
    <3>2. q \in Row
      BY DEF TypeOK
    <3>. QED
      BY <2>1, <3>1, <3>2 DEF Pending, Row, Item
  <2>. QED
    BY <1>8, <2>1, PendingShrinks DEF Tick, callVars, SentBatches
<1>9. CASE ReRegisterSettled \/ ApplyLease \/ Restart \/ UNCHANGED vars
  BY <1>9, PendingShrinks DEF ReRegisterSettled, ApplyLease, Restart, vars, storeVars,
     callVars, SentBatches
<1>10. CASE Crash
  <2>1. {c.batch : c \in {x \in calls : x.st = "sent"}} \subseteq SentBatches
    BY DEF SentBatches
  <2>2. rows' = rows /\ SentBatches' \subseteq SentBatches
    BY <1>10, <2>1, GivenUpBatches DEF Crash, storeVars
  <2>. QED
    BY <2>2, PendingShrinks
<1>. QED
  BY <1>1, <1>2, <1>3, <1>4, <1>5, <1>6, <1>7, <1>8, <1>9, <1>10 DEF Next

\* No request, not even one given up long ago, leaves out a pending event older
\* than one it carries.
THEOREM RequestsAreInQueueOrder == Spec => []NoOvertaking
<1>1. Init => NoOvertaking
  BY DEF Init, NoOvertaking, SentBatches
<1>. QED
  BY <1>1, NextNoOvertaking, QueueInvariant, PTL DEF Spec

-----------------------------------------------------------------------------
(* Refinement: the queue implements the ledger. *)

\* The ledger's variables, as EventQueue's instance maps them.
LQueued == {Key(r) : r \in Pending(rows)}
LSettled == {Key(r) : r \in rows \ Pending(rows)}
LDue == {Key(r) : r \in Expired(rows)}
LVars == <<seen, LQueued, LSettled, LDue, dsEvents>>

\* The empty queue is an empty ledger.
LEMMA LedgerInit == Init => Ledger!Init
BY DEF Init, Ledger!Init, Pending, Expired

\* A push records an event that is not queued, or changes nothing.
LEMMA LedgerRecord ==
    ASSUME QueueInv, NEW k \in Keys, Ingest(k)
    PROVE  Ledger!Next \/ UNCHANGED LVars
<1>1. CASE \E r \in rows : Key(r) = k
  BY <1>1 DEF Ingest, Upsert, QueueInv, NothingIsInvented, LVars, LQueued,
     LSettled, LDue
<1>2. CASE \A r \in rows : Key(r) # k
  <2> DEFINE new == [dev |-> k[1], eid |-> k[2], seq |-> nextSeq,
                     acked |-> FALSE, ttl |-> Retention]
  <2>1. rows' = rows \cup {new} /\ seen' = seen \cup {k} /\ dsEvents' = dsEvents
    BY <1>2 DEF Ingest, Upsert
  <2>2. Key(new) = k /\ ~new.acked /\ new.ttl # 0 /\ new \notin rows
    BY <1>2, QueueConstants DEF Key
  <2> HIDE DEF new
  <2>3. /\ Pending(rows)' = Pending(rows) \cup {new}
        /\ (rows \ Pending(rows))' = rows \ Pending(rows)
        /\ Expired(rows)' = Expired(rows)
    BY <2>1, <2>2 DEF Pending, Expired
  <2>4. LQueued' = LQueued \cup {k} /\ LSettled' = LSettled /\ LDue' = LDue
    BY <2>2, <2>3 DEF LQueued, LSettled, LDue
  <2>5. k \notin LQueued \cup LSettled
    BY <1>2 DEF LQueued, LSettled, Pending
  <2>6. Ledger!Record(k)
    BY <2>1, <2>4, <2>5 DEF Ledger!Record, LQueued, LSettled, LDue
  <2>. QED
    BY <2>6 DEF Ledger!Next
<1>. QED
  BY <1>1, <1>2

\* Applying an answer settles events the DS holds.
LEMMA LedgerSettle ==
    ASSUME AckLookupIsSound, QueueInv, NEW c \in calls,
           Acknowledge(c) \/ AcknowledgeFails(c)
    PROVE  Ledger!Next
<1> USE DEF QueueInv
<1>1. PICK done \in SUBSET c.accepted : ApplyAckResults(AckKeys(c.batch, done))
  BY DEF Acknowledge, AcknowledgeFails
<1> DEFINE ks == AckKeys(c.batch, done)
           S == ks \cap LQueued
           Mark(r) == IF Key(r) \in ks THEN [r EXCEPT !.acked = TRUE] ELSE r
<1>2. ks \subseteq dsEvents
  BY AckKeysHeld DEF Acknowledge, AcknowledgeFails
<1>3. UNCHANGED <<seen, dsEvents>> /\ rows' = {Mark(r) : r \in rows}
  BY <1>1 DEF Acknowledge, AcknowledgeFails, ApplyAckResults, MarkAcked
<1> HIDE DEF ks
<1>4. ASSUME NEW r \in rows
      PROVE  /\ Key(Mark(r)) = Key(r) /\ Mark(r).ttl = r.ttl
             /\ Mark(r).acked <=> r.acked \/ Key(r) \in ks
  <2>1. r \in Row
    BY DEF TypeOK
  <2>. QED
    BY <2>1 DEF Row, Key
<1> HIDE DEF Mark
<1>5. LQueued' = LQueued \ S
  <2>1. LQueued' = {Key(r) : r \in {q \in rows' : ~q.acked}}
    BY DEF LQueued, Pending
  <2>2. \A k : k \in LQueued' <=> \E r \in rows : k = Key(r) /\ ~r.acked /\ k \notin ks
    BY <1>3, <1>4, <2>1
  <2>. QED
    BY <2>2 DEF LQueued, Pending
<1>6. LSettled' = LSettled \cup S
  <2>1. LSettled' = {Key(r) : r \in {q \in rows' : q.acked}}
    BY DEF LSettled, Pending
  <2>2. \A k : k \in LSettled' <=> \E r \in rows : k = Key(r) /\ (r.acked \/ k \in ks)
    BY <1>3, <1>4, <2>1
  <2>. QED
    BY <2>2 DEF LQueued, LSettled, Pending
<1>7. LDue' = LDue
  BY <1>3, <1>4 DEF LDue, Expired
<1>8. S \in SUBSET Keys /\ S \subseteq dsEvents
  BY <1>2 DEF TypeOK
<1>9. Ledger!Settle(S)
  BY <1>3, <1>5, <1>6, <1>7, <1>8 DEF Ledger!Settle, LQueued, LSettled, LDue
<1>. QED
  BY <1>8, <1>9 DEF Ledger!Next

\* What the DS accepts was recorded.
LEMMA LedgerTake ==
    ASSUME QueueInv, NEW b \in SentBatches, NEW acc \in Accepts(b),
           dsEvents' = dsEvents \cup {Key(it) : it \in acc}, UNCHANGED storeVars
    PROVE  Ledger!Next
<1> DEFINE S == {Key(it) : it \in acc}
<1>1. S \subseteq seen /\ S \subseteq Keys
  BY DEF Accepts, QueueInv, NothingIsInvented, TypeOK
<1>2. Ledger!Take(S)
  BY <1>1 DEF Ledger!Take, storeVars
<1>. QED
  BY <1>1, <1>2 DEF Ledger!Next

\* The purge drops events whose retention is over.
LEMMA LedgerDrop ==
    ASSUME QueueInv, Purge
    PROVE  Ledger!Next
<1> USE DEF QueueInv
<1>1. rows' = rows \ Expired(rows) /\ UNCHANGED <<seen, dsEvents>>
  BY DEF Purge, PurgeExpired
<1>2. \A r, q \in rows : Key(r) = Key(q) => r = q
  BY DEF OneRowPerEvent
<1>3. LQueued' = LQueued \ LDue
  BY <1>1, <1>2 DEF LQueued, LDue, Pending, Expired
<1>4. LSettled' = LSettled \ LDue
  BY <1>1, <1>2 DEF LSettled, LDue, Pending, Expired
<1>5. LDue' = LDue \ LDue
  BY <1>1 DEF LDue, Expired
<1>6. LDue \in SUBSET Keys
  BY DEF LDue, Expired, TypeOK, Row
<1>7. Ledger!Drop(LDue)
  BY <1>1, <1>3, <1>4, <1>5 DEF Ledger!Drop, LQueued, LSettled, LDue
<1>. QED
  BY <1>6, <1>7 DEF Ledger!Next

\* Time only makes more events due.
LEMMA LedgerGrowOld ==
    ASSUME QueueInv, Tick
    PROVE  Ledger!Next
<1> USE DEF QueueInv
<1> DEFINE Older(r) == [r EXCEPT !.ttl = IF @ = 0 THEN 0 ELSE @ - 1]
<1>1. UNCHANGED <<seen, dsEvents>> /\ rows' = {Older(r) : r \in rows}
  BY DEF Tick, Age
<1>2. ASSUME NEW r \in rows
      PROVE  /\ Key(Older(r)) = Key(r) /\ Older(r).acked = r.acked
             /\ r.ttl = 0 => Older(r).ttl = 0
  <2>1. r \in Row
    BY DEF TypeOK
  <2>. QED
    BY <2>1 DEF Row, Key
<1> HIDE DEF Older
<1>3. LQueued' = LQueued /\ LSettled' = LSettled
  BY <1>1, <1>2 DEF LQueued, LSettled, Pending
<1>4. LDue \subseteq LDue' /\ LDue' \subseteq LQueued \cup LSettled
  BY <1>1, <1>2 DEF LDue, Expired, LQueued, LSettled, Pending
<1>5. LDue' \in SUBSET Keys
  BY <1>4 DEF LQueued, LSettled, Pending, TypeOK, Row
<1>6. Ledger!GrowOld(LDue')
  BY <1>1, <1>3, <1>4 DEF Ledger!GrowOld, LQueued, LSettled, LDue
<1>. QED
  BY <1>5, <1>6 DEF Ledger!Next

\* Every step of the queue is a step of the ledger or changes nothing in it.
LEMMA LedgerNext ==
    ASSUME AckLookupIsSound, QueueInv, [Next]_vars
    PROVE  Ledger!Next \/ UNCHANGED LVars
<1>1. ASSUME NEW c \in calls, DsAnswer(c)
      PROVE  Ledger!Next
  BY <1>1, LedgerTake DEF DsAnswer, SentBatches
<1>2. ASSUME NEW b \in late, DsTakesLate(b)
      PROVE  Ledger!Next
  BY <1>2, LedgerTake DEF DsTakesLate, SentBatches
<1>3. CASE \/ \E n \in BatchLimits : DeliverPending(n)
           \/ \E c \in calls : TemporaryFailure(c) \/ PermanentFailure(c)
           \/ ReRegisterSettled \/ ApplyLease \/ Crash \/ Restart \/ UNCHANGED vars
  BY <1>3 DEF DeliverPending, TemporaryFailure, PermanentFailure,
     ReRegisterSettled, ApplyLease, Crash, Restart, vars, storeVars, LVars,
     LQueued, LSettled, LDue
<1>. QED
  BY <1>1, <1>2, <1>3, LedgerRecord, LedgerSettle, LedgerDrop, LedgerGrowOld
  DEF Next

\* The queue implements the ledger: an event leaves it only when the DS holds it
\* or its retention is over, whatever fails in between.
THEOREM QueueImplementsLedger ==
    ASSUME AckLookupIsSound
    PROVE  Spec => LedgerSpec
<1>1. Ledger!vars = LVars /\ Ledger!vars' = LVars'
  BY DEF Ledger!vars, LVars, LQueued, LSettled, LDue
<1>2. QueueInv /\ [Next]_vars => [Ledger!Next]_(Ledger!vars)
  BY <1>1, LedgerNext
<1>. QED
  BY <1>2, LedgerInit, QueueInvariant, PTL DEF Spec, LedgerSpec, Ledger!Spec
=============================================================================
