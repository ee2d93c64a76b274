----------------------------- MODULE EventQueue -----------------------------
(***************************************************************************)
(* The path of an access event through the adapter: a terminal pushes it,  *)
(* the store keeps it, the delivery timer sends the oldest pending events  *)
(* to the Device Service (DS) in one call, the answer acknowledges them,   *)
(* and the purge timer deletes what has expired.  The process may die      *)
(* between any two steps and is restarted by its service manager.          *)
(*                                                                         *)
(* Code: src/src/app/delivery/delivery-service.ts, the delivery and purge  *)
(* timers of src/src/app/adapter-runtime.ts, and the statements of         *)
(* src/src/infra/store/sqlite-store.ts (module EventStore).                *)
(*                                                                         *)
(* JavaScript runs one callback to its next await, so an action is the     *)
(* code between two awaits.  The DS and the network are external.          *)
(***************************************************************************)
EXTENDS EventStore

CONSTANTS
    Devices,       \* terminals
    EventIds,      \* eventId strings
    Keys,          \* the <<device, eventId>> pairs the terminals push
    None,          \* SQL NULL
    Retention,     \* RETENTION_MS, in units of the model's clock
    BatchLimits,   \* the values the lease's batchLimit takes
    DsMayOmit,     \* may the DS leave an event of a batch unaccepted?
    MaxSeq,        \* bound: rows ever inserted
    MaxLate        \* bound: abandoned requests still on their way to the DS

ASSUME QueueConstants ==
    /\ Keys \subseteq Devices \X EventIds
    /\ None \notin EventIds
    /\ Retention \in Nat \ {0}
    /\ BatchLimits \subseteq Nat
    /\ DsMayOmit \in BOOLEAN
    /\ MaxSeq \in Nat
    /\ MaxLate \in Nat

VARIABLES
    rows,        \* table "events"
    nextSeq,     \* its AUTOINCREMENT counter
    lastAcked,   \* table "device_state": last_acked_event_id of each device
    up,          \* the process runs
    busy,        \* deliveryBusy
    calls,       \* POST /adapters/events calls a callback waits for
    late,        \* batches whose caller has given up, not yet seen by the DS
    dsEvents,    \* keys the DS holds
    seen         \* history: keys ever recorded in the store

storeVars == <<rows, nextSeq, lastAcked, seen>>
callVars == <<busy, calls, late>>
vars == <<rows, nextSeq, lastAcked, up, busy, calls, late, dsEvents, seen>>

Row == {r \in [dev : Devices, eid : EventIds, seq : 1..MaxSeq,
               acked : BOOLEAN, ttl : 0..Retention] : Key(r) \in Keys}
Items == {it \in [dev : Devices, eid : EventIds, seq : 1..MaxSeq] : Key(it) \in Keys}

\* A call in flight.  "sent": the DS has not processed it.  "answered": it has,
\* and reported the rows of "accepted" as inserted or duplicate.
Call == [batch : SUBSET Items, st : {"sent", "answered"}, accepted : SUBSET Items]

-----------------------------------------------------------------------------
Init ==
    /\ rows = {}
    /\ nextSeq = 1
    /\ lastAcked = [d \in Devices |-> None]
    /\ up = TRUE
    /\ busy = FALSE
    /\ calls = {}
    /\ late = {}
    /\ dsEvents = {}
    /\ seen = {}

\* AdapterRuntime.ingestEvent: record the event of an authenticated push.
Ingest(k) ==
    /\ up
    /\ nextSeq <= MaxSeq
    /\ rows' = Upsert(rows, k, nextSeq, Retention)
    /\ nextSeq' = IF rows' = rows THEN nextSeq ELSE nextSeq + 1
    /\ seen' = seen \cup {k}
    /\ UNCHANGED <<lastAcked, up, callVars, dsEvents>>

\* Mutation: deliveryBusy is not tested.
DeliverWhileBusy(n) ==
    /\ up
    /\ LET batch == ListPending(rows, n) IN
       /\ batch # {}
       /\ calls' = calls \cup {[batch |-> batch, st |-> "sent", accepted |-> {}]}
    /\ busy' = TRUE
    /\ UNCHANGED <<storeVars, up, late, dsEvents>>

\* A tick of the delivery timer: deliverPending up to the await of the call.
DeliverPending(n) ==
    /\ up
    /\ ~busy
    /\ LET batch == ListPending(rows, n) IN
       /\ batch # {}
       /\ calls' = calls \cup {[batch |-> batch, st |-> "sent", accepted |-> {}]}
    /\ busy' = TRUE
    /\ UNCHANGED <<storeVars, up, late, dsEvents>>

\* pending.find((item) => item.eventId === result.eventId): results carry no
\* device id, so the oldest row of the batch with that eventId is taken.
FindPending(batch, eid) ==
    CHOOSE it \in batch :
        /\ it.eid = eid
        /\ \A other \in batch : other.eid = eid => it.seq <= other.seq

\* Mutation: an answer acknowledges the whole batch.
AckWholeBatch(batch, accepted) == {Key(it) : it \in batch}

\* The keys that the results for the accepted rows make the store mark.
AckKeys(batch, accepted) ==
    {Key(FindPending(batch, it.eid)) : it \in accepted}

\* Mutation: device_state is written for a device the event does not belong to.
LastAckedOfAnyDevice(ks) ==
    {f \in [Devices -> EventIds \cup {None}] :
        \A d \in Devices : f[d] = lastAcked[d] \/ \E k \in ks : f[d] = k[2]}

\* last_acked_event_id after markAcked ran once for each key of ks, in the order
\* of the results, which is the DS's choice.
LastAckedAfter(ks) ==
    {f \in [Devices -> EventIds \cup {None}] :
        \A d \in Devices :
            IF \E e \in EventIds : <<d, e>> \in ks
            THEN <<d, f[d]>> \in ks
            ELSE f[d] = lastAcked[d]}

\* applyAckResults marks the keys of ks: one synchronous loop, one transaction
\* for each result.
ApplyAckResults(ks) ==
    /\ rows' = MarkAcked(rows, ks)
    /\ lastAcked' \in LastAckedAfter(ks)
    /\ UNCHANGED <<nextSeq, seen>>

\* The answer arrives and every result is applied.
Acknowledge(c) ==
    /\ c.st = "answered"
    /\ ApplyAckResults(AckKeys(c.batch, c.accepted))
    /\ calls' = calls \ {c}
    /\ busy' = FALSE
    /\ UNCHANGED <<up, late, dsEvents>>

\* The answer arrives, but a transaction throws after the results of "done":
\* deliverPending counts a temporary failure.  A process killed in the loop
\* leaves the same store.
AcknowledgeFails(c) ==
    /\ c.st = "answered"
    /\ \E done \in SUBSET c.accepted :
        ApplyAckResults(AckKeys(c.batch, done))
    /\ calls' = calls \ {c}
    /\ busy' = FALSE
    /\ UNCHANGED <<up, late, dsEvents>>

\* A request the caller has given up may still reach the DS.
StillOnItsWay(batches) ==
    late' = IF Cardinality(late \cup batches) <= MaxLate THEN late \cup batches ELSE late

\* Network error, HTTP_TIMEOUT_MS or a status >= 500: nothing is acknowledged.
TemporaryFailure(c) ==
    /\ calls' = calls \ {c}
    /\ StillOnItsWay({x.batch : x \in {y \in {c} : y.st = "sent"}})
    /\ busy' = FALSE
    /\ UNCHANGED <<storeVars, up, dsEvents>>

\* PermanentDeviceServiceError: nothing is acknowledged, and the callback may
\* have to wait for a re-registration before it lets the next tick deliver.
PermanentFailure(c) ==
    /\ calls' = calls \ {c}
    /\ UNCHANGED <<storeVars, up, busy, late, dsEvents>>

\* Mutation: no finally block, so deliveryBusy stays set.
ReRegisterForgetsBusy == up /\ busy /\ calls = {} /\ UNCHANGED vars

\* The finally block once onNeedReRegister has settled.
ReRegisterSettled ==
    /\ up
    /\ busy
    /\ calls = {}
    /\ busy' = FALSE
    /\ UNCHANGED <<storeVars, up, calls, late, dsEvents>>

\* applyLease, after a register or a heartbeat: the last acked event ids the lease
\* carries replace those of the store, for every device it assigns.  External: the
\* lease may be an old one, but it names no event that the DS does not hold.
ApplyLease ==
    /\ up
    /\ lastAcked' \in {f \in [Devices -> EventIds \cup {None}] :
                        \A d \in Devices : \/ f[d] \in {None, lastAcked[d]}
                                            \/ <<d, f[d]>> \in dsEvents}
    /\ UNCHANGED <<rows, nextSeq, seen, up, callVars, dsEvents>>

\* The purge timer.
Purge ==
    /\ up
    /\ Expired(rows) # {}
    /\ rows' = PurgeExpired(rows)
    /\ UNCHANGED <<nextSeq, lastAcked, seen, up, callVars, dsEvents>>

\* Time passes for every row.
Tick ==
    /\ rows' = Age(rows)
    /\ UNCHANGED <<nextSeq, lastAcked, seen, up, callVars, dsEvents>>

\* The process dies, or is stopped: the store survives, memory does not.
Crash ==
    /\ up
    /\ up' = FALSE
    /\ busy' = FALSE
    /\ calls' = {}
    /\ StillOnItsWay({c.batch : c \in {x \in calls : x.st = "sent"}})
    /\ UNCHANGED <<storeVars, dsEvents>>

Restart ==
    /\ ~up
    /\ up' = TRUE
    /\ UNCHANGED <<storeVars, callVars, dsEvents>>

-----------------------------------------------------------------------------
\* External: the DS takes the events it accepts of a batch, deduplicated by
\* (device, eventId), and reports each as inserted or duplicate.
Accepts(batch) == IF DsMayOmit THEN SUBSET batch ELSE {batch}

DsAnswer(c) ==
    /\ c.st = "sent"
    /\ \E acc \in Accepts(c.batch) :
        /\ dsEvents' = dsEvents \cup {Key(it) : it \in acc}
        /\ calls' = (calls \ {c}) \cup
                       {[c EXCEPT !.st = "answered", !.accepted = acc]}
    /\ UNCHANGED <<storeVars, up, busy, late>>

DsTakesLate(b) ==
    /\ \E acc \in Accepts(b) : dsEvents' = dsEvents \cup {Key(it) : it \in acc}
    /\ late' = late \ {b}
    /\ UNCHANGED <<storeVars, up, busy, calls>>

-----------------------------------------------------------------------------
Next ==
    \/ \E k \in Keys : Ingest(k)
    \/ \E n \in BatchLimits : DeliverPending(n)
    \/ \E c \in calls : \/ Acknowledge(c)
                        \/ AcknowledgeFails(c)
                        \/ TemporaryFailure(c)
                        \/ PermanentFailure(c)
                        \/ DsAnswer(c)
    \/ \E b \in late : DsTakesLate(b)
    \/ ReRegisterSettled
    \/ ApplyLease
    \/ Purge
    \/ Tick
    \/ Crash
    \/ Restart

Spec == Init /\ [][Next]_vars

-----------------------------------------------------------------------------
(* Safety *)

TypeOK ==
    /\ rows \subseteq Row
    /\ nextSeq \in 1..(MaxSeq + 1)
    /\ lastAcked \in [Devices -> EventIds \cup {None}]
    /\ up \in BOOLEAN
    /\ busy \in BOOLEAN
    /\ calls \subseteq Call
    /\ late \subseteq SUBSET Items
    /\ dsEvents \subseteq Keys
    /\ seen \subseteq Keys

\* An eventId names one event of one terminal.  The id is a hash that leaves the
\* device out (access-control-ingest.ts), so this is an assumption on the pushes.
EventIdsNameOneEvent == \A k, l \in Keys : k[2] = l[2] => k = l

\* The runs and theorems on acknowledgement assume that the lookup by eventId
\* cannot pick another device's event, or that it does not matter.
AckLookupIsSound == EventIdsNameOneEvent \/ ~DsMayOmit

\* Only what the DS holds is ever taken off the queue as delivered, whatever
\* answers are lost, requests delayed, events purged and pushed again, and
\* whenever the process dies (markAcked, applyAckResults).
AckedOnlyIfHeld == \A r \in rows : r.acked => Key(r) \in dsEvents

\* The last acked event id kept for a device (device_state) is an event of that
\* device which the DS holds, not one of another device in the same batch, whoever
\* wrote it last, an answer to a delivery or a lease (markAcked, applyLease).
LastAckedIsHeld ==
    \A d \in Devices : lastAcked[d] # None => <<d, lastAcked[d]>> \in dsEvents

\* An event is queued once however often the terminal pushes it, also while it
\* is in flight; the order of the queue is total (upsertEvent, UNIQUE).
OneRowPerEvent ==
    /\ \A r \in rows : r.seq < nextSeq
    /\ \A r, q \in rows : Key(r) = Key(q) \/ r.seq = q.seq => r = q

\* deliveryBusy: no two delivery callbacks wait for the DS at once, so no event
\* is sent twice by one process without a failure in between.
SingleFlight ==
    /\ \A c, e \in calls : c = e
    /\ calls # {} => up /\ busy

\* No queued event is overtaken: a batch, also one that was given up and may
\* still reach the DS, contains every pending event older than any of its own,
\* through failures, purges and re-pushes since it was listed (listPending).
SentBatches == {c.batch : c \in calls} \cup late

NoOvertaking ==
    \A b \in SentBatches : \A it \in b : \A r \in Pending(rows) :
        r.seq < it.seq => Item(r) \in b

-----------------------------------------------------------------------------
(* The inductive invariant *)

\* What a call in flight knows about the DS stays true until it is applied.
AnswersAreTrue ==
    \A c \in calls :
        /\ \A it \in c.accepted : Key(it) \in dsEvents
        /\ IF c.st = "sent" THEN c.accepted = {} ELSE c.accepted \in Accepts(c.batch)

\* Whatever the store, a request or the DS holds was recorded once.
NothingIsInvented ==
    /\ \A r \in rows : Key(r) \in seen
    /\ \A b \in SentBatches : \A it \in b : Key(it) \in seen /\ it.seq < nextSeq
    /\ dsEvents \subseteq seen

\* AckedOnlyIfHeld is not inductive alone: the answer that is about to be applied
\* must be true now (AnswersAreTrue), which rests on what the calls in flight carry
\* (NothingIsInvented), and on the queue holding an event once (OneRowPerEvent).
QueueInv ==
    /\ TypeOK
    /\ OneRowPerEvent
    /\ AnswersAreTrue
    /\ NothingIsInvented

-----------------------------------------------------------------------------
(* Refinement *)

\* The queue implements the ledger: an event leaves the queue only when the DS
\* holds it or its retention is over.
Ledger == INSTANCE EventLedger WITH
    queued  <- {Key(r) : r \in Pending(rows)},
    settled <- {Key(r) : r \in rows \ Pending(rows)},
    due     <- {Key(r) : r \in Expired(rows)},
    held    <- dsEvents

LedgerSpec == Ledger!Spec

-----------------------------------------------------------------------------
(* Liveness *)

\* Timers keep firing while the process runs and the service manager restarts
\* it (Restart=always in scripts/install/linux/dahua-adapter.service).
ProcessFairness ==
    /\ WF_vars(Restart)
    /\ WF_vars(ReRegisterSettled)

DrainSpec == Spec /\ ProcessFairness

\* Outages of the process, the network and the DS are not for ever, and neither is
\* what the DS refuses: a step of the exchange that is possible again and again is
\* taken again and again.  Neither the clock nor the purge timer needs to run.
DeliveryFairness ==
    /\ SF_vars(\E n \in BatchLimits : DeliverPending(n))
    /\ SF_vars(\E c \in calls :
                   DsAnswer(c) /\ [c EXCEPT !.st = "answered", !.accepted = c.batch] \in calls')
    /\ SF_vars(\E c \in calls : Acknowledge(c))
    /\ SF_vars(\E c \in calls : c.accepted = c.batch /\ Acknowledge(c))

\* The clock runs and the purge timer fires; nothing is assumed of the DS.
PurgeFairness == WF_vars(Tick) /\ SF_vars(Purge)

Queued(k) == \E r \in Pending(rows) : Key(r) = k

EveryEventLeavesQueue == \A k \in Keys : Queued(k) ~> ~Queued(k)

\* No event stays in the queue for ever, because it is delivered and acknowledged in
\* the end, even if the clock stands still (startDeliveryLoop, deliverPending).
LeavesByDelivery == DeliveryFairness => EveryEventLeavesQueue

\* No event stays in the queue for ever, even if the DS refuses the head of the queue
\* for ever, because the purge frees the queue (startPurgeLoop).
LeavesByPurge == PurgeFairness => EveryEventLeavesQueue
=============================================================================
