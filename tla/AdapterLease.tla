---------------------------- MODULE AdapterLease ----------------------------
(***************************************************************************)
(* How the adapter gets its lease from the Device Service (DS) and keeps   *)
(* it: AdapterRuntime.start, the heartbeat and delivery loops as far as    *)
(* the lease is concerned, the single-flight re-registration they share,   *)
(* and stop (src/src/app/adapter-runtime.ts, src/src/app/runtime-lease.ts, *)
(* src/src/index.ts).                                                      *)
(*                                                                         *)
(* A lease is its adapter id and the version of the assignments it         *)
(* carries.  An action is the code between two awaits.  The DS, and what   *)
(* it does to a request the adapter has stopped waiting for, are external. *)
(***************************************************************************)
EXTENDS Naturals, FiniteSets

CONSTANTS
    MayGarble,      \* may a 200 carry a body that is no lease?
    StoreMayFail,   \* may a write of applyLease throw?
    MaxIds,         \* bound: adapter ids the DS hands out
    MaxVersion,     \* bound: versions of the assignments
    MaxLate         \* bound: register requests given up, not yet seen by the DS

ASSUME LeaseConstants ==
    /\ MayGarble \in BOOLEAN
    /\ StoreMayFail \in BOOLEAN
    /\ MaxIds \in Nat \ {0}
    /\ MaxVersion \in Nat \ {0}
    /\ MaxLate \in Nat

VARIABLES
    up,          \* the process runs
    running,     \* AdapterRuntime.running
    adapterId,   \* AdapterRuntime.adapterId, 0 when null or undefined
    asg,         \* version of the assignments in AssignmentRegistry
    auth,        \* version of the assignments PushAuthRegistry was built from
    hb,          \* the heartbeat loop
    dl,          \* the delivery callback
    loop,        \* who is inside registerWithRetry
    promise,     \* reRegisterPromise: the loop that will settle it, or "none"
    call,        \* the DS call each callback waits for
    dsLease,     \* the adapter id the DS holds active, 0 for none
    dsVersion,   \* the DS's current assignments
    nextId,      \* the next adapter id
    late         \* register requests on their way that nobody waits for

runtimeVars == <<up, running, hb, dl, loop, promise>>
leaseVars == <<adapterId, asg, auth>>
dsVars == <<dsLease, dsVersion, nextId, late>>
vars == <<up, running, adapterId, asg, auth, hb, dl, loop, promise, call,
          dsLease, dsVersion, nextId, late>>

\* start(), and a re-registration begun by either loop, run registerWithRetry.
ReRegistrars == {"heartbeatReRegister", "ingestReRegister"}
Registrars == {"start"} \cup ReRegistrars
Callers == Registrars \cup {"heartbeat", "ingest"}

\* A call in flight.  id is the adapter id sent, or that of the lease returned,
\* ver the version of the lease returned.
CallStates == {"none", "sent", "lease", "accepted", "invalid", "garbled"}
Call == [st : CallStates, id : 0..MaxIds, ver : 0..MaxVersion]
NoCall == [st |-> "none", id |-> 0, ver |-> 0]
Sent(id) == [st |-> "sent", id |-> id, ver |-> 0]

TypeOK ==
    /\ up \in BOOLEAN
    /\ running \in BOOLEAN
    /\ adapterId \in 0..MaxIds
    /\ asg \in 0..MaxVersion
    /\ auth \in 0..MaxVersion
    /\ hb \in {"off", "timer", "posting", "joining"}
    /\ dl \in {"idle", "posting", "joining"}
    /\ loop \in [Registrars -> BOOLEAN]
    /\ promise \in ReRegistrars \cup {"none"}
    /\ call \in [Callers -> Call]
    /\ dsLease \in 0..MaxIds
    /\ dsVersion \in 1..MaxVersion
    /\ nextId \in 1..(MaxIds + 1)
    /\ late \in 0..MaxLate

-----------------------------------------------------------------------------
(* start, stop and the process *)

\* Memory of a new process; main() has entered start(), whose first register is
\* sent.
Booted ==
    /\ up' = TRUE
    /\ running' = TRUE
    /\ adapterId' = 0
    /\ asg' = 0
    /\ auth' = 0
    /\ hb' = "off"
    /\ dl' = "idle"
    /\ loop' = [o \in Registrars |-> o = "start"]
    /\ promise' = "none"
    /\ call' = [c \in Callers |-> IF c = "start" THEN Sent(0) ELSE NoCall]

Init ==
    /\ up = TRUE
    /\ running = TRUE
    /\ adapterId = 0
    /\ asg = 0
    /\ auth = 0
    /\ hb = "off"
    /\ dl = "idle"
    /\ loop = [o \in Registrars |-> o = "start"]
    /\ promise = "none"
    /\ call = [c \in Callers |-> IF c = "start" THEN Sent(0) ELSE NoCall]
    /\ dsLease = 0
    /\ dsVersion = 1
    /\ nextId = 1
    /\ late = 0

\* A register whose caller is gone may still reach the DS.
GiveUpOn(S) ==
    late' = IF \E c \in S \cap Registrars : call[c].st = "sent" /\ late < MaxLate
            THEN late + 1
            ELSE late

\* The process ends: an exit, a kill, or an unhandled rejection.
Dies ==
    /\ up' = FALSE
    /\ running' = FALSE
    /\ adapterId' = 0
    /\ asg' = 0
    /\ auth' = 0
    /\ hb' = "off"
    /\ dl' = "idle"
    /\ loop' = [o \in Registrars |-> FALSE]
    /\ promise' = "none"
    /\ call' = [c \in Callers |-> NoCall]
    /\ GiveUpOn(Callers)
    /\ UNCHANGED <<dsLease, dsVersion, nextId>>

Crash == up /\ Dies

\* The service manager starts the process again.
Boot ==
    /\ ~up
    /\ Booted
    /\ UNCHANGED dsVars

\* SIGTERM, handled once start() has returned: stop() clears the timers; calls in
\* flight go on until the HTTP server has closed.
Stop ==
    /\ up
    /\ running
    /\ ~loop["start"]
    /\ running' = FALSE
    /\ hb' = IF hb = "timer" THEN "off" ELSE hb
    /\ UNCHANGED <<up, dl, loop, promise, call, leaseVars, dsVars>>

\* server.close() has settled: process.exit(0).
Exit ==
    /\ up
    /\ ~running
    /\ Dies

-----------------------------------------------------------------------------
(* applyLease and the registration loop *)

\* The heartbeat callback ends: it arms the timer again, which comes to nothing
\* when the adapter has been stopped.
Rearmed == IF running THEN "timer" ELSE "off"

\* Mutation: applyLease without pushAuth.rebuild.
ApplyLeaseKeepsAuth(l) ==
    /\ adapterId' = l.id
    /\ asg' = l.ver
    /\ UNCHANGED auth

ApplyLease(l) ==
    /\ adapterId' = l.id
    /\ asg' = l.ver
    /\ auth' = l.ver

\* Two mutations: the heartbeat callback does not arm its timer; the delivery
\* callback does not clear deliveryBusy.
WakeWithoutTimer ==
    /\ hb' = IF hb = "joining" THEN "off" ELSE hb
    /\ dl' = IF dl = "joining" THEN "idle" ELSE dl

WakeHeartbeatOnly ==
    /\ hb' = IF hb = "joining" THEN Rearmed ELSE hb
    /\ UNCHANGED dl

\* reRegisterPromise settles: every callback that awaits it goes on.
WakeJoiners ==
    /\ hb' = IF hb = "joining" THEN Rearmed ELSE hb
    /\ dl' = IF dl = "joining" THEN "idle" ELSE dl

\* Mutation: no finally, so reRegisterPromise is never cleared.
RegisteredKeepsPromise(o) ==
    /\ call[o].st = "lease"
    /\ ApplyLease(call[o])
    /\ loop' = [loop EXCEPT ![o] = FALSE]
    /\ call' = [call EXCEPT ![o] = NoCall]
    /\ IF o = "start"
       THEN hb' = "timer" /\ UNCHANGED dl
       ELSE WakeJoiners
    /\ UNCHANGED <<up, running, promise, dsVars>>

\* registerWithRetry returns and its caller applies the lease.
Registered(o) ==
    /\ call[o].st = "lease"
    /\ ApplyLease(call[o])
    /\ loop' = [loop EXCEPT ![o] = FALSE]
    /\ call' = [call EXCEPT ![o] = NoCall]
    /\ IF o = "start"
       THEN /\ hb' = "timer"
            /\ UNCHANGED <<dl, promise>>
       ELSE /\ promise' = "none"
            /\ WakeJoiners
    /\ UNCHANGED <<up, running, dsVars>>

\* applyLease throws, on a body that is no lease or on a failing write: start()
\* rejects and main() exits; a re-registration rejects inside the catch blocks
\* that await it, which nobody handles.
RegisterThrows(o) ==
    /\ \/ call[o].st = "garbled"
       \/ StoreMayFail /\ call[o].st = "lease"
    /\ Dies

\* Any failure of the call itself: sleep, then try again.
RegisterFails(o) ==
    /\ call[o].st # "none"
    /\ call' = [call EXCEPT ![o] = NoCall]
    /\ GiveUpOn({o})
    /\ UNCHANGED <<runtimeVars, leaseVars, dsLease, dsVersion, nextId>>

\* Mutation: while (true) instead of while (input.isRunning()).
RetryForEver(o) ==
    /\ loop[o]
    /\ call[o] = NoCall
    /\ up
    /\ call' = [call EXCEPT ![o] = Sent(0)]
    /\ UNCHANGED <<runtimeVars, leaseVars, dsVars>>

RetryRegister(o) ==
    /\ loop[o]
    /\ call[o] = NoCall
    /\ running
    /\ call' = [call EXCEPT ![o] = Sent(0)]
    /\ UNCHANGED <<runtimeVars, leaseVars, dsVars>>

\* "adapter runtime stopped before register succeeded": thrown to a catch block
\* of a loop, where it is an unhandled rejection.
RegisterGivesUp(o) ==
    /\ loop[o]
    /\ call[o] = NoCall
    /\ ~running
    /\ Dies

\* Mutation: reRegister does not look for a registration that runs already.
BeginAlways(me, waiter) ==
    /\ promise' = me
    /\ loop' = [loop EXCEPT ![me] = TRUE]
    /\ call' = [call EXCEPT ![me] = Sent(0), ![waiter] = NoCall]

\* reRegister, for a callback that owns "me" and waits at "waiter".
BeginOrJoin(me, waiter) ==
    IF promise = "none"
    THEN /\ promise' = me
         /\ loop' = [loop EXCEPT ![me] = TRUE]
         /\ call' = [call EXCEPT ![me] = Sent(0), ![waiter] = NoCall]
    ELSE /\ call' = [call EXCEPT ![waiter] = NoCall]
         /\ UNCHANGED <<promise, loop>>

-----------------------------------------------------------------------------
(* The heartbeat loop *)

\* With no adapterId the callback throws before the call and arms the timer again.
HeartbeatTick ==
    /\ hb = "timer"
    /\ running
    /\ adapterId # 0
    /\ hb' = "posting"
    /\ call' = [call EXCEPT !["heartbeat"] = Sent(adapterId)]
    /\ UNCHANGED <<up, running, dl, loop, promise, leaseVars, dsVars>>

HeartbeatEnds ==
    /\ hb' = Rearmed
    /\ call' = [call EXCEPT !["heartbeat"] = NoCall]
    /\ UNCHANGED <<up, running, dl, loop, promise, dsVars>>

HeartbeatLease ==
    /\ call["heartbeat"].st = "lease"
    /\ ApplyLease(call["heartbeat"])
    /\ HeartbeatEnds

\* A write of applyLease throws after assignments.apply: pushAuth keeps the old
\* assignments.
HeartbeatStoreFails ==
    /\ StoreMayFail
    /\ call["heartbeat"].st = "lease"
    /\ adapterId' = call["heartbeat"].id
    /\ asg' = call["heartbeat"].ver
    /\ auth' = auth
    /\ HeartbeatEnds

\* A body that is no lease: adapterId becomes undefined before assignments.apply
\* throws.
HeartbeatGarbled ==
    /\ call["heartbeat"].st = "garbled"
    /\ adapterId' = 0
    /\ UNCHANGED <<asg, auth>>
    /\ HeartbeatEnds

\* Timeout, network error, status >= 500, or an error shouldReRegister ignores.
HeartbeatFails ==
    /\ call["heartbeat"].st # "none"
    /\ HeartbeatEnds
    /\ UNCHANGED leaseVars

HeartbeatInvalid ==
    /\ call["heartbeat"].st = "invalid"
    /\ IF running
       THEN /\ hb' = "joining"
            /\ BeginOrJoin("heartbeatReRegister", "heartbeat")
            /\ UNCHANGED <<up, running, dl, dsVars>>
       ELSE HeartbeatEnds
    /\ UNCHANGED leaseVars

-----------------------------------------------------------------------------
(* The delivery callback, with events always pending *)

DeliveryTick ==
    /\ dl = "idle"
    /\ running
    /\ adapterId # 0
    /\ dl' = "posting"
    /\ call' = [call EXCEPT !["ingest"] = Sent(adapterId)]
    /\ UNCHANGED <<up, running, hb, loop, promise, leaseVars, dsVars>>

\* The answer is applied, or the call fails for a reason other than the lease.
DeliveryEnds ==
    /\ call["ingest"].st # "none"
    /\ dl' = "idle"
    /\ call' = [call EXCEPT !["ingest"] = NoCall]
    /\ UNCHANGED <<up, running, hb, loop, promise, leaseVars, dsVars>>

DeliveryInvalid ==
    /\ call["ingest"].st = "invalid"
    /\ running
    /\ dl' = "joining"
    /\ BeginOrJoin("ingestReRegister", "ingest")
    /\ UNCHANGED <<up, running, hb, leaseVars, dsVars>>

-----------------------------------------------------------------------------
(* External: the Device Service *)

\* A register returns the id of the active adapter or a new one.
Grants(id) ==
    /\ id \in {dsLease, nextId} \cap 1..MaxIds
    /\ dsLease' = id
    /\ nextId' = IF id = nextId THEN nextId + 1 ELSE nextId

DsRegister(o) ==
    /\ call[o].st = "sent"
    /\ \E id \in 1..MaxIds :
        /\ Grants(id)
        /\ call' = [call EXCEPT ![o] = [st |-> "lease", id |-> id, ver |-> dsVersion]]
    /\ UNCHANGED <<runtimeVars, leaseVars, dsVersion, late>>

DsLateRegister ==
    /\ late > 0
    /\ late' = late - 1
    /\ \E id \in 1..MaxIds : Grants(id)
    /\ UNCHANGED <<runtimeVars, leaseVars, call, dsVersion>>

DsHeartbeat ==
    /\ call["heartbeat"].st = "sent"
    /\ call' = [call EXCEPT !["heartbeat"] =
                  IF @.id = dsLease
                  THEN [st |-> "lease", id |-> @.id, ver |-> dsVersion]
                  ELSE [@ EXCEPT !.st = "invalid"]]
    /\ UNCHANGED <<runtimeVars, leaseVars, dsVars>>

DsIngest ==
    /\ call["ingest"].st = "sent"
    /\ call' = [call EXCEPT !["ingest"].st =
                  IF call["ingest"].id = dsLease THEN "accepted" ELSE "invalid"]
    /\ UNCHANGED <<runtimeVars, leaseVars, dsVars>>

\* A 200 whose body is not the lease, from the DS or from something before it.
DsGarbles(c) ==
    /\ MayGarble
    /\ call[c].st = "sent"
    /\ call' = [call EXCEPT ![c] = [NoCall EXCEPT !.st = "garbled"]]
    /\ UNCHANGED <<runtimeVars, leaseVars, dsVars>>

\* The DS restarts or lets the lease lapse; the guard keeps an id for the next
\* register.
DsForget ==
    /\ dsLease # 0
    /\ nextId <= MaxIds
    /\ dsLease' = 0
    /\ UNCHANGED <<runtimeVars, leaseVars, call, dsVersion, nextId, late>>

DsReassign ==
    /\ dsVersion < MaxVersion
    /\ dsVersion' = dsVersion + 1
    /\ UNCHANGED <<runtimeVars, leaseVars, call, dsLease, nextId, late>>

-----------------------------------------------------------------------------
Next ==
    \/ Boot \/ Stop \/ Exit \/ Crash
    \/ \E o \in Registrars :
          \/ Registered(o) \/ RegisterThrows(o) \/ RegisterFails(o)
          \/ RetryRegister(o) \/ RegisterGivesUp(o) \/ DsRegister(o)
    \/ HeartbeatTick \/ HeartbeatLease \/ HeartbeatStoreFails \/ HeartbeatGarbled
    \/ HeartbeatFails \/ HeartbeatInvalid
    \/ DeliveryTick \/ DeliveryEnds \/ DeliveryInvalid
    \/ \E c \in Registrars \cup {"heartbeat"} : DsGarbles(c)
    \/ DsLateRegister \/ DsHeartbeat \/ DsIngest \/ DsForget \/ DsReassign

Spec == Init /\ [][Next]_vars


-----------------------------------------------------------------------------
(* Safety *)

\* However the heartbeat and the delivery callback interleave when both learn that
\* the lease is gone, at most one registration runs, and none beside the one of
\* start() (reRegisterPromise in reRegister): two would leave the adapter with
\* whichever lease was applied last.
SingleRegistration == \A o, p \in Registrars : loop[o] /\ loop[p] => o = p

\* As long as the adapter runs, the heartbeat loop has its timer armed, or is in a
\* call, or waits for a re-registration: no path through its callback forgets to
\* arm the timer, which nothing else would ever do (startHeartbeatLoop).
HeartbeatNeverStops == up /\ running /\ ~loop["start"] => hb # "off"

\* Once stopped, the adapter sends nothing: what was in flight may end, no retry,
\* heartbeat, delivery or re-registration follows (the tests of this.running).
SilentOnceStopped ==
    [][up /\ ~running /\ up' =>
        \A c \in Callers : call[c] = NoCall => call'[c] = NoCall]_vars

-----------------------------------------------------------------------------
(* The inductive invariant *)

\* reRegisterPromise is the loop that runs; a callback that waits, waits for one.
PromiseIsTheLoop ==
    /\ \A o \in ReRegistrars : loop[o] <=> promise = o
    /\ hb = "joining" \/ dl = "joining" => promise # "none"

\* The loops do not run before start() has its lease.
NothingBeforeStart ==
    loop["start"] => adapterId = 0 /\ hb = "off" /\ dl = "idle" /\ promise = "none"

\* A callback waits for a call exactly where its code awaits one.
CallsAreAwaited ==
    /\ \A o \in Registrars : call[o].st # "none" => loop[o]
    /\ call["heartbeat"].st # "none" <=> hb = "posting"
    /\ call["ingest"].st # "none" <=> dl = "posting"

\* start() cannot be interrupted by stop(), and a dead process does nothing.
ProcessState ==
    /\ loop["start"] => up /\ running
    /\ promise # "none" => up
    /\ running => up
    /\ ~up => hb = "off" /\ dl = "idle"

LeaseInv ==
    /\ TypeOK
    /\ PromiseIsTheLoop
    /\ NothingBeforeStart
    /\ CallsAreAwaited
    /\ ProcessState
    /\ HeartbeatNeverStops

-----------------------------------------------------------------------------
(* Liveness *)

\* Timers fire (WF).  Outages end: a call that is retried for ever is answered, and
\* an answer arrives before its timeout, at some of the attempts (SF).  How long
\* the delivery call takes does not matter.
LeaseFairness ==
    /\ WF_vars(Boot)
    /\ WF_vars(HeartbeatTick)
    /\ WF_vars(DeliveryTick)
    /\ SF_vars(DsHeartbeat)
    /\ SF_vars(HeartbeatLease)
    /\ SF_vars(HeartbeatInvalid)
    /\ WF_vars(HeartbeatGarbled)
    /\ \A o \in Registrars :
        /\ WF_vars(RetryRegister(o))
        /\ WF_vars(RegisterThrows(o))
        /\ SF_vars(DsRegister(o))
        /\ SF_vars(Registered(o))

LeaseSpec == Spec /\ LeaseFairness

StaysUp == <>[](up /\ running)

\* The lease recovers: an adapter that stays up ends with the lease and the
\* assignments the DS holds, also after the DS forgot it, after a register that
\* was given up came through late, and after the answer to an older heartbeat
\* overwrote the lease of a re-registration.
LeaseRecovers ==
    StaysUp => <>[](adapterId = dsLease /\ asg = dsVersion /\ auth = dsVersion)

\* An adapter that stays up never stops trying to deliver.
DeliveryNeverStops == StaysUp => []<>(dl = "posting")
=============================================================================
