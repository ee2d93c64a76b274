------------------------- MODULE AdapterLease_Proofs -------------------------
(* Proofs about AdapterLease, for every value of its constants. *)
EXTENDS AdapterLease, TLAPS

-----------------------------------------------------------------------------
(* Type correctness. *)

\* What a caller's call may become.
LEMMA CallTypes ==
    /\ NoCall \in Call
    /\ \A id \in 0..MaxIds : Sent(id) \in Call
    /\ \A c \in Call, st \in CallStates : [c EXCEPT !.st = st] \in Call
    /\ \A id \in 0..MaxIds, ver \in 0..MaxVersion :
          [st |-> "lease", id |-> id, ver |-> ver] \in Call
    /\ [NoCall EXCEPT !.st = "garbled"] \in Call
<1>1. 0 \in 0..MaxIds /\ 0 \in 0..MaxVersion
  BY LeaseConstants
<1>. QED
  BY <1>1 DEF NoCall, Sent, Call, CallStates

\* A call is replaced by a call.
LEMMA CallUpdate ==
    ASSUME TypeOK, NEW c \in Callers, NEW v \in Call
    PROVE  [call EXCEPT ![c] = v] \in [Callers -> Call]
BY DEF TypeOK

\* The fields of a call are in their ranges.
LEMMA CallFields ==
    ASSUME TypeOK, NEW c \in Callers
    PROVE  /\ call[c] \in Call
           /\ call[c].st \in CallStates
           /\ call[c].id \in 0..MaxIds
           /\ call[c].ver \in 0..MaxVersion
BY DEF TypeOK, Call

\* The start state is well-typed.
LEMMA InitTypeOK == Init => TypeOK
<1>1. 0 \in 0..MaxIds /\ 0 \in 0..MaxVersion /\ 1 \in 1..MaxVersion
      /\ 1 \in 1..(MaxIds + 1) /\ 0 \in 0..MaxLate
  BY LeaseConstants
<1>2. [c \in Callers |-> IF c = "start" THEN Sent(0) ELSE NoCall] \in [Callers -> Call]
  BY <1>1, CallTypes
<1>. QED
  BY <1>1, <1>2 DEF Init, TypeOK

\* Giving up calls keeps the number of late registers in its bound.
LEMMA GiveUpType ==
    ASSUME TypeOK, NEW S, GiveUpOn(S)
    PROVE  late' \in 0..MaxLate
BY LeaseConstants DEF TypeOK, GiveUpOn

\* A process that ends leaves a well-typed state.
LEMMA DiesType ==
    ASSUME TypeOK, Dies
    PROVE  TypeOK'
<1>1. 0 \in 0..MaxIds /\ 0 \in 0..MaxVersion
  BY LeaseConstants
<1>. QED
  BY <1>1, CallTypes, GiveUpType DEF Dies, TypeOK

\* So does one that starts.
LEMMA BootType ==
    ASSUME TypeOK, Boot
    PROVE  TypeOK'
<1>1. 0 \in 0..MaxIds /\ 0 \in 0..MaxVersion
  BY LeaseConstants
<1>2. [c \in Callers |-> IF c = "start" THEN Sent(0) ELSE NoCall] \in [Callers -> Call]
  BY <1>1, CallTypes
<1>. QED
  BY <1>1, <1>2 DEF Boot, Booted, dsVars, TypeOK

\* Beginning a re-registration, or joining one, keeps the types.
LEMMA BeginOrJoinType ==
    ASSUME TypeOK, NEW me \in ReRegistrars, NEW waiter \in {"heartbeat", "ingest"},
           BeginOrJoin(me, waiter)
    PROVE  /\ promise' \in ReRegistrars \cup {"none"}
           /\ loop' \in [Registrars -> BOOLEAN]
           /\ call' \in [Callers -> Call]
<1>1. Sent(0) \in Call /\ NoCall \in Call
  BY CallTypes, LeaseConstants
<1>2. me \in Registrars /\ me \in Callers /\ waiter \in Callers
  BY DEF Registrars, Callers
<1>. QED
  BY <1>1, <1>2 DEF BeginOrJoin, TypeOK

\* The steps of the registration loop keep the types.
LEMMA RegistrarType ==
    ASSUME TypeOK, NEW o \in Registrars,
           \/ Registered(o) \/ RegisterThrows(o) \/ RegisterFails(o)
           \/ RetryRegister(o) \/ RegisterGivesUp(o) \/ DsRegister(o)
    PROVE  TypeOK'
<1>1. o \in Callers /\ NoCall \in Call /\ Sent(0) \in Call
  BY CallTypes, LeaseConstants DEF Callers
<1>2. call[o].id \in 0..MaxIds /\ call[o].ver \in 0..MaxVersion
  BY <1>1, CallFields
<1>3. CASE Registered(o)
  BY <1>1, <1>2, <1>3
  DEF Registered, ApplyLease, WakeJoiners, Rearmed, dsVars, TypeOK
<1>4. CASE RegisterThrows(o) \/ RegisterGivesUp(o)
  BY <1>4, DiesType DEF RegisterThrows, RegisterGivesUp
<1>5. CASE RegisterFails(o)
  BY <1>1, <1>5, GiveUpType DEF RegisterFails, runtimeVars, leaseVars, TypeOK
<1>6. CASE RetryRegister(o)
  BY <1>1, <1>6 DEF RetryRegister, runtimeVars, leaseVars, dsVars, TypeOK
<1>7. CASE DsRegister(o)
  <2>1. PICK id \in 1..MaxIds :
          /\ Grants(id)
          /\ call' = [call EXCEPT ![o] = [st |-> "lease", id |-> id, ver |-> dsVersion]]
    BY <1>7 DEF DsRegister
  <2>2. id \in 0..MaxIds /\ dsVersion \in 0..MaxVersion
    BY LeaseConstants DEF TypeOK
  <2>3. [st |-> "lease", id |-> id, ver |-> dsVersion] \in Call
    BY <2>2, CallTypes
  <2>4. dsLease' \in 0..MaxIds /\ nextId' \in 1..(MaxIds + 1)
    BY <2>1, <2>2, LeaseConstants DEF Grants, TypeOK
  <2>. QED
    BY <1>1, <1>7, <2>1, <2>3, <2>4 DEF DsRegister, runtimeVars, leaseVars, TypeOK
<1>. QED
  BY <1>3, <1>4, <1>5, <1>6, <1>7

\* The heartbeat callback keeps the types.
LEMMA HeartbeatType ==
    ASSUME TypeOK,
           \/ HeartbeatTick \/ HeartbeatLease \/ HeartbeatStoreFails
           \/ HeartbeatGarbled \/ HeartbeatFails \/ HeartbeatInvalid
    PROVE  TypeOK'
<1>1. "heartbeat" \in Callers /\ NoCall \in Call
  BY CallTypes DEF Callers
<1>2. call["heartbeat"].id \in 0..MaxIds /\ call["heartbeat"].ver \in 0..MaxVersion
      /\ 0 \in 0..MaxIds
  BY <1>1, CallFields, LeaseConstants
<1>3. CASE HeartbeatTick
  BY <1>1, <1>3, CallTypes DEF HeartbeatTick, leaseVars, dsVars, TypeOK
<1>4. CASE HeartbeatLease \/ HeartbeatStoreFails \/ HeartbeatGarbled \/ HeartbeatFails
  BY <1>1, <1>2, <1>4
  DEF HeartbeatLease, HeartbeatStoreFails, HeartbeatGarbled, HeartbeatFails,
      HeartbeatEnds, ApplyLease, Rearmed, leaseVars, dsVars, TypeOK
<1>5. CASE HeartbeatInvalid /\ running
  <2>1. "heartbeatReRegister" \in ReRegistrars
    BY DEF ReRegistrars
  <2>2. BeginOrJoin("heartbeatReRegister", "heartbeat")
    BY <1>5 DEF HeartbeatInvalid
  <2>3. /\ promise' \in ReRegistrars \cup {"none"}
        /\ loop' \in [Registrars -> BOOLEAN]
        /\ call' \in [Callers -> Call]
    BY <2>1, <2>2, BeginOrJoinType
  <2>. QED
    BY <1>5, <2>3 DEF HeartbeatInvalid, leaseVars, dsVars, TypeOK
<1>6. CASE HeartbeatInvalid /\ ~running
  BY <1>1, <1>6 DEF HeartbeatInvalid, HeartbeatEnds, Rearmed, leaseVars, dsVars, TypeOK
<1>. QED
  BY <1>3, <1>4, <1>5, <1>6

\* The delivery callback keeps the types.
LEMMA DeliveryType ==
    ASSUME TypeOK, DeliveryTick \/ DeliveryEnds \/ DeliveryInvalid
    PROVE  TypeOK'
<1>1. "ingest" \in Callers /\ NoCall \in Call
  BY CallTypes DEF Callers
<1>2. CASE DeliveryTick \/ DeliveryEnds
  BY <1>1, <1>2, CallTypes DEF DeliveryTick, DeliveryEnds, leaseVars, dsVars, TypeOK
<1>3. CASE DeliveryInvalid
  <2>1. "ingestReRegister" \in ReRegistrars
    BY DEF ReRegistrars
  <2>2. BeginOrJoin("ingestReRegister", "ingest")
    BY <1>3 DEF DeliveryInvalid
  <2>3. /\ promise' \in ReRegistrars \cup {"none"}
        /\ loop' \in [Registrars -> BOOLEAN]
        /\ call' \in [Callers -> Call]
    BY <2>1, <2>2, BeginOrJoinType
  <2>. QED
    BY <1>3, <2>3 DEF DeliveryInvalid, leaseVars, dsVars, TypeOK
<1>. QED
  BY <1>2, <1>3

\* The steps of the DS keep the types.
LEMMA DsType ==
    ASSUME TypeOK,
           \/ \E c \in Registrars \cup {"heartbeat"} : DsGarbles(c)
           \/ DsLateRegister \/ DsHeartbeat \/ DsIngest \/ DsForget \/ DsReassign
    PROVE  TypeOK'
<1> USE DEF runtimeVars, leaseVars, dsVars
<1>1. \A c \in Registrars \cup {"heartbeat", "ingest"} : c \in Callers
  BY DEF Callers
<1>2. ASSUME NEW c \in Registrars \cup {"heartbeat"}, DsGarbles(c)
      PROVE  TypeOK'
  BY <1>1, <1>2, CallTypes DEF DsGarbles, TypeOK
<1>3. CASE DsLateRegister
  <2>1. late' \in 0..MaxLate
    BY <1>3, LeaseConstants DEF DsLateRegister, TypeOK
  <2>2. dsLease' \in 0..MaxIds /\ nextId' \in 1..(MaxIds + 1)
    BY <1>3, LeaseConstants DEF DsLateRegister, Grants, TypeOK
  <2>. QED
    BY <1>3, <2>1, <2>2 DEF DsLateRegister, TypeOK
<1>4. CASE DsHeartbeat
  <2>1. call["heartbeat"] \in Call /\ call["heartbeat"].id \in 0..MaxIds
        /\ dsVersion \in 0..MaxVersion /\ "invalid" \in CallStates
    BY <1>1, CallFields, LeaseConstants DEF TypeOK, CallStates
  <2> DEFINE hbc == call["heartbeat"]
  <2>2. [hbc EXCEPT !.st = "invalid"] \in Call
        /\ [st |-> "lease", id |-> hbc.id, ver |-> dsVersion] \in Call
    BY <2>1, CallTypes
  <2>. QED
    BY <1>1, <1>4, <2>2 DEF DsHeartbeat, TypeOK
<1>5. CASE DsIngest
  <2>1. call["ingest"] \in Call
        /\ (IF call["ingest"].id = dsLease THEN "accepted" ELSE "invalid") \in CallStates
    BY <1>1, CallFields DEF CallStates
  <2>. QED
    BY <1>1, <1>5, <2>1 DEF DsIngest, TypeOK, Call
<1>6. CASE DsForget
  BY <1>6, LeaseConstants DEF DsForget, TypeOK
<1>7. CASE DsReassign
  BY <1>7, LeaseConstants DEF DsReassign, TypeOK
<1>. QED
  BY <1>2, <1>3, <1>4, <1>5, <1>6, <1>7

\* Every step keeps the state well-typed.
LEMMA NextTypeOK == TypeOK /\ [Next]_vars => TypeOK'
<1> SUFFICES ASSUME TypeOK, [Next]_vars
             PROVE  TypeOK'
  OBVIOUS
<1>1. CASE Stop
  BY <1>1 DEF Stop, leaseVars, dsVars, TypeOK
<1>2. CASE Exit \/ Crash
  BY <1>2, DiesType DEF Exit, Crash
<1>3. CASE UNCHANGED vars
  BY <1>3 DEF vars, TypeOK
<1>. QED
  BY <1>1, <1>2, <1>3, BootType, RegistrarType, HeartbeatType, DeliveryType, DsType
  DEF Next

\* Every state the runtime reaches is well-typed.
THEOREM TypeCorrect == Spec => []TypeOK
BY InitTypeOK, NextTypeOK, PTL DEF Spec

-----------------------------------------------------------------------------
(* The inductive invariant. *)

\* The distinct callers, and the calls a step may leave.
LEMMA Names ==
    /\ Registrars = {"start", "heartbeatReRegister", "ingestReRegister"}
    /\ ReRegistrars = {"heartbeatReRegister", "ingestReRegister"}
    /\ Callers = {"start", "heartbeatReRegister", "ingestReRegister", "heartbeat",
                  "ingest"}
    /\ NoCall.st = "none"
    /\ \A id : Sent(id).st = "sent"
    /\ [NoCall EXCEPT !.st = "garbled"].st = "garbled"
BY DEF Registrars, ReRegistrars, Callers, NoCall, Sent

\* A new process satisfies it.
LEMMA InitInv == Init => LeaseInv
<1> SUFFICES ASSUME Init
             PROVE  LeaseInv
  OBVIOUS
<1>1. /\ \A c \in Callers \ {"start"} : call[c].st = "none"
      /\ loop["start"] /\ \A o \in ReRegistrars : ~loop[o]
  BY Names DEF Init
<1>. QED
  BY <1>1, InitTypeOK, Names
  DEF Init, LeaseInv, PromiseIsTheLoop, NothingBeforeStart, CallsAreAwaited,
      ProcessState, HeartbeatNeverStops

\* A process that ends, and one that starts, satisfies it.
LEMMA ProcessInv ==
    ASSUME LeaseInv, Dies \/ Boot
    PROVE  LeaseInv'
<1>1. TypeOK'
  BY DiesType, BootType DEF LeaseInv
<1>2. CASE Dies
  <2>1. /\ \A c \in Callers : call'[c].st = "none"
        /\ \A o \in Registrars : ~loop'[o]
    BY <1>2, Names DEF Dies
  <2>. QED
    BY <1>1, <1>2, <2>1, Names
    DEF Dies, LeaseInv, PromiseIsTheLoop, NothingBeforeStart, CallsAreAwaited,
        ProcessState, HeartbeatNeverStops
<1>3. CASE Boot
  <2>1. /\ \A c \in Callers \ {"start"} : call'[c].st = "none"
        /\ loop'["start"] /\ \A o \in ReRegistrars : ~loop'[o]
    BY <1>3, Names DEF Boot, Booted
  <2>. QED
    BY <1>1, <1>3, <2>1, Names
    DEF Boot, Booted, LeaseInv, PromiseIsTheLoop, NothingBeforeStart,
        CallsAreAwaited, ProcessState, HeartbeatNeverStops
<1>. QED
  BY <1>2, <1>3

\* The registration loop: a promise that settles wakes all who wait for it.
LEMMA RegistrarInv ==
    ASSUME LeaseInv, NEW o \in Registrars,
           Registered(o) \/ RegisterFails(o) \/ RetryRegister(o)
    PROVE  LeaseInv'
<1>1. TypeOK'
  BY RegistrarType DEF LeaseInv
<1> USE Names DEF LeaseInv, PromiseIsTheLoop, NothingBeforeStart,
                  CallsAreAwaited, ProcessState, HeartbeatNeverStops, TypeOK
<1>2. CASE Registered(o)
  BY <1>1, <1>2 DEF Registered, WakeJoiners, Rearmed
<1>3. CASE RegisterFails(o)
  BY <1>1, <1>3 DEF RegisterFails, runtimeVars, leaseVars
<1>4. CASE RetryRegister(o)
  BY <1>1, <1>4 DEF RetryRegister, runtimeVars, leaseVars
<1>. QED
  BY <1>2, <1>3, <1>4

\* The heartbeat callback: every path arms the timer or joins a re-registration.
LEMMA HeartbeatInv ==
    ASSUME LeaseInv,
           \/ HeartbeatTick \/ HeartbeatLease \/ HeartbeatStoreFails
           \/ HeartbeatGarbled \/ HeartbeatFails \/ HeartbeatInvalid
    PROVE  LeaseInv'
<1>1. TypeOK'
  BY HeartbeatType DEF LeaseInv
<1> USE Names DEF LeaseInv, PromiseIsTheLoop, NothingBeforeStart,
                  CallsAreAwaited, ProcessState, HeartbeatNeverStops, TypeOK
<1>2. CASE HeartbeatTick
  BY <1>1, <1>2 DEF HeartbeatTick
<1>3. ASSUME HeartbeatEnds, call["heartbeat"].st # "none"
      PROVE  LeaseInv'
  BY <1>1, <1>3 DEF HeartbeatEnds, Rearmed
<1>4. CASE HeartbeatInvalid /\ running
  BY <1>1, <1>4 DEF HeartbeatInvalid, BeginOrJoin
<1>. QED
  BY <1>2, <1>3, <1>4
  DEF HeartbeatLease, HeartbeatStoreFails, HeartbeatGarbled, HeartbeatFails,
      HeartbeatInvalid

\* The delivery callback.
LEMMA DeliveryInv ==
    ASSUME LeaseInv, DeliveryTick \/ DeliveryEnds \/ DeliveryInvalid
    PROVE  LeaseInv'
<1>1. TypeOK'
  BY DeliveryType DEF LeaseInv
<1> USE Names DEF LeaseInv, PromiseIsTheLoop, NothingBeforeStart,
                  CallsAreAwaited, ProcessState, HeartbeatNeverStops, TypeOK
<1>2. CASE DeliveryTick
  BY <1>1, <1>2 DEF DeliveryTick
<1>3. CASE DeliveryEnds
  BY <1>1, <1>3 DEF DeliveryEnds
<1>4. CASE DeliveryInvalid
  BY <1>1, <1>4 DEF DeliveryInvalid, BeginOrJoin
<1>. QED
  BY <1>2, <1>3, <1>4

\* The DS moves calls on but neither opens nor closes one.
LEMMA DsInv ==
    ASSUME LeaseInv,
           \/ \E o \in Registrars : DsRegister(o)
           \/ \E c \in Registrars \cup {"heartbeat"} : DsGarbles(c)
           \/ DsLateRegister \/ DsHeartbeat \/ DsIngest \/ DsForget \/ DsReassign
    PROVE  LeaseInv'
<1>1. TypeOK'
  BY DsType, RegistrarType DEF LeaseInv
<1>2. /\ \A c \in Callers : call'[c].st # "none" <=> call[c].st # "none"
      /\ UNCHANGED <<runtimeVars, leaseVars>>
  <2> USE Names DEF LeaseInv, TypeOK, Call
  <2>1. ASSUME NEW o \in Registrars, DsRegister(o)
        PROVE  <1>2
    BY <2>1 DEF DsRegister
  <2>2. ASSUME NEW c \in Registrars \cup {"heartbeat"}, DsGarbles(c)
        PROVE  <1>2
    BY <2>2 DEF DsGarbles
  <2>3. CASE DsHeartbeat
    BY <2>3 DEF DsHeartbeat
  <2>4. CASE DsIngest
    BY <2>4 DEF DsIngest
  <2>5. CASE DsLateRegister \/ DsForget \/ DsReassign
    BY <2>5 DEF DsLateRegister, DsForget, DsReassign
  <2>. QED
    BY <2>1, <2>2, <2>3, <2>4, <2>5
<1>. QED
  BY <1>1, <1>2, Names
  DEF LeaseInv, PromiseIsTheLoop, NothingBeforeStart, CallsAreAwaited,
      ProcessState, HeartbeatNeverStops, runtimeVars, leaseVars

\* Every step keeps the inductive invariant.
LEMMA NextInv == LeaseInv /\ [Next]_vars => LeaseInv'
<1> SUFFICES ASSUME LeaseInv, [Next]_vars
             PROVE  LeaseInv'
  OBVIOUS
<1>1. TypeOK'
  BY NextTypeOK DEF LeaseInv
<1>2. CASE Stop
  BY <1>1, <1>2
  DEF Stop, LeaseInv, PromiseIsTheLoop, NothingBeforeStart, CallsAreAwaited,
      ProcessState, HeartbeatNeverStops
<1>3. CASE UNCHANGED vars
  BY <1>1, <1>3
  DEF vars, LeaseInv, PromiseIsTheLoop, NothingBeforeStart, CallsAreAwaited,
      ProcessState, HeartbeatNeverStops
<1>4. Exit \/ Crash \/ (\E o \in Registrars : RegisterThrows(o) \/ RegisterGivesUp(o))
        => Dies
  BY DEF Exit, Crash, RegisterThrows, RegisterGivesUp
<1>. QED
  BY <1>2, <1>3, <1>4, ProcessInv, RegistrarInv, HeartbeatInv, DeliveryInv, DsInv
  DEF Next

\* The inductive invariant holds of every state the runtime reaches.
THEOREM LeaseInvariant == Spec => []LeaseInv
BY InitInv, NextInv, PTL DEF Spec

-----------------------------------------------------------------------------
(* What follows from it. *)

\* At most one registration runs, and none beside that of start().
THEOREM OneRegistration == Spec => []SingleRegistration
<1>1. LeaseInv => SingleRegistration
  BY Names
  DEF LeaseInv, PromiseIsTheLoop, NothingBeforeStart, SingleRegistration
<1>. QED
  BY <1>1, LeaseInvariant, PTL

\* The heartbeat loop of a running adapter is never lost.
THEOREM HeartbeatIsKept == Spec => []HeartbeatNeverStops
<1>1. LeaseInv => HeartbeatNeverStops
  BY DEF LeaseInv
<1>. QED
  BY <1>1, LeaseInvariant, PTL

\* A stopped adapter sends nothing.
THEOREM StoppedAdapterIsSilent == Spec => SilentOnceStopped
<1> DEFINE Silent == up /\ ~running /\ up' =>
                       \A c \in Callers : call[c] = NoCall => call'[c] = NoCall
<1>1. LeaseInv /\ [Next]_vars => [Silent]_vars
  <2> SUFFICES ASSUME LeaseInv, Next, up, ~running, up',
                      NEW c \in Callers, call[c] = NoCall
               PROVE  call'[c] = NoCall
    OBVIOUS
  <2> USE Names DEF LeaseInv, TypeOK
  <2>1. CASE Boot \/ Stop \/ Exit \/ Crash
    BY <2>1 DEF Boot, Stop, Exit, Crash, Dies
  <2>2. ASSUME NEW o \in Registrars,
               \/ Registered(o) \/ RegisterThrows(o) \/ RegisterFails(o)
               \/ RetryRegister(o) \/ RegisterGivesUp(o) \/ DsRegister(o)
        PROVE  call'[c] = NoCall
    BY <2>2
    DEF Registered, RegisterThrows, RegisterFails, RetryRegister, RegisterGivesUp,
        DsRegister, Dies
  <2>3. CASE \/ HeartbeatTick \/ HeartbeatLease \/ HeartbeatStoreFails
             \/ HeartbeatGarbled \/ HeartbeatFails \/ HeartbeatInvalid
    BY <2>3
    DEF HeartbeatTick, HeartbeatLease, HeartbeatStoreFails, HeartbeatGarbled,
        HeartbeatFails, HeartbeatInvalid, HeartbeatEnds
  <2>4. CASE DeliveryTick \/ DeliveryEnds \/ DeliveryInvalid
    BY <2>4 DEF DeliveryTick, DeliveryEnds, DeliveryInvalid
  <2>5. CASE \/ \E g \in Registrars \cup {"heartbeat"} : DsGarbles(g)
             \/ DsLateRegister \/ DsHeartbeat \/ DsIngest \/ DsForget \/ DsReassign
    BY <2>5
    DEF DsGarbles, DsLateRegister, DsHeartbeat, DsIngest, DsForget, DsReassign
  <2>. QED
    BY <2>1, <2>2, <2>3, <2>4, <2>5 DEF Next
<1>2. Spec => [][Silent]_vars
  BY <1>1, LeaseInvariant, PTL DEF Spec
<1>. QED
  BY <1>2 DEF SilentOnceStopped, Silent
=============================================================================
