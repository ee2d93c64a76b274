------------------------- MODULE PushIngest_Proofs --------------------------
(***************************************************************************)
(* Proofs about PushIngest: PushInv is inductive, and what follows from it *)
(* and from the actions.  The steps of a terminal or a handler replace one *)
(* push (OnePush); those of leases, time and the process change the rest.  *)
(***************************************************************************)
EXTENDS PushIngest, TLAPS

\* A push is replaced by another one.
LEMMA OnePush ==
    ASSUME push \in [Devices -> Push], NEW t \in Devices, NEW n \in Push,
           push' = [push EXCEPT ![t] = n]
    PROVE  /\ push' \in [Devices -> Push]
           /\ push'[t] = n
           /\ \A s \in Devices : s # t => push'[s] = push[s]
  OBVIOUS

\* The initial state, before the first lease (AdapterRuntime.start).
LEMMA InvInit == Init => PushInv
<1>. SUFFICES ASSUME Init PROVE PushInv
  OBVIOUS
<1>1. Quiet \in Push
  BY PushConstants DEF Quiet, Push
<1>2. TypeOK
  BY <1>1, PushConstants DEF Init, Empty, TypeOK
<1>3. /\ PushesAreOwn /\ NamesComeFromLeases /\ PrincipalsAreOwn
      /\ RecordedForItsTerminal /\ WantedIsKnown /\ AnswersAreTrue /\ AcceptedIsKept
  BY DEF Init, Empty, Quiet, PushesAreOwn, NamesComeFromLeases, PrincipalsAreOwn,
         RecordedForItsTerminal, WantedIsKnown, AnswersAreTrue, AcceptedIsKept
<1>. QED
  BY <1>2, <1>3 DEF PushInv

\* A terminal sends a push: nothing is claimed yet (POST /ingest/event).
LEMMA SendStep ==
    ASSUME PushInv, NEW t \in Devices, Send(t)
    PROVE  PushInv'
<1>1. PICK b \in SUBSET Unpushed(t) :
        push' = [push EXCEPT ![t] = [Quiet EXCEPT !.pc = "sent", !.batch = b]]
  BY DEF Send
<1>. DEFINE n == [Quiet EXCEPT !.pc = "sent", !.batch = b]
<1>2. /\ n \in Push /\ n.pc = "sent" /\ n.answer = "none"
      /\ n.batch \subseteq {e \in Events : MadeBy[e] = t}
  <2>1. 0 \in 0..Ttl /\ b \subseteq {e \in Events : MadeBy[e] = t}
    BY <1>1, PushConstants DEF Unpushed
  <2>. QED
    BY <2>1 DEF Quiet, Push
<1>. HIDE DEF n
<1>3. /\ push' \in [Devices -> Push] /\ push'[t] = n
      /\ \A s \in Devices : s # t => push'[s] = push[s]
  BY <1>1, <1>2, OnePush DEF PushInv, TypeOK, n
<1>4. UNCHANGED <<up, tables, nonce, queue, forgotten>>
  BY DEF Send
<1>5. TypeOK' /\ PushesAreOwn' /\ PrincipalsAreOwn' /\ AnswersAreTrue'
  BY <1>2, <1>3, <1>4 DEF PushInv, TypeOK, PushesAreOwn, PrincipalsAreOwn,
                          AnswersAreTrue, tables
<1>6. NamesComeFromLeases' /\ RecordedForItsTerminal' /\ AcceptedIsKept'
  BY <1>4 DEF PushInv, NamesComeFromLeases, RecordedForItsTerminal, AcceptedIsKept, tables
<1>7. WantedIsKnown'
  BY <1>2, <1>3, <1>4 DEF PushInv, WantedIsKnown, tables
<1>. QED
  BY <1>5, <1>6, <1>7 DEF PushInv

\* A push ends: its answer is received, or it is lost.
LEMMA EndStep ==
    ASSUME PushInv, NEW t \in Devices, Receive(t) \/ Lose(t)
    PROVE  PushInv'
<1>1. /\ Quiet \in Push /\ Quiet.pc = "idle" /\ Quiet.answer = "none" /\ Quiet.batch = {}
      /\ push' = [push EXCEPT ![t] = Quiet]
  BY PushConstants DEF Quiet, Push, Receive, Lose
<1>2. /\ push' \in [Devices -> Push] /\ push'[t] = Quiet
      /\ \A s \in Devices : s # t => push'[s] = push[s]
  BY <1>1, OnePush DEF PushInv, TypeOK
<1>3. UNCHANGED <<up, tables, queue>>
  BY DEF Receive, Lose
<1>4. /\ nonce' \in [Devices -> 0..Ttl]
      /\ forgotten' \in [Devices -> SUBSET Events]
  BY DEF Receive, Lose, PushInv, TypeOK, Push
<1>5. TypeOK' /\ PushesAreOwn' /\ PrincipalsAreOwn' /\ AnswersAreTrue'
  BY <1>1, <1>2, <1>3, <1>4 DEF PushInv, TypeOK, PushesAreOwn, PrincipalsAreOwn,
                                AnswersAreTrue, tables
<1>6. NamesComeFromLeases' /\ RecordedForItsTerminal'
  BY <1>3 DEF PushInv, NamesComeFromLeases, RecordedForItsTerminal, tables
<1>7. WantedIsKnown'
  BY <1>1, <1>2, <1>3 DEF PushInv, WantedIsKnown, tables
<1>8. ASSUME CredentialsAreOwn, NEW s \in Devices, AlwaysWanted(s),
             NEW e \in forgotten'[s] \cap Access
      PROVE  <<s, e>> \in queue
  <2>1. e \in forgotten[s] \/ (s = t /\ push[t].answer = "ok" /\ e \in push[t].batch)
    BY <1>8 DEF Receive, Lose, PushInv, TypeOK
  <2>. QED
    BY <1>8, <2>1 DEF PushInv, AnswersAreTrue, AcceptedIsKept
<1>9. AcceptedIsKept'
  BY <1>3, <1>8 DEF AcceptedIsKept, CredentialsAreOwn, AlwaysWanted
<1>. QED
  BY <1>5, <1>6, <1>7, <1>9 DEF PushInv

\* A push is authenticated as the device its credentials belong to (resolvePushAuth).
LEMMA AuthenticateStep ==
    ASSUME PushInv, NEW t \in Devices, Authenticate(t)
    PROVE  PushInv'
<1>. DEFINE d == byName[Cred[t].name].dev
            n == [push[t] EXCEPT !.pc = "authed", !.dev = d]
<1>1. /\ Cred[t].name \in Names /\ Cred[t].pw \in Passwords
      /\ byName[Cred[t].name] # NoOne /\ byName[Cred[t].name].pw = Cred[t].pw
      /\ byName[Cred[t].name] \in Principal /\ push[t] \in Push
  BY PushConstants DEF Authenticate, Accepted, PushInv, TypeOK
<1>2. d \in Devices
  BY <1>1 DEF Principal
<1>3. CredentialsAreOwn => d = t
  BY <1>1, <1>2 DEF PushInv, NamesComeFromLeases, CredentialsAreOwn
<1>4. push' = [push EXCEPT ![t] = n] /\ push[t].pc = "sent"
      /\ UNCHANGED <<up, tables, nonce, queue, forgotten>>
  BY DEF Authenticate
<1>. HIDE DEF d
<1>5. /\ n \in Push /\ n.pc = "authed" /\ n.dev = d
      /\ n.answer = push[t].answer /\ n.batch = push[t].batch
  BY <1>1, <1>2 DEF Push
<1>. HIDE DEF n
<1>6. /\ push' \in [Devices -> Push] /\ push'[t] = n
      /\ \A s \in Devices : s # t => push'[s] = push[s]
  BY <1>4, <1>5, OnePush DEF PushInv, TypeOK
<1>7. TypeOK' /\ PushesAreOwn' /\ PrincipalsAreOwn' /\ AnswersAreTrue'
  BY <1>3, <1>4, <1>5, <1>6 DEF PushInv, TypeOK, PushesAreOwn, PrincipalsAreOwn,
                                AnswersAreTrue, CredentialsAreOwn, AlwaysWanted, tables
<1>8. NamesComeFromLeases' /\ RecordedForItsTerminal' /\ AcceptedIsKept'
  BY <1>4 DEF PushInv, NamesComeFromLeases, RecordedForItsTerminal, AcceptedIsKept, tables
<1>9. WantedIsKnown'
  BY <1>1, <1>4, <1>6 DEF PushInv, WantedIsKnown, tables
<1>. QED
  BY <1>7, <1>8, <1>9 DEF PushInv

\* A push is challenged: 401.
LEMMA ChallengeStep ==
    ASSUME PushInv, NEW t \in Devices, Challenge(t)
    PROVE  PushInv'
<1>. DEFINE n == [push[t] EXCEPT !.pc = "answered", !.answer = "challenge", !.offer = Ttl]
<1>1. push' = [push EXCEPT ![t] = n] /\ UNCHANGED <<up, tables, nonce, queue, forgotten>>
  BY DEF Challenge
<1>2. /\ n \in Push /\ n.pc = "answered" /\ n.answer = "challenge" /\ n.batch = push[t].batch
  <2>1. push[t] \in Push /\ Ttl \in 0..Ttl
    BY PushConstants DEF PushInv, TypeOK
  <2>. QED
    BY <2>1 DEF Push
<1>. HIDE DEF n
<1>3. /\ push' \in [Devices -> Push] /\ push'[t] = n
      /\ \A s \in Devices : s # t => push'[s] = push[s]
  BY <1>1, <1>2, OnePush DEF PushInv, TypeOK
<1>4. TypeOK' /\ PushesAreOwn' /\ PrincipalsAreOwn' /\ AnswersAreTrue'
  BY <1>1, <1>2, <1>3 DEF PushInv, TypeOK, PushesAreOwn, PrincipalsAreOwn,
                          AnswersAreTrue, tables
<1>5. NamesComeFromLeases' /\ RecordedForItsTerminal' /\ AcceptedIsKept'
  BY <1>1 DEF PushInv, NamesComeFromLeases, RecordedForItsTerminal, AcceptedIsKept, tables
<1>6. WantedIsKnown'
  BY <1>1, <1>2, <1>3 DEF PushInv, WantedIsKnown, tables
<1>. QED
  BY <1>4, <1>5, <1>6 DEF PushInv

\* What is recorded belongs to the principal (ingestEvents).
LEMMA RecordsOwn ==
    ASSUME PushInv, NEW t \in Devices, push[t].pc = "authed"
    PROVE  /\ Records(t) \subseteq Devices \X Events
           /\ \A k \in Records(t) : k[1] \in assigned
           /\ CredentialsAreOwn => \A k \in Records(t) : k[1] = t /\ MadeBy[k[2]] = t
           /\ CredentialsAreOwn /\ AlwaysWanted(t) =>
                \A e \in push[t].batch \cap Access : <<t, e>> \in Records(t)
<1>1. /\ push[t].batch \subseteq {e \in Events : MadeBy[e] = t}
      /\ assigned \in SUBSET Devices
      /\ CredentialsAreOwn => push[t].dev = t
      /\ AlwaysWanted(t) => t \in assigned /\ settings[t] = "wants"
  BY DEF PushInv, TypeOK, PushesAreOwn, PrincipalsAreOwn, WantedIsKnown
<1>. QED
  BY <1>1 DEF Records

\* A handler records all it records, or some of it, and answers (ingestEvents).
LEMMA AnswerStep ==
    ASSUME PushInv, NEW t \in Devices, Ingest(t) \/ IngestThrows(t)
    PROVE  PushInv'
<1>1. PICK some \in SUBSET Records(t), how \in {"ok", "error"} :
        /\ queue' = queue \cup some
        /\ push' = Answered(t, how)
        /\ how = "ok" => some = Records(t)
  <2>1. CASE Ingest(t)
    BY <2>1 DEF Ingest
  <2>2. CASE IngestThrows(t)
    BY <2>2 DEF IngestThrows
  <2>. QED
    BY <2>1, <2>2
<1>2. push[t].pc = "authed" /\ UNCHANGED <<up, tables, nonce, forgotten>>
  BY DEF Ingest, IngestThrows
<1>. DEFINE n == [push[t] EXCEPT !.pc = "answered", !.answer = how]
<1>3. /\ n \in Push /\ n.pc = "answered" /\ n.answer = how /\ n.batch = push[t].batch
  BY DEF PushInv, TypeOK, Push
<1>4. push' = [push EXCEPT ![t] = n]
  BY <1>1 DEF Answered
<1>. HIDE DEF n
<1>5. /\ push' \in [Devices -> Push] /\ push'[t] = n
      /\ \A s \in Devices : s # t => push'[s] = push[s]
  BY <1>3, <1>4, OnePush DEF PushInv, TypeOK
<1>6. /\ queue \subseteq queue' /\ queue' \in SUBSET (Devices \X Events)
      /\ \A k \in queue' : k \in queue \/ k \in Records(t)
  BY <1>1, <1>2, RecordsOwn DEF PushInv, TypeOK
<1>7. TypeOK' /\ PushesAreOwn' /\ PrincipalsAreOwn'
  BY <1>2, <1>3, <1>5, <1>6 DEF PushInv, TypeOK, PushesAreOwn, PrincipalsAreOwn, tables
<1>8. RecordedForItsTerminal'
  BY <1>2, <1>6, RecordsOwn DEF PushInv, RecordedForItsTerminal, CredentialsAreOwn
<1>9. NamesComeFromLeases' /\ AcceptedIsKept'
  BY <1>2, <1>6 DEF PushInv, NamesComeFromLeases, AcceptedIsKept, CredentialsAreOwn,
                    AlwaysWanted, tables
<1>10. WantedIsKnown'
  BY <1>2, <1>3, <1>5 DEF PushInv, WantedIsKnown, tables
<1>11. ASSUME CredentialsAreOwn, NEW s \in Devices, AlwaysWanted(s),
              push'[s].answer = "ok", NEW e \in push'[s].batch \cap Access
       PROVE  <<s, e>> \in queue'
  <2>1. CASE s = t
    <3>1. some = Records(t) /\ e \in push[t].batch \cap Access
      BY <1>1, <1>3, <1>5, <1>11, <2>1
    <3>. QED
      BY <1>1, <1>2, <1>11, <2>1, <3>1, RecordsOwn
  <2>2. CASE s # t
    BY <1>5, <1>6, <1>11, <2>2 DEF PushInv, AnswersAreTrue
  <2>. QED
    BY <2>1, <2>2
<1>12. AnswersAreTrue'
  BY <1>11 DEF AnswersAreTrue, CredentialsAreOwn, AlwaysWanted
<1>. QED
  BY <1>7, <1>8, <1>9, <1>10, <1>12 DEF PushInv

\* A lease is applied, completely or up to a write of the store (applyLease).
LEMMA LeaseStep ==
    ASSUME PushInv, ApplyLease \/ ApplyLeaseThrows
    PROVE  PushInv'
<1>1. UNCHANGED <<up, nonce, push, queue, forgotten>>
  BY DEF ApplyLease, ApplyLeaseThrows
<1>2. PICK l \in Leases :
        /\ assigned' = AssignedBy(l)
        /\ \/ settings' = SettingsBy(l) /\ byName' \in NamesBy(l)
           \/ UNCHANGED <<settings, byName>>
  BY DEF ApplyLease, ApplyLeaseThrows
<1>3. l \in [Devices -> Assignment]
  BY PushConstants
<1>4. TypeOK'
  BY <1>1, <1>2 DEF PushInv, TypeOK, AssignedBy, SettingsBy, NamesBy
<1>5. /\ PushesAreOwn' /\ PrincipalsAreOwn' /\ RecordedForItsTerminal'
      /\ AnswersAreTrue' /\ AcceptedIsKept'
  BY <1>1 DEF PushInv, PushesAreOwn, PrincipalsAreOwn, RecordedForItsTerminal,
              AnswersAreTrue, AcceptedIsKept, CredentialsAreOwn, AlwaysWanted
<1>6. NamesComeFromLeases'
  <2>1. CASE byName' \in NamesBy(l)
    <3>1. ASSUME NEW n \in Names, byName'[n] # NoOne
          PROVE  \E d \in Valid(l) : l[d].name = n /\ byName'[n] = [dev |-> d, pw |-> l[d].pw]
      BY <2>1, <3>1 DEF NamesBy
    <3>2. ASSUME NEW n \in Names, byName'[n] # NoOne
          PROVE  LET d == byName'[n].dev IN
                 l[d].st = "valid" /\ l[d].name = n /\ l[d].pw = byName'[n].pw
      <4>1. PICK d \in Valid(l) : l[d].name = n /\ byName'[n] = [dev |-> d, pw |-> l[d].pw]
        BY <3>1, <3>2
      <4>2. l[d].st = "valid" /\ byName'[n].dev = d /\ byName'[n].pw = l[d].pw
        BY <4>1 DEF Valid
      <4>. QED
        BY <4>1, <4>2
    <3>. QED
      BY <3>2 DEF NamesComeFromLeases
  <2>2. CASE UNCHANGED byName
    BY <2>2 DEF PushInv, NamesComeFromLeases
  <2>. QED
    BY <1>2, <2>1, <2>2
<1>7. WantedIsKnown'
  <2>1. ASSUME NEW t \in Devices, AlwaysWanted(t)
        PROVE  t \in assigned' /\ (settings' = SettingsBy(l) => settings'[t] = "wants")
    BY <1>2, <2>1 DEF AlwaysWanted, AssignedBy, SettingsBy, Valid
  <2>. QED
    BY <1>1, <1>2, <2>1 DEF PushInv, WantedIsKnown, AlwaysWanted
<1>. QED
  BY <1>4, <1>5, <1>6, <1>7 DEF PushInv

\* Time passes; the process dies or starts again.
LEMMA ProcessStep ==
    ASSUME PushInv, Tick \/ Crash \/ Restart
    PROVE  PushInv'
<1>1. /\ UNCHANGED <<queue, forgotten>>
      /\ up' \in BOOLEAN /\ nonce' \in [Devices -> 0..Ttl]
      /\ UNCHANGED tables \/ (assigned' = {} /\ byName' = [n \in Names |-> NoOne]
                              /\ settings' = [d \in Devices |-> "none"]
                              /\ \A t \in Devices : push'[t].pc # "authed")
  <2>1. \A t \in Devices : nonce[t] \in 0..Ttl
    BY DEF PushInv, TypeOK
  <2>2. CASE Tick
    <3>1. \A t \in Devices : (IF nonce[t] = 0 THEN 0 ELSE nonce[t] - 1) \in 0..Ttl
      BY <2>1, PushConstants
    <3>. QED
      BY <2>2, <3>1 DEF Tick, PushInv, TypeOK
  <2>3. CASE Crash
    <3>1. /\ UNCHANGED <<queue, forgotten>> /\ up' \in BOOLEAN
          /\ assigned' = {} /\ byName' = [n \in Names |-> NoOne]
          /\ settings' = [d \in Devices |-> "none"]
      BY <2>3 DEF Crash
    <3>2. nonce' \in [Devices -> 0..Ttl]
      <4>1. nonce' = [t \in Devices |-> 0] /\ 0 \in 0..Ttl
        BY <2>3, PushConstants DEF Crash
      <4>. QED
        BY <4>1
    <3>3. \A t \in Devices : push'[t].pc # "authed"
      BY <2>1, <2>3 DEF Crash, Quiet, PushInv, TypeOK, Push
    <3>. QED
      BY <3>1, <3>2, <3>3
  <2>4. CASE Restart
    BY <2>4 DEF Restart, PushInv, TypeOK
  <2>. QED
    BY <2>2, <2>3, <2>4
<1>2. /\ push' \in [Devices -> Push]
      /\ \A t \in Devices :
            \/ /\ push'[t].pc = push[t].pc /\ push'[t].batch = push[t].batch
               /\ push'[t].dev = push[t].dev /\ push'[t].answer = push[t].answer
            \/ /\ push'[t].pc = "idle" /\ push'[t].batch = {} /\ push'[t].answer = "none"
  <2>1. \A t \in Devices : push[t] \in Push
    BY DEF PushInv, TypeOK
  <2>2. CASE Tick
    <3>1. \A t \in Devices :
            (IF push[t].offer = 0 THEN 0 ELSE push[t].offer - 1) \in 0..Ttl
      BY <2>1, PushConstants DEF Push
    <3>2. \A t \in Devices : push'[t] =
            [push[t] EXCEPT !.offer = IF push[t].offer = 0 THEN 0 ELSE push[t].offer - 1]
      BY <2>2 DEF Tick
    <3>3. \A t \in Devices :
            /\ push'[t] \in Push
            /\ push'[t].pc = push[t].pc /\ push'[t].batch = push[t].batch
            /\ push'[t].dev = push[t].dev /\ push'[t].answer = push[t].answer
      BY <2>1, <3>1, <3>2 DEF Push
    <3>. QED
      BY <2>2, <3>3 DEF Tick
  <2>3. CASE Crash
    <3>1. \A t \in Devices : push'[t] = IF push[t].pc = "answered"
                                        THEN [push[t] EXCEPT !.offer = 0] ELSE Quiet
      BY <2>3 DEF Crash
    <3>2. Quiet \in Push /\ Quiet.pc = "idle" /\ Quiet.batch = {} /\ Quiet.answer = "none"
          /\ 0 \in 0..Ttl
      BY PushConstants DEF Quiet, Push
    <3>3. \A t \in Devices : [push[t] EXCEPT !.offer = 0] \in Push
      BY <2>1, <3>2 DEF Push
    <3>4. \A t \in Devices : push'[t] \in Push
      BY <3>1, <3>2, <3>3
    <3>. QED
      BY <2>1, <2>3, <3>1, <3>2, <3>4 DEF Crash, Push
  <2>4. CASE Restart
    BY <2>4 DEF Restart, PushInv, TypeOK
  <2>. QED
    BY <2>2, <2>3, <2>4
<1>3. TypeOK'
  BY <1>1, <1>2 DEF PushInv, TypeOK, tables
<1>4. PushesAreOwn' /\ PrincipalsAreOwn' /\ AnswersAreTrue'
  BY <1>1, <1>2 DEF PushInv, PushesAreOwn, PrincipalsAreOwn, AnswersAreTrue,
                    CredentialsAreOwn, AlwaysWanted
<1>5. RecordedForItsTerminal' /\ AcceptedIsKept' /\ NamesComeFromLeases'
  BY <1>1 DEF PushInv, RecordedForItsTerminal, AcceptedIsKept, NamesComeFromLeases,
              CredentialsAreOwn, AlwaysWanted, tables
<1>6. WantedIsKnown'
  BY <1>1, <1>2 DEF PushInv, WantedIsKnown, AlwaysWanted, tables
<1>. QED
  BY <1>3, <1>4, <1>5, <1>6 DEF PushInv

\* Every step keeps the invariant.
LEMMA InvNext == PushInv /\ [Next]_vars => PushInv'
<1>1. ASSUME PushInv, NEW t \in Devices,
             Send(t) \/ Receive(t) \/ Lose(t) \/ Authenticate(t) \/ Challenge(t)
               \/ Ingest(t) \/ IngestThrows(t)
      PROVE  PushInv'
  BY <1>1, SendStep, EndStep, AuthenticateStep, ChallengeStep, AnswerStep
<1>2. ASSUME PushInv, UNCHANGED vars
      PROVE  PushInv'
  BY <1>2 DEF PushInv, TypeOK, PushesAreOwn, NamesComeFromLeases, PrincipalsAreOwn,
              RecordedForItsTerminal, WantedIsKnown, AnswersAreTrue, AcceptedIsKept,
              CredentialsAreOwn, AlwaysWanted, vars, tables
<1>. QED
  BY <1>1, <1>2, LeaseStep, ProcessStep DEF Next

\* At the await between authentication and ingestEvents, and while an answer is on its
\* way, pushes, tables and queue agree (authenticateDigestPush, ingestEvents).
THEOREM PushInvariant == Spec => []PushInv
  BY InvInit, InvNext, PTL DEF Spec

\* Every variable of the push path keeps its type.
THEOREM TypeCorrect == Spec => []TypeOK
<1>1. PushInv => TypeOK
  BY DEF PushInv
<1>. QED
  BY <1>1, PushInvariant, PTL

\* If no lease gives the credentials of a terminal to another device, an event is
\* recorded under the device whose terminal made it (resolvePushAuth, ingestEvents).
THEOREM EventsAreAttributed == Spec => []RecordedForItsTerminal
<1>1. PushInv => RecordedForItsTerminal
  BY DEF PushInv
<1>. QED
  BY <1>1, PushInvariant, PTL

\* Under the same condition a terminal whose device every lease has and wants loses no
\* access event that was answered 200 (ingestEvents).
THEOREM AcceptedEventsAreKept == Spec => []AcceptedIsKept
<1>1. PushInv => AcceptedIsKept
  BY DEF PushInv
<1>. QED
  BY <1>1, PushInvariant, PTL

\* Nothing is recorded for a device the DS has taken away (ingestEvents).
THEOREM UnassignedIsSilent == Spec => NothingForUnassigned
<1>1. ASSUME PushInv, [Next]_vars
      PROVE  [\A k \in queue' \ queue : k[1] \in assigned]_vars
  <2>1. ASSUME NEW t \in Devices, Ingest(t) \/ IngestThrows(t)
        PROVE  \A k \in queue' \ queue : k[1] \in assigned
    <3>1. push[t].pc = "authed" /\ \A k \in queue' \ queue : k \in Records(t)
      BY <2>1 DEF Ingest, IngestThrows
    <3>. QED
      BY <1>1, <3>1, RecordsOwn
  <2>2. CASE UNCHANGED queue
    BY <2>2
  <2>3. \/ UNCHANGED queue \/ \E t \in Devices : Ingest(t) \/ IngestThrows(t)
    BY <1>1 DEF Next, Send, Receive, Lose, Authenticate, Challenge, ApplyLease,
                ApplyLeaseThrows, Tick, Crash, Restart, vars
  <2>. QED
    BY <2>1, <2>2, <2>3
<1>. QED
  BY <1>1, PushInvariant, PTL DEF Spec, NothingForUnassigned
=============================================================================
