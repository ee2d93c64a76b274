----------------------------- MODULE PushIngest -----------------------------
(***************************************************************************)
(* Terminals push access events over HTTP with digest authentication: a    *)
(* push without a valid nonce is challenged, one with valid credentials is *)
(* attributed to a device and recorded in the queue.  Leases replace the   *)
(* tables of devices and credentials meanwhile, nonces expire, answers are *)
(* lost and the process dies.                                              *)
(*                                                                         *)
(* Code: src/src/http/ (routes/ingest-routes.ts, http-auth.ts,             *)
(* digest-auth-server.ts, ingest/ingest-events.ts), src/src/app/           *)
(* push-auth-registry.ts, assignment-registry.ts.  An action is the code   *)
(* between two awaits.  The terminals are external.  Bodies are well       *)
(* formed; the order of a batch and of the devices of a lease is           *)
(* abstracted to a choice.                                                 *)
(***************************************************************************)
EXTENDS Naturals, FiniteSets

CONSTANTS
    Devices,
    Events,      \* what the terminals have to push
    Access,      \* those with code AccessControl
    MadeBy,      \* the terminal each event was made by
    Names,       \* push user names
    Passwords,
    Cred,        \* the credentials configured on each terminal
    Leases,      \* the assignments a lease may carry
    Ttl,         \* PUSH_DIGEST_NONCE_TTL_MS, in units of the model's clock
    None

Assignment == [st : {"none", "unparsable", "valid"}, name : Names, pw : Passwords,
               wants : BOOLEAN]

ASSUME PushConstants ==
    /\ Access \subseteq Events
    /\ MadeBy \in [Events -> Devices]
    /\ Cred \in [Devices -> [name : Names, pw : Passwords]]
    /\ Leases \subseteq [Devices -> Assignment]
    /\ Ttl \in Nat \ {0}
    /\ None \notin Devices \cup Passwords

VARIABLES
    up,          \* the process runs
    assigned,    \* AssignmentRegistry.assignments: the devices of the last lease
    settings,    \* settingsByDevice: of a device, is AccessControl in its eventCodes?
    byName,      \* pushAuthByUsername
    nonce,       \* of the nonce each terminal holds, the time it is still accepted
    push,        \* the push each terminal is making
    queue,       \* history: the keys <<device, event>> ever recorded in the store
    forgotten    \* what each terminal was answered 200 for and does not push again

tables == <<assigned, settings, byName>>
vars == <<up, tables, nonce, push, queue, forgotten>>

Principal == [dev : Devices, pw : Passwords]
NoOne == [dev |-> None, pw |-> None]

\* A push: "sent", the request is on its way; "authed", the handler has its principal
\* and awaits; "answered", the answer is on its way and may carry a new nonce.
Push == [pc : {"idle", "sent", "authed", "answered"}, batch : SUBSET Events,
         dev : Devices \cup {None}, answer : {"none", "challenge", "ok", "error"},
         offer : 0..Ttl]

Quiet == [pc |-> "idle", batch |-> {}, dev |-> None, answer |-> "none", offer |-> 0]

TypeOK ==
    /\ up \in BOOLEAN
    /\ assigned \in SUBSET Devices
    /\ settings \in [Devices -> {"none", "ignores", "wants"}]
    /\ byName \in [Names -> Principal \cup {NoOne}]
    /\ nonce \in [Devices -> 0..Ttl]
    /\ push \in [Devices -> Push]
    /\ queue \in SUBSET (Devices \X Events)
    /\ forgotten \in [Devices -> SUBSET Events]

-----------------------------------------------------------------------------
(* The tables *)

\* AssignmentRegistry.apply.
AssignedBy(l) == {d \in Devices : l[d].st # "none"}

Valid(l) == {d \in Devices : l[d].st = "valid"}

\* rebuild: a device whose settings do not parse has none.
SettingsBy(l) ==
    [d \in Devices |-> IF d \notin Valid(l) THEN "none"
                       ELSE IF l[d].wants THEN "wants" ELSE "ignores"]

\* rebuild: the last device of the lease with a user name has it.
NamesBy(l) ==
    {f \in [Names -> Principal \cup {NoOne}] :
        \A n \in Names :
            IF \E d \in Valid(l) : l[d].name = n
            THEN \E d \in Valid(l) : l[d].name = n /\ f[n] = [dev |-> d, pw |-> l[d].pw]
            ELSE f[n] = NoOne}

Empty ==
    /\ assigned = {}
    /\ settings = [d \in Devices |-> "none"]
    /\ byName = [n \in Names |-> NoOne]

\* applyLease, at the start, at a heartbeat and at a re-registration.
ApplyLease ==
    /\ up
    /\ \E l \in Leases :
        /\ assigned' = AssignedBy(l)
        /\ settings' = SettingsBy(l)
        /\ byName' \in NamesBy(l)
    /\ UNCHANGED <<up, nonce, push, queue, forgotten>>

\* The store throws in setLastAckedEventId: pushAuth.rebuild is not reached.
ApplyLeaseThrows ==
    /\ up
    /\ \E l \in Leases : assigned' = AssignedBy(l) /\ AssignedBy(l) # {}
    /\ UNCHANGED <<up, settings, byName, nonce, push, queue, forgotten>>

-----------------------------------------------------------------------------
(* The terminals *)

\* What a terminal still has to push.
Unpushed(t) == {e \in Events : MadeBy[e] = t} \ forgotten[t]

\* One event, or the events of a picture upload; with the nonce the terminal holds.
Send(t) ==
    /\ push[t].pc = "idle"
    /\ \E b \in SUBSET Unpushed(t) \ {{}} :
        push' = [push EXCEPT ![t] = [Quiet EXCEPT !.pc = "sent", !.batch = b]]
    /\ UNCHANGED <<up, tables, nonce, queue, forgotten>>

\* The answer is received.  Only a 200 ends a push.
Receive(t) ==
    /\ push[t].pc = "answered"
    /\ nonce' = [nonce EXCEPT ![t] = IF push[t].answer = "challenge" THEN push[t].offer ELSE @]
    /\ forgotten' = [forgotten EXCEPT ![t] =
                        IF push[t].answer = "ok" THEN @ \cup push[t].batch ELSE @]
    /\ push' = [push EXCEPT ![t] = Quiet]
    /\ UNCHANGED <<up, tables, queue>>

\* The request or its answer is lost, or the terminal gives up.
Lose(t) ==
    /\ push[t].pc \in {"sent", "answered"}
    /\ push' = [push EXCEPT ![t] = Quiet]
    /\ UNCHANGED <<up, tables, nonce, queue, forgotten>>

-----------------------------------------------------------------------------
(* The handlers of /ingest/event and /ingest/image-event *)

Answered(t, how) == [push EXCEPT ![t] = [push[t] EXCEPT !.pc = "answered", !.answer = how]]

\* Mutation: validate does not look at the password.
AcceptedByName(t) == nonce[t] > 0 /\ byName[Cred[t].name] # NoOne

\* authenticateDigestPush: the name is known, the nonce is, too, and the response
\* was made with its password.
Accepted(t) ==
    /\ nonce[t] > 0
    /\ byName[Cred[t].name] # NoOne
    /\ byName[Cred[t].name].pw = Cred[t].pw

Authenticate(t) ==
    /\ up
    /\ push[t].pc = "sent"
    /\ Accepted(t)
    /\ push' = [push EXCEPT ![t] = [push[t] EXCEPT !.pc = "authed",
                                                    !.dev = byName[Cred[t].name].dev]]
    /\ UNCHANGED <<up, tables, nonce, queue, forgotten>>

\* Mutation: the nonce of a challenge is not kept.
ChallengeForgotten(t) ==
    /\ up
    /\ push[t].pc = "sent"
    /\ ~Accepted(t)
    /\ push' = Answered(t, "challenge")
    /\ UNCHANGED <<up, tables, nonce, queue, forgotten>>

\* 401 with a new nonce.
Challenge(t) ==
    /\ up
    /\ push[t].pc = "sent"
    /\ ~Accepted(t)
    /\ push' = [push EXCEPT ![t] = [push[t] EXCEPT !.pc = "answered",
                                        !.answer = "challenge", !.offer = Ttl]]
    /\ UNCHANGED <<up, tables, nonce, queue, forgotten>>

\* Mutation: the assignment is not looked up after the await.
RecordsUnassigned(t) ==
    IF settings[push[t].dev] = "wants"
    THEN {<<push[t].dev, e>> : e \in push[t].batch \cap Access} ELSE {}

\* Mutation: the device is looked up again after the await.
RecordsOfName(t) ==
    LET d == byName[Cred[t].name].dev IN
    IF d \in assigned /\ settings[d] = "wants"
    THEN {<<d, e>> : e \in push[t].batch \cap Access} ELSE {}

\* What ingestEvents records: nothing if the device has no settings or no assignment
\* by now, or does not want AccessControl.
Records(t) ==
    IF push[t].dev \in assigned /\ settings[push[t].dev] = "wants"
    THEN {<<push[t].dev, e>> : e \in push[t].batch \cap Access} ELSE {}

\* 200, whatever was recorded.
Ingest(t) ==
    /\ up
    /\ push[t].pc = "authed"
    /\ queue' = queue \cup Records(t)
    /\ push' = Answered(t, "ok")
    /\ UNCHANGED <<up, tables, nonce, forgotten>>

\* Mutation: an exception of the store is caught and the answer is 200.
IngestSwallows(t) ==
    /\ up
    /\ push[t].pc = "authed"
    /\ \E some \in SUBSET Records(t) \ {Records(t)} : queue' = queue \cup some
    /\ push' = Answered(t, "ok")
    /\ UNCHANGED <<up, tables, nonce, forgotten>>

\* The store throws at an event of the batch: 500, the events before it are recorded.
IngestThrows(t) ==
    /\ up
    /\ push[t].pc = "authed"
    /\ \E some \in SUBSET Records(t) \ {Records(t)} : queue' = queue \cup some
    /\ push' = Answered(t, "error")
    /\ UNCHANGED <<up, tables, nonce, forgotten>>

-----------------------------------------------------------------------------
(* Time and the process *)

\* Date.now() advances; no entry of nonces is accepted after its time.
Tick ==
    /\ nonce' = [t \in Devices |-> IF nonce[t] = 0 THEN 0 ELSE nonce[t] - 1]
    /\ push' = [t \in Devices |->
                   [push[t] EXCEPT !.offer = IF push[t].offer = 0 THEN 0 ELSE push[t].offer - 1]]
    /\ UNCHANGED <<up, tables, queue, forgotten>>

\* The process dies: its nonces and tables are lost, an answer that was sent is not.
Crash ==
    /\ up
    /\ up' = FALSE
    /\ assigned' = {}
    /\ settings' = [d \in Devices |-> "none"]
    /\ byName' = [n \in Names |-> NoOne]
    /\ nonce' = [t \in Devices |-> 0]
    /\ push' = [t \in Devices |->
                   IF push[t].pc = "answered" THEN [push[t] EXCEPT !.offer = 0] ELSE Quiet]
    /\ UNCHANGED <<queue, forgotten>>

\* The server listens before the adapter is registered.
Restart ==
    /\ ~up
    /\ up' = TRUE
    /\ UNCHANGED <<tables, nonce, push, queue, forgotten>>

Init ==
    /\ up = TRUE
    /\ Empty
    /\ nonce = [t \in Devices |-> 0]
    /\ push = [t \in Devices |-> Quiet]
    /\ queue = {}
    /\ forgotten = [t \in Devices |-> {}]

Next ==
    \/ \E t \in Devices :
          \/ Send(t) \/ Receive(t) \/ Lose(t)
          \/ Authenticate(t) \/ Challenge(t) \/ Ingest(t) \/ IngestThrows(t)
    \/ ApplyLease \/ ApplyLeaseThrows \/ Tick \/ Crash \/ Restart

Spec == Init /\ [][Next]_vars

-----------------------------------------------------------------------------
(* Safety *)

\* No lease gives the credentials of a terminal to another device.
CredentialsAreOwn ==
    \A l \in Leases, d, t \in Devices :
        l[d].st = "valid" /\ l[d].name = Cred[t].name /\ l[d].pw = Cred[t].pw => d = t

\* An event is recorded under the device whose terminal made it, with user names
\* that several devices share or that move from one to another, and with tables a
\* failed lease has left behind (resolvePushAuth, ingestEvents).
RecordedForItsTerminal ==
    CredentialsAreOwn => \A k \in queue : MadeBy[k[2]] = k[1]

\* A principal that was authenticated is the terminal's own device, although it is
\* used after an await in which the tables may change.
PrincipalsAreOwn ==
    CredentialsAreOwn => \A t \in Devices : push[t].pc = "authed" => push[t].dev = t

\* What the tables hold of credentials comes from a lease.
NamesComeFromLeases ==
    \A n \in Names : byName[n] # NoOne =>
        \E l \in Leases : LET d == byName[n].dev IN
            l[d].st = "valid" /\ l[d].name = n /\ l[d].pw = byName[n].pw

PushesAreOwn ==
    \A t \in Devices : push[t].batch \subseteq {e \in Events : MadeBy[e] = t}

\* Nothing is recorded for a device the DS has taken away, although the push was
\* authenticated before and the tables may disagree (ingestEvents).
NothingForUnassigned ==
    [][\A k \in queue' \ queue : k[1] \in assigned]_vars

\* A terminal that was answered 200 can forget an access event: the event was
\* recorded, unless a lease may take its device away or not want it (ingestEvents).
AlwaysWanted(d) == \A l \in Leases : l[d].st = "valid" /\ l[d].wants

AcceptedIsKept ==
    CredentialsAreOwn =>
        \A t \in Devices : AlwaysWanted(t) =>
            \A e \in forgotten[t] \cap Access : <<t, e>> \in queue

\* A device every lease has and wants is in both tables whenever somebody can be, or
\* has been, authenticated: also between a failed lease and the next.
WantedIsKnown ==
    \A t \in Devices :
        /\ AlwaysWanted(t)
        /\ (\E n \in Names : byName[n] # NoOne) \/ (\E s \in Devices : push[s].pc = "authed")
        => t \in assigned /\ settings[t] = "wants"

\* A 200 on its way is true.
AnswersAreTrue ==
    CredentialsAreOwn =>
        \A t \in Devices : AlwaysWanted(t) /\ push[t].answer = "ok" =>
            \A e \in push[t].batch \cap Access : <<t, e>> \in queue

\* The inductive invariant: at the await between authentication and ingestEvents,
\* and while an answer is on its way, pushes, tables and queue agree.
PushInv ==
    /\ TypeOK
    /\ PushesAreOwn
    /\ NamesComeFromLeases
    /\ PrincipalsAreOwn
    /\ RecordedForItsTerminal
    /\ WantedIsKnown
    /\ AnswersAreTrue
    /\ AcceptedIsKept

-----------------------------------------------------------------------------
(* Liveness *)

\* The tables let the terminal in.
Known(t) ==
    /\ t \in assigned /\ settings[t] = "wants"
    /\ byName[Cred[t].name] = [dev |-> t, pw |-> Cred[t].pw]

\* A terminal repeats a push that was not answered 200.  Not every request and not
\* every answer is lost, some answer to a challenge comes back within the life of
\* its nonce, and the store does not throw for ever.
PushSpec ==
    /\ Spec
    /\ \A t \in Devices :
          /\ WF_vars(Send(t)) /\ SF_vars(Send(t) /\ nonce[t] > 0)
          /\ WF_vars(Receive(t)) /\ SF_vars(Receive(t) /\ push[t].offer > 0)
          /\ SF_vars(Receive(t) /\ push[t].answer = "ok")
          /\ SF_vars(Challenge(t)) /\ SF_vars(Authenticate(t)) /\ SF_vars(Ingest(t))

\* Every access event of a terminal that stays known is recorded in the end: expired
\* nonces, challenges and retries do not keep it out.
PushGetsThrough ==
    \A t \in Devices :
        (<>[]Known(t)) =>
            \A e \in {x \in Access : MadeBy[x] = t} :
                <>(e \in forgotten[t] \/ <<t, e>> \in queue)
=============================================================================
