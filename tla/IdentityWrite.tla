--------------------------- MODULE IdentityWrite ----------------------------
(***************************************************************************)
(* Writing people to terminals: POST /identity/users/create, /update and   *)
(* /bulk-create.  A request fans out to its target devices one after the   *)
(* other and, on each, writes the user, the card and the face of a person  *)
(* with calls that may fail, while other requests do the same and leases   *)
(* change the assignments.                                                 *)
(*                                                                         *)
(* Code: src/src/domain/identity-write/, src/src/domain/identity/          *)
(* identity-target.ts.  An action is the code between two awaits.  connect *)
(* and close of the CGI client do nothing and are left out.  The terminals *)
(* are external.  The order of devices and persons, and the contents of a  *)
(* user, a card or a face, are abstracted; validation precedes a request.  *)
(***************************************************************************)
EXTENDS Naturals, FiniteSets

CONSTANTS
    Devices,
    Persons,
    Requests,    \* HTTP requests in progress at once
    Wanted,      \* of a person, the optional parts its payload has
    Ops,         \* the operations called, of "create", "update" and "bulk"
    None

Parts == {"user", "card", "face"}

ASSUME IdentityConstants ==
    /\ Wanted \in [Persons -> SUBSET {"card", "face"}]
    /\ Ops \subseteq {"create", "update", "bulk"}
    /\ None \notin Devices \cup Persons

VARIABLES
    lease,      \* AssignmentRegistry: is a device assigned, do its settings parse?
    has,        \* what each terminal holds
    req         \* the requests; a finished one keeps its results until the next

vars == <<lease, has, req>>

\* Where a request waits: "device" and "person" in its two loops, the others for
\* an answer of the terminal.
Waits == {"exists", "user", "card", "faceExists", "face"}
Places == {"idle", "device", "person", "done", "rejected"} \cup Waits

Steps == [Parts -> {"skipped", "success", "failed"}]
Skipped == [x \in Parts |-> "skipped"]
Status == {"success", "failed", "skipped"}
Result == [dev : Devices, person : Persons, status : Status, steps : Steps]

Idle == [pc |-> "idle", op |-> "create", target |-> {}, people |-> {}, todo |-> {},
         dev |-> None, left |-> {}, cur |-> None, steps |-> Skipped, results |-> {}]

Request ==
    [pc : Places, op : {"create", "update", "bulk"}, target : SUBSET Devices,
     people : SUBSET Persons, todo : SUBSET Devices, dev : Devices \cup {None},
     left : SUBSET Persons, cur : Persons \cup {None}, steps : Steps,
     results : SUBSET Result]

TypeOK ==
    /\ lease \in [Devices -> {"none", "valid", "unparsable"}]
    /\ has \in [Devices -> SUBSET (Persons \X Parts)]
    /\ req \in [Requests -> Request]

Init ==
    /\ lease \in [Devices -> {"none", "valid", "unparsable"}]
    /\ has = [d \in Devices |-> {}]
    /\ req = [r \in Requests |-> Idle]

Assigned == {d \in Devices : lease[d] # "none"}

-----------------------------------------------------------------------------
(* Results *)

Res(d, p, status, steps) ==
    [dev |-> d, person |-> p, status |-> status, steps |-> steps]

\* makeMissingDeviceResult, makeMissingBulkDeviceResult.
Missing(D, P) == {Res(d, p, "failed", Skipped) : d \in D, p \in P}

\* Mutation: markFailure does not touch result.status for a card or a face.
StatusOfUser(steps) == IF steps["user"] = "failed" THEN "failed" ELSE "success"

\* result.status: success until markFailure.
StatusOf(steps) == IF \E x \in Parts : steps[x] = "failed" THEN "failed" ELSE "success"

\* The result of the current person is pushed and the loop goes on.
Push(q, status) ==
    [q EXCEPT !.results = @ \cup {Res(q.dev, q.cur, status, q.steps)},
              !.pc = "person"]

\* The step of applyWrite that follows; a payload without that part skips it.
FaceNext(q) ==
    IF "face" \notin Wanted[q.cur] THEN Push(q, StatusOf(q.steps))
    ELSE [q EXCEPT !.pc = IF q.op = "update" THEN "faceExists" ELSE "face"]

CardNext(q) ==
    IF "card" \in Wanted[q.cur] THEN [q EXCEPT !.pc = "card"] ELSE FaceNext(q)

\* Mutation: a failed user write does not end applyWrite.
NextAnyway(q) ==
    CASE q.pc = "user" -> CardNext(q)
      [] q.pc = "card" -> FaceNext(q)
      [] OTHER         -> Push(q, StatusOf(q.steps))

NextAfterFailure(q) ==
    IF q.pc = "card" THEN FaceNext(q) ELSE Push(q, StatusOf(q.steps))

NextAfterSuccess(q) ==
    CASE q.pc = "user" -> CardNext(q)
      [] q.pc = "card" -> FaceNext(q)
      [] q.pc = "face" -> Push(q, StatusOf(q.steps))

\* The step of the result a wait belongs to.
PartOf(pc) ==
    CASE pc = "exists"     -> "user"
      [] pc = "faceExists" -> "face"
      [] OTHER             -> pc

\* Mutation: the catch block of the card does nothing.
MarkButCard(q, how) ==
    IF q.pc = "card" /\ how = "failed" THEN q ELSE [q EXCEPT !.steps[PartOf(q.pc)] = how]

Mark(q, how) == [q EXCEPT !.steps[PartOf(q.pc)] = how]

-----------------------------------------------------------------------------
(* A request *)

\* create, update, bulkCreate: the targets are resolved; "allAssigned" may be none.
\* A request that is refused (one device, not assigned: 404) does nothing, and one
\* that names a device or a person twice is left out.
Begin(r) ==
    /\ req[r].pc \in {"idle", "done", "rejected"}
    /\ \E op \in Ops, T \in SUBSET Devices, P \in SUBSET Persons \ {{}} :
        /\ op # "bulk" => Cardinality(P) = 1
        /\ req' = [req EXCEPT ![r] =
                     [Idle EXCEPT !.pc = "device", !.op = op, !.target = T, !.people = P,
                                  !.todo = T \cap Assigned,
                                  !.results = Missing(T \ Assigned, P)]]
    /\ UNCHANGED <<lease, has>>

\* The assignment is looked up again when the device's turn comes.
OpenDevice(r, d) ==
    /\ req[r].pc = "device"
    /\ d \in req[r].todo
    /\ lease[d] = "valid"
    /\ req' = [req EXCEPT ![r] = [req[r] EXCEPT !.pc = "person", !.dev = d,
                                           !.left = req[r].people, !.todo = @ \ {d}]]
    /\ UNCHANGED <<lease, has>>

\* Mutation: the result of a device that was unassigned meanwhile is left out.
ForgetDevice(r, d) ==
    /\ req[r].pc = "device"
    /\ d \in req[r].todo
    /\ lease[d] = "none"
    /\ req' = [req EXCEPT ![r].todo = @ \ {d}]
    /\ UNCHANGED <<lease, has>>

\* Mutation: the loop does not move on.
StickToDevice(r, d) ==
    /\ req[r].pc = "device"
    /\ d \in req[r].todo
    /\ lease[d] = "none"
    /\ req' = [req EXCEPT ![r].results = @ \cup Missing({d}, req[r].people)]
    /\ UNCHANGED <<lease, has>>

SkipDevice(r, d) ==
    /\ req[r].pc = "device"
    /\ d \in req[r].todo
    /\ lease[d] = "none"
    /\ req' = [req EXCEPT ![r] = [req[r] EXCEPT !.todo = @ \ {d},
                                 !.results = @ \cup Missing({d}, req[r].people)]]
    /\ UNCHANGED <<lease, has>>

\* clientFactory.create is called outside the try block: parseDahuaSettings throws,
\* and the request fails with every result it had.
FactoryThrows(r, d) ==
    /\ req[r].pc = "device"
    /\ d \in req[r].todo
    /\ lease[d] = "unparsable"
    /\ req' = [req EXCEPT ![r] = [Idle EXCEPT !.pc = "rejected"]]
    /\ UNCHANGED <<lease, has>>

NextPerson(r) ==
    /\ req[r].pc = "person"
    /\ \E p \in req[r].left :
        req' = [req EXCEPT ![r] =
                   [req[r] EXCEPT !.pc = IF req[r].op = "bulk" THEN "exists" ELSE "user",
                                  !.left = @ \ {p}, !.cur = p, !.steps = Skipped]]
    /\ UNCHANGED <<lease, has>>

CloseDevice(r) ==
    /\ req[r].pc = "person"
    /\ req[r].left = {}
    /\ req' = [req EXCEPT ![r] = [@ EXCEPT !.pc = "device", !.dev = None,
                                          !.cur = None, !.steps = Skipped]]
    /\ UNCHANGED <<lease, has>>

\* userExists answers.
UserLooked(r) ==
    /\ req[r].pc = "exists"
    /\ req' = [req EXCEPT ![r] =
                 IF <<@.cur, "user">> \in has[@.dev]
                 THEN Push(@, "skipped")
                 ELSE [@ EXCEPT !.pc = "user"]]
    /\ UNCHANGED <<lease, has>>

\* faceExists answers: update or create, the terminal holds the face afterwards.
FaceLooked(r) ==
    /\ req[r].pc = "faceExists"
    /\ req' = [req EXCEPT ![r] = [@ EXCEPT !.pc = "face"]]
    /\ UNCHANGED <<lease, has>>

\* A write succeeds.
Written(r) ==
    /\ req[r].pc \in Parts
    /\ has' = [has EXCEPT ![req[r].dev] = @ \cup {<<req[r].cur, req[r].pc>>}]
    /\ req' = [req EXCEPT ![r] = NextAfterSuccess(Mark(req[r], "success"))]
    /\ UNCHANGED lease

\* A call fails: refused, or unanswered, and then the terminal may have done it.
CallFails(r) ==
    /\ req[r].pc \in Waits
    /\ \/ UNCHANGED has
       \/ /\ req[r].pc \in Parts
          /\ has' = [has EXCEPT ![req[r].dev] = @ \cup {<<req[r].cur, req[r].pc>>}]
    /\ req' = [req EXCEPT ![r] = NextAfterFailure(Mark(req[r], "failed"))]
    /\ UNCHANGED lease

\* The response: one result for each device and person.
Respond(r) ==
    /\ req[r].pc = "device"
    /\ req[r].todo = {}
    /\ req' = [req EXCEPT ![r] = [@ EXCEPT !.pc = "done"]]
    /\ UNCHANGED <<lease, has>>

\* AssignmentRegistry.apply of another lease.
LeaseApplied ==
    /\ lease' \in [Devices -> {"none", "valid", "unparsable"}]
    /\ UNCHANGED <<has, req>>

Proceeds(r) ==
    \/ \E d \in Devices : OpenDevice(r, d) \/ SkipDevice(r, d) \/ FactoryThrows(r, d)
    \/ NextPerson(r) \/ CloseDevice(r) \/ UserLooked(r) \/ FaceLooked(r)
    \/ Written(r) \/ CallFails(r) \/ Respond(r)

Next ==
    \/ \E r \in Requests : Begin(r) \/ Proceeds(r)
    \/ LeaseApplied

Spec == Init /\ [][Next]_vars

-----------------------------------------------------------------------------
(* Safety *)

\* What a result says of a terminal, h being what the terminals hold: a step that
\* succeeded left its part there, a success left every part the payload had, and a
\* skipped user is there.
TrueOf(x, h) ==
    /\ \A part \in Parts : x.steps[part] = "success" => <<x.person, part>> \in h[x.dev]
    /\ x.status = "success" =>
          \A part \in {"user"} \cup Wanted[x.person] : <<x.person, part>> \in h[x.dev]
    /\ x.status = "skipped" => <<x.person, "user">> \in h[x.dev]

\* The DS can reconcile from the results alone: nothing they report as written is
\* missing on a terminal, with calls that failed after taking effect, requests for
\* the same person at once and leases that change meanwhile (applyWrite, markFailure).
ReportsAreTrue ==
    \A r \in Requests : \A x \in req[r].results : TrueOf(x, has)

\* No terminal gets a card or a face of a person it does not have (applyWrite).
NoOrphans ==
    \A d \in Devices, p \in Persons, part \in Parts :
        <<p, part>> \in has[d] => <<p, "user">> \in has[d]

\* A request that is answered is answered for each of its devices and persons, once,
\* also for those not assigned at the start or unassigned on the way.
EveryPairAnswered ==
    \A r \in Requests : req[r].pc = "done" =>
        \A d \in Devices, p \in Persons :
            Cardinality({x \in req[r].results : x.dev = d /\ x.person = p})
                = IF d \in req[r].target /\ p \in req[r].people THEN 1 ELSE 0

\* Has the request answered for p on d?  It is done with a device that is neither
\* to come nor at hand, and of the device at hand with the persons before the current.
Answered(q, d, p) ==
    /\ p \in q.people
    /\ d \in q.target \ q.todo
    /\ d = q.dev => p \notin q.left /\ (q.pc \in Waits => p # q.cur)

\* Where a request is and what it has answered belong together.
WhereItIs(q) ==
    /\ (q.dev = None) <=> q.pc \in {"idle", "device", "done", "rejected"}
    /\ q.dev # None => q.dev \in q.target \ q.todo
    /\ q.todo \subseteq q.target /\ q.left \subseteq q.people
    /\ q.pc \in Waits => q.cur \in q.people \ q.left
    /\ q.pc = "done" => q.todo = {}

OneAnswerPerPair(q) ==
    /\ \A d \in Devices, p \in Persons :
          Answered(q, d, p) <=> \E x \in q.results : x.dev = d /\ x.person = p
    /\ \A x, y \in q.results : x.dev = y.dev /\ x.person = y.person => x = y

\* What the calls of a write have left: a step marked a success left its part on the
\* terminal, and a card or a face is only written after the user.
WrittenSoFar(q, h) ==
    /\ q.pc \in Waits =>
          \A part \in Parts :
              /\ q.steps[part] = "success" => <<q.cur, part>> \in h[q.dev]
              /\ q.steps[part] = "failed" => part = "card" /\ q.pc \in {"faceExists", "face"}
    /\ q.pc \in {"card", "faceExists", "face"} => q.steps["user"] = "success"
    /\ q.pc = "card" => "card" \in Wanted[q.cur]
    /\ q.pc \in {"faceExists", "face"} =>
          /\ "face" \in Wanted[q.cur]
          /\ "card" \in Wanted[q.cur] => q.steps["card"] # "skipped"

\* Everything at once, and inductive: at every await of a request its position in
\* the loops of write or bulkCreate, its results and the terminals agree.
IdentityInv ==
    /\ TypeOK
    /\ \A r \in Requests :
          WhereItIs(req[r]) /\ OneAnswerPerPair(req[r]) /\ WrittenSoFar(req[r], has)

\* docs/identity-api.md, Rules: a device that fails does not fail the request.
FanOutIsAnswered == \A r \in Requests : req[r].pc # "rejected"

-----------------------------------------------------------------------------
(* Liveness *)

\* Every call is answered or times out (HTTP_TIMEOUT_MS).
RequestSpec == Spec /\ \A r \in Requests : WF_vars(Proceeds(r))

\* Every request is answered, whatever the leases do meanwhile.
EveryRequestEnds ==
    \A r \in Requests : req[r].pc # "idle" ~> req[r].pc \in {"done", "rejected"}
=============================================================================
