------------------------ MODULE IdentityWrite_Proofs ------------------------
(***************************************************************************)
(* Proofs about IdentityWrite.  A step of a request replaces its record by *)
(* a new one and lets the terminals' content grow.  So the invariant is    *)
(* stated of one record q and a content h (Good), shown for the record     *)
(* each action makes, and carried over to the other requests (OneChanges). *)
(***************************************************************************)
EXTENDS IdentityWrite, FiniteSetTheorems, TLAPS

Content == [Devices -> SUBSET (Persons \X Parts)]

Good(q, h) ==
    /\ q \in Request
    /\ WhereItIs(q)
    /\ OneAnswerPerPair(q)
    /\ WrittenSoFar(q, h)
    /\ \A x \in q.results : TrueOf(x, h)

Inv ==
    /\ TypeOK
    /\ \A r \in Requests : Good(req[r], has)

\* The steps of a result that is waited for, before the answer is marked.
Waiting(q) == q \in Request /\ q.pc \in Waits /\ WhereItIs(q) /\ OneAnswerPerPair(q)

-----------------------------------------------------------------------------
(* Content only grows *)

\* What is good stays good when the terminals hold more.
LEMMA GoodStays ==
    ASSUME NEW q, NEW h \in Content, NEW k \in Content, Good(q, h),
           \A d \in Devices : h[d] \subseteq k[d]
    PROVE  Good(q, k)
<1>1. q.pc \in Waits => q.dev \in Devices
  BY DEF Good, Request, WhereItIs, Waits
<1>2. WrittenSoFar(q, k)
  BY <1>1 DEF Good, WrittenSoFar
<1>3. \A x \in q.results : x \in Result
  BY DEF Good, Request
<1>4. ASSUME NEW x \in q.results
      PROVE  TrueOf(x, k)
  <2>1. TrueOf(x, h) /\ x.dev \in Devices
    BY <1>3 DEF Good, Result
  <2>. QED
    BY <2>1 DEF TrueOf
<1>. QED
  BY <1>2, <1>4 DEF Good

\* The step of one request leaves the others good.
LEMMA OneChanges ==
    ASSUME NEW f \in [Requests -> Request], NEW r \in Requests, NEW q,
           NEW h \in Content, NEW k \in Content,
           \A d \in Devices : h[d] \subseteq k[d],
           \A o \in Requests : Good(f[o], h),
           Good(q, k)
    PROVE  /\ [f EXCEPT ![r] = q] \in [Requests -> Request]
           /\ \A o \in Requests : Good([f EXCEPT ![r] = q][o], k)
<1>1. q \in Request
  BY DEF Good
<1>2. \A o \in Requests : Good(f[o], k)
  BY GoodStays
<1>. QED
  BY <1>1, <1>2

-----------------------------------------------------------------------------
(* The results of a device that is not assigned *)

\* One result, failed and with every step skipped, for each person.
LEMMA MissingResults ==
    ASSUME NEW D \in SUBSET Devices, NEW P \in SUBSET Persons
    PROVE  /\ Missing(D, P) \subseteq Result
           /\ \A x \in Missing(D, P) : x.dev \in D /\ x.person \in P
           /\ \A d \in D, p \in P : \E x \in Missing(D, P) : x.dev = d /\ x.person = p
           /\ \A x, y \in Missing(D, P) : x.dev = y.dev /\ x.person = y.person => x = y
           /\ \A x \in Missing(D, P) : x.status = "failed" /\ x.steps = Skipped
<1>1. \A d \in D, p \in P :
         /\ Res(d, p, "failed", Skipped) \in Result
         /\ Res(d, p, "failed", Skipped).dev = d
         /\ Res(d, p, "failed", Skipped).person = p
         /\ Res(d, p, "failed", Skipped).status = "failed"
         /\ Res(d, p, "failed", Skipped).steps = Skipped
  BY DEF Res, Result, Steps, Skipped, Status
<1>2. \A d \in D, p \in P : Res(d, p, "failed", Skipped) \in Missing(D, P)
  BY DEF Missing
<1>3. \A x \in Missing(D, P) : \E d \in D, p \in P : x = Res(d, p, "failed", Skipped)
  BY DEF Missing
<1>4. Missing(D, P) \subseteq Result
  BY <1>1, <1>3
<1>5. \A x \in Missing(D, P) : x.dev \in D /\ x.person \in P
                               /\ x.status = "failed" /\ x.steps = Skipped
  BY <1>1, <1>3
<1>6. \A d \in D, p \in P : \E x \in Missing(D, P) : x.dev = d /\ x.person = p
  BY <1>1, <1>2
<1>7. ASSUME NEW x \in Missing(D, P), NEW y \in Missing(D, P),
             x.dev = y.dev, x.person = y.person
      PROVE  x = y
  <2>1. PICK d \in D, p \in P : x = Res(d, p, "failed", Skipped)
    BY <1>3
  <2>2. PICK e \in D, s \in P : y = Res(e, s, "failed", Skipped)
    BY <1>3
  <2>3. d = e /\ p = s
    BY <1>1, <1>7, <2>1, <2>2
  <2>. QED
    BY <2>1, <2>2, <2>3
<1>. QED
  BY <1>4, <1>5, <1>6, <1>7

\* Such a result claims nothing of a terminal.
LEMMA MissingIsTrue ==
    ASSUME NEW D \in SUBSET Devices, NEW P \in SUBSET Persons, NEW h \in Content,
           NEW x \in Missing(D, P)
    PROVE  TrueOf(x, h)
<1>1. x.status = "failed" /\ x.steps = Skipped
  BY MissingResults
<1>. QED
  BY <1>1 DEF TrueOf, Skipped

-----------------------------------------------------------------------------
(* The pipeline of one person *)

\* StatusOf is success unless a step failed.
LEMMA StatusType ==
    ASSUME NEW s \in Steps
    PROVE  /\ StatusOf(s) \in {"success", "failed"}
           /\ StatusOf(s) = "success" => \A x \in Parts : s[x] # "failed"
  BY DEF StatusOf

\* Marking a step changes the steps and nothing else.
LEMMA MarkSteps ==
    ASSUME NEW q, Waiting(q), NEW how \in {"success", "failed"}
    PROVE  /\ Waiting(Mark(q, how))
           /\ Mark(q, how).pc = q.pc /\ Mark(q, how).op = q.op
           /\ Mark(q, how).cur = q.cur /\ Mark(q, how).dev = q.dev
           /\ Mark(q, how).results = q.results
           /\ \A x \in Parts : Mark(q, how).steps[x] =
                                  IF x = PartOf(q.pc) THEN how ELSE q.steps[x]
<1>1. PartOf(q.pc) \in Parts
  BY DEF Waiting, Waits, PartOf, Parts
<1>2. /\ Mark(q, how) \in Request
      /\ Mark(q, how).pc = q.pc /\ Mark(q, how).op = q.op
      /\ Mark(q, how).cur = q.cur /\ Mark(q, how).dev = q.dev
      /\ Mark(q, how).results = q.results
      /\ Mark(q, how).target = q.target /\ Mark(q, how).people = q.people
      /\ Mark(q, how).todo = q.todo /\ Mark(q, how).left = q.left
  BY <1>1 DEF Waiting, Mark, Request, Steps
<1>3. \A x \in Parts : Mark(q, how).steps[x] =
                          IF x = PartOf(q.pc) THEN how ELSE q.steps[x]
  BY <1>1 DEF Waiting, Mark, Request, Steps
<1>4. WhereItIs(Mark(q, how))
  BY <1>2 DEF Waiting, WhereItIs
<1>5. OneAnswerPerPair(Mark(q, how))
  BY <1>2 DEF Waiting, OneAnswerPerPair, Answered
<1>. QED
  BY <1>2, <1>3, <1>4, <1>5 DEF Waiting

\* Going on to wait for another call of the same person.
LEMMA NextWait ==
    ASSUME NEW q, Waiting(q), NEW w \in Waits
    PROVE  /\ Waiting([q EXCEPT !.pc = w])
           /\ [q EXCEPT !.pc = w].results = q.results
<1>1. /\ [q EXCEPT !.pc = w] \in Request
      /\ [q EXCEPT !.pc = w].pc = w
      /\ [q EXCEPT !.pc = w].cur = q.cur /\ [q EXCEPT !.pc = w].dev = q.dev
      /\ [q EXCEPT !.pc = w].results = q.results
      /\ [q EXCEPT !.pc = w].target = q.target /\ [q EXCEPT !.pc = w].people = q.people
      /\ [q EXCEPT !.pc = w].todo = q.todo /\ [q EXCEPT !.pc = w].left = q.left
  BY DEF Waiting, Request, Places
<1>2. WhereItIs([q EXCEPT !.pc = w])
  BY <1>1 DEF Waiting, WhereItIs, Waits
<1>3. OneAnswerPerPair([q EXCEPT !.pc = w])
  BY <1>1 DEF Waiting, OneAnswerPerPair, Answered
<1>. QED
  BY <1>1, <1>2, <1>3 DEF Waiting

\* The result of the current person is pushed: its pair is answered once.
LEMMA PushGood ==
    ASSUME NEW q, Waiting(q), NEW h \in Content, NEW status \in Status,
           \A x \in q.results : TrueOf(x, h),
           TrueOf(Res(q.dev, q.cur, status, q.steps), h)
    PROVE  Good(Push(q, status), h)
<1>. DEFINE res == Res(q.dev, q.cur, status, q.steps)
            n == Push(q, status)
<1>1. /\ q.dev \in Devices /\ q.dev # None /\ q.cur \in Persons
      /\ q.dev \in q.target \ q.todo /\ q.cur \in q.people \ q.left
  BY DEF Waiting, WhereItIs, Waits, Request
<1>2. /\ res \in Result
      /\ res.dev = q.dev /\ res.person = q.cur
  BY <1>1 DEF Waiting, Request, Res, Result
<1>3. /\ n \in Request
      /\ n.pc = "person"
      /\ n.dev = q.dev /\ n.target = q.target /\ n.todo = q.todo
      /\ n.people = q.people /\ n.left = q.left
      /\ n.results = q.results \cup {res}
  BY <1>2 DEF Waiting, Push, Request, Places
<1>. HIDE DEF res, n
<1>4. WhereItIs(n)
  BY <1>1, <1>3 DEF Waiting, WhereItIs, Waits
<1>5. \A d \in Devices, p \in Persons :
         Answered(n, d, p) <=> Answered(q, d, p) \/ (d = q.dev /\ p = q.cur)
  BY <1>1, <1>3 DEF Answered, Waits, Waiting
<1>6. \A x \in q.results : ~(x.dev = q.dev /\ x.person = q.cur)
  <2>1. ~Answered(q, q.dev, q.cur)
    BY DEF Answered, Waiting
  <2>. QED
    BY <1>1, <2>1 DEF Waiting, OneAnswerPerPair
<1>7. OneAnswerPerPair(n)
  BY <1>2, <1>3, <1>5, <1>6 DEF Waiting, OneAnswerPerPair
<1>8. WrittenSoFar(n, h)
  BY <1>3 DEF WrittenSoFar, Waits
<1>9. \A x \in n.results : TrueOf(x, h)
  BY <1>3 DEF res
<1>. QED
  BY <1>3, <1>4, <1>7, <1>8, <1>9 DEF Good, n

\* What the steps of a person may say before a card or a face is looked at.
Claims(q, h) ==
    \A x \in Parts : q.steps[x] = "success" => <<q.cur, x>> \in h[q.dev]

\* The person is done when every step that its payload has was tried.
LEMMA PersonDone ==
    ASSUME NEW q, Waiting(q), NEW h \in Content, Claims(q, h),
           \A x \in q.results : TrueOf(x, h),
           \A x \in {"user"} \cup Wanted[q.cur] : q.steps[x] # "skipped"
                \/ \E y \in Parts : q.steps[y] = "failed"
    PROVE  Good(Push(q, StatusOf(q.steps)), h)
<1>1. q.steps \in Steps /\ q.cur \in Persons
  BY DEF Waiting, Request, WhereItIs
<1>2. {"user"} \cup Wanted[q.cur] \subseteq Parts
  BY <1>1, IdentityConstants DEF Parts
<1>3. StatusOf(q.steps) \in Status /\ StatusOf(q.steps) # "skipped"
  BY <1>1, StatusType DEF Status
<1>4. StatusOf(q.steps) = "success" =>
         \A x \in {"user"} \cup Wanted[q.cur] : q.steps[x] = "success"
  BY <1>1, <1>2, StatusType DEF Steps
<1>5. TrueOf(Res(q.dev, q.cur, StatusOf(q.steps), q.steps), h)
  BY <1>2, <1>3, <1>4 DEF TrueOf, Res, Claims
<1>. QED
  BY <1>3, <1>5, PushGood

\* On to the face, the card having been tried if there is one.
LEMMA FaceNextGood ==
    ASSUME NEW q, Waiting(q), NEW h \in Content, Claims(q, h),
           \A x \in q.results : TrueOf(x, h),
           q.steps["user"] = "success",
           q.steps["face"] # "failed",
           "card" \in Wanted[q.cur] => q.steps["card"] # "skipped"
    PROVE  Good(FaceNext(q), h)
<1>1. q.cur \in Persons /\ Wanted[q.cur] \subseteq {"card", "face"}
  BY IdentityConstants DEF Waiting, Request, WhereItIs
<1>2. CASE "face" \notin Wanted[q.cur]
  BY <1>1, <1>2, PersonDone DEF FaceNext
<1>3. CASE "face" \in Wanted[q.cur]
  <2>. DEFINE w == IF q.op = "update" THEN "faceExists" ELSE "face"
              n == [q EXCEPT !.pc = w]
  <2>1. FaceNext(q) = n /\ w \in {"faceExists", "face"}
    BY <1>3 DEF FaceNext
  <2>2. /\ Waiting(n) /\ n.results = q.results
    BY <2>1, NextWait DEF Waits
  <2>3. n.pc = w /\ n.steps = q.steps /\ n.cur = q.cur /\ n.dev = q.dev
    BY DEF Waiting, Request
  <2>. HIDE DEF w, n
  <2>4. WrittenSoFar(n, h)
    BY <1>3, <2>1, <2>3 DEF WrittenSoFar, Claims, Parts
  <2>. QED
    BY <2>1, <2>2, <2>4 DEF Good, Waiting
<1>. QED
  BY <1>2, <1>3

\* On to the card, the user having been written.
LEMMA CardNextGood ==
    ASSUME NEW q, Waiting(q), NEW h \in Content, Claims(q, h),
           \A x \in q.results : TrueOf(x, h),
           q.steps["user"] = "success",
           q.steps["card"] # "failed",
           q.steps["face"] # "failed"
    PROVE  Good(CardNext(q), h)
<1>1. CASE "card" \notin Wanted[q.cur]
  BY <1>1, FaceNextGood DEF CardNext
<1>2. CASE "card" \in Wanted[q.cur]
  <2>. DEFINE n == [q EXCEPT !.pc = "card"]
  <2>1. CardNext(q) = n
    BY <1>2 DEF CardNext
  <2>2. Waiting(n) /\ n.results = q.results
    BY NextWait DEF Waits
  <2>3. n.pc = "card" /\ n.steps = q.steps /\ n.cur = q.cur /\ n.dev = q.dev
    BY DEF Waiting, Request
  <2>. HIDE DEF n
  <2>4. WrittenSoFar(n, h)
    BY <1>2, <2>3 DEF WrittenSoFar, Claims, Parts
  <2>. QED
    BY <2>1, <2>2, <2>4 DEF Good, Waiting
<1>. QED
  BY <1>1, <1>2

-----------------------------------------------------------------------------
(* The actions, as changes of one record *)

\* What is known of a request that waits for an answer.
LEMMA WaitingFacts ==
    ASSUME NEW q, NEW h \in Content, Good(q, h), q.pc \in Waits
    PROVE  /\ Waiting(q)
           /\ Claims(q, h)
           /\ \A x \in Parts :
                 q.steps[x] = "failed" => x = "card" /\ q.pc \in {"faceExists", "face"}
           /\ q.dev \in Devices /\ q.cur \in Persons
           /\ \A x \in q.results : TrueOf(x, h)
<1>1. Waiting(q) /\ Claims(q, h) /\ \A x \in q.results : TrueOf(x, h)
  BY DEF Good, Waiting, Claims, WrittenSoFar
<1>2. q.dev \in Devices /\ q.cur \in Persons
  BY DEF Good, Request, WhereItIs, Waits
<1>. QED
  BY <1>1, <1>2 DEF Good, WrittenSoFar

\* A request that has begun.
LEMMA BeginGood ==
    ASSUME NEW op \in {"create", "update", "bulk"},
           NEW T \in SUBSET Devices, NEW P \in SUBSET Persons,
           NEW A \in SUBSET Devices, NEW h \in Content
    PROVE  Good([Idle EXCEPT !.pc = "device", !.op = op, !.target = T, !.people = P,
                             !.todo = T \cap A, !.results = Missing(T \ A, P)], h)
<1>. DEFINE n == [Idle EXCEPT !.pc = "device", !.op = op, !.target = T, !.people = P,
                              !.todo = T \cap A, !.results = Missing(T \ A, P)]
<1>1. Missing(T \ A, P) \in SUBSET Result
  BY MissingResults
<1>2. /\ n \in Request
      /\ n.pc = "device" /\ n.target = T /\ n.people = P /\ n.todo = T \cap A
      /\ n.dev = None /\ n.left = {} /\ n.results = Missing(T \ A, P)
  BY <1>1 DEF Idle, Request, Places, Steps, Skipped
<1>. HIDE DEF n
<1>3. WhereItIs(n) /\ WrittenSoFar(n, h)
  BY <1>2 DEF WhereItIs, WrittenSoFar, Waits
<1>4. \A d \in Devices, p \in Persons : Answered(n, d, p) <=> d \in T \ A /\ p \in P
  BY <1>2, IdentityConstants DEF Answered
<1>5. T \ A \in SUBSET Devices
  OBVIOUS
<1>6. OneAnswerPerPair(n)
  <2>. DEFINE D == T \ A
              M == Missing(D, P)
  <2>1. D \in SUBSET Devices
    OBVIOUS
  <2>. HIDE DEF D
  <2>2. /\ \A x \in M : x.dev \in D /\ x.person \in P
        /\ \A d \in D, p \in P : \E x \in M : x.dev = d /\ x.person = p
        /\ \A x, y \in M : x.dev = y.dev /\ x.person = y.person => x = y
    BY ONLY <2>1, P \in SUBSET Persons, MissingResults
  <2>3. n.results = M /\ \A d \in Devices, p \in Persons :
                            Answered(n, d, p) <=> d \in D /\ p \in P
    BY <1>2, <1>4 DEF D
  <2>. HIDE DEF M
  <2>. QED
    BY <2>2, <2>3 DEF OneAnswerPerPair
<1>7. \A x \in n.results : TrueOf(x, h)
  BY <1>2, <1>5, MissingIsTrue
<1>. QED
  BY <1>2, <1>3, <1>6, <1>7 DEF Good, n

\* A device whose turn has come, with all its persons to come.
LEMMA OpenGood ==
    ASSUME NEW q, NEW h \in Content, Good(q, h), q.pc = "device", NEW d \in q.todo
    PROVE  Good([q EXCEPT !.pc = "person", !.dev = d, !.left = q.people,
                          !.todo = @ \ {d}], h)
<1>. DEFINE n == [q EXCEPT !.pc = "person", !.dev = d, !.left = q.people,
                           !.todo = @ \ {d}]
<1>1. d \in Devices /\ d # None
  BY IdentityConstants DEF Good, Request
<1>2. /\ n \in Request
      /\ n.pc = "person" /\ n.target = q.target /\ n.people = q.people
      /\ n.todo = q.todo \ {d} /\ n.dev = d /\ n.left = q.people
      /\ n.results = q.results
  BY <1>1 DEF Good, Request, Places
<1>. HIDE DEF n
<1>3. WhereItIs(n) /\ WrittenSoFar(n, h)
  BY <1>1, <1>2 DEF Good, WhereItIs, WrittenSoFar, Waits
<1>4. \A e \in Devices, p \in Persons : Answered(n, e, p) <=> Answered(q, e, p)
  BY <1>1, <1>2, IdentityConstants DEF Good, WhereItIs, Answered, Waits
<1>5. OneAnswerPerPair(n)
  BY <1>2, <1>4 DEF Good, OneAnswerPerPair
<1>. QED
  BY <1>2, <1>3, <1>5 DEF Good, n

\* A device that is not assigned any more is answered for all its persons.
LEMMA SkipGood ==
    ASSUME NEW q, NEW h \in Content, Good(q, h), q.pc = "device", NEW d \in q.todo
    PROVE  Good([q EXCEPT !.todo = @ \ {d},
                          !.results = @ \cup Missing({d}, q.people)], h)
<1>. DEFINE n == [q EXCEPT !.todo = @ \ {d},
                           !.results = @ \cup Missing({d}, q.people)]
<1>1. /\ d \in Devices /\ d # None /\ q.dev = None
      /\ {d} \in SUBSET Devices /\ q.people \in SUBSET Persons
  BY IdentityConstants DEF Good, Request, WhereItIs
<1>2. /\ n \in Request
      /\ n.pc = "device" /\ n.target = q.target /\ n.people = q.people
      /\ n.todo = q.todo \ {d} /\ n.dev = None /\ n.left = q.left
      /\ n.results = q.results \cup Missing({d}, q.people)
  BY <1>1, MissingResults DEF Good, Request
<1>. HIDE DEF n
<1>3. WhereItIs(n) /\ WrittenSoFar(n, h)
  BY <1>2 DEF Good, WhereItIs, WrittenSoFar, Waits
<1>4. \A e \in Devices, p \in Persons :
         Answered(n, e, p) <=> Answered(q, e, p) \/ (e = d /\ p \in q.people)
  BY <1>1, <1>2, IdentityConstants DEF Good, WhereItIs, Answered, Waits
<1>5. \A x \in q.results : x.dev # d
  BY <1>1 DEF Good, OneAnswerPerPair, Answered, Request, Result
<1>6. OneAnswerPerPair(n)
  <2>. DEFINE D == {d}
              P == q.people
              M == Missing(D, P)
  <2>0. D \in SUBSET Devices /\ P \in SUBSET Persons
    BY <1>1
  <2>. HIDE DEF D, P
  <2>1. /\ \A x \in M : x.dev \in D /\ x.person \in P
        /\ \A e \in D, p \in P : \E x \in M : x.dev = e /\ x.person = p
        /\ \A x, y \in M : x.dev = y.dev /\ x.person = y.person => x = y
    BY ONLY <2>0, MissingResults
  <2>. USE DEF D, P
  <2>2. n.results = q.results \cup M
    BY <1>2
  <2>. HIDE DEF M
  <2>3. \A x, y \in n.results : x.dev = y.dev /\ x.person = y.person => x = y
    BY <1>5, <2>1, <2>2 DEF Good, OneAnswerPerPair
  <2>4. ASSUME NEW e \in Devices, NEW p \in Persons
        PROVE  Answered(n, e, p) <=> \E x \in n.results : x.dev = e /\ x.person = p
    BY <1>4, <2>1, <2>2 DEF Good, OneAnswerPerPair
  <2>. QED
    BY <2>3, <2>4 DEF OneAnswerPerPair
<1>7. \A x \in n.results : TrueOf(x, h)
  BY <1>1, <1>2, MissingIsTrue DEF Good
<1>. QED
  BY <1>2, <1>3, <1>6, <1>7 DEF Good, n

\* A request that was rejected has no results.
LEMMA RejectedGood ==
    ASSUME NEW h \in Content
    PROVE  /\ Good([Idle EXCEPT !.pc = "rejected"], h)
           /\ Good(Idle, h)
<1>. DEFINE n == [Idle EXCEPT !.pc = "rejected"]
<1>1. /\ n \in Request /\ Idle \in Request
  BY DEF Idle, Request, Places, Steps, Skipped
<1>2. /\ n.pc = "rejected" /\ n.dev = None /\ n.people = {} /\ n.target = {}
      /\ n.todo = {} /\ n.left = {} /\ n.results = {}
      /\ Idle.pc = "idle" /\ Idle.dev = None /\ Idle.people = {} /\ Idle.target = {}
      /\ Idle.todo = {} /\ Idle.left = {} /\ Idle.results = {}
  BY DEF Idle
<1>. HIDE DEF n
<1>. QED
  BY <1>1, <1>2 DEF Good, WhereItIs, OneAnswerPerPair, Answered, WrittenSoFar, Waits, n

\* The next person of a device.
LEMMA PersonGood ==
    ASSUME NEW q, NEW h \in Content, Good(q, h), q.pc = "person", NEW p \in q.left,
           NEW w \in {"exists", "user"}
    PROVE  Good([q EXCEPT !.pc = w, !.left = @ \ {p}, !.cur = p, !.steps = Skipped], h)
<1>. DEFINE n == [q EXCEPT !.pc = w, !.left = @ \ {p}, !.cur = p, !.steps = Skipped]
<1>1. p \in Persons /\ p \in q.people
  BY DEF Good, Request, WhereItIs
<1>2. /\ n \in Request
      /\ n.pc = w /\ n.target = q.target /\ n.people = q.people
      /\ n.todo = q.todo /\ n.dev = q.dev /\ n.left = q.left \ {p} /\ n.cur = p
      /\ n.steps = Skipped /\ n.results = q.results
  BY <1>1 DEF Good, Request, Places, Waits, Steps, Skipped
<1>. HIDE DEF n
<1>3. WhereItIs(n)
  BY <1>1, <1>2 DEF Good, WhereItIs, Waits
<1>4. WrittenSoFar(n, h)
  BY <1>2 DEF WrittenSoFar, Skipped
<1>5. \A e \in Devices, s \in Persons : Answered(n, e, s) <=> Answered(q, e, s)
  BY <1>1, <1>2 DEF Good, Answered, Waits
<1>6. OneAnswerPerPair(n)
  BY <1>2, <1>5 DEF Good, OneAnswerPerPair
<1>. QED
  BY <1>2, <1>3, <1>4, <1>6 DEF Good, n

\* A device all of whose persons are answered.
LEMMA CloseGood ==
    ASSUME NEW q, NEW h \in Content, Good(q, h), q.pc = "person", q.left = {}
    PROVE  Good([q EXCEPT !.pc = "device", !.dev = None, !.cur = None,
                          !.steps = Skipped], h)
<1>. DEFINE n == [q EXCEPT !.pc = "device", !.dev = None, !.cur = None, !.steps = Skipped]
<1>2. /\ n \in Request
      /\ n.pc = "device" /\ n.target = q.target /\ n.people = q.people
      /\ n.todo = q.todo /\ n.dev = None /\ n.left = {} /\ n.results = q.results
  BY DEF Good, Request, Places, Steps, Skipped
<1>. HIDE DEF n
<1>3. WhereItIs(n) /\ WrittenSoFar(n, h)
  BY <1>2 DEF Good, WhereItIs, WrittenSoFar, Waits
<1>4. \A e \in Devices, p \in Persons : Answered(n, e, p) <=> Answered(q, e, p)
  BY <1>2 DEF Good, Answered, Waits
<1>5. OneAnswerPerPair(n)
  BY <1>2, <1>4 DEF Good, OneAnswerPerPair
<1>. QED
  BY <1>2, <1>3, <1>5 DEF Good, n

\* The response is sent.
LEMMA RespondGood ==
    ASSUME NEW q, NEW h \in Content, Good(q, h), q.pc = "device", q.todo = {}
    PROVE  Good([q EXCEPT !.pc = "done"], h)
<1>. DEFINE n == [q EXCEPT !.pc = "done"]
<1>1. /\ n \in Request
      /\ n.pc = "done" /\ n.target = q.target /\ n.people = q.people
      /\ n.todo = q.todo /\ n.dev = q.dev /\ n.left = q.left /\ n.results = q.results
  BY DEF Good, Request, Places
<1>. HIDE DEF n
<1>2. WhereItIs(n) /\ WrittenSoFar(n, h)
  BY <1>1 DEF Good, WhereItIs, WrittenSoFar, Waits
<1>3. \A e \in Devices, p \in Persons : Answered(n, e, p) <=> Answered(q, e, p)
  BY <1>1 DEF Good, Answered, Waits
<1>4. OneAnswerPerPair(n)
  BY <1>1, <1>3 DEF Good, OneAnswerPerPair
<1>. QED
  BY <1>1, <1>2, <1>4 DEF Good, n

\* userExists has answered.
LEMMA LookedGood ==
    ASSUME NEW q, NEW h \in Content, Good(q, h), q.pc = "exists"
    PROVE  /\ <<q.cur, "user">> \in h[q.dev] => Good(Push(q, "skipped"), h)
           /\ Good([q EXCEPT !.pc = "user"], h)
<1>1. /\ Waiting(q) /\ Claims(q, h) /\ \A x \in q.results : TrueOf(x, h)
      /\ \A x \in Parts : q.steps[x] # "failed"
  BY WaitingFacts DEF Waits
<1>2. ASSUME <<q.cur, "user">> \in h[q.dev]
      PROVE  Good(Push(q, "skipped"), h)
  <2>1. TrueOf(Res(q.dev, q.cur, "skipped", q.steps), h)
    BY <1>1, <1>2 DEF TrueOf, Res, Claims
  <2>. QED
    BY <1>1, <2>1, PushGood DEF Status
<1>3. Good([q EXCEPT !.pc = "user"], h)
  <2>. DEFINE n == [q EXCEPT !.pc = "user"]
  <2>1. Waiting(n) /\ n.results = q.results
    BY <1>1, NextWait DEF Waits
  <2>2. n.pc = "user" /\ n.steps = q.steps /\ n.cur = q.cur /\ n.dev = q.dev
    BY DEF Good, Request
  <2>. HIDE DEF n
  <2>3. WrittenSoFar(n, h)
    BY <1>1, <2>2 DEF WrittenSoFar, Claims
  <2>. QED
    BY <1>1, <2>1, <2>3 DEF Good, Waiting, n
<1>. QED
  BY <1>2, <1>3

\* faceExists has answered.
LEMMA FaceLookedGood ==
    ASSUME NEW q, NEW h \in Content, Good(q, h), q.pc = "faceExists"
    PROVE  Good([q EXCEPT !.pc = "face"], h)
<1>. DEFINE n == [q EXCEPT !.pc = "face"]
<1>1. Waiting(q) /\ \A x \in q.results : TrueOf(x, h)
  BY WaitingFacts DEF Waits
<1>2. Waiting(n) /\ n.results = q.results
  BY <1>1, NextWait DEF Waits
<1>3. n.pc = "face" /\ n.steps = q.steps /\ n.cur = q.cur /\ n.dev = q.dev
  BY DEF Good, Request
<1>. HIDE DEF n
<1>4. WrittenSoFar(n, h)
  BY <1>3 DEF Good, WrittenSoFar, Waits
<1>. QED
  BY <1>1, <1>2, <1>4 DEF Good, Waiting, n

\* A write has succeeded: k is what the terminals hold now.
LEMMA WrittenGood ==
    ASSUME NEW q, NEW h \in Content, NEW k \in Content, Good(q, h), q.pc \in Parts,
           \A d \in Devices : h[d] \subseteq k[d],
           <<q.cur, q.pc>> \in k[q.dev]
    PROVE  Good(NextAfterSuccess(Mark(q, "success")), k)
<1>. DEFINE m == Mark(q, "success")
<1>1. q.pc \in Waits /\ Good(q, k)
  BY GoodStays DEF Parts, Waits
<1>2. /\ Waiting(q) /\ Claims(q, k) /\ \A x \in q.results : TrueOf(x, k)
      /\ \A x \in Parts : q.steps[x] = "failed" => x = "card" /\ q.pc = "face"
  BY <1>1, WaitingFacts DEF Parts
<1>3. PartOf(q.pc) = q.pc
  BY DEF PartOf, Parts
<1>4. /\ Waiting(m) /\ m.pc = q.pc /\ m.cur = q.cur /\ m.dev = q.dev
      /\ m.results = q.results
      /\ \A x \in Parts : m.steps[x] = IF x = q.pc THEN "success" ELSE q.steps[x]
  BY <1>2, <1>3, MarkSteps
<1>. HIDE DEF m
<1>5. Claims(m, k)
  BY <1>2, <1>4 DEF Claims
<1>6. CASE q.pc = "user"
  <2>1. m.steps["user"] = "success" /\ m.steps["card"] # "failed" /\ m.steps["face"] # "failed"
    BY <1>2, <1>4, <1>6 DEF Parts
  <2>. QED
    BY <1>2, <1>4, <1>5, <1>6, <2>1, CardNextGood DEF NextAfterSuccess, m
<1>7. CASE q.pc = "card"
  <2>1. /\ m.steps["user"] = "success" /\ m.steps["card"] = "success"
        /\ m.steps["face"] # "failed"
    BY <1>1, <1>2, <1>4, <1>7 DEF Parts, Good, WrittenSoFar
  <2>. QED
    BY <1>2, <1>4, <1>5, <1>7, <2>1, FaceNextGood DEF NextAfterSuccess, m
<1>8. CASE q.pc = "face"
  <2>1. /\ m.steps["user"] = "success" /\ m.steps["face"] = "success"
        /\ "card" \in Wanted[q.cur] => m.steps["card"] # "skipped"
    BY <1>1, <1>4, <1>8 DEF Parts, Good, WrittenSoFar
  <2>2. Wanted[m.cur] \subseteq {"card", "face"}
    BY <1>4, IdentityConstants DEF Waiting, Request, WhereItIs
  <2>. QED
    BY <1>2, <1>4, <1>5, <1>8, <2>1, <2>2, PersonDone DEF NextAfterSuccess, m
<1>. QED
  BY <1>6, <1>7, <1>8 DEF Parts

\* A call has failed, with or without effect.
LEMMA FailedGood ==
    ASSUME NEW q, NEW h \in Content, NEW k \in Content, Good(q, h), q.pc \in Waits,
           \A d \in Devices : h[d] \subseteq k[d]
    PROVE  Good(NextAfterFailure(Mark(q, "failed")), k)
<1>. DEFINE m == Mark(q, "failed")
<1>1. Good(q, k)
  BY GoodStays
<1>2. /\ Waiting(q) /\ Claims(q, k) /\ \A x \in q.results : TrueOf(x, k)
      /\ \A x \in Parts :
            q.steps[x] = "failed" => x = "card" /\ q.pc \in {"faceExists", "face"}
  BY <1>1, WaitingFacts
<1>3. /\ Waiting(m) /\ m.pc = q.pc /\ m.cur = q.cur /\ m.dev = q.dev
      /\ m.results = q.results
      /\ \A x \in Parts : m.steps[x] = IF x = PartOf(q.pc) THEN "failed" ELSE q.steps[x]
  BY <1>2, MarkSteps
<1>. HIDE DEF m
<1>4. Claims(m, k)
  BY <1>2, <1>3 DEF Claims
<1>5. CASE q.pc = "card"
  <2>1. /\ m.steps["user"] = "success" /\ m.steps["card"] = "failed"
        /\ m.steps["face"] # "failed"
    BY <1>1, <1>2, <1>3, <1>5 DEF Parts, PartOf, Good, WrittenSoFar
  <2>. QED
    BY <1>2, <1>3, <1>4, <1>5, <2>1, FaceNextGood DEF NextAfterFailure, m
<1>6. CASE q.pc # "card"
  <2>1. PartOf(q.pc) \in Parts
    BY DEF PartOf, Parts, Waits
  <2>2. \E y \in Parts : m.steps[y] = "failed"
    BY <1>3, <2>1
  <2>. QED
    BY <1>2, <1>3, <1>4, <1>6, <2>2, PersonDone DEF NextAfterFailure, m
<1>. QED
  BY <1>5, <1>6

-----------------------------------------------------------------------------
(* The invariant *)

\* A step that replaces the record of one request by a good one keeps the invariant.
LEMMA StepKeeps ==
    ASSUME Inv, NEW r \in Requests, NEW n, NEW k \in Content,
           \A d \in Devices : has[d] \subseteq k[d],
           Good(n, k),
           req' = [req EXCEPT ![r] = n],
           has' = k,
           UNCHANGED lease
    PROVE  Inv'
<1>1. req \in [Requests -> Request] /\ has \in Content
      /\ \A o \in Requests : Good(req[o], has)
  BY DEF Inv, TypeOK, Content
<1>2. /\ req' \in [Requests -> Request]
      /\ \A o \in Requests : Good(req'[o], k)
  BY <1>1, OneChanges
<1>3. TypeOK'
  BY <1>2 DEF Inv, TypeOK, Content
<1>. QED
  BY <1>2, <1>3 DEF Inv

\* What a call that takes effect does to the terminals.
LEMMA CallWrites ==
    ASSUME Inv, NEW r \in Requests, req[r].pc \in Parts
    PROVE  LET k == [has EXCEPT ![req[r].dev] = @ \cup {<<req[r].cur, req[r].pc>>}]
           IN  /\ k \in Content
               /\ \A d \in Devices : has[d] \subseteq k[d]
               /\ <<req[r].cur, req[r].pc>> \in k[req[r].dev]
<1>1. Good(req[r], has) /\ has \in Content /\ req[r].pc \in Waits
  BY DEF Inv, TypeOK, Content, Parts, Waits
<1>2. req[r].dev \in Devices /\ req[r].cur \in Persons
  BY <1>1, WaitingFacts
<1>. QED
  BY <1>1, <1>2 DEF Content

\* Every step of a request keeps the invariant.
LEMMA RequestStep ==
    ASSUME Inv, NEW r \in Requests, Begin(r) \/ Proceeds(r)
    PROVE  Inv'
<1>1. /\ Good(req[r], has) /\ has \in Content
      /\ \A d \in Devices : has[d] \subseteq has[d]
  BY DEF Inv, TypeOK, Content
<1>2. CASE Begin(r)
  <2>1. PICK op \in Ops, T \in SUBSET Devices, P \in SUBSET Persons :
          req' = [req EXCEPT ![r] =
                     [Idle EXCEPT !.pc = "device", !.op = op, !.target = T, !.people = P,
                                  !.todo = T \cap Assigned,
                                  !.results = Missing(T \ Assigned, P)]]
    BY <1>2 DEF Begin
  <2>2. op \in {"create", "update", "bulk"} /\ Assigned \in SUBSET Devices
    BY IdentityConstants DEF Assigned
  <2>3. Good([Idle EXCEPT !.pc = "device", !.op = op, !.target = T, !.people = P,
                          !.todo = T \cap Assigned,
                          !.results = Missing(T \ Assigned, P)], has)
    BY <1>1, <2>2, BeginGood
  <2>. QED
    BY <1>1, <1>2, <2>1, <2>3, StepKeeps DEF Begin
<1>3. ASSUME NEW d \in Devices, OpenDevice(r, d)
      PROVE  Inv'
  <2>1. Good([req[r] EXCEPT !.pc = "person", !.dev = d, !.left = req[r].people,
                            !.todo = @ \ {d}], has)
    BY <1>1, <1>3, OpenGood DEF OpenDevice
  <2>. QED
    BY <1>1, <1>3, <2>1, StepKeeps DEF OpenDevice
<1>4. ASSUME NEW d \in Devices, SkipDevice(r, d)
      PROVE  Inv'
  <2>1. Good([req[r] EXCEPT !.todo = @ \ {d},
                            !.results = @ \cup Missing({d}, req[r].people)], has)
    BY <1>1, <1>4, SkipGood DEF SkipDevice
  <2>. QED
    BY <1>1, <1>4, <2>1, StepKeeps DEF SkipDevice
<1>5. ASSUME NEW d \in Devices, FactoryThrows(r, d)
      PROVE  Inv'
  BY <1>1, <1>5, RejectedGood, StepKeeps DEF FactoryThrows
<1>6. CASE NextPerson(r)
  <2>1. PICK p \in req[r].left :
          req' = [req EXCEPT ![r] =
                    [req[r] EXCEPT !.pc = IF req[r].op = "bulk" THEN "exists" ELSE "user",
                                   !.left = @ \ {p}, !.cur = p, !.steps = Skipped]]
    BY <1>6 DEF NextPerson
  <2>2. Good([req[r] EXCEPT !.pc = IF req[r].op = "bulk" THEN "exists" ELSE "user",
                            !.left = @ \ {p}, !.cur = p, !.steps = Skipped], has)
    BY <1>1, <1>6, PersonGood DEF NextPerson
  <2>. QED
    BY <1>1, <1>6, <2>1, <2>2, StepKeeps DEF NextPerson
<1>7. CASE CloseDevice(r)
  <2>1. Good([req[r] EXCEPT !.pc = "device", !.dev = None, !.cur = None,
                            !.steps = Skipped], has)
    BY <1>1, <1>7, CloseGood DEF CloseDevice
  <2>. QED
    BY <1>1, <1>7, <2>1, StepKeeps DEF CloseDevice
<1>8. CASE UserLooked(r)
  <2>1. Good(IF <<req[r].cur, "user">> \in has[req[r].dev]
             THEN Push(req[r], "skipped") ELSE [req[r] EXCEPT !.pc = "user"], has)
    BY <1>1, <1>8, LookedGood DEF UserLooked
  <2>. QED
    BY <1>1, <1>8, <2>1, StepKeeps DEF UserLooked
<1>9. CASE FaceLooked(r)
  <2>1. Good([req[r] EXCEPT !.pc = "face"], has)
    BY <1>1, <1>9, FaceLookedGood DEF FaceLooked
  <2>. QED
    BY <1>1, <1>9, <2>1, StepKeeps DEF FaceLooked
<1>10. CASE Written(r)
  <2>. DEFINE k == [has EXCEPT ![req[r].dev] = @ \cup {<<req[r].cur, req[r].pc>>}]
              n == NextAfterSuccess(Mark(req[r], "success"))
  <2>1. /\ k \in Content /\ \A d \in Devices : has[d] \subseteq k[d]
        /\ <<req[r].cur, req[r].pc>> \in k[req[r].dev]
        /\ req[r].pc \in Parts
    BY <1>10, CallWrites DEF Written
  <2>2. has' = k /\ req' = [req EXCEPT ![r] = n] /\ UNCHANGED lease
    BY <1>10 DEF Written
  <2>. HIDE DEF k
  <2>3. Good(n, k)
    BY <1>1, <2>1, WrittenGood
  <2>. HIDE DEF n
  <2>. QED
    BY <1>1, <2>1, <2>2, <2>3, StepKeeps
<1>11. CASE CallFails(r)
  <2>. DEFINE n == NextAfterFailure(Mark(req[r], "failed"))
  <2>1. PICK k \in Content : has' = k /\ \A d \in Devices : has[d] \subseteq k[d]
    <3>1. CASE UNCHANGED has
      BY <1>1, <3>1
    <3>2. CASE req[r].pc \in Parts
               /\ has' = [has EXCEPT ![req[r].dev] = @ \cup {<<req[r].cur, req[r].pc>>}]
      BY <3>2, CallWrites
    <3>. QED
      BY <1>11, <3>1, <3>2 DEF CallFails
  <2>2. Good(n, k)
    BY <1>1, <1>11, <2>1, FailedGood DEF CallFails
  <2>3. req' = [req EXCEPT ![r] = n] /\ UNCHANGED lease
    BY <1>11 DEF CallFails
  <2>. HIDE DEF n
  <2>. QED
    BY <2>1, <2>2, <2>3, StepKeeps
<1>12. CASE Respond(r)
  <2>1. Good([req[r] EXCEPT !.pc = "done"], has)
    BY <1>1, <1>12, RespondGood DEF Respond
  <2>. QED
    BY <1>1, <1>12, <2>1, StepKeeps DEF Respond
<1>. QED
  BY <1>2, <1>3, <1>4, <1>5, <1>6, <1>7, <1>8, <1>9, <1>10, <1>11, <1>12 DEF Proceeds

\* Before any request, with empty terminals, nothing is claimed (IdentityWriteService).
LEMMA InvInit ==
    ASSUME Init
    PROVE  Inv
<1>1. has \in Content
  BY DEF Init, Content
<1>2. Good(Idle, has)
  BY <1>1, RejectedGood
<1>3. \A r \in Requests : req[r] = Idle
  BY DEF Init
<1>4. TypeOK
  BY <1>1, <1>2 DEF Init, TypeOK, Good, Content
<1>. QED
  BY <1>2, <1>3, <1>4 DEF Inv

\* Every action keeps the invariant: the steps of a request, and another lease.
LEMMA InvNext ==
    ASSUME Inv, [Next]_vars
    PROVE  Inv'
<1>1. ASSUME NEW r \in Requests, Begin(r) \/ Proceeds(r)
      PROVE  Inv'
  BY <1>1, RequestStep
<1>2. CASE LeaseApplied
  BY <1>2 DEF LeaseApplied, Inv, TypeOK
<1>3. CASE UNCHANGED vars
  BY <1>3 DEF vars, Inv, TypeOK
<1>. QED
  BY <1>1, <1>2, <1>3 DEF Next

\* At every await of a request its place in the loops, its results and the
\* terminals agree (write, bulkCreate, applyWrite), and every result is true.
THEOREM IdentityInvariant == Spec => [](IdentityInv /\ ReportsAreTrue)
<1>1. Spec => []Inv
  BY InvInit, InvNext, PTL DEF Spec
<1>2. Inv => IdentityInv /\ ReportsAreTrue
  BY DEF Inv, Good, IdentityInv, ReportsAreTrue
<1>. QED
  BY <1>1, <1>2, PTL

\* At every await of a request its place in the loops, the steps it has done and
\* its results agree (applyWrite, bulkCreate).
THEOREM RequestsKeepTheirPlace == Spec => []IdentityInv
BY IdentityInvariant, PTL

\* Every variable of the identity write keeps its type.
THEOREM TypeCorrect == Spec => []TypeOK
<1>1. IdentityInv => TypeOK
  BY DEF IdentityInv
<1>. QED
  BY <1>1, IdentityInvariant, PTL

-----------------------------------------------------------------------------
(* What follows *)

\* A request that is answered has one result for each of its devices and persons
\* (write, bulkCreate).
THEOREM PairsAreAnswered == Spec => []EveryPairAnswered
<1>1. ASSUME IdentityInv, NEW r \in Requests, req[r].pc = "done",
             NEW d \in Devices, NEW p \in Persons
      PROVE  Cardinality({x \in req[r].results : x.dev = d /\ x.person = p})
                 = IF d \in req[r].target /\ p \in req[r].people THEN 1 ELSE 0
  <2>. DEFINE S == {x \in req[r].results : x.dev = d /\ x.person = p}
  <2>1. /\ req[r].todo = {} /\ req[r].dev = None
        /\ d # None
        /\ OneAnswerPerPair(req[r])
    BY <1>1, IdentityConstants DEF IdentityInv, WhereItIs
  <2>2. (d \in req[r].target /\ p \in req[r].people)
           <=> \E x \in req[r].results : x.dev = d /\ x.person = p
    BY <2>1 DEF OneAnswerPerPair, Answered
  <2>3. \A x, y \in S : x = y
    BY <2>1 DEF OneAnswerPerPair
  <2>4. CASE d \in req[r].target /\ p \in req[r].people
    <3>1. PICK x \in S : TRUE
      BY <2>2, <2>4
    <3>2. S = {x}
      BY <2>3, <3>1
    <3>. QED
      BY <2>4, <3>2, FS_Singleton
  <2>5. CASE ~(d \in req[r].target /\ p \in req[r].people)
    <3>1. S = {}
      BY <2>2, <2>5
    <3>. QED
      BY <2>5, <3>1, FS_EmptySet
  <2>. QED
    BY <2>4, <2>5
<1>2. IdentityInv => EveryPairAnswered
  BY <1>1 DEF EveryPairAnswered
<1>. QED
  BY <1>2, IdentityInvariant, PTL

\* A card or a face is written after its user, whoever else writes (applyWrite).
THEOREM NobodyIsOrphaned == Spec => []NoOrphans
<1>1. Init => NoOrphans
  BY DEF Init, NoOrphans
<1>2. ASSUME IdentityInv, NoOrphans, [Next]_vars
      PROVE  NoOrphans'
  <2>1. CASE UNCHANGED has
    BY <1>2, <2>1 DEF NoOrphans
  <2>2. ASSUME NEW r \in Requests, req[r].pc \in Parts,
               has' = [has EXCEPT ![req[r].dev] = @ \cup {<<req[r].cur, req[r].pc>>}]
        PROVE  NoOrphans'
    <3>1. /\ has \in [Devices -> SUBSET (Persons \X Parts)]
          /\ WrittenSoFar(req[r], has) /\ WhereItIs(req[r]) /\ req[r] \in Request
      BY <1>2 DEF IdentityInv, TypeOK
    <3>2. req[r].dev \in Devices /\ req[r].cur \in Persons
      BY <2>2, <3>1 DEF WhereItIs, Request, Parts, Waits
    <3>3. req[r].pc # "user" => <<req[r].cur, "user">> \in has[req[r].dev]
      BY <2>2, <3>1 DEF WrittenSoFar, Parts, Waits
    <3>. QED
      BY <1>2, <2>2, <3>1, <3>2, <3>3 DEF NoOrphans
  <2>. QED
    BY <1>2, <2>1, <2>2 DEF Next, vars, Begin, Proceeds, OpenDevice, SkipDevice,
       FactoryThrows, NextPerson, CloseDevice, UserLooked, FaceLooked, Written,
       CallFails, Respond, LeaseApplied
<1>. QED
  BY <1>1, <1>2, IdentityInvariant, PTL DEF Spec
=============================================================================
