---------------------------- MODULE IdentityRead ----------------------------
(***************************************************************************)
(* Reading identities from the terminals: POST /identity/find,             *)
(* /identity/export-users and /identity/users/photo/get.                   *)
(*                                                                         *)
(* Code: src/src/domain/identity-find/identity-find-service.ts,            *)
(* identity-export/identity-export-service.ts,                             *)
(* identity-photo/identity-photo-service.ts, identity/, and runAccessFind  *)
(* of src/src/infra/dahua/dahua-client.ts: a search that a terminal keeps  *)
(* open from startFind to stopFind.  One request at a time: the services   *)
(* keep no state between requests.  What a terminal holds is constant, and *)
(* an answer of it is well formed: Token, Total and Caps, at most Count    *)
(* records.  The identity key is one the settings map.  The terminals, and *)
(* a Device Service (DS) that pages through a terminal with offset and     *)
(* limit, are external.                                                    *)
(***************************************************************************)
EXTENDS Assignments, Subsequences, SequencesExt

CONSTANTS
    People,     \* UserID strings
    UsersOn,    \* the users of each terminal, in its order
    CardsOn,    \* the holders of its cards, in its order
    Loose,      \* those whose records the terminal finds for the identity asked for
    Exact,      \* those of them whose record in a source has the very value
    Sources,    \* mapping.sources, in order
    NoValue,    \* the sources for which the mapping renders no condition
    PageSizes,  \* the limits asked for
    CapsGiven   \* Caps: how many records a terminal gives at once

Source == {"accessUser", "accessCard"}

ASSUME ReadConstants ==
    /\ IsFiniteSet(Devices) /\ "none" \notin Devices
    /\ UsersOn \in [Devices -> Seq(People)] /\ CardsOn \in [Devices -> Seq(People)]
    /\ \A d \in Devices : IsInjective(UsersOn[d]) /\ IsInjective(CardsOn[d])
    /\ Exact \in [Source -> SUBSET Loose]
    /\ Sources \in Seq(Source) /\ NoValue \subseteq Source
    /\ PageSizes \subseteq Nat \ {0} /\ CapsGiven \subseteq Nat \ {0}

VARIABLES
    task,       \* the request being served
    search,     \* its search on the terminal task.dev
    open,       \* is the last search open at its terminal, or left open?
    reply,      \* the reply to the last request
    session     \* the DS paging through one terminal

readVars == <<task, search, open, reply, session>>

Idle == [kind |-> "idle", asked |-> {}, missing |-> {}, rest |-> <<>>, dev |-> "none",
         steps |-> <<>>, limit |-> 0, offset |-> 0, cards |-> FALSE, page |-> FALSE,
         clean |-> TRUE, skipped |-> {}, found |-> [s \in Source |-> <<>>], out |-> <<>>]

NoSearch == [pc |-> "none", source |-> "accessUser", at |-> 0, end |-> 0, batch |-> 0,
             out |-> <<>>, outcome |-> "ok"]

NoReply == [kind |-> "none", status |-> 0, asked |-> {}, limit |-> 0, clean |-> TRUE,
            skipped |-> {}, out |-> <<>>]

NoSession == [dev |-> "none", limit |-> 0, offset |-> 0, rows |-> {}, clean |-> TRUE,
              cards |-> FALSE, done |-> TRUE]

ReadInit ==
    /\ task = Idle /\ search = NoSearch
    /\ open = "no"
    /\ reply = NoReply /\ session = NoSession

-----------------------------------------------------------------------------
(* Replies *)

\* DS: the answer to a page moves its offset; after anything else it asks again.
Paged(t, status) ==
    IF ~t.page \/ status # 200 \/ t.out[1].failed THEN session
    ELSE [session EXCEPT
            !.rows = session.rows \cup {<<t.offset, row>> : row \in t.out[1].rows},
            !.clean = session.clean /\ t.clean,
            !.offset = t.offset + t.limit,
            !.done = ~t.out[1].more]

Respond(t, status) ==
    /\ task' = Idle
    /\ search' = NoSearch
    /\ reply' = [kind |-> t.kind, status |-> status, asked |-> t.asked,
                 limit |-> t.limit, clean |-> t.clean, skipped |-> t.skipped, out |-> t.out]
    /\ session' = Paged(t, status)

StartSearch(t) ==
    /\ task' = [t EXCEPT !.steps = Tail(t.steps)]
    /\ search' = [NoSearch EXCEPT !.pc = "start", !.source = Head(t.steps)]
    /\ UNCHANGED <<reply, session>>

\* Before the request's first await: no assignment is 404; settings that do not
\* parse throw outside try (500).
Refusal(d) == IF lease[d] = "none" THEN 404 ELSE 500

-----------------------------------------------------------------------------
(* IdentityFindService.find *)

\* The loop over mapping.sources: until the limit is reached.
NextSource(t) ==
    IF t.steps = <<>> \/ Len(t.out) >= t.limit THEN Respond(t, 200) ELSE StartSearch(t)

Ready == task.kind = "idle" /\ reply = NoReply

\* The sources with a condition to search by.
Conditioned == Filter(Sources, Source \ NoValue)

Find(d, n) ==
    LET t == [Idle EXCEPT !.kind = "find", !.asked = {d}, !.dev = d, !.limit = n,
                  !.steps = Conditioned] IN
    /\ Ready
    /\ IF lease[d] = "valid" THEN NextSource(t) ELSE Respond(t, Refusal(d))
    /\ UNCHANGED open

\* toMatches: of the records found, those with the very value, up to what is left
\* of the limit.
Matches(records, source, left) ==
    LET exact == Filter(records, Exact[source])
    IN [i \in 1..Min({Len(exact), left}) |-> <<exact[i], source>>]

\* Two mutations: a source that answers 404 ends the pipeline; it starts it again.
SkipEnds(t) == Respond(t, 200)
SkipRestarts(t) == NextSource([t EXCEPT !.steps = Conditioned])

\* A source that this model does not have (404) is skipped.
Skip(t) == NextSource([t EXCEPT !.skipped = t.skipped \cup {search.source}])

SourceRead(outcome, records) ==
    CASE outcome = "ok" ->
            NextSource([task EXCEPT !.out = task.out
                \o Matches(records, search.source, task.limit - Len(task.out))])
      [] outcome = "missing" -> Skip(task)
      [] OTHER -> Respond([task EXCEPT !.out = <<>>], 502)

-----------------------------------------------------------------------------
(* IdentityExportService.exportUsers *)

Failed(d) == [dev |-> d, failed |-> TRUE, rows |-> {}, more |-> FALSE]

\* The results of the devices that had no assignment come last.
NextDevice(t) ==
    IF t.rest # <<>>
    THEN /\ task' = [t EXCEPT !.dev = "none"]
         /\ search' = NoSearch
         /\ UNCHANGED <<reply, session>>
    ELSE LET missing == SetToSeq(t.missing)
         IN Respond([t EXCEPT !.out = t.out \o [i \in DOMAIN missing |-> Failed(missing[i])]], 200)

\* resolveIdentityTargets: mode "device" is 404 without an assignment.
Export(targets, n, offset, cards, page) ==
    LET t == [Idle EXCEPT !.kind = "export", !.asked = targets, !.limit = n,
                  !.missing = targets \ Assigned, !.rest = SetToSeq(targets \cap Assigned),
                  !.offset = offset, !.cards = cards, !.page = page] IN
    /\ Ready
    /\ IF page /\ t.rest = <<>> THEN Respond(t, 404) ELSE NextDevice(t)
    /\ UNCHANGED open

\* Mutation: a device whose assignment has gone is left out.
GoneForgotten(t, d) == NextDevice(t)

Gone(t, d) == NextDevice([t EXCEPT !.out = Append(t.out, Failed(d))])

\* exportFromAssignment up to the await: the assignment is looked up again.  A
\* device whose settings do not parse rejects the request for all of them.
OpenDevice ==
    LET d == Head(task.rest)
        t == [task EXCEPT !.rest = Tail(task.rest)] IN
    /\ task.kind = "export" /\ task.dev = "none"
    /\ CASE lease[d] = "none" -> Gone(t, d)
         [] lease[d] = "unparsable" -> Respond([t EXCEPT !.out = <<>>], 500)
         [] OTHER -> StartSearch([t EXCEPT !.dev = d, !.found = Idle.found,
                         !.steps = IF t.cards THEN <<"accessUser", "accessCard">>
                                              ELSE <<"accessUser">>])
    /\ UNCHANGED open

\* The sourceSummary of a row.
Row(p, users, cards) ==
    [person |-> p, user |-> p \in ToSet(users), card |-> p \in ToSet(cards)]

\* mergeUsersAndCards: one row for each UserID.
Rows(users, cards) == {Row(p, users, cards) : p \in ToSet(users) \cup ToSet(cards)}

\* Mutation: more than the limit.
HasMoreThan(t) == \E s \in Source : Len(t.found[s]) > t.limit

HasMore(t) == \E s \in Source : Len(t.found[s]) >= t.limit

Exported(t) ==
    [dev |-> t.dev, failed |-> FALSE, more |-> HasMore(t),
     rows |-> Rows(t.found["accessUser"], t.found["accessCard"])]

DeviceRead(outcome, records) ==
    LET t == [task EXCEPT !.found[search.source] = records] IN
    IF outcome = "ok" /\ t.steps # <<>> THEN StartSearch(t)
    ELSE NextDevice([t EXCEPT !.out =
            Append(t.out, IF outcome = "ok" THEN Exported(t) ELSE Failed(t.dev))])

-----------------------------------------------------------------------------
(* DahuaClient.runAccessFind *)

\* What a terminal holds, and what of it a search asks for.
All(d, source) == IF source = "accessUser" THEN UsersOn[d] ELSE CardsOn[d]
Held(t, source) ==
    IF t.kind = "find" THEN Filter(All(t.dev, source), Loose) ELSE All(t.dev, source)

\* sendCgiRequest: a call is answered, 404, or fails in some other way: another
\* status, a refused digest, no answer in time, an answer that is no JSON.
Failures == {"missing", "error"}

AfterSearch(outcome, records) ==
    IF task.kind = "find" THEN SourceRead(outcome, records)
                          ELSE DeviceRead(outcome, records)

\* Mutation: the offset is left out.
FromTheFirst(total, start, limit) == Min({total, limit})

MaxToFetch(total, start, limit) == IF start < total THEN Min({total - start, limit}) ELSE 0

\* Token, Total and Caps.  A search that finds nothing is not stopped.
StartAnswered(caps) ==
    LET total == Len(Held(task, search.source))
        start == task.offset
        size == MaxToFetch(total, start, task.limit) IN
    /\ search.pc = "start"
    /\ IF total = 0
       THEN /\ open' = "left"
            /\ AfterSearch("ok", <<>>)
       ELSE /\ open' = "open"
            /\ search' = [search EXCEPT !.pc = IF size > 0 THEN "do" ELSE "stop",
                             !.at = start, !.end = start + size,
                             !.batch = Min({caps, size})]
            /\ UNCHANGED <<task, reply, session>>

\* The search may have been opened all the same: there is no token to stop it with.
StartFails(outcome) ==
    /\ search.pc = "start"
    /\ open' \in {"no", "left"}
    /\ AfterSearch(outcome, <<>>)

Count == Min({search.batch, search.end - search.at})

Collected(n) ==
    [search EXCEPT !.at = search.at + n,
        !.out = search.out \o SubSeq(Held(task, search.source), search.at + 1, search.at + n)]

\* n records; fewer than asked for, or none, end the search.
DoAnswered(n) ==
    /\ search.pc = "do" /\ n \in 0..Count
    /\ search' = [Collected(n) EXCEPT
                     !.pc = IF n < Count \/ search.at + n = search.end THEN "stop" ELSE "do"]
    /\ task' = [task EXCEPT !.clean = task.clean /\ n = Count]
    /\ UNCHANGED <<open, reply, session>>

\* Mutation: no finally.
DoFailsAtOnce(outcome) ==
    /\ search.pc = "do"
    /\ AfterSearch(outcome, <<>>)
    /\ UNCHANGED open

DoFails(outcome) ==
    /\ search.pc = "do"
    /\ search' = [search EXCEPT !.pc = "stop", !.outcome = outcome]
    /\ UNCHANGED <<task, open, reply, session>>

\* finally: stopFind, whose own failure is ignored; it may have stopped the search.
Stopped(failed) ==
    /\ search.pc = "stop"
    /\ open' = IF failed THEN "left" ELSE "no"
    /\ AfterSearch(search.outcome, IF search.outcome = "ok" THEN search.out ELSE <<>>)

-----------------------------------------------------------------------------
(* IdentityPhotoService.getPhoto *)

GetPhoto(d) ==
    LET t == [Idle EXCEPT !.kind = "photo", !.asked = {d}, !.dev = d] IN
    /\ Ready
    /\ IF lease[d] = "valid" THEN task' = t /\ UNCHANGED <<search, reply, session>>
                             ELSE Respond(t, Refusal(d))
    /\ UNCHANGED open

\* What findAccessFaces finds: the user's face, or none, which some models answer
\* with an error of their own (isMissingAccessFaceError).
Faces == {"own", "none", "failed"}

PhotoStatus(faces) ==
    CASE faces = "own" -> 200
      [] faces = "none" -> 404
      [] faces = "failed" -> 502

PhotoAnswered(faces) ==
    /\ task.kind = "photo"
    /\ Respond(task, PhotoStatus(faces))
    /\ UNCHANGED open

-----------------------------------------------------------------------------
(* The DS sends a request at a time, or pages through a terminal until hasMore is *)
(* false.                                                                         *)

OpenSession(d, n, cards) ==
    /\ Ready /\ session.done
    /\ session' = [NoSession EXCEPT !.dev = d, !.limit = n, !.cards = cards, !.done = FALSE]
    /\ UNCHANGED <<task, search, open, reply>>

ExportPage ==
    /\ ~session.done
    /\ Export({session.dev}, session.limit, session.offset, session.cards, TRUE)

Received ==
    /\ reply # NoReply
    /\ reply' = NoReply
    /\ open' = "no"
    /\ session' = IF session.done THEN NoSession ELSE session
    /\ UNCHANGED <<task, search>>

Answered ==
    \/ \E caps \in CapsGiven : StartAnswered(caps)
    \/ \E n \in 0..Count : DoAnswered(n)
    \/ \E outcome \in Failures : StartFails(outcome) \/ DoFails(outcome)
    \/ \E failed \in BOOLEAN : Stopped(failed)
    \/ \E faces \in Faces : PhotoAnswered(faces)

ReadNext ==
    \/ \E d \in Devices, n \in PageSizes : session.done /\ Find(d, n)
    \/ \E targets \in {Assigned, Devices}, n \in PageSizes, cards \in BOOLEAN :
           session.done /\ Export(targets, n, 0, cards, FALSE)
    \/ \E d \in Devices : session.done /\ GetPhoto(d)
    \/ \E d \in Devices, n \in PageSizes, cards \in BOOLEAN : OpenSession(d, n, cards)
    \/ ExportPage \/ OpenDevice \/ Answered \/ Received

-----------------------------------------------------------------------------
(* Properties *)

ReadTypeOK ==
    /\ task.kind \in {"idle", "find", "export", "photo"}
    /\ task.dev \in Devices \cup {"none"}
    /\ search.pc \in {"none", "start", "do", "stop"}
    /\ search.pc # "none" => task.kind \in {"find", "export"} /\ task.dev \in Devices
    /\ search.pc \in {"do", "stop"} =>
            /\ search.at <= search.end
            /\ search.end <= Max({Len(Held(task, search.source)), task.offset})
            /\ Len(search.out) <= task.limit
    /\ task.kind = "find" => search.pc # "none"
    /\ reply.status \in {0, 200, 404, 500, 502}
    /\ ~session.done => session.dev \in Devices

\* Every search that told its token and has records to read is stopped before the
\* request goes on, whatever answer its reading failed on (the finally block of
\* runAccessFind).  A terminal left with an open search is one that kept the token
\* to itself, found nothing, or did not answer stopFind.
SearchesAreStopped ==
    search.pc \notin {"do", "stop"} => open # "open"

\* The identity records that a find on d ought to return.
Wanted(d) ==
    {m \in People \X (ToSet(Sources) \ NoValue) :
        m[1] \in Exact[m[2]] /\ m[1] \in ToSet(All(d, m[2]))}

\* A find returns records with the very value only, none of them twice unless the
\* settings name a source twice, which their schema lets pass.  One that stays below
\* its limit has missed none in the sources it could read, unless the terminal
\* answered with fewer records than asked for or holds more similar records than the
\* limit: these are cut before they are compared (find, toMatches).
FindIsRight ==
    \A d \in reply.asked : reply.kind = "find" /\ reply.status = 200 =>
        /\ ToSet(reply.out) \subseteq Wanted(d)
        /\ IsInjective(Sources) => IsInjective(reply.out)
        /\ reply.clean /\ Len(reply.out) < reply.limit =>
            \A m \in Wanted(d) \ ToSet(reply.out) :
                \/ m[2] \in reply.skipped
                \/ reply.limit < Len(Held([kind |-> "find", dev |-> d], m[2]))

\* An export has one result for each device it was asked for, those that had no
\* assignment at its start and those that lost it on the way included (exportUsers,
\* exportFromAssignment).
OneResultPerTarget ==
    reply.kind = "export" /\ reply.status = 200 =>
        /\ {reply.out[i].dev : i \in DOMAIN reply.out} = reply.asked
        /\ Len(reply.out) = Cardinality(reply.asked)

\* Paging with offset += limit while hasMore gives every user of the terminal once,
\* and every card when cards are asked for, with failed pages asked for again, users
\* and cards cut at the same offset, and batches cut by Caps (mergeUsersAndCards,
\* runAccessFind).  An answer shorter than Count ends a page early: not covered.
PagesCoverUsers ==
    session.done /\ session.clean => \A d \in Devices : d = session.dev =>
        /\ \A p \in People :
              Cardinality({r \in session.rows : r[2].person = p /\ r[2].user})
                = (IF p \in ToSet(UsersOn[d]) THEN 1 ELSE 0)
        /\ session.cards =>
              {r[2].person : r \in {q \in session.rows : q[2].card}} = ToSet(CardsOn[d])

\* A request ends, though the terminal fails any call or answers with fewer records
\* than asked for: every call is answered or times out.
EveryReadEnds == task.kind # "idle" ~> task.kind = "idle"
=============================================================================
