------------------------------ MODULE Backfill ------------------------------
(***************************************************************************)
(* Reading events back: the Device Service (DS) pages through the events   *)
(* of a terminal with POST /events/backfill, naming the last event it got. *)
(* A page holds the stored events after that one and, when these do not    *)
(* fill it, the records that the terminal itself has kept.                 *)
(*                                                                         *)
(* Code: src/src/domain/backfill/backfill-service.ts, getBackfill of       *)
(* src/src/infra/store/sqlite-store.ts, findAccessControlRecords of        *)
(* src/src/infra/dahua/dahua-client.ts.  The terminal and the DS are       *)
(* external.  The terminal pushes an event at most once, in the order of   *)
(* its records; any push may be lost.                                      *)
(***************************************************************************)
EXTENDS EventStore, Assignments, Subsequences, SequencesExt

CONSTANTS
    Terminal,       \* the device that is paged through
    EventIds,       \* eventId strings
    IdOf,           \* the eventId of the terminal's n-th record
    None,           \* a null sinceEventId
    Limits,         \* the page sizes the DS asks for
    RecordBackfill, \* recordBackfillEnabled of the terminal's settings
    QueryLimit      \* backfillQueryLimit

ASSUME BackfillConstants ==
    /\ Terminal \in Devices
    /\ IdOf \in Seq(EventIds)
    \* Records with one eventId, of a user in one second, follow each other.
    /\ \A i, j, k \in DOMAIN IdOf : i < j /\ j < k /\ IdOf[i] = IdOf[k] => IdOf[j] = IdOf[i]
    /\ None \notin EventIds
    /\ Limits \subseteq Nat \ {0}
    /\ RecordBackfill \in BOOLEAN
    /\ QueryLimit \in Nat \ {0}

VARIABLES
    made,       \* the records the terminal has made
    pushed,     \* the last record it has pushed
    rows,       \* the terminal's rows of the table "events"
    fetch,      \* the request being answered
    cursor,     \* the last event of the last page that was not empty
    seen        \* history: the events the DS has been given

backfillVars == <<made, pushed, rows, fetch, cursor, seen>>

NoFetch == [pc |-> "idle", limit |-> 0, local |-> <<>>]

BackfillInit ==
    /\ made = 0
    /\ pushed = 0
    /\ rows = {}
    /\ fetch = NoFetch
    /\ cursor = None
    /\ seen = {}

-----------------------------------------------------------------------------
(* The store, fed by the pushes and purged of its oldest rows *)

Record ==
    /\ made < Len(IdOf)
    /\ made' = made + 1
    /\ UNCHANGED <<pushed, rows, fetch, cursor, seen>>

\* Record n arrives; those between the last and this one are lost.
Push(n) ==
    /\ pushed < n
    /\ n <= made
    /\ pushed' = n
    /\ rows' = Upsert(rows, <<Terminal, IdOf[n]>>, n, 1)
    /\ UNCHANGED <<made, fetch, cursor, seen>>

\* All rows have the same retention, so they expire in the order of seq.
PurgeOldest ==
    /\ rows # {}
    /\ rows' = rows \ Oldest(rows, 1)
    /\ UNCHANGED <<made, pushed, fetch, cursor, seen>>

\* WHERE seq > ?; every row when sinceEventId is null or not stored.
RowsAfter(since) ==
    {r \in rows : \A q \in rows : q.eid = since => r.seq > q.seq}

\* getBackfill: ORDER BY seq ASC LIMIT n.
GetBackfill(since, n) ==
    LET page == Oldest(RowsAfter(since), n)
        seqs == Ascending({r.seq : r \in page})
    IN [i \in DOMAIN seqs |-> (CHOOSE r \in page : r.seq = seqs[i]).eid]

-----------------------------------------------------------------------------
(* BackfillService.fetch *)

\* The answer reaches the DS, which goes on from its last event.
Answer(page) ==
    /\ cursor' = IF page = <<>> THEN cursor ELSE Last(page)
    /\ seen' = seen \cup ToSet(page)
    /\ fetch' = NoFetch

\* Mutation: only more than the limit is enough.
FillsBeyond(local, n) == Len(local) > n

Fills(local, n) == Len(local) >= n

\* fetch up to the await of the terminal's records.  A terminal whose settings do
\* not parse rejects the request when the stored events do not fill the page, and
\* the DS repeats it.
Fetch(n) ==
    /\ fetch.pc = "idle"
    /\ \E local \in {GetBackfill(cursor, n)} :
       IF Fills(local, n) \/ lease[Terminal] = "none"
       THEN Answer(local)
       ELSE /\ lease[Terminal] = "valid"
            /\ IF RecordBackfill
               THEN /\ fetch' = [pc |-> "records", limit |-> n, local |-> local]
                    /\ UNCHANGED <<cursor, seen>>
               ELSE Answer(local)
    /\ UNCHANGED <<made, pushed, rows>>

\* findAccessControlRecords: what the terminal has kept, the oldest first, up to
\* the count asked for.
Records(n) == SubSeq(IdOf, 1, Min({made, QueryLimit, Max({n * 4, n})}))

\* dedupeByEventId: the first of each.
Deduped(ids) == At(ids, Firsts(ids))

\* Two mutations: the records come first; they are not sorted by recNo.
RecordsFirst(local, n) ==
    LET merged == Deduped(Records(n) \o local) IN SubSeq(merged, 1, Min({n, Len(merged)}))
RecordsUnsorted(local, n) ==
    LET merged == Deduped(local \o Reverse(Records(n)))
    IN SubSeq(merged, 1, Min({n, Len(merged)}))

\* The stored events, then the records that are not among them, cut at the limit.
Page(local, n) ==
    LET merged == Deduped(local \o Records(n)) IN SubSeq(merged, 1, Min({n, Len(merged)}))

RecordsArrive ==
    /\ fetch.pc = "records"
    /\ \E page \in {Page(fetch.local, fetch.limit)} : Answer(page)
    /\ UNCHANGED <<made, pushed, rows>>

\* The terminal does not answer, or with an error.
RecordsFail ==
    /\ fetch.pc = "records"
    /\ Answer(fetch.local)
    /\ UNCHANGED <<made, pushed, rows>>

Answers == RecordsArrive \/ RecordsFail

BackfillNext ==
    \/ Record \/ PurgeOldest
    \/ \E n \in 1..Len(IdOf) : Push(n)
    \/ \E n \in Limits : Fetch(n)
    \/ Answers

-----------------------------------------------------------------------------
(* Properties *)

BackfillTypeOK ==
    /\ made \in 0..Len(IdOf)
    /\ pushed \in 0..made
    /\ rows \subseteq [dev : {Terminal}, eid : EventIds, seq : 1..pushed,
                       acked : {FALSE}, ttl : {1}]
    /\ fetch.pc \in {"idle", "records"}
    /\ fetch.pc = "records" => fetch.limit \in Limits /\ Len(fetch.local) < fetch.limit
    /\ ToSet(fetch.local) \subseteq EventIds
    /\ cursor \in EventIds \cup {None}
    /\ seen \subseteq EventIds

\* The event that the DS goes on from stands for all it has been given: no row that
\* is stored at or before it has been left out of the pages, although records of
\* the terminal that were not stored yet may have moved it (fetch, getBackfill).
CursorSkipsNothing ==
    \A q, r \in rows : q.eid = cursor /\ r.seq <= q.seq => r.eid \in seen

\* A page holds what was stored after the cursor up to its limit, whatever the
\* terminal answers, so a DS that keeps asking is given every event that stays
\* stored, although the records are not cut at sinceEventId and send it back to
\* events it already has (fetch).  The settings of the terminal must parse.
StoredEventsAreReached ==
    <>[](lease[Terminal] # "unparsable") =>
        \A e \in EventIds : <>[](\E r \in rows : r.eid = e) => <>(e \in seen)
=============================================================================
