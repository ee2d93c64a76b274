----------------------------- MODULE EventStore -----------------------------
(***************************************************************************)
(* The SQLite event queue (src/src/infra/store/sqlite-store.ts) as         *)
(* operators on the set of rows of the table "events".  A row is           *)
(*                                                                         *)
(*   [dev, eid, seq, acked, ttl]                                           *)
(*                                                                         *)
(* dev and eid are the unique key of the table, seq is the AUTOINCREMENT   *)
(* primary key, and ttl is expires_at - Date.now(), floored at zero: only  *)
(* the difference of the two clocks is ever looked at (line 141), so time  *)
(* passes by lowering ttl.  The payload columns are left out: the queue    *)
(* copies them through.                                                    *)
(***************************************************************************)
EXTENDS Naturals, FiniteSets

\* UNIQUE(device_id, event_id).
Key(r) == <<r.dev, r.eid>>

\* Two mutations of the insert: no conflict clause; a seq taken from the number of
\* rows.
UpsertAlways(rows, k, s, retention) ==
    rows \cup {[dev |-> k[1], eid |-> k[2], seq |-> s,
                acked |-> FALSE, ttl |-> retention]}

UpsertReusesSeq(rows, k, s, retention) ==
    IF \E r \in rows : Key(r) = k
    THEN rows
    ELSE UpsertAlways(rows, k, Cardinality(rows) + 1, retention)

\* INSERT ... ON CONFLICT(device_id, event_id) DO NOTHING: an event that is
\* already stored, acked or not, is left as it is and its expiry is not renewed.
Upsert(rows, k, s, retention) ==
    IF \E r \in rows : Key(r) = k
    THEN rows
    ELSE rows \cup {[dev |-> k[1], eid |-> k[2], seq |-> s,
                     acked |-> FALSE, ttl |-> retention]}

\* WHERE acked = 0.
Pending(rows) == {r \in rows : ~r.acked}

\* ORDER BY seq ASC LIMIT n.
Oldest(rows, n) ==
    {r \in rows : Cardinality({q \in rows : q.seq < r.seq}) < n}

\* The columns of a row that delivery reads (acked and expires_at are not kept).
Item(r) == [dev |-> r.dev, eid |-> r.eid, seq |-> r.seq]

\* Mutation: ORDER BY seq DESC.
ListNewest(rows, n) ==
    {Item(r) : r \in {p \in Pending(rows) :
        Cardinality({q \in Pending(rows) : q.seq > p.seq}) < n}}

ListPending(rows, n) == {Item(r) : r \in Oldest(Pending(rows), n)}

\* UPDATE events SET acked = 1, once for every key in ks.
MarkAcked(rows, ks) ==
    {IF Key(r) \in ks THEN [r EXCEPT !.acked = TRUE] ELSE r : r \in rows}

\* DELETE FROM events WHERE expires_at <= now: acked or not.
Expired(rows) == {r \in rows : r.ttl = 0}

\* Two mutations: a purge one unit too early; a purge of delivered rows only.
PurgeEarly(rows) == {r \in rows : r.ttl > 1}
PurgeExpiredAcked(rows) == {r \in rows : r.ttl > 0 \/ ~r.acked}

PurgeExpired(rows) == rows \ Expired(rows)

\* Date.now() advances by one unit.
Age(rows) == {[r EXCEPT !.ttl = IF @ = 0 THEN 0 ELSE @ - 1] : r \in rows}
=============================================================================
