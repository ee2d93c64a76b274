-------------------------- MODULE Backfill_Proofs ---------------------------
(***************************************************************************)
(* Proofs about Backfill, as a part of TerminalReads.                      *)
(***************************************************************************)
EXTENDS TerminalReads, Subsequences_Proofs

\* All that lies before the last place of e in the terminal's records has been given,
\* but for the rows that are stored no more and those lost before the last push.
Covered(e, given) ==
    \A k \in DOMAIN IdOf : IdOf[k] = e =>
        \A j \in 1..k : pushed < j \/ (\E r \in rows : r.seq = j) => IdOf[j] \in given

\* What a row of the terminal can be when n of its records have been passed.
RowUpTo(n) == [dev : {Terminal}, eid : EventIds, seq : 1..n, acked : {FALSE}, ttl : {1}]

\* The rows are records of the terminal, an event has one.
Stored ==
    /\ IsFiniteSet(rows)
    /\ \A r \in rows : r.eid = IdOf[r.seq]
    /\ \A q, r \in rows : q.eid = r.eid => q = r

Fetching ==
    /\ fetch \in [pc : {"idle", "records"}, limit : Nat, local : Seq(EventIds)]
    /\ fetch.pc = "records" =>
         /\ IsInjective(fetch.local)
         /\ fetch.local # <<>> => Covered(Last(fetch.local), seen \cup ToSet(fetch.local))

BackfillInv ==
    /\ BackfillTypeOK
    /\ Stored
    /\ Fetching
    /\ Covered(cursor, seen)

-----------------------------------------------------------------------------
(* A page of stored events *)

\* The rows are records of the terminal, each at the place of its seq.
LEMMA RowsAre ==
    ASSUME BackfillInv
    PROVE  /\ made \in Nat /\ pushed \in Nat /\ pushed <= made /\ made <= Len(IdOf)
           /\ Len(IdOf) \in Nat /\ DOMAIN IdOf = 1..Len(IdOf)
           /\ \A k \in DOMAIN IdOf : IdOf[k] \in EventIds
           /\ \A r \in rows : /\ r.seq \in 1..pushed /\ r.seq \in DOMAIN IdOf
                              /\ r.seq \in Nat /\ r.eid \in EventIds /\ r.eid = IdOf[r.seq]
           /\ \A q, r \in rows : q.seq = r.seq => q = r
<1>1. Len(IdOf) \in Nat /\ DOMAIN IdOf = 1..Len(IdOf) /\ \A k \in DOMAIN IdOf : IdOf[k] \in EventIds
  BY BackfillConstants, SeqIsFunction
<1>2. made \in 0..Len(IdOf) /\ pushed \in 0..made
  BY DEF BackfillInv, BackfillTypeOK
<1>3. \A r \in rows : r.seq \in 1..pushed /\ r.eid \in EventIds /\ r.eid = IdOf[r.seq]
  BY DEF BackfillInv, BackfillTypeOK, Stored
<1>4. ASSUME NEW q \in rows, NEW r \in rows, q.seq = r.seq
      PROVE  q = r
  BY <1>3, <1>4 DEF BackfillInv, Stored
<1>. QED
  BY <1>1, <1>2, <1>3, <1>4

\* The places of an event in the records follow each other.
LEMMA PlacesAreTogether ==
    ASSUME NEW i \in DOMAIN IdOf, NEW j \in DOMAIN IdOf, NEW k \in DOMAIN IdOf,
           i <= j, j <= k, IdOf[i] = IdOf[k]
    PROVE  IdOf[j] = IdOf[k]
<1>1. DOMAIN IdOf = 1..Len(IdOf) /\ Len(IdOf) \in Nat
  BY BackfillConstants, SeqIsFunction
<1>2. CASE i < j /\ j < k
  BY <1>2, BackfillConstants
<1>3. CASE i = j \/ j = k
  BY <1>3
<1>. QED
  BY <1>1, <1>2, <1>3

\* The oldest n rows of a set hold, with a row, all that come before it.
LEMMA OldestIsPrefix ==
    ASSUME NEW A, IsFiniteSet(A), \A x \in A : x.seq \in Nat, NEW n \in Nat,
           NEW r \in Oldest(A, n), NEW q \in A, q.seq <= r.seq
    PROVE  q \in Oldest(A, n)
<1>. DEFINE Before(x) == {y \in A : y.seq < x.seq}
<1>1. r \in A /\ Cardinality(Before(r)) < n
  BY DEF Oldest
<1>2. Before(r) \in SUBSET A /\ Before(q) \in SUBSET Before(r)
  BY <1>1
<1>3. /\ IsFiniteSet(Before(r)) /\ Cardinality(Before(r)) \in Nat
      /\ Cardinality(Before(q)) \in Nat /\ Cardinality(Before(q)) <= Cardinality(Before(r))
  BY <1>2, FS_Subset, FS_CardinalityType
<1>4. Cardinality(Before(q)) < n
  BY <1>1, <1>3
<1>. QED
  BY <1>4 DEF Oldest

\* A page holds the oldest rows after the event it is asked for, the newest last.
LEMMA GetBackfillIs ==
    ASSUME BackfillInv, NEW since, NEW n \in Nat
    PROVE  LET page == GetBackfill(since, n)
               taken == Oldest(RowsAfter(since), n)
           IN /\ page \in Seq(EventIds) /\ IsInjective(page)
              /\ ToSet(page) = {r.eid : r \in taken}
              /\ page # <<>> => \E m \in taken : Last(page) = m.eid /\ \A r \in taken : r.seq <= m.seq
<1>. DEFINE page == GetBackfill(since, n)
            taken == Oldest(RowsAfter(since), n)
            S == {r.seq : r \in taken}
            N == Cardinality(S)
            a == Ascending(S)
<1>1. taken \subseteq rows
  BY DEF Oldest, RowsAfter
<1>2. S \in SUBSET Nat /\ IsFiniteSet(S)
  <2>1. S \in SUBSET (1..pushed)
    BY <1>1, RowsAre
  <2>2. \A m \in Nat : IsFiniteSet(1..m) /\ 1..m \subseteq Nat
    BY FS_Interval
  <2>. QED
    BY <2>1, <2>2, RowsAre, FS_Subset
<1>3. /\ N \in Nat /\ a \in [1..N -> S]
      /\ \A i, j \in 1..N : i < j <=> a[i] < a[j]
      /\ \A x \in S : \E i \in 1..N : a[i] = x
  <2>. HIDE DEF S
  <2>. QED
    BY <1>2, AscendingIs
<1>. DEFINE RowOf(s) == CHOOSE r \in taken : r.seq = s
<1>4. \A s \in S : RowOf(s) \in taken /\ RowOf(s).seq = s
  OBVIOUS
<1>5. page = [i \in 1..N |-> RowOf(a[i]).eid]
  BY <1>3 DEF GetBackfill
<1>6. \A r \in taken : RowOf(r.seq) = r
  BY <1>1, <1>4, RowsAre
<1>. HIDE DEF page, taken, N, a
<1>7. \A i \in 1..N : RowOf(a[i]) \in taken /\ RowOf(a[i]).seq = a[i] /\ a[i] \in Nat
  BY <1>2, <1>3, <1>4
<1>. HIDE DEF S, RowOf
<1>8. page \in Seq(EventIds) /\ Len(page) = N /\ DOMAIN page = 1..N
  <2>1. page \in [1..N -> EventIds]
    BY <1>1, <1>5, <1>7, RowsAre
  <2>. QED
    BY <1>3, <2>1, FunctionIsSeq
<1>9. IsInjective(page)
  <2>1. ASSUME NEW i \in 1..N, NEW j \in 1..N, page[i] = page[j]
        PROVE  i = j
    <3>1. RowOf(a[i]).eid = RowOf(a[j]).eid
      BY <1>5, <2>1
    <3>2. RowOf(a[i]) = RowOf(a[j])
      BY <1>1, <1>7, <3>1 DEF BackfillInv, Stored
    <3>3. a[i] = a[j]
      BY <1>7, <3>2
    <3>. QED
      BY <1>3, <1>7, <3>3
  <2>. QED
    BY <1>8, <2>1 DEF IsInjective
<1>10. \A r \in taken : \E i \in 1..N : a[i] = r.seq
  BY <1>3 DEF S
<1>11. ToSet(page) = {r.eid : r \in taken}
  <2>1. \A i \in 1..N : page[i] \in {r.eid : r \in taken}
    BY <1>5, <1>7
  <2>2. \A r \in taken : \E i \in 1..N : page[i] = r.eid
    BY <1>5, <1>6, <1>10
  <2>3. ToSet(page) = {page[i] : i \in 1..N}
    BY <1>8 DEF ToSet
  <2>. QED
    BY <2>1, <2>2, <2>3
<1>12. ASSUME page # <<>>
       PROVE  \E m \in taken : Last(page) = m.eid /\ \A r \in taken : r.seq <= m.seq
  <2>1. N \in 1..N
    BY <1>3, <1>8, <1>12
  <2>2. Last(page) = RowOf(a[N]).eid /\ RowOf(a[N]) \in taken /\ RowOf(a[N]).seq = a[N]
    BY <1>5, <1>7, <1>8, <2>1 DEF Last
  <2>3. ASSUME NEW r \in taken
        PROVE  r.seq <= a[N]
    <3>1. PICK i \in 1..N : a[i] = r.seq
      BY <1>10
    <3>2. i = N \/ i < N
      BY <1>3
    <3>. QED
      BY <1>3, <1>7, <2>1, <3>1, <3>2
  <2>. QED
    BY <2>2, <2>3
<1>. QED
  BY <1>8, <1>9, <1>11, <1>12 DEF page, taken

\* A page of stored events leaves nothing out.
LEMMA PageCovers ==
    ASSUME BackfillInv, NEW n \in Nat, GetBackfill(cursor, n) # <<>>
    PROVE  Covered(Last(GetBackfill(cursor, n)), seen \cup ToSet(GetBackfill(cursor, n)))
<1>. DEFINE page == GetBackfill(cursor, n)
            after == RowsAfter(cursor)
            taken == Oldest(after, n)
<1>1. ToSet(page) = {r.eid : r \in taken}
  BY GetBackfillIs
<1>2. PICK m \in taken : Last(page) = m.eid /\ \A r \in taken : r.seq <= m.seq
  BY GetBackfillIs
<1>3. m \in after /\ after \subseteq rows /\ IsFiniteSet(after)
  <2>1. after \in SUBSET rows
    BY DEF RowsAfter
  <2>. QED
    BY <2>1, FS_Subset DEF Oldest, BackfillInv, Stored
<1>. HIDE DEF page
<1>4. ASSUME NEW k \in DOMAIN IdOf, IdOf[k] = m.eid, NEW j \in 1..k,
             pushed < j \/ \E r \in rows : r.seq = j
      PROVE  IdOf[j] \in seen \cup ToSet(page)
  <2>1. /\ m.seq \in 1..pushed /\ m.seq \in DOMAIN IdOf /\ m.eid = IdOf[m.seq]
        /\ pushed \in Nat /\ j \in DOMAIN IdOf /\ k \in Nat /\ j \in Nat /\ m.seq \in Nat
    BY <1>3, RowsAre
  <2>2. CASE m.seq < j
    <3>1. IdOf[j] = IdOf[k]
      BY <1>4, <2>1, <2>2, PlacesAreTogether
    <3>. QED
      BY <1>1, <1>4, <3>1
  <2>3. CASE ~(m.seq < j)
    <3>1. PICK r \in rows : r.seq = j
      BY <1>4, <2>1, <2>3
    <3>2. r.seq <= m.seq /\ r.eid = IdOf[j]
      BY <2>1, <2>3, <3>1, RowsAre
    <3>3. CASE r \in after
      <4>1. \A x \in after : x.seq \in Nat
        BY <1>3, RowsAre
      <4>2. r \in taken
        BY <1>3, <3>2, <3>3, <4>1, OldestIsPrefix
      <4>. QED
        BY <1>1, <3>2, <4>2
    <3>4. CASE r \notin after
      <4>1. PICK q \in rows : q.eid = cursor /\ ~(r.seq > q.seq)
        BY <3>4 DEF RowsAfter
      <4>2. /\ q.seq \in DOMAIN IdOf /\ IdOf[q.seq] = cursor /\ q.seq \in Nat
            /\ r.seq \in 1..q.seq
        BY <2>1, <3>1, <4>1, RowsAre
      <4>3. IdOf[r.seq] \in seen
        BY <4>2 DEF BackfillInv, Covered
      <4>. QED
        BY <3>1, <4>3
    <3>. QED
      BY <3>3, <3>4
  <2>. QED
    BY <2>2, <2>3
<1>. QED
  BY <1>2, <1>4 DEF Covered, page

-----------------------------------------------------------------------------
(* A page that the records of the terminal fill up *)

\* The terminal's answer is a prefix of its records.
LEMMA RecordsAre ==
    ASSUME BackfillInv, NEW n \in Limits
    PROVE  \E K \in 0..Len(IdOf) : Records(n) = SubSeq(IdOf, 1, K)
<1>. DEFINE K == Min({made, QueryLimit, Max({n * 4, n})})
<1>1. n \in Nat /\ QueryLimit \in Nat
  BY BackfillConstants
<1>2. Max({n * 4, n}) = n * 4
  <2>1. n * 4 \in Int /\ n \in Int /\ n * 4 >= n
    BY <1>1
  <2>. QED
    BY <2>1, MaxOfTwo
<1>3. K \in {made, QueryLimit, Max({n * 4, n})} /\ K <= made
  <2>1. made \in Nat /\ n * 4 \in Nat
    BY <1>1, RowsAre
  <2>2. ASSUME NEW x \in Nat, NEW y \in Nat, NEW z \in Nat
        PROVE  Min({x, y, z}) \in {x, y, z} /\ Min({x, y, z}) <= x
    <3>1. \E m \in {x, y, z} : \A v \in {x, y, z} : m <= v
      OBVIOUS
    <3>. QED
      BY <3>1 DEF Min
  <2>. QED
    BY <1>1, <1>2, <2>1, <2>2
<1>4. K \in 0..Len(IdOf)
  BY <1>1, <1>2, <1>3, RowsAre
<1>. QED
  BY <1>4 DEF Records

\* All the stored events are on the page, and when it ends with a record all the
\* records up to that one.
LEMMA PageIs ==
    ASSUME BackfillInv, NEW local \in Seq(EventIds), IsInjective(local),
           NEW n \in Limits, Len(local) < n, Page(local, n) # <<>>
    PROVE  /\ Page(local, n) \in Seq(EventIds)
           /\ ToSet(local) \subseteq ToSet(Page(local, n))
           /\ \/ local # <<>> /\ Last(Page(local, n)) = Last(local)
              \/ \E k \in DOMAIN IdOf : /\ Last(Page(local, n)) = IdOf[k]
                                        /\ \A j \in 1..k : IdOf[j] \in ToSet(Page(local, n))
<1>. PICK K \in 0..Len(IdOf) : Records(n) = SubSeq(IdOf, 1, K)
  BY RecordsAre
<1>. DEFINE page == Page(local, n)
            ids == local \o Records(n)
            I == Firsts(ids)
            N == Cardinality(I)
            L == Min({n, N})
            a == Ascending(I)
            len == Len(local)
<1>1. /\ n \in Nat /\ len \in Nat /\ K \in Nat /\ K <= Len(IdOf) /\ len < n
      /\ DOMAIN IdOf = 1..Len(IdOf) /\ Len(IdOf) \in Nat /\ DOMAIN local = 1..len
  BY BackfillConstants, RowsAre, SeqIsFunction
<1>2. /\ ids \in Seq(EventIds) /\ Len(ids) = len + K /\ DOMAIN ids = 1..(len + K)
      /\ \A i \in 1..len : ids[i] = local[i]
      /\ \A j \in 1..K : ids[len + j] = IdOf[j]
  <2>1. /\ Records(n) \in Seq(EventIds) /\ Len(Records(n)) = K
        /\ \A j \in 1..K : Records(n)[j] = IdOf[j]
    BY <1>1, BackfillConstants
  <2>. QED
    BY <1>1, <2>1
<1>3. I \in SUBSET DOMAIN ids /\ I \in SUBSET Nat /\ IsFiniteSet(I)
  <2>1. I \in SUBSET DOMAIN ids
    BY DEF Firsts
  <2>. HIDE DEF ids, I
  <2>. QED
    BY <1>1, <1>2, <2>1, AtIs
<1>4. /\ N \in Nat /\ a \in [1..N -> I]
      /\ \A i, j \in 1..N : i < j <=> a[i] < a[j]
      /\ \A x \in I : \E i \in 1..N : a[i] = x
      /\ \A i \in 1..N : Cardinality({j \in I : j <= a[i]}) = i
  <2>. HIDE DEF I
  <2>. QED
    BY <1>3, AscendingIs
<1>5. L \in Nat /\ L <= N /\ (L = n \/ L = N)
  <2>. HIDE DEF N
  <2>1. n \in Int /\ N \in Int
    BY <1>1, <1>4
  <2>2. L = IF n <= N THEN n ELSE N
    BY <2>1, MinOfTwo
  <2>. HIDE DEF L
  <2>. QED
    BY <1>1, <1>4, <2>2
<1>6. page \in Seq(EventIds) /\ Len(page) = L /\ \A i \in 1..L : page[i] = ids[a[i]]
  <2>1. /\ Deduped(ids) \in Seq(EventIds) /\ Len(Deduped(ids)) = N
        /\ \A i \in 1..N : Deduped(ids)[i] = ids[a[i]]
    <3>. HIDE DEF ids
    <3>. QED
      BY <1>2, <1>3, AtIs DEF Deduped
  <2>2. page = SubSeq(Deduped(ids), 1, L)
    BY <2>1 DEF Page
  <2>. HIDE DEF L, N, I, a, ids, page
  <2>. QED
    BY <1>4, <1>5, <2>1, <2>2
<1>7. L # 0 /\ L \in 1..N
  <2>. HIDE DEF L, N, page
  <2>1. page # <<>>
    BY DEF page
  <2>. QED
    BY <1>4, <1>5, <1>6, <2>1
<1>. HIDE DEF page, L
\* Whatever stands up to the last place taken is on the page.
<1>8. ASSUME NEW p \in DOMAIN ids, p <= a[L]
      PROVE  ids[p] \in ToSet(page)
  <2>1. PICK f \in I : f <= p /\ ids[f] = ids[p]
    <3>. HIDE DEF ids
    <3>. QED
      BY <1>2, FirstsAre
  <2>. HIDE DEF I, N, a, ids
  <2>2. PICK i \in 1..N : a[i] = f
    BY <1>4
  <2>3. i \in 1..L
    <3>1. a[i] \in Nat /\ a[L] \in Nat /\ p \in Nat
      <4>1. a[i] \in I /\ a[L] \in I
        BY <1>4, <1>7
      <4>2. p \in Nat
        BY <1>2
      <4>. QED
        BY <1>3, <4>1, <4>2
    <3>2. ~(a[L] < a[i])
      BY <1>8, <2>1, <2>2, <3>1
    <3>. QED
      BY <1>4, <1>5, <1>7, <3>2
  <2>4. page[i] = ids[p] /\ i \in DOMAIN page
    BY <1>5, <1>6, <2>1, <2>2, <2>3
  <2>. QED
    BY <2>4 DEF ToSet
<1>9. a[L] \in I /\ a[L] \in 1..(len + K)
  BY <1>2, <1>3, <1>4, <1>7
<1>10. a[L] >= len
  <2>. SUFFICES ASSUME a[L] < len
                PROVE  FALSE
    BY <1>1, <1>9
  <2>1. L = N
    <3>. SUFFICES ASSUME L = n
                  PROVE  FALSE
      BY <1>5
    <3>1. {j \in I : j <= a[L]} \in SUBSET (1..len)
      <4>1. \A j \in I : j \in 1..(len + K)
        BY <1>2, <1>3
      <4>. HIDE DEF I, a
      <4>. QED
        BY <1>1, <1>9, <4>1
    <3>2. IsFiniteSet(1..len) /\ Cardinality(1..len) = len
      <4>1. \A m \in Nat : IsFiniteSet(1..m) /\ Cardinality(1..m) = m
        BY FS_Interval
      <4>. QED
        BY <1>1, <4>1
    <3>3. Cardinality({j \in I : j <= a[L]}) <= len
      BY <3>1, <3>2, FS_Subset
    <3>. HIDE DEF I, a, len, N
    <3>. QED
      BY <1>1, <1>4, <1>7, <3>3
  <2>2. len \in I
    <3>1. len \in 1..len /\ len \in DOMAIN ids /\ ids[len] = local[len]
      <4>. HIDE DEF ids, len, a
      <4>. QED
        BY <1>1, <1>2, <1>9
    <3>2. ASSUME NEW j \in 1..(len - 1)
          PROVE  ids[j] # ids[len]
      <4>1. j \in 1..len /\ j # len
        <5>. HIDE DEF len
        <5>. QED
          BY <1>1
      <4>2. ids[j] = local[j] /\ local[j] # local[len]
        BY <1>1, <1>2, <3>1, <4>1 DEF IsInjective
      <4>. QED
        BY <3>1, <4>2
    <3>. QED
      BY <3>1, <3>2 DEF Firsts
  <2>3. PICK i \in 1..N : a[i] = len
    BY <1>4, <2>2
  <2>. HIDE DEF I, a, len, N
  <2>4. i = L \/ i < L
    BY <1>4, <2>1, <2>3
  <2>. QED
    BY <1>1, <1>4, <1>7, <1>9, <2>3, <2>4
<1>11. ToSet(local) \subseteq ToSet(page)
  <2>1. ASSUME NEW i \in 1..len
        PROVE  local[i] \in ToSet(page)
    <3>1. i \in DOMAIN ids /\ i <= a[L] /\ ids[i] = local[i]
      BY <1>1, <1>2, <1>9, <1>10
    <3>. QED
      BY <1>8, <3>1
  <2>. QED
    BY <1>1, <2>1 DEF ToSet
<1>12. Last(page) = ids[a[L]]
  <2>1. L \in 1..L
    BY <1>5, <1>7
  <2>2. Last(page) = page[L]
    BY <1>6 DEF Last
  <2>. QED
    BY <1>6, <2>1, <2>2
<1>13. CASE a[L] = len
  <2>1. len \in 1..len
    BY <1>1, <1>9, <1>13
  <2>2. local # <<>> /\ Last(page) = Last(local)
    BY <1>2, <1>12, <1>13, <2>1 DEF Last
  <2>. QED
    BY <1>6, <1>11, <2>2 DEF page
<1>14. CASE a[L] # len
  <2>. DEFINE k == a[L] - len
  <2>1. k \in 1..K /\ a[L] = len + k
    BY <1>1, <1>9, <1>10, <1>14
  <2>. HIDE DEF k
  <2>2. k \in DOMAIN IdOf /\ Last(page) = IdOf[k]
    BY <1>1, <1>2, <1>12, <2>1
  <2>3. ASSUME NEW j \in 1..k
        PROVE  IdOf[j] \in ToSet(page)
    <3>1. j \in 1..K /\ len + j \in 1..(len + K) /\ len + j <= len + k
      BY <1>1, <2>1
    <3>2. len + j \in DOMAIN ids /\ len + j <= a[L] /\ ids[len + j] = IdOf[j]
      BY <1>2, <2>1, <3>1
    <3>. QED
      BY <1>8, <3>2
  <2>. QED
    BY <1>6, <1>11, <2>2, <2>3 DEF page
<1>. QED
  BY <1>13, <1>14

-----------------------------------------------------------------------------
(* The steps *)

\* The invariant holds before the terminal has any record.
LEMMA BackfillInvInit == BackfillInit => BackfillInv
<1>. SUFFICES ASSUME BackfillInit
              PROVE  BackfillInv
  OBVIOUS
<1>1. Len(IdOf) \in Nat /\ \A k \in DOMAIN IdOf : IdOf[k] # None
  BY BackfillConstants, SeqIsFunction
<1>2. BackfillTypeOK
  BY <1>1 DEF BackfillInit, BackfillTypeOK, NoFetch, ToSet
<1>3. Stored
  BY FS_EmptySet DEF BackfillInit, Stored
<1>4. Fetching
  BY DEF BackfillInit, Fetching, NoFetch
<1>5. Covered(cursor, seen)
  BY <1>1 DEF BackfillInit, Covered
<1>. QED
  BY <1>2, <1>3, <1>4, <1>5 DEF BackfillInv

\* What the DS has been given only grows.
LEMMA CoveredByMore ==
    ASSUME NEW e, NEW given, NEW more, Covered(e, given), given \subseteq more
    PROVE  Covered(e, more)
BY DEF Covered

\* The store changes only by later records, and by rows that go.
LEMMA StaysCovered ==
    ASSUME BackfillInv, pushed' \in Nat, pushed <= pushed',
           \A r \in rows' : r \in rows \/ (r.seq \in Nat /\ pushed < r.seq),
           NEW e, NEW given, Covered(e, given)
    PROVE  \A k \in DOMAIN IdOf : IdOf[k] = e =>
             \A j \in 1..k : pushed' < j \/ (\E r \in rows' : r.seq = j) => IdOf[j] \in given
<1>1. pushed \in Nat /\ \A k \in DOMAIN IdOf : k \in Nat
  BY RowsAre
<1>2. ASSUME NEW k \in DOMAIN IdOf, NEW j \in 1..k,
             pushed' < j \/ (\E r \in rows' : r.seq = j)
      PROVE  pushed < j \/ (\E r \in rows : r.seq = j)
  BY <1>1, <1>2
<1>. QED
  BY <1>2 DEF Covered

\* A step of the store: rows go, or come behind all that was pushed before.
LEMMA StoreSteps ==
    ASSUME BackfillInv, UNCHANGED <<fetch, cursor, seen>>,
           made' \in 0..Len(IdOf), pushed' \in 0..made', pushed <= pushed',
           rows' \subseteq RowUpTo(pushed'),
           \A r \in rows' : r \in rows \/ (r.seq \in Nat /\ pushed < r.seq),
           Stored'
    PROVE  BackfillInv'
<1>1. BackfillTypeOK'
  BY DEF BackfillInv, BackfillTypeOK, RowUpTo
<1>2. pushed' \in Nat
  BY RowsAre
<1>3. Fetching'
  <2>. DEFINE e == Last(fetch.local)
              given == seen \cup ToSet(fetch.local)
  <2>1. Covered(e, given) =>
          \A k \in DOMAIN IdOf : IdOf[k] = e =>
            \A j \in 1..k : pushed' < j \/ (\E r \in rows' : r.seq = j) => IdOf[j] \in given
    <3>. HIDE DEF e, given
    <3>. QED
      BY <1>2, StaysCovered
  <2>2. Covered(e, given) => Covered(e, given)'
    BY <2>1 DEF Covered
  <2>. QED
    BY <2>2 DEF BackfillInv, Fetching
<1>4. Covered(cursor, seen)'
  BY <1>2, StaysCovered DEF BackfillInv, Covered
<1>. QED
  BY <1>1, <1>3, <1>4 DEF BackfillInv

\* The answer to the DS covers what its cursor passes.
LEMMA AnswerSteps ==
    ASSUME BackfillInv, NEW page \in Seq(EventIds), Answer(page),
           UNCHANGED <<made, pushed, rows>>,
           page # <<>> => Covered(Last(page), seen \cup ToSet(page))
    PROVE  BackfillInv'
<1>1. /\ cursor' = IF page = <<>> THEN cursor ELSE Last(page)
      /\ seen' = seen \cup ToSet(page) /\ fetch' = NoFetch
  BY DEF Answer
<1>2. ToSet(page) \subseteq EventIds /\ (page # <<>> => Last(page) \in EventIds)
  BY SeqIsFunction DEF Last
<1>3. BackfillTypeOK'
  <2>1. ToSet(fetch'.local) \subseteq EventIds
    BY <1>1 DEF NoFetch, ToSet
  <2>. QED
    BY <1>1, <1>2, <2>1 DEF BackfillInv, BackfillTypeOK, NoFetch
<1>4. Stored'
  BY DEF BackfillInv, Stored
<1>5. Fetching'
  BY <1>1 DEF Fetching, NoFetch
<1>6. Covered(cursor, seen)'
  <2>1. CASE page = <<>>
    <3>1. Covered(cursor, seen \cup ToSet(page))
      BY CoveredByMore DEF BackfillInv
    <3>. QED
      BY <1>1, <2>1, <3>1 DEF Covered
  <2>2. CASE page # <<>>
    BY <1>1, <2>2 DEF Covered
  <2>. QED
    BY <2>1, <2>2
<1>. QED
  BY <1>3, <1>4, <1>5, <1>6 DEF BackfillInv

\* Every step of Backfill keeps the invariant.
LEMMA BackfillInvNext == BackfillInv /\ BackfillNext => BackfillInv'
<1>. SUFFICES ASSUME BackfillInv, BackfillNext
              PROVE  BackfillInv'
  OBVIOUS
<1>1. CASE Record
  <2>1. /\ made < Len(IdOf) /\ made' = made + 1
        /\ UNCHANGED <<pushed, rows, fetch, cursor, seen>>
    BY <1>1 DEF Record
  <2>2. made' \in 0..Len(IdOf) /\ pushed' \in 0..made' /\ pushed <= pushed'
    BY <2>1, RowsAre
  <2>3. Stored' /\ rows' \subseteq RowUpTo(pushed')
    BY <2>1 DEF BackfillInv, BackfillTypeOK, Stored, RowUpTo
  <2>4. \A r \in rows' : r \in rows
    BY <2>1
  <2>. QED
    BY <2>1, <2>2, <2>3, <2>4, StoreSteps
<1>2. ASSUME NEW n \in 1..Len(IdOf), Push(n)
      PROVE  BackfillInv'
  <2>1. /\ pushed < n /\ n <= made /\ pushed' = n
        /\ rows' = Upsert(rows, <<Terminal, IdOf[n]>>, n, 1)
        /\ UNCHANGED <<made, fetch, cursor, seen>>
    BY <1>2 DEF Push
  <2>. DEFINE new == [dev |-> Terminal, eid |-> IdOf[n], seq |-> n, acked |-> FALSE, ttl |-> 1]
  <2>2. \/ rows' = rows
        \/ rows' = rows \cup {new} /\ \A r \in rows : Key(r) # <<Terminal, IdOf[n]>>
    BY <2>1 DEF Upsert
  <2>3. /\ made' \in 0..Len(IdOf) /\ pushed' \in 0..made' /\ pushed <= pushed'
        /\ n \in Nat /\ n \in 1..pushed' /\ IdOf[n] \in EventIds
    BY <2>1, RowsAre
  <2>4. \A r \in rows : r.dev = Terminal /\ r.seq \in 1..pushed'
    <3>1. \A r \in rows : r.seq \in 1..pushed'
      BY <2>1, <2>3, RowsAre
    <3>. QED
      BY <3>1 DEF BackfillInv, BackfillTypeOK
  <2>5. rows' \subseteq RowUpTo(pushed')
    <3>1. rows \subseteq RowUpTo(pushed')
      <4>1. \A x \in RowUpTo(pushed) : x.seq \in 1..pushed' => x \in RowUpTo(pushed')
        BY DEF RowUpTo
      <4>2. rows \subseteq RowUpTo(pushed)
        BY DEF BackfillInv, BackfillTypeOK, RowUpTo
      <4>. QED
        BY <2>4, <4>1, <4>2
    <3>2. new \in RowUpTo(pushed')
      BY <2>3 DEF RowUpTo
    <3>. QED
      BY <2>2, <3>1, <3>2
  <2>6. Stored'
    <3>1. IsFiniteSet(rows')
      <4>1. IsFiniteSet(rows)
        BY DEF BackfillInv, Stored
      <4>2. IsFiniteSet(rows \cup {new})
        BY <4>1, FS_AddElement
      <4>. QED
        BY <2>2, <4>1, <4>2
    <3>2. rows' = rows \/ (rows' = rows \cup {new} /\ \A r \in rows : r.eid # IdOf[n])
      BY <2>2, <2>4 DEF Key
    <3>3. new.eid = IdOf[n] /\ new.seq = n
      OBVIOUS
    <3>. HIDE DEF new
    <3>. QED
      BY <3>1, <3>2, <3>3 DEF BackfillInv, Stored
  <2>7. \A r \in rows' : r \in rows \/ (r.seq \in Nat /\ pushed < r.seq)
    <3>. SUFFICES ASSUME NEW r \in rows', r \notin rows
                  PROVE  r.seq \in Nat /\ pushed < r.seq
      OBVIOUS
    <3>1. r.seq = n
      BY <2>2
    <3>. QED
      BY <2>1, <2>3, <3>1
  <2>. QED
    BY <2>1, <2>3, <2>5, <2>6, <2>7, StoreSteps
<1>3. CASE PurgeOldest
  <2>1. rows' \in SUBSET rows /\ UNCHANGED <<made, pushed, fetch, cursor, seen>>
    BY <1>3 DEF PurgeOldest
  <2>2. Stored'
    <3>1. IsFiniteSet(rows')
      BY <2>1, FS_Subset DEF BackfillInv, Stored
    <3>. QED
      BY <2>1, <3>1 DEF BackfillInv, Stored
  <2>3. made' \in 0..Len(IdOf) /\ pushed' \in 0..made' /\ pushed <= pushed'
    BY <2>1, RowsAre
  <2>4. rows' \subseteq RowUpTo(pushed')
    BY <2>1 DEF BackfillInv, BackfillTypeOK, RowUpTo
  <2>5. \A r \in rows' : r \in rows
    BY <2>1
  <2>. QED
    BY <2>1, <2>2, <2>3, <2>4, <2>5, StoreSteps
<1>4. ASSUME NEW n \in Limits, Fetch(n)
      PROVE  BackfillInv'
  <2>. DEFINE local == GetBackfill(cursor, n)
  <2>1. /\ UNCHANGED <<made, pushed, rows>>
        /\ \/ Answer(local)
           \/ /\ ~Fills(local, n)
              /\ fetch' = [pc |-> "records", limit |-> n, local |-> local]
              /\ UNCHANGED <<cursor, seen>>
    BY <1>4 DEF Fetch
  <2>2. n \in Nat
    BY BackfillConstants
  <2>3. /\ local \in Seq(EventIds) /\ IsInjective(local)
        /\ local # <<>> => Covered(Last(local), seen \cup ToSet(local))
    BY <2>2, GetBackfillIs, PageCovers
  <2>. HIDE DEF local
  <2>4. CASE Answer(local)
    BY <2>1, <2>3, <2>4, AnswerSteps
  <2>5. CASE /\ ~Fills(local, n)
             /\ fetch' = [pc |-> "records", limit |-> n, local |-> local]
             /\ UNCHANGED <<cursor, seen>>
    <3>1. Len(local) < n /\ ToSet(local) \subseteq EventIds
      <4>1. Len(local) \in Nat /\ ToSet(local) \subseteq EventIds
        BY <2>3, SeqIsFunction
      <4>. QED
        BY <2>2, <2>5, <4>1 DEF Fills
    <3>2. BackfillTypeOK'
      BY <2>1, <2>5, <3>1 DEF BackfillInv, BackfillTypeOK
    <3>3. Fetching'
      BY <2>1, <2>2, <2>3, <2>5 DEF Fetching, Covered
    <3>4. Stored' /\ Covered(cursor, seen)'
      BY <2>1, <2>5 DEF BackfillInv, Stored, Covered
    <3>. QED
      BY <3>2, <3>3, <3>4 DEF BackfillInv
  <2>. QED
    BY <2>1, <2>4, <2>5
<1>5. ASSUME fetch.pc = "records"
      PROVE  /\ fetch.local \in Seq(EventIds) /\ IsInjective(fetch.local)
             /\ fetch.local # <<>> => Covered(Last(fetch.local), seen \cup ToSet(fetch.local))
             /\ fetch.limit \in Limits /\ Len(fetch.local) < fetch.limit
  BY <1>5 DEF BackfillInv, BackfillTypeOK, Fetching
<1>6. CASE RecordsFail
  <2>1. fetch.pc = "records" /\ Answer(fetch.local) /\ UNCHANGED <<made, pushed, rows>>
    BY <1>6 DEF RecordsFail
  <2>. QED
    BY <1>5, <2>1, AnswerSteps
<1>7. CASE RecordsArrive
  <2>. DEFINE page == Page(fetch.local, fetch.limit)
              local == fetch.local
  <2>1. fetch.pc = "records" /\ Answer(page) /\ UNCHANGED <<made, pushed, rows>>
    BY <1>7 DEF RecordsArrive
  <2>2. CASE page = <<>>
    <3>1. page \in Seq(EventIds)
      BY <2>2
    <3>. HIDE DEF page
    <3>. QED
      BY <2>1, <2>2, <3>1, AnswerSteps
  <2>3. CASE page # <<>>
    <3>1. /\ page \in Seq(EventIds) /\ ToSet(local) \subseteq ToSet(page)
          /\ \/ local # <<>> /\ Last(page) = Last(local)
             \/ \E k \in DOMAIN IdOf : /\ Last(page) = IdOf[k]
                                       /\ \A j \in 1..k : IdOf[j] \in ToSet(page)
      <4>. DEFINE n == fetch.limit
      <4>1. local \in Seq(EventIds) /\ IsInjective(local) /\ n \in Limits /\ Len(local) < n
        BY <1>5, <2>1
      <4>2. Page(local, n) # <<>>
        BY <2>3
      <4>. HIDE DEF local, n
      <4>3. /\ Page(local, n) \in Seq(EventIds) /\ ToSet(local) \subseteq ToSet(Page(local, n))
            /\ \/ local # <<>> /\ Last(Page(local, n)) = Last(local)
               \/ \E k \in DOMAIN IdOf : /\ Last(Page(local, n)) = IdOf[k]
                                         /\ \A j \in 1..k : IdOf[j] \in ToSet(Page(local, n))
        BY <4>1, <4>2, PageIs
      <4>. QED
        BY <4>3 DEF local, n
    <3>. HIDE DEF page, local
    <3>2. Covered(Last(page), seen \cup ToSet(page))
      <4>1. CASE local # <<>> /\ Last(page) = Last(local)
        <5>1. Covered(Last(page), seen \cup ToSet(local))
          BY <1>5, <2>1, <4>1 DEF local
        <5>. QED
          BY <3>1, <5>1, CoveredByMore
      <4>2. ASSUME NEW m \in DOMAIN IdOf, Last(page) = IdOf[m],
                   \A j \in 1..m : IdOf[j] \in ToSet(page)
            PROVE  Covered(Last(page), seen \cup ToSet(page))
        <5>1. ASSUME NEW k \in DOMAIN IdOf, IdOf[k] = IdOf[m], NEW j \in 1..k
              PROVE  IdOf[j] \in ToSet(page)
          <6>1. /\ DOMAIN IdOf = 1..Len(IdOf) /\ Len(IdOf) \in Nat
                /\ k \in Nat /\ m \in Nat /\ m # 0 /\ j \in DOMAIN IdOf
            BY RowsAre
          <6>2. CASE j <= m
            BY <4>2, <6>1, <6>2
          <6>3. CASE m <= j
            <7>1. IdOf[j] = IdOf[k]
              BY <5>1, <6>1, <6>3, PlacesAreTogether
            <7>. QED
              BY <4>2, <5>1, <6>1, <7>1
          <6>. QED
            BY <6>1, <6>2, <6>3
        <5>. QED
          BY <4>2, <5>1 DEF Covered
      <4>. QED
        BY <3>1, <4>1, <4>2
    <3>. QED
      BY <2>1, <2>3, <3>1, <3>2, AnswerSteps
  <2>. QED
    BY <2>2, <2>3
<1>. QED
  BY <1>1, <1>2, <1>3, <1>4, <1>6, <1>7 DEF BackfillNext, Answers

\* It holds in every state, whatever else is asked and whatever the leases change.
LEMMA BackfillInvariant == Spec => []BackfillInv
<1>1. Init => BackfillInv
  BY BackfillInvInit DEF Init
<1>2. BackfillInv /\ [Next]_vars => BackfillInv'
  <2>. SUFFICES ASSUME BackfillInv, [Next]_vars
                PROVE  BackfillInv'
    OBVIOUS
  <2>1. CASE UNCHANGED backfillVars
    BY <2>1 DEF backfillVars, BackfillInv, BackfillTypeOK, Stored, Fetching, Covered
  <2>2. CASE BackfillNext
    BY <2>2, BackfillInvNext
  <2>. QED
    BY <2>1, <2>2 DEF Next, Events, Reads, Assigns, vars
<1>. QED
  BY <1>1, <1>2, PTL DEF Spec

\* The requests of the DS, the terminal and the store have the states the model gives
\* them; a page that waits for the terminal's records is not full.
THEOREM BackfillTypeCorrect == Spec => []BackfillTypeOK
<1>1. BackfillInv => BackfillTypeOK
  BY DEF BackfillInv
<1>. QED
  BY <1>1, BackfillInvariant, PTL

\* No event that is stored at or before the last event of a page is left out of the
\* pages, for any order of the records and any page size (fetch, getBackfill).
THEOREM CursorIsSafe == Spec => []CursorSkipsNothing
<1>1. BackfillInv => CursorSkipsNothing
  <2>. SUFFICES ASSUME BackfillInv, NEW q \in rows, NEW r \in rows,
                       q.eid = cursor, r.seq <= q.seq
                PROVE  r.eid \in seen
    BY DEF CursorSkipsNothing
  <2>1. /\ q.seq \in DOMAIN IdOf /\ IdOf[q.seq] = cursor /\ r.seq \in 1..q.seq
        /\ r.eid = IdOf[r.seq]
    BY RowsAre
  <2>. QED
    BY <2>1 DEF BackfillInv, Covered
<1>. QED
  BY <1>1, BackfillInvariant, PTL
=============================================================================
