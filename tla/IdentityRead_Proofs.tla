------------------------ MODULE IdentityRead_Proofs -------------------------
(***************************************************************************)
(* Proofs about IdentityRead, as a part of TerminalReads.                  *)
(*                                                                         *)
(* A reply is right because of what its request had read so far, which is  *)
(* right because of the page its last search brought: the invariant says   *)
(* it for the search (Reading), for the request (FindGood, ExportGood) and *)
(* for the pages of the DS (SessionGood).                                  *)
(***************************************************************************)
EXTENDS TerminalReads, Subsequences_Proofs, SequenceTheorems

\* The types of rows, results and matches, and of the variables.
PersonRow == [person : People, user : BOOLEAN, card : BOOLEAN]
Result == [dev : Devices, failed : BOOLEAN, rows : SUBSET PersonRow, more : BOOLEAN]
Match == People \X Source

Task == [kind : {"idle", "find", "export", "photo"}, asked : SUBSET Devices,
         missing : SUBSET Devices, rest : Seq(Devices), dev : Devices \cup {"none"},
         steps : Seq(Source), limit : Nat, offset : Nat, cards : BOOLEAN, page : BOOLEAN,
         clean : BOOLEAN, skipped : SUBSET Source, found : [Source -> Seq(People)],
         out : Seq(Result) \cup Seq(Match)]

Search == [pc : {"none", "start", "do", "stop"}, source : Source, at : Nat, end : Nat,
           batch : Nat, out : Seq(People), outcome : {"ok"} \cup Failures]

Reply == [kind : {"none", "find", "export", "photo"}, status : {0, 200, 404, 500, 502},
          asked : SUBSET Devices, limit : Nat, clean : BOOLEAN, skipped : SUBSET Source,
          out : Seq(Result) \cup Seq(Match)]

Session == [dev : Devices \cup {"none"}, limit : Nat, offset : Nat,
            rows : SUBSET (Nat \X PersonRow), clean : BOOLEAN, cards : BOOLEAN, done : BOOLEAN]

\* The records are those held at the places o + 1 to o + n, all of them when no answer
\* was shorter than asked for.
IsPage(records, held, o, n, whole) ==
    /\ records \in Seq(People) /\ IsInjective(records) /\ Len(records) <= n
    /\ \A p \in ToSet(records) : \E i \in DOMAIN held : o < i /\ i <= o + n /\ held[i] = p
    /\ whole => \A i \in DOMAIN held : o < i /\ i <= o + n => held[i] \in ToSet(records)
    /\ whole /\ Len(records) < n => Len(held) <= o + n

\* A search that has been started, over what is held.
Reading(q, held, o, n, whole) ==
    /\ o <= q.at /\ q.at <= q.end /\ q.end = o + MaxToFetch(Len(held), o, n)
    /\ q.out = SubSeq(held, o + 1, q.at)
    /\ q.pc = "do" => q.at < q.end /\ q.batch # 0 /\ q.outcome = "ok"
    /\ q.pc = "stop" /\ q.outcome = "ok" /\ whole => q.at = q.end

\* The search of the request t.
Searching(t, q) ==
    /\ q.pc # "none" /\ t.dev \in Devices
    /\ q.pc = "start" => q.out = <<>> /\ q.outcome = "ok"
    /\ q.pc # "start" => Reading(q, Held(t, q.source), t.offset, t.limit, t.clean)

-----------------------------------------------------------------------------
(* A find, with the sources it is still to read *)

\* A find on one terminal, which reads it from the first record.
FindOf(t) ==
    /\ t.kind = "find" /\ t.dev \in Devices /\ t.asked = {t.dev}
    /\ t.offset = 0 /\ ~t.page /\ t.limit \in PageSizes

\* What it has found is wanted, and what it has missed is in a source ahead, in one that was
\* skipped, or was cut before it was compared.
Finding(t, ahead) ==
    /\ t.out \in Seq(Match) /\ Len(t.out) <= t.limit /\ ToSet(t.out) \subseteq Wanted(t.dev)
    /\ ahead \subseteq ToSet(Sources) \ NoValue
    /\ IsInjective(Sources) =>
         /\ IsInjective(t.out) /\ IsInjective(t.steps)
         /\ \A m \in ToSet(t.out) : m[2] \notin ahead
    /\ t.clean /\ Len(t.out) < t.limit =>
         \A m \in Wanted(t.dev) \ ToSet(t.out) :
            \/ m[2] \in ahead \cup t.skipped
            \/ t.limit < Len(Held([kind |-> "find", dev |-> t.dev], m[2]))

\* While it reads a source, that one is still ahead.
FindGood(t, q) ==
    /\ FindOf(t) /\ Searching(t, q)
    /\ Finding(t, ToSet(t.steps) \cup {q.source})
    /\ IsInjective(Sources) => q.source \notin ToSet(t.steps)

-----------------------------------------------------------------------------
(* An export, with the device it is reading *)

\* The devices that have a result, and that none has two.
DevicesOf(out) == {out[i].dev : i \in DOMAIN out}
EachOnce(out) == \A i, j \in DOMAIN out : out[i].dev = out[j].dev => i = j

\* Every device asked for has its result or will have it.
Sharing(t, now) ==
    /\ t.out \in Seq(Result) /\ EachOnce(t.out) /\ IsInjective(t.rest)
    /\ DevicesOf(t.out) \cup ToSet(t.rest) \cup t.missing \cup now = t.asked
    /\ DevicesOf(t.out) \cap (ToSet(t.rest) \cup t.missing \cup now) = {}
    /\ ToSet(t.rest) \cap (t.missing \cup now) = {}
    /\ t.missing \cap now = {}

\* A page of the session s.
PageOf(t, s) ==
    /\ ~s.done /\ t.asked = {s.dev} /\ t.missing = {}
    /\ t.limit = s.limit /\ t.offset = s.offset /\ t.cards = s.cards

\* An export, of one page or of many devices.
ExportOf(t, s) ==
    /\ t.kind = "export" /\ t.limit \in PageSizes
    /\ t.page => PageOf(t, s)

\* What the device has given before the search for source.
ReadBefore(t, source) ==
    /\ source = "accessUser" =>
         /\ t.found = [s \in Source |-> <<>>]
         /\ t.steps = IF t.cards THEN <<"accessCard">> ELSE <<>>
    /\ source = "accessCard" =>
         /\ t.cards /\ t.steps = <<>> /\ t.found["accessCard"] = <<>>
         /\ IsPage(t.found["accessUser"], UsersOn[t.dev], t.offset, t.limit, t.clean)

\* It is between two devices, or reads one.
ExportGood(t, q, s) ==
    /\ ExportOf(t, s)
    /\ t.page => t.out = <<>>
    /\ \/ q = NoSearch /\ t.dev = "none" /\ t.rest # <<>> /\ Sharing(t, {})
       \/ Searching(t, q) /\ Sharing(t, {t.dev}) /\ ReadBefore(t, q.source)

-----------------------------------------------------------------------------
(* The pages of the DS *)

\* The rows with the user p.
Mine(given, p) == {x \in given : x[2].person = p /\ x[2].user}

\* The DS has been given each user before its offset once, and each card, and no other.
PagesSoFar(s) ==
    /\ \A i \in DOMAIN UsersOn[s.dev] : i <= s.offset =>
          \E r \in s.rows : Mine(s.rows, UsersOn[s.dev][i]) = {r}
    /\ \A x \in s.rows : x[2].user =>
          \E i \in DOMAIN UsersOn[s.dev] : i <= s.offset /\ UsersOn[s.dev][i] = x[2].person
    /\ \A x \in s.rows : x[2].card =>
          \E i \in DOMAIN CardsOn[s.dev] : i <= s.offset /\ CardsOn[s.dev][i] = x[2].person
    /\ s.cards => \A i \in DOMAIN CardsOn[s.dev] : i <= s.offset =>
          \E x \in s.rows : x[2].card /\ x[2].person = CardsOn[s.dev][i]

\* All pages have been read: the offset is beyond what the terminal holds.
SessionGood(s) ==
    /\ ~s.done => s.dev \in Devices /\ s.limit \in PageSizes
    /\ s.clean /\ s.dev \in Devices =>
         /\ PagesSoFar(s)
         /\ s.done => /\ \A i \in DOMAIN UsersOn[s.dev] : i <= s.offset
                      /\ s.cards => \A i \in DOMAIN CardsOn[s.dev] : i <= s.offset

-----------------------------------------------------------------------------
(* The invariant *)

\* Where a request is, what it has read, and that the last reply is right.
Served ==
    /\ task \in Task /\ search \in Search /\ reply \in Reply /\ session \in Session
    /\ SessionGood(session)
    /\ task.kind = "idle" => task = Idle /\ search = NoSearch
    /\ task.kind # "idle" => reply = NoReply
    /\ task.kind = "find" => FindGood(task, search)
    /\ task.kind = "export" => ExportGood(task, search, session)
    /\ task.kind = "photo" => search = NoSearch /\ ~task.page
    /\ FindIsRight /\ OneResultPerTarget

\* The inductive invariant.
ReadInv == Served /\ SearchesAreStopped

-----------------------------------------------------------------------------
(* What a terminal holds, and what a search has brought of it *)

\* What a terminal holds, and what of it a search asks for, names nobody twice.
LEMMA HeldIs ==
    ASSUME NEW t, t.dev \in Devices, NEW source \in Source
    PROVE  /\ All(t.dev, source) \in Seq(People) /\ IsInjective(All(t.dev, source))
           /\ Held(t, source) \in Seq(People) /\ IsInjective(Held(t, source))
           /\ t.kind = "find" => ToSet(Held(t, source)) = ToSet(All(t.dev, source)) \cap Loose
<1>1. All(t.dev, source) \in Seq(People) /\ IsInjective(All(t.dev, source))
  BY ReadConstants DEF All
<1>2. /\ Filter(All(t.dev, source), Loose) \in Seq(People)
      /\ IsInjective(Filter(All(t.dev, source), Loose))
      /\ ToSet(Filter(All(t.dev, source), Loose)) = ToSet(All(t.dev, source)) \cap Loose
  BY <1>1, FilterIs
<1>. QED
  BY <1>1, <1>2 DEF Held

\* The records to fetch lie before total, and are fewer than the limit at the end only.
LEMMA MaxToFetchIs ==
    ASSUME NEW total \in Nat, NEW o \in Nat, NEW n \in Nat
    PROVE  /\ MaxToFetch(total, o, n) \in Nat /\ MaxToFetch(total, o, n) <= n
           /\ MaxToFetch(total, o, n) # 0 => o + MaxToFetch(total, o, n) <= total
           /\ MaxToFetch(total, o, n) < n => total <= o + MaxToFetch(total, o, n)
           /\ total = 0 => MaxToFetch(total, o, n) = 0
<1>1. total - o \in Int /\ n \in Int
  OBVIOUS
<1>2. Min({total - o, n}) = IF total - o <= n THEN total - o ELSE n
  BY <1>1, MinOfTwo
<1>. QED
  BY <1>2 DEF MaxToFetch

\* The records of a search that was stopped and did not fail are a page.
LEMMA ReadPage ==
    ASSUME NEW held \in Seq(People), IsInjective(held), NEW o \in Nat, NEW n \in Nat,
           NEW whole \in BOOLEAN, NEW q \in Search,
           Reading(q, held, o, n, whole), q.pc = "stop", q.outcome = "ok"
    PROVE  IsPage(q.out, held, o, n, whole)
<1>. DEFINE m == MaxToFetch(Len(held), o, n)
            k == q.at - o
<1>1. /\ Len(held) \in Nat /\ DOMAIN held = 1..Len(held) /\ held \in [1..Len(held) -> People]
      /\ \A i \in DOMAIN held : held[i] \in ToSet(held)
  BY SeqIsFunction
<1>2. /\ m \in Nat /\ m <= n /\ (m # 0 => o + m <= Len(held)) /\ (m < n => Len(held) <= o + m)
  BY <1>1, MaxToFetchIs
<1>3. q.at \in Nat /\ q.out \in Seq(People)
  BY DEF Search
<1>4. /\ o <= q.at /\ q.at <= o + m /\ q.out = SubSeq(held, o + 1, q.at)
      /\ whole => q.at = o + m
  BY DEF Reading
<1>. HIDE DEF m
<1>5. k \in 0..m
  BY <1>2, <1>3, <1>4
<1>6. /\ Len(q.out) = k /\ DOMAIN q.out = 1..k
      /\ \A i \in 1..k : q.out[i] = held[o + i] /\ o + i \in DOMAIN held
  <2>1. q.at = o + k /\ k \in Nat /\ (k # 0 => o + k <= Len(held))
    <3>1. q.at = o + k
      BY <1>3
    <3>2. k \in Nat /\ k <= m
      BY <1>2, <1>5
    <3>. HIDE DEF k
    <3>3. k # 0 => o + k <= Len(held)
      BY <1>1, <1>2, <3>2
    <3>. QED
      BY <3>1, <3>2, <3>3
  <2>2. o + 1 \in Nat /\ o + 1 \in Int /\ o + k \in Int
    BY <2>1
  <2>. HIDE DEF k
  <2>3. q.out = SubSeq(held, o + 1, o + k)
    BY <1>4, <2>1
  <2>4. CASE k = 0
    BY <2>3, <2>4
  <2>5. CASE k # 0
    <3>1. /\ Len(q.out) = (o + k) - (o + 1) + 1 /\ DOMAIN q.out = 1..((o + k) - (o + 1) + 1)
          /\ \A i \in 1..((o + k) - (o + 1) + 1) : q.out[i] = held[(o + 1) + i - 1]
      BY <1>1, <2>1, <2>2, <2>3, <2>5
    <3>2. (o + k) - (o + 1) + 1 = k /\ \A i \in 1..k : (o + 1) + i - 1 = o + i
      BY <2>1
    <3>3. \A i \in 1..k : o + i \in DOMAIN held
      BY <1>1, <2>1, <2>5
    <3>. QED
      BY <3>1, <3>2, <3>3
  <2>. QED
    BY <2>4, <2>5
<1>. HIDE DEF k
<1>7. IsInjective(q.out)
  <2>1. ASSUME NEW i \in 1..k, NEW j \in 1..k, q.out[i] = q.out[j]
        PROVE  i = j
    <3>1. held[o + i] = held[o + j] /\ o + i \in DOMAIN held /\ o + j \in DOMAIN held
      BY <1>6, <2>1
    <3>2. o + i = o + j
      BY <3>1 DEF IsInjective
    <3>. QED
      BY <3>2
  <2>. QED
    BY <1>6, <2>1 DEF IsInjective
<1>8. ASSUME NEW p \in ToSet(q.out)
      PROVE  \E i \in DOMAIN held : o < i /\ i <= o + n /\ held[i] = p
  <2>1. PICK i \in 1..k : q.out[i] = p
    BY <1>6 DEF ToSet
  <2>2. o + i \in DOMAIN held /\ o < o + i /\ o + i <= o + n /\ held[o + i] = p
    BY <1>2, <1>5, <1>6, <2>1
  <2>. QED
    BY <2>2
<1>9. ASSUME whole, NEW i \in DOMAIN held, o < i, i <= o + n
      PROVE  held[i] \in ToSet(q.out)
  <2>1. i - o \in 1..m
    BY <1>1, <1>2, <1>9
  <2>2. k = m
    BY <1>2, <1>3, <1>4, <1>9 DEF k
  <2>3. q.out[i - o] = held[i] /\ i - o \in DOMAIN q.out
    BY <1>1, <1>6, <2>1, <2>2
  <2>. QED
    BY <2>3 DEF ToSet
<1>10. whole /\ Len(q.out) < n => Len(held) <= o + n
  BY <1>1, <1>2, <1>3, <1>4, <1>6 DEF k
<1>11. Len(q.out) <= n
  BY <1>2, <1>5, <1>6
<1>. QED
  BY <1>3, <1>7, <1>8, <1>9, <1>10, <1>11 DEF IsPage

\* A search that finds nothing has read its page.
LEMMA EmptyPage ==
    ASSUME NEW held \in Seq(People), Len(held) = 0, NEW o \in Nat, NEW n \in Nat,
           NEW whole \in BOOLEAN
    PROVE  IsPage(<<>>, held, o, n, whole)
<1>1. DOMAIN held = {}
  OBVIOUS
<1>2. <<>> \in Seq(People) /\ Len(<<>>) = 0 /\ ToSet(<<>>) = {} /\ IsInjective(<<>>)
  BY DEF ToSet, IsInjective
<1>. QED
  BY <1>1, <1>2 DEF IsPage

-----------------------------------------------------------------------------
(* Sequences, and sets that are listed in some order *)

\* The rest of a sequence without repetitions names its head no more.
LEMMA HeadAndTail ==
    ASSUME NEW T, NEW s \in Seq(T), s # <<>>
    PROVE  /\ Head(s) \in T /\ Tail(s) \in Seq(T) /\ ToSet(s) = {Head(s)} \cup ToSet(Tail(s))
           /\ IsInjective(s) => IsInjective(Tail(s)) /\ Head(s) \notin ToSet(Tail(s))
<1>1. /\ Head(s) \in T /\ Tail(s) \in Seq(T) /\ Head(s) = s[1]
      /\ Len(s) \in Nat \ {0} /\ DOMAIN s = 1..Len(s) /\ DOMAIN Tail(s) = 1..(Len(s) - 1)
      /\ \A i \in 1..(Len(s) - 1) : Tail(s)[i] = s[i + 1]
  OBVIOUS
<1>2. ToSet(s) = {Head(s)} \cup ToSet(Tail(s))
  <2>1. \A i \in DOMAIN s : i = 1 \/ (i - 1 \in DOMAIN Tail(s) /\ Tail(s)[i - 1] = s[i])
    BY <1>1
  <2>2. \A i \in DOMAIN Tail(s) : i + 1 \in DOMAIN s /\ Tail(s)[i] = s[i + 1]
    BY <1>1
  <2>3. 1 \in DOMAIN s
    BY <1>1
  <2>4. ASSUME NEW x \in ToSet(s)
        PROVE  x \in {Head(s)} \cup ToSet(Tail(s))
    <3>1. PICK i \in DOMAIN s : s[i] = x
      BY DEF ToSet
    <3>2. \A j \in DOMAIN Tail(s) : Tail(s)[j] \in ToSet(Tail(s))
      BY DEF ToSet
    <3>. QED
      BY <1>1, <2>1, <3>1, <3>2
  <2>5. ToSet(Tail(s)) \subseteq ToSet(s)
    BY <2>2 DEF ToSet
  <2>6. Head(s) \in ToSet(s)
    BY <1>1, <2>3 DEF ToSet
  <2>. QED
    BY <2>4, <2>5, <2>6
<1>3. ASSUME IsInjective(s)
      PROVE  IsInjective(Tail(s)) /\ Head(s) \notin ToSet(Tail(s))
  <2>1. ASSUME NEW i \in 1..(Len(s) - 1), NEW j \in 1..(Len(s) - 1), Tail(s)[i] = Tail(s)[j]
        PROVE  i = j
    <3>1. i + 1 \in DOMAIN s /\ j + 1 \in DOMAIN s /\ s[i + 1] = s[j + 1]
      BY <1>1, <2>1
    <3>2. i + 1 = j + 1
      BY <1>3, <3>1 DEF IsInjective
    <3>. QED
      BY <3>2
  <2>2. ASSUME NEW i \in 1..(Len(s) - 1), Tail(s)[i] = Head(s)
        PROVE  FALSE
    <3>1. 1 \in DOMAIN s /\ i + 1 \in DOMAIN s /\ s[i + 1] = s[1]
      BY <1>1, <2>2
    <3>2. i + 1 = 1
      BY <1>3, <3>1 DEF IsInjective
    <3>. QED
      BY <3>2
  <2>. QED
    BY <1>1, <2>1, <2>2 DEF IsInjective, ToSet
<1>. QED
  BY <1>1, <1>2, <1>3

\* SetToSeq lists a finite set, each element once.
LEMMA SetToSeqIs ==
    ASSUME NEW T, NEW S \in SUBSET T, IsFiniteSet(S)
    PROVE  /\ SetToSeq(S) \in Seq(T) /\ ToSet(SetToSeq(S)) = S
           /\ IsInjective(SetToSeq(S)) /\ Len(SetToSeq(S)) = Cardinality(S)
<1>. DEFINE n == Cardinality(S)
<1>1. n \in Nat /\ ExistsBijection(1..n, S)
  BY FS_CardinalityType
<1>2. \E f \in [1..n -> S] : IsInjective(f)
  BY <1>1 DEF ExistsBijection, Bijection, Injection
<1>3. SetToSeq(S) \in [1..n -> S] /\ IsInjective(SetToSeq(S))
  BY <1>2 DEF SetToSeq
<1>. DEFINE g == SetToSeq(S)
<1>. HIDE DEF g, n
<1>4. g \in [1..n -> S] /\ g \in Injection(1..n, S)
  BY <1>3 DEF Injection, g
<1>5. Cardinality(1..n) = n /\ Cardinality(S) = n
  <2>1. \A m \in Nat : Cardinality(1..m) = m
    BY FS_Interval
  <2>. QED
    BY <1>1, <2>1 DEF n
<1>6. g \in Surjection(1..n, S)
  BY <1>4, <1>5, FS_Injection
<1>7. \A x \in S : \E i \in 1..n : g[i] = x
  BY <1>6 DEF Surjection
<1>8. g \in Seq(T) /\ Len(g) = n /\ DOMAIN g = 1..n
  <2>1. g \in Seq(S) /\ Len(g) = n /\ DOMAIN g = 1..n
    BY <1>1, <1>4, FunctionIsSeq
  <2>. QED
    BY <2>1
<1>9. ToSet(g) = S
  BY <1>4, <1>7, <1>8 DEF ToSet
<1>. QED
  BY <1>3, <1>5, <1>8, <1>9 DEF g

\* Two sequences that share no element repeat none when joined.
LEMMA Concatenated ==
    ASSUME NEW T, NEW r \in Seq(T), NEW x \in Seq(T)
    PROVE  /\ ToSet(r \o x) = ToSet(r) \cup ToSet(x)
           /\ IsInjective(r) /\ IsInjective(x) /\ ToSet(r) \cap ToSet(x) = {} =>
                IsInjective(r \o x)
<1>. DEFINE n == Len(r)
            k == Len(x)
            y == r \o x
<1>1. n \in Nat /\ k \in Nat /\ DOMAIN r = 1..n /\ DOMAIN x = 1..k
  OBVIOUS
<1>2. /\ DOMAIN y = 1..(n + k)
      /\ \A i \in 1..(n + k) : y[i] = IF i <= n THEN r[i] ELSE x[i - n]
  OBVIOUS
<1>3. ToSet(y) = ToSet(r) \cup ToSet(x)
  <2>1. Range(y) = Range(r) \cup Range(x)
    BY RangeConcatenation
  <2>2. ToSet(y) = Range(y) /\ ToSet(r) = Range(r) /\ ToSet(x) = Range(x)
    BY DEF ToSet, Range
  <2>. QED
    BY <2>1, <2>2
<1>. HIDE DEF n, k, y
<1>4. /\ \A i \in 1..n : r[i] \in ToSet(r)
      /\ \A i \in 1..k : x[i] \in ToSet(x)
  BY <1>1 DEF ToSet
<1>5. \A i \in 1..(n + k) : (i <= n /\ i \in 1..n) \/ (~(i <= n) /\ i - n \in 1..k)
  BY <1>1
<1>6. ASSUME IsInjective(r), IsInjective(x), ToSet(r) \cap ToSet(x) = {},
             NEW i \in 1..(n + k), NEW j \in 1..(n + k), y[i] = y[j]
      PROVE  i = j
  <2>1. CASE i <= n /\ j <= n
    BY <1>1, <1>2, <1>5, <1>6, <2>1 DEF IsInjective
  <2>2. CASE ~(i <= n) /\ ~(j <= n)
    <3>1. x[i - n] = x[j - n] /\ i - n \in 1..k /\ j - n \in 1..k
      BY <1>2, <1>5, <1>6, <2>2
    <3>2. i - n = j - n
      BY <1>1, <1>6, <3>1 DEF IsInjective
    <3>. QED
      BY <1>1, <3>2
  <2>3. CASE (i <= n) # (j <= n)
    BY <1>2, <1>4, <1>5, <1>6, <2>3
  <2>. QED
    BY <2>1, <2>2, <2>3
<1>. QED
  BY <1>2, <1>3, <1>6 DEF IsInjective, y

-----------------------------------------------------------------------------
(* The results of an export *)

\* Results of different devices, put together, have one for each.
LEMMA ResultsTogether ==
    ASSUME NEW r \in Seq(Result), NEW x \in Seq(Result), EachOnce(r), EachOnce(x),
           DevicesOf(r) \cap DevicesOf(x) = {}
    PROVE  /\ r \o x \in Seq(Result) /\ EachOnce(r \o x)
           /\ DevicesOf(r \o x) = DevicesOf(r) \cup DevicesOf(x)
<1>. DEFINE n == Len(r)
            k == Len(x)
            y == r \o x
<1>1. n \in Nat /\ k \in Nat /\ DOMAIN r = 1..n /\ DOMAIN x = 1..k
  OBVIOUS
<1>2. /\ y \in Seq(Result) /\ Len(y) = n + k /\ DOMAIN y = 1..(n + k)
      /\ \A i \in 1..(n + k) : y[i] = IF i <= n THEN r[i] ELSE x[i - n]
  OBVIOUS
<1>. HIDE DEF n, k, y
<1>3. \A i \in 1..n : r[i].dev \in DevicesOf(r)
  BY <1>1 DEF DevicesOf
<1>4. \A i \in 1..k : x[i].dev \in DevicesOf(x)
  BY <1>1 DEF DevicesOf
<1>5. \A i \in 1..(n + k) : (i <= n /\ i \in 1..n) \/ (~(i <= n) /\ i - n \in 1..k)
  BY <1>1
<1>6. ASSUME NEW i \in 1..(n + k), NEW j \in 1..(n + k), y[i].dev = y[j].dev
      PROVE  i = j
  <2>1. CASE i <= n /\ j <= n
    BY <1>1, <1>2, <1>5, <1>6, <2>1 DEF EachOnce
  <2>2. CASE ~(i <= n) /\ ~(j <= n)
    <3>1. x[i - n].dev = x[j - n].dev /\ i - n \in 1..k /\ j - n \in 1..k
      BY <1>2, <1>5, <1>6, <2>2
    <3>2. i - n = j - n
      BY <1>1, <3>1 DEF EachOnce
    <3>. QED
      BY <1>1, <3>2
  <2>3. CASE (i <= n) # (j <= n)
    BY <1>2, <1>3, <1>4, <1>5, <1>6, <2>3
  <2>. QED
    BY <2>1, <2>2, <2>3
<1>7. DevicesOf(y) \subseteq DevicesOf(r) \cup DevicesOf(x)
  <2>1. \A i \in 1..(n + k) : y[i].dev \in DevicesOf(r) \cup DevicesOf(x)
    BY <1>2, <1>3, <1>4, <1>5
  <2>2. DevicesOf(y) = {y[i].dev : i \in 1..(n + k)}
    BY <1>2 DEF DevicesOf
  <2>. QED
    BY <2>1, <2>2
<1>8. ASSUME NEW i \in 1..n
      PROVE  r[i].dev \in DevicesOf(y)
  <2>1. i \in 1..(n + k) /\ i <= n
    BY <1>1
  <2>. QED
    BY <1>2, <2>1 DEF DevicesOf
<1>9. ASSUME NEW i \in 1..k
      PROVE  x[i].dev \in DevicesOf(y)
  <2>1. n + i \in 1..(n + k) /\ ~(n + i <= n) /\ (n + i) - n = i
    BY <1>1
  <2>2. y[n + i] = x[i]
    BY <1>2, <2>1
  <2>. QED
    BY <1>2, <2>1, <2>2 DEF DevicesOf
<1>10. DevicesOf(r) \cup DevicesOf(x) \subseteq DevicesOf(y)
  BY <1>1, <1>8, <1>9 DEF DevicesOf
<1>. QED
  BY <1>2, <1>6, <1>7, <1>10 DEF EachOnce, y

\* A result of a device without one leaves one result for each.
LEMMA OneResultMore ==
    ASSUME NEW r \in Seq(Result), EachOnce(r), NEW x \in Result, x.dev \notin DevicesOf(r)
    PROVE  /\ Append(r, x) \in Seq(Result) /\ EachOnce(Append(r, x))
           /\ DevicesOf(Append(r, x)) = DevicesOf(r) \cup {x.dev}
<1>1. <<x>> \in Seq(Result) /\ EachOnce(<<x>>) /\ DevicesOf(<<x>>) = {x.dev}
  BY DEF EachOnce, DevicesOf
<1>2. Append(r, x) = r \o <<x>>
  BY AppendIsConcat
<1>3. DevicesOf(r) \cap DevicesOf(<<x>>) = {}
  BY <1>1
<1>4. r \o <<x>> \in Seq(Result) /\ EachOnce(r \o <<x>>)
      /\ DevicesOf(r \o <<x>>) = DevicesOf(r) \cup DevicesOf(<<x>>)
  BY <1>1, <1>3, ResultsTogether
<1>. QED
  BY <1>1, <1>2, <1>4

\* Where no device has two, there are as many results as devices.
LEMMA AsManyAsDevices ==
    ASSUME NEW r \in Seq(Result), EachOnce(r)
    PROVE  Len(r) = Cardinality(DevicesOf(r))
<1>. DEFINE n == Len(r)
            f == [i \in 1..n |-> r[i].dev]
<1>1. n \in Nat /\ DOMAIN r = 1..n
  OBVIOUS
<1>2. IsFiniteSet(1..n) /\ Cardinality(1..n) = n
  <2>1. \A m \in Nat : IsFiniteSet(1..m) /\ Cardinality(1..m) = m
    BY FS_Interval
  <2>. QED
    BY <1>1, <2>1
<1>. HIDE DEF n
<1>3. DevicesOf(r) = {r[i].dev : i \in 1..n}
  BY <1>1 DEF DevicesOf
<1>4. f \in [1..n -> DevicesOf(r)] /\ IsInjective(f)
  BY <1>1, <1>3 DEF IsInjective, EachOnce
<1>5. f \in Surjection(1..n, DevicesOf(r)) /\ f \in Injection(1..n, DevicesOf(r))
  BY <1>3, <1>4 DEF Surjection, Injection
<1>. HIDE DEF f
<1>6. ExistsBijection(1..n, DevicesOf(r))
  BY <1>5 DEF ExistsBijection, Bijection
<1>. QED
  BY <1>2, <1>6, FS_Bijection DEF n

\* The failed results of devices that have none yet.
LEMMA FailedResults ==
    ASSUME NEW S \in SUBSET Devices, NEW list, list = SetToSeq(S)
    PROVE  LET x == [i \in DOMAIN list |-> Failed(list[i])]
           IN  x \in Seq(Result) /\ EachOnce(x) /\ DevicesOf(x) = S
<1>. DEFINE x == [i \in DOMAIN list |-> Failed(list[i])]
<1>1. IsFiniteSet(S)
  BY ReadConstants, FS_Subset
<1>2. list \in Seq(Devices) /\ ToSet(list) = S /\ IsInjective(list)
  BY <1>1, SetToSeqIs
<1>3. Len(list) \in Nat /\ DOMAIN list = 1..Len(list) /\ \A i \in DOMAIN list : list[i] \in Devices
  BY <1>2, SeqIsFunction
<1>4. \A d \in Devices : Failed(d) \in Result /\ Failed(d).dev = d
  BY DEF Failed, Result
<1>5. x \in [1..Len(list) -> Result] /\ \A i \in DOMAIN list : x[i].dev = list[i]
  BY <1>3, <1>4
<1>. HIDE DEF x
<1>6. x \in Seq(Result) /\ DOMAIN x = DOMAIN list
  BY <1>3, <1>5, FunctionIsSeq
<1>7. EachOnce(x) /\ DevicesOf(x) = S
  BY <1>2, <1>5, <1>6 DEF EachOnce, DevicesOf, IsInjective, ToSet
<1>. QED
  BY <1>6, <1>7 DEF x

-----------------------------------------------------------------------------
(* The pages of the DS *)

\* The result that a page of the terminal d gives.
PageResult(x, d, o, n, cards, clean) ==
    \E U, C \in Seq(People) :
        /\ x.rows = Rows(U, C) /\ (x.more <=> Len(U) >= n \/ Len(C) >= n)
        /\ IsPage(U, UsersOn[d], o, n, clean)
        /\ IF cards THEN IsPage(C, CardsOn[d], o, n, clean) ELSE C = <<>>

\* The rows of a page are one for each person in it, and tell its sources.
LEMMA RowsOfPage ==
    ASSUME NEW U \in Seq(People), NEW C \in Seq(People)
    PROVE  /\ Rows(U, C) \in SUBSET PersonRow
           /\ \A x \in Rows(U, C) : /\ x = Row(x.person, U, C)
                                    /\ x.user <=> x.person \in ToSet(U)
                                    /\ x.card <=> x.person \in ToSet(C)
           /\ \A p \in ToSet(U) \cup ToSet(C) : /\ Row(p, U, C) \in Rows(U, C)
                                                /\ Row(p, U, C).person = p
                                                /\ Row(p, U, C).user <=> p \in ToSet(U)
                                                /\ Row(p, U, C).card <=> p \in ToSet(C)
<1>1. ToSet(U) \subseteq People /\ ToSet(C) \subseteq People
  BY SeqIsFunction
<1>2. ASSUME NEW p \in People
      PROVE  /\ Row(p, U, C) \in PersonRow /\ Row(p, U, C).person = p
             /\ Row(p, U, C).user <=> p \in ToSet(U)
             /\ Row(p, U, C).card <=> p \in ToSet(C)
  <2>1. (p \in ToSet(U)) \in BOOLEAN /\ (p \in ToSet(C)) \in BOOLEAN
    OBVIOUS
  <2>2. /\ Row(p, U, C).person = p
        /\ Row(p, U, C).user = (p \in ToSet(U)) /\ Row(p, U, C).card = (p \in ToSet(C))
    BY DEF Row
  <2>3. Row(p, U, C) \in PersonRow
    BY <2>1 DEF Row, PersonRow
  <2>. QED
    BY <2>2, <2>3
<1>. QED
  BY <1>1, <1>2 DEF Rows

\* Users and cards stand at one place each.
LEMMA PlacesAreUnique ==
    ASSUME NEW d \in Devices
    PROVE  /\ \A i, j \in DOMAIN UsersOn[d] : UsersOn[d][i] = UsersOn[d][j] => i = j
           /\ \A i \in DOMAIN UsersOn[d] : i \in Nat /\ UsersOn[d][i] \in People
           /\ \A i \in DOMAIN CardsOn[d] : i \in Nat /\ CardsOn[d][i] \in People
<1>1. UsersOn[d] \in Seq(People) /\ CardsOn[d] \in Seq(People) /\ IsInjective(UsersOn[d])
  BY ReadConstants
<1>2. /\ \A i \in DOMAIN UsersOn[d] : i \in Nat /\ UsersOn[d][i] \in People
      /\ \A i \in DOMAIN CardsOn[d] : i \in Nat /\ CardsOn[d][i] \in People
  BY <1>1, SeqIsFunction
<1>. QED
  BY <1>1, <1>2 DEF IsInjective

\* A page of users and cards is added to those before it: the pages so far cover the
\* next limit places, and all places once both are short of the limit.
LEMMA PageAdded ==
    ASSUME NEW s \in Session, NEW u \in Session, NEW U \in Seq(People), NEW C \in Seq(People),
           s.dev \in Devices, u.dev = s.dev, u.limit = s.limit, u.cards = s.cards,
           u.offset = s.offset + s.limit, PagesSoFar(s),
           u.rows = s.rows \cup {<<s.offset, row>> : row \in Rows(U, C)},
           u.done <=> Len(U) < s.limit /\ Len(C) < s.limit,
           IsPage(U, UsersOn[s.dev], s.offset, s.limit, TRUE),
           IF s.cards THEN IsPage(C, CardsOn[s.dev], s.offset, s.limit, TRUE) ELSE C = <<>>
    PROVE  /\ PagesSoFar(u)
           /\ u.done => /\ \A i \in DOMAIN UsersOn[s.dev] : i <= u.offset
                        /\ s.cards => \A i \in DOMAIN CardsOn[s.dev] : i <= u.offset
<1>. DEFINE us == UsersOn[s.dev]
            cs == CardsOn[s.dev]
            o == s.offset
            n == s.limit
            New == {<<o, row>> : row \in Rows(U, C)}
<1>1. o \in Nat /\ n \in Nat /\ s.rows \in SUBSET (Nat \X PersonRow)
  BY DEF Session
<1>2. /\ \A i, j \in DOMAIN us : us[i] = us[j] => i = j
      /\ \A i \in DOMAIN us : i \in Nat /\ us[i] \in People
      /\ \A i \in DOMAIN cs : i \in Nat /\ cs[i] \in People
  BY PlacesAreUnique
<1>3. /\ \A p \in ToSet(U) : \E i \in DOMAIN us : o < i /\ i <= o + n /\ us[i] = p
      /\ \A i \in DOMAIN us : o < i /\ i <= o + n => us[i] \in ToSet(U)
      /\ Len(U) < n => Len(us) <= o + n
  BY DEF IsPage
<1>4. /\ \A p \in ToSet(C) : \E i \in DOMAIN cs : o < i /\ i <= o + n /\ cs[i] = p
      /\ s.cards => \A i \in DOMAIN cs : o < i /\ i <= o + n => cs[i] \in ToSet(C)
      /\ s.cards /\ Len(C) < n => Len(cs) <= o + n
  BY DEF IsPage, ToSet
<1>5. \A x \in New : /\ x = <<o, Row(x[2].person, U, C)>>
                     /\ x[2].user <=> x[2].person \in ToSet(U)
                     /\ x[2].card <=> x[2].person \in ToSet(C)
  <2>1. ASSUME NEW x \in New
        PROVE  x[2] \in Rows(U, C) /\ x = <<o, x[2]>>
    OBVIOUS
  <2>2. \A x \in Rows(U, C) : /\ x = Row(x.person, U, C)
                              /\ x.user <=> x.person \in ToSet(U)
                              /\ x.card <=> x.person \in ToSet(C)
    BY RowsOfPage
  <2>. HIDE DEF New
  <2>. QED
    BY <2>1, <2>2
<1>6. \A p \in ToSet(U) \cup ToSet(C) :
        /\ <<o, Row(p, U, C)>> \in New /\ Row(p, U, C).person = p
        /\ Row(p, U, C).user <=> p \in ToSet(U)
        /\ Row(p, U, C).card <=> p \in ToSet(C)
  BY RowsOfPage
<1>7. \A x \in u.rows : x \in s.rows \/ x \in New
  OBVIOUS
<1>8. s.rows \subseteq u.rows /\ New \subseteq u.rows
  OBVIOUS
<1>. HIDE DEF us, cs, o, n, New
<1>9. /\ \A i \in DOMAIN us : i <= o => \E r \in s.rows : Mine(s.rows, us[i]) = {r}
      /\ \A x \in s.rows : x[2].user => \E i \in DOMAIN us : i <= o /\ us[i] = x[2].person
      /\ \A x \in s.rows : x[2].card => \E i \in DOMAIN cs : i <= o /\ cs[i] = x[2].person
      /\ s.cards => \A i \in DOMAIN cs : i <= o =>
            \E x \in s.rows : x[2].card /\ x[2].person = cs[i]
  BY DEF PagesSoFar, us, cs, o
<1>10. ASSUME NEW i \in DOMAIN us, i <= o + n
       PROVE  \E r \in u.rows : Mine(u.rows, us[i]) = {r}
  <2>0. i \in Nat
    BY <1>2
  <2>1. CASE i <= o
    <3>1. PICK r \in s.rows : Mine(s.rows, us[i]) = {r}
      BY <1>9, <2>1
    <3>2. us[i] \notin ToSet(U)
      BY <1>1, <1>2, <1>3, <2>0, <2>1
    <3>3. Mine(u.rows, us[i]) = Mine(s.rows, us[i])
      BY <1>5, <1>7, <1>8, <3>2 DEF Mine
    <3>. QED
      BY <1>8, <3>1, <3>3
  <2>2. CASE o < i
    <3>. DEFINE r == <<o, Row(us[i], U, C)>>
    <3>1. us[i] \in ToSet(U)
      BY <1>3, <1>10, <2>2
    <3>2. r \in New /\ r[2].person = us[i] /\ r[2].user
      BY <1>6, <3>1
    <3>3. \A x \in s.rows : ~(x[2].user /\ x[2].person = us[i])
      BY <1>1, <1>2, <1>9, <2>0, <2>2
    <3>4. \A x \in New : x[2].person = us[i] => x = r
      BY <1>5
    <3>. HIDE DEF r
    <3>5. Mine(u.rows, us[i]) = {r}
      BY <1>7, <1>8, <3>2, <3>3, <3>4 DEF Mine
    <3>. QED
      BY <1>8, <3>2, <3>5
  <2>. QED
    BY <1>1, <2>0, <2>1, <2>2
<1>11. ASSUME NEW x \in u.rows, x[2].user
       PROVE  \E i \in DOMAIN us : i <= o + n /\ us[i] = x[2].person
  <2>1. CASE x \in s.rows
    BY <1>1, <1>2, <1>9, <1>11, <2>1
  <2>2. CASE x \in New
    BY <1>3, <1>5, <1>11, <2>2
  <2>. QED
    BY <1>7, <2>1, <2>2
<1>12. ASSUME NEW x \in u.rows, x[2].card
       PROVE  \E i \in DOMAIN cs : i <= o + n /\ cs[i] = x[2].person
  <2>1. CASE x \in s.rows
    BY <1>1, <1>2, <1>9, <1>12, <2>1
  <2>2. CASE x \in New
    BY <1>4, <1>5, <1>12, <2>2
  <2>. QED
    BY <1>7, <2>1, <2>2
<1>13. ASSUME s.cards, NEW i \in DOMAIN cs, i <= o + n
       PROVE  \E x \in u.rows : x[2].card /\ x[2].person = cs[i]
  <2>0. i \in Nat
    BY <1>2
  <2>1. CASE i <= o
    BY <1>8, <1>9, <1>13, <2>1
  <2>2. CASE o < i
    <3>. DEFINE x == <<o, Row(cs[i], U, C)>>
    <3>1. cs[i] \in ToSet(C)
      BY <1>4, <1>13, <2>2
    <3>2. x \in New /\ x[2].person = cs[i] /\ x[2].card
      BY <1>6, <3>1
    <3>. HIDE DEF x
    <3>. QED
      BY <1>8, <3>2
  <2>. QED
    BY <1>1, <2>0, <2>1, <2>2
<1>14. PagesSoFar(u)
  <2>1. u.offset = o + n
    BY DEF o, n
  <2>2. UsersOn[u.dev] = us /\ CardsOn[u.dev] = cs
    BY DEF us, cs
  <2>. QED
    BY <1>10, <1>11, <1>12, <1>13, <2>1, <2>2 DEF PagesSoFar
<1>15. ASSUME u.done
       PROVE  /\ \A i \in DOMAIN us : i <= u.offset
              /\ s.cards => \A i \in DOMAIN cs : i <= u.offset
  <2>1. us \in Seq(People) /\ cs \in Seq(People)
    BY ReadConstants DEF us, cs
  <2>2. Len(us) <= o + n /\ (s.cards => Len(cs) <= o + n) /\ u.offset = o + n
    BY <1>3, <1>4, <1>15 DEF o, n
  <2>3. /\ DOMAIN us = 1..Len(us) /\ DOMAIN cs = 1..Len(cs)
        /\ Len(us) \in Nat /\ Len(cs) \in Nat
    BY <2>1, SeqIsFunction
  <2>. QED
    BY <1>1, <2>2, <2>3
<1>. QED
  BY <1>14, <1>15 DEF us, cs

\* A page that is answered: the DS has one more.
LEMMA SessionPaged ==
    ASSUME session \in Session, SessionGood(session), NEW t \in Task, PageOf(t, session),
           t.page, ~t.out[1].failed,
           PageResult(t.out[1], session.dev, t.offset, t.limit, t.cards, t.clean)
    PROVE  Paged(t, 200) \in Session /\ SessionGood(Paged(t, 200))
<1>. DEFINE s == session
            u == Paged(t, 200)
            x == t.out[1]
<1>1. s \in Session /\ SessionGood(s) /\ ~s.done
  BY DEF PageOf
<1>2. t.limit = s.limit /\ t.offset = s.offset /\ t.cards = s.cards
  BY DEF PageOf
<1>3. PICK U \in Seq(People), C \in Seq(People) :
          /\ x.rows = Rows(U, C) /\ (x.more <=> Len(U) >= s.limit \/ Len(C) >= s.limit)
          /\ IsPage(U, UsersOn[s.dev], s.offset, s.limit, t.clean)
          /\ IF s.cards THEN IsPage(C, CardsOn[s.dev], s.offset, s.limit, t.clean) ELSE C = <<>>
  BY <1>2 DEF PageResult
<1>. DEFINE more == {<<s.offset, row>> : row \in Rows(U, C)}
<1>4. u = [s EXCEPT !.rows = s.rows \cup more, !.clean = s.clean /\ t.clean,
                    !.offset = s.offset + s.limit, !.done = ~x.more]
  BY <1>2, <1>3 DEF Paged
<1>5. more \in SUBSET (Nat \X PersonRow)
  <2>1. Rows(U, C) \in SUBSET PersonRow
    BY RowsOfPage
  <2>2. s.offset \in Nat
    BY <1>1 DEF Session
  <2>. QED
    BY <2>1, <2>2
<1>6. t.clean \in BOOLEAN
  BY DEF Task
<1>. HIDE DEF s, u, x, more
<1>7. /\ u.dev = s.dev /\ u.limit = s.limit /\ u.cards = s.cards
      /\ u.rows = s.rows \cup more /\ (u.clean <=> s.clean /\ t.clean)
      /\ u.offset = s.offset + s.limit /\ (u.done <=> ~x.more)
  BY <1>1, <1>4 DEF Session
<1>8. u \in Session
  <2>1. /\ s.rows \cup more \in SUBSET (Nat \X PersonRow) /\ s.offset + s.limit \in Nat
        /\ (s.clean /\ t.clean) \in BOOLEAN /\ (~x.more) \in BOOLEAN
    BY <1>1, <1>5 DEF Session
  <2>. QED
    BY <1>1, <1>4, <2>1 DEF Session
<1>9. s.dev \in Devices /\ s.limit \in PageSizes
  BY <1>1 DEF SessionGood
<1>10. ASSUME u.clean
       PROVE  /\ PagesSoFar(u)
              /\ u.done => /\ \A i \in DOMAIN UsersOn[s.dev] : i <= u.offset
                           /\ s.cards => \A i \in DOMAIN CardsOn[s.dev] : i <= u.offset
  <2>1. s.clean /\ t.clean = TRUE
    BY <1>6, <1>7, <1>10
  <2>2. PagesSoFar(s)
    BY <1>1, <1>9, <2>1 DEF SessionGood
  <2>3. s.limit \in Nat /\ Len(U) \in Nat /\ Len(C) \in Nat
    BY <1>1 DEF Session
  <2>4. u.done <=> Len(U) < s.limit /\ Len(C) < s.limit
    BY <1>3, <1>7, <2>3
  <2>5. /\ IsPage(U, UsersOn[s.dev], s.offset, s.limit, TRUE)
        /\ IF s.cards THEN IsPage(C, CardsOn[s.dev], s.offset, s.limit, TRUE) ELSE C = <<>>
    BY <1>3, <2>1
  <2>6. u.rows = s.rows \cup {<<s.offset, row>> : row \in Rows(U, C)}
    BY <1>7 DEF more
  <2>. QED
    BY <1>1, <1>7, <1>8, <1>9, <2>2, <2>4, <2>5, <2>6, PageAdded
<1>. QED
  BY <1>7, <1>8, <1>9, <1>10 DEF SessionGood, u

-----------------------------------------------------------------------------
(* Replies *)

\* What a request has to have read before it is answered.
Right(t, status) ==
    /\ t.kind = "find" /\ status = 200 => FindOf(t) /\ Finding(t, {})
    /\ t.kind = "export" /\ status = 200 =>
         t.out \in Seq(Result) /\ EachOnce(t.out) /\ DevicesOf(t.out) = t.asked
    /\ t.page /\ status = 200 =>
         /\ PageOf(t, session)
         /\ ~t.out[1].failed =>
              PageResult(t.out[1], session.dev, t.offset, t.limit, t.cards, t.clean)

\* The initial records have their types.
LEMMA IdleTypes == Idle \in Task /\ NoSearch \in Search
<1>1. Idle.found \in [Source -> Seq(People)]
  BY DEF Idle
<1>. QED
  BY <1>1 DEF Idle, Task, NoSearch, Search, Source

\* A reply that is right leaves the services idle, and the session's pages covered.
LEMMA RespondGood ==
    ASSUME session \in Session, SessionGood(session), NEW t \in Task,
           t.kind \in {"find", "export", "photo"}, NEW status \in {200, 404, 500, 502},
           Right(t, status), Respond(t, status)
    PROVE  Served' /\ search'.pc = "none"
<1>1. task' = Idle /\ search' = NoSearch /\ session' = Paged(t, status)
  BY DEF Respond
<1>2. /\ reply'.kind = t.kind /\ reply'.status = status /\ reply'.asked = t.asked
      /\ reply'.limit = t.limit /\ reply'.clean = t.clean /\ reply'.skipped = t.skipped
      /\ reply'.out = t.out
  BY DEF Respond
<1>3. reply' \in Reply
  BY DEF Respond, Task, Reply
<1>4. task' \in Task /\ search' \in Search /\ task'.kind = "idle" /\ search'.pc = "none"
  BY <1>1, IdleTypes DEF Idle, NoSearch
<1>5. session' \in Session /\ SessionGood(session')
  <2>1. CASE ~t.page \/ status # 200 \/ t.out[1].failed
    <3>1. session' = session
      BY <1>1, <2>1 DEF Paged
    <3>. QED
      BY <3>1
  <2>2. CASE ~(~t.page \/ status # 200 \/ t.out[1].failed)
    <3>1. status = 200 /\ t.page /\ ~t.out[1].failed
      BY <2>2
    <3>2. PageOf(t, session)
          /\ PageResult(t.out[1], session.dev, t.offset, t.limit, t.cards, t.clean)
      BY <3>1 DEF Right
    <3>3. Paged(t, 200) \in Session /\ SessionGood(Paged(t, 200))
      BY <3>1, <3>2, SessionPaged
    <3>. QED
      BY <1>1, <3>1, <3>3
  <2>. QED
    BY <2>1, <2>2
<1>6. FindIsRight'
  <2>1. ASSUME NEW d \in t.asked, t.kind = "find", status = 200
        PROVE  /\ ToSet(t.out) \subseteq Wanted(d)
               /\ IsInjective(Sources) => IsInjective(t.out)
               /\ t.clean /\ Len(t.out) < t.limit =>
                    \A m \in Wanted(d) \ ToSet(t.out) :
                      \/ m[2] \in t.skipped
                      \/ t.limit < Len(Held([kind |-> "find", dev |-> d], m[2]))
    <3>1. d = t.dev /\ Finding(t, {})
      BY <2>1 DEF Right, FindOf
    <3>. QED
      BY <3>1 DEF Finding
  <2>. QED
    BY <1>2, <2>1 DEF FindIsRight
<1>7. OneResultPerTarget'
  <2>1. ASSUME t.kind = "export", status = 200
        PROVE  /\ {t.out[i].dev : i \in DOMAIN t.out} = t.asked
               /\ Len(t.out) = Cardinality(t.asked)
    <3>1. t.out \in Seq(Result) /\ EachOnce(t.out) /\ DevicesOf(t.out) = t.asked
      BY <2>1 DEF Right
    <3>2. Len(t.out) = Cardinality(DevicesOf(t.out))
      BY <3>1, AsManyAsDevices
    <3>. QED
      BY <3>1, <3>2 DEF DevicesOf
  <2>. QED
    BY <1>2, <2>1 DEF OneResultPerTarget
<1>. QED
  BY <1>1, <1>3, <1>4, <1>5, <1>6, <1>7 DEF Served

\* A request is being served: the session stands still and there is no reply.
Quiet == session \in Session /\ SessionGood(session) /\ reply = NoReply

\* A request that goes on, from a state before which nobody waited for a reply.
LEMMA GoesOn ==
    ASSUME Quiet, UNCHANGED <<reply, session>>, task' \in Task, search' \in Search,
           task'.kind # "idle", task'.kind = "find" => FindGood(task', search'),
           task'.kind = "export" => ExportGood(task', search', session),
           task'.kind = "photo" => search' = NoSearch /\ ~task'.page
    PROVE  Served'
<1>1. reply' = NoReply /\ session' = session /\ session' \in Session /\ SessionGood(session')
  BY DEF Quiet
<1>2. reply' \in Reply /\ reply'.kind = "none"
  BY <1>1 DEF NoReply, Reply
<1>3. FindIsRight' /\ OneResultPerTarget'
  BY <1>2 DEF FindIsRight, OneResultPerTarget
<1>. QED
  BY <1>1, <1>2, <1>3 DEF Served

\* A search is started for the first of the steps left.
LEMMA Started ==
    ASSUME NEW t \in Task, t.steps # <<>>, StartSearch(t)
    PROVE  /\ task' = [t EXCEPT !.steps = Tail(t.steps)] /\ task' \in Task
           /\ search' \in Search /\ search'.pc = "start" /\ search'.source = Head(t.steps)
           /\ search'.out = <<>> /\ search'.outcome = "ok"
           /\ UNCHANGED <<reply, session>>
<1>1. t.steps \in Seq(Source)
  BY DEF Task
<1>2. Head(t.steps) \in Source /\ Tail(t.steps) \in Seq(Source)
  BY <1>1, HeadAndTail
<1>3. task' = [t EXCEPT !.steps = Tail(t.steps)] /\ UNCHANGED <<reply, session>>
  BY DEF StartSearch
<1>4. task' \in Task
  BY <1>2, <1>3 DEF Task
<1>5. search' = [pc |-> "start", source |-> Head(t.steps), at |-> 0, end |-> 0, batch |-> 0,
                 out |-> <<>>, outcome |-> "ok"]
  BY DEF StartSearch, NoSearch
<1>6. <<>> \in Seq(People)
  OBVIOUS
<1>7. search' \in Search
  BY <1>2, <1>5, <1>6 DEF Search
<1>. QED
  BY <1>3, <1>4, <1>5, <1>7

-----------------------------------------------------------------------------
(* A find *)

\* A find that has read its sources so far goes on with the next, or is answered.
LEMMA NextSourceGood ==
    ASSUME Quiet, NEW t \in Task, FindOf(t), Finding(t, ToSet(t.steps)), NextSource(t)
    PROVE  Served' /\ search'.pc \in {"none", "start"}
<1>1. t.kind = "find" /\ ~t.page /\ t.dev \in Devices
  BY DEF FindOf
<1>2. CASE t.steps = <<>> \/ Len(t.out) >= t.limit
  <2>1. Respond(t, 200)
    BY <1>2 DEF NextSource
  <2>2. t.steps = <<>> => ToSet(t.steps) = {}
    BY DEF ToSet
  <2>3. Len(t.out) >= t.limit => ~(Len(t.out) < t.limit)
    BY DEF Finding, Task
  <2>4. Finding(t, {})
    BY <1>2, <2>2, <2>3 DEF Finding
  <2>5. Right(t, 200)
    BY <1>1, <2>4 DEF Right
  <2>6. Served' /\ search'.pc = "none"
    BY <1>1, <2>1, <2>5, RespondGood DEF Quiet
  <2>. QED
    BY <2>6
<1>3. CASE ~(t.steps = <<>> \/ Len(t.out) >= t.limit)
  <2>. DEFINE u == [t EXCEPT !.steps = Tail(t.steps)]
  <2>1. StartSearch(t) /\ t.steps # <<>>
    BY <1>3 DEF NextSource
  <2>2. /\ task' = u /\ task' \in Task
        /\ search' \in Search /\ search'.pc = "start" /\ search'.source = Head(t.steps)
        /\ search'.out = <<>> /\ search'.outcome = "ok"
        /\ UNCHANGED <<reply, session>>
    BY <2>1, Started
  <2>3. t.steps \in Seq(Source)
    BY DEF Task
  <2>4. /\ ToSet(t.steps) = {Head(t.steps)} \cup ToSet(Tail(t.steps))
        /\ IsInjective(t.steps) =>
             IsInjective(Tail(t.steps)) /\ Head(t.steps) \notin ToSet(Tail(t.steps))
    BY <2>1, <2>3, HeadAndTail
  <2>5. /\ u.kind = t.kind /\ u.dev = t.dev /\ u.asked = t.asked /\ u.offset = t.offset
        /\ u.page = t.page /\ u.limit = t.limit /\ u.out = t.out /\ u.clean = t.clean
        /\ u.skipped = t.skipped /\ u.steps = Tail(t.steps)
    BY DEF Task
  <2>. HIDE DEF u
  <2>6. FindOf(u)
    BY <2>5 DEF FindOf
  <2>7. IsInjective(Sources) => IsInjective(t.steps)
    BY DEF Finding
  <2>8. ToSet(t.steps) = ToSet(u.steps) \cup {search'.source}
    BY <2>2, <2>5, <2>4
  <2>9. Finding(u, ToSet(t.steps))
    BY <2>2, <2>5, <2>4 DEF Finding
  <2>10. Searching(u, search')
    BY <1>1, <2>2, <2>5 DEF Searching
  <2>11. FindGood(u, search')
    BY <2>2, <2>5, <2>6, <2>7, <2>4, <2>8, <2>9, <2>10 DEF FindGood
  <2>. QED
    BY <1>1, <2>2, <2>5, <2>11, GoesOn
<1>. QED
  BY <1>2, <1>3

\* The matches of a source have the very value, none twice, and are all of those found
\* when they stay below the limit.
LEMMA MatchesAre ==
    ASSUME NEW records \in Seq(People), IsInjective(records), NEW source \in Source,
           NEW left \in Nat
    PROVE  LET M == Matches(records, source, left)
           IN  /\ M \in Seq(Match) /\ Len(M) \in Nat /\ Len(M) <= left /\ IsInjective(M)
               /\ \A m \in ToSet(M) : /\ m = <<m[1], source>> /\ m[2] = source
                                      /\ m[1] \in ToSet(records) \cap Exact[source]
               /\ Len(M) < left => \A p \in ToSet(records) \cap Exact[source] :
                    <<p, source>> \in ToSet(M)
<1>. DEFINE exact == Filter(records, Exact[source])
            n == Len(exact)
            k == Min({n, left})
            M == Matches(records, source, left)
<1>1. /\ exact \in Seq(People) /\ IsInjective(exact)
      /\ ToSet(exact) = ToSet(records) \cap Exact[source]
  BY FilterIs
<1>2. /\ n \in Nat /\ DOMAIN exact = 1..n
      /\ \A i \in 1..n : exact[i] \in People /\ exact[i] \in ToSet(exact)
  BY <1>1, SeqIsFunction
<1>3. n \in Int /\ left \in Int
  BY <1>2
<1>4. k = IF n <= left THEN n ELSE left
  BY <1>3, MinOfTwo
<1>5. k \in 0..n /\ k <= left /\ (k < left => k = n)
  BY <1>2, <1>4
<1>6. M = [i \in 1..k |-> <<exact[i], source>>]
  BY DEF Matches
<1>. HIDE DEF exact, n, k, M
<1>7. M \in [1..k -> Match] /\ \A i \in 1..k : M[i] = <<exact[i], source>> /\ i \in 1..n
  BY <1>2, <1>5, <1>6 DEF Match
<1>8. M \in Seq(Match) /\ Len(M) = k /\ DOMAIN M = 1..k
  BY <1>5, <1>7, FunctionIsSeq
<1>9. IsInjective(M)
  BY <1>1, <1>2, <1>7, <1>8 DEF IsInjective
<1>10. \A m \in ToSet(M) : \E i \in 1..k : m = <<exact[i], source>>
  BY <1>7, <1>8 DEF ToSet
<1>11. \A m \in ToSet(M) : /\ m = <<m[1], source>> /\ m[2] = source
                           /\ m[1] \in ToSet(records) \cap Exact[source]
  BY <1>1, <1>2, <1>7, <1>10
<1>12. ASSUME k < left, NEW p \in ToSet(records) \cap Exact[source]
       PROVE  <<p, source>> \in ToSet(M)
  <2>1. PICK i \in 1..n : exact[i] = p
    BY <1>1, <1>2 DEF ToSet
  <2>2. i \in 1..k
    BY <1>5, <1>12
  <2>. QED
    BY <1>7, <1>8, <2>1, <2>2 DEF ToSet
<1>. QED
  BY <1>5, <1>8, <1>9, <1>11, <1>12 DEF M

\* The records of one more source are added to what a find returns.
LEMMA MatchesAdded ==
    ASSUME NEW t \in Task, FindOf(t), NEW source \in Source,
           Finding(t, ToSet(t.steps) \cup {source}),
           IsInjective(Sources) => source \notin ToSet(t.steps),
           NEW records \in Seq(People),
           IsPage(records, Held(t, source), t.offset, t.limit, t.clean),
           NEW u \in Task, u.kind = t.kind, u.dev = t.dev, u.limit = t.limit,
           u.clean = t.clean, u.skipped = t.skipped, u.steps = t.steps,
           NEW M, M = Matches(records, source, t.limit - Len(t.out)), u.out = t.out \o M
    PROVE  Finding(u, ToSet(u.steps))
<1>. DEFINE left == t.limit - Len(t.out)
            held == Held(t, source)
<1>1. /\ t.kind = "find" /\ t.dev \in Devices /\ t.offset = 0 /\ t.limit \in Nat
  BY DEF FindOf, Task
<1>2. /\ t.out \in Seq(Match) /\ Len(t.out) \in Nat /\ Len(t.out) <= t.limit
      /\ ToSet(t.out) \subseteq Wanted(t.dev)
      /\ source \in ToSet(Sources) \ NoValue /\ ToSet(t.steps) \subseteq ToSet(Sources) \ NoValue
  BY DEF Finding
<1>3. left \in Nat
  BY <1>1, <1>2
<1>4. records \in Seq(People) /\ IsInjective(records)
  BY DEF IsPage
<1>5. /\ M \in Seq(Match) /\ Len(M) \in Nat /\ Len(M) <= left /\ IsInjective(M)
      /\ \A m \in ToSet(M) : /\ m = <<m[1], source>> /\ m[2] = source
                             /\ m[1] \in ToSet(records) \cap Exact[source]
      /\ Len(M) < left => \A p \in ToSet(records) \cap Exact[source] :
           <<p, source>> \in ToSet(M)
  BY <1>3, <1>4, MatchesAre
<1>6. /\ held \in Seq(People) /\ ToSet(held) = ToSet(All(t.dev, source)) \cap Loose
      /\ All(t.dev, source) \in Seq(People)
  BY <1>1, HeldIs
<1>7. /\ u.out = t.out \o M /\ left = t.limit - Len(t.out)
      /\ \A p \in ToSet(records) : \E i \in DOMAIN held : held[i] = p
      /\ t.clean => \A i \in DOMAIN held :
           t.offset < i /\ i <= t.offset + t.limit => held[i] \in ToSet(records)
      /\ held = Held([kind |-> "find", dev |-> t.dev], source)
  BY <1>1 DEF IsPage, Held
<1>15. ToSet(records) \subseteq ToSet(held)
  <2>1. \A i \in DOMAIN held : held[i] \in ToSet(held)
    BY DEF ToSet
  <2>. HIDE DEF held
  <2>. QED
    BY <1>7, <2>1
<1>. HIDE DEF left, held
<1>8. /\ u.out \in Seq(Match) /\ Len(u.out) = Len(t.out) + Len(M)
      /\ ToSet(u.out) = ToSet(t.out) \cup ToSet(M)
      /\ IsInjective(t.out) /\ IsInjective(M) /\ ToSet(t.out) \cap ToSet(M) = {} =>
           IsInjective(u.out)
  <2>1. t.out \o M \in Seq(Match) /\ Len(t.out \o M) = Len(t.out) + Len(M)
    BY <1>2, <1>5, ConcatProperties
  <2>2. /\ ToSet(t.out \o M) = ToSet(t.out) \cup ToSet(M)
        /\ IsInjective(t.out) /\ IsInjective(M) /\ ToSet(t.out) \cap ToSet(M) = {} =>
             IsInjective(t.out \o M)
    BY <1>2, <1>5, Concatenated
  <2>. QED
    BY <1>7, <2>1, <2>2
<1>9. ToSet(u.out) \subseteq Wanted(t.dev)
  <2>1. ASSUME NEW m \in ToSet(M)
        PROVE  m \in Wanted(t.dev)
    <3>0. m = <<m[1], source>> /\ m[2] = source /\ m[1] \in ToSet(records) \cap Exact[source]
      BY <1>5
    <3>1. m = <<m[1], source>> /\ m[2] = source /\ m[1] \in ToSet(records) /\ m[1] \in Exact[source]
      BY <3>0
    <3>2. m[1] \in ToSet(held)
      BY <1>15, <3>1
    <3>3. m[1] \in ToSet(All(t.dev, source)) /\ m[1] \in People
      BY <1>6, <3>2, SeqIsFunction
    <3>4. m \in People \X (ToSet(Sources) \ NoValue)
      BY <1>2, <3>1, <3>3
    <3>. QED
      BY <3>1, <3>3, <3>4 DEF Wanted
  <2>. QED
    BY <1>2, <1>8, <2>1
<1>14. /\ t.limit \in Nat /\ Len(t.out) \in Nat /\ Len(M) \in Nat /\ u.limit = t.limit
      /\ Len(M) <= t.limit - Len(t.out) /\ Len(u.out) = Len(t.out) + Len(M)
      /\ left = t.limit - Len(t.out)
  BY <1>1, <1>2, <1>5, <1>7, <1>8
<1>10. Len(u.out) <= u.limit
  <2>. DEFINE x == Len(t.out)
              y == Len(M)
              z == Len(u.out)
  <2>1. t.limit \in Nat /\ x \in Nat /\ y \in Nat /\ y <= t.limit - x /\ z = x + y
    BY <1>14
  <2>. HIDE DEF x, y, z
  <2>2. z <= t.limit
    BY <2>1
  <2>. QED
    BY <1>14, <2>2 DEF z
<1>11. ASSUME IsInjective(Sources)
       PROVE  /\ IsInjective(u.out) /\ IsInjective(u.steps)
              /\ \A m \in ToSet(u.out) : m[2] \notin ToSet(u.steps)
  <2>1. /\ IsInjective(t.out) /\ IsInjective(t.steps) /\ source \notin ToSet(t.steps)
        /\ \A m \in ToSet(t.out) : m[2] \notin ToSet(t.steps) /\ m[2] # source
    BY <1>11 DEF Finding
  <2>2. ToSet(t.out) \cap ToSet(M) = {}
    BY <1>5, <2>1
  <2>3. IsInjective(u.out)
    BY <1>5, <1>8, <2>1, <2>2
  <2>. QED
    BY <1>5, <1>8, <2>1, <2>3
<1>12. ASSUME u.clean, Len(u.out) < u.limit, NEW m \in Wanted(u.dev) \ ToSet(u.out)
       PROVE  \/ m[2] \in ToSet(u.steps) \cup u.skipped
              \/ u.limit < Len(Held([kind |-> "find", dev |-> u.dev], m[2]))
  <2>0. u.limit = t.limit /\ u.clean = t.clean /\ u.dev = t.dev
    OBVIOUS
  <2>1. t.clean /\ Len(t.out) < t.limit /\ Len(M) < left /\ m \in Wanted(t.dev) \ ToSet(t.out)
    <3>1. Len(u.out) < t.limit
      BY <1>12, <2>0
    <3>. DEFINE x == Len(t.out)
                y == Len(M)
                z == Len(u.out)
    <3>2. /\ t.limit \in Nat /\ x \in Nat /\ y \in Nat /\ z < t.limit /\ z = x + y
          /\ left = t.limit - x
      BY <1>14, <3>1
    <3>. HIDE DEF x, y, z
    <3>3. x < t.limit /\ y < left
      BY <3>2
    <3>4. Len(t.out) < t.limit /\ Len(M) < left
      BY <3>3 DEF x, y
    <3>. QED
      BY <1>8, <1>12, <2>0, <3>4
  <2>2. \/ m[2] \in ToSet(t.steps) \cup {source} \cup t.skipped
        \/ t.limit < Len(Held([kind |-> "find", dev |-> t.dev], m[2]))
    BY <2>1 DEF Finding
  <2>3. CASE m[2] = source
    <3>1. m \in People \X (ToSet(Sources) \ NoValue) /\ m[1] \in Exact[source]
          /\ m[1] \in ToSet(All(t.dev, source))
      BY <1>12, <2>1, <2>3 DEF Wanted
    <3>2. m = <<m[1], source>>
      BY <2>3, <3>1
    <3>3. m[1] \notin ToSet(records)
      BY <1>5, <1>8, <1>12, <2>1, <3>1, <3>2
    <3>4. m[1] \in Loose
      BY <3>1, ReadConstants
    <3>5. m[1] \in ToSet(held)
      BY <1>6, <3>1, <3>4
    <3>6. PICK i \in DOMAIN held : held[i] = m[1]
      BY <3>5 DEF ToSet
    <3>7. ~(t.offset < i /\ i <= t.offset + t.limit)
      BY <1>7, <2>1, <3>3, <3>6
    <3>8. DOMAIN held = 1..Len(held) /\ Len(held) \in Nat
      BY <1>6
    <3>9. t.limit < Len(held)
      BY <1>1, <3>6, <3>7, <3>8
    <3>10. held = Held([kind |-> "find", dev |-> t.dev], m[2])
      BY <1>7, <2>3
    <3>. QED
      BY <3>9, <3>10
  <2>4. CASE m[2] # source
    BY <2>2, <2>4
  <2>. QED
    BY <2>3, <2>4
<1>. QED
  BY <1>2, <1>8, <1>9, <1>10, <1>11, <1>12 DEF Finding

\* A source that was read, is missing or failed.
LEMMA SourceReadGood ==
    ASSUME Quiet, task \in Task, search \in Search, FindGood(task, search),
           NEW outcome \in {"ok"} \cup Failures, NEW records \in Seq(People),
           outcome = "ok" => IsPage(records, Held(task, search.source),
                                    task.offset, task.limit, task.clean),
           SourceRead(outcome, records)
    PROVE  Served' /\ search'.pc \in {"none", "start"}
<1>. DEFINE source == search.source
<1>1. /\ FindOf(task) /\ Finding(task, ToSet(task.steps) \cup {source})
      /\ IsInjective(Sources) => source \notin ToSet(task.steps)
      /\ source \in Source /\ task.kind = "find" /\ ~task.page
  BY DEF FindGood, FindOf, Search
<1>2. CASE outcome = "ok"
  <2>. DEFINE M == Matches(records, source, task.limit - Len(task.out))
              u == [task EXCEPT !.out = task.out \o M]
  <2>1. NextSource(u)
    BY <1>2 DEF SourceRead
  <2>2. task.limit - Len(task.out) \in Nat /\ task.out \in Seq(Match)
    BY <1>1 DEF Finding, Task
  <2>3. IsInjective(records)
    BY <1>2 DEF IsPage
  <2>. HIDE DEF source, M
  <2>4. M \in Seq(Match)
    BY <1>1, <2>2, <2>3, MatchesAre DEF M
  <2>5. task.out \o M \in Seq(Match)
    BY <2>2, <2>4
  <2>6. u \in Task
    BY <2>5 DEF Task
  <2>7. /\ u.kind = task.kind /\ u.dev = task.dev /\ u.asked = task.asked
        /\ u.offset = task.offset /\ u.page = task.page /\ u.limit = task.limit
        /\ u.clean = task.clean /\ u.skipped = task.skipped /\ u.steps = task.steps
        /\ u.out = task.out \o M
    BY DEF Task
  <2>. HIDE DEF u
  <2>8. FindOf(u)
    BY <1>1, <2>7 DEF FindOf
  <2>9. IsPage(records, Held(task, source), task.offset, task.limit, task.clean)
    BY <1>2 DEF source
  <2>10. M = Matches(records, source, task.limit - Len(task.out))
    BY DEF M
  <2>11. Finding(u, ToSet(u.steps))
    BY <1>1, <2>6, <2>7, <2>9, <2>10, MatchesAdded
  <2>. QED
    BY <2>1, <2>6, <2>8, <2>11, NextSourceGood
<1>3. CASE outcome = "missing"
  <2>. DEFINE u == [task EXCEPT !.skipped = task.skipped \cup {source}]
  <2>1. NextSource(u)
    BY <1>3 DEF SourceRead, Skip
  <2>2. u \in Task
    BY <1>1 DEF Task
  <2>3. /\ u.kind = task.kind /\ u.dev = task.dev /\ u.asked = task.asked
        /\ u.offset = task.offset /\ u.page = task.page /\ u.limit = task.limit
        /\ u.clean = task.clean /\ u.skipped = task.skipped \cup {source}
        /\ u.steps = task.steps /\ u.out = task.out
    BY DEF Task
  <2>. HIDE DEF u, source
  <2>4. FindOf(u)
    BY <1>1, <2>3 DEF FindOf
  <2>5. Finding(u, ToSet(u.steps))
    BY <1>1, <2>3 DEF Finding
  <2>. QED
    BY <2>1, <2>2, <2>4, <2>5, NextSourceGood
<1>4. CASE outcome = "error"
  <2>. DEFINE u == [task EXCEPT !.out = <<>>]
  <2>1. Respond(u, 502)
    BY <1>4 DEF SourceRead
  <2>. <<>> \in Seq(Match)
    OBVIOUS
  <2>2. u \in Task /\ u.kind = "find"
    BY <1>1 DEF Task
  <2>. HIDE DEF u
  <2>3. Right(u, 502)
    BY DEF Right
  <2>. QED
    BY <2>1, <2>2, <2>3, RespondGood DEF Quiet
<1>. QED
  BY <1>2, <1>3, <1>4 DEF Failures

\* The sources with a condition are those that a wanted record may come from.
LEMMA ConditionedIs ==
    /\ Conditioned \in Seq(Source) /\ ToSet(Conditioned) = ToSet(Sources) \ NoValue
    /\ IsInjective(Sources) => IsInjective(Conditioned)
<1>1. Sources \in Seq(Source)
  BY ReadConstants
<1>2. ToSet(Sources) \subseteq Source
  BY <1>1, SeqIsFunction
<1>3. /\ Conditioned \in Seq(Source) /\ ToSet(Conditioned) = ToSet(Sources) \cap (Source \ NoValue)
      /\ IsInjective(Sources) => IsInjective(Conditioned)
  BY <1>1, FilterIs DEF Conditioned
<1>. QED
  BY <1>2, <1>3

\* A find that starts, or is refused.
LEMMA FindStarts ==
    ASSUME Quiet, NEW d \in Devices, NEW n \in PageSizes, Find(d, n)
    PROVE  Served' /\ search'.pc \in {"none", "start"} /\ open' = open
<1>. DEFINE t == [Idle EXCEPT !.kind = "find", !.asked = {d}, !.dev = d, !.limit = n,
                     !.steps = Conditioned]
<1>1. n \in Nat /\ Idle \in Task
  BY ReadConstants, IdleTypes
<1>2. t \in Task
  BY <1>1, ConditionedIs DEF Task
<1>3. /\ t.kind = "find" /\ t.asked = {d} /\ t.dev = d /\ t.limit = n /\ t.steps = Conditioned
      /\ t.out = <<>> /\ t.offset = 0 /\ ~t.page
  BY DEF Idle
<1>4. /\ IF lease[d] = "valid" THEN NextSource(t) ELSE Respond(t, Refusal(d))
      /\ open' = open
  BY DEF Find
<1>. HIDE DEF t
<1>5. FindOf(t)
  BY <1>3 DEF FindOf
<1>6. CASE lease[d] = "valid"
  <2>1. <<>> \in Seq(Match) /\ Len(<<>>) = 0 /\ ToSet(<<>>) = {} /\ IsInjective(<<>>)
    BY DEF ToSet, IsInjective
  <2>2. \A m \in Wanted(t.dev) : m[2] \in ToSet(Sources) \ NoValue
    BY DEF Wanted
  <2>3. Finding(t, ToSet(t.steps))
    BY <1>1, <1>3, <2>1, <2>2, ConditionedIs DEF Finding
  <2>. QED
    BY <1>2, <1>4, <1>5, <1>6, <2>3, NextSourceGood
<1>7. CASE lease[d] # "valid"
  <2>1. Refusal(d) \in {404, 500}
    BY DEF Refusal
  <2>2. Right(t, Refusal(d))
    BY <1>3, <2>1 DEF Right
  <2>3. Respond(t, Refusal(d))
    BY <1>4, <1>7
  <2>. QED
    BY <1>2, <1>3, <1>4, <2>1, <2>2, <2>3, RespondGood DEF Quiet
<1>. QED
  BY <1>6, <1>7

-----------------------------------------------------------------------------
(* An export *)

\* An export goes on with the next device, or is answered with the missing ones last.
LEMMA NextDeviceGood ==
    ASSUME Quiet, NEW t \in Task, ExportOf(t, session), Sharing(t, {}),
           t.page => IF t.rest # <<>> THEN t.out = <<>>
                     ELSE /\ Len(t.out) = 1
                          /\ ~t.out[1].failed => PageResult(t.out[1], session.dev,
                                                    t.offset, t.limit, t.cards, t.clean),
           NextDevice(t)
    PROVE  Served' /\ search'.pc = "none"
<1>1. t.kind = "export" /\ t.missing \in SUBSET Devices /\ t.rest \in Seq(Devices)
  BY DEF ExportOf, Task
<1>2. CASE t.rest # <<>>
  <2>. DEFINE u == [t EXCEPT !.dev = "none"]
  <2>1. task' = u /\ search' = NoSearch /\ UNCHANGED <<reply, session>>
    BY <1>2 DEF NextDevice
  <2>2. u \in Task
    BY DEF Task
  <2>3. /\ u.kind = t.kind /\ u.dev = "none" /\ u.asked = t.asked /\ u.missing = t.missing
        /\ u.rest = t.rest /\ u.limit = t.limit /\ u.offset = t.offset /\ u.cards = t.cards
        /\ u.page = t.page /\ u.out = t.out
    BY DEF Task
  <2>. HIDE DEF u
  <2>4. Sharing(u, {})
    BY <2>3 DEF Sharing
  <2>5. ExportOf(u, session)
    BY <2>3 DEF ExportOf, PageOf
  <2>6. ExportGood(u, search', session)
    BY <1>2, <2>1, <2>3, <2>4, <2>5 DEF ExportGood
  <2>7. search' \in Search /\ search'.pc = "none"
    BY <2>1, IdleTypes DEF NoSearch
  <2>. QED
    BY <1>1, <2>1, <2>2, <2>3, <2>6, <2>7, GoesOn
<1>3. CASE t.rest = <<>>
  <2>. DEFINE list == SetToSeq(t.missing)
              x == [i \in DOMAIN list |-> Failed(list[i])]
              u == [t EXCEPT !.out = t.out \o x]
  <2>1. Respond(u, 200)
    BY <1>3 DEF NextDevice
  <2>2. list = SetToSeq(t.missing)
    OBVIOUS
  <2>. HIDE DEF list
  <2>3. x \in Seq(Result) /\ EachOnce(x) /\ DevicesOf(x) = t.missing
    BY <1>1, <2>2, FailedResults
  <2>. HIDE DEF x
  <2>4. ToSet(t.rest) = {}
    BY <1>3 DEF ToSet
  <2>5. /\ t.out \in Seq(Result) /\ EachOnce(t.out) /\ DevicesOf(t.out) \cup t.missing = t.asked
        /\ DevicesOf(t.out) \cap t.missing = {}
    BY <2>4 DEF Sharing
  <2>6. DevicesOf(t.out) \cap DevicesOf(x) = {}
    BY <2>3, <2>5
  <2>7. /\ t.out \o x \in Seq(Result) /\ EachOnce(t.out \o x)
        /\ DevicesOf(t.out \o x) = DevicesOf(t.out) \cup DevicesOf(x)
    BY <2>3, <2>5, <2>6, ResultsTogether
  <2>8. u \in Task
    BY <2>7 DEF Task
  <2>9. /\ u.kind = t.kind /\ u.asked = t.asked /\ u.missing = t.missing /\ u.clean = t.clean
        /\ u.limit = t.limit /\ u.offset = t.offset /\ u.cards = t.cards /\ u.page = t.page
        /\ u.out = t.out \o x
    BY DEF Task
  <2>10. Len(t.out) = 1 => (t.out \o x)[1] = t.out[1]
    BY <2>3, <2>5
  <2>. HIDE DEF u
  <2>11. u.page => /\ PageOf(u, session)
                   /\ ~u.out[1].failed => PageResult(u.out[1], session.dev, u.offset, u.limit,
                                                     u.cards, u.clean)
    <3>1. ASSUME u.page
          PROVE  PageOf(t, session) /\ Len(t.out) = 1 /\ u.out[1] = t.out[1]
      BY <1>3, <2>9, <2>10, <3>1 DEF ExportOf
    <3>2. ASSUME u.page
          PROVE  PageOf(u, session)
      BY <2>9, <3>1, <3>2 DEF PageOf
    <3>3. ASSUME u.page, ~u.out[1].failed
          PROVE  PageResult(u.out[1], session.dev, u.offset, u.limit, u.cards, u.clean)
      BY <1>3, <2>9, <3>1, <3>3
    <3>. QED
      BY <3>2, <3>3
  <2>12. Right(u, 200)
    BY <1>1, <2>3, <2>5, <2>7, <2>9, <2>11 DEF Right
  <2>. QED
    BY <1>1, <2>1, <2>8, <2>9, <2>12, RespondGood DEF Quiet
<1>. QED
  BY <1>2, <1>3

\* An export that starts, or is refused.
LEMMA ExportStarts ==
    ASSUME Quiet, NEW targets \in SUBSET Devices, NEW n \in PageSizes, NEW offset \in Nat,
           NEW cards \in BOOLEAN, NEW page \in BOOLEAN,
           page => /\ ~session.done /\ targets = {session.dev} /\ n = session.limit
                   /\ offset = session.offset /\ cards = session.cards,
           Export(targets, n, offset, cards, page)
    PROVE  Served' /\ search'.pc = "none" /\ open' = open
<1>. DEFINE gone == targets \ Assigned
            here == targets \cap Assigned
            list == SetToSeq(here)
            t == [Idle EXCEPT !.kind = "export", !.asked = targets, !.limit = n,
                     !.missing = gone, !.rest = list,
                     !.offset = offset, !.cards = cards, !.page = page]
<1>1. n \in Nat /\ Idle \in Task
  BY ReadConstants, IdleTypes
<1>2. IsFiniteSet(here) /\ here \in SUBSET Devices /\ gone \in SUBSET Devices
  BY ReadConstants, FS_Subset
<1>3. list \in Seq(Devices) /\ ToSet(list) = here /\ IsInjective(list)
  BY <1>2, SetToSeqIs
<1>4. /\ IF page /\ list = <<>> THEN Respond(t, 404) ELSE NextDevice(t)
      /\ open' = open
  <2>1. t.rest = list
    BY DEF Idle
  <2>. QED
    BY <2>1 DEF Export
<1>5. gone \cap here = {} /\ gone \cup here = targets
  OBVIOUS
<1>. HIDE DEF gone, here, list
<1>6. t \in Task
  BY <1>1, <1>2, <1>3 DEF Task
<1>7. /\ t.kind = "export" /\ t.asked = targets /\ t.limit = n /\ t.missing = gone
      /\ t.rest = list /\ t.offset = offset /\ t.cards = cards /\ t.page = page /\ t.out = <<>>
  BY DEF Idle
<1>. HIDE DEF t
<1>8. CASE page /\ list = <<>>
  <2>1. Respond(t, 404) /\ Right(t, 404)
    BY <1>4, <1>8 DEF Right
  <2>. QED
    BY <1>4, <1>6, <1>7, <2>1, RespondGood DEF Quiet
<1>9. CASE ~(page /\ list = <<>>)
  <2>1. NextDevice(t)
    BY <1>4, <1>9
  <2>2. <<>> \in Seq(Result) /\ EachOnce(<<>>) /\ DevicesOf(<<>>) = {}
    BY DEF EachOnce, DevicesOf
  <2>3. Sharing(t, {})
    BY <1>3, <1>5, <1>7, <2>2 DEF Sharing
  <2>4. page => gone = {}
    <3>1. list # <<>> => 1 \in DOMAIN list
      BY <1>3
    <3>2. list # <<>> => list[1] \in here
      BY <1>3, <3>1 DEF ToSet
    <3>. QED
      BY <1>5, <1>9, <3>2
  <2>5. ExportOf(t, session)
    BY <1>7, <2>4 DEF ExportOf, PageOf
  <2>6. t.page => t.rest # <<>> /\ t.out = <<>>
    BY <1>7, <1>9
  <2>. QED
    BY <1>4, <1>6, <2>1, <2>3, <2>5, <2>6, NextDeviceGood
<1>. QED
  BY <1>8, <1>9

\* The next device is taken from those left.
LEMMA DeviceTaken ==
    ASSUME NEW t \in Task, Sharing(t, {}), t.rest # <<>>, NEW u \in Task,
           u.rest = Tail(t.rest), u.out = t.out, u.missing = t.missing, u.asked = t.asked
    PROVE  Head(t.rest) \in Devices /\ Sharing(u, {Head(t.rest)})
<1>1. t.rest \in Seq(Devices) /\ IsInjective(t.rest)
  BY DEF Task, Sharing
<1>2. /\ Head(t.rest) \in Devices /\ ToSet(t.rest) = {Head(t.rest)} \cup ToSet(u.rest)
      /\ IsInjective(u.rest) /\ Head(t.rest) \notin ToSet(u.rest)
  BY <1>1, HeadAndTail
<1>. QED
  BY <1>2 DEF Sharing

\* A device that gets its result has been shared out.
LEMMA DeviceDone ==
    ASSUME NEW t \in Task, NEW d \in Devices, Sharing(t, {d}), NEW x \in Result, x.dev = d,
           NEW u \in Task, u.out = Append(t.out, x), u.rest = t.rest,
           u.missing = t.missing, u.asked = t.asked
    PROVE  Sharing(u, {})
<1>1. t.out \in Seq(Result) /\ EachOnce(t.out) /\ d \notin DevicesOf(t.out)
  BY DEF Sharing
<1>2. /\ u.out \in Seq(Result) /\ EachOnce(u.out)
      /\ DevicesOf(u.out) = DevicesOf(t.out) \cup {d}
  BY <1>1, OneResultMore
<1>. QED
  BY <1>2 DEF Sharing

\* A page is asked of one device.
LEMMA OneDevice ==
    ASSUME NEW t \in Task, NEW s, NEW d, PageOf(t, s), Sharing(t, {d})
    PROVE  t.rest = <<>> /\ d = s.dev
<1>1. d = s.dev /\ ToSet(t.rest) = {}
  BY DEF PageOf, Sharing
<1>2. t.rest \in Seq(Devices)
  BY DEF Task
<1>3. t.rest # <<>> => t.rest[1] \in ToSet(t.rest)
  BY <1>2 DEF ToSet
<1>. QED
  BY <1>1, <1>3

\* The next device of an export, whose assignment is looked up again.
LEMMA OpenDeviceGood ==
    ASSUME Quiet, task \in Task, ExportGood(task, search, session), OpenDevice
    PROVE  Served' /\ search'.pc \in {"none", "start"} /\ open' = open
<1>. DEFINE d == Head(task.rest)
            t == [task EXCEPT !.rest = Tail(task.rest)]
<1>1. /\ task.dev = "none" /\ open' = open
      /\ CASE lease[d] = "none" -> Gone(t, d)
           [] lease[d] = "unparsable" -> Respond([t EXCEPT !.out = <<>>], 500)
           [] OTHER -> StartSearch([t EXCEPT !.dev = d, !.found = Idle.found,
                           !.steps = IF t.cards THEN <<"accessUser", "accessCard">>
                                                ELSE <<"accessUser">>])
  BY DEF OpenDevice
<1>2. "none" \notin Devices
  BY ReadConstants
<1>3. /\ ExportOf(task, session)
      /\ task.page => task.out = <<>>
      /\ task.rest # <<>> /\ Sharing(task, {})
  BY <1>1, <1>2 DEF ExportGood, Searching
<1>4. task.rest \in Seq(Devices)
  BY DEF Task
<1>5. Tail(task.rest) \in Seq(Devices)
  BY <1>3, <1>4
<1>6. t \in Task
  BY <1>5 DEF Task
<1>7. /\ t.kind = task.kind /\ t.asked = task.asked /\ t.missing = task.missing
      /\ t.rest = Tail(task.rest) /\ t.limit = task.limit /\ t.offset = task.offset
      /\ t.cards = task.cards /\ t.page = task.page /\ t.clean = task.clean /\ t.out = task.out
  BY DEF Task
<1>. HIDE DEF t
<1>8. d \in Devices /\ Sharing(t, {d})
  BY <1>3, <1>6, <1>7, DeviceTaken
<1>9. ExportOf(t, session) /\ (t.page => t.out = <<>>) /\ t.kind = "export"
  BY <1>3, <1>7 DEF ExportOf, PageOf
<1>. HIDE DEF d
<1>10. CASE lease[d] = "none"
  <2>. DEFINE u == [t EXCEPT !.out = Append(t.out, Failed(d))]
  <2>1. NextDevice(u)
    BY <1>1, <1>10 DEF Gone
  <2>2. Failed(d) \in Result /\ Failed(d).dev = d /\ Failed(d).failed
    BY <1>8 DEF Failed, Result
  <2>3. Append(t.out, Failed(d)) \in Seq(Result)
    BY <1>8, <2>2 DEF Sharing
  <2>4. u \in Task
    BY <1>6, <2>2, <2>3 DEF Task
  <2>5. /\ u.kind = t.kind /\ u.asked = t.asked /\ u.missing = t.missing /\ u.rest = t.rest
        /\ u.limit = t.limit /\ u.offset = t.offset /\ u.cards = t.cards /\ u.page = t.page
        /\ u.clean = t.clean /\ u.out = Append(t.out, Failed(d))
    BY <1>6 DEF Task
  <2>. HIDE DEF u
  <2>6. Sharing(u, {})
    BY <1>6, <1>8, <2>2, <2>4, <2>5, DeviceDone
  <2>7. ExportOf(u, session)
    BY <1>9, <2>5 DEF ExportOf, PageOf
  <2>8. ASSUME u.page
        PROVE  u.rest = <<>> /\ Len(u.out) = 1 /\ u.out[1] = Failed(d)
    <3>1. PageOf(t, session) /\ t.out = <<>>
      BY <1>9, <2>5, <2>8 DEF ExportOf
    <3>2. u.rest = <<>>
      BY <1>6, <1>8, <2>5, <3>1, OneDevice
    <3>. QED
      BY <2>5, <3>1, <3>2
  <2>. QED
    BY <1>1, <2>1, <2>2, <2>4, <2>6, <2>7, <2>8, NextDeviceGood
<1>11. CASE lease[d] = "unparsable"
  <2>. DEFINE u == [t EXCEPT !.out = <<>>]
  <2>1. Respond(u, 500)
    BY <1>1, <1>11
  <2>2. <<>> \in Seq(Match)
    OBVIOUS
  <2>3. u \in Task /\ u.kind = "export"
    BY <1>6, <1>9, <2>2 DEF Task
  <2>. HIDE DEF u
  <2>4. Right(u, 500)
    BY DEF Right
  <2>. QED
    BY <1>1, <2>1, <2>3, <2>4, RespondGood DEF Quiet
<1>12. CASE ~(lease[d] = "none") /\ ~(lease[d] = "unparsable")
  <2>. DEFINE steps == IF t.cards THEN <<"accessUser", "accessCard">> ELSE <<"accessUser">>
              v == [t EXCEPT !.dev = d, !.found = Idle.found, !.steps = steps]
              u == [v EXCEPT !.steps = Tail(v.steps)]
  <2>1. StartSearch(v)
    BY <1>1, <1>12
  <2>2. /\ steps \in Seq(Source) /\ steps # <<>> /\ Head(steps) = "accessUser"
        /\ Tail(steps) = IF t.cards THEN <<"accessCard">> ELSE <<>>
    BY DEF Source
  <2>3. Idle.found = [s \in Source |-> <<>>] /\ Idle.found \in [Source -> Seq(People)]
    BY DEF Idle
  <2>. HIDE DEF steps
  <2>4. v \in Task
    BY <1>6, <1>8, <2>2, <2>3 DEF Task
  <2>5. /\ v.kind = t.kind /\ v.asked = t.asked /\ v.missing = t.missing /\ v.rest = t.rest
        /\ v.limit = t.limit /\ v.offset = t.offset /\ v.cards = t.cards /\ v.page = t.page
        /\ v.out = t.out /\ v.dev = d /\ v.found = Idle.found /\ v.steps = steps
    BY <1>6 DEF Task
  <2>. HIDE DEF v
  <2>6. /\ task' = u /\ task' \in Task
        /\ search' \in Search /\ search'.pc = "start" /\ search'.source = "accessUser"
        /\ search'.out = <<>> /\ search'.outcome = "ok" /\ UNCHANGED <<reply, session>>
    BY <2>1, <2>2, <2>4, <2>5, Started
  <2>7. /\ u.kind = t.kind /\ u.asked = t.asked /\ u.missing = t.missing /\ u.rest = t.rest
        /\ u.limit = t.limit /\ u.offset = t.offset /\ u.cards = t.cards /\ u.page = t.page
        /\ u.out = t.out /\ u.dev = d /\ u.found = Idle.found /\ u.steps = Tail(steps)
    BY <2>4, <2>5 DEF Task
  <2>. HIDE DEF u
  <2>8. Sharing(u, {u.dev})
    BY <1>8, <2>7 DEF Sharing
  <2>9. ExportOf(u, session)
    BY <1>9, <2>7 DEF ExportOf, PageOf
  <2>10. Searching(u, search')
    BY <1>8, <2>6, <2>7 DEF Searching
  <2>11. ReadBefore(u, search'.source)
    BY <2>2, <2>3, <2>6, <2>7 DEF ReadBefore
  <2>12. ExportGood(u, search', session)
    BY <1>9, <2>7, <2>8, <2>9, <2>10, <2>11 DEF ExportGood
  <2>. QED
    BY <1>1, <1>9, <2>6, <2>7, <2>12, GoesOn
<1>. QED
  BY <1>10, <1>11, <1>12

\* The result of a device has the rows of its users and cards.
LEMMA ExportedIs ==
    ASSUME NEW t \in Task, t.dev \in Devices
    PROVE  /\ Exported(t) \in Result /\ Exported(t).dev = t.dev
           /\ Exported(t).rows = Rows(t.found["accessUser"], t.found["accessCard"])
           /\ Exported(t).more <=> \/ Len(t.found["accessUser"]) >= t.limit
                                   \/ Len(t.found["accessCard"]) >= t.limit
<1>1. t.found["accessUser"] \in Seq(People) /\ t.found["accessCard"] \in Seq(People)
  BY DEF Task, Source
<1>2. Rows(t.found["accessUser"], t.found["accessCard"]) \in SUBSET PersonRow
  BY <1>1, RowsOfPage
<1>3. HasMore(t) <=> \/ Len(t.found["accessUser"]) >= t.limit
                     \/ Len(t.found["accessCard"]) >= t.limit
  BY DEF HasMore, Source
<1>4. HasMore(t) \in BOOLEAN
  BY DEF HasMore
<1>5. /\ Exported(t).dev = t.dev /\ Exported(t).more = HasMore(t)
      /\ Exported(t).rows = Rows(t.found["accessUser"], t.found["accessCard"])
  BY DEF Exported
<1>6. Exported(t) \in Result
  BY <1>2, <1>4 DEF Exported, Result
<1>. QED
  BY <1>3, <1>5, <1>6

\* The users or the cards of a device were read, or could not be.
LEMMA DeviceReadGood ==
    ASSUME Quiet, task \in Task, search \in Search, search.pc # "none",
           ExportGood(task, search, session),
           NEW outcome \in {"ok"} \cup Failures, NEW records \in Seq(People),
           outcome = "ok" => IsPage(records, Held(task, search.source),
                                    task.offset, task.limit, task.clean),
           DeviceRead(outcome, records)
    PROVE  Served' /\ search'.pc \in {"none", "start"}
<1>. DEFINE source == search.source
            t == [task EXCEPT !.found[source] = records]
            users == t.found["accessUser"]
            cards == t.found["accessCard"]
<1>1. /\ IF outcome = "ok" /\ t.steps # <<>> THEN StartSearch(t)
         ELSE NextDevice([t EXCEPT !.out =
                  Append(t.out, IF outcome = "ok" THEN Exported(t) ELSE Failed(t.dev))])
  BY DEF DeviceRead
<1>2. /\ ExportOf(task, session)
      /\ task.page => task.out = <<>>
      /\ task.dev \in Devices /\ Sharing(task, {task.dev}) /\ ReadBefore(task, source)
  BY DEF ExportGood, NoSearch, Searching
<1>3. source \in {"accessUser", "accessCard"} /\ task.found \in [Source -> Seq(People)]
  BY DEF Search, Source, Task
<1>4. t \in Task
  BY <1>3 DEF Task, Source
<1>5. /\ t.kind = task.kind /\ t.asked = task.asked /\ t.missing = task.missing
      /\ t.rest = task.rest /\ t.limit = task.limit /\ t.offset = task.offset
      /\ t.cards = task.cards /\ t.page = task.page /\ t.clean = task.clean
      /\ t.out = task.out /\ t.dev = task.dev /\ t.steps = task.steps
  BY DEF Task
<1>6. t.found[source] = records
      /\ \A s \in Source : s # source => t.found[s] = task.found[s]
  BY <1>3 DEF Task, Source
<1>. HIDE DEF t
<1>7. ExportOf(t, session) /\ (t.page => t.out = <<>>) /\ t.kind = "export"
  BY <1>2, <1>5 DEF ExportOf, PageOf
<1>8. Sharing(t, {t.dev}) /\ t.dev \in Devices
  BY <1>2, <1>5 DEF Sharing
<1>9. task.kind # "find"
  BY <1>2 DEF ExportOf
\* What has been read of the device.
<1>10. ASSUME outcome = "ok"
       PROVE  /\ IsPage(users, UsersOn[t.dev], t.offset, t.limit, t.clean)
              /\ source = "accessCard" =>
                   /\ t.cards /\ t.steps = <<>>
                   /\ IsPage(cards, CardsOn[t.dev], t.offset, t.limit, t.clean)
              /\ source = "accessUser" =>
                   cards = <<>> /\ t.steps = IF t.cards THEN <<"accessCard">> ELSE <<>>
  <2>1. IsPage(records, Held(task, source), task.offset, task.limit, task.clean)
    BY <1>10
  <2>2. CASE source = "accessUser"
    <3>1. Held(task, source) = UsersOn[t.dev]
      BY <1>5, <1>9, <2>2 DEF Held, All
    <3>2. users = records /\ cards = task.found["accessCard"]
      BY <1>6, <2>2 DEF Source
    <3>3. /\ task.found = [s \in Source |-> <<>>]
          /\ task.steps = IF task.cards THEN <<"accessCard">> ELSE <<>>
      BY <1>2, <2>2 DEF ReadBefore
    <3>4. cards = <<>>
      BY <3>2, <3>3 DEF Source
    <3>. HIDE DEF source, users, cards
    <3>. QED
      BY <1>5, <2>1, <2>2, <3>1, <3>2, <3>3, <3>4
  <2>3. CASE source = "accessCard"
    <3>1. Held(task, source) = CardsOn[t.dev]
      BY <1>5, <1>9, <2>3 DEF Held, All
    <3>2. cards = records /\ users = task.found["accessUser"]
      BY <1>6, <2>3 DEF Source
    <3>3. /\ task.cards /\ task.steps = <<>>
          /\ IsPage(task.found["accessUser"], UsersOn[task.dev],
                    task.offset, task.limit, task.clean)
      BY <1>2, <2>3 DEF ReadBefore
    <3>. HIDE DEF source, users, cards
    <3>. QED
      BY <1>5, <2>1, <2>3, <3>1, <3>2, <3>3
  <2>. QED
    BY <1>3, <2>2, <2>3
<1>11. CASE outcome = "ok" /\ t.steps # <<>>
  <2>. DEFINE u == [t EXCEPT !.steps = Tail(t.steps)]
  <2>1. StartSearch(t)
    BY <1>1, <1>11
  <2>2. source = "accessUser" /\ t.cards /\ t.steps = <<"accessCard">> /\ cards = <<>>
        /\ IsPage(users, UsersOn[t.dev], t.offset, t.limit, t.clean)
    <3>1. source # "accessCard"
      BY <1>10, <1>11
    <3>2. source = "accessUser"
      BY <1>3, <3>1
    <3>. HIDE DEF source, users, cards
    <3>3. t.steps = IF t.cards THEN <<"accessCard">> ELSE <<>>
      BY <1>10, <1>11, <3>2
    <3>. QED
      BY <1>10, <1>11, <3>2, <3>3
  <2>3. Head(t.steps) = "accessCard" /\ Tail(t.steps) = <<>>
    BY <2>2
  <2>4. /\ task' = u /\ task' \in Task
        /\ search' \in Search /\ search'.pc = "start" /\ search'.source = "accessCard"
        /\ search'.out = <<>> /\ search'.outcome = "ok" /\ UNCHANGED <<reply, session>>
    BY <1>4, <1>11, <2>1, <2>3, Started
  <2>5. /\ u.kind = t.kind /\ u.asked = t.asked /\ u.missing = t.missing /\ u.rest = t.rest
        /\ u.limit = t.limit /\ u.offset = t.offset /\ u.cards = t.cards /\ u.page = t.page
        /\ u.clean = t.clean /\ u.out = t.out /\ u.dev = t.dev /\ u.found = t.found
        /\ u.steps = <<>>
    BY <1>4, <2>3 DEF Task
  <2>. HIDE DEF u
  <2>6. Sharing(u, {u.dev})
    BY <1>8, <2>5 DEF Sharing
  <2>7. ExportOf(u, session)
    BY <1>7, <2>5 DEF ExportOf, PageOf
  <2>8. Searching(u, search')
    BY <1>8, <2>4, <2>5 DEF Searching
  <2>9. ReadBefore(u, search'.source)
    BY <2>2, <2>4, <2>5 DEF ReadBefore
  <2>10. ExportGood(u, search', session)
    BY <1>7, <2>5, <2>6, <2>7, <2>8, <2>9 DEF ExportGood
  <2>. QED
    BY <1>7, <2>4, <2>5, <2>10, GoesOn
<1>12. CASE ~(outcome = "ok" /\ t.steps # <<>>)
  <2>. DEFINE x == IF outcome = "ok" THEN Exported(t) ELSE Failed(t.dev)
              u == [t EXCEPT !.out = Append(t.out, x)]
  <2>1. NextDevice(u)
    BY <1>1, <1>12
  <2>2. Failed(t.dev) \in Result /\ Failed(t.dev).dev = t.dev /\ Failed(t.dev).failed
    BY <1>8 DEF Failed, Result
  <2>3. x \in Result /\ x.dev = t.dev
        /\ (~x.failed => outcome = "ok") /\ (outcome = "ok" => x = Exported(t))
    BY <1>4, <1>8, <2>2, ExportedIs
  <2>. HIDE DEF x
  <2>4. Append(t.out, x) \in Seq(Result)
    BY <1>8, <2>3 DEF Sharing
  <2>5. u \in Task
    BY <1>4, <2>4 DEF Task
  <2>6. /\ u.kind = t.kind /\ u.asked = t.asked /\ u.missing = t.missing /\ u.rest = t.rest
        /\ u.limit = t.limit /\ u.offset = t.offset /\ u.cards = t.cards /\ u.page = t.page
        /\ u.clean = t.clean /\ u.out = Append(t.out, x)
    BY <1>4 DEF Task
  <2>. HIDE DEF u
  <2>7. Sharing(u, {})
    BY <1>4, <1>8, <2>3, <2>5, <2>6, DeviceDone
  <2>8. ExportOf(u, session)
    BY <1>7, <2>6 DEF ExportOf, PageOf
  <2>9. ASSUME u.page
        PROVE  u.rest = <<>> /\ Len(u.out) = 1 /\ u.out[1] = x /\ t.dev = session.dev
    <3>1. PageOf(t, session) /\ t.out = <<>>
      BY <1>7, <2>6, <2>9 DEF ExportOf
    <3>2. u.rest = <<>> /\ t.dev = session.dev
      BY <1>4, <1>8, <2>6, <3>1, OneDevice
    <3>. QED
      BY <2>6, <3>1, <3>2
  <2>10. ASSUME u.page, ~u.out[1].failed
         PROVE  PageResult(u.out[1], session.dev, u.offset, u.limit, u.cards, u.clean)
    <3>1. outcome = "ok" /\ x = Exported(t) /\ t.steps = <<>> /\ u.out[1] = x
      BY <1>12, <2>3, <2>9, <2>10
    <3>2. /\ x.rows = Rows(users, cards)
          /\ (x.more <=> Len(users) >= t.limit \/ Len(cards) >= t.limit)
      BY <1>4, <1>8, <3>1, ExportedIs
    <3>3. users \in Seq(People) /\ cards \in Seq(People)
      BY <1>4 DEF Task, Source
    <3>. HIDE DEF users, cards, source
    <3>4. /\ IsPage(users, UsersOn[t.dev], t.offset, t.limit, t.clean)
          /\ IF t.cards THEN IsPage(cards, CardsOn[t.dev], t.offset, t.limit, t.clean)
                        ELSE cards = <<>>
      BY <1>3, <1>10, <3>1
    <3>5. t.dev = session.dev
      BY <2>9, <2>10
    <3>6. PageResult(x, session.dev, t.offset, t.limit, t.cards, t.clean)
      BY <3>2, <3>3, <3>4, <3>5 DEF PageResult
    <3>. QED
      BY <2>6, <3>1, <3>6
  <2>. QED
    BY <2>1, <2>5, <2>7, <2>8, <2>9, <2>10, NextDeviceGood
<1>. QED
  BY <1>11, <1>12

-----------------------------------------------------------------------------
(* The calls of a search *)

\* A search that is at its terminal belongs to a find or an export.
LEMMA SearchIs ==
    ASSUME Served, search.pc # "none"
    PROVE  /\ Quiet /\ task \in Task /\ search \in Search /\ Searching(task, search)
           /\ task.kind \in {"find", "export"} /\ search.source \in Source
           /\ task.offset \in Nat /\ task.limit \in Nat \ {0} /\ task.clean \in BOOLEAN
           /\ Held(task, search.source) \in Seq(People)
           /\ IsInjective(Held(task, search.source))
<1>1. /\ task \in Task /\ search \in Search /\ search # NoSearch
      /\ session \in Session /\ SessionGood(session)
  BY DEF Served, NoSearch
<1>2. task.kind \in {"find", "export"} /\ reply = NoReply
  BY <1>1 DEF Served, Task
<1>3. Searching(task, search) /\ task.limit \in PageSizes
  BY <1>1, <1>2 DEF Served, FindGood, FindOf, ExportGood, ExportOf
<1>4. task.dev \in Devices /\ search.source \in Source
  BY <1>1, <1>3 DEF Searching, Search
<1>5. /\ Held(task, search.source) \in Seq(People)
      /\ IsInjective(Held(task, search.source))
  BY <1>4, HeldIs
<1>6. task.limit \in Nat \ {0} /\ task.offset \in Nat /\ task.clean \in BOOLEAN
  BY <1>1, <1>3, ReadConstants DEF Task
<1>. QED
  BY <1>1, <1>2, <1>3, <1>4, <1>5, <1>6 DEF Quiet

\* The search ends, and the request goes on.
LEMMA AfterSearchGood ==
    ASSUME Served, search.pc # "none",
           NEW outcome \in {"ok"} \cup Failures, NEW records \in Seq(People),
           outcome = "ok" => IsPage(records, Held(task, search.source),
                                    task.offset, task.limit, task.clean),
           AfterSearch(outcome, records)
    PROVE  Served' /\ search'.pc \in {"none", "start"}
<1>1. /\ Quiet /\ task \in Task /\ search \in Search
      /\ task.kind \in {"find", "export"}
  BY SearchIs
<1>2. CASE task.kind = "find"
  <2>1. FindGood(task, search) /\ SourceRead(outcome, records)
    BY <1>2 DEF Served, AfterSearch
  <2>. QED
    BY <1>1, <2>1, SourceReadGood
<1>3. CASE task.kind = "export"
  <2>1. ExportGood(task, search, session) /\ DeviceRead(outcome, records)
    BY <1>3 DEF Served, AfterSearch
  <2>. QED
    BY <1>1, <2>1, DeviceReadGood
<1>. QED
  BY <1>1, <1>2, <1>3

\* A page that was read in full is a page.
LEMMA PageIsLessWhole ==
    ASSUME NEW records, NEW held, NEW o, NEW n, NEW whole, NEW less,
           IsPage(records, held, o, n, whole), less => whole
    PROVE  IsPage(records, held, o, n, less)
BY DEF IsPage

\* The search goes on, for the same request.
LEMMA SearchGoesOn ==
    ASSUME Served, search.pc # "none", UNCHANGED <<reply, session>>,
           search' \in Search, search'.source = search.source,
           NEW clean \in BOOLEAN, clean => task.clean, task' = [task EXCEPT !.clean = clean],
           Searching(task', search')
    PROVE  Served'
<1>. DEFINE u == [task EXCEPT !.clean = clean]
            q == search'
<1>1. Quiet /\ task \in Task /\ task.kind \in {"find", "export"} /\ search # NoSearch
  BY SearchIs DEF NoSearch
<1>2. u \in Task
  BY <1>1 DEF Task
<1>3. /\ u.kind = task.kind /\ u.asked = task.asked /\ u.missing = task.missing
      /\ u.rest = task.rest /\ u.dev = task.dev /\ u.steps = task.steps
      /\ u.limit = task.limit /\ u.offset = task.offset /\ u.cards = task.cards
      /\ u.page = task.page /\ u.skipped = task.skipped /\ u.found = task.found
      /\ u.out = task.out /\ u.clean = clean
  BY <1>1 DEF Task
<1>4. task' = u /\ Searching(u, q) /\ q.source = search.source
  OBVIOUS
<1>. HIDE DEF u, q
<1>5. CASE task.kind = "find"
  <2>1. /\ FindOf(task) /\ Finding(task, ToSet(task.steps) \cup {q.source})
        /\ IsInjective(Sources) => q.source \notin ToSet(task.steps)
    BY <1>4, <1>5 DEF Served, FindGood
  <2>2. FindOf(u)
    BY <1>3, <2>1 DEF FindOf
  <2>3. Finding(u, ToSet(u.steps) \cup {q.source})
    BY <1>3, <2>1 DEF Finding
  <2>4. FindGood(u, q)
    BY <1>3, <1>4, <2>1, <2>2, <2>3 DEF FindGood
  <2>. QED
    BY <1>1, <1>2, <1>3, <1>4, <1>5, <2>4, GoesOn DEF q
<1>6. CASE task.kind = "export"
  <2>1. /\ ExportOf(task, session)
        /\ task.page => task.out = <<>>
        /\ Sharing(task, {task.dev}) /\ ReadBefore(task, q.source)
    BY <1>1, <1>4, <1>6 DEF Served, ExportGood
  <2>2. ExportOf(u, session)
    BY <1>3, <2>1 DEF ExportOf, PageOf
  <2>3. Sharing(u, {u.dev})
    BY <1>3, <2>1 DEF Sharing
  <2>4. q.source = "accessCard" =>
           IsPage(u.found["accessUser"], UsersOn[u.dev], u.offset, u.limit, u.clean)
    BY <1>3, <2>1, PageIsLessWhole DEF ReadBefore
  <2>5. ReadBefore(u, q.source)
    BY <1>3, <2>1, <2>4 DEF ReadBefore
  <2>6. ExportGood(u, q, session)
    BY <1>3, <1>4, <2>1, <2>2, <2>3, <2>5 DEF ExportGood
  <2>. QED
    BY <1>1, <1>2, <1>3, <1>4, <1>6, <2>6, GoesOn DEF q
<1>. QED
  BY <1>1, <1>5, <1>6

\* startFind answered: nothing found, or a token to read with.
LEMMA StartAnsweredGood ==
    ASSUME Served, NEW caps \in CapsGiven, StartAnswered(caps)
    PROVE  Served' /\ SearchesAreStopped'
<1>. DEFINE held == Held(task, search.source)
            total == Len(held)
            size == MaxToFetch(total, task.offset, task.limit)
<1>1. search.pc = "start"
  BY DEF StartAnswered
<1>2. /\ task \in Task /\ search \in Search /\ Searching(task, search)
      /\ task.offset \in Nat /\ task.limit \in Nat \ {0} /\ task.clean \in BOOLEAN
      /\ held \in Seq(People)
  BY <1>1, SearchIs
<1>3. IF total = 0
      THEN /\ open' = "left"
           /\ AfterSearch("ok", <<>>)
      ELSE /\ open' = "open"
           /\ search' = [search EXCEPT !.pc = IF size > 0 THEN "do" ELSE "stop",
                            !.at = task.offset, !.end = task.offset + size,
                            !.batch = Min({caps, size})]
           /\ UNCHANGED <<task, reply, session>>
  BY DEF StartAnswered
<1>. HIDE DEF held, total, size
<1>4. total = Len(held) /\ total \in Nat
  BY <1>2 DEF total
<1>5. CASE total = 0
  <2>1. IsPage(<<>>, held, task.offset, task.limit, task.clean)
    BY <1>2, <1>4, <1>5, EmptyPage
  <2>2. <<>> \in Seq(People)
    OBVIOUS
  <2>3. Served' /\ search'.pc \in {"none", "start"}
    BY <1>1, <1>3, <1>5, <2>1, <2>2, AfterSearchGood DEF held
  <2>. QED
    BY <1>3, <1>5, <2>3 DEF SearchesAreStopped
<1>6. CASE total # 0
  <2>1. size \in Nat /\ caps \in Nat \ {0}
    BY <1>2, <1>4, MaxToFetchIs, ReadConstants DEF size
  <2>2. caps \in Int /\ size \in Int
    BY <2>1
  <2>3. Min({caps, size}) = IF caps <= size THEN caps ELSE size
    BY <2>2, MinOfTwo
  <2>4. /\ search'.pc = (IF size > 0 THEN "do" ELSE "stop") /\ search'.at = task.offset
        /\ search'.end = task.offset + size /\ search'.batch = Min({caps, size})
        /\ search'.source = search.source /\ search'.out = <<>> /\ search'.outcome = "ok"
        /\ UNCHANGED <<task, reply, session>>
    BY <1>1, <1>2, <1>3, <1>6 DEF Searching, Search
  <2>5. task.offset + size \in Nat /\ Min({caps, size}) \in Nat
    BY <1>2, <2>1, <2>3
  <2>6. search' \in Search
    BY <1>2, <1>3, <1>6, <2>5 DEF Search
  <2>7. SubSeq(held, task.offset + 1, task.offset) = <<>>
    BY <1>2
  <2>8. Reading(search', held, task.offset, task.limit, task.clean)
    BY <1>2, <1>4, <2>1, <2>3, <2>4, <2>7 DEF Reading, size
  <2>9. Searching(task', search')
    BY <1>2, <2>4, <2>8 DEF Searching, held
  <2>10. task' = [task EXCEPT !.clean = task.clean]
    BY <1>2, <2>4 DEF Task
  <2>11. Served'
    BY <1>1, <1>2, <2>4, <2>6, <2>9, <2>10, SearchGoesOn
  <2>. QED
    BY <2>4, <2>11 DEF SearchesAreStopped
<1>. QED
  BY <1>5, <1>6

\* startFind failed.
LEMMA StartFailsGood ==
    ASSUME Served, NEW outcome \in Failures, StartFails(outcome)
    PROVE  Served' /\ SearchesAreStopped'
<1>1. /\ search.pc = "start" /\ open' \in {"no", "left"}
      /\ AfterSearch(outcome, <<>>)
  BY DEF StartFails
<1>2. <<>> \in Seq(People) /\ outcome # "ok"
  BY DEF Failures
<1>3. Served'
  BY <1>1, <1>2, AfterSearchGood
<1>. QED
  BY <1>1, <1>3 DEF SearchesAreStopped

\* doFind answered with as many records as asked for, or with fewer.
LEMMA DoAnsweredGood ==
    ASSUME Served, NEW n \in 0..Count, DoAnswered(n)
    PROVE  Served' /\ SearchesAreStopped'
<1>. DEFINE held == Held(task, search.source)
            o == task.offset
            size == MaxToFetch(Len(held), o, task.limit)
            clean == task.clean /\ n = Count
<1>1. search.pc = "do" /\ task' = [task EXCEPT !.clean = clean]
      /\ UNCHANGED <<open, reply, session>>
  BY DEF DoAnswered
<1>2. /\ task \in Task /\ search \in Search /\ Searching(task, search)
      /\ o \in Nat /\ task.limit \in Nat \ {0} /\ task.clean \in BOOLEAN
      /\ held \in Seq(People)
  BY <1>1, SearchIs
<1>3. Reading(search, held, o, task.limit, task.clean)
  BY <1>1, <1>2 DEF Searching
<1>4. /\ search.at \in Nat /\ search.end \in Nat /\ search.batch \in Nat
      /\ o <= search.at /\ search.at < search.end /\ search.end = o + size
      /\ search.out = SubSeq(held, o + 1, search.at) /\ search.outcome = "ok"
  BY <1>1, <1>2, <1>3 DEF Reading, Search
<1>5. Len(held) \in Nat /\ search.end <= Len(held)
  <2>1. Len(held) \in Nat
    BY <1>2
  <2>2. size \in Nat /\ (size # 0 => o + size <= Len(held))
    BY <1>2, <2>1, MaxToFetchIs
  <2>. HIDE DEF size, held
  <2>. QED
    BY <1>2, <1>4, <2>1, <2>2
<1>6. n \in Nat /\ search.at + n <= search.end /\ Count \in Nat
  <2>1. search.batch \in Int /\ search.end - search.at \in Int
    BY <1>4
  <2>2. Count = IF search.batch <= search.end - search.at THEN search.batch
                ELSE search.end - search.at
    BY <2>1, MinOfTwo DEF Count
  <2>3. /\ search.at \in Nat /\ search.end \in Nat /\ search.batch \in Nat
        /\ search.at < search.end
    BY <1>4
  <2>4. Count \in Nat /\ search.at + Count <= search.end
    BY <2>2, <2>3
  <2>. QED
    BY <2>3, <2>4
<1>. DEFINE more == SubSeq(held, search.at + 1, search.at + n)
            pc == IF n < Count \/ search.at + n = search.end THEN "stop" ELSE "do"
<1>7. search' = [search EXCEPT !.at = search.at + n, !.out = search.out \o more, !.pc = pc]
  BY <1>2 DEF DoAnswered, Collected, Search
<1>8. search.out \o more = SubSeq(held, o + 1, search.at + n)
  <2>0. /\ o \in Nat /\ search.at \in Nat /\ search.end \in Nat /\ n \in Nat /\ Len(held) \in Nat
        /\ o <= search.at /\ search.at + n <= search.end /\ search.at < search.end
        /\ search.end <= Len(held)
    BY <1>2, <1>4, <1>5, <1>6
  <2>1. /\ o + 1 \in 1..(Len(held) + 1) /\ search.at \in ((o + 1) - 1)..Len(held)
        /\ search.at + n \in search.at..Len(held)
    <3>. HIDE DEF held
    <3>. QED
      BY <2>0
  <2>2. SubSeq(held, o + 1, search.at) \o SubSeq(held, search.at + 1, search.at + n)
          = SubSeq(held, o + 1, search.at + n)
    BY <1>2, <2>1, ConcatAdjacentSubSeq
  <2>. QED
    BY <1>4, <2>2
<1>9. search.out \o more \in Seq(People)
  <2>1. \A i \in (search.at + 1)..(search.at + n) : held[i] \in People
    BY <1>2, <1>4, <1>5, <1>6
  <2>2. more \in Seq(People)
    BY <1>4, <1>6, <2>1, SubSeqProperties
  <2>. QED
    BY <1>2, <2>2 DEF Search
<1>. HIDE DEF more, pc, clean, held, size
<1>10. pc \in {"do", "stop"}
  BY DEF pc
<1>11. search' \in Search
  <2>1. search.at + n \in Nat
    BY <1>4, <1>6
  <2>. QED
    BY <1>2, <1>7, <1>9, <1>10, <2>1 DEF Search
<1>12. /\ search'.pc = pc /\ search'.at = search.at + n /\ search'.end = search.end
       /\ search'.batch = search.batch /\ search'.out = search.out \o more
       /\ search'.outcome = search.outcome /\ search'.source = search.source
  BY <1>2, <1>7 DEF Search
<1>13. Reading(search', held, o, task.limit, clean)
  <2>1. o <= search'.at /\ search'.at <= search'.end /\ search'.end = o + size
    BY <1>2, <1>4, <1>6, <1>12
  <2>2. search'.out = SubSeq(held, o + 1, search'.at)
    BY <1>8, <1>12
  <2>3. search'.pc = "do" => search'.at < search'.end /\ search'.batch # 0 /\ search'.outcome = "ok"
    <3>1. search.batch # 0
      BY <1>1, <1>3 DEF Reading
    <3>2. pc = "do" => search.at + n # search.end
      BY DEF pc
    <3>3. /\ search.at + n \in Nat /\ search.end \in Nat /\ search.at + n <= search.end
          /\ search.outcome = "ok"
      BY <1>4, <1>6
    <3>4. pc = "do" => search.at + n < search.end
      BY <3>2, <3>3
    <3>. HIDE DEF pc
    <3>. QED
      BY <1>12, <3>1, <3>3, <3>4
  <2>4. search'.pc = "stop" /\ clean => search'.at = search'.end
    BY <1>6, <1>12 DEF pc, clean
  <2>. QED
    BY <2>1, <2>2, <2>3, <2>4 DEF Reading, size
<1>14. clean \in BOOLEAN /\ (clean => task.clean)
  BY DEF clean
<1>15. Searching(task', search')
  <2>. DEFINE u == [task EXCEPT !.clean = clean]
  <2>1. /\ u.dev = task.dev /\ u.kind = task.kind /\ u.offset = task.offset
        /\ u.limit = task.limit /\ u.clean = clean
    BY <1>2 DEF Task
  <2>2. task' = u
    BY <1>1
  <2>. HIDE DEF u
  <2>3. Held(u, search'.source) = held
    BY <1>12, <2>1 DEF Held, held
  <2>4. task.dev \in Devices
    BY <1>2 DEF Searching
  <2>. QED
    BY <1>10, <1>12, <1>13, <2>1, <2>2, <2>3, <2>4 DEF Searching, pc
<1>16. Served'
  BY <1>1, <1>11, <1>12, <1>14, <1>15, SearchGoesOn
<1>. QED
  BY <1>10, <1>12, <1>16 DEF SearchesAreStopped

\* doFind failed: the search is stopped all the same.
LEMMA DoFailsGood ==
    ASSUME Served, NEW outcome \in Failures, DoFails(outcome)
    PROVE  Served' /\ SearchesAreStopped'
<1>1. /\ search.pc = "do" /\ search' = [search EXCEPT !.pc = "stop", !.outcome = outcome]
      /\ UNCHANGED <<task, open, reply, session>>
  BY DEF DoFails
<1>2. /\ task \in Task /\ search \in Search /\ Searching(task, search)
      /\ task.clean \in BOOLEAN
  BY <1>1, SearchIs
<1>3. /\ search'.pc = "stop" /\ search'.outcome = outcome /\ search'.at = search.at
      /\ search'.end = search.end /\ search'.out = search.out /\ search'.source = search.source
      /\ search' \in Search /\ outcome # "ok"
  BY <1>1, <1>2 DEF Search, Failures
<1>4. Searching(task', search')
  BY <1>1, <1>2, <1>3 DEF Searching, Reading
<1>5. task' = [task EXCEPT !.clean = task.clean]
  BY <1>1, <1>2 DEF Task
<1>6. Served'
  BY <1>1, <1>2, <1>3, <1>4, <1>5, SearchGoesOn
<1>. QED
  BY <1>3, <1>6 DEF SearchesAreStopped

\* stopFind, answered or not, ends the search.
LEMMA StoppedGood ==
    ASSUME Served, NEW failed \in BOOLEAN, Stopped(failed)
    PROVE  Served' /\ SearchesAreStopped'
<1>. DEFINE records == IF search.outcome = "ok" THEN search.out ELSE <<>>
<1>1. search.pc = "stop" /\ open' # "open" /\ AfterSearch(search.outcome, records)
  BY DEF Stopped
<1>2. /\ task \in Task /\ search \in Search /\ Searching(task, search)
      /\ task.offset \in Nat /\ task.limit \in Nat /\ task.clean \in BOOLEAN
      /\ Held(task, search.source) \in Seq(People)
      /\ IsInjective(Held(task, search.source))
  BY <1>1, SearchIs
<1>3. search.outcome \in {"ok"} \cup Failures /\ search.out \in Seq(People) /\ <<>> \in Seq(People)
  BY <1>2 DEF Search
<1>4. Reading(search, Held(task, search.source), task.offset, task.limit, task.clean)
  BY <1>1, <1>2 DEF Searching
<1>5. search.outcome = "ok" => IsPage(records, Held(task, search.source),
                                      task.offset, task.limit, task.clean)
  BY <1>1, <1>2, <1>4, ReadPage
<1>6. records \in Seq(People)
  BY <1>3
<1>. HIDE DEF records
<1>7. Served'
  BY <1>1, <1>3, <1>5, <1>6, AfterSearchGood
<1>. QED
  BY <1>1, <1>7 DEF SearchesAreStopped

-----------------------------------------------------------------------------
(* Photos, and the pages of the DS *)

\* A photo that is asked for, or refused.
LEMMA GetPhotoGood ==
    ASSUME Quiet, search = NoSearch, NEW d \in Devices, GetPhoto(d)
    PROVE  Served' /\ search'.pc = "none" /\ open' = open
<1>. DEFINE t == [Idle EXCEPT !.kind = "photo", !.asked = {d}, !.dev = d]
<1>1. /\ IF lease[d] = "valid" THEN task' = t /\ UNCHANGED <<search, reply, session>>
                               ELSE Respond(t, Refusal(d))
      /\ open' = open
  BY DEF GetPhoto
<1>2. t \in Task /\ t.kind = "photo" /\ ~t.page
  BY IdleTypes DEF Task, Idle
<1>. HIDE DEF t
<1>3. CASE lease[d] = "valid"
  <2>1. search' = NoSearch /\ search' \in Search /\ search'.pc = "none"
    BY <1>1, <1>3, IdleTypes DEF NoSearch
  <2>. QED
    BY <1>1, <1>2, <1>3, <2>1, GoesOn
<1>4. CASE lease[d] # "valid"
  <2>1. Refusal(d) \in {404, 500} /\ Right(t, Refusal(d)) /\ Respond(t, Refusal(d))
    BY <1>1, <1>2, <1>4 DEF Refusal, Right
  <2>. QED
    BY <1>1, <1>2, <2>1, RespondGood DEF Quiet
<1>. QED
  BY <1>3, <1>4

\* The terminal's answer to a photo.
LEMMA PhotoAnsweredGood ==
    ASSUME Served, NEW faces \in Faces, PhotoAnswered(faces)
    PROVE  Served' /\ search'.pc = "none" /\ open' = open /\ search = NoSearch
<1>1. task.kind = "photo" /\ Respond(task, PhotoStatus(faces)) /\ open' = open
  BY DEF PhotoAnswered
<1>2. /\ task \in Task /\ search = NoSearch /\ ~task.page
      /\ session \in Session /\ SessionGood(session)
  BY <1>1 DEF Served
<1>3. PhotoStatus(faces) \in {200, 404, 502}
  BY DEF PhotoStatus, Faces
<1>4. Right(task, PhotoStatus(faces))
  BY <1>1, <1>2 DEF Right
<1>. QED
  BY <1>1, <1>2, <1>3, <1>4, RespondGood

\* The DS begins to page through a terminal.
LEMMA OpenSessionGood ==
    ASSUME Served, NEW d \in Devices, NEW n \in PageSizes, NEW cards \in BOOLEAN,
           OpenSession(d, n, cards)
    PROVE  Served' /\ UNCHANGED <<search, open>>
<1>. DEFINE u == [NoSession EXCEPT !.dev = d, !.limit = n, !.cards = cards, !.done = FALSE]
<1>1. /\ task.kind = "idle" /\ session' = u /\ UNCHANGED <<task, search, open, reply>>
  BY DEF OpenSession, Ready
<1>2. /\ u.dev = d /\ u.limit = n /\ u.cards = cards /\ u.done = FALSE /\ u.offset = 0
      /\ u.rows = {}
  BY DEF NoSession
<1>3. n \in Nat
  BY ReadConstants
<1>4. u \in Session
  BY <1>3 DEF NoSession, Session
<1>. HIDE DEF u
<1>5. PagesSoFar(u)
  <2>1. /\ \A i \in DOMAIN UsersOn[d] : ~(i <= 0)
        /\ \A i \in DOMAIN CardsOn[d] : ~(i <= 0)
    <3>1. UsersOn[d] \in Seq(People) /\ CardsOn[d] \in Seq(People)
      BY ReadConstants
    <3>. QED
      BY <3>1
  <2>. QED
    BY <1>2, <2>1 DEF PagesSoFar
<1>6. SessionGood(u)
  BY <1>2, <1>5 DEF SessionGood
<1>7. FindIsRight' /\ OneResultPerTarget'
  BY <1>1 DEF Served, FindIsRight, OneResultPerTarget
<1>. QED
  BY <1>1, <1>4, <1>6, <1>7 DEF Served

\* The DS takes its reply.
LEMMA ReceivedGood ==
    ASSUME Served, Received
    PROVE  Served' /\ search' = search /\ open' = "no"
<1>1. /\ reply # NoReply /\ reply' = NoReply /\ open' = "no" /\ UNCHANGED <<task, search>>
      /\ session' = IF session.done THEN NoSession ELSE session
  BY DEF Received
<1>2. task \in Task /\ search \in Search /\ task.kind = "idle" /\ task = Idle /\ search = NoSearch
  BY <1>1 DEF Served
<1>3. NoSession \in Session /\ NoSession.done /\ NoSession.dev \notin Devices
  BY ReadConstants DEF NoSession, Session
<1>4. session' \in Session /\ SessionGood(session')
  <2>1. SessionGood(NoSession)
    BY <1>3 DEF SessionGood
  <2>. QED
    BY <1>1, <1>3, <2>1 DEF Served
<1>5. reply' \in Reply /\ reply'.kind = "none"
  BY <1>1 DEF NoReply, Reply
<1>6. FindIsRight' /\ OneResultPerTarget'
  BY <1>5 DEF FindIsRight, OneResultPerTarget
<1>. QED
  BY <1>1, <1>2, <1>4, <1>5, <1>6 DEF Served

-----------------------------------------------------------------------------
(* The invariant *)

\* The invariant holds before anything is asked.
LEMMA ReadInvInit == ReadInit => ReadInv
<1>. SUFFICES ASSUME ReadInit
              PROVE  ReadInv
  OBVIOUS
<1>1. /\ task = Idle /\ search = NoSearch /\ open = "no" /\ reply = NoReply
      /\ session = NoSession
  BY DEF ReadInit
<1>2. task \in Task /\ search \in Search /\ task.kind = "idle"
  BY <1>1, IdleTypes DEF Idle
<1>3. reply \in Reply /\ reply.kind = "none"
  BY <1>1 DEF NoReply, Reply
<1>4. NoSession \in Session /\ NoSession.done /\ NoSession.dev \notin Devices
  BY ReadConstants DEF NoSession, Session
<1>5. FindIsRight /\ OneResultPerTarget /\ SearchesAreStopped
  BY <1>1, <1>3 DEF FindIsRight, OneResultPerTarget, SearchesAreStopped
<1>. QED
  BY <1>1, <1>2, <1>3, <1>4, <1>5 DEF ReadInv, Served, SessionGood

\* Every step of the services keeps it.
LEMMA ReadInvNext == ReadInv /\ ReadNext => ReadInv'
<1>. SUFFICES ASSUME ReadInv, ReadNext
              PROVE  ReadInv'
  OBVIOUS
<1>1. Served /\ SearchesAreStopped
  BY DEF ReadInv
<1>2. Ready => Quiet /\ search = NoSearch
  BY <1>1 DEF Ready, Served, Quiet
<1>3. search = NoSearch => open # "open"
  BY <1>1 DEF SearchesAreStopped, NoSearch
<1>4. ASSUME Served', search'.pc \in {"none", "start"}, open' = open, search = NoSearch
      PROVE  ReadInv'
  BY <1>3, <1>4 DEF ReadInv, SearchesAreStopped
<1>5. ASSUME NEW d \in Devices, NEW n \in PageSizes, Find(d, n)
      PROVE  ReadInv'
  <2>1. Ready
    BY <1>5 DEF Find
  <2>. QED
    BY <1>2, <1>4, <1>5, <2>1, FindStarts
<1>6. ASSUME NEW targets \in {Assigned, Devices}, NEW n \in PageSizes, NEW cards \in BOOLEAN,
             Export(targets, n, 0, cards, FALSE)
      PROVE  ReadInv'
  <2>1. Ready
    BY <1>6 DEF Export
  <2>2. targets \in SUBSET Devices
    BY <1>6 DEF Assigned
  <2>3. Served' /\ search'.pc = "none" /\ open' = open
    BY <1>2, <1>6, <2>1, <2>2, ExportStarts
  <2>. QED
    BY <1>2, <1>4, <2>1, <2>3
<1>7. ASSUME NEW d \in Devices, GetPhoto(d)
      PROVE  ReadInv'
  <2>1. Ready
    BY <1>7 DEF GetPhoto
  <2>. QED
    BY <1>2, <1>4, <1>7, <2>1, GetPhotoGood
<1>8. ASSUME NEW d \in Devices, NEW n \in PageSizes, NEW cards \in BOOLEAN,
             OpenSession(d, n, cards)
      PROVE  ReadInv'
  <2>1. Served' /\ UNCHANGED <<search, open>>
    BY <1>1, <1>8, OpenSessionGood
  <2>. QED
    BY <1>1, <2>1 DEF ReadInv, SearchesAreStopped
<1>9. CASE ExportPage
  <2>1. /\ ~session.done
        /\ Export({session.dev}, session.limit, session.offset, session.cards, TRUE)
    BY <1>9 DEF ExportPage
  <2>2. Ready
    BY <2>1 DEF Export
  <2>3. /\ session.dev \in Devices /\ session.limit \in PageSizes
        /\ session.offset \in Nat /\ session.cards \in BOOLEAN
    BY <1>1, <2>1 DEF Served, SessionGood, Session
  <2>4. {session.dev} \in SUBSET Devices
    BY <2>3
  <2>5. Served' /\ search'.pc = "none" /\ open' = open
    BY <1>2, <2>1, <2>2, <2>3, <2>4, ExportStarts
  <2>. QED
    BY <1>2, <1>4, <2>2, <2>5
<1>10. CASE OpenDevice
  <2>1. task.kind = "export" /\ task.dev = "none" /\ "none" \notin Devices
    BY <1>10, ReadConstants DEF OpenDevice
  <2>2. Quiet /\ task \in Task /\ ExportGood(task, search, session)
    BY <1>1, <2>1 DEF Served, Quiet
  <2>3. search = NoSearch
    BY <2>1, <2>2 DEF ExportGood, Searching
  <2>. QED
    BY <1>4, <1>10, <2>2, <2>3, OpenDeviceGood
<1>11. CASE Answered
  <2>1. ASSUME NEW faces \in Faces, PhotoAnswered(faces)
        PROVE  ReadInv'
    BY <1>1, <1>4, <2>1, PhotoAnsweredGood
  <2>2. ASSUME NEW caps \in CapsGiven, StartAnswered(caps)
        PROVE  ReadInv'
    BY <1>1, <2>2, StartAnsweredGood DEF ReadInv
  <2>3. ASSUME NEW n \in 0..Count, DoAnswered(n)
        PROVE  ReadInv'
    BY <1>1, <2>3, DoAnsweredGood DEF ReadInv
  <2>4. ASSUME NEW outcome \in Failures, StartFails(outcome)
        PROVE  ReadInv'
    BY <1>1, <2>4, StartFailsGood DEF ReadInv
  <2>5. ASSUME NEW outcome \in Failures, DoFails(outcome)
        PROVE  ReadInv'
    BY <1>1, <2>5, DoFailsGood DEF ReadInv
  <2>6. ASSUME NEW failed \in BOOLEAN, Stopped(failed)
        PROVE  ReadInv'
    BY <1>1, <2>6, StoppedGood DEF ReadInv
  <2>. QED
    BY <1>11, <2>1, <2>2, <2>3, <2>4, <2>5, <2>6 DEF Answered
<1>12. CASE Received
  <2>1. Served' /\ open' = "no"
    BY <1>1, <1>12, ReceivedGood
  <2>. QED
    BY <2>1 DEF ReadInv, SearchesAreStopped
<1>. QED
  BY <1>5, <1>6, <1>7, <1>8, <1>9, <1>10, <1>11, <1>12 DEF ReadNext

\* It holds in every state, whatever else is asked and whatever the leases change.
LEMMA ReadInvariant == Spec => []ReadInv
<1>1. Init => ReadInv
  BY ReadInvInit DEF Init
<1>2. ReadInv /\ [Next]_vars => ReadInv'
  <2>1. ASSUME ReadInv, UNCHANGED readVars
        PROVE  ReadInv'
    <3>1. /\ task' = task /\ search' = search /\ open' = open /\ reply' = reply
          /\ session' = session
      BY <2>1 DEF readVars
    <3>. QED
      BY <2>1, <3>1 DEF ReadInv, Served, FindIsRight, OneResultPerTarget, SearchesAreStopped
  <2>2. [Next]_vars => ReadNext \/ UNCHANGED readVars
    BY DEF Next, Events, Reads, Assigns, vars
  <2>. QED
    BY <2>1, <2>2, ReadInvNext
<1>. QED
  BY <1>1, <1>2, PTL DEF Spec

-----------------------------------------------------------------------------
(* Theorems *)

\* The types of a request, of its search and of its reply: a search belongs to a find
\* or to an export of one terminal, reads no further than what the terminal holds (or
\* the offset, where this lies beyond), and keeps at most the limit (runAccessFind).
THEOREM ReadTypeCorrect == Spec => []ReadTypeOK
<1>1. ReadInv => ReadTypeOK
  <2>. SUFFICES ASSUME ReadInv
                PROVE  ReadTypeOK
    OBVIOUS
  <2>1. Served
    BY DEF ReadInv
  <2>2. /\ task \in Task /\ search \in Search /\ reply \in Reply /\ session \in Session
        /\ SessionGood(session)
    BY <2>1 DEF Served
  <2>3. /\ task.kind \in {"idle", "find", "export", "photo"}
        /\ task.dev \in Devices \cup {"none"} /\ search.pc \in {"none", "start", "do", "stop"}
        /\ reply.status \in {0, 200, 404, 500, 502}
    BY <2>2 DEF Task, Search, Reply
  <2>4. search.pc # "none" => task.kind \in {"find", "export"} /\ task.dev \in Devices
    BY <2>1, SearchIs DEF Searching
  <2>5. task.kind = "find" => search.pc # "none"
    BY <2>1 DEF Served, FindGood, Searching
  <2>6. ~session.done => session.dev \in Devices
    BY <2>2 DEF SessionGood
  <2>7. ASSUME search.pc \in {"do", "stop"}
        PROVE  /\ search.at <= search.end
               /\ search.end <= Max({Len(Held(task, search.source)), task.offset})
               /\ Len(search.out) <= task.limit
    <3>. DEFINE held == Held(task, search.source)
                o == task.offset
                size == MaxToFetch(Len(held), o, task.limit)
    <3>1. /\ Searching(task, search) /\ held \in Seq(People) /\ o \in Nat
          /\ task.limit \in Nat
      BY <2>1, <2>7, SearchIs
    <3>2. /\ o <= search.at /\ search.at <= search.end /\ search.end = o + size
          /\ search.out = SubSeq(held, o + 1, search.at)
      BY <2>7, <3>1 DEF Searching, Reading
    <3>3. Len(held) \in Nat
      BY <3>1
    <3>4. size \in Nat /\ size <= task.limit /\ (size # 0 => o + size <= Len(held))
      BY <3>1, <3>3, MaxToFetchIs
    <3>5. search.at \in Nat
      BY <2>2 DEF Search
    <3>6. Len(held) \in Int /\ o \in Int
      BY <3>1, <3>3
    <3>7. Max({Len(held), o}) = IF Len(held) >= o THEN Len(held) ELSE o
      BY <3>6, MaxOfTwo
    <3>. HIDE DEF held, size
    <3>8. search.end <= Max({Len(held), o})
      BY <3>1, <3>2, <3>3, <3>4, <3>7
    <3>9. Len(search.out) = IF o + 1 <= search.at THEN search.at - o ELSE 0
      <4>1. o + 1 \in Int /\ search.at \in Int
        BY <3>1, <3>5
      <4>2. \A i \in (o + 1)..search.at : held[i] \in People
        BY <3>1, <3>2, <3>3, <3>4, <3>5
      <4>3. Len(SubSeq(held, o + 1, search.at))
              = IF o + 1 <= search.at THEN search.at - (o + 1) + 1 ELSE 0
        BY <4>1, <4>2, SubSeqProperties
      <4>4. search.at - (o + 1) + 1 = search.at - o
        BY <3>1, <3>5
      <4>. QED
        BY <3>2, <4>3, <4>4
    <3>10. Len(search.out) <= task.limit
      <4>1. /\ o \in Nat /\ search.at \in Nat /\ size \in Nat /\ task.limit \in Nat
            /\ search.at <= o + size /\ size <= task.limit
        BY <3>1, <3>2, <3>4, <3>5
      <4>2. (IF o + 1 <= search.at THEN search.at - o ELSE 0) <= task.limit
        BY <4>1
      <4>. QED
        BY <3>9, <4>2
    <3>. QED
      BY <3>2, <3>8, <3>10 DEF held
  <2>. QED
    BY <2>3, <2>4, <2>5, <2>6, <2>7 DEF ReadTypeOK
<1>. QED
  BY <1>1, ReadInvariant, PTL

\* A search that told its token is stopped before the request goes on, whatever call of
\* it failed (the finally block of runAccessFind).
THEOREM TokensAreGivenBack == Spec => []SearchesAreStopped
<1>1. ReadInv => SearchesAreStopped
  BY DEF ReadInv
<1>. QED
  BY <1>1, ReadInvariant, PTL

\* A find returns what it was asked for, none twice, and misses only what a source could
\* not give or what was cut before it was compared (find, toMatches).
THEOREM FindsAreRight == Spec => []FindIsRight
<1>1. ReadInv => FindIsRight
  BY DEF ReadInv, Served
<1>. QED
  BY <1>1, ReadInvariant, PTL

\* An export gives one result for each device asked for, whatever the leases do to the
\* assignments while it runs (exportUsers, exportFromAssignment).
THEOREM ResultsMatchTargets == Spec => []OneResultPerTarget
<1>1. ReadInv => OneResultPerTarget
  BY DEF ReadInv, Served
<1>. QED
  BY <1>1, ReadInvariant, PTL

\* Paging through a terminal to the end gives every user once, and every card when
\* asked for cards (mergeUsersAndCards, runAccessFind).
THEOREM PagesAreComplete == Spec => []PagesCoverUsers
<1>1. ReadInv => PagesCoverUsers
  <2>. SUFFICES ASSUME ReadInv, session.done, session.clean, NEW d \in Devices, d = session.dev
                PROVE  /\ \A p \in People :
                             Cardinality({r \in session.rows : r[2].person = p /\ r[2].user})
                               = (IF p \in ToSet(UsersOn[d]) THEN 1 ELSE 0)
                       /\ session.cards =>
                             {r[2].person : r \in {q \in session.rows : q[2].card}}
                               = ToSet(CardsOn[d])
    BY DEF PagesCoverUsers
  <2>1. SessionGood(session)
    BY DEF ReadInv, Served
  <2>2. /\ PagesSoFar(session)
        /\ \A i \in DOMAIN UsersOn[d] : i <= session.offset
        /\ session.cards => \A i \in DOMAIN CardsOn[d] : i <= session.offset
    BY <2>1 DEF SessionGood
  <2>3. ASSUME NEW p \in People
        PROVE  Cardinality({r \in session.rows : r[2].person = p /\ r[2].user})
                 = (IF p \in ToSet(UsersOn[d]) THEN 1 ELSE 0)
    <3>. DEFINE mine == {r \in session.rows : r[2].person = p /\ r[2].user}
    <3>1. mine = Mine(session.rows, p)
      BY DEF Mine
    <3>. HIDE DEF mine
    <3>2. CASE p \in ToSet(UsersOn[d])
      <4>1. PICK i \in DOMAIN UsersOn[d] : UsersOn[d][i] = p
        BY <3>2 DEF ToSet
      <4>2. \E r \in session.rows : Mine(session.rows, p) = {r}
        BY <2>2, <4>1 DEF PagesSoFar
      <4>. QED
        BY <3>1, <3>2, <4>2, FS_Singleton DEF mine
    <3>3. CASE p \notin ToSet(UsersOn[d])
      <4>1. \A x \in session.rows : x[2].user => x[2].person \in ToSet(UsersOn[d])
        BY <2>2 DEF PagesSoFar, ToSet
      <4>2. mine = {}
        BY <3>1, <3>3, <4>1 DEF Mine
      <4>. QED
        BY <3>3, <4>2, FS_EmptySet DEF mine
    <3>. QED
      BY <3>2, <3>3
  <2>4. ASSUME session.cards
        PROVE  {r[2].person : r \in {q \in session.rows : q[2].card}} = ToSet(CardsOn[d])
    <3>1. \A x \in session.rows : x[2].card => x[2].person \in ToSet(CardsOn[d])
      BY <2>2 DEF PagesSoFar, ToSet
    <3>2. \A p \in ToSet(CardsOn[d]) : \E x \in session.rows : x[2].card /\ x[2].person = p
      BY <2>2, <2>4 DEF PagesSoFar, ToSet
    <3>. QED
      BY <3>1, <3>2
  <2>. QED
    BY <2>3, <2>4
<1>. QED
  BY <1>1, ReadInvariant, PTL
=============================================================================
