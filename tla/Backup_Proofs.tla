---------------------------- MODULE Backup_Proofs ----------------------------
(***************************************************************************)
(* Proofs about Backup.  The invariants build on each other: where the     *)
(* commands are (Placed) first, then what each property needs besides.     *)
(***************************************************************************)
EXTENDS Backup, FiniteSetTheorems, TLAPS

Changes == SUBSET (1..MaxChanges)

\* The steps of the adapter and the operator, and of each command.
AdapterStep == Commit \/ Checkpoint \/ Stop \/ Start \/ Edit
CreateStep ==
    \/ \E mode \in Modes, opts \in SUBSET Optional : CreateBackup(mode, opts)
    \/ \E p \in Parts : CopyFile(p)
    \/ WriteManifest \/ WriteChecksums \/ CreateDies
PruneStep ==
    \/ \E trim \in BOOLEAN : PruneBackups(trim)
    \/ \E b \in Ids : RemoveFile(b) \/ RemoveManifest(b) \/ TrimLogs(b)
    \/ TrimManifest \/ TrimChecksums \/ PruneEnds \/ PruneDies
RestoreStep ==
    \/ \E b \in Ids : RestoreBackup(b)
    \/ \E s \in Sections : CopySection(s)
    \/ CreateSafetyCopy \/ RemoveTarget \/ PutLogsBack
    \/ RestoreDies \/ RestoreEnds

\* Where the commands are.
Placed ==
    /\ up => restore.pc = "idle" /\ "db" \in DOMAIN inst
    /\ \A b \in Ids : b > newest => bundles[b] = NoBundle
    /\ create.pc = "idle" => create.id = 0
    /\ create.pc # "idle" =>
         /\ newest # 0 /\ create.id = newest
         /\ bundles[newest].sums = NoSums
         /\ create.id \notin prune.doomed \cup prune.trims
    /\ create.pc = "copy" => bundles[newest].man = NoManifest
    /\ prune.doomed \cup prune.trims \subseteq 1..newest
    /\ prune.pc = "idle" => prune = PruneIdle
    /\ prune.pc = "remove" /\ prune.id # 0 => prune.id \in prune.doomed
    /\ prune.pc \in {"manifest", "sums"} =>
         prune.doomed = {} /\ prune.id \in Readable \ {create.id}
    /\ restore.pc # "idle" => restore.id \in (1..newest) \ {create.id}

Shape == TypeOK /\ Placed

\* The states of prune when n bundles have been made.
Pruning(n) == [pc : {"idle", "remove", "manifest", "sums"}, id : 0..n,
               doomed : SUBSET (1..n), trims : SUBSET (1..n)]

-----------------------------------------------------------------------------
(* Files *)

\* A directory is a function from some of the parts to their content.
LEMMA FilesAre ==
    ASSUME NEW f
    PROVE  f \in Files <=> DOMAIN f \subseteq Parts /\ f \in [DOMAIN f -> Changes]
<1>1. ASSUME f \in Files
      PROVE  DOMAIN f \subseteq Parts /\ f \in [DOMAIN f -> Changes]
  <2>1. PICK P \in SUBSET Parts : f \in [P -> Changes]
    BY <1>1 DEF Files, Changes
  <2>. QED
    BY <2>1
<1>2. ASSUME DOMAIN f \subseteq Parts, f \in [DOMAIN f -> Changes]
      PROVE  f \in Files
  BY <1>2 DEF Files, Changes
<1>. QED
  BY <1>1, <1>2

\* A file that is written is there, and the others are as they were.
LEMMA WrittenIs ==
    ASSUME NEW f \in Files, NEW p \in Parts, NEW c \in Changes
    PROVE  /\ Written(f, p, c) \in Files
           /\ DOMAIN Written(f, p, c) = DOMAIN f \cup {p}
           /\ Written(f, p, c)[p] = c
           /\ \A q \in DOMAIN f \ {p} : Written(f, p, c)[q] = f[q]
<1>1. DOMAIN f \subseteq Parts /\ f \in [DOMAIN f -> Changes]
  BY FilesAre
<1>2. DOMAIN Written(f, p, c) = DOMAIN f \cup {p}
  BY DEF Written
<1>3. Written(f, p, c)[p] = c /\ \A q \in DOMAIN f \ {p} : Written(f, p, c)[q] = f[q]
  BY DEF Written
<1>4. Written(f, p, c) \in [DOMAIN f \cup {p} -> Changes]
  BY <1>1 DEF Written
<1>5. Written(f, p, c) \in Files
  BY <1>1, <1>2, <1>4, FilesAre
<1>. QED
  BY <1>2, <1>3, <1>5

\* The files that were copied are there, and the others are as they were.
LEMMA OverlayIs ==
    ASSUME NEW f \in Files, NEW g \in Files
    PROVE  /\ Overlay(f, g) \in Files
           /\ DOMAIN Overlay(f, g) = DOMAIN f \cup DOMAIN g
           /\ \A q \in DOMAIN g : Overlay(f, g)[q] = g[q]
           /\ \A q \in DOMAIN f \ DOMAIN g : Overlay(f, g)[q] = f[q]
<1>1. /\ DOMAIN f \subseteq Parts /\ f \in [DOMAIN f -> Changes]
      /\ DOMAIN g \subseteq Parts /\ g \in [DOMAIN g -> Changes]
  BY FilesAre
<1>2. DOMAIN Overlay(f, g) = DOMAIN f \cup DOMAIN g
  BY DEF Overlay
<1>3. /\ \A q \in DOMAIN g : Overlay(f, g)[q] = g[q]
      /\ \A q \in DOMAIN f \ DOMAIN g : Overlay(f, g)[q] = f[q]
  BY DEF Overlay
<1>4. Overlay(f, g) \in [DOMAIN f \cup DOMAIN g -> Changes]
  BY <1>1 DEF Overlay
<1>5. Overlay(f, g) \in Files
  BY <1>1, <1>2, <1>4, FilesAre
<1>. QED
  BY <1>2, <1>3, <1>5

\* The files that are left are as they were.
LEMMA RestrictIs ==
    ASSUME NEW f \in Files, NEW S \in SUBSET DOMAIN f
    PROVE  /\ Restrict(f, S) \in Files
           /\ DOMAIN Restrict(f, S) = S
           /\ \A q \in S : Restrict(f, S)[q] = f[q]
<1>1. DOMAIN f \subseteq Parts /\ f \in [DOMAIN f -> Changes]
  BY FilesAre
<1>2. DOMAIN Restrict(f, S) = S /\ \A q \in S : Restrict(f, S)[q] = f[q]
  BY DEF Restrict
<1>3. Restrict(f, S) \in [S -> Changes]
  BY <1>1 DEF Restrict
<1>4. Restrict(f, S) \in Files
  BY <1>1, <1>2, <1>3, FilesAre
<1>. QED
  BY <1>2, <1>4

\* An empty directory is one.
LEMMA NoFilesAreFiles == NoFiles \in Files /\ DOMAIN NoFiles = {}
<1>1. NoFiles \in [{} -> Changes] /\ DOMAIN NoFiles = {}
  BY DEF NoFiles
<1>. QED
  BY <1>1, FilesAre

\* A database recovers to a set of changes.
LEMMA RecoveredIs ==
    ASSUME NEW f \in Files, "db" \in DOMAIN f
    PROVE  Recovered(f) \in Changes
<1>1. f \in [DOMAIN f -> Changes]
  BY FilesAre
<1>. QED
  BY <1>1 DEF Recovered, Changes

\* A set that is observed grows by a member of the same kind.
LEMMA GrownIs ==
    ASSUME NEW S, NEW I, NEW f \in [I -> SUBSET S], NEW i, NEW st \in S
    PROVE  [f EXCEPT ![i] = f[i] \cup {st}] \in [I -> SUBSET S]
OBVIOUS

\* What a directory holds of a part.
LEMMA ContentIs ==
    ASSUME NEW f \in Files, NEW p \in DOMAIN f
    PROVE  p \in Parts /\ f[p] \in Changes
BY FilesAre

-----------------------------------------------------------------------------
(* Where the commands are *)

\* The checksums of a bundle with a manifest are not those of none.
LEMMA VerifiedHasSums ==
    ASSUME NEW b \in Ids, Verifies(b)
    PROVE  bundles[b].sums # NoSums
BY DEF Verifies, SumsMatch, Readable, NoSums

\* The newest bundle is never pruned.
LEMMA NewestStays ==
    ASSUME NEW n \in Nat, NEW B \in SUBSET (1..n), NEW keep \in Nat \ {0}
    PROVE  n \notin Beyond(B, keep) /\ Beyond(B, keep) \subseteq B
<1>1. Newer(B, n) = {}
  <2>1. \A c \in B : ~(c > n)
    OBVIOUS
  <2>. QED
    BY <2>1 DEF Newer
<1>2. Cardinality(Newer(B, n)) = 0
  BY <1>1, FS_EmptySet
<1>. QED
  BY <1>2 DEF Beyond

\* Neither the pruning of bundles nor that of logs is at the newest bundle.
LEMMA DoomedAreOlder ==
    ASSUME Shape
    PROVE  /\ Readable \subseteq 1..newest
           /\ newest \notin Doomed /\ Doomed \subseteq Readable
           /\ newest \notin Beyond(Readable \ Doomed, LogKeep)
           /\ Beyond(Readable \ Doomed, LogKeep) \subseteq Readable \ Doomed
<1>1. newest \in Nat /\ newest <= MaxBundles /\ MaxBundles \in Nat
  BY BackupConstants DEF Shape, TypeOK
<1>2. Readable \subseteq 1..newest
  <2>1. ASSUME NEW b \in Readable
        PROVE  b <= newest
    <3>1. bundles[b] # NoBundle /\ b \in Ids
      BY DEF Readable, NoBundle
    <3>. QED
      BY <1>1, <3>1 DEF Shape, Placed, Ids
  <2>. QED
    BY <1>1, <2>1 DEF Readable, Ids
<1>3. ASSUME NEW mode \in Modes
      PROVE  newest \notin Beyond(OfMode(mode), Keep(mode)) /\ Beyond(OfMode(mode), Keep(mode)) \subseteq Readable
  <2>1. OfMode(mode) \subseteq Readable /\ Keep(mode) \in Nat \ {0}
    BY BackupConstants DEF OfMode, Keep
  <2>. QED
    BY <1>1, <1>2, <2>1, NewestStays
<1>4. newest \notin Doomed /\ Doomed \subseteq Readable
  BY <1>3 DEF Doomed
<1>5. LogKeep \in Nat \ {0} /\ Readable \ Doomed \subseteq 1..newest
  BY <1>2, BackupConstants
<1>. QED
  BY <1>1, <1>2, <1>4, <1>5, NewestStays

\* Shape holds of an installation without bundles.
LEMMA ShapeInit == Init => Shape
<1>. SUFFICES ASSUME Init
              PROVE  Shape
  OBVIOUS
<1>1. inst \in Files
  <2>1. inst \in [Parts -> Changes] /\ DOMAIN inst = Parts
    BY BackupConstants DEF Init, Changes
  <2>. QED
    BY <2>1, FilesAre
<1>2. NoBundle \in Bundle
  BY NoFilesAreFiles DEF NoBundle, Bundle, NoSums, Sums
<1>3. TypeOK
  BY <1>1, <1>2, NoFilesAreFiles, BackupConstants DEF Init, TypeOK, CreateIdle, PruneIdle, RestoreIdle, Modes, Ids
<1>4. Placed
  BY BackupConstants DEF Init, Placed, CreateIdle, PruneIdle, RestoreIdle, Parts, Ids
<1>. QED
  BY <1>3, <1>4 DEF Shape

\* The adapter's steps leave the commands where they are.
LEMMA ShapeAdapter == Shape /\ AdapterStep => Shape'
<1>. SUFFICES ASSUME Shape, AdapterStep
              PROVE  TypeOK' /\ Placed'
  BY DEF Shape
<1>. USE DEF Shape
<1>0. /\ inst \in Files /\ DOMAIN inst \subseteq Parts
      /\ \A q \in DOMAIN inst : inst[q] \in Changes
      /\ last \in 1..MaxChanges /\ MaxChanges \in Nat
  BY FilesAre, BackupConstants DEF TypeOK
<1>o. ASSUME NEW st \in Changes
      PROVE  Observe(st) => during' \in [Ids -> SUBSET SUBSET (1..MaxChanges)]
  <2>1. during \in [Ids -> SUBSET Changes]
    BY DEF TypeOK, Changes
  <2>2. [during EXCEPT ![create.id] = during[create.id] \cup {st}] \in [Ids -> SUBSET Changes]
    BY <2>1, GrownIs
  <2>. QED
    BY <2>1, <2>2 DEF Observe, Changes
<1>a. ASSUME UNCHANGED <<bundles, newest, create, prune, restore>>,
             up' => restore.pc = "idle" /\ "db" \in DOMAIN inst'
      PROVE  Placed'
  BY <1>a DEF Placed, Readable
<1>b. ASSUME UNCHANGED <<bundles, newest, create, prune, restore, orphans>>,
             up' \in BOOLEAN, inst' \in Files, last' \in 1..MaxChanges,
             rotated' \subseteq Ids, during' \in [Ids -> SUBSET SUBSET (1..MaxChanges)]
      PROVE  TypeOK'
  BY <1>b DEF TypeOK
<1>1. CASE Commit
  <2>. DEFINE begin == "wal" \notin DOMAIN inst \/ inst["wal"] \subseteq inst["db"]
              wal == {last + 1} \cup (IF begin THEN {} ELSE inst["wal"])
              log == {last + 1} \cup (IF "logs" \in DOMAIN inst THEN inst["logs"] ELSE {})
  <2>1. /\ inst' = Written(Written(inst, "logs", log), "wal", wal)
        /\ rotated' = IF begin /\ CopiesNext("wal") THEN rotated \cup {create.id} ELSE rotated
        /\ up /\ last < MaxChanges /\ last' = last + 1
        /\ Observe(Recovered(inst'))
        /\ UNCHANGED <<up, bundles, newest, create, prune, restore, orphans>>
    BY <1>1 DEF Commit, jobs
  <2>2. wal \in Changes /\ log \in Changes /\ last' \in 1..MaxChanges
    <3>1. last' \in 1..MaxChanges /\ last + 1 = last'
      BY <1>0, <2>1
    <3>2. {last + 1} \in Changes
      BY <3>1 DEF Changes
    <3>3. \A a \in Changes : {last + 1} \cup a \in Changes
      BY <3>2 DEF Changes
    <3>4. \A S \in {"wal", "logs"} : S \in DOMAIN inst => inst[S] \in Changes
      BY <1>0
    <3>5. wal \in Changes /\ log \in Changes
      BY <3>2, <3>3, <3>4
    <3>. QED
      BY <3>1, <3>5
  <2>3. inst' \in Files /\ "db" \in DOMAIN inst'
    <3>1. /\ Written(inst, "logs", log) \in Files
          /\ DOMAIN Written(inst, "logs", log) = DOMAIN inst \cup {"logs"}
      <4>1. "logs" \in Parts
        BY DEF Parts
      <4>. HIDE DEF log
      <4>2. inst \in Files /\ log \in Changes
        BY <1>0, <2>2
      <4>. QED
        BY <4>1, <4>2, WrittenIs
    <3>2. "db" \in DOMAIN inst
      BY <2>1 DEF Placed
    <3>. HIDE DEF wal, log
    <3>. DEFINE f == Written(inst, "logs", log)
    <3>3. f \in Files /\ "db" \in DOMAIN f /\ inst' = Written(f, "wal", wal)
      BY <2>1, <3>1, <3>2
    <3>. HIDE DEF f
    <3>4. "wal" \in Parts
      BY DEF Parts
    <3>5. /\ Written(f, "wal", wal) \in Files
          /\ DOMAIN Written(f, "wal", wal) = DOMAIN f \cup {"wal"}
      BY <2>2, <3>3, <3>4, WrittenIs
    <3>. QED
      BY <3>3, <3>5
  <2>4. Recovered(inst') \in Changes
    BY <2>3, RecoveredIs
  <2>5. rotated' \subseteq Ids
    <3>1. create.id \in Ids \/ create.pc = "idle"
      BY DEF Placed, TypeOK, Ids
    <3>. QED
      BY <2>1, <3>1 DEF TypeOK, CopiesNext
  <2>6. during' \in [Ids -> SUBSET SUBSET (1..MaxChanges)]
    BY <2>1, <2>4, <1>o
  <2>. HIDE DEF begin, wal, log
  <2>7. up' \in BOOLEAN /\ (up' => restore.pc = "idle" /\ "db" \in DOMAIN inst')
    BY <2>1, <2>3 DEF TypeOK, Placed
  <2>. QED
    BY <2>1, <2>2, <2>3, <2>5, <2>6, <2>7, <1>a, <1>b
<1>2. CASE Checkpoint
  <2>1. up /\ "db" \in DOMAIN inst
    BY <1>2 DEF Checkpoint, Placed
  <2>2. Recovered(inst) \in Changes
    BY <1>0, <2>1, RecoveredIs
  <2>3. inst' \in Files /\ DOMAIN inst' = DOMAIN inst
    <3>1. inst \in [DOMAIN inst -> Changes]
      BY <1>0, FilesAre
    <3>2. inst' = [inst EXCEPT !["db"] = Recovered(inst)]
      BY <1>2 DEF Checkpoint
    <3>3. DOMAIN inst' = DOMAIN inst /\ inst' \in [DOMAIN inst -> Changes]
      BY <2>2, <3>1, <3>2
    <3>. QED
      BY <1>0, <3>3, FilesAre
  <2>. QED
    BY <1>2, <2>1, <2>3, <1>a, <1>b DEF Checkpoint, jobs, histories, TypeOK, Placed
<1>3. CASE Stop
  <2>1. up /\ "db" \in DOMAIN inst /\ ~up'
    BY <1>3 DEF Stop, Placed
  <2>2. Recovered(inst) \in Changes
    BY <1>0, <2>1, RecoveredIs
  <2>3. inst' \in Files
    <3>1. Restrict(inst, DOMAIN inst \ {"wal"}) \in Files
      BY <1>0, RestrictIs
    <3>2. Written(Restrict(inst, DOMAIN inst \ {"wal"}), "db", Recovered(inst)) \in Files
      BY <2>2, <3>1, WrittenIs DEF Parts
    <3>. QED
      BY <1>0, <1>3, <3>2 DEF Stop
  <2>. QED
    BY <1>3, <2>1, <2>3, <1>a, <1>b DEF Stop, jobs, histories, TypeOK
<1>4. CASE Start
  <2>1. inst' \in Files /\ "db" \in DOMAIN inst'
    <3>1. {} \in Changes /\ "db" \in Parts
      BY DEF Changes, Parts
    <3>2. /\ Written(inst, "db", {}) \in Files
          /\ DOMAIN Written(inst, "db", {}) = DOMAIN inst \cup {"db"}
      BY <1>0, <3>1, WrittenIs
    <3>. QED
      BY <1>0, <1>4, <3>2 DEF Start
  <2>2. during' \in [Ids -> SUBSET SUBSET (1..MaxChanges)]
    BY <1>4, <2>1, <1>o, RecoveredIs DEF Start
  <2>. QED
    BY <1>4, <2>1, <2>2, <1>a, <1>b DEF Start, jobs, TypeOK
<1>5. CASE Edit
  <2>1. {last + 1} \in Changes /\ last' \in 1..MaxChanges
    BY <1>0, <1>5 DEF Edit, Changes
  <2>2. inst' \in Files /\ DOMAIN inst' = DOMAIN inst \cup {"config"}
    BY <1>0, <1>5, <2>1, WrittenIs DEF Edit, Parts
  <2>. QED
    BY <1>5, <2>1, <2>2, <1>a, <1>b DEF Edit, jobs, histories, TypeOK, Placed
<1>. QED
  BY <1>1, <1>2, <1>3, <1>4, <1>5 DEF AdapterStep

\* What every bundle is made of.
LEMMA BundlesAre ==
    ASSUME Shape
    PROVE  /\ bundles \in [Ids -> Bundle]
           /\ \A b \in Ids : /\ bundles[b] \in Bundle
                             /\ bundles[b].files \in Files
                             /\ bundles[b].man \in Manifest \cup {NoManifest}
                             /\ bundles[b].sums \in Sums
           /\ \A b \in Ids : SumsOf(b) \in Sums
           /\ NoBundle \in Bundle
<1>1. bundles \in [Ids -> Bundle]
  BY DEF Shape, TypeOK
<1>2. ASSUME NEW b \in Ids
      PROVE  /\ bundles[b] \in Bundle
             /\ bundles[b].files \in Files
             /\ bundles[b].man \in Manifest \cup {NoManifest}
             /\ bundles[b].sums \in Sums
             /\ SumsOf(b) \in Sums
  BY <1>1 DEF Bundle, Sums, SumsOf
<1>3. NoBundle \in Bundle
  BY NoFilesAreFiles DEF NoBundle, Bundle, NoSums, Sums
<1>. QED
  BY <1>1, <1>2, <1>3

\* A bundle that changes in one part is still a bundle.
LEMMA BundleChanges ==
    ASSUME NEW B \in [Ids -> Bundle], NEW b \in Ids
    PROVE  /\ \A f \in Files : [B EXCEPT ![b].files = f] \in [Ids -> Bundle]
           /\ \A m \in Manifest \cup {NoManifest} : [B EXCEPT ![b].man = m] \in [Ids -> Bundle]
           /\ \A x \in Sums : [B EXCEPT ![b].sums = x] \in [Ids -> Bundle]
           /\ \A x \in Bundle : [B EXCEPT ![b] = x] \in [Ids -> Bundle]
BY DEF Bundle

\* What the create steps leave of the shape.
LEMMA ShapeOfCreate ==
    ASSUME Shape,
           UNCHANGED <<up, inst, last, prune, restore>>,
           newest' \in newest..MaxBundles,
           create' \in [pc : {"idle", "copy", "sums"}, id : 0..newest', mode : Modes,
                        opts : SUBSET Optional, todo : SUBSET Parts],
           bundles' \in [Ids -> Bundle],
           orphans' \subseteq Ids, rotated' \subseteq Ids,
           during' \in [Ids -> SUBSET SUBSET (1..MaxChanges)]
    PROVE  TypeOK'
<1>1. newest \in 0..MaxBundles /\ MaxBundles \in Nat
  BY BackupConstants DEF Shape, TypeOK
<1>2. 0..newest \subseteq 0..newest' /\ newest' \in 0..MaxBundles
  BY <1>1
<1>3. prune' \in [pc : {"idle", "remove", "manifest", "sums"}, id : 0..newest',
                  doomed : SUBSET Ids, trims : SUBSET Ids]
  BY <1>2 DEF Shape, TypeOK
<1>4. restore' \in [pc : {"idle", "safety", "remove", "copy", "done", "failed"},
                    runs : 0..MaxRestores, id : 0..newest', incl : SUBSET Sections,
                    todo : SUBSET Sections, had : Files, safe : Files]
  BY <1>2 DEF Shape, TypeOK
<1>. QED
  BY <1>2, <1>3, <1>4 DEF Shape, TypeOK

\* Every step of a creation keeps it.
LEMMA ShapeCreate == Shape /\ CreateStep => Shape'
<1>. SUFFICES ASSUME Shape, CreateStep
              PROVE  TypeOK' /\ Placed'
  BY DEF Shape
<1>0. /\ TypeOK /\ Placed
      /\ newest \in Nat /\ MaxBundles \in Nat /\ newest <= MaxBundles
      /\ newest # 0 => newest \in Ids
      /\ inst \in Files /\ DOMAIN inst \subseteq Parts
      /\ \A q \in DOMAIN inst : inst[q] \in Changes
  <2>1. TypeOK /\ Placed
    BY DEF Shape
  <2>2. newest \in 0..MaxBundles /\ inst \in Files
    BY <2>1 DEF TypeOK
  <2>3. MaxBundles \in Nat
    BY BackupConstants
  <2>4. newest \in Nat /\ newest <= MaxBundles /\ (newest # 0 => newest \in Ids)
    BY <2>2, <2>3 DEF Ids
  <2>5. DOMAIN inst \subseteq Parts /\ \A q \in DOMAIN inst : inst[q] \in Changes
    BY <2>2, FilesAre
  <2>. QED
    BY <2>1, <2>2, <2>3, <2>4, <2>5
<1>1. ASSUME NEW mode \in Modes, NEW opts \in SUBSET Optional, CreateBackup(mode, opts)
      PROVE  TypeOK' /\ Placed'
  <2>1. /\ create.pc = "idle" /\ create.id = 0 /\ "db" \in DOMAIN inst
        /\ newest < MaxBundles /\ newest' = newest + 1
        /\ newest' \in Ids /\ newest' \in newest..MaxBundles
    BY <1>0, <1>1 DEF CreateBackup, NextStamp, Placed, Ids
  <2>2. UNCHANGED <<up, inst, last, bundles, prune, restore, orphans, rotated>>
    BY <1>1 DEF CreateBackup
  <2>3. create' \in [pc : {"idle", "copy", "sums"}, id : 0..newest', mode : Modes,
                     opts : SUBSET Optional, todo : SUBSET Parts]
    <3>1. Listed(opts) \in SUBSET Parts
      BY <1>0 DEF Listed, Parts, Optional
    <3>2. create' = [pc |-> "copy", id |-> newest + 1, mode |-> mode, opts |-> opts,
                     todo |-> Listed(opts)]
      BY <1>1 DEF CreateBackup
    <3>3. newest + 1 \in 0..newest'
      BY <1>0, <2>1
    <3>. QED
      BY <3>1, <3>2, <3>3
  <2>4. during' \in [Ids -> SUBSET SUBSET (1..MaxChanges)]
    <3>1. Recovered(inst) \in Changes
      BY <1>0, <2>1, RecoveredIs
    <3>2. {Recovered(inst)} \in SUBSET SUBSET (1..MaxChanges)
      BY <3>1 DEF Changes
    <3>3. during' = [during EXCEPT ![newest + 1] = {Recovered(inst)}]
      BY <1>1 DEF CreateBackup
    <3>. QED
      BY <1>0, <3>2, <3>3 DEF TypeOK
  <2>5. TypeOK'
    BY <1>0, <2>1, <2>2, <2>3, <2>4, ShapeOfCreate DEF TypeOK
  <2>6. bundles[newest'] = NoBundle /\ newest' \notin Readable
    BY <1>0, <2>1 DEF Placed, NoBundle, Readable
  <2>7. create'.pc = "copy" /\ create'.id = newest'
    BY <1>1, <2>1 DEF CreateBackup
  <2>8. newest' \notin prune.doomed \cup prune.trims /\ prune.doomed \cup prune.trims \subseteq 1..newest'
    BY <1>0, <2>1 DEF Placed
  <2>9. Readable' = Readable
    BY <2>2 DEF Readable
  <2>10. restore.pc # "idle" => restore.id \in (1..newest') \ {newest'}
    BY <1>0, <2>1 DEF Placed
  <2>11. \A b \in Ids : b > newest' => bundles'[b] = NoBundle
    BY <1>0, <2>1, <2>2 DEF Placed, Ids
  <2>. QED
    BY <1>0, <2>1, <2>2, <2>5, <2>6, <2>7, <2>8, <2>9, <2>10, <2>11 DEF Placed, NoBundle
<1>a. ASSUME create.pc # "idle",
             UNCHANGED <<up, inst, last, newest, prune, restore>>,
             create' \in [pc : {"idle", "copy", "sums"}, id : 0..newest, mode : Modes,
                          opts : SUBSET Optional, todo : SUBSET Parts],
             create'.pc = "idle" => create'.id = 0,
             create'.pc # "idle" => create'.id = newest /\ bundles'[newest].sums = NoSums,
             create'.pc = "copy" => bundles'[newest].man = NoManifest,
             \A b \in Ids \ {newest} : bundles'[b] = bundles[b]
      PROVE  Placed'
  <2>1. newest \in Ids /\ create.id = newest
    BY <1>0, <1>a DEF Placed
  <2>2. \A b \in Ids : b > newest => bundles'[b] = NoBundle
    BY <1>0, <1>a DEF Placed
  <2>3. \A b \in Readable \ {newest} : b \in Readable'
    BY <1>a DEF Readable
  <2>4. newest # 0 /\ newest \notin prune.doomed \cup prune.trims
    BY <1>0, <1>a, <2>1 DEF Placed
  <2>5. prune.pc \in {"manifest", "sums"} => prune.id # 0
    BY <1>0 DEF Placed, Readable, Ids
  <2>6. create'.id \in {0, newest}
    BY <1>a DEF TypeOK
  <2>7. restore.pc # "idle" => restore.id \in (1..newest) \ {newest, 0}
    BY <1>0, <2>1 DEF Placed
  <2>. QED
    BY <1>0, <1>a, <2>1, <2>2, <2>3, <2>4, <2>5, <2>6, <2>7 DEF Placed
<1>b. create.pc # "idle" => newest \in Ids /\ create.id = newest
  BY <1>0 DEF Placed
<1>c. newest \in newest..MaxBundles
  BY <1>0
<1>2. ASSUME NEW p \in Parts, CopyFile(p)
      PROVE  TypeOK' /\ Placed'
  <2>1. /\ create.pc = "copy"
        /\ create' = [create EXCEPT !.todo = create.todo \ {p}]
        /\ UNCHANGED <<up, inst, last, newest, prune, restore, orphans, rotated, during>>
        /\ bundles' = IF p \in DOMAIN inst
                      THEN [bundles EXCEPT ![newest].files = Written(bundles[newest].files, p, inst[p])]
                      ELSE bundles
    BY <1>2, <1>b DEF CopyFile, CopiesNext, histories
  <2>2. p \in DOMAIN inst => Written(bundles[newest].files, p, inst[p]) \in Files
    BY <1>0, <1>b, <2>1, BundlesAre, WrittenIs
  <2>3. bundles' \in [Ids -> Bundle]
    BY <1>b, <2>1, <2>2, BundlesAre, BundleChanges
  <2>4. /\ create' \in [pc : {"idle", "copy", "sums"}, id : 0..newest, mode : Modes,
                        opts : SUBSET Optional, todo : SUBSET Parts]
        /\ create'.pc = "copy" /\ create'.id = newest
    BY <1>0, <1>b, <2>1 DEF TypeOK
  <2>5. TypeOK'
    BY <1>0, <1>c, <2>1, <2>3, <2>4, ShapeOfCreate DEF TypeOK
  <2>6. /\ bundles'[newest].sums = bundles[newest].sums
        /\ bundles'[newest].man = bundles[newest].man
        /\ \A b \in Ids \ {newest} : bundles'[b] = bundles[b]
    BY <1>b, <2>1, BundlesAre DEF Bundle
  <2>7. bundles[newest].sums = NoSums /\ bundles[newest].man = NoManifest
    BY <1>0, <2>1 DEF Placed
  <2>. QED
    BY <1>a, <2>1, <2>4, <2>5, <2>6, <2>7
<1>3. CASE WriteManifest
  <2>. DEFINE m == [mode |-> create.mode,
                    incl |-> {"adapter", "config"} \cup (create.opts \cap DOMAIN bundles[newest].files)]
  <2>1. /\ create.pc = "copy"
        /\ create' = [create EXCEPT !.pc = "sums"]
        /\ UNCHANGED <<up, inst, last, newest, prune, restore, orphans, rotated, during>>
        /\ bundles' = [bundles EXCEPT ![newest].man = m]
    BY <1>3, <1>b DEF WriteManifest, histories
  <2>2. m \in Manifest
    BY <1>0 DEF Manifest, TypeOK, Sections, Optional
  <2>3. bundles' \in [Ids -> Bundle]
    BY <1>b, <2>1, <2>2, BundlesAre, BundleChanges
  <2>4. /\ create' \in [pc : {"idle", "copy", "sums"}, id : 0..newest, mode : Modes,
                        opts : SUBSET Optional, todo : SUBSET Parts]
        /\ create'.pc = "sums" /\ create'.id = newest
    BY <1>0, <1>b, <2>1 DEF TypeOK
  <2>5. TypeOK'
    BY <1>0, <1>c, <2>1, <2>3, <2>4, ShapeOfCreate DEF TypeOK
  <2>6. /\ bundles'[newest].sums = bundles[newest].sums
        /\ \A b \in Ids \ {newest} : bundles'[b] = bundles[b]
    BY <1>b, <2>1, BundlesAre DEF Bundle
  <2>7. bundles[newest].sums = NoSums
    BY <1>0, <2>1 DEF Placed
  <2>. QED
    BY <1>a, <2>1, <2>4, <2>5, <2>6, <2>7
<1>d. CreateIdle \in [pc : {"idle", "copy", "sums"}, id : 0..newest, mode : Modes,
                      opts : SUBSET Optional, todo : SUBSET Parts]
  BY <1>0 DEF CreateIdle, Modes
<1>4. CASE WriteChecksums
  <2>1. /\ create.pc = "sums" /\ create' = CreateIdle
        /\ UNCHANGED <<up, inst, last, newest, prune, restore, orphans, rotated, during>>
        /\ bundles' = [bundles EXCEPT ![newest].sums = SumsOf(newest)]
    BY <1>4, <1>b DEF WriteChecksums, histories
  <2>2. bundles' \in [Ids -> Bundle]
    BY <1>b, <2>1, BundlesAre, BundleChanges
  <2>3. TypeOK'
    BY <1>0, <1>c, <1>d, <2>1, <2>2, ShapeOfCreate DEF TypeOK
  <2>4. \A b \in Ids \ {newest} : bundles'[b] = bundles[b]
    BY <1>b, <2>1, BundlesAre
  <2>. QED
    BY <1>a, <1>d, <2>1, <2>3, <2>4 DEF CreateIdle
<1>5. CASE CreateDies
  <2>1. /\ create.pc # "idle" /\ create' = CreateIdle
        /\ UNCHANGED <<up, inst, last, newest, prune, restore>>
        /\ \/ orphans' = orphans \cup {newest} /\ UNCHANGED <<bundles, rotated, during>>
           \/ /\ bundles' = [bundles EXCEPT ![newest] = NoBundle]
              /\ orphans' = orphans \ {newest}
              /\ rotated' = rotated \ {newest}
              /\ during' = [during EXCEPT ![newest] = {}]
    BY <1>5, <1>b DEF CreateDies, Forget
  <2>2. bundles' \in [Ids -> Bundle]
    BY <1>b, <2>1, BundlesAre, BundleChanges
  <2>3. /\ orphans' \subseteq Ids /\ rotated' \subseteq Ids
        /\ during' \in [Ids -> SUBSET SUBSET (1..MaxChanges)]
    BY <1>0, <1>b, <2>1 DEF TypeOK
  <2>4. TypeOK'
    BY <1>0, <1>c, <1>d, <2>1, <2>2, <2>3, ShapeOfCreate DEF TypeOK
  <2>5. \A b \in Ids \ {newest} : bundles'[b] = bundles[b]
    BY <1>b, <2>1, BundlesAre
  <2>. QED
    BY <1>a, <1>d, <2>1, <2>4, <2>5 DEF CreateIdle
<1>. QED
  BY <1>1, <1>2, <1>3, <1>4, <1>5 DEF CreateStep

\* What prune may become.
LEMMA PruningIs ==
    ASSUME NEW n \in Nat, NEW q \in Pruning(n)
    PROVE  /\ q.pc \in {"idle", "remove", "manifest", "sums"} /\ q.id \in 0..n
           /\ q.doomed \subseteq 1..n /\ q.trims \subseteq 1..n
           /\ \A i \in 0..n : [q EXCEPT !.id = i] \in Pruning(n)
           /\ \A b : [q EXCEPT !.trims = q.trims \ {b}] \in Pruning(n)
           /\ \A b : [q EXCEPT !.id = 0, !.doomed = q.doomed \ {b}] \in Pruning(n)
           /\ \A b \in 1..n : [q EXCEPT !.pc = "manifest", !.id = b, !.trims = q.trims \ {b}] \in Pruning(n)
           /\ [q EXCEPT !.pc = "sums"] \in Pruning(n)
           /\ [q EXCEPT !.pc = "remove", !.id = 0] \in Pruning(n)
           /\ \A D \in SUBSET (1..n), T \in SUBSET (1..n) :
                [pc |-> "remove", id |-> 0, doomed |-> D, trims |-> T] \in Pruning(n)
<1>1. 0 \in 0..n /\ 1..n \subseteq 0..n
  OBVIOUS
<1>2. /\ q.pc \in {"idle", "remove", "manifest", "sums"} /\ q.id \in 0..n
      /\ q.doomed \in SUBSET (1..n) /\ q.trims \in SUBSET (1..n)
      /\ q = [pc |-> q.pc, id |-> q.id, doomed |-> q.doomed, trims |-> q.trims]
  BY DEF Pruning
<1>3. /\ \A b : q.trims \ {b} \in SUBSET (1..n)
      /\ \A b : q.doomed \ {b} \in SUBSET (1..n)
  BY <1>2
<1>4. \A D \in SUBSET (1..n), T \in SUBSET (1..n) :
          [pc |-> "remove", id |-> 0, doomed |-> D, trims |-> T] \in Pruning(n)
  BY <1>1 DEF Pruning
<1>5. \A i \in 0..n : [q EXCEPT !.id = i] \in Pruning(n)
  BY <1>2 DEF Pruning
<1>6. \A b : [q EXCEPT !.trims = q.trims \ {b}] \in Pruning(n)
  BY <1>2, <1>3 DEF Pruning
<1>7. \A b : [q EXCEPT !.id = 0, !.doomed = q.doomed \ {b}] \in Pruning(n)
  BY <1>1, <1>2, <1>3 DEF Pruning
<1>8. \A b \in 1..n : [q EXCEPT !.pc = "manifest", !.id = b, !.trims = q.trims \ {b}] \in Pruning(n)
  BY <1>1, <1>2, <1>3 DEF Pruning
<1>9. [q EXCEPT !.pc = "sums"] \in Pruning(n) /\ [q EXCEPT !.pc = "remove", !.id = 0] \in Pruning(n)
  BY <1>1, <1>2 DEF Pruning
<1>. QED
  BY <1>2, <1>4, <1>5, <1>6, <1>7, <1>8, <1>9

\* What the prune steps leave of the shape: they touch neither the newest bundle
\* nor the directories that are not there.
LEMMA ShapeOfPrune ==
    ASSUME Shape,
           UNCHANGED <<up, inst, last, newest, create, restore>>,
           prune' \in Pruning(newest),
           prune'.pc = "idle" => prune' = PruneIdle,
           prune'.pc = "remove" /\ prune'.id # 0 => prune'.id \in prune'.doomed,
           prune'.pc \in {"manifest", "sums"} =>
               prune'.doomed = {} /\ prune'.id \in Readable' \ {create.id},
           create.pc # "idle" => create.id \notin prune'.doomed \cup prune'.trims,
           bundles' \in [Ids -> Bundle],
           \A b \in Ids : b > newest \/ b = create.id => bundles'[b] = bundles[b],
           orphans' \subseteq Ids, rotated' \subseteq Ids,
           during' \in [Ids -> SUBSET SUBSET (1..MaxChanges)]
    PROVE  Shape'
<1>1. newest \in 0..MaxBundles /\ MaxBundles \in Nat
  BY BackupConstants DEF Shape, TypeOK
<1>2. prune' \in [pc : {"idle", "remove", "manifest", "sums"}, id : 0..newest,
                  doomed : SUBSET Ids, trims : SUBSET Ids]
  <2>1. 1..newest \subseteq Ids
    BY <1>1 DEF Ids
  <2>. QED
    BY <2>1 DEF Pruning
<1>3. TypeOK'
  BY <1>2 DEF Shape, TypeOK
<1>4. /\ create.pc # "idle" => create.id = newest /\ newest \in Ids
      /\ \A b \in Ids : b > newest => bundles[b] = NoBundle
  BY <1>1 DEF Shape, Placed, Ids
<1>5. /\ create.pc # "idle" => bundles'[newest] = bundles[newest]
      /\ \A b \in Ids : b > newest => bundles'[b] = NoBundle
  BY <1>4
<1>6. prune'.doomed \cup prune'.trims \subseteq 1..newest
  BY DEF Pruning
<1>7. /\ up => restore.pc = "idle" /\ "db" \in DOMAIN inst
      /\ create.pc = "idle" => create.id = 0
      /\ create.pc # "idle" => newest # 0 /\ bundles[newest].sums = NoSums
      /\ create.pc = "copy" => bundles[newest].man = NoManifest
      /\ restore.pc # "idle" => restore.id \in (1..newest) \ {create.id}
  BY DEF Shape, Placed
<1>8. Placed'
  BY <1>4, <1>5, <1>6, <1>7 DEF Placed
<1>. QED
  BY <1>3, <1>8 DEF Shape

\* Every step of a pruning keeps it.
LEMMA ShapePrune == Shape /\ PruneStep => Shape'
<1>. SUFFICES ASSUME Shape, PruneStep
              PROVE  Shape'
  OBVIOUS
<1>0. /\ TypeOK /\ Placed
      /\ newest \in Nat /\ 1..newest \subseteq Ids
      /\ Readable \subseteq 1..newest /\ bundles \in [Ids -> Bundle]
      /\ create.pc # "idle" => create.id = newest
      /\ create.pc = "idle" => create.id = 0
      /\ orphans \subseteq Ids /\ rotated \subseteq Ids
      /\ during \in [Ids -> SUBSET SUBSET (1..MaxChanges)]
  <2>1. TypeOK /\ Placed
    BY DEF Shape
  <2>2. /\ newest \in 0..MaxBundles /\ bundles \in [Ids -> Bundle]
        /\ orphans \subseteq Ids /\ rotated \subseteq Ids
        /\ during \in [Ids -> SUBSET SUBSET (1..MaxChanges)]
    BY <2>1 DEF TypeOK
  <2>3. newest \in Nat /\ 1..newest \subseteq Ids
    BY <2>2, BackupConstants DEF Ids
  <2>4. /\ create.pc # "idle" => create.id = newest
        /\ create.pc = "idle" => create.id = 0
    BY <2>1 DEF Placed
  <2>5. Readable \subseteq 1..newest
    BY DoomedAreOlder
  <2>. QED
    BY <2>1, <2>2, <2>3, <2>4, <2>5
<1>p. /\ prune \in Pruning(newest)
      /\ create.pc # "idle" => create.id \notin prune.doomed \cup prune.trims
      /\ prune.pc = "remove" /\ prune.id # 0 => prune.id \in prune.doomed
      /\ prune.pc \in {"manifest", "sums"} =>
           prune.doomed = {} /\ prune.id \in Readable \ {create.id}
  BY <1>0 DEF TypeOK, Placed, Pruning
<1>i. /\ PruneIdle \in Pruning(newest)
      /\ PruneIdle.pc = "idle" /\ PruneIdle.doomed \cup PruneIdle.trims = {}
  BY <1>0 DEF PruneIdle, Pruning
<1>1. ASSUME NEW trim \in BOOLEAN, PruneBackups(trim)
      PROVE  Shape'
  <2>1. /\ prune' = [pc |-> "remove", id |-> 0, doomed |-> Doomed,
                     trims |-> IF trim THEN Beyond(Readable \ Doomed, LogKeep) ELSE {}]
        /\ UNCHANGED <<up, inst, last, bundles, newest, create, restore, orphans, rotated, during>>
    BY <1>1 DEF PruneBackups, histories
  <2>2. /\ Doomed \subseteq 1..newest /\ newest \notin Doomed
        /\ Beyond(Readable \ Doomed, LogKeep) \subseteq 1..newest
        /\ newest \notin Beyond(Readable \ Doomed, LogKeep)
    BY <1>0, DoomedAreOlder
  <2>3. prune' \in Pruning(newest)
    <3>1. (IF trim THEN Beyond(Readable \ Doomed, LogKeep) ELSE {}) \in SUBSET (1..newest)
      BY <2>2
    <3>. QED
      BY <1>0, <1>p, <2>1, <2>2, <3>1, PruningIs
  <2>4. /\ prune'.pc = "remove" /\ prune'.id = 0
        /\ newest \notin prune'.doomed \cup prune'.trims
    BY <2>1, <2>2
  <2>. QED
    BY <1>0, <2>1, <2>3, <2>4, ShapeOfPrune
<1>2. ASSUME NEW b \in Ids, RemoveFile(b)
      PROVE  Shape'
  <2>1. /\ prune.pc = "remove" /\ b \in prune.doomed /\ prune' = [prune EXCEPT !.id = b]
        /\ UNCHANGED <<up, inst, last, newest, create, restore, orphans, rotated, during>>
    BY <1>2 DEF RemoveFile, histories
  <2>2. PICK p \in Parts :
            /\ p \in DOMAIN bundles[b].files
            /\ bundles' = [bundles EXCEPT ![b].files =
                             Restrict(bundles[b].files, DOMAIN bundles[b].files \ {p})]
    BY <1>2 DEF RemoveFile, IsFirst
  <2>3. Restrict(bundles[b].files, DOMAIN bundles[b].files \ {p}) \in Files
    BY BundlesAre, RestrictIs
  <2>4. bundles' \in [Ids -> Bundle] /\ \A x \in Ids \ {b} : bundles'[x] = bundles[x]
    BY <1>0, <2>2, <2>3, BundleChanges
  <2>5. b \in 1..newest /\ (create.pc # "idle" => b # create.id) /\ b # 0
    BY <1>p, <2>1 DEF Pruning
  <2>6. prune' \in Pruning(newest)
    <3>1. b \in 0..newest
      BY <1>0, <2>5
    <3>. QED
      BY <1>0, <1>p, <2>1, <3>1, PruningIs
  <2>7. /\ prune'.pc = "remove" /\ prune'.id = b /\ b \in prune'.doomed
        /\ prune'.doomed \cup prune'.trims = prune.doomed \cup prune.trims
    BY <1>p, <2>1 DEF Pruning
  <2>. QED
    BY <1>0, <1>p, <2>1, <2>4, <2>5, <2>6, <2>7, ShapeOfPrune
<1>3. ASSUME NEW b \in Ids, RemoveManifest(b)
      PROVE  Shape'
  <2>1. /\ prune.pc = "remove" /\ b \in prune.doomed
        /\ prune' = [prune EXCEPT !.id = 0, !.doomed = prune.doomed \ {b}]
        /\ bundles' = [bundles EXCEPT ![b] = NoBundle]
        /\ orphans' = orphans \ {b} /\ rotated' = rotated \ {b}
        /\ during' = [during EXCEPT ![b] = {}]
        /\ UNCHANGED <<up, inst, last, newest, create, restore>>
    BY <1>3 DEF RemoveManifest, Forget
  <2>2. bundles' \in [Ids -> Bundle] /\ \A x \in Ids \ {b} : bundles'[x] = bundles[x]
    BY <1>0, <2>1, BundlesAre, BundleChanges
  <2>3. b \in 1..newest /\ (create.pc # "idle" => b # create.id) /\ b # 0
    BY <1>p, <2>1 DEF Pruning
  <2>4. prune' \in Pruning(newest)
    BY <1>0, <1>p, <2>1, PruningIs
  <2>5. /\ prune'.pc = "remove" /\ prune'.id = 0
        /\ prune'.doomed \cup prune'.trims \subseteq prune.doomed \cup prune.trims
    BY <1>p, <2>1 DEF Pruning
  <2>6. orphans' \subseteq Ids /\ rotated' \subseteq Ids
        /\ during' \in [Ids -> SUBSET SUBSET (1..MaxChanges)]
    BY <1>0, <2>1
  <2>. QED
    BY <1>0, <1>p, <2>1, <2>2, <2>3, <2>4, <2>5, <2>6, ShapeOfPrune
<1>4. ASSUME NEW b \in Ids, TrimLogs(b)
      PROVE  Shape'
  <2>1. /\ prune.pc = "remove" /\ prune.doomed = {} /\ b \in prune.trims /\ b \in Readable
        /\ UNCHANGED <<up, inst, last, newest, create, restore, orphans, rotated, during>>
    BY <1>4 DEF TrimLogs, histories
  <2>2. b \in 1..newest /\ b # create.id /\ b # 0 /\ prune.id = 0
    <3>1. b \in 1..newest
      BY <1>0, <2>1
    <3>2. b # 0
      BY <1>0, <3>1
    <3>3. b # create.id
      <4>1. CASE create.pc = "idle"
        BY <1>0, <3>2, <4>1
      <4>2. CASE create.pc # "idle"
        BY <1>p, <2>1, <4>2
      <4>. QED
        BY <4>1, <4>2
    <3>4. prune.id = 0
      BY <1>p, <2>1
    <3>. QED
      BY <3>1, <3>2, <3>3, <3>4
  <2>3. CASE /\ bundles' = [bundles EXCEPT ![b].files =
                              Restrict(bundles[b].files, DOMAIN bundles[b].files \ {"logs"})]
             /\ prune' = [prune EXCEPT !.pc = "manifest", !.id = b, !.trims = prune.trims \ {b}]
    <3>1. Restrict(bundles[b].files, DOMAIN bundles[b].files \ {"logs"}) \in Files
      BY BundlesAre, RestrictIs
    <3>2. bundles' \in [Ids -> Bundle] /\ \A x \in Ids \ {b} : bundles'[x] = bundles[x]
      BY <1>0, <2>3, <3>1, BundleChanges
    <3>3. bundles'[b].man = bundles[b].man
      BY <1>0, <2>3 DEF Bundle
    <3>4. b \in Readable'
      BY <2>1, <3>3 DEF Readable
    <3>5. prune' \in Pruning(newest)
      BY <1>0, <1>p, <2>2, <2>3, PruningIs
    <3>6. /\ prune'.pc = "manifest" /\ prune'.id = b /\ prune'.doomed = {}
          /\ prune'.trims \subseteq prune.trims
      BY <1>p, <2>1, <2>3
    <3>. QED
      BY <1>0, <1>p, <2>1, <2>2, <3>2, <3>4, <3>5, <3>6, ShapeOfPrune
  <2>4. CASE bundles' = bundles /\ prune' = [prune EXCEPT !.trims = prune.trims \ {b}]
    <3>1. prune' \in Pruning(newest)
      BY <1>0, <1>p, <2>4, PruningIs
    <3>2. /\ prune'.pc = "remove" /\ prune'.id = 0 /\ prune'.doomed = {}
          /\ prune'.trims \subseteq prune.trims
      BY <1>p, <2>1, <2>2, <2>4
    <3>. QED
      BY <1>0, <1>p, <2>1, <2>4, <3>1, <3>2, ShapeOfPrune
  <2>. QED
    BY <1>4, <2>3, <2>4 DEF TrimLogs
<1>5. CASE TrimManifest
  <2>. DEFINE m == [bundles[prune.id].man EXCEPT !.incl = bundles[prune.id].man.incl \ {"logs"}]
  <2>1. /\ prune.pc = "manifest" /\ prune' = [prune EXCEPT !.pc = "sums"]
        /\ UNCHANGED <<up, inst, last, newest, create, restore, orphans, rotated, during>>
        /\ prune.id \in Readable \ {create.id} /\ prune.doomed = {}
        /\ prune.id \in Ids /\ prune.id \in 1..newest
    BY <1>0, <1>5, <1>p DEF TrimManifest, histories
  <2>2. bundles[prune.id].man \in Manifest
    BY <2>1, BundlesAre DEF Readable
  <2>3. m \in Manifest /\ m # NoManifest
    BY <2>2 DEF Manifest, NoManifest, Modes
  <2>4. bundles' = [bundles EXCEPT ![prune.id].man = m]
    BY <1>0, <1>5, <2>1 DEF TrimManifest, Bundle
  <2>5. /\ bundles' \in [Ids -> Bundle]
        /\ \A x \in Ids \ {prune.id} : bundles'[x] = bundles[x]
        /\ bundles'[prune.id].man = m
    <3>. HIDE DEF m
    <3>1. bundles' \in [Ids -> Bundle]
      BY <1>0, <2>1, <2>3, <2>4, BundleChanges
    <3>. QED
      BY <1>0, <2>1, <2>4, <3>1 DEF Bundle
  <2>6. prune.id \in Readable'
    BY <2>1, <2>3, <2>5 DEF Readable
  <2>7. prune' \in Pruning(newest)
    BY <1>0, <1>p, <2>1, PruningIs
  <2>8. prune'.pc = "sums" /\ prune'.id = prune.id /\ prune'.doomed = {} /\ prune'.trims = prune.trims
    BY <1>p, <2>1 DEF Pruning
  <2>. QED
    BY <1>0, <1>p, <2>1, <2>5, <2>6, <2>7, <2>8, ShapeOfPrune
<1>6. CASE TrimChecksums
  <2>1. /\ prune.pc = "sums" /\ prune' = [prune EXCEPT !.pc = "remove", !.id = 0]
        /\ bundles' = [bundles EXCEPT ![prune.id].sums = SumsOf(prune.id)]
        /\ UNCHANGED <<up, inst, last, newest, create, restore, orphans, rotated, during>>
        /\ prune.id \in Readable \ {create.id} /\ prune.doomed = {}
        /\ prune.id \in Ids /\ prune.id \in 1..newest
    BY <1>0, <1>6, <1>p DEF TrimChecksums, histories
  <2>2. bundles' \in [Ids -> Bundle] /\ \A x \in Ids \ {prune.id} : bundles'[x] = bundles[x]
    BY <1>0, <2>1, BundlesAre, BundleChanges
  <2>3. prune' \in Pruning(newest)
    BY <1>0, <1>p, <2>1, PruningIs
  <2>4. prune'.pc = "remove" /\ prune'.id = 0 /\ prune'.doomed = {} /\ prune'.trims = prune.trims
    BY <1>p, <2>1 DEF Pruning
  <2>. QED
    BY <1>0, <1>p, <2>1, <2>2, <2>3, <2>4, ShapeOfPrune
<1>7. CASE PruneEnds
  BY <1>0, <1>7, <1>i, ShapeOfPrune DEF PruneEnds, histories
<1>8. CASE PruneDies
  <2>1. /\ prune' = PruneIdle /\ orphans' = orphans \cup ({prune.id} \ {0})
        /\ UNCHANGED <<up, inst, last, newest, create, restore, rotated, during>>
    BY <1>8 DEF PruneDies
  <2>2. orphans' \subseteq Ids
    <3>1. prune.id \in 0..newest /\ (prune.id # 0 => prune.id \in 1..newest)
      BY <1>0, <1>p DEF Pruning
    <3>. QED
      BY <1>0, <2>1, <3>1
  <2>3. CASE bundles' = bundles
    BY <1>0, <1>i, <2>1, <2>2, <2>3, ShapeOfPrune
  <2>4. CASE /\ prune.pc = "manifest"
             /\ bundles' = [bundles EXCEPT ![prune.id].man = NoManifest]
    <3>1. prune.id \in Readable \ {create.id} /\ prune.id \in Ids /\ prune.id \in 1..newest
      BY <1>0, <1>p, <2>4
    <3>2. bundles' \in [Ids -> Bundle] /\ \A x \in Ids \ {prune.id} : bundles'[x] = bundles[x]
      BY <1>0, <2>4, <3>1, BundleChanges
    <3>. QED
      BY <1>0, <1>i, <2>1, <2>2, <3>1, <3>2, ShapeOfPrune
  <2>. QED
    BY <1>8, <2>3, <2>4 DEF PruneDies
<1>. QED
  BY <1>1, <1>2, <1>3, <1>4, <1>5, <1>6, <1>7, <1>8 DEF PruneStep

\* The states of restore when n bundles have been made.
Restoring(n) == [pc : {"idle", "safety", "remove", "copy", "done", "failed"},
                 runs : 0..MaxRestores, id : 0..n, incl : SUBSET Sections,
                 todo : SUBSET Sections, had : Files, safe : Files]

\* Every step of a restore keeps it.
LEMMA ShapeRestore == Shape /\ RestoreStep => Shape'
<1>. SUFFICES ASSUME Shape, RestoreStep
              PROVE  TypeOK' /\ Placed'
  BY DEF Shape
<1>0. /\ TypeOK /\ Placed /\ newest \in Nat /\ MaxRestores \in Nat
      /\ restore \in Restoring(newest) /\ restore.runs \in 0..MaxRestores
      /\ inst \in Files /\ restore.safe \in Files
      /\ Readable \subseteq 1..newest /\ 1..newest \subseteq Ids
      /\ create.pc # "idle" => create.id \in Ids
      /\ rotated \subseteq Ids /\ during \in [Ids -> SUBSET Changes]
  <2>1. TypeOK /\ Placed
    BY DEF Shape
  <2>2. /\ newest \in 0..MaxBundles /\ inst \in Files /\ rotated \subseteq Ids
        /\ restore \in Restoring(newest)
    BY <2>1 DEF TypeOK, Restoring
  <2>3. during \in [Ids -> SUBSET Changes]
    BY <2>1 DEF TypeOK, Changes
  <2>4. newest \in Nat /\ 1..newest \subseteq Ids /\ (newest # 0 => newest \in Ids)
    BY <2>2, BackupConstants DEF Ids
  <2>5. create.pc # "idle" => create.id \in Ids
    BY <2>1, <2>4 DEF Placed
  <2>6. restore.runs \in 0..MaxRestores /\ restore.safe \in Files
    BY <2>2 DEF Restoring
  <2>7. Readable \subseteq 1..newest
    BY DoomedAreOlder
  <2>8. MaxRestores \in Nat
    BY BackupConstants
  <2>. QED
    BY <2>1, <2>2, <2>3, <2>4, <2>5, <2>6, <2>7, <2>8
<1>a. ASSUME ~up,
             UNCHANGED <<up, last, bundles, newest, create, prune, orphans>>,
             inst' \in Files, restore' \in Restoring(newest),
             rotated' \subseteq Ids, during' \in [Ids -> SUBSET Changes],
             restore'.pc # "idle" => restore'.id \in (1..newest) \ {create.id}
      PROVE  TypeOK' /\ Placed'
  <2>1. TypeOK'
    BY <1>0, <1>a DEF TypeOK, Restoring, Changes
  <2>2. Readable' = Readable
    BY <1>a DEF Readable
  <2>3. Placed'
    BY <1>0, <1>a, <2>2 DEF Placed
  <2>. QED
    BY <2>1, <2>3
<1>b. restore.pc # "idle" => ~up /\ restore.id \in (1..newest) \ {create.id}
  BY <1>0 DEF Placed
<1>1. ASSUME NEW b \in Ids, RestoreBackup(b)
      PROVE  TypeOK' /\ Placed'
  <2>1. /\ ~up /\ restore.runs < MaxRestores /\ Verifies(b)
        /\ restore' = [pc |-> "safety", runs |-> restore.runs + 1, id |-> b,
                       incl |-> bundles[b].man.incl, todo |-> bundles[b].man.incl,
                       had |-> inst, safe |-> NoFiles]
        /\ UNCHANGED <<up, inst, last, bundles, newest, create, prune, orphans, rotated, during>>
    BY <1>1 DEF RestoreBackup, histories
  <2>2. b \in Readable /\ b \in 1..newest /\ b \in 0..newest
    BY <1>0, <2>1 DEF Verifies
  <2>3. bundles[b].man.incl \in SUBSET Sections
    BY <2>2, BundlesAre DEF Manifest, Readable
  <2>4. restore.runs + 1 \in 0..MaxRestores
    BY <1>0, <2>1
  <2>5. restore' \in Restoring(newest)
    BY <1>0, <2>1, <2>2, <2>3, <2>4, NoFilesAreFiles DEF Restoring
  <2>6. b # create.id
    BY <1>0, <2>1, <2>2, VerifiedHasSums DEF Placed
  <2>. QED
    BY <1>0, <1>a, <2>1, <2>2, <2>5, <2>6
<1>2. ASSUME NEW s \in Sections, CopySection(s)
      PROVE  TypeOK' /\ Placed'
  <2>. DEFINE from == bundles[restore.id].files
              part == Restrict(from, Holds(s) \cap DOMAIN from)
  <2>1. /\ restore.pc = "copy" /\ inst' = Overlay(inst, part)
        /\ restore' = [restore EXCEPT !.pc = "remove", !.todo = restore.todo \ {s}]
        /\ \/ "db" \in DOMAIN from /\ s = "adapter" /\ Observe(Recovered(inst'))
           \/ UNCHANGED during
        /\ UNCHANGED <<up, last, bundles, newest, create, prune, orphans, rotated>>
    BY <1>2 DEF CopySection
  <2>2. from \in Files
    <3>1. restore.id \in Ids
      BY <1>0, <1>b, <2>1
    <3>. QED
      BY <3>1, BundlesAre
  <2>3. part \in Files /\ DOMAIN part = Holds(s) \cap DOMAIN from
    <3>. HIDE DEF from
    <3>. QED
      BY <2>2, RestrictIs
  <2>. HIDE DEF from, part
  <2>4. inst' \in Files /\ DOMAIN inst' = DOMAIN inst \cup (Holds(s) \cap DOMAIN from)
    <3>1. Overlay(inst, part) \in Files /\ DOMAIN Overlay(inst, part) = DOMAIN inst \cup DOMAIN part
      BY <1>0, <2>3, OverlayIs
    <3>. QED
      BY <2>1, <2>3, <3>1
  <2>5. during' \in [Ids -> SUBSET Changes]
    <3>1. CASE "db" \in DOMAIN from /\ s = "adapter" /\ Observe(Recovered(inst'))
      <4>1. "db" \in DOMAIN inst'
        BY <2>4, <3>1 DEF Holds
      <4>2. Recovered(inst') \in Changes
        BY <2>4, <4>1, RecoveredIs
      <4>. QED
        BY <1>0, <3>1, <4>2, GrownIs DEF Observe
    <3>. QED
      BY <1>0, <2>1, <3>1
  <2>6. restore' \in Restoring(newest) /\ restore'.id = restore.id
    BY <1>0, <2>1 DEF Restoring
  <2>. QED
    BY <1>0, <1>a, <1>b, <2>1, <2>4, <2>5, <2>6
<1>3. CASE CreateSafetyCopy
  <2>1. SafeCopy(restore.incl) \in Files
    BY <1>0, RestrictIs DEF SafeCopy
  <2>. QED
    BY <1>0, <1>3, <1>a, <1>b, <2>1 DEF CreateSafetyCopy, histories, Restoring
<1>4. CASE RemoveTarget
  <2>1. PICK s \in Sections :
            /\ inst' = Restrict(inst, DOMAIN inst \ Target(s))
            /\ rotated' = IF s = "adapter" /\ \E p \in {"db", "wal"} : CopiesNext(p)
                          THEN rotated \cup {create.id} ELSE rotated
    BY <1>4 DEF RemoveTarget
  <2>2. inst' \in Files
    BY <1>0, <2>1, RestrictIs
  <2>3. rotated' \subseteq Ids
    BY <1>0, <2>1 DEF CopiesNext
  <2>. QED
    BY <1>0, <1>4, <1>a, <1>b, <2>2, <2>3 DEF RemoveTarget, Restoring
<1>5. CASE PutLogsBack
  <2>1. inst' \in Files
    <3>1. CASE "logs" \in DOMAIN restore.safe
      <4>1. restore.safe["logs"] \in Changes /\ "logs" \in Parts
        BY <1>0, <3>1, ContentIs
      <4>2. Written(inst, "logs", restore.safe["logs"]) \in Files
        BY <1>0, <4>1, WrittenIs
      <4>. QED
        BY <1>0, <1>5, <4>2 DEF PutLogsBack
    <3>. QED
      BY <1>0, <1>5, <3>1 DEF PutLogsBack
  <2>. QED
    BY <1>0, <1>5, <1>a, <1>b, <2>1 DEF PutLogsBack, histories, Restoring
<1>6. CASE RestoreDies
  BY <1>0, <1>6, <1>a, <1>b DEF RestoreDies, histories, Restoring
<1>7. CASE RestoreEnds
  <2>1. RestoreIdle(restore.runs) \in Restoring(newest)
    BY <1>0, NoFilesAreFiles DEF RestoreIdle, Restoring
  <2>. QED
    BY <1>0, <1>7, <1>a, <1>b, <2>1 DEF RestoreEnds, histories, RestoreIdle
<1>. QED
  BY <1>1, <1>2, <1>3, <1>4, <1>5, <1>6, <1>7 DEF RestoreStep

\* The actions by the process that takes them.
LEMMA NextIs == Next <=> AdapterStep \/ CreateStep \/ PruneStep \/ RestoreStep
BY DEF Next, AdapterStep, CreateStep, PruneStep, RestoreStep

\* A step that changes nothing.
LEMMA ShapeStutters == Shape /\ UNCHANGED vars => Shape'
BY DEF Shape, TypeOK, Placed, Readable, vars

\* The commands, the bundles and the installation keep their shape, and no command
\* is ever where another excludes it: a pruning never has hold of the bundle that
\* is being made, and neither has a restore (createBackup, pruneBackups,
\* restoreBackup).
THEOREM ShapeCorrect == Spec => []Shape
<1>1. Shape /\ [Next]_vars => Shape'
  BY NextIs, ShapeAdapter, ShapeCreate, ShapePrune, ShapeRestore, ShapeStutters
<1>. QED
  BY <1>1, ShapeInit, PTL DEF Spec

\* Every state has the declared types.
THEOREM TypeCorrect == Spec => []TypeOK
<1>1. Shape => TypeOK
  BY DEF Shape
<1>. QED
  BY <1>1, ShapeCorrect, PTL

-----------------------------------------------------------------------------
(* A restore loses nothing *)

\* What the restore may remove or replace.
Endangered == {"logs"} \cup UNION {Target(s) : s \in restore.incl}

\* p is as it was in the files f.
AsItWas(f, p) == p \in DOMAIN f /\ f[p] = restore.had[p]

\* What may be removed is in the safety copy before anything is.
SafeFirst ==
    /\ restore.todo \subseteq restore.incl
    /\ restore.pc = "safety" => inst = restore.had
    /\ restore.pc \in {"remove", "copy"} =>
         \A p \in DOMAIN restore.had \cap Endangered : AsItWas(restore.safe, p)

\* A section lies under the path that a restore replaces for it.
LEMMA HoldsUnderTarget == \A s \in Sections : Holds(s) \subseteq Target(s)
BY DEF Sections, Holds, Target

\* The adapter and the operator lose nothing that a restore has to keep.
LEMMA LostAdapter == Shape /\ SafeFirst /\ NothingIsLost /\ AdapterStep => SafeFirst' /\ NothingIsLost'
<1>. SUFFICES ASSUME Shape, SafeFirst, NothingIsLost, AdapterStep
              PROVE  SafeFirst' /\ NothingIsLost'
  OBVIOUS
<1>1. restore.pc = "idle" /\ restore' = restore
  BY DEF AdapterStep, Commit, Checkpoint, Stop, Start, Edit, jobs, Shape, Placed
<1>. QED
  BY <1>1 DEF SafeFirst, NothingIsLost

\* What a step of a restore may do to the files.
LEMMA NothingIsLostBy ==
    ASSUME Shape, SafeFirst, NothingIsLost,
           restore.pc \in {"remove", "copy"},
           restore'.had = restore.had, restore'.safe = restore.safe,
           restore'.incl = restore.incl, restore'.todo \subseteq restore.todo,
           restore'.pc # "safety",
           \A p \in DOMAIN inst \ Endangered : p \in DOMAIN inst' /\ inst'[p] = inst[p]
    PROVE  SafeFirst' /\ NothingIsLost'
<1>1. Endangered' = Endangered
  BY DEF Endangered
<1>2. \A p \in DOMAIN restore.had \cap Endangered :
          p \in DOMAIN restore'.safe /\ restore'.safe[p] = restore'.had[p]
  BY DEF SafeFirst, AsItWas
<1>3. SafeFirst'
  BY <1>1, <1>2 DEF SafeFirst, AsItWas
<1>4. NothingIsLost'
  BY <1>2 DEF NothingIsLost
<1>. QED
  BY <1>3, <1>4

\* A restore loses nothing: what it removes is in the safety copy.
LEMMA LostRestore == Shape /\ SafeFirst /\ NothingIsLost /\ RestoreStep => SafeFirst' /\ NothingIsLost'
<1>. SUFFICES ASSUME Shape, SafeFirst, NothingIsLost, RestoreStep
              PROVE  SafeFirst' /\ NothingIsLost'
  OBVIOUS
<1>0. /\ inst \in Files /\ restore \in Restoring(newest) /\ restore.safe \in Files
      /\ 1..newest \subseteq Ids
  BY BackupConstants DEF Shape, TypeOK, Restoring, Ids
<1>1. ASSUME NEW b \in Ids, RestoreBackup(b)
      PROVE  SafeFirst' /\ NothingIsLost'
  BY <1>1 DEF RestoreBackup, SafeFirst, NothingIsLost
<1>2. ASSUME NEW s \in Sections, CopySection(s)
      PROVE  SafeFirst' /\ NothingIsLost'
  <2>. DEFINE from == bundles[restore.id].files
              part == Restrict(from, Holds(s) \cap DOMAIN from)
  <2>1. /\ restore.pc = "copy" /\ inst' = Overlay(inst, part) /\ s \in restore.todo
        /\ restore' = [restore EXCEPT !.pc = "remove", !.todo = restore.todo \ {s}]
    BY <1>2 DEF CopySection, IsFirst
  <2>2. from \in Files
    <3>1. restore.id \in Ids
      BY <1>0, <2>1 DEF Shape, Placed
    <3>. QED
      BY <3>1, BundlesAre
  <2>3. part \in Files /\ DOMAIN part = Holds(s) \cap DOMAIN from
    <3>. HIDE DEF from
    <3>. QED
      BY <2>2, RestrictIs
  <2>. HIDE DEF from, part
  <2>4. /\ DOMAIN Overlay(inst, part) = DOMAIN inst \cup DOMAIN part
        /\ \A q \in DOMAIN inst \ DOMAIN part : Overlay(inst, part)[q] = inst[q]
    BY <1>0, <2>3, OverlayIs
  <2>5. Holds(s) \subseteq Endangered
    BY <2>1, HoldsUnderTarget DEF Endangered, SafeFirst
  <2>6. \A p \in DOMAIN inst \ Endangered : p \in DOMAIN inst' /\ inst'[p] = inst[p]
    BY <2>1, <2>3, <2>4, <2>5
  <2>7. /\ restore'.pc = "remove" /\ restore'.had = restore.had /\ restore'.safe = restore.safe
        /\ restore'.incl = restore.incl /\ restore'.todo \subseteq restore.todo
    BY <1>0, <2>1 DEF Restoring
  <2>. QED
    BY <2>1, <2>6, <2>7, NothingIsLostBy
<1>3. CASE CreateSafetyCopy
  <2>1. /\ restore.pc = "safety" /\ inst = restore.had /\ inst' = inst
        /\ restore' = [restore EXCEPT !.pc = "remove", !.safe = SafeCopy(restore.incl)]
        /\ restore.todo \subseteq restore.incl
    BY <1>3 DEF CreateSafetyCopy, SafeFirst
  <2>2. SafeCopy(restore.incl) = Restrict(inst, DOMAIN inst \cap Endangered)
    BY DEF SafeCopy, Endangered
  <2>3. /\ DOMAIN Restrict(inst, DOMAIN inst \cap Endangered) = DOMAIN inst \cap Endangered
        /\ \A p \in DOMAIN inst \cap Endangered :
             Restrict(inst, DOMAIN inst \cap Endangered)[p] = inst[p]
    BY <1>0, RestrictIs
  <2>4. /\ restore'.had = restore.had /\ restore'.incl = restore.incl /\ restore'.pc = "remove"
        /\ restore'.todo = restore.todo /\ restore'.safe = SafeCopy(restore.incl)
    BY <1>0, <2>1 DEF Restoring
  <2>5. Endangered' = Endangered
    BY <2>4 DEF Endangered
  <2>6. SafeFirst'
    BY <2>1, <2>2, <2>3, <2>4, <2>5 DEF SafeFirst, AsItWas
  <2>7. NothingIsLost'
    BY <2>1, <2>4 DEF NothingIsLost
  <2>. QED
    BY <2>6, <2>7
<1>4. CASE RemoveTarget
  <2>1. PICK s \in Sections :
            s \in restore.todo /\ inst' = Restrict(inst, DOMAIN inst \ Target(s))
    BY <1>4 DEF RemoveTarget, IsFirst
  <2>2. /\ DOMAIN Restrict(inst, DOMAIN inst \ Target(s)) = DOMAIN inst \ Target(s)
        /\ \A p \in DOMAIN inst \ Target(s) : Restrict(inst, DOMAIN inst \ Target(s))[p] = inst[p]
    BY <1>0, RestrictIs
  <2>3. Target(s) \subseteq Endangered
    BY <2>1 DEF Endangered, SafeFirst
  <2>4. \A p \in DOMAIN inst \ Endangered : p \in DOMAIN inst' /\ inst'[p] = inst[p]
    BY <2>1, <2>2, <2>3
  <2>5. /\ restore.pc = "remove" /\ restore' = [restore EXCEPT !.pc = "copy"]
    BY <1>4 DEF RemoveTarget
  <2>6. /\ restore'.pc = "copy" /\ restore'.had = restore.had /\ restore'.safe = restore.safe
        /\ restore'.incl = restore.incl /\ restore'.todo \subseteq restore.todo
    BY <1>0, <2>5 DEF Restoring
  <2>. QED
    BY <2>4, <2>5, <2>6, NothingIsLostBy
<1>5. CASE PutLogsBack
  <2>1. /\ restore.pc = "remove" /\ restore' = [restore EXCEPT !.pc = "done"]
    BY <1>5 DEF PutLogsBack
  <2>2. /\ restore'.pc = "done" /\ restore'.had = restore.had /\ restore'.safe = restore.safe
        /\ restore'.incl = restore.incl /\ restore'.todo \subseteq restore.todo
    BY <1>0, <2>1 DEF Restoring
  <2>3. \A p \in DOMAIN inst \ {"logs"} : p \in DOMAIN inst' /\ inst'[p] = inst[p]
    <3>1. CASE "logs" \in DOMAIN restore.safe
      <4>1. restore.safe["logs"] \in Changes /\ "logs" \in Parts
        BY <1>0, <3>1, ContentIs
      <4>2. /\ DOMAIN Written(inst, "logs", restore.safe["logs"]) = DOMAIN inst \cup {"logs"}
            /\ \A q \in DOMAIN inst \ {"logs"} :
                  Written(inst, "logs", restore.safe["logs"])[q] = inst[q]
        BY <1>0, <4>1, WrittenIs
      <4>. QED
        BY <1>5, <4>2 DEF PutLogsBack
    <3>. QED
      BY <1>5, <3>1 DEF PutLogsBack
  <2>4. \A p \in DOMAIN inst \ Endangered : p \in DOMAIN inst' /\ inst'[p] = inst[p]
    <3>1. "logs" \in Endangered
      <4>1. \A U : "logs" \in U \cup {"logs"}
        OBVIOUS
      <4>. QED
        BY <4>1 DEF Endangered
    <3>. QED
      BY <2>3, <3>1
  <2>. QED
    BY <2>1, <2>2, <2>4, NothingIsLostBy
<1>6. CASE RestoreDies
  <2>1. /\ restore' = [restore EXCEPT !.pc = "failed"] /\ inst' = inst /\ restore.pc # "idle"
    BY <1>6 DEF RestoreDies
  <2>2. /\ restore'.pc = "failed" /\ restore'.had = restore.had /\ restore'.safe = restore.safe
        /\ restore'.incl = restore.incl /\ restore'.todo = restore.todo
    BY <1>0, <2>1 DEF Restoring
  <2>. QED
    BY <2>1, <2>2 DEF SafeFirst, NothingIsLost
<1>7. CASE RestoreEnds
  BY <1>7 DEF RestoreEnds, RestoreIdle, SafeFirst, NothingIsLost
<1>. QED
  BY <1>1, <1>2, <1>3, <1>4, <1>5, <1>6, <1>7 DEF RestoreStep

\* What a restore has not yet put back is in the safety copy (createSafetyCopy,
\* preserveLogs, replacePath).
THEOREM NothingLost == Spec => []NothingIsLost
<1>1. Init => SafeFirst /\ NothingIsLost
  BY DEF Init, RestoreIdle, SafeFirst, NothingIsLost
<1>2. SafeFirst /\ NothingIsLost /\ (CreateStep \/ PruneStep \/ UNCHANGED vars)
        => SafeFirst' /\ NothingIsLost'
  <2>1. CreateStep \/ PruneStep \/ UNCHANGED vars => inst' = inst /\ restore' = restore
    BY DEF CreateStep, PruneStep, CreateBackup, CopyFile, WriteManifest, WriteChecksums,
           CreateDies, PruneBackups, RemoveFile, RemoveManifest, TrimLogs, TrimManifest,
           TrimChecksums, PruneEnds, PruneDies, vars
  <2>. QED
    BY <2>1 DEF SafeFirst, NothingIsLost, Endangered, AsItWas
<1>3. Shape /\ SafeFirst /\ NothingIsLost /\ [Next]_vars => SafeFirst' /\ NothingIsLost'
  BY <1>2, NextIs, LostAdapter, LostRestore
<1>. QED
  BY <1>1, <1>3, ShapeCorrect, PTL DEF Spec

-----------------------------------------------------------------------------
(* A bundle that no command is at work on verifies *)

\* The bundle b has a file of each of the sections S.
HasAll(b, S) == \A s \in S : Holds(s) \cap DOMAIN bundles[b].files # {}

\* The mandatory files are copied or still to be; the manifest lists what was copied.
Made ==
    /\ create.pc = "copy" =>
         {"db", "config"} \subseteq create.todo \cup DOMAIN bundles[newest].files
    /\ create.pc = "sums" => HasAll(newest, bundles[newest].man.incl)

\* Trimming takes the logs out of the bundle, then out of its manifest.
Trimmed ==
    prune.pc \in {"manifest", "sums"} /\ prune.id \notin orphans =>
        /\ HasAll(prune.id, bundles[prune.id].man.incl \ {"logs"})
        /\ prune.pc = "sums" => "logs" \notin bundles[prune.id].man.incl

SettledInv == Made /\ Trimmed /\ SettledBundlesVerify

\* A bundle verifies when its manifest can be read, its files are there and its sums fit.
LEMMA VerifiesIs ==
    ASSUME NEW b \in Ids
    PROVE  Verifies(b) <=> /\ b \in Readable
                           /\ HasAll(b, bundles[b].man.incl)
                           /\ bundles[b].sums = SumsOf(b)
BY DEF Verifies, HasAll, SumsMatch, SumsOf

\* Verifies(b) depends on the bundle b alone.
LEMMA VerifiesStays ==
    ASSUME NEW b \in Ids, bundles'[b] = bundles[b]
    PROVE  /\ Verifies(b) => Verifies(b)'
           /\ b \in Readable <=> b \in Readable'
BY DEF Verifies, Readable

\* The parts that a command leaves alone.
LEMMA SettledStays ==
    ASSUME Shape, SettledInv, UNCHANGED <<bundles, create, prune, newest, orphans>>
    PROVE  SettledInv'
BY DEF SettledInv, Made, Trimmed, SettledBundlesVerify, HasAll, Verifies, Readable, SumsMatch

\* The other bundles, when a creation works on the newest.
LEMMA SettledOfCreate ==
    ASSUME Shape, SettledInv, create.pc # "idle",
           UNCHANGED <<newest, prune>>, Made',
           \A b \in Ids \ {newest} : bundles'[b] = bundles[b],
           orphans' \ {newest} = orphans \ {newest},
           newest \in Readable' \ orphans' => create'.id = newest \/ Verifies(newest)'
    PROVE  SettledInv'
<1>1. create.id = newest /\ newest \in Ids
  BY BackupConstants DEF Shape, Placed, TypeOK, Ids
<1>2. Trimmed'
  <2>1. prune.pc \in {"manifest", "sums"} => prune.id \in Ids \ {newest}
    BY <1>1 DEF Shape, Placed, Readable
  <2>. QED
    BY <2>1 DEF SettledInv, Trimmed, HasAll
<1>3. ASSUME NEW b \in Readable' \ orphans'
      PROVE  b \in {create'.id, prune'.id} \/ Verifies(b)'
  <2>1. CASE b = newest
    BY <2>1
  <2>2. CASE b # newest
    <3>1. b \in Ids /\ b \in Readable \ orphans
      BY <2>2, VerifiesStays DEF Readable
    <3>2. b = prune.id \/ Verifies(b)
      BY <1>1, <2>2, <3>1 DEF SettledInv, SettledBundlesVerify
    <3>. QED
      BY <2>2, <3>1, <3>2, VerifiesStays
  <2>. QED
    BY <2>1, <2>2
<1>4. SettledBundlesVerify'
  BY <1>3 DEF SettledBundlesVerify
<1>. QED
  BY <1>2, <1>4 DEF SettledInv

\* A creation leaves a bundle that verifies, or has not ended.
LEMMA SettledCreate == Shape /\ Shape' /\ SettledInv /\ CreateStep => SettledInv'
<1>. SUFFICES ASSUME Shape, Shape', SettledInv, CreateStep
              PROVE  SettledInv'
  OBVIOUS
<1>0. /\ create.pc # "idle" => newest \in Ids /\ create.id = newest
      /\ create.pc = "idle" => create.id = 0
      /\ bundles \in [Ids -> Bundle]
      /\ inst \in Files
      /\ newest \in 0..MaxBundles /\ MaxBundles \in Nat
  BY BackupConstants DEF Shape, Placed, TypeOK, Ids
<1>1. ASSUME NEW mode \in Modes, NEW opts \in SUBSET Optional, CreateBackup(mode, opts)
      PROVE  SettledInv'
  <2>1. /\ create.pc = "idle" /\ create.id = 0
        /\ create'.pc = "copy" /\ {"db", "config"} \subseteq create'.todo
        /\ UNCHANGED <<bundles, prune, orphans>>
    BY <1>0, <1>1 DEF CreateBackup, Listed
  <2>2. Made'
    BY <2>1 DEF Made
  <2>3. Trimmed'
    BY <2>1 DEF SettledInv, Trimmed, HasAll
  <2>4. 0 \notin Readable
    BY DEF Readable, Ids
  <2>5. SettledBundlesVerify'
    <3>1. \A b \in Readable : Verifies(b) => Verifies(b)'
      BY <2>1, VerifiesStays DEF Readable
    <3>2. Readable' = Readable
      BY <2>1 DEF Readable
    <3>. QED
      BY <2>1, <2>4, <3>1, <3>2 DEF SettledInv, SettledBundlesVerify
  <2>. QED
    BY <2>2, <2>3, <2>5 DEF SettledInv
<1>2. ASSUME NEW p \in Parts, CopyFile(p)
      PROVE  SettledInv'
  <2>1. /\ create.pc = "copy" /\ create' = [create EXCEPT !.todo = create.todo \ {p}]
        /\ UNCHANGED <<newest, prune, orphans>>
        /\ p \in DOMAIN inst \cup Optional
        /\ bundles' = IF p \in DOMAIN inst
                      THEN [bundles EXCEPT ![newest].files = Written(bundles[newest].files, p, inst[p])]
                      ELSE bundles
    BY <1>0, <1>2 DEF CopyFile, CopiesNext, histories
  <2>2. create'.id = newest /\ create'.pc = "copy" /\ create'.todo = create.todo \ {p}
    BY <1>0, <2>1 DEF Shape, TypeOK
  <2>3. Made'
    <3>1. CASE p \in DOMAIN inst
      <4>1. DOMAIN Written(bundles[newest].files, p, inst[p]) = DOMAIN bundles[newest].files \cup {p}
        BY <1>0, <2>1, <3>1, BundlesAre, ContentIs, WrittenIs
      <4>2. bundles'[newest].files = Written(bundles[newest].files, p, inst[p])
        BY <1>0, <2>1, <3>1 DEF Bundle
      <4>. QED
        BY <2>1, <2>2, <4>1, <4>2 DEF Made, SettledInv
    <3>2. CASE p \notin DOMAIN inst
      <4>1. p \notin {"db", "config"}
        BY <2>1, <3>2 DEF Optional
      <4>. QED
        BY <2>1, <2>2, <3>2, <4>1 DEF Made, SettledInv
    <3>. QED
      BY <3>1, <3>2
  <2>4. \A b \in Ids \ {newest} : bundles'[b] = bundles[b]
    BY <1>0, <2>1
  <2>. QED
    BY <2>1, <2>2, <2>3, <2>4, SettledOfCreate
<1>3. CASE WriteManifest
  <2>. DEFINE m == [mode |-> create.mode,
                    incl |-> {"adapter", "config"} \cup (create.opts \cap DOMAIN bundles[newest].files)]
  <2>1. /\ create.pc = "copy" /\ create.todo = {} /\ create' = [create EXCEPT !.pc = "sums"]
        /\ UNCHANGED <<newest, prune, orphans>>
        /\ bundles' = [bundles EXCEPT ![newest].man = m]
    BY <1>0, <1>3 DEF WriteManifest, histories
  <2>2. create'.id = newest /\ create'.pc = "sums"
    BY <1>0, <2>1 DEF Shape, TypeOK
  <2>3. bundles'[newest].man = m /\ bundles'[newest].files = bundles[newest].files
    BY <1>0, <2>1 DEF Bundle
  <2>4. ASSUME NEW s \in m.incl
        PROVE  Holds(s) \cap DOMAIN bundles[newest].files # {}
    <3>1. {"db", "config"} \subseteq DOMAIN bundles[newest].files
      BY <2>1 DEF SettledInv, Made
    <3>2. s = "adapter" \/ s = "config" \/ s \in DOMAIN bundles[newest].files
      BY <2>4
    <3>3. s # "adapter" => Holds(s) = {s}
      BY DEF Holds
    <3>4. s = "adapter" => "db" \in Holds(s)
      BY DEF Holds
    <3>. QED
      BY <3>1, <3>2, <3>3, <3>4
  <2>5. Made'
    <3>. HIDE DEF m
    <3>. QED
      BY <2>1, <2>2, <2>3, <2>4 DEF Made, HasAll
  <2>6. \A b \in Ids \ {newest} : bundles'[b] = bundles[b]
    BY <1>0, <2>1
  <2>. QED
    BY <2>1, <2>2, <2>5, <2>6, SettledOfCreate
<1>4. CASE WriteChecksums
  <2>1. /\ create.pc = "sums" /\ create'.pc = "idle"
        /\ UNCHANGED <<newest, prune, orphans>>
        /\ bundles' = [bundles EXCEPT ![newest].sums = SumsOf(newest)]
    BY <1>0, <1>4 DEF WriteChecksums, histories, CreateIdle
  <2>2. /\ bundles'[newest].man = bundles[newest].man /\ bundles'[newest].files = bundles[newest].files
        /\ bundles'[newest].sums = SumsOf(newest)
    BY <1>0, <2>1 DEF Bundle
  <2>3. newest \in Readable' => Verifies(newest)'
    <3>1. HasAll(newest, bundles[newest].man.incl)
      BY <2>1 DEF SettledInv, Made
    <3>. QED
      BY <2>1, <2>2, <3>1 DEF HasAll, Verifies, SumsMatch, SumsOf
  <2>4. Made'
    BY <2>1 DEF Made
  <2>5. \A b \in Ids \ {newest} : bundles'[b] = bundles[b]
    BY <1>0, <2>1
  <2>. QED
    BY <2>1, <2>3, <2>4, <2>5, SettledOfCreate
<1>5. CASE CreateDies
  <2>1. /\ create.pc # "idle" /\ create'.pc = "idle"
        /\ UNCHANGED <<newest, prune>>
        /\ \/ orphans' = orphans \cup {newest} /\ UNCHANGED bundles
           \/ /\ bundles' = [bundles EXCEPT ![newest] = NoBundle]
              /\ orphans' = orphans \ {newest}
    BY <1>0, <1>5 DEF CreateDies, Forget, CreateIdle
  <2>2. newest \notin Readable' \ orphans'
    BY <1>0, <2>1 DEF Readable, NoBundle
  <2>3. Made'
    BY <2>1 DEF Made
  <2>4. \A b \in Ids \ {newest} : bundles'[b] = bundles[b]
    BY <1>0, <2>1
  <2>. QED
    BY <2>1, <2>2, <2>3, <2>4, SettledOfCreate
<1>. QED
  BY <1>1, <1>2, <1>3, <1>4, <1>5 DEF CreateStep

\* The other bundles, when pruning works on the bundle c.
LEMMA SettledOfPrune ==
    ASSUME Shape, SettledInv, UNCHANGED <<newest, create>>,
           NEW c \in Ids, c # create.id, prune.id \in {0, c}, Trimmed',
           \A b \in Ids \ {c} : bundles'[b] = bundles[b],
           orphans' \ {c} = orphans \ {c},
           c \in Readable' \ orphans' => prune'.id = c \/ Verifies(c)'
    PROVE  SettledInv'
<1>1. create.pc # "idle" => create.id = newest /\ newest \in Ids \ {c}
  BY BackupConstants DEF Shape, Placed, TypeOK, Ids
<1>2. Made'
  BY <1>1 DEF SettledInv, Made, HasAll
<1>3. ASSUME NEW b \in Readable' \ orphans'
      PROVE  b \in {create'.id, prune'.id} \/ Verifies(b)'
  <2>1. CASE b = c
    BY <2>1
  <2>2. CASE b # c
    <3>1. b \in Ids /\ b \in Readable \ orphans /\ b # 0
      BY <2>2, VerifiesStays DEF Readable, Ids
    <3>2. b = create.id \/ Verifies(b)
      BY <2>2, <3>1 DEF SettledInv, SettledBundlesVerify
    <3>. QED
      BY <2>2, <3>1, <3>2, VerifiesStays
  <2>. QED
    BY <2>1, <2>2
<1>4. SettledBundlesVerify'
  BY <1>3 DEF SettledBundlesVerify
<1>. QED
  BY <1>2, <1>4 DEF SettledInv

\* Pruning takes no bundle in hand, and lets none go.
LEMMA SettledWaits ==
    ASSUME Shape, SettledInv, UNCHANGED <<newest, create, bundles, orphans>>,
           prune'.id = prune.id, prune'.pc \in {"idle", "remove"}
    PROVE  SettledInv'
BY DEF SettledInv, Made, Trimmed, SettledBundlesVerify, HasAll, Verifies, Readable, SumsMatch

\* A pruning leaves a bundle that verifies, or has not ended.
LEMMA SettledPrune == Shape /\ SettledInv /\ PruneStep => SettledInv'
<1>. SUFFICES ASSUME Shape, SettledInv, PruneStep
              PROVE  SettledInv'
  OBVIOUS
<1>0. /\ bundles \in [Ids -> Bundle]
      /\ newest \in Nat /\ 1..newest \subseteq Ids /\ 0 \notin Ids
      /\ prune \in Pruning(newest)
      /\ create.pc # "idle" => create.id \notin prune.doomed \cup prune.trims
      /\ create.pc = "idle" => create.id = 0
      /\ prune.pc = "idle" => prune = PruneIdle
      /\ prune.pc = "remove" /\ prune.id # 0 => prune.id \in prune.doomed
      /\ prune.pc \in {"manifest", "sums"} => prune.id \in Readable \ {create.id}
  BY BackupConstants DEF Shape, Placed, TypeOK, Ids, Pruning
<1>1. ASSUME NEW trim \in BOOLEAN, PruneBackups(trim)
      PROVE  SettledInv'
  BY <1>0, <1>1, SettledWaits DEF PruneBackups, PruneIdle, histories
<1>2. ASSUME NEW b \in Ids, RemoveFile(b)
      PROVE  SettledInv'
  <2>1. /\ prune.pc = "remove" /\ b \in prune.doomed /\ prune.id \in {0, b}
        /\ prune' = [prune EXCEPT !.id = b]
        /\ UNCHANGED <<newest, create, orphans>>
        /\ \A x \in Ids \ {b} : bundles'[x] = bundles[x]
    BY <1>0, <1>2 DEF RemoveFile, histories
  <2>2. prune'.pc = "remove" /\ prune'.id = b /\ b # create.id
    BY <1>0, <2>1 DEF Pruning
  <2>3. Trimmed'
    BY <2>2 DEF Trimmed
  <2>. QED
    BY <2>1, <2>2, <2>3, SettledOfPrune
<1>3. ASSUME NEW b \in Ids, RemoveManifest(b)
      PROVE  SettledInv'
  <2>1. /\ prune.pc = "remove" /\ b \in prune.doomed /\ prune.id \in {0, b}
        /\ prune' = [prune EXCEPT !.id = 0, !.doomed = prune.doomed \ {b}]
        /\ UNCHANGED <<newest, create>> /\ orphans' = orphans \ {b}
        /\ bundles' = [bundles EXCEPT ![b] = NoBundle]
    BY <1>0, <1>3 DEF RemoveManifest, Forget
  <2>2. prune'.pc = "remove" /\ b # create.id
    BY <1>0, <2>1 DEF Pruning
  <2>3. Trimmed'
    BY <2>2 DEF Trimmed
  <2>4. b \notin Readable' /\ \A x \in Ids \ {b} : bundles'[x] = bundles[x]
    BY <1>0, <2>1 DEF Readable, NoBundle
  <2>. QED
    BY <2>1, <2>2, <2>3, <2>4, SettledOfPrune
<1>4. ASSUME NEW b \in Ids, TrimLogs(b)
      PROVE  SettledInv'
  <2>1. /\ prune.pc = "remove" /\ prune.doomed = {} /\ b \in prune.trims /\ b \in Readable
        /\ UNCHANGED <<newest, create, orphans>>
    BY <1>4 DEF TrimLogs, histories
  <2>2. prune.id = 0 /\ b # create.id
    BY <1>0, <2>1 DEF Pruning
  <2>3. CASE /\ bundles' = [bundles EXCEPT ![b].files =
                              Restrict(bundles[b].files, DOMAIN bundles[b].files \ {"logs"})]
             /\ prune' = [prune EXCEPT !.pc = "manifest", !.id = b, !.trims = prune.trims \ {b}]
    <3>1. prune'.pc = "manifest" /\ prune'.id = b
      BY <1>0, <2>3 DEF Pruning
    <3>2. /\ bundles'[b].man = bundles[b].man
          /\ bundles'[b].files = Restrict(bundles[b].files, DOMAIN bundles[b].files \ {"logs"})
          /\ \A x \in Ids \ {b} : bundles'[x] = bundles[x]
      BY <1>0, <2>3 DEF Bundle
    <3>3. DOMAIN bundles'[b].files = DOMAIN bundles[b].files \ {"logs"}
      BY <3>2, BundlesAre, RestrictIs
    <3>4. b \notin orphans => HasAll(b, bundles[b].man.incl)
      <4>1. b # 0
        BY <1>0
      <4>. QED
        BY <2>1, <2>2, <4>1 DEF SettledInv, SettledBundlesVerify, Verifies, HasAll
    <3>5. ASSUME NEW s \in bundles[b].man.incl \ {"logs"}, b \notin orphans
          PROVE  Holds(s) \cap DOMAIN bundles'[b].files # {}
      <4>1. "logs" \notin Holds(s)
        BY DEF Holds
      <4>2. Holds(s) \cap DOMAIN bundles[b].files # {}
        BY <3>4, <3>5 DEF HasAll
      <4>. QED
        BY <3>3, <4>1, <4>2
    <3>6. Trimmed'
      BY <2>1, <3>1, <3>2, <3>5 DEF Trimmed, HasAll
    <3>. QED
      BY <2>1, <2>2, <3>1, <3>2, <3>6, SettledOfPrune
  <2>4. CASE bundles' = bundles /\ prune' = [prune EXCEPT !.trims = prune.trims \ {b}]
    <3>1. prune'.pc = "remove" /\ prune'.id = prune.id
      BY <1>0, <2>1, <2>4 DEF Pruning
    <3>. QED
      BY <2>1, <2>4, <3>1, SettledWaits
  <2>. QED
    BY <1>4, <2>3, <2>4 DEF TrimLogs
<1>t. prune.pc \in {"manifest", "sums"} => prune.id \in Ids /\ prune.id # create.id
  BY <1>0 DEF Readable
<1>5. CASE TrimManifest
  <2>1. /\ prune.pc = "manifest" /\ prune' = [prune EXCEPT !.pc = "sums"]
        /\ UNCHANGED <<newest, create, orphans>>
        /\ bundles' = [bundles EXCEPT ![prune.id].man.incl = bundles[prune.id].man.incl \ {"logs"}]
    BY <1>5 DEF TrimManifest, histories
  <2>2. prune'.pc = "sums" /\ prune'.id = prune.id
    BY <1>0, <2>1 DEF Pruning
  <2>3. bundles[prune.id].man \in Manifest
    BY <1>0, <2>1, BundlesAre DEF Readable
  <2>4. /\ bundles'[prune.id].man.incl = bundles[prune.id].man.incl \ {"logs"}
        /\ bundles'[prune.id].files = bundles[prune.id].files
        /\ \A x \in Ids \ {prune.id} : bundles'[x] = bundles[x]
    BY <1>0, <1>t, <2>1, <2>3 DEF Bundle, Manifest
  <2>5. Trimmed'
    BY <2>1, <2>2, <2>4 DEF SettledInv, Trimmed, HasAll
  <2>. QED
    BY <1>t, <2>1, <2>2, <2>4, <2>5, SettledOfPrune
<1>6. ASSUME NEW c \in Ids, c = prune.id, TrimChecksums
      PROVE  SettledInv'
  <2>1. /\ prune.pc = "sums" /\ prune' = [prune EXCEPT !.pc = "remove", !.id = 0]
        /\ UNCHANGED <<newest, create, orphans>>
        /\ bundles' = [bundles EXCEPT ![c].sums = SumsOf(c)]
    BY <1>6 DEF TrimChecksums, histories
  <2>2. prune'.pc = "remove"
    BY <1>0, <2>1 DEF Pruning
  <2>3. /\ bundles'[c].man = bundles[c].man
        /\ bundles'[c].files = bundles[c].files
        /\ bundles'[c].sums = SumsOf(c)
        /\ \A x \in Ids \ {c} : bundles'[x] = bundles[x]
    BY <1>0, <2>1 DEF Bundle
  <2>4. c \notin orphans => HasAll(c, bundles[c].man.incl)
    BY <1>6, <2>1 DEF SettledInv, Trimmed, HasAll
  <2>5. c \notin orphans => Verifies(c)'
    <3>1. c \in Readable'
      BY <1>0, <1>6, <2>1, <2>3 DEF Readable
    <3>2. c \notin orphans =>
            \A s \in bundles'[c].man.incl : Holds(s) \cap DOMAIN bundles'[c].files # {}
      BY <2>3, <2>4 DEF HasAll
    <3>. QED
      BY <2>3, <3>1, <3>2 DEF Verifies, SumsMatch, SumsOf
  <2>6. Trimmed'
    BY <2>2 DEF Trimmed
  <2>. QED
    BY <1>t, <1>6, <2>1, <2>3, <2>5, <2>6, SettledOfPrune
<1>7. CASE PruneEnds
  <2>1. prune.id = 0 /\ prune' = PruneIdle /\ UNCHANGED <<newest, create, bundles, orphans>>
    BY <1>0, <1>7 DEF PruneEnds, histories
  <2>. QED
    BY <2>1, SettledWaits DEF PruneIdle
<1>8. CASE PruneDies
  <2>1. /\ prune.pc # "idle" /\ prune' = PruneIdle /\ orphans' = orphans \cup ({prune.id} \ {0})
        /\ UNCHANGED <<newest, create>>
        /\ \/ bundles' = bundles
           \/ prune.pc = "manifest" /\ bundles' = [bundles EXCEPT ![prune.id].man = NoManifest]
    BY <1>8 DEF PruneDies
  <2>2. CASE prune.id = 0
    <3>1. bundles' = bundles /\ orphans' = orphans
      BY <1>0, <1>t, <2>1, <2>2
    <3>. QED
      BY <2>1, <2>2, <3>1, SettledWaits DEF PruneIdle
  <2>3. CASE prune.id # 0
    <3>1. prune.id \in Ids /\ prune.id # create.id
      BY <1>0, <1>t, <2>1, <2>3 DEF Pruning
    <3>2. prune.id \in orphans' /\ orphans' \ {prune.id} = orphans \ {prune.id}
      BY <2>1, <2>3
    <3>3. \A x \in Ids \ {prune.id} : bundles'[x] = bundles[x]
      BY <1>0, <2>1
    <3>4. Trimmed'
      BY <2>1 DEF Trimmed, PruneIdle
    <3>. QED
      BY <2>1, <3>1, <3>2, <3>3, <3>4, SettledOfPrune
  <2>. QED
    BY <2>2, <2>3
<1>9. CASE TrimChecksums
  <2>1. prune.pc = "sums"
    BY <1>9 DEF TrimChecksums
  <2>. QED
    BY <1>t, <1>6, <1>9, <2>1
<1>. QED
  BY <1>1, <1>2, <1>3, <1>4, <1>5, <1>7, <1>8, <1>9 DEF PruneStep

\* SettledInv holds in every state.
LEMMA SettledCorrect == Spec => []SettledInv
<1>1. Init => SettledInv
  BY DEF Init, CreateIdle, PruneIdle, SettledInv, Made, Trimmed, SettledBundlesVerify, Readable, NoBundle
<1>2. Shape /\ SettledInv /\ (AdapterStep \/ RestoreStep \/ UNCHANGED vars) => SettledInv'
  <2>1. AdapterStep \/ RestoreStep \/ UNCHANGED vars
          => UNCHANGED <<bundles, create, prune, newest, orphans>>
    BY DEF AdapterStep, RestoreStep, Commit, Checkpoint, Stop, Start, Edit, RestoreBackup,
           CopySection, CreateSafetyCopy, RemoveTarget, PutLogsBack, RestoreDies, RestoreEnds,
           jobs, histories, vars
  <2>. QED
    BY <2>1, SettledStays
<1>3. Shape /\ Shape' /\ SettledInv /\ [Next]_vars => SettledInv'
  BY <1>2, NextIs, SettledCreate, SettledPrune
<1>. QED
  BY <1>1, <1>3, ShapeCorrect, PTL DEF Spec

\* A bundle that no command is at work on, and that none has died on, verifies
\* (createBackup, trimLogs, verifyBackup).
THEOREM SettledVerify == Spec => []SettledBundlesVerify
<1>1. SettledInv => SettledBundlesVerify
  BY DEF SettledInv
<1>. QED
  BY <1>1, SettledCorrect, PTL

-----------------------------------------------------------------------------
(* What pruning keeps *)

\* A subset of bundles is finite and counts no more than the set.
LEMMA SubsetsCount ==
    ASSUME NEW S \in SUBSET Ids, NEW T \in SUBSET S
    PROVE  /\ IsFiniteSet(S) /\ Cardinality(S) \in Nat /\ Cardinality(T) \in Nat
           /\ Cardinality(T) <= Cardinality(S)
<1>1. IsFiniteSet(Ids)
  BY FS_Interval, BackupConstants DEF Ids
<1>2. IsFiniteSet(S) /\ IsFiniteSet(T)
  BY <1>1, FS_Subset
<1>. QED
  BY <1>2, FS_Subset, FS_CardinalityType

\* A set of bundles has a newest.
LEMMA NewestOf ==
    ASSUME NEW D \in SUBSET Ids, D # {}
    PROVE  \E m \in D : \A d \in D : d <= m
<1>. DEFINE All == {Newer(D, d) : d \in D}
<1>1. IsFiniteSet(D) /\ \A d \in D : d \in Nat
  <2>1. D \in SUBSET D
    OBVIOUS
  <2>2. IsFiniteSet(D)
    BY <2>1, SubsetsCount
  <2>3. \A d \in D : d \in Nat
    BY BackupConstants DEF Ids
  <2>. QED
    BY <2>2, <2>3
<1>2. \A d \in D : Newer(D, d) \in SUBSET D
  BY DEF Newer
<1>3. All \subseteq FiniteSubsetsOf(D)
  BY <1>1, <1>2, FS_Subset DEF FiniteSubsetsOf
<1>4. PICK x \in All : \A y \in All : <<y, x>> \notin StrictSubsetOrdering(D)
  <2>1. All # {}
    OBVIOUS
  <2>. HIDE DEF All
  <2>. QED
    BY <1>3, <2>1, FS_StrictSubsetOrderingWellFounded, WFMin
<1>5. PICK m \in D : x = Newer(D, m)
  OBVIOUS
<1>6. ASSUME NEW d \in D, d > m
      PROVE  FALSE
  <2>1. \A e \in D : e > d => e > m
    BY <1>1, <1>6
  <2>2. Newer(D, d) \subseteq Newer(D, m)
    BY <2>1 DEF Newer
  <2>3. d \in Newer(D, m) /\ d \notin Newer(D, d)
    BY <1>1, <1>6 DEF Newer
  <2>4. <<Newer(D, d), Newer(D, m)>> \in StrictSubsetOrdering(D)
    BY <1>2, <2>2, <2>3 DEF StrictSubsetOrdering
  <2>. QED
    BY <1>4, <1>5, <2>4
<1>. QED
  BY <1>1, <1>6

\* Whatever lies beyond the bundles to keep has as many newer that do not.
LEMMA NewerAreSpared ==
    ASSUME NEW B \in SUBSET Ids, NEW keep \in Nat, NEW b \in Beyond(B, keep)
    PROVE  Cardinality(Newer(B \ Beyond(B, keep), b)) >= keep
<1>. DEFINE D == Beyond(B, keep)
<1>0. b \in D /\ D \subseteq B
  BY DEF Beyond
<1>1. D \in SUBSET Ids /\ D # {} /\ \A x \in B : x \in Nat
  <2>1. \A x \in Ids : x \in Nat
    BY BackupConstants DEF Ids
  <2>2. D # {}
    BY <1>0
  <2>. QED
    BY <1>0, <2>1, <2>2
<1>2. \A m \in D : m \in B /\ Cardinality(Newer(B, m)) >= keep
  BY DEF Beyond
<1>. HIDE DEF D
<1>3. PICK m \in D : \A d \in D : d <= m
  BY <1>1, NewestOf
<1>4. \A c \in B : c > m => c \notin D /\ c > b
  BY <1>0, <1>1, <1>2, <1>3
<1>5. Newer(B, m) \subseteq Newer(B \ D, b) /\ Newer(B \ D, b) \in SUBSET Ids
  BY <1>4 DEF Newer
<1>6. /\ Cardinality(Newer(B, m)) <= Cardinality(Newer(B \ D, b))
      /\ Cardinality(Newer(B, m)) \in Nat /\ Cardinality(Newer(B \ D, b)) \in Nat
  BY <1>5, SubsetsCount
<1>. QED
  BY <1>2, <1>6 DEF D

\* The newer bundles of the mode of b that pruning spares.
Spared(b) == Newer(OfMode(bundles[b].man.mode) \ prune.doomed, b)

\* A bundle that is to be removed has enough of them.
Replaced ==
    \A b \in prune.doomed :
        /\ b \in Readable
        /\ Cardinality(Spared(b)) >= Keep(bundles[b].man.mode)

\* Steps that remove no manifest of a bundle that is spared, and doom none.
LEMMA ReplacedStays ==
    ASSUME Shape, Shape', Replaced, prune'.doomed \subseteq prune.doomed,
           \A b \in Readable : \/ b \in prune.doomed /\ b \notin prune'.doomed
                               \/ b \in Readable' /\ bundles'[b].man.mode = bundles[b].man.mode
    PROVE  Replaced'
<1>. SUFFICES ASSUME NEW b \in prune'.doomed
              PROVE  b \in Readable' /\ Cardinality(Spared(b))' >= Keep(bundles'[b].man.mode)
  BY DEF Replaced
<1>1. b \in Readable /\ b \in Readable' /\ bundles'[b].man.mode = bundles[b].man.mode
  BY DEF Replaced
<1>2. Spared(b) \subseteq Spared(b)' /\ Spared(b)' \in SUBSET Ids
  BY <1>1 DEF Spared, OfMode, Readable, Newer
<1>3. /\ Cardinality(Spared(b)) <= Cardinality(Spared(b)')
      /\ Cardinality(Spared(b)) \in Nat /\ Cardinality(Spared(b)') \in Nat
  BY <1>2, SubsetsCount
<1>4. Cardinality(Spared(b)) >= Keep(bundles[b].man.mode)
  BY DEF Replaced
<1>5. Keep(bundles[b].man.mode) \in Nat
  BY BackupConstants DEF Keep
<1>. QED
  BY <1>1, <1>3, <1>4, <1>5

\* A creation changes no manifest that is there.
LEMMA ManifestsStay ==
    ASSUME Shape, CreateStep, NEW b \in Readable
    PROVE  bundles'[b].man = bundles[b].man
<1>0. /\ bundles \in [Ids -> Bundle]
      /\ create.pc # "idle" => newest \in Ids /\ create.id = newest
      /\ create.pc = "copy" => newest \notin Readable
  BY BackupConstants DEF Shape, Placed, TypeOK, Ids, Readable
<1>1. CASE \E mode \in Modes, opts \in SUBSET Optional : CreateBackup(mode, opts)
  BY <1>1 DEF CreateBackup
<1>2. CASE (\E p \in Parts : CopyFile(p)) \/ WriteManifest
  <2>1. create.pc = "copy" /\ \A x \in Ids \ {create.id} : bundles'[x] = bundles[x]
    BY <1>0, <1>2 DEF CopyFile, CopiesNext, WriteManifest
  <2>. QED
    BY <1>0, <2>1 DEF Readable
<1>3. CASE WriteChecksums
  BY <1>0, <1>3 DEF WriteChecksums, Bundle, Readable
<1>4. CASE CreateDies
  <2>1. CASE create.id \in Readable
    BY <1>4, <2>1 DEF CreateDies
  <2>2. CASE create.id \notin Readable
    BY <1>0, <1>4, <2>2 DEF CreateDies, Readable
  <2>. QED
    BY <2>1, <2>2
<1>. QED
  BY <1>1, <1>2, <1>3, <1>4 DEF CreateStep

\* Every step keeps the newer bundles that make a doomed one superfluous.
LEMMA ReplacedStep == Shape /\ Shape' /\ Replaced /\ [Next]_vars => Replaced'
<1>. SUFFICES ASSUME Shape, Shape', Replaced, [Next]_vars
              PROVE  Replaced'
  OBVIOUS
<1>0. /\ bundles \in [Ids -> Bundle] /\ prune \in Pruning(newest)
      /\ create.pc # "idle" => newest \in Ids /\ create.id = newest
      /\ create.pc = "copy" => newest \notin Readable
      /\ prune.pc \in {"manifest", "sums"} => prune.id \in Readable
  BY BackupConstants DEF Shape, Placed, TypeOK, Ids, Pruning, Readable
<1>a. ASSUME UNCHANGED bundles, prune'.doomed \subseteq prune.doomed
      PROVE  Replaced'
  BY <1>a, ReplacedStays DEF Readable
<1>1. CASE AdapterStep \/ RestoreStep \/ UNCHANGED vars
  <2>1. UNCHANGED <<bundles, prune>>
    BY <1>1 DEF AdapterStep, RestoreStep, Commit, Checkpoint, Stop, Start, Edit, RestoreBackup,
           CopySection, CreateSafetyCopy, RemoveTarget, PutLogsBack, RestoreDies, RestoreEnds,
           jobs, histories, vars
  <2>. QED
    BY <1>a, <2>1
<1>2. CASE CreateStep
  <2>1. prune' = prune
    BY <1>2 DEF CreateStep, CreateBackup, CopyFile, WriteManifest, WriteChecksums, CreateDies
  <2>2. \A b \in Readable : bundles'[b].man = bundles[b].man
    BY <1>2, ManifestsStay
  <2>. QED
    BY <2>1, <2>2, ReplacedStays DEF Readable
<1>3. ASSUME NEW trim \in BOOLEAN, PruneBackups(trim)
      PROVE  Replaced'
  <2>1. prune'.doomed = Doomed /\ bundles' = bundles
    BY <1>3 DEF PruneBackups
  <2>2. ASSUME NEW b \in Doomed
        PROVE  b \in Readable /\ Cardinality(Spared(b))' >= Keep(bundles[b].man.mode)
    <3>1. PICK mode \in Modes : b \in Beyond(OfMode(mode), Keep(mode))
      BY DEF Doomed
    <3>2. b \in Readable /\ bundles[b].man.mode = mode /\ b \in Ids
      BY <3>1 DEF Beyond, OfMode, Readable
    <3>3. OfMode(mode) \in SUBSET Ids /\ Keep(mode) \in Nat
      BY BackupConstants DEF OfMode, Readable, Keep
    <3>4. Cardinality(Newer(OfMode(mode) \ Beyond(OfMode(mode), Keep(mode)), b)) >= Keep(mode)
      BY <3>1, <3>3, NewerAreSpared
    <3>5. OfMode(mode) \ Beyond(OfMode(mode), Keep(mode)) = OfMode(mode) \ Doomed
      <4>1. ASSUME NEW x \in OfMode(mode), x \in Doomed
            PROVE  x \in Beyond(OfMode(mode), Keep(mode))
        <5>1. PICK other \in Modes : x \in Beyond(OfMode(other), Keep(other))
          BY <4>1 DEF Doomed
        <5>2. other = mode
          BY <5>1 DEF Beyond, OfMode
        <5>. QED
          BY <5>1, <5>2
      <4>2. Beyond(OfMode(mode), Keep(mode)) \subseteq Doomed
        BY DEF Doomed
      <4>. QED
        BY <4>1, <4>2
    <3>6. OfMode(mode)' = OfMode(mode)
      BY <2>1 DEF OfMode, Readable
    <3>7. Spared(b)' = Newer(OfMode(mode) \ Doomed, b)
      BY <2>1, <3>2, <3>6 DEF Spared
    <3>. QED
      BY <3>2, <3>4, <3>5, <3>7
  <2>. QED
    BY <2>1, <2>2 DEF Replaced, Readable
<1>4. ASSUME NEW b \in Ids, RemoveFile(b) \/ TrimLogs(b)
      PROVE  Replaced'
  <2>1. /\ \A x \in Ids : bundles'[x].man = bundles[x].man
        /\ prune'.doomed = prune.doomed
    <3>1. CASE RemoveFile(b)
      <4>1. PICK f : bundles' = [bundles EXCEPT ![b].files = f]
        BY <3>1 DEF RemoveFile
      <4>2. prune' = [prune EXCEPT !.id = b]
        BY <3>1 DEF RemoveFile
      <4>. QED
        BY <1>0, <4>1, <4>2 DEF Bundle, Pruning
    <3>2. CASE TrimLogs(b)
      <4>1. CASE UNCHANGED bundles /\ prune' = [prune EXCEPT !.trims = prune.trims \ {b}]
        BY <1>0, <4>1 DEF Pruning
      <4>2. ASSUME NEW f, bundles' = [bundles EXCEPT ![b].files = f],
                   prune' = [prune EXCEPT !.pc = "manifest", !.id = b, !.trims = prune.trims \ {b}]
            PROVE  /\ \A x \in Ids : bundles'[x].man = bundles[x].man
                   /\ prune'.doomed = prune.doomed
        BY <1>0, <4>2 DEF Bundle, Pruning
      <4>. QED
        BY <3>2, <4>1, <4>2 DEF TrimLogs
    <3>. QED
      BY <1>4, <3>1, <3>2
  <2>. QED
    BY <2>1, ReplacedStays DEF Readable
<1>5. ASSUME NEW b \in Ids, RemoveManifest(b)
      PROVE  Replaced'
  <2>1. /\ \A x \in Ids \ {b} : bundles'[x] = bundles[x]
        /\ prune'.doomed = prune.doomed \ {b} /\ b \in prune.doomed
    BY <1>0, <1>5 DEF RemoveManifest, Pruning
  <2>2. ASSUME NEW x \in Readable, x # b
        PROVE  x \in Readable' /\ bundles'[x].man.mode = bundles[x].man.mode
    BY <2>1, <2>2 DEF Readable
  <2>3. prune'.doomed \subseteq prune.doomed /\ b \in prune.doomed \ prune'.doomed
    BY <2>1
  <2>4. \A x \in Readable : \/ x \in prune.doomed /\ x \notin prune'.doomed
                            \/ x \in Readable' /\ bundles'[x].man.mode = bundles[x].man.mode
    BY <2>2, <2>3
  <2>. QED
    BY <2>3, <2>4, ReplacedStays
<1>6. CASE TrimManifest \/ TrimChecksums
  <2>1. prune.id \in Readable /\ prune.id \in Ids /\ bundles[prune.id].man \in Manifest
    BY <1>0, <1>6, BundlesAre DEF TrimManifest, TrimChecksums, Readable
  <2>2. /\ \A x \in Ids \ {prune.id} : bundles'[x] = bundles[x]
        /\ bundles'[prune.id].man.mode = bundles[prune.id].man.mode
        /\ prune'.doomed = prune.doomed
    <3>1. CASE TrimManifest
      BY <1>0, <2>1, <3>1 DEF TrimManifest, Bundle, Manifest, Pruning
    <3>2. CASE TrimChecksums
      BY <1>0, <2>1, <3>2 DEF TrimChecksums, Bundle, Pruning
    <3>. QED
      BY <1>6, <3>1, <3>2
  <2>3. bundles[prune.id].man.mode # NoManifest.mode
    BY <2>1 DEF Manifest, NoManifest, Modes
  <2>4. prune.id \in Readable \cap Readable'
    BY <2>1, <2>2, <2>3 DEF Readable
  <2>. QED
    BY <2>2, <2>4, ReplacedStays DEF Readable
<1>7. CASE PruneEnds \/ PruneDies
  BY <1>7 DEF PruneEnds, PruneDies, PruneIdle, Replaced
<1>. QED
  BY <1>1, <1>2, <1>3, <1>4, <1>5, <1>6, <1>7, NextIs DEF PruneStep

\* Outside a removal, only the logs of a bundle change.
LEMMA StateStays ==
    ASSUME Shape, [Next]_vars, NEW b \in Readable, StateOf(b)' # StateOf(b)
    PROVE  b \in prune.doomed
<1>. SUFFICES ASSUME b \notin prune.doomed
              PROVE  StateOf(b)' = StateOf(b)
  OBVIOUS
<1>0. /\ bundles \in [Ids -> Bundle] /\ b \in Ids
      /\ create.pc # "idle" => newest \in Ids /\ create.id = newest
      /\ create.pc = "copy" => newest \notin Readable
      /\ prune.pc \in {"manifest", "sums"} => prune.id \in Ids
  BY BackupConstants DEF Shape, Placed, TypeOK, Ids, Readable
<1>a. ASSUME bundles'[b].files = bundles[b].files
      PROVE  StateOf(b)' = StateOf(b)
  BY <1>a DEF StateOf
<1>1. CASE AdapterStep \/ RestoreStep \/ UNCHANGED vars
  <2>1. UNCHANGED bundles
    BY <1>1 DEF AdapterStep, RestoreStep, Commit, Checkpoint, Stop, Start, Edit, RestoreBackup,
           CopySection, CreateSafetyCopy, RemoveTarget, PutLogsBack, RestoreDies, RestoreEnds, vars
  <2>. QED
    BY <1>a, <2>1
<1>2. CASE CreateStep
  <2>1. CASE \E mode \in Modes, opts \in SUBSET Optional : CreateBackup(mode, opts)
    BY <1>a, <2>1 DEF CreateBackup
  <2>2. CASE (\E p \in Parts : CopyFile(p)) \/ WriteManifest
    <3>1. create.pc = "copy" /\ \A x \in Ids \ {create.id} : bundles'[x] = bundles[x]
      BY <1>0, <2>2 DEF CopyFile, CopiesNext, WriteManifest
    <3>. QED
      BY <1>0, <1>a, <3>1
  <2>3. CASE WriteChecksums
    BY <1>0, <1>a, <2>3 DEF WriteChecksums, Bundle
  <2>4. CASE CreateDies
    <3>1. CASE create.id \in Readable
      BY <1>a, <2>4, <3>1 DEF CreateDies
    <3>2. CASE create.id \notin Readable
      BY <1>0, <1>a, <2>4, <3>2 DEF CreateDies
    <3>. QED
      BY <3>1, <3>2
  <2>. QED
    BY <1>2, <2>1, <2>2, <2>3, <2>4 DEF CreateStep
<1>3. ASSUME NEW trim \in BOOLEAN, PruneBackups(trim)
      PROVE  StateOf(b)' = StateOf(b)
  BY <1>3, <1>a DEF PruneBackups
<1>4. ASSUME NEW c \in Ids, RemoveFile(c) \/ RemoveManifest(c)
      PROVE  StateOf(b)' = StateOf(b)
  <2>1. c # b /\ \A x \in Ids \ {c} : bundles'[x] = bundles[x]
    BY <1>0, <1>4 DEF RemoveFile, RemoveManifest
  <2>. QED
    BY <1>0, <1>a, <2>1
<1>5. ASSUME NEW c \in Ids, TrimLogs(c)
      PROVE  StateOf(b)' = StateOf(b)
  <2>. DEFINE f == bundles[c].files
  <2>1. CASE bundles' = [bundles EXCEPT ![c].files = Restrict(f, DOMAIN f \ {"logs"})] /\ c = b
    <3>1. bundles'[b].files = Restrict(f, DOMAIN f \ {"logs"})
      BY <1>0, <2>1 DEF Bundle
    <3>2. /\ DOMAIN Restrict(f, DOMAIN f \ {"logs"}) = DOMAIN f \ {"logs"}
          /\ \A q \in DOMAIN f \ {"logs"} : Restrict(f, DOMAIN f \ {"logs"})[q] = f[q]
      BY DEF Restrict
    <3>. QED
      BY <2>1, <3>1, <3>2 DEF StateOf, Restrict
  <2>2. CASE c # b
    <3>1. bundles'[b] = bundles[b]
      BY <1>0, <1>5, <2>2 DEF TrimLogs
    <3>. QED
      BY <1>a, <3>1
  <2>3. CASE UNCHANGED bundles
    BY <1>a, <2>3
  <2>. QED
    BY <1>5, <2>1, <2>2, <2>3 DEF TrimLogs
<1>6. CASE TrimManifest
  BY <1>0, <1>a, <1>6 DEF TrimManifest, Bundle
<1>7. CASE TrimChecksums
  BY <1>0, <1>a, <1>7 DEF TrimChecksums, Bundle
<1>8. CASE PruneEnds
  BY <1>a, <1>8 DEF PruneEnds
<1>9. CASE PruneDies
  BY <1>0, <1>a, <1>9 DEF PruneDies, Bundle
<1>. QED
  BY <1>1, <1>2, <1>3, <1>4, <1>5, <1>6, <1>7, <1>8, <1>9, NextIs DEF PruneStep

\* Replaced holds in every state.
LEMMA ReplacedCorrect == Spec => []Replaced
<1>1. Init => Replaced
  BY DEF Init, PruneIdle, Replaced
<1>. QED
  BY <1>1, ReplacedStep, ShapeCorrect, PTL DEF Spec

\* Pruning never leaves fewer bundles of a mode than it was asked to keep
\* (pruneGroup).
THEOREM NewestAreKept == Spec => PruneKeepsNewest
<1>1. Shape /\ Replaced /\ [Next]_vars =>
        [\A b \in Readable :
            StateOf(b)' # StateOf(b) =>
                Cardinality(Newer(OfMode(bundles[b].man.mode), b)) >= Keep(bundles[b].man.mode)]_vars
  <2>. SUFFICES ASSUME Shape, Replaced, [Next]_vars,
                       NEW b \in Readable, StateOf(b)' # StateOf(b)
                PROVE  Cardinality(Newer(OfMode(bundles[b].man.mode), b)) >= Keep(bundles[b].man.mode)
    OBVIOUS
  <2>1. Cardinality(Spared(b)) >= Keep(bundles[b].man.mode)
    BY StateStays DEF Replaced
  <2>2. /\ Newer(OfMode(bundles[b].man.mode), b) \in SUBSET Ids
        /\ Spared(b) \subseteq Newer(OfMode(bundles[b].man.mode), b)
    BY DEF Spared, Newer, OfMode, Readable
  <2>3. Keep(bundles[b].man.mode) \in Nat
    BY BackupConstants DEF Keep
  <2>. QED
    BY <2>1, <2>2, <2>3, SubsetsCount
<1>. QED
  BY <1>1, ReplacedCorrect, ShapeCorrect, PTL DEF Spec, PruneKeepsNewest

-----------------------------------------------------------------------------
(* The copies of the database and of its log belong together *)

\* The directories I and J hold the same of the database.
Same(I, J, p) ==
    /\ p \in DOMAIN I <=> p \in DOMAIN J
    /\ p \in DOMAIN I => I[p] = J[p]
SameDatabase(I, J) == Same(I, J, "db") /\ Same(I, J, "wal")

\* What the files F that are copied, the files todo, and the installation I make up
\* together is one of the states D.
Fits(todo, I, F, D) ==
    /\ "db" \in todo =>
         /\ "db" \in DOMAIN I /\ Recovered(I) \in D
         /\ "db" \notin DOMAIN F /\ "wal" \notin DOMAIN F
         /\ "wal" \notin todo => I["db"] \in D
    /\ "db" \notin todo /\ "wal" \in todo =>
         /\ "db" \in DOMAIN I /\ Recovered(I) \in D
         /\ "db" \in DOMAIN F /\ "wal" \notin DOMAIN F
         /\ "wal" \in DOMAIN I => F["db"] \subseteq I["db"] /\ I["db"] \subseteq F["db"] \cup I["wal"]
    /\ "db" \notin todo /\ "wal" \notin todo => "db" \in DOMAIN F /\ Recovered(F) \in D

CopyFits ==
    create.pc = "copy" /\ newest \notin rotated =>
        Fits(create.todo, inst, bundles[newest].files, during[newest])

\* Nothing is in the place where a restore is going to copy to.
Gap ==
    restore.pc = "copy" =>
        \A s \in Sections : IsFirst(s, restore.todo) => Target(s) \cap DOMAIN inst = {}

\* Directories with the same database and log recover to the same.
LEMMA RecoveredSame ==
    ASSUME NEW I, NEW J, SameDatabase(I, J)
    PROVE  "db" \in DOMAIN I => Recovered(I) = Recovered(J)
BY DEF SameDatabase, Same, Recovered

\* What fits goes on fitting while databases and logs stay, and more is observed.
LEMMA FitsStays ==
    ASSUME NEW todo, NEW I, NEW J, NEW F, NEW G, NEW D, NEW E,
           Fits(todo, I, F, D), SameDatabase(I, J), SameDatabase(F, G), D \subseteq E
    PROVE  Fits(todo, J, G, E)
<1>1. /\ "db" \in DOMAIN I => Recovered(I) = Recovered(J)
      /\ "db" \in DOMAIN F => Recovered(F) = Recovered(G)
  BY RecoveredSame
<1>2. /\ "db" \in DOMAIN I <=> "db" \in DOMAIN J
      /\ "wal" \in DOMAIN I <=> "wal" \in DOMAIN J
      /\ "db" \in DOMAIN I => I["db"] = J["db"]
      /\ "wal" \in DOMAIN I => I["wal"] = J["wal"]
      /\ "db" \in DOMAIN F <=> "db" \in DOMAIN G
      /\ "wal" \in DOMAIN F <=> "wal" \in DOMAIN G
      /\ "db" \in DOMAIN F => F["db"] = G["db"]
  BY DEF SameDatabase, Same
<1>. QED
  BY <1>1, <1>2 DEF Fits

\* Writing to another part leaves the database and its log.
LEMMA WrittenOther ==
    ASSUME NEW f \in Files, NEW p \in Parts \ {"db", "wal"}, NEW c \in Changes
    PROVE  SameDatabase(f, Written(f, p, c))
<1>1. /\ DOMAIN Written(f, p, c) = DOMAIN f \cup {p}
      /\ \A q \in DOMAIN f \ {p} : Written(f, p, c)[q] = f[q]
  BY WrittenIs
<1>. QED
  BY <1>1 DEF SameDatabase, Same

\* The file that is copied next.
LEMMA NextIsFirst ==
    ASSUME Shape, create.pc = "copy"
    PROVE  /\ CopiesNext("db") <=> "db" \in create.todo
           /\ CopiesNext("wal") <=> "wal" \in create.todo /\ "db" \notin create.todo
           /\ \A p \in Parts \ {"db", "wal"} :
                CopiesNext(p) => "db" \notin create.todo /\ "wal" \notin create.todo
<1>1. create.todo \subseteq Parts
  BY DEF Shape, TypeOK
<1>. QED
  BY <1>1 DEF CopiesNext, IsFirst, Place, Parts

\* There is one first section.
LEMMA FirstIsOne ==
    ASSUME NEW T, NEW s \in Sections, NEW t \in Sections, IsFirst(s, T), IsFirst(t, T)
    PROVE  s = t
<1>1. Place[s] <= Place[t] /\ Place[t] <= Place[s]
  BY DEF IsFirst
<1>. QED
  BY <1>1 DEF Place, Sections

\* A commit, a checkpoint, a stop and a start keep the copy fitting, or rotate the log.
LEMMA CopyAdapter == Shape /\ CopyFits /\ Gap /\ AdapterStep => CopyFits' /\ Gap'
<1>. SUFFICES ASSUME Shape, CopyFits, Gap, AdapterStep
              PROVE  CopyFits' /\ Gap'
  OBVIOUS
<1>0. /\ inst \in Files /\ UNCHANGED <<bundles, newest, create, restore>>
      /\ restore.pc = "idle" /\ during \in [Ids -> SUBSET Changes]
      /\ create.pc = "copy" => create.id = newest /\ newest \in Ids
      /\ up => "db" \in DOMAIN inst
      /\ last \in 1..MaxChanges
  BY BackupConstants DEF AdapterStep, Commit, Checkpoint, Stop, Start, Edit, jobs, Shape, Placed,
     TypeOK, Changes, Ids
<1>1. Gap'
  BY <1>0 DEF Gap
<1>. SUFFICES ASSUME create.pc = "copy", newest \notin rotated'
              PROVE  Fits(create.todo, inst', bundles[newest].files, during'[newest])
  BY <1>0, <1>1 DEF CopyFits
<1>. DEFINE F == bundles[newest].files
            D == during[newest]
<1>2. /\ newest \notin rotated => Fits(create.todo, inst, F, D)
      /\ CopiesNext("wal") <=> "wal" \in create.todo /\ "db" \notin create.todo
  BY NextIsFirst DEF CopyFits
<1>3. ASSUME NEW st, Observe(st)
      PROVE  st \in during'[newest] /\ D \subseteq during'[newest]
  BY <1>0, <1>3 DEF Observe
<1>. HIDE DEF F, D
<1>4. CASE Commit
  <2>. DEFINE begin == "wal" \notin DOMAIN inst \/ inst["wal"] \subseteq inst["db"]
              wal == {last + 1} \cup (IF begin THEN {} ELSE inst["wal"])
              log == {last + 1} \cup (IF "logs" \in DOMAIN inst THEN inst["logs"] ELSE {})
  <2>1. /\ inst' = Written(Written(inst, "logs", log), "wal", wal)
        /\ rotated' = IF begin /\ CopiesNext("wal") THEN rotated \cup {create.id} ELSE rotated
        /\ up /\ last < MaxChanges
        /\ Observe(Recovered(inst'))
    BY <1>4 DEF Commit
  <2>2. wal \in Changes /\ log \in Changes
    <3>1. {last + 1} \in Changes
      BY <1>0, <2>1, BackupConstants DEF Changes
    <3>2. \A p \in DOMAIN inst : inst[p] \in Changes
      BY <1>0, ContentIs
    <3>. QED
      BY <3>1, <3>2 DEF Changes
  <2>. HIDE DEF wal, log, begin
  <2>3. /\ "db" \in DOMAIN inst' /\ "wal" \in DOMAIN inst'
        /\ inst'["db"] = inst["db"] /\ inst'["wal"] = wal
    <3>1. "wal" \in Parts /\ "logs" \in Parts /\ "db" \in DOMAIN inst
      BY <1>0, <2>1 DEF Parts
    <3>. DEFINE f == Written(inst, "logs", log)
    <3>2. f \in Files /\ "db" \in DOMAIN f /\ f["db"] = inst["db"]
      <4>1. /\ f \in Files /\ DOMAIN f = DOMAIN inst \cup {"logs"}
            /\ \A q \in DOMAIN inst \ {"logs"} : f[q] = inst[q]
        BY <1>0, <2>2, <3>1, WrittenIs
      <4>. HIDE DEF f
      <4>. QED
        BY <3>1, <4>1
    <3>. HIDE DEF f
    <3>3. /\ DOMAIN Written(f, "wal", wal) = DOMAIN f \cup {"wal"}
          /\ Written(f, "wal", wal)["wal"] = wal
          /\ \A q \in DOMAIN f \ {"wal"} : Written(f, "wal", wal)[q] = f[q]
      BY <2>2, <3>1, <3>2, WrittenIs
    <3>4. inst' = Written(f, "wal", wal)
      BY <2>1 DEF f
    <3>. QED
      BY <3>2, <3>3, <3>4
  <2>4. /\ Recovered(inst') \in during'[newest] /\ D \subseteq during'[newest]
        /\ newest \notin rotated
    BY <1>3, <2>1
  <2>5. begin => ~("wal" \in create.todo /\ "db" \notin create.todo)
    BY <1>0, <1>2, <2>1
  <2>6. ~begin => "wal" \in DOMAIN inst /\ inst["wal"] \subseteq wal
    BY DEF begin, wal
  <2>. QED
    BY <1>2, <2>3, <2>4, <2>5, <2>6 DEF Fits, F
<1>5. CASE Checkpoint
  <2>1. /\ "db" \in DOMAIN inst /\ inst' = [inst EXCEPT !["db"] = Recovered(inst)]
        /\ UNCHANGED <<rotated, during>>
    BY <1>0, <1>5 DEF Checkpoint, histories
  <2>2. inst \in [DOMAIN inst -> Changes]
    BY <1>0, FilesAre
  <2>3. /\ DOMAIN inst' = DOMAIN inst /\ inst'["db"] = Recovered(inst)
        /\ "wal" \in DOMAIN inst => inst'["wal"] = inst["wal"]
    BY <2>1, <2>2
  <2>4. Recovered(inst') = Recovered(inst)
    BY <2>1, <2>3 DEF Recovered
  <2>5. Recovered(inst) = inst["db"] \cup (IF "wal" \in DOMAIN inst THEN inst["wal"] ELSE {})
    BY DEF Recovered
  <2>. QED
    BY <1>2, <2>1, <2>3, <2>4, <2>5 DEF Fits, F, D
<1>6. CASE Stop
  <2>1. /\ "db" \in DOMAIN inst /\ UNCHANGED <<rotated, during>>
        /\ \/ inst' = Written(Restrict(inst, DOMAIN inst \ {"wal"}), "db", Recovered(inst))
           \/ inst' = inst
    BY <1>0, <1>6 DEF Stop, histories
  <2>2. CASE inst' = inst
    BY <1>2, <2>1, <2>2 DEF F, D
  <2>3. CASE inst' = Written(Restrict(inst, DOMAIN inst \ {"wal"}), "db", Recovered(inst))
    <3>. DEFINE g == Restrict(inst, DOMAIN inst \ {"wal"})
                c == Recovered(inst)
    <3>1. g \in Files /\ DOMAIN g = DOMAIN inst \ {"wal"}
      BY <1>0, RestrictIs
    <3>2. c \in Changes
      BY <1>0, <2>1, RecoveredIs
    <3>. HIDE DEF g, c
    <3>3. DOMAIN Written(g, "db", c) = DOMAIN g \cup {"db"} /\ Written(g, "db", c)["db"] = c
      <4>1. g \in Files
        BY <3>1
      <4>2. "db" \in Parts
        BY DEF Parts
      <4>. QED
        BY <3>2, <4>1, <4>2, WrittenIs
    <3>4. "db" \in DOMAIN inst' /\ "wal" \notin DOMAIN inst' /\ inst'["db"] = Recovered(inst)
      BY <2>3, <3>1, <3>3 DEF g, c
    <3>5. Recovered(inst') = Recovered(inst)
      BY <3>4 DEF Recovered
    <3>. QED
      BY <1>2, <2>1, <3>4, <3>5 DEF Fits, F, D
  <2>. QED
    BY <2>1, <2>2, <2>3
<1>7. CASE Start
  <2>1. /\ newest \notin rotated /\ Observe(Recovered(inst'))
        /\ "db" \in DOMAIN inst => inst' = inst
    BY <1>7 DEF Start
  <2>2. D \subseteq during'[newest]
    BY <1>3, <2>1
  <2>. QED
    BY <1>2, <2>1, <2>2 DEF Fits, F
<1>8. CASE Edit
  <2>1. inst' = Written(inst, "config", {last + 1}) /\ UNCHANGED <<rotated, during>>
        /\ {last + 1} \in Changes
    BY <1>0, <1>8, BackupConstants DEF Edit, histories, Changes
  <2>2. SameDatabase(inst, inst')
    BY <1>0, <2>1, WrittenOther DEF Parts
  <2>3. SameDatabase(F, F)
    BY DEF SameDatabase, Same
  <2>. QED
    BY <1>2, <2>1, <2>2, <2>3, FitsStays DEF F, D
<1>. QED
  BY <1>4, <1>5, <1>6, <1>7, <1>8 DEF AdapterStep

\* A creation copies the file that is there, or leaves out one that may be missing.
LEMMA CopyCreate == Shape /\ CopyFits /\ Gap /\ CreateStep => CopyFits' /\ Gap'
<1>. SUFFICES ASSUME Shape, CopyFits, Gap, CreateStep
              PROVE  CopyFits' /\ Gap'
  OBVIOUS
<1>0. /\ bundles \in [Ids -> Bundle] /\ inst \in Files
      /\ create.pc # "idle" => create.id = newest /\ newest \in Ids
      /\ newest \in Nat /\ MaxBundles \in Nat /\ during \in [Ids -> SUBSET Changes]
  BY BackupConstants DEF Shape, Placed, TypeOK, Changes, Ids
<1>1. Gap' /\ inst' = inst
  BY DEF CreateStep, CreateBackup, CopyFile, WriteManifest, WriteChecksums, CreateDies, Gap
<1>2. ASSUME NEW mode \in Modes, NEW opts \in SUBSET Optional, CreateBackup(mode, opts)
      PROVE  CopyFits'
  <2>1. /\ newest' = newest + 1 /\ newest + 1 \in Ids /\ bundles' = bundles
        /\ create'.todo = Listed(opts)
        /\ {"db", "config"} \subseteq DOMAIN inst
        /\ during'[newest + 1] = {Recovered(inst)}
    BY <1>0, <1>2 DEF CreateBackup, NextStamp, Ids
  <2>2. bundles[newest + 1].files = NoFiles
    BY <1>0, <2>1 DEF Shape, Placed, NoBundle
  <2>3. "db" \in Listed(opts) /\ ("wal" \in Listed(opts) <=> "wal" \in DOMAIN inst)
    BY DEF Listed, Optional
  <2>4. "wal" \notin DOMAIN inst => Recovered(inst) = inst["db"]
    BY DEF Recovered
  <2>5. Fits(Listed(opts), inst, NoFiles, {Recovered(inst)})
    BY <2>1, <2>3, <2>4, NoFilesAreFiles DEF Fits
  <2>. QED
    BY <1>0, <1>1, <2>1, <2>2, <2>5 DEF CopyFits
<1>3. ASSUME NEW p \in Parts, CopyFile(p)
      PROVE  CopyFits'
  <2>. DEFINE F == bundles[newest].files
              T == create.todo
  <2>1. /\ create.pc = "copy" /\ CopiesNext(p) /\ p \in T /\ p \in DOMAIN inst \cup Optional
        /\ create'.pc = "copy" /\ create'.todo = T \ {p}
        /\ UNCHANGED <<newest, rotated, during>>
        /\ bundles' = IF p \in DOMAIN inst
                      THEN [bundles EXCEPT ![newest].files = Written(F, p, inst[p])]
                      ELSE bundles
    BY <1>0, <1>3 DEF CopyFile, CopiesNext, IsFirst, histories, Shape, TypeOK
  <2>2. bundles'[newest].files = IF p \in DOMAIN inst THEN Written(F, p, inst[p]) ELSE F
    BY <1>0, <2>1 DEF Bundle
  <2>3. /\ newest \notin rotated => Fits(T, inst, F, during[newest])
        /\ p = "wal" => "db" \notin T
    BY <2>1, NextIsFirst DEF CopyFits
  <2>4. F \in Files /\ (p \in DOMAIN inst => inst[p] \in Changes)
    <3>1. F \in Files
      <4>1. newest \in Ids
        BY <1>0, <2>1
      <4>. QED
        BY <4>1, BundlesAre
    <3>2. p \in DOMAIN inst => inst[p] \in Changes
      BY <1>0, ContentIs
    <3>. QED
      BY <3>1, <3>2
  <2>. DEFINE G == Written(F, p, inst[p])
  <2>5. p \in DOMAIN inst =>
          /\ DOMAIN G = DOMAIN F \cup {p} /\ G[p] = inst[p]
          /\ \A q \in DOMAIN F \ {p} : G[q] = F[q]
    <3>. HIDE DEF F, G
    <3>. SUFFICES ASSUME NEW c \in Changes, c = inst[p]
                  PROVE  /\ DOMAIN G = DOMAIN F \cup {p} /\ G[p] = c
                         /\ \A q \in DOMAIN F \ {p} : G[q] = F[q]
      BY <2>4
    <3>1. F \in Files
      BY <2>4
    <3>2. G = Written(F, p, c)
      BY DEF G
    <3>3. /\ DOMAIN Written(F, p, c) = DOMAIN F \cup {p} /\ Written(F, p, c)[p] = c
          /\ \A q \in DOMAIN F \ {p} : Written(F, p, c)[q] = F[q]
      BY <3>1, WrittenIs
    <3>. QED
      BY <3>2, <3>3
  <2>. HIDE DEF F, G, T
  <2>6. CASE p = "db"
    <3>1. p \in DOMAIN inst
      BY <2>1, <2>6 DEF Optional
    <3>2. newest \notin rotated =>
            /\ "db" \in DOMAIN inst /\ Recovered(inst) \in during[newest]
            /\ "db" \in DOMAIN G /\ "wal" \notin DOMAIN G /\ G["db"] = inst["db"]
            /\ "wal" \notin T => inst["db"] \in during[newest]
      BY <2>1, <2>3, <2>5, <2>6, <3>1 DEF Fits
    <3>3. "wal" \in DOMAIN inst => Recovered(inst) = inst["db"] \cup inst["wal"]
      BY DEF Recovered
    <3>4. "wal" \notin DOMAIN G => Recovered(G) = G["db"]
      BY DEF Recovered
    <3>5. newest \notin rotated => Fits(T \ {p}, inst, G, during[newest])
      BY <2>6, <3>2, <3>4 DEF Fits
    <3>. QED
      BY <1>0, <1>1, <2>1, <2>2, <3>1, <3>5 DEF CopyFits, G
  <2>7. CASE p = "wal"
    <3>1. p \in DOMAIN inst
      BY <2>1, <2>7 DEF Optional
    <3>2. newest \notin rotated =>
            /\ "db" \in DOMAIN inst /\ Recovered(inst) \in during[newest]
            /\ "db" \in DOMAIN G /\ "wal" \in DOMAIN G /\ G["db"] = F["db"] /\ G["wal"] = inst["wal"]
            /\ F["db"] \subseteq inst["db"] /\ inst["db"] \subseteq F["db"] \cup inst["wal"]
      BY <2>1, <2>3, <2>5, <2>7, <3>1 DEF Fits
    <3>3. /\ Recovered(inst) = inst["db"] \cup inst["wal"]
          /\ "wal" \in DOMAIN G => Recovered(G) = G["db"] \cup G["wal"]
      BY <2>7, <3>1 DEF Recovered
    <3>4. newest \notin rotated => Recovered(G) = Recovered(inst)
      BY <3>2, <3>3
    <3>5. newest \notin rotated => Fits(T \ {p}, inst, G, during[newest])
      BY <2>3, <2>7, <3>2, <3>4 DEF Fits
    <3>. QED
      BY <1>0, <1>1, <2>1, <2>2, <3>1, <3>5 DEF CopyFits, G
  <2>8. CASE p \notin {"db", "wal"}
    <3>1. p \in DOMAIN inst => SameDatabase(F, G)
      BY <2>5, <2>8 DEF SameDatabase, Same
    <3>2. SameDatabase(F, F) /\ SameDatabase(inst, inst)
      BY DEF SameDatabase, Same
    <3>3. SameDatabase(F, bundles'[newest].files)
      BY <2>2, <3>1, <3>2 DEF F, G
    <3>4. newest \notin rotated => Fits(T, inst, bundles'[newest].files, during[newest])
      BY <2>3, <3>2, <3>3, FitsStays
    <3>5. newest \notin rotated => Fits(T \ {p}, inst, bundles'[newest].files, during[newest])
      BY <2>8, <3>4 DEF Fits
    <3>. QED
      BY <1>0, <1>1, <2>1, <3>5 DEF CopyFits
  <2>. QED
    BY <2>6, <2>7, <2>8
<1>4. CASE WriteManifest \/ WriteChecksums \/ CreateDies
  <2>1. create'.pc # "copy"
    BY <1>4 DEF WriteManifest, WriteChecksums, CreateDies, CreateIdle, Shape, TypeOK
  <2>. QED
    BY <1>1, <2>1 DEF CopyFits
<1>. QED
  BY <1>1, <1>2, <1>3, <1>4 DEF CreateStep

\* Pruning keeps off the bundle that is being made.
LEMMA PruneSpares ==
    ASSUME Shape, PruneStep, create.pc # "idle"
    PROVE  /\ bundles'[newest] = bundles[newest]
           /\ during'[newest] = during[newest]
           /\ newest \in rotated <=> newest \in rotated'
<1>0. /\ bundles \in [Ids -> Bundle] /\ create.id = newest /\ newest \in Ids
      /\ newest \notin prune.doomed \cup prune.trims
      /\ prune.pc \in {"manifest", "sums"} => prune.id # create.id
      /\ during \in [Ids -> SUBSET Changes]
  BY BackupConstants DEF Shape, Placed, TypeOK, Changes, Ids
<1>1. CASE (\E trim \in BOOLEAN : PruneBackups(trim)) \/ PruneEnds
  BY <1>1 DEF PruneBackups, PruneEnds, histories
<1>2. ASSUME NEW b \in Ids, RemoveFile(b) \/ TrimLogs(b)
      PROVE  /\ bundles'[newest] = bundles[newest]
             /\ UNCHANGED <<during, rotated>>
  BY <1>0, <1>2 DEF RemoveFile, TrimLogs, histories
<1>3. ASSUME NEW b \in Ids, RemoveManifest(b)
      PROVE  /\ bundles'[newest] = bundles[newest]
             /\ during'[newest] = during[newest]
             /\ newest \in rotated <=> newest \in rotated'
  BY <1>0, <1>3 DEF RemoveManifest, Forget
<1>4. CASE TrimManifest \/ TrimChecksums \/ PruneDies
  <2>1. UNCHANGED <<during, rotated>>
    BY <1>4 DEF TrimManifest, TrimChecksums, PruneDies, histories
  <2>2. bundles'[newest] = bundles[newest]
    BY <1>0, <1>4 DEF TrimManifest, TrimChecksums, PruneDies
  <2>. QED
    BY <2>1, <2>2
<1>. QED
  BY <1>1, <1>2, <1>3, <1>4 DEF PruneStep

\* What a pruning leaves alone.
LEMMA PruneLeaves == PruneStep => UNCHANGED <<up, inst, last, newest, create, restore>>
BY DEF PruneStep, PruneBackups, RemoveFile, RemoveManifest, TrimLogs, TrimManifest,
   TrimChecksums, PruneEnds, PruneDies

\* What a creation leaves alone.
LEMMA CreateLeaves == CreateStep => UNCHANGED <<up, inst, last, prune, restore>>
BY DEF CreateStep, CreateBackup, CopyFile, WriteManifest, WriteChecksums, CreateDies

\* What the adapter and a restore leave alone.
LEMMA OthersLeave ==
    AdapterStep \/ RestoreStep \/ UNCHANGED vars
      => UNCHANGED <<bundles, create, prune, newest, orphans>>
BY DEF AdapterStep, RestoreStep, Commit, Checkpoint, Stop, Start, Edit, RestoreBackup,
   CopySection, CreateSafetyCopy, RemoveTarget, PutLogsBack, RestoreDies, RestoreEnds,
   jobs, histories, vars

\* A pruning keeps CopyFits and Gap.
LEMMA CopyPrune == Shape /\ CopyFits /\ Gap /\ PruneStep => CopyFits' /\ Gap'
<1>. SUFFICES ASSUME Shape, CopyFits, Gap, PruneStep
              PROVE  CopyFits' /\ Gap'
  OBVIOUS
<1>1. UNCHANGED <<inst, restore, create, newest>>
  BY PruneLeaves
<1>2. ASSUME create.pc = "copy", newest \notin rotated'
      PROVE  Fits(create.todo, inst, bundles'[newest].files, during'[newest])
  BY <1>2, PruneSpares DEF CopyFits
<1>. QED
  BY <1>1, <1>2 DEF CopyFits, Gap

\* A restore that changes the database while it is copied takes it away first.
LEMMA CopyRestore == Shape /\ CopyFits /\ Gap /\ RestoreStep => CopyFits' /\ Gap'
<1>. SUFFICES ASSUME Shape, CopyFits, Gap, RestoreStep
              PROVE  CopyFits' /\ Gap'
  OBVIOUS
<1>. DEFINE F == bundles[newest].files
            D == during[newest]
<1>0. /\ inst \in Files
      /\ create.pc = "copy" => create.id = newest /\ newest \in Ids
      /\ during \in [Ids -> SUBSET Changes]
      /\ restore.safe \in Files
      /\ restore.pc # "idle" => restore.id \in Ids
      /\ UNCHANGED <<bundles, newest, create>>
  <2>1. UNCHANGED <<bundles, newest, create>>
    BY DEF RestoreStep, RestoreBackup, CopySection, CreateSafetyCopy, RemoveTarget,
       PutLogsBack, RestoreDies, RestoreEnds
  <2>2. restore.pc # "idle" => restore.id \in Ids
    BY BackupConstants DEF Shape, Placed, TypeOK, Ids
  <2>3. create.pc = "copy" => create.id = newest /\ newest \in Ids
    BY BackupConstants DEF Shape, Placed, TypeOK, Ids
  <2>4. inst \in Files /\ restore.safe \in Files /\ during \in [Ids -> SUBSET Changes]
    BY DEF Shape, TypeOK, Changes
  <2>. QED
    BY <2>1, <2>2, <2>3, <2>4
<1>1. create.pc = "copy" /\ newest \notin rotated => Fits(create.todo, inst, F, D)
  BY DEF CopyFits
<1>2. SameDatabase(F, F)
  BY DEF SameDatabase, Same
<1>3. ASSUME SameDatabase(inst, inst'), UNCHANGED <<rotated, during>>
      PROVE  CopyFits'
  BY <1>0, <1>1, <1>2, <1>3, FitsStays DEF CopyFits
<1>4. SameDatabase(inst, inst)
  BY DEF SameDatabase, Same
<1>5. CASE (\E b \in Ids : RestoreBackup(b)) \/ CreateSafetyCopy \/ RestoreDies \/ RestoreEnds
  <2>1. UNCHANGED <<inst, rotated, during>>
    BY <1>5 DEF RestoreBackup, CreateSafetyCopy, RestoreDies, RestoreEnds, histories
  <2>2. restore'.pc # "copy"
    <3>1. CASE \E b \in Ids : RestoreBackup(b)
      BY <3>1 DEF RestoreBackup
    <3>2. CASE CreateSafetyCopy \/ RestoreDies
      BY <3>2 DEF CreateSafetyCopy, RestoreDies, Shape, TypeOK
    <3>3. CASE RestoreEnds
      BY <3>3 DEF RestoreEnds, RestoreIdle
    <3>. QED
      BY <1>5, <3>1, <3>2, <3>3
  <2>. QED
    BY <1>3, <1>4, <2>1, <2>2 DEF Gap
<1>6. CASE RemoveTarget
  <2>1. PICK s \in Sections :
          /\ IsFirst(s, restore.todo)
          /\ inst' = Restrict(inst, DOMAIN inst \ Target(s))
          /\ rotated' = IF s = "adapter" /\ \E p \in {"db", "wal"} : CopiesNext(p)
                        THEN rotated \cup {create.id} ELSE rotated
    BY <1>6 DEF RemoveTarget
  <2>2. during' = during /\ restore'.todo = restore.todo
    BY <1>6 DEF RemoveTarget, Shape, TypeOK
  <2>3. /\ DOMAIN inst' = DOMAIN inst \ Target(s)
        /\ \A q \in DOMAIN inst' : inst'[q] = inst[q]
    BY <1>0, <2>1, RestrictIs
  <2>4. Gap'
    BY <2>1, <2>2, <2>3, FirstIsOne DEF Gap
  <2>5. CASE s = "adapter"
    <3>1. create.pc = "copy" /\ newest \notin rotated' =>
            newest \notin rotated /\ "db" \notin create.todo /\ "wal" \notin create.todo
      BY <1>0, <2>1, <2>5, NextIsFirst
    <3>2. create.pc = "copy" /\ newest \notin rotated' => Fits(create.todo, inst', F, D)
      BY <1>1, <3>1 DEF Fits
    <3>. QED
      BY <1>0, <2>2, <2>4, <3>2 DEF CopyFits
  <2>6. CASE s # "adapter"
    <3>1. "db" \notin Target(s) /\ "wal" \notin Target(s)
      BY <2>6 DEF Target, Sections
    <3>2. SameDatabase(inst, inst')
      BY <2>3, <3>1 DEF SameDatabase, Same
    <3>. QED
      BY <1>3, <2>1, <2>2, <2>4, <2>6, <3>2
  <2>. QED
    BY <2>5, <2>6
<1>7. ASSUME NEW s \in Sections, CopySection(s)
      PROVE  CopyFits' /\ Gap'
  <2>. DEFINE from == bundles[restore.id].files
              S == Holds(s) \cap DOMAIN from
  <2>1. /\ restore.pc = "copy" /\ IsFirst(s, restore.todo)
        /\ inst' = Overlay(inst, Restrict(from, S))
        /\ IF s = "adapter" /\ "db" \in DOMAIN from
           THEN Observe(Recovered(inst')) ELSE UNCHANGED during
        /\ rotated' = rotated
        /\ restore'.pc = "remove"
    BY <1>7 DEF CopySection, Shape, TypeOK
  <2>2. Gap'
    BY <2>1 DEF Gap
  <2>3. from \in Files
    BY <1>0, <2>1, BundlesAre
  <2>4. CASE s = "adapter"
    <3>1. "db" \notin DOMAIN inst
      BY <2>1, <2>4 DEF Gap, Target
    <3>2. create.pc = "copy" => D \subseteq during'[newest]
      BY <1>0, <2>1 DEF Observe
    <3>3. create.pc = "copy" /\ newest \notin rotated => Fits(create.todo, inst', F, during'[newest])
      BY <1>1, <3>1, <3>2 DEF Fits
    <3>. QED
      BY <1>0, <2>1, <2>2, <3>3 DEF CopyFits
  <2>5. CASE s # "adapter"
    <3>. DEFINE g == Restrict(from, S)
    <3>1. g \in Files /\ DOMAIN g = S
      BY <2>3, RestrictIs
    <3>2. "db" \notin DOMAIN g /\ "wal" \notin DOMAIN g
      BY <2>5, <3>1 DEF Holds, Sections
    <3>. HIDE DEF g
    <3>3. /\ DOMAIN Overlay(inst, g) = DOMAIN inst \cup DOMAIN g
          /\ \A q \in DOMAIN inst \ DOMAIN g : Overlay(inst, g)[q] = inst[q]
      BY <1>0, <3>1, OverlayIs
    <3>4. inst' = Overlay(inst, g)
      BY <2>1 DEF g
    <3>5. SameDatabase(inst, inst')
      BY <3>2, <3>3, <3>4 DEF SameDatabase, Same
    <3>. QED
      BY <1>3, <2>1, <2>2, <2>5, <3>5
  <2>. QED
    BY <2>4, <2>5
<1>8. CASE PutLogsBack
  <2>1. /\ inst' = IF "logs" \notin restore.incl /\ "logs" \in DOMAIN restore.safe
                   THEN Written(inst, "logs", restore.safe["logs"]) ELSE inst
        /\ UNCHANGED <<rotated, during>> /\ restore'.pc = "done"
    BY <1>8 DEF PutLogsBack, histories, Shape, TypeOK
  <2>2. "logs" \in DOMAIN restore.safe =>
          SameDatabase(inst, Written(inst, "logs", restore.safe["logs"]))
    BY <1>0, ContentIs, WrittenOther DEF Parts
  <2>. QED
    BY <1>3, <1>4, <2>1, <2>2 DEF Gap
<1>. QED
  BY <1>5, <1>6, <1>7, <1>8 DEF RestoreStep

\* Every step keeps the copy fitting and the place a restore copies to empty.
LEMMA CopyStep == Shape /\ CopyFits /\ Gap /\ [Next]_vars => CopyFits' /\ Gap'
<1>1. Shape /\ CopyFits /\ Gap /\ UNCHANGED vars => CopyFits' /\ Gap'
  BY DEF vars, CopyFits, Gap
<1>. QED
  BY <1>1, NextIs, CopyAdapter, CopyCreate, CopyPrune, CopyRestore

\* CopyFits and Gap hold in every state.
LEMMA CopyCorrect == Spec => [](CopyFits /\ Gap)
<1>1. Init => CopyFits /\ Gap
  BY DEF Init, CreateIdle, RestoreIdle, CopyFits, Gap
<1>. QED
  BY <1>1, CopyStep, ShapeCorrect, PTL DEF Spec

-----------------------------------------------------------------------------
(* A bundle that verifies is a state of the database *)

\* The files f hold a state that the database had while the bundle b was made.
IsState(b, f) ==
    /\ {"db", "config"} \subseteq DOMAIN f
    /\ b \notin rotated => Recovered(f) \in during[b]

\* No file whose checksum was written has gone, the logs aside.
Intact(b) ==
    bundles[b].sums # NoSums =>
        DOMAIN bundles[b].sums.files \ {"logs"} \subseteq DOMAIN bundles[b].files

Whole(b) == IsState(b, bundles[b].files) /\ Intact(b)

\* A bundle with a manifest is whole, or pruning has begun to remove it; it will be
\* the first thing that the next pruning does.
WholeOrDoomed ==
    \A b \in Readable : \/ Whole(b)
                        \/ b \in prune.doomed
                        \/ prune.pc = "idle" /\ b \in Doomed

\* What the checksums were made of was such a state.
SumsAreStates ==
    \A b \in Ids : bundles[b].sums # NoSums =>
        /\ IsState(b, bundles[b].sums.files)
        /\ DOMAIN bundles[b].files \subseteq DOMAIN bundles[b].sums.files

Described == create.pc = "sums" => newest \in Readable

WholeInv == WholeOrDoomed /\ SumsAreStates /\ Described

\* The step leaves the files of the bundle b as they were, or some of them.
Lessened(b) ==
    /\ DOMAIN bundles'[b].files \subseteq DOMAIN bundles[b].files
    /\ \A p \in DOMAIN bundles'[b].files : bundles'[b].files[p] = bundles[b].files[p]

\* What a step does to a bundle and its checksums.
LEMMA SumsStep ==
    ASSUME Shape, [Next]_vars, NEW b \in Ids
    PROVE  \/ bundles'[b] = NoBundle
           \/ /\ bundles'[b].sums = bundles[b].sums
              /\ bundles[b].sums # NoSums => Lessened(b)
           \/ /\ bundles'[b].sums = SumsOf(b) /\ bundles'[b].files = bundles[b].files
              /\ \/ create.pc = "sums" /\ b = newest
                 \/ prune.pc = "sums" /\ b = prune.id
<1>0. /\ bundles \in [Ids -> Bundle]
      /\ create.pc # "idle" => create.id = newest /\ newest \in Ids /\ bundles[newest].sums = NoSums
      /\ prune.pc \in {"manifest", "sums"} => prune.id \in Ids
  BY BackupConstants DEF Shape, Placed, TypeOK, Ids, Readable
<1>. DEFINE Keeps == /\ bundles'[b].sums = bundles[b].sums
                     /\ bundles[b].sums # NoSums => Lessened(b)
            Makes == /\ bundles'[b].sums = SumsOf(b) /\ bundles'[b].files = bundles[b].files
                     /\ \/ create.pc = "sums" /\ b = newest
                        \/ prune.pc = "sums" /\ b = prune.id
            Change == bundles'[b] = NoBundle \/ Keeps \/ Makes
<1>. SUFFICES Change
  OBVIOUS
<1>1. CASE AdapterStep \/ RestoreStep \/ UNCHANGED vars
  <2>1. UNCHANGED bundles
    BY <1>1 DEF AdapterStep, RestoreStep, Commit, Checkpoint, Stop, Start, Edit, RestoreBackup,
           CopySection, CreateSafetyCopy, RemoveTarget, PutLogsBack, RestoreDies, RestoreEnds, vars
  <2>. QED
    BY <2>1 DEF Lessened
<1>2. CASE CreateStep
  <2>1. CASE \E mode \in Modes, opts \in SUBSET Optional : CreateBackup(mode, opts)
    BY <2>1 DEF CreateBackup, Lessened
  <2>2. ASSUME NEW p \in Parts, CopyFile(p)
        PROVE  Change
    BY <1>0, <2>2 DEF CopyFile, CopiesNext, Bundle, Lessened
  <2>3. CASE WriteManifest
    BY <1>0, <2>3 DEF WriteManifest, Bundle, Lessened
  <2>4. CASE WriteChecksums
    BY <1>0, <2>4 DEF WriteChecksums, Bundle, Lessened
  <2>5. CASE CreateDies
    <3>1. CASE create.id \in Readable
      BY <2>5, <3>1 DEF CreateDies, Lessened
    <3>2. CASE create.id \notin Readable
      BY <1>0, <2>5, <3>2 DEF CreateDies, Lessened
    <3>. QED
      BY <3>1, <3>2
  <2>. HIDE DEF Change
  <2>. QED
    BY <1>2, <2>1, <2>2, <2>3, <2>4, <2>5 DEF CreateStep
<1>3. CASE PruneStep
  <2>1. CASE (\E trim \in BOOLEAN : PruneBackups(trim)) \/ PruneEnds
    BY <2>1 DEF PruneBackups, PruneEnds, Lessened
  <2>2. ASSUME NEW c \in Ids, RemoveFile(c) \/ TrimLogs(c)
        PROVE  Change
    <3>. DEFINE f == bundles[c].files
    <3>1. \/ UNCHANGED bundles
          \/ \E p \in Parts : bundles' = [bundles EXCEPT ![c].files = Restrict(f, DOMAIN f \ {p})]
      BY <2>2 DEF RemoveFile, TrimLogs, Parts
    <3>2. ASSUME NEW p \in Parts, bundles' = [bundles EXCEPT ![c].files = Restrict(f, DOMAIN f \ {p})]
          PROVE  Change
      <4>1. /\ DOMAIN Restrict(f, DOMAIN f \ {p}) \subseteq DOMAIN f
            /\ \A q \in DOMAIN f \ {p} : Restrict(f, DOMAIN f \ {p})[q] = f[q]
            /\ DOMAIN Restrict(f, DOMAIN f \ {p}) = DOMAIN f \ {p}
        BY DEF Restrict
      <4>2. /\ bundles'[b].sums = bundles[b].sums
            /\ bundles'[b].files = IF b = c THEN Restrict(f, DOMAIN f \ {p}) ELSE bundles[b].files
        BY <1>0, <3>2 DEF Bundle
      <4>. QED
        BY <4>1, <4>2 DEF Lessened
    <3>3. CASE UNCHANGED bundles
      BY <3>3 DEF Lessened
    <3>. QED
      BY <3>1, <3>2, <3>3
  <2>3. ASSUME NEW c \in Ids, RemoveManifest(c)
        PROVE  Change
    BY <1>0, <2>3 DEF RemoveManifest, Lessened
  <2>4. CASE TrimManifest
    BY <1>0, <2>4 DEF TrimManifest, Bundle, Lessened
  <2>5. CASE TrimChecksums
    BY <1>0, <2>5 DEF TrimChecksums, Bundle, Lessened
  <2>6. CASE PruneDies
    BY <1>0, <2>6 DEF PruneDies, Bundle, Lessened
  <2>. HIDE DEF Change
  <2>. QED
    BY <1>3, <2>1, <2>2, <2>3, <2>4, <2>5, <2>6 DEF PruneStep
<1>. QED
  BY <1>1, <1>2, <1>3, NextIs

\* Nothing of what is known of a bundle is forgotten while it is there.
LEMMA HistoriesGrow ==
    ASSUME Shape, [Next]_vars, NEW b \in Ids, bundles[b] # NoBundle, bundles'[b] # NoBundle
    PROVE  /\ b \in rotated => b \in rotated'
           /\ during[b] \subseteq during'[b]
<1>0. /\ bundles \in [Ids -> Bundle] /\ during \in [Ids -> SUBSET Changes]
      /\ create.pc # "idle" => create.id \in Ids
      /\ newest \in Nat /\ b <= newest /\ b \in Nat
  BY BackupConstants DEF Shape, Placed, TypeOK, Ids, Changes
<1>1. ASSUME NEW st, Observe(st)
      PROVE  during[b] \subseteq during'[b]
  BY <1>0, <1>1 DEF Observe
<1>2. CASE AdapterStep
  <2>1. /\ \/ UNCHANGED during
           \/ Observe(Recovered(inst'))
        /\ rotated \subseteq rotated'
    BY <1>2 DEF AdapterStep, Commit, Checkpoint, Stop, Start, Edit, histories
  <2>. QED
    BY <1>1, <2>1
<1>3. CASE CreateStep
  <2>1. CASE \E mode \in Modes, opts \in SUBSET Optional : CreateBackup(mode, opts)
    <3>1. during' = [during EXCEPT ![newest + 1] = {Recovered(inst)}] /\ rotated' = rotated
      BY <2>1 DEF CreateBackup
    <3>. QED
      BY <1>0, <3>1
  <2>2. CASE (\E p \in Parts : CopyFile(p)) \/ WriteManifest \/ WriteChecksums
    BY <2>2 DEF CopyFile, WriteManifest, WriteChecksums, histories
  <2>3. CASE CreateDies
    <3>1. CASE create.id \in Readable
      BY <2>3, <3>1 DEF CreateDies
    <3>2. CASE create.id \notin Readable
      <4>1. bundles'[create.id] = NoBundle
        BY <1>0, <2>3, <3>2 DEF CreateDies
      <4>2. b # create.id
        BY <4>1
      <4>. QED
        BY <1>0, <2>3, <3>2, <4>2 DEF CreateDies, Forget
    <3>. QED
      BY <3>1, <3>2
  <2>. QED
    BY <1>3, <2>1, <2>2, <2>3 DEF CreateStep
<1>4. CASE PruneStep
  <2>1. ASSUME NEW c \in Ids, RemoveManifest(c)
        PROVE  rotated \ {c} \subseteq rotated' /\ during[b] \subseteq during'[b] /\ b # c
    <3>1. b # c
      BY <1>0, <2>1 DEF RemoveManifest
    <3>. QED
      BY <1>0, <2>1, <3>1 DEF RemoveManifest, Forget
  <2>2. CASE ~\E c \in Ids : RemoveManifest(c)
    BY <1>4, <2>2 DEF PruneStep, PruneBackups, RemoveFile, TrimLogs, TrimManifest, TrimChecksums,
       PruneEnds, PruneDies, histories
  <2>. QED
    BY <2>1, <2>2
<1>5. CASE RestoreStep
  <2>1. /\ \/ UNCHANGED during
           \/ Observe(Recovered(inst'))
        /\ rotated \subseteq rotated'
    BY <1>5 DEF RestoreStep, RestoreBackup, CopySection, CreateSafetyCopy, RemoveTarget, PutLogsBack,
       RestoreDies, RestoreEnds, histories
  <2>. QED
    BY <1>1, <2>1
<1>6. CASE UNCHANGED vars
  BY <1>6 DEF vars
<1>. QED
  BY <1>2, <1>3, <1>4, <1>5, <1>6, NextIs

\* A bundle that was to be removed still is, as long as none is lost.
LEMMA DoomedGrows ==
    ASSUME NEW b \in Doomed,
           \A c \in Readable : c \in Readable' /\ bundles'[c].man.mode = bundles[c].man.mode
    PROVE  b \in Doomed'
<1>1. PICK mode \in Modes : b \in Beyond(OfMode(mode), Keep(mode))
  BY DEF Doomed
<1>2. OfMode(mode) \subseteq OfMode(mode)' /\ OfMode(mode)' \in SUBSET Ids
  BY DEF OfMode, Readable
<1>3. /\ b \in OfMode(mode) /\ Cardinality(Newer(OfMode(mode), b)) >= Keep(mode)
      /\ Keep(mode) \in Nat
  BY <1>1, BackupConstants DEF Beyond, Keep
<1>4. /\ Newer(OfMode(mode), b) \subseteq Newer(OfMode(mode)', b)
      /\ Newer(OfMode(mode)', b) \in SUBSET Ids
  BY <1>2 DEF Newer
<1>5. /\ Cardinality(Newer(OfMode(mode), b)) <= Cardinality(Newer(OfMode(mode)', b))
      /\ Cardinality(Newer(OfMode(mode), b)) \in Nat /\ Cardinality(Newer(OfMode(mode)', b)) \in Nat
  BY <1>4, SubsetsCount
<1>6. b \in Beyond(OfMode(mode)', Keep(mode))
  BY <1>2, <1>3, <1>5 DEF Beyond
<1>. QED
  BY <1>6 DEF Doomed

\* A bundle that is to be removed is one of those that lie beyond.
LEMMA ReplacedIsDoomed ==
    ASSUME Shape, Replaced, NEW b \in prune.doomed
    PROVE  b \in Doomed
<1>. DEFINE mode == bundles[b].man.mode
<1>1. b \in Readable /\ Cardinality(Spared(b)) >= Keep(mode)
  BY DEF Replaced
<1>2. bundles[b].man \in Manifest
  BY <1>1, BundlesAre DEF Readable
<1>3. mode \in Modes /\ b \in OfMode(mode)
  BY <1>1, <1>2 DEF Manifest, OfMode
<1>. HIDE DEF mode
<1>4. Spared(b) \subseteq Newer(OfMode(mode), b) /\ Newer(OfMode(mode), b) \in SUBSET Ids
  BY DEF Spared, Newer, OfMode, Readable, mode
<1>5. /\ Cardinality(Spared(b)) <= Cardinality(Newer(OfMode(mode), b))
      /\ Cardinality(Spared(b)) \in Nat /\ Cardinality(Newer(OfMode(mode), b)) \in Nat
      /\ Keep(mode) \in Nat
  BY <1>3, <1>4, SubsetsCount, BackupConstants DEF Keep
<1>6. b \in Beyond(OfMode(mode), Keep(mode))
  BY <1>1, <1>3, <1>5 DEF Beyond
<1>. QED
  BY <1>3, <1>6 DEF Doomed

\* A bundle stays whole when its checksums stand and only its logs may go.
LEMMA WholeStays ==
    ASSUME NEW b \in Ids, Whole(b), StateOf(b)' = StateOf(b),
           b \in rotated => b \in rotated', during[b] \subseteq during'[b],
           \/ bundles'[b].sums = bundles[b].sums
           \/ bundles'[b].sums.files = bundles'[b].files
    PROVE  Whole(b)'
<1>. DEFINE f == bundles[b].files
            g == bundles'[b].files
<1>1. /\ DOMAIN f \ {"logs"} = DOMAIN g \ {"logs"}
      /\ \A p \in DOMAIN f \ {"logs"} : f[p] = g[p]
  <2>1. /\ DOMAIN StateOf(b) = DOMAIN f \ {"logs"}
        /\ \A p \in DOMAIN f \ {"logs"} : StateOf(b)[p] = f[p]
    BY DEF StateOf, Restrict
  <2>2. /\ DOMAIN StateOf(b)' = DOMAIN g \ {"logs"}
        /\ \A p \in DOMAIN g \ {"logs"} : StateOf(b)'[p] = g[p]
    BY DEF StateOf, Restrict
  <2>. QED
    BY <2>1, <2>2
<1>2. /\ "db" \in DOMAIN f <=> "db" \in DOMAIN g
      /\ "wal" \in DOMAIN f <=> "wal" \in DOMAIN g
      /\ "config" \in DOMAIN f <=> "config" \in DOMAIN g
      /\ "db" \in DOMAIN f => f["db"] = g["db"]
      /\ "wal" \in DOMAIN f => f["wal"] = g["wal"]
  BY <1>1
<1>3. {"db", "config"} \subseteq DOMAIN f /\ (b \notin rotated => Recovered(f) \in during[b])
  BY DEF Whole, IsState
<1>4. Recovered(g) = Recovered(f)
  BY <1>2, <1>3 DEF Recovered
<1>5. IsState(b, f)'
  BY <1>2, <1>3, <1>4 DEF IsState
<1>6. Intact(b)'
  BY <1>1 DEF Whole, Intact
<1>. QED
  BY <1>5, <1>6 DEF Whole

\* A manifest appears at the end of a creation.
LEMMA BecomesReadable ==
    ASSUME Shape, [Next]_vars, NEW b \in Readable', b \notin Readable
    PROVE  WriteManifest /\ b = newest
<1>0. /\ bundles \in [Ids -> Bundle] /\ b \in Ids /\ bundles[b].man = NoManifest
      /\ create.pc # "idle" => newest \in Ids /\ create.id = newest
      /\ prune.pc \in {"manifest", "sums"} => prune.id \in Readable
  BY BackupConstants DEF Shape, Placed, TypeOK, Ids, Readable
<1>. SUFFICES ASSUME ~(WriteManifest /\ b = newest)
              PROVE  bundles'[b].man = NoManifest
  BY DEF Readable
<1>1. CASE AdapterStep \/ RestoreStep \/ UNCHANGED vars
  BY <1>0, <1>1, OthersLeave
<1>2. CASE CreateStep
  <2>1. CASE \E mode \in Modes, opts \in SUBSET Optional : CreateBackup(mode, opts)
    BY <1>0, <2>1 DEF CreateBackup
  <2>2. CASE \E p \in Parts : CopyFile(p)
    BY <1>0, <2>2 DEF CopyFile, CopiesNext, Bundle
  <2>3. CASE WriteManifest
    BY <1>0, <2>3 DEF WriteManifest
  <2>4. CASE WriteChecksums
    BY <1>0, <2>4 DEF WriteChecksums, Bundle
  <2>5. CASE CreateDies
    <3>1. \/ UNCHANGED bundles
          \/ bundles' = [bundles EXCEPT ![create.id] = NoBundle]
      BY <2>5 DEF CreateDies
    <3>. QED
      BY <1>0, <3>1 DEF NoBundle
  <2>. QED
    BY <1>2, <2>1, <2>2, <2>3, <2>4, <2>5 DEF CreateStep
<1>3. CASE PruneStep
  <2>1. CASE (\E trim \in BOOLEAN : PruneBackups(trim)) \/ PruneEnds
    BY <1>0, <2>1 DEF PruneBackups, PruneEnds
  <2>2. ASSUME NEW c \in Ids, RemoveFile(c) \/ TrimLogs(c)
        PROVE  bundles'[b].man = NoManifest
    <3>1. \/ UNCHANGED bundles
          \/ \E f : bundles' = [bundles EXCEPT ![c].files = f]
      BY <2>2 DEF RemoveFile, TrimLogs
    <3>. QED
      BY <1>0, <3>1 DEF Bundle
  <2>3. ASSUME NEW c \in Ids, RemoveManifest(c)
        PROVE  bundles'[b].man = NoManifest
    BY <1>0, <2>3 DEF RemoveManifest, NoBundle
  <2>4. CASE TrimManifest \/ TrimChecksums
    <3>1. b # prune.id
      BY <1>0, <2>4 DEF TrimManifest, TrimChecksums
    <3>2. bundles'[b] = bundles[b]
      BY <1>0, <2>4, <3>1 DEF TrimManifest, TrimChecksums
    <3>. QED
      BY <1>0, <3>2
  <2>5. CASE PruneDies
    BY <1>0, <2>5 DEF PruneDies, Bundle
  <2>. QED
    BY <1>3, <2>1, <2>2, <2>3, <2>4, <2>5 DEF PruneStep
<1>. QED
  BY <1>1, <1>2, <1>3, NextIs

\* A removal that has begun goes on, or is what the next pruning does first.
LEMMA StaysDoomed ==
    ASSUME Shape, Shape', Replaced, [Next]_vars, NEW b \in prune.doomed, b \in Readable'
    PROVE  b \in prune'.doomed \/ (prune'.pc = "idle" /\ b \in Doomed')
<1>0. /\ prune \in Pruning(newest) /\ b \in Ids
      /\ prune.pc = "idle" => prune = PruneIdle
      /\ prune.pc \in {"manifest", "sums"} => prune.doomed = {}
      /\ bundles \in [Ids -> Bundle]
  BY BackupConstants DEF Shape, Placed, TypeOK, Pruning, Ids
<1>1. CASE AdapterStep \/ RestoreStep \/ UNCHANGED vars
  BY <1>1, OthersLeave
<1>2. CASE CreateStep
  BY <1>2 DEF CreateStep, CreateBackup, CopyFile, WriteManifest, WriteChecksums, CreateDies
<1>3. ASSUME NEW trim \in BOOLEAN, PruneBackups(trim)
      PROVE  FALSE
  BY <1>0, <1>3 DEF PruneBackups, PruneIdle
<1>4. ASSUME NEW c \in Ids, RemoveFile(c) \/ TrimLogs(c)
      PROVE  b \in prune'.doomed
  BY <1>0, <1>4 DEF RemoveFile, TrimLogs, Pruning
<1>5. ASSUME NEW c \in Ids, RemoveManifest(c)
      PROVE  b \in prune'.doomed
  <2>1. c \notin Readable'
    BY <1>0, <1>5 DEF RemoveManifest, Readable, NoBundle
  <2>. QED
    BY <1>0, <1>5, <2>1 DEF RemoveManifest, Pruning
<1>6. CASE TrimManifest \/ TrimChecksums \/ PruneEnds
  BY <1>0, <1>6 DEF TrimManifest, TrimChecksums, PruneEnds
<1>7. CASE PruneDies
  <2>1. bundles' = bundles /\ prune'.pc = "idle"
    BY <1>0, <1>7 DEF PruneDies, PruneIdle
  <2>2. b \in Doomed
    BY ReplacedIsDoomed
  <2>3. b \in Doomed'
    BY <2>1, <2>2, DoomedGrows DEF Readable
  <2>. QED
    BY <2>1, <2>3
<1>. QED
  BY <1>1, <1>2, <1>3, <1>4, <1>5, <1>6, <1>7, NextIs DEF PruneStep

\* Checksums are made of a bundle whose manifest can be read.
LEMMA DescribedStep == Shape /\ Described /\ [Next]_vars => Described'
<1>. SUFFICES ASSUME Shape, Described, [Next]_vars, create'.pc = "sums"
              PROVE  newest' \in Readable'
  BY DEF Described
<1>0. /\ bundles \in [Ids -> Bundle] /\ create.mode \in Modes
      /\ create.pc # "idle" => newest \in Ids /\ create.id = newest
  BY BackupConstants DEF Shape, Placed, TypeOK, Ids
<1>1. CASE AdapterStep \/ RestoreStep \/ UNCHANGED vars
  BY <1>1, OthersLeave DEF Described, Readable
<1>2. CASE CreateStep
  <2>1. WriteManifest
    <3>1. ASSUME NEW mode, NEW opts, CreateBackup(mode, opts)
          PROVE  FALSE
      BY <3>1 DEF CreateBackup
    <3>2. ASSUME NEW p \in Parts, CopyFile(p)
          PROVE  FALSE
      BY <3>2 DEF CopyFile, CopiesNext, Shape, TypeOK
    <3>3. CASE WriteChecksums \/ CreateDies
      BY <3>3 DEF WriteChecksums, CreateDies, CreateIdle
    <3>. QED
      BY <1>2, <3>1, <3>2, <3>3 DEF CreateStep
  <2>2. newest' = newest /\ newest \in Ids
    BY <1>0, <2>1 DEF WriteManifest
  <2>3. PICK incl : bundles' = [bundles EXCEPT ![newest].man = [mode |-> create.mode, incl |-> incl]]
    BY <1>0, <2>1 DEF WriteManifest
  <2>4. bundles'[newest].man.mode = create.mode
    BY <1>0, <2>2, <2>3 DEF Bundle
  <2>5. bundles'[newest].man # NoManifest
    BY <1>0, <2>4 DEF NoManifest, Modes
  <2>. QED
    BY <2>2, <2>5 DEF Readable
<1>3. CASE PruneStep
  <2>1. UNCHANGED <<newest, create>>
    BY <1>3, PruneLeaves
  <2>2. bundles'[newest] = bundles[newest]
    BY <1>3, <2>1, PruneSpares
  <2>. QED
    BY <2>1, <2>2 DEF Described, Readable
<1>. QED
  BY <1>1, <1>2, <1>3, NextIs

\* What the creation has copied when it writes the manifest.
LEMMA WholeWhenMade ==
    ASSUME Shape, Made, CopyFits, WriteManifest
    PROVE  Whole(newest)'
<1>0. /\ bundles \in [Ids -> Bundle] /\ newest \in Ids
      /\ create.pc = "copy" /\ create.id = newest /\ create.todo = {}
      /\ bundles[newest].sums = NoSums
      /\ UNCHANGED <<newest, during, rotated>>
  BY BackupConstants DEF WriteManifest, histories, Shape, Placed, TypeOK, Ids
<1>1. bundles'[newest].files = bundles[newest].files /\ bundles'[newest].sums = NoSums
  BY <1>0 DEF WriteManifest, Bundle
<1>2. {"db", "config"} \subseteq DOMAIN bundles[newest].files
  BY <1>0 DEF Made
<1>3. newest \notin rotated => Recovered(bundles[newest].files) \in during[newest]
  BY <1>0 DEF CopyFits, Fits
<1>. QED
  BY <1>0, <1>1, <1>2, <1>3 DEF Whole, IsState, Intact

\* Every step keeps a bundle with a manifest whole, or doomed.
LEMMA WholeOrDoomedStep ==
    Shape /\ Shape' /\ Made /\ Replaced /\ CopyFits /\ WholeOrDoomed /\ [Next]_vars => WholeOrDoomed'
<1>. SUFFICES ASSUME Shape, Shape', Made, Replaced, CopyFits, WholeOrDoomed, [Next]_vars,
                     NEW b \in Readable'
              PROVE  \/ Whole(b)'
                     \/ b \in prune'.doomed
                     \/ prune'.pc = "idle" /\ b \in Doomed'
  BY DEF WholeOrDoomed
<1>1. CASE b \notin Readable
  BY <1>1, BecomesReadable, WholeWhenMade DEF WriteManifest
<1>2. CASE b \in prune.doomed
  BY <1>2, StaysDoomed
<1>3. CASE b \in Readable /\ Whole(b) /\ b \notin prune.doomed
  <2>1. b \in Ids /\ bundles[b] # NoBundle /\ bundles'[b] # NoBundle
    BY <1>3 DEF Readable, NoBundle
  <2>2. (b \in rotated => b \in rotated') /\ during[b] \subseteq during'[b]
    BY <2>1, HistoriesGrow
  <2>3. StateOf(b)' = StateOf(b)
    BY <1>3, StateStays
  <2>4. \/ bundles'[b].sums = bundles[b].sums
        \/ bundles'[b].sums.files = bundles'[b].files
    <3>1. SumsOf(b).files = bundles[b].files
      BY DEF SumsOf
    <3>. QED
      BY <2>1, <3>1, SumsStep
  <2>. QED
    BY <1>3, <2>1, <2>2, <2>3, <2>4, WholeStays
<1>4. CASE b \in Readable /\ prune.pc = "idle" /\ b \in Doomed
  <2>1. CASE PruneStep
    <3>1. PICK trim \in BOOLEAN : PruneBackups(trim)
      BY <1>4, <2>1 DEF PruneStep, RemoveFile, RemoveManifest, TrimLogs, TrimManifest,
         TrimChecksums, PruneEnds, PruneDies
    <3>. QED
      BY <1>4, <3>1 DEF PruneBackups
  <2>2. CASE ~PruneStep
    <3>1. prune' = prune
      <4>1. CASE CreateStep
        BY <4>1 DEF CreateStep, CreateBackup, CopyFile, WriteManifest, WriteChecksums, CreateDies
      <4>. QED
        BY <2>2, <4>1, NextIs, OthersLeave
    <3>2. \A c \in Readable : bundles'[c].man = bundles[c].man
      BY <2>2, NextIs, OthersLeave, ManifestsStay
    <3>3. b \in Doomed'
      BY <1>4, <3>2, DoomedGrows DEF Readable
    <3>. QED
      BY <1>4, <3>1, <3>3
  <2>. QED
    BY <2>1, <2>2
<1>. QED
  BY <1>1, <1>2, <1>3, <1>4 DEF WholeOrDoomed

\* Every step keeps checksums that were made of a state the database had.
LEMMA SumsAreStatesStep ==
    Shape /\ Shape' /\ WholeInv /\ [Next]_vars => SumsAreStates'
<1>. SUFFICES ASSUME Shape, Shape', WholeInv, [Next]_vars,
                     NEW b \in Ids, bundles'[b].sums # NoSums
              PROVE  /\ IsState(b, bundles[b].sums.files)'
                     /\ DOMAIN bundles'[b].files \subseteq DOMAIN bundles'[b].sums.files
  BY DEF SumsAreStates
<1>1. bundles'[b] # NoBundle
  BY DEF NoBundle
<1>2. bundles[b] # NoBundle => (b \in rotated => b \in rotated') /\ during[b] \subseteq during'[b]
  BY <1>1, HistoriesGrow
<1>3. CASE /\ bundles'[b].sums = bundles[b].sums
           /\ bundles[b].sums # NoSums => Lessened(b)
  <2>1. bundles[b].sums # NoSums /\ bundles[b] # NoBundle
    BY <1>3 DEF NoBundle
  <2>2. IsState(b, bundles[b].sums.files)
    BY <2>1 DEF WholeInv, SumsAreStates
  <2>3. DOMAIN bundles'[b].files \subseteq DOMAIN bundles[b].sums.files
    BY <1>3, <2>1 DEF WholeInv, SumsAreStates, Lessened
  <2>. QED
    BY <1>2, <1>3, <2>1, <2>2, <2>3 DEF IsState
<1>4. CASE /\ bundles'[b].sums = SumsOf(b) /\ bundles'[b].files = bundles[b].files
           /\ \/ create.pc = "sums" /\ b = newest
              \/ prune.pc = "sums" /\ b = prune.id
  <2>1. b \in Readable /\ b \notin prune.doomed /\ ~(prune.pc = "idle" /\ b \in Doomed)
    <3>1. CASE create.pc = "sums" /\ b = newest
      BY <3>1, DoomedAreOlder DEF WholeInv, Described, Shape, Placed
    <3>2. CASE prune.pc = "sums" /\ b = prune.id
      BY <3>2 DEF Shape, Placed
    <3>. QED
      BY <1>4, <3>1, <3>2
  <2>2. IsState(b, bundles[b].files) /\ bundles[b] # NoBundle
    BY <2>1 DEF WholeInv, WholeOrDoomed, Whole, Readable, NoBundle
  <2>3. bundles'[b].sums.files = bundles[b].files
    BY <1>4 DEF SumsOf
  <2>. QED
    BY <1>2, <1>4, <2>2, <2>3 DEF IsState
<1>. QED
  BY <1>1, <1>3, <1>4, SumsStep

\* WholeInv holds in every state.
LEMMA WholeCorrect == Spec => []WholeInv
<1>1. Init => WholeInv
  BY DEF Init, CreateIdle, NoBundle, Readable, WholeInv, WholeOrDoomed, SumsAreStates, Described
<1>2. Shape /\ Shape' /\ SettledInv /\ Replaced /\ CopyFits /\ WholeInv /\ [Next]_vars => WholeInv'
  BY DescribedStep, WholeOrDoomedStep, SumsAreStatesStep DEF WholeInv, SettledInv
<1>. QED
  BY <1>1, <1>2, ShapeCorrect, SettledCorrect, ReplacedCorrect, CopyCorrect, PTL DEF Spec

\* A bundle that verifies holds a state that the database had while it was made
\* (copyAdapterSection, verifyBackup), except for the bundles whose database file
\* and log belong to different logs.
THEOREM VerifiedIsAState == Spec => []VerifiedBundleIsAState
<1>1. ASSUME WholeInv, NEW b \in Ids \ rotated, Verifies(b)
      PROVE  /\ {"db", "config"} \subseteq DOMAIN bundles[b].files
             /\ Recovered(bundles[b].files) \in during[b]
  <2>1. bundles[b].sums.files = bundles[b].files /\ bundles[b].sums # NoSums
    BY <1>1, VerifiedHasSums DEF Verifies, SumsMatch
  <2>. QED
    BY <1>1, <2>1 DEF WholeInv, SumsAreStates, IsState
<1>2. WholeInv => VerifiedBundleIsAState
  BY <1>1 DEF VerifiedBundleIsAState
<1>. QED
  BY <1>2, WholeCorrect, PTL

-----------------------------------------------------------------------------
(* What a restore has put in place is what the bundle holds *)

\* The section s of the installation is that of the bundle.
Matches(s) == \A p \in Holds(s) : Same(inst, bundles[restore.id].files, p)

Active == restore.pc \in {"safety", "remove", "copy", "done"}

\* The sections that the restore has dealt with are those of the bundle, unless the
\* bundle has lost files since.
RestoreInv ==
    Active =>
        /\ restore.pc = "safety" => restore.todo = restore.incl
        /\ restore.pc = "done" => restore.todo = {}
        /\ restore.id \in Readable => bundles[restore.id].sums # NoSums
        /\ restore.id \in Readable /\ Intact(restore.id) =>
             \A s \in restore.incl \ (restore.todo \cup {"logs"}) : Matches(s)

\* A bundle that has lost a file, but for the logs, never verifies again.
LEMMA HarmStays ==
    ASSUME Shape, Shape', WholeInv, [Next]_vars,
           NEW b \in Ids, b # create.id, b \in Readable => bundles[b].sums # NoSums,
           b \in Readable'
    PROVE  /\ b \in Readable /\ bundles'[b].sums # NoSums
           /\ Intact(b)' => /\ Intact(b)
                            /\ \A p \in Parts \ {"logs"} : Same(bundles[b].files, bundles'[b].files, p)
<1>1. b \in Readable
  BY BecomesReadable DEF WriteManifest, Shape, Placed
<1>2. /\ bundles'[b] # NoBundle /\ bundles[b].sums # NoSums
      /\ bundles[b].man # NoManifest
  BY <1>1 DEF Readable, NoBundle
<1>3. CASE bundles'[b].sums = bundles[b].sums /\ Lessened(b)
  <2>1. ASSUME Intact(b)'
        PROVE  /\ DOMAIN bundles[b].sums.files \ {"logs"} \subseteq DOMAIN bundles'[b].files
               /\ DOMAIN bundles[b].files \subseteq DOMAIN bundles[b].sums.files
    BY <1>2, <1>3, <2>1 DEF Intact, WholeInv, SumsAreStates
  <2>. QED
    BY <1>1, <1>2, <1>3, <2>1 DEF Intact, Lessened, Same
<1>4. CASE /\ bundles'[b].sums = SumsOf(b) /\ bundles'[b].files = bundles[b].files
           /\ \/ create.pc = "sums" /\ b = newest
              \/ prune.pc = "sums" /\ b = prune.id
  <2>1. prune.pc = "sums" /\ b = prune.id
    BY <1>4 DEF Shape, Placed
  <2>2. prune.doomed = {}
    BY <2>1 DEF Shape, Placed
  <2>3. Intact(b)
    BY <1>1, <2>1, <2>2 DEF WholeInv, WholeOrDoomed, Whole
  <2>4. SumsOf(b) # NoSums
    BY <1>2 DEF SumsOf, NoSums
  <2>. QED
    BY <1>1, <1>4, <2>3, <2>4 DEF Same
<1>. QED
  BY <1>2, <1>3, <1>4, SumsStep

\* What lies in the place of one section is not part of another.
LEMMA SectionsAreApart ==
    \A s, t \in Sections : s # t /\ s # "logs" => Holds(s) \cap Target(t) = {}
BY DEF Sections, Holds, Target

\* A creation or a pruning beside a restore keeps what it has put in place.
LEMMA RestoreOther ==
    Shape /\ Shape' /\ WholeInv /\ RestoreInv /\ (CreateStep \/ PruneStep) => RestoreInv'
<1>. SUFFICES ASSUME Shape, Shape', WholeInv, RestoreInv, CreateStep \/ PruneStep
              PROVE  RestoreInv'
  OBVIOUS
<1>1. UNCHANGED <<inst, restore>>
  BY PruneLeaves, CreateLeaves
<1>. SUFFICES ASSUME Active
              PROVE  RestoreInv'
  BY <1>1 DEF RestoreInv, Active
<1>2. PICK b \in Ids : b = restore.id
  BY BackupConstants DEF Active, Shape, Placed, TypeOK, Ids
<1>3. b # create.id /\ restore.incl \subseteq Sections /\ [Next]_vars
  BY <1>2, NextIs DEF Active, Shape, Placed, TypeOK
<1>4. b \in Readable => bundles[b].sums # NoSums
  BY <1>2 DEF RestoreInv
<1>5. ASSUME b \in Readable', Intact(b)', NEW s \in restore.incl \ (restore.todo \cup {"logs"})
      PROVE  \A p \in Holds(s) : Same(inst, bundles'[b].files, p)
  <2>1. /\ b \in Readable /\ Intact(b)
        /\ \A p \in Parts \ {"logs"} : Same(bundles[b].files, bundles'[b].files, p)
    BY <1>3, <1>4, <1>5, HarmStays
  <2>2. \A p \in Holds(s) : Same(inst, bundles[b].files, p)
    BY <1>2, <2>1 DEF RestoreInv, Matches
  <2>3. Holds(s) \subseteq Parts \ {"logs"}
    BY <1>3 DEF Holds, Sections, Parts
  <2>. QED
    BY <2>1, <2>2, <2>3 DEF Same
<1>6. b \in Readable' => bundles'[b].sums # NoSums
  BY <1>3, <1>4, HarmStays
<1>. QED
  BY <1>1, <1>2, <1>5, <1>6 DEF RestoreInv, Active, Matches

\* A restore deals with one section after the other, in what the others left.
LEMMA RestoreOwn == Shape /\ Gap /\ RestoreInv /\ RestoreStep => RestoreInv'
<1>. SUFFICES ASSUME Shape, Gap, RestoreInv, RestoreStep
              PROVE  RestoreInv'
  OBVIOUS
<1>0. /\ inst \in Files /\ restore.incl \subseteq Sections
      /\ restore.pc # "idle" => restore.id \in Ids
      /\ restore \in [pc : {"idle", "safety", "remove", "copy", "done", "failed"},
                      runs : 0..MaxRestores, id : 0..newest, incl : SUBSET Sections,
                      todo : SUBSET Sections, had : Files, safe : Files]
  BY BackupConstants DEF Shape, Placed, TypeOK, Ids
<1>1. bundles' = bundles
  BY OthersLeave
<1>2. ASSUME NEW b \in Ids, RestoreBackup(b)
      PROVE  RestoreInv'
  <2>1. /\ Verifies(b) /\ restore'.id = b /\ restore'.pc = "safety"
        /\ restore'.todo = restore'.incl
    BY <1>2 DEF RestoreBackup
  <2>2. bundles[b].sums # NoSums
    BY <2>1, VerifiedHasSums
  <2>. QED
    BY <1>1, <2>1, <2>2 DEF RestoreInv
<1>3. CASE RestoreDies \/ RestoreEnds
  <2>1. restore'.pc \in {"failed", "idle"}
    BY <1>0, <1>3 DEF RestoreDies, RestoreEnds, RestoreIdle
  <2>. QED
    BY <2>1 DEF RestoreInv, Active
<1>. DEFINE Good == restore.id \in Readable /\ Intact(restore.id)
            Done == restore.incl \ (restore.todo \cup {"logs"})
<1>4. ASSUME Active, restore'.pc \in {"remove", "copy", "done"},
             restore'.id = restore.id, restore'.incl = restore.incl,
             restore'.pc = "done" => restore'.todo = {},
             Good => \A s \in restore.incl \ (restore'.todo \cup {"logs"}) : \A p \in Holds(s) :
                        Same(inst', bundles[restore.id].files, p)
      PROVE  RestoreInv'
  <2>1. /\ restore.id \in Readable <=> restore.id \in Readable'
        /\ Readable' = Readable
    BY <1>1 DEF Readable
  <2>2. restore.id \in Readable => bundles[restore.id].sums # NoSums
    BY <1>4 DEF RestoreInv
  <2>3. Good <=> Good'
    BY <1>1, <1>4, <2>1 DEF Intact
  <2>. QED
    BY <1>1, <1>4, <2>1, <2>2, <2>3 DEF RestoreInv, Matches
<1>5. ASSUME Active, Good, NEW s \in Done
      PROVE  \A p \in Holds(s) : Same(inst, bundles[restore.id].files, p)
  BY <1>5 DEF RestoreInv, Matches
<1>6. CASE CreateSafetyCopy
  <2>1. /\ Active /\ restore'.pc = "remove" /\ restore'.id = restore.id
        /\ restore'.incl = restore.incl /\ restore'.todo = restore.todo /\ inst' = inst
    BY <1>0, <1>6 DEF CreateSafetyCopy, Active
  <2>. QED
    BY <1>4, <1>5, <2>1
<1>7. CASE RemoveTarget
  <2>1. /\ Active /\ restore'.pc = "copy" /\ restore'.id = restore.id
        /\ restore'.incl = restore.incl /\ restore'.todo = restore.todo
    BY <1>0, <1>7 DEF RemoveTarget, Active
  <2>2. PICK t \in Sections : t \in restore.todo /\ inst' = Restrict(inst, DOMAIN inst \ Target(t))
    BY <1>7 DEF RemoveTarget, IsFirst
  <2>3. /\ DOMAIN inst' = DOMAIN inst \ Target(t)
        /\ \A q \in DOMAIN inst' : inst'[q] = inst[q]
    BY <1>0, <2>2, RestrictIs
  <2>4. ASSUME Good, NEW s \in Done
        PROVE  \A p \in Holds(s) : Same(inst', bundles[restore.id].files, p)
    <3>1. Holds(s) \cap Target(t) = {}
      BY <1>0, <2>2, <2>4, SectionsAreApart
    <3>2. \A p \in Holds(s) : Same(inst, bundles[restore.id].files, p)
      BY <1>5, <2>1, <2>4
    <3>. QED
      BY <2>3, <3>1, <3>2 DEF Same
  <2>. QED
    BY <1>4, <2>1, <2>4
<1>8. ASSUME NEW t \in Sections, CopySection(t)
      PROVE  RestoreInv'
  <2>. DEFINE from == bundles[restore.id].files
              S == Holds(t) \cap DOMAIN from
              g == Restrict(from, S)
  <2>1. /\ Active /\ restore.pc = "copy" /\ restore'.pc = "remove" /\ restore'.id = restore.id
        /\ restore'.incl = restore.incl /\ restore'.todo = restore.todo \ {t}
        /\ IsFirst(t, restore.todo) /\ inst' = Overlay(inst, g)
    BY <1>0, <1>8 DEF CopySection, Active
  <2>2. from \in Files
    BY <1>0, <2>1, BundlesAre
  <2>3. g \in Files /\ DOMAIN g = S /\ \A q \in S : g[q] = from[q]
    BY <2>2, RestrictIs
  <2>4. /\ DOMAIN inst' = DOMAIN inst \cup S
        /\ \A q \in S : inst'[q] = from[q]
        /\ \A q \in DOMAIN inst \ S : inst'[q] = inst[q]
    <3>. HIDE DEF g
    <3>1. /\ DOMAIN Overlay(inst, g) = DOMAIN inst \cup DOMAIN g
          /\ \A q \in DOMAIN g : Overlay(inst, g)[q] = g[q]
          /\ \A q \in DOMAIN inst \ DOMAIN g : Overlay(inst, g)[q] = inst[q]
      BY <1>0, <2>3, OverlayIs
    <3>. QED
      BY <2>1, <2>3, <3>1
  <2>5. Target(t) \cap DOMAIN inst = {} /\ Holds(t) \subseteq Target(t)
    BY <2>1, HoldsUnderTarget DEF Gap
  <2>. HIDE DEF g
  <2>6. ASSUME Good, NEW s \in restore.incl \ ((restore.todo \ {t}) \cup {"logs"})
        PROVE  \A p \in Holds(s) : Same(inst', from, p)
    <3>1. CASE s = t
      BY <2>4, <2>5, <3>1 DEF Same
    <3>2. CASE s # t
      <4>1. Holds(s) \cap S = {}
        BY <1>0, <2>5, <2>6, <3>2, SectionsAreApart
      <4>2. \A p \in Holds(s) : Same(inst, from, p)
        BY <1>5, <2>1, <2>6, <3>2
      <4>. QED
        BY <2>4, <4>1, <4>2 DEF Same
    <3>. QED
      BY <3>1, <3>2
  <2>. QED
    BY <1>4, <2>1, <2>6
<1>9. CASE PutLogsBack
  <2>1. /\ Active /\ restore'.pc = "done" /\ restore'.id = restore.id
        /\ restore'.incl = restore.incl /\ restore'.todo = restore.todo /\ restore.todo = {}
        /\ \/ inst' = inst
           \/ "logs" \in DOMAIN restore.safe /\ inst' = Written(inst, "logs", restore.safe["logs"])
    BY <1>0, <1>9 DEF PutLogsBack, Active
  <2>2. \A p \in Parts \ {"logs"} : Same(inst', inst, p)
    <3>1. CASE inst' = inst
      BY <3>1 DEF Same
    <3>2. CASE "logs" \in DOMAIN restore.safe /\ inst' = Written(inst, "logs", restore.safe["logs"])
      <4>1. PICK c \in Changes : c = restore.safe["logs"]
        BY <1>0, <3>2, ContentIs
      <4>2. /\ DOMAIN Written(inst, "logs", c) = DOMAIN inst \cup {"logs"}
            /\ \A q \in DOMAIN inst \ {"logs"} : Written(inst, "logs", c)[q] = inst[q]
        <5>1. "logs" \in Parts /\ inst \in Files
          BY <1>0 DEF Parts
        <5>. QED
          BY <5>1, WrittenIs
      <4>. QED
        BY <3>2, <4>1, <4>2 DEF Same
    <3>. QED
      BY <2>1, <3>1, <3>2
  <2>3. ASSUME Good, NEW s \in Done
        PROVE  \A p \in Holds(s) : Same(inst', bundles[restore.id].files, p)
    <3>1. \A p \in Holds(s) : Same(inst, bundles[restore.id].files, p)
      BY <1>5, <2>1, <2>3
    <3>2. Holds(s) \subseteq Parts \ {"logs"}
      BY <1>0, <2>3 DEF Holds, Sections, Parts
    <3>. QED
      BY <2>2, <3>1, <3>2 DEF Same
  <2>. QED
    BY <1>4, <2>1, <2>3
<1>. QED
  BY <1>2, <1>3, <1>6, <1>7, <1>8, <1>9 DEF RestoreStep

\* A restore that ends well has put in place what the bundle holds, and nothing else
\* (replacePath, verifyBackup), as long as pruning has not touched the bundle.
THEOREM RestoredMatches == Spec => []RestoredIsBundle
<1>1. Init => RestoreInv
  BY DEF Init, RestoreIdle, RestoreInv, Active
<1>2. Shape /\ RestoreInv /\ (AdapterStep \/ UNCHANGED vars) => RestoreInv'
  <2>. SUFFICES ASSUME Shape, RestoreInv, AdapterStep \/ UNCHANGED vars
                PROVE  RestoreInv'
    OBVIOUS
  <2>1. CASE AdapterStep
    <3>1. restore.pc = "idle" /\ restore' = restore
      BY <2>1 DEF AdapterStep, Commit, Checkpoint, Stop, Start, Edit, jobs, Shape, Placed
    <3>. QED
      BY <3>1 DEF RestoreInv, Active
  <2>2. CASE UNCHANGED vars
    BY <2>2 DEF vars, RestoreInv, Active, Readable, Intact, Matches
  <2>. QED
    BY <2>1, <2>2
<1>3. Shape /\ Shape' /\ Gap /\ WholeInv /\ RestoreInv /\ [Next]_vars => RestoreInv'
  BY <1>2, NextIs, RestoreOther, RestoreOwn
<1>4. Shape /\ RestoreInv => RestoredIsBundle
  <2>. SUFFICES ASSUME Shape, RestoreInv, restore.pc = "done", Verifies(restore.id),
                       NEW s \in restore.incl \ {"logs"}
                PROVE  Matches(s)
    BY DEF RestoredIsBundle, Matches, Same
  <2>1. restore.id \in Readable /\ Intact(restore.id)
    BY DEF Verifies, SumsMatch, Intact
  <2>. QED
    BY <2>1 DEF RestoreInv, Active
<1>. QED
  BY <1>1, <1>3, <1>4, ShapeCorrect, CopyCorrect, WholeCorrect, PTL DEF Spec
=============================================================================
