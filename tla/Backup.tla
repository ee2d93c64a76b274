------------------------------- MODULE Backup -------------------------------
(***************************************************************************)
(* Backups of an installation: the commands create, prune and restore,     *)
(* each a process of its own that timers and operators start, working on   *)
(* one directory of bundles while the adapter keeps writing its database.  *)
(* Any of them may die between two file operations.                        *)
(*                                                                         *)
(* Code: src/src/ops/backup/.  At most one command of each kind runs at a  *)
(* time, a bundle gets a directory of its own (its name is the second of   *)
(* its creation), so bundles are numbered in the order of their creation.  *)
(*                                                                         *)
(* A file is the set of the changes it holds.  Every transaction of the    *)
(* adapter, and every edit of .env, is a change with a number of its own.  *)
(* SQLite in WAL mode is external: "db" holds what has been checkpointed,  *)
(* "wal" the transactions since the log was begun.                         *)
(***************************************************************************)
EXTENDS Naturals, FiniteSets, Functions

CONSTANTS
    NightlyKeep,      \* --nightly-keep
    PreUpdateKeep,    \* --pre-update-keep
    LogKeep,          \* --log-backups-keep
    Creations,        \* the modes and the optional sections creations are asked for
    LogsInData,       \* LOG_DIR lies in the data directory (the default)
    MaxBundles,       \* bound: bundles ever created
    MaxRestores,      \* bound: restores ever begun
    MaxChanges        \* bound: changes ever made

Modes == {"nightly", "pre-update"}
Optional == {"license", "logs"}

ASSUME BackupConstants ==
    /\ NightlyKeep \in Nat \ {0}
    /\ PreUpdateKeep \in Nat \ {0}
    /\ LogKeep \in Nat \ {0}
    /\ Creations \subseteq Modes \X SUBSET Optional
    /\ LogsInData \in BOOLEAN
    /\ MaxBundles \in Nat
    /\ MaxRestores \in Nat
    /\ MaxChanges \in Nat \ {0}

VARIABLES
    up,          \* the adapter runs
    inst,        \* the files of the installation
    last,        \* the last change made
    bundles,     \* the bundle directories
    newest,      \* the bundle created last
    create,      \* the command create, prune, restore
    prune,
    restore,
    orphans,     \* history: bundles a command died or failed on
    rotated,     \* history: bundles whose "db" and "wal" belong to different logs
    during       \* history: the states the database had while a bundle was made

jobs == <<create, prune, restore>>
histories == <<orphans, rotated, during>>
vars == <<up, inst, last, bundles, newest, create, prune, restore, orphans, rotated, during>>

Sections == {"adapter", "config", "license", "logs"}
Parts == {"db", "wal", "config", "license", "logs"}
Ids == 1..MaxBundles

\* Files and sections are copied and removed in the order of their paths.
Place == [adapter |-> 1, db |-> 1, wal |-> 2, config |-> 3, license |-> 4, logs |-> 5]
IsFirst(p, P) == p \in P /\ \A q \in P : Place[p] <= Place[q]

\* The files of a section in a bundle.
Holds(s) == IF s = "adapter" THEN {"db", "wal"} ELSE {s}

Files == UNION {[P -> SUBSET (1..MaxChanges)] : P \in SUBSET Parts}
NoFiles == [p \in {} |-> {}]

\* The files f after those of g, or the one file p, have been written over them.
Overlay(f, g) == [q \in DOMAIN f \cup DOMAIN g |-> IF q \in DOMAIN g THEN g[q] ELSE f[q]]
Written(f, p, c) == [q \in DOMAIN f \cup {p} |-> IF q = p THEN c ELSE f[q]]

\* manifest.json: the mode and the sections included.
Manifest == [mode : Modes, incl : SUBSET Sections]
NoManifest == [mode |-> "none", incl |-> {}]

\* A bundle; its checksums stand for the files and the manifest they were made of.
Sums == [files : Files, man : Manifest \cup {NoManifest}]
NoSums == [files |-> NoFiles, man |-> NoManifest]
Bundle == [files : Files, man : Manifest \cup {NoManifest}, sums : Sums]
NoBundle == [files |-> NoFiles, man |-> NoManifest, sums |-> NoSums]

CreateIdle == [pc |-> "idle", id |-> 0, mode |-> "nightly", opts |-> {}, todo |-> {}]
PruneIdle == [pc |-> "idle", id |-> 0, doomed |-> {}, trims |-> {}]
RestoreIdle(n) == [pc |-> "idle", runs |-> n, id |-> 0, incl |-> {}, todo |-> {},
                   had |-> NoFiles, safe |-> NoFiles]

\* readManifest succeeds.
Readable == {b \in Ids : bundles[b].man # NoManifest}

\* Mutation: the files of the bundle are not compared with those listed.
ListedSumsMatch(x) ==
    /\ x.sums.man = x.man
    /\ \A p \in DOMAIN x.files : x.files[p] = x.sums.files[p]

\* verifyChecksums: the files listed are the files there are, byte for byte.
SumsMatch(x) == x.sums = [files |-> x.files, man |-> x.man]

\* verifyBackup, for the version the bundle was made by.
Verifies(b) ==
    LET x == bundles[b] IN
    /\ b \in Readable
    /\ \A s \in x.man.incl : Holds(s) \cap DOMAIN x.files # {}
    /\ SumsMatch(x)

\* The database that SQLite recovers from a "db" and its "wal".
Recovered(f) == f["db"] \cup (IF "wal" \in DOMAIN f THEN f["wal"] ELSE {})

Init ==
    /\ up = TRUE
    /\ inst = [p \in Parts |-> IF p = "db" THEN {} ELSE {1}]
    /\ last = 1
    /\ bundles = [b \in Ids |-> NoBundle]
    /\ newest = 0
    /\ create = CreateIdle
    /\ prune = PruneIdle
    /\ restore = RestoreIdle(0)
    /\ orphans = {}
    /\ rotated = {}
    /\ during = [b \in Ids |-> {}]

-----------------------------------------------------------------------------
(* The adapter and the operator *)

\* The creation will copy the file p next.
CopiesNext(p) == create.pc = "copy" /\ IsFirst(p, create.todo)

\* The database is in the state st while a bundle is made.
Observe(st) ==
    during' = IF create.pc = "copy"
              THEN [during EXCEPT ![create.id] = @ \cup {st}]
              ELSE during

\* A transaction, and its line in the log.  A log whose transactions have all
\* been checkpointed is begun again.
Commit ==
    /\ up
    /\ last < MaxChanges
    /\ LET begin == "wal" \notin DOMAIN inst \/ inst["wal"] \subseteq inst["db"]
           wal == {last + 1} \cup (IF begin THEN {} ELSE inst["wal"])
           log == {last + 1} \cup (IF "logs" \in DOMAIN inst THEN inst["logs"] ELSE {})
       IN /\ inst' = Written(Written(inst, "logs", log), "wal", wal)
          /\ rotated' = IF begin /\ CopiesNext("wal")
                        THEN rotated \cup {create.id} ELSE rotated
    /\ last' = last + 1
    /\ Observe(Recovered(inst'))
    /\ UNCHANGED <<up, bundles, newest, jobs, orphans>>

\* SQLite checkpoints on its own.
Checkpoint ==
    /\ up
    /\ inst' = [inst EXCEPT !["db"] = Recovered(inst)]
    /\ UNCHANGED <<up, last, bundles, newest, jobs, histories>>

\* The adapter closes its store, which checkpoints and removes the log, or is
\* killed.
Stop ==
    /\ up
    /\ up' = FALSE
    /\ \/ inst' = Written(Restrict(inst, DOMAIN inst \ {"wal"}), "db", Recovered(inst))
       \/ inst' = inst
    /\ UNCHANGED <<last, bundles, newest, jobs, histories>>

\* The adapter starts, with a new database when there is none.  Stopping it for
\* the time of a restore is up to the operator, who confirms it.
Start ==
    /\ ~up
    /\ restore.pc = "idle"
    /\ "config" \in DOMAIN inst
    /\ up' = TRUE
    /\ inst' = IF "db" \in DOMAIN inst THEN inst ELSE Written(inst, "db", {})
    /\ Observe(Recovered(inst'))
    /\ UNCHANGED <<last, bundles, newest, jobs, orphans, rotated>>

\* The operator edits .env.
Edit ==
    /\ restore.pc = "idle"
    /\ last < MaxChanges
    /\ inst' = Written(inst, "config", {last + 1})
    /\ last' = last + 1
    /\ UNCHANGED <<up, bundles, newest, jobs, histories>>

-----------------------------------------------------------------------------
(* create *)

\* What is known of the bundle b is dropped, when nothing reads it again.
Forget(b, dead) ==
    /\ orphans' = dead \ {b}
    /\ rotated' = rotated \ {b}
    /\ during' = [during EXCEPT ![b] = {}]

\* The files to copy: the data directory as it is listed now, and what was asked.
Listed(opts) == {"db", "config"} \cup opts \cup ({"wal"} \cap DOMAIN inst)

\* Mutation: a creation in the same second takes the same directory.
SameStamp == newest' = newest

\* The directory is named by the second and taken.
NextStamp == newest' = newest + 1

\* createBackup up to its first copy.
CreateBackup(mode, opts) ==
    /\ <<mode, opts>> \in Creations
    /\ create.pc = "idle"
    /\ {"db", "config"} \subseteq DOMAIN inst
    /\ newest < MaxBundles
    /\ NextStamp
    /\ create' = [pc |-> "copy", id |-> newest + 1, mode |-> mode, opts |-> opts,
                  todo |-> Listed(opts)]
    /\ during' = [during EXCEPT ![newest + 1] = {Recovered(inst)}]
    /\ UNCHANGED <<up, inst, last, bundles, prune, restore, orphans, rotated>>

\* copyAdapterSection, copyConfigSection, copyLicenseSection, copyLogSection: one
\* file.  An optional section that is not there is left out.
CopyFile(p) ==
    /\ CopiesNext(p)
    /\ p \in DOMAIN inst \cup Optional
    /\ bundles' = IF p \in DOMAIN inst
                  THEN [bundles EXCEPT ![create.id].files = Written(@, p, inst[p])]
                  ELSE bundles
    /\ create' = [create EXCEPT !.todo = create.todo \ {p}]
    /\ UNCHANGED <<up, inst, last, newest, prune, restore, histories>>

WriteManifest ==
    /\ create.pc = "copy"
    /\ create.todo = {}
    /\ bundles' = [bundles EXCEPT ![create.id].man =
                     [mode |-> create.mode,
                      incl |-> {"adapter", "config"} \cup
                               (create.opts \cap DOMAIN bundles[create.id].files)]]
    /\ create' = [create EXCEPT !.pc = "sums"]
    /\ UNCHANGED <<up, inst, last, newest, prune, restore, histories>>

\* The checksums of the bundle b as it is now.
SumsOf(b) == [files |-> bundles[b].files, man |-> bundles[b].man]

\* writeChecksums, after the files have been read.
WriteChecksums ==
    /\ create.pc = "sums"
    /\ bundles' = [bundles EXCEPT ![create.id].sums = SumsOf(create.id)]
    /\ create' = CreateIdle
    /\ UNCHANGED <<up, inst, last, newest, prune, restore, histories>>

\* The creation dies, or fails: a listed file has gone.  A directory without a
\* manifest is read by nobody, so its files are forgotten.
CreateDies ==
    /\ create.pc # "idle"
    /\ IF create.id \in Readable
       THEN /\ orphans' = orphans \cup {create.id}
            /\ UNCHANGED <<bundles, rotated, during>>
       ELSE /\ bundles' = [bundles EXCEPT ![create.id] = NoBundle]
            /\ Forget(create.id, orphans)
    /\ create' = CreateIdle
    /\ UNCHANGED <<up, inst, last, newest, prune, restore>>

-----------------------------------------------------------------------------
(* prune *)

Keep(mode) == IF mode = "nightly" THEN NightlyKeep ELSE PreUpdateKeep

\* The bundles of B that keep or more bundles of B are newer than.
Newer(B, b) == {c \in B : c > b}
Beyond(B, keep) == {b \in B : Cardinality(Newer(B, b)) >= keep}

OfMode(mode) == {b \in Readable : bundles[b].man.mode = mode}

\* Mutation: the modes share one count.
DoomedOfAnyMode == Beyond(Readable, NightlyKeep)

\* pruneGroup for each mode.
Doomed == UNION {Beyond(OfMode(mode), Keep(mode)) : mode \in Modes}

\* pruneBackups reads the manifests.  Logs are trimmed when asked.
PruneBackups(trim) ==
    /\ prune.pc = "idle"
    /\ prune' = [pc |-> "remove", id |-> 0, doomed |-> Doomed,
                 trims |-> IF trim THEN Beyond(Readable \ Doomed, LogKeep) ELSE {}]
    /\ UNCHANGED <<up, inst, last, bundles, newest, create, restore, histories>>

\* rmSync of a bundle, one file after the other; its manifest and checksums go last.
RemoveFile(b) ==
    /\ prune.pc = "remove"
    /\ b \in prune.doomed
    /\ prune.id \in {0, b}
    /\ \E p \in Parts : IsFirst(p, DOMAIN bundles[b].files) /\
           bundles' = [bundles EXCEPT ![b].files = Restrict(@, DOMAIN @ \ {p})]
    /\ prune' = [prune EXCEPT !.id = b]
    /\ UNCHANGED <<up, inst, last, newest, create, restore, histories>>

RemoveManifest(b) ==
    /\ prune.pc = "remove"
    /\ b \in prune.doomed
    /\ prune.id \in {0, b}
    /\ bundles[b].files = NoFiles
    /\ bundles' = [bundles EXCEPT ![b] = NoBundle]
    /\ prune' = [prune EXCEPT !.id = 0, !.doomed = prune.doomed \ {b}]
    /\ Forget(b, orphans)
    /\ UNCHANGED <<up, inst, last, newest, create, restore>>

\* trimLogs: the next candidate; one whose logs are not there is passed over.
TrimLogs(b) ==
    /\ prune.pc = "remove"
    /\ prune.doomed = {}
    /\ b \in prune.trims
    /\ b \in Readable
    /\ IF "logs" \in bundles[b].man.incl \cap DOMAIN bundles[b].files
       THEN /\ bundles' = [bundles EXCEPT ![b].files = Restrict(@, DOMAIN @ \ {"logs"})]
            /\ prune' = [prune EXCEPT !.pc = "manifest", !.id = b, !.trims = prune.trims \ {b}]
       ELSE /\ prune' = [prune EXCEPT !.trims = prune.trims \ {b}]
            /\ UNCHANGED bundles
    /\ UNCHANGED <<up, inst, last, newest, create, restore, histories>>

TrimManifest ==
    /\ prune.pc = "manifest"
    /\ bundles' = [bundles EXCEPT ![prune.id].man.incl = @ \ {"logs"}]
    /\ prune' = [prune EXCEPT !.pc = "sums"]
    /\ UNCHANGED <<up, inst, last, newest, create, restore, histories>>

\* Mutation: the checksums are not written again.
TrimWithoutChecksums ==
    /\ prune.pc = "sums"
    /\ prune' = [prune EXCEPT !.pc = "remove", !.id = 0]
    /\ UNCHANGED <<up, inst, last, bundles, newest, create, restore, histories>>

TrimChecksums ==
    /\ prune.pc = "sums"
    /\ bundles' = [bundles EXCEPT ![prune.id].sums = SumsOf(prune.id)]
    /\ prune' = [prune EXCEPT !.pc = "remove", !.id = 0]
    /\ UNCHANGED <<up, inst, last, newest, create, restore, histories>>

PruneEnds ==
    /\ prune.pc = "remove"
    /\ prune.doomed = {}
    /\ prune.trims = {}
    /\ prune' = PruneIdle
    /\ UNCHANGED <<up, inst, last, bundles, newest, create, restore, histories>>

\* The pruning dies, perhaps with the manifest half written.
PruneDies ==
    /\ prune.pc # "idle"
    /\ orphans' = orphans \cup ({prune.id} \ {0})
    /\ \/ UNCHANGED bundles
       \/ /\ prune.pc = "manifest"
          /\ bundles' = [bundles EXCEPT ![prune.id].man = NoManifest]
    /\ prune' = PruneIdle
    /\ UNCHANGED <<up, inst, last, newest, create, restore, rotated, during>>

-----------------------------------------------------------------------------
(* restore *)

\* What lies under the path that a section is restored to.
Target(s) ==
    IF s # "adapter" THEN {s}
    ELSE {"db", "wal"} \cup (IF LogsInData THEN {"logs"} ELSE {})

\* restoreBackup up to the end of verifyBackup.
RestoreBackup(b) ==
    /\ ~up
    /\ restore.pc = "idle"
    /\ restore.runs < MaxRestores
    /\ Verifies(b)
    /\ LET incl == bundles[b].man.incl IN
       restore' = [pc |-> "safety", runs |-> restore.runs + 1, id |-> b, incl |-> incl,
                   todo |-> incl, had |-> inst, safe |-> NoFiles]
    /\ UNCHANGED <<up, inst, last, bundles, newest, create, prune, histories>>

\* Mutation: the logs are not preserved when the bundle has none.
SafeCopyWithoutLogs(incl) ==
    Restrict(inst, DOMAIN inst \cap UNION {Holds(s) : s \in incl})

\* createSafetyCopy and preserveLogs.
SafeCopy(incl) ==
    Restrict(inst, DOMAIN inst \cap ({"logs"} \cup UNION {Target(s) : s \in incl}))

CreateSafetyCopy ==
    /\ restore.pc = "safety"
    /\ restore' = [restore EXCEPT !.pc = "remove", !.safe = SafeCopy(restore.incl)]
    /\ UNCHANGED <<up, inst, last, bundles, newest, create, prune, histories>>

\* Mutation: replacePath copies over what is there.
CopyOverTarget ==
    /\ restore.pc = "remove"
    /\ restore.todo # {}
    /\ restore' = [restore EXCEPT !.pc = "copy"]
    /\ UNCHANGED <<up, inst, last, bundles, newest, create, prune, histories>>

\* replacePath: rmSync of the target of the next section.
RemoveTarget ==
    /\ restore.pc = "remove"
    /\ \E s \in Sections :
           /\ IsFirst(s, restore.todo)
           /\ inst' = Restrict(inst, DOMAIN inst \ Target(s))
           /\ rotated' = IF s = "adapter" /\ \E p \in {"db", "wal"} : CopiesNext(p)
                         THEN rotated \cup {create.id} ELSE rotated
    /\ restore' = [restore EXCEPT !.pc = "copy"]
    /\ UNCHANGED <<up, last, bundles, newest, create, prune, orphans, during>>

\* replacePath: copyPath of the section.
CopySection(s) ==
    /\ restore.pc = "copy"
    /\ IsFirst(s, restore.todo)
    /\ LET from == bundles[restore.id].files IN
       /\ Holds(s) \cap DOMAIN from # {}
       /\ inst' = Overlay(inst, Restrict(from, Holds(s) \cap DOMAIN from))
       /\ IF s = "adapter" /\ "db" \in DOMAIN from
          THEN Observe(Recovered(inst')) ELSE UNCHANGED during
    /\ restore' = [restore EXCEPT !.pc = "remove", !.todo = restore.todo \ {s}]
    /\ UNCHANGED <<up, last, bundles, newest, create, prune, orphans, rotated>>

\* The logs that were preserved are put back.
PutLogsBack ==
    /\ restore.pc = "remove"
    /\ restore.todo = {}
    /\ inst' = IF "logs" \notin restore.incl /\ "logs" \in DOMAIN restore.safe
               THEN Written(inst, "logs", restore.safe["logs"])
               ELSE inst
    /\ restore' = [restore EXCEPT !.pc = "done"]
    /\ UNCHANGED <<up, last, bundles, newest, create, prune, histories>>

\* A restore dies, or throws: the bundle has lost the section.
RestoreDies ==
    /\ restore.pc \in {"safety", "remove", "copy"}
    /\ restore' = [restore EXCEPT !.pc = "failed"]
    /\ UNCHANGED <<up, inst, last, bundles, newest, create, prune, histories>>

\* The operator goes on with what the restore has left.
RestoreEnds ==
    /\ restore.pc \in {"done", "failed"}
    /\ restore' = RestoreIdle(restore.runs)
    /\ UNCHANGED <<up, inst, last, bundles, newest, create, prune, histories>>

-----------------------------------------------------------------------------
Next ==
    \/ Commit \/ Checkpoint \/ Stop \/ Start \/ Edit
    \/ \E mode \in Modes, opts \in SUBSET Optional : CreateBackup(mode, opts)
    \/ \E p \in Parts : CopyFile(p)
    \/ WriteManifest \/ WriteChecksums \/ CreateDies
    \/ \E trim \in BOOLEAN : PruneBackups(trim)
    \/ \E b \in Ids : RemoveFile(b) \/ RemoveManifest(b) \/ TrimLogs(b)
    \/ TrimManifest \/ TrimChecksums \/ PruneEnds \/ PruneDies
    \/ \E b \in Ids : RestoreBackup(b)
    \/ \E s \in Sections : CopySection(s)
    \/ CreateSafetyCopy \/ RemoveTarget \/ PutLogsBack
    \/ RestoreDies \/ RestoreEnds

Spec == Init /\ [][Next]_vars

-----------------------------------------------------------------------------
(* Properties *)

TypeOK ==
    /\ up \in BOOLEAN
    /\ inst \in Files
    /\ last \in 1..MaxChanges
    /\ bundles \in [Ids -> Bundle]
    /\ newest \in 0..MaxBundles
    /\ create \in [pc : {"idle", "copy", "sums"}, id : 0..newest, mode : Modes,
                   opts : SUBSET Optional, todo : SUBSET Parts]
    /\ prune \in [pc : {"idle", "remove", "manifest", "sums"}, id : 0..newest,
                  doomed : SUBSET Ids, trims : SUBSET Ids]
    /\ restore \in [pc : {"idle", "safety", "remove", "copy", "done", "failed"},
                    runs : 0..MaxRestores, id : 0..newest, incl : SUBSET Sections, todo : SUBSET Sections,
                    had : Files, safe : Files]
    /\ orphans \subseteq Ids
    /\ rotated \subseteq Ids
    /\ during \in [Ids -> SUBSET SUBSET (1..MaxChanges)]

\* A bundle that verifies recovers to a state that the database had while the
\* bundle was made, unless a new log was begun between the copies of the database
\* file and of its log, or a restore replaced them after they were listed
\* (copyAdapterSection, verifyBackup).  Neither a creation that died, nor a removal
\* that died, leaves a bundle that verifies without being whole.
VerifiedBundleIsAState ==
    \A b \in Ids \ rotated :
        Verifies(b) => /\ {"db", "config"} \subseteq DOMAIN bundles[b].files
                       /\ Recovered(bundles[b].files) \in during[b]

\* A bundle with a manifest verifies, whatever pruning has done to it, unless a
\* command is at work on it or has died on it (createBackup, pruneBackups).
SettledBundlesVerify ==
    \A b \in Readable \ orphans : b \in {create.id, prune.id} \/ Verifies(b)

\* A bundle loses files of the installation only to a pruning that leaves as many
\* newer bundles of its mode, with a manifest, as were to be kept; other commands
\* and the trimming of logs leave those files as they are (pruneGroup, trimLogs).
StateOf(b) == Restrict(bundles[b].files, DOMAIN bundles[b].files \ {"logs"})
PruneKeepsNewest ==
    [][\A b \in Readable :
         StateOf(b)' # StateOf(b) =>
            Cardinality(Newer(OfMode(bundles[b].man.mode), b))
                >= Keep(bundles[b].man.mode)]_vars

\* A restore that ends well has put in place what the bundle holds and nothing
\* else, the log of the database included, as long as pruning has not touched the
\* bundle meanwhile (replacePath).
RestoredIsBundle ==
    restore.pc = "done" /\ Verifies(restore.id) =>
        \A s \in restore.incl \ {"logs"} : \A p \in Holds(s) :
            /\ p \in DOMAIN inst <=> p \in DOMAIN bundles[restore.id].files
            /\ p \in DOMAIN inst => inst[p] = bundles[restore.id].files[p]

\* Whatever the installation held when a restore began is still in place or in the
\* safety copy, wherever the restore fails or dies (createSafetyCopy, preserveLogs).
NothingIsLost ==
    restore.pc # "idle" =>
        \A p \in DOMAIN restore.had :
            \/ p \in DOMAIN inst /\ inst[p] = restore.had[p]
            \/ p \in DOMAIN restore.safe /\ restore.safe[p] = restore.had[p]
=============================================================================
