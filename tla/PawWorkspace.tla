---------------------------- MODULE PawWorkspace ----------------------------
(***************************************************************************)
(* What paw does to the files of the user's working tree: the patches of a *)
(* worker's pass (patch-apply.ts, edit-policy.ts, worker-result.ts), the   *)
(* snapshots of paw prepare-checkpoint (checkpoints.ts,                    *)
(* slice-checkpoint.ts) and paw rollback (rollback-command.ts).            *)
(*                                                                         *)
(* A pass holds the session lock, so there is one at a time; rollback      *)
(* takes no lock, and the user edits files whenever they like.  Each file  *)
(* is read, checked and then written in steps of their own, and both       *)
(* commands may die between any two.  A content stands for itself and for  *)
(* its hash.  The lock and the commands between two passes are in          *)
(* PawSession: here a reviewed slice is simply followed by the next one.   *)
(***************************************************************************)
EXTENDS Naturals, Sequences, FiniteSets

CONSTANTS
  NumFiles,    \* files are numbered in the order changed_files lists them
  Changes,     \* what a worker may ask for, per file: see Change
  MaxSlices,   \* bound: slices
  MaxCheckpoints, \* bound: checkpoints
  MaxEdits,    \* bound: edits by the user
  MaxPasses,   \* bound: worker outputs
  MaxCrashes   \* bound: killed commands

Files == 1..NumFiles

Content(by, n) == [by |-> by, n |-> n]
Absent  == Content("none", 0)   \* no file; its hash is compared as ""
Base    == Content("base", 0)   \* what the file held before the task
Torn    == Content("torn", 0)   \* truncated and not completely written

Contents == {Absent, Base, Torn} \cup {Content("paw", n) : n \in 1..MaxSlices}
            \cup {Content("user", n) : n \in 1..MaxEdits}

(* full_file with and without base_content_hash, deletions alike; unified
   diffs; changes listed without content, which is also what paw
   complete-worker makes of any change; and no change of this file.  A change
   refused for its path, size, hash or type has the effect of a diff that does
   not apply; a deletion declares the empty hash of a missing file. *)
Change == [method : {"full_file", "diff", "listed", "none"},
           guarded : BOOLEAN, delete : BOOLEAN]

ASSUME WorkspaceAssumption ==
  /\ Changes \subseteq Change
  /\ {NumFiles, MaxSlices} \subseteq Nat \ {0}
  /\ {MaxCheckpoints, MaxEdits, MaxPasses, MaxCrashes} \subseteq Nat

VARIABLES
  tree,         \* the content of each file
  stage,        \* "select", "implementing" or "reviewing"
  slice,        \* the number of the current slice
  output,       \* the worker's changes: for each file the change, the
                \* content it was derived from and the content to write
  worker,       \* the pass: where it is, its file, and whether it has issues
  checkpoints,  \* the restore_files of each checkpoint, in order of creation
  rollback,     \* the rollback: where it is, its file and its checkpoint
  journal,      \* the entries of slice-journal.jsonl
  edits, passes, crashes,
  lost,         \* history: edits of the user that a command overwrote
  exposed,      \* history: edits put there between a command's check and write
  written,      \* history: who changed the tree since each checkpoint, but
                \* for the rollbacks to it
  disturbed,    \* history: since the output was first applied, a file was
                \* written by someone else or left torn
  touched       \* history: the files someone else has written since the pass
                \* checked them

treeVars == <<tree, lost, exposed, written, disturbed, touched>>
workspaceVars == <<tree, stage, slice, output, worker, checkpoints, rollback,
                   journal, edits, passes, crashes, lost, exposed, written,
                   disturbed, touched>>

NoPass     == [at |-> "none", file |-> 1, issues |-> FALSE]
NoRollback == [at |-> "none", file |-> 1, checkpoint |-> 1]
NoOutput   == [f \in Files |-> [change |-> "none", guarded |-> FALSE,
                                base |-> Absent, result |-> Absent]]

WorkspaceInit ==
  /\ tree \in [Files -> {Absent, Base}]
  /\ stage = "select" /\ slice = 1
  /\ output = NoOutput
  /\ worker = NoPass
  /\ checkpoints = <<>>
  /\ rollback = NoRollback
  /\ journal = {}
  /\ edits = 0 /\ passes = 0 /\ crashes = 0
  /\ lost = {} /\ exposed = {}
  /\ written = <<>>
  /\ disturbed = FALSE /\ touched = {}

Restorable == checkpoints[rollback.checkpoint]

(* Another command is between its check of f and its write of f. *)
InWindow(who, f) ==
  \/ who # "worker" /\ worker.at = "write" /\ worker.file = f
  \/ /\ who # "rollback" /\ rollback.at \in {"check", "restore"}
     /\ IF rollback.at = "check" THEN rollback.file > f ELSE rollback.file <= f

(* A command or the user writes a file.  An edit of the user that the writer
   has not been given is lost. *)
Write(who, f, content, known) ==
  /\ tree' = [tree EXCEPT ![f] = content]
  /\ lost' = lost \cup {n \in 1..edits : /\ tree[f] = Content("user", n)
                                         /\ tree[f] \notin known \cup {content}}
  /\ exposed' = exposed \cup {n \in 1..(edits + 1) :
                               content = Content("user", n) /\ InWindow(who, f)}
  /\ written' = [c \in DOMAIN written |->
                   IF content = tree[f] \/ (who = "rollback" /\ c = rollback.checkpoint)
                   THEN written[c] ELSE written[c] \cup {who}]
  /\ disturbed' = (disturbed \/ (who # "worker" /\ content # tree[f])
                             \/ content = Torn)
  /\ touched' = IF who = "worker" \/ content = tree[f] THEN touched
                ELSE touched \cup {f}

-----------------------------------------------------------------------------
(* A worker's pass *)

(* runPawWorkerOnce: the sub-agent answers with changes to the files as they
   are, or once more with the answer it gave before. *)
Outputs ==
  {[f \in Files |->
      [change  |-> c[f].method,
       guarded |-> c[f].guarded,
       base    |-> IF c[f].guarded THEN tree[f] ELSE Absent,
       result  |-> IF c[f].delete THEN Absent ELSE Content("paw", slice)]] :
     c \in [Files -> Changes]}

receiveOutput ==
  /\ stage = "implementing" /\ worker.at = "none"
  /\ passes < MaxPasses /\ passes' = passes + 1
  /\ \/ output' \in Outputs /\ disturbed' = FALSE
     \/ output # NoOutput /\ UNCHANGED <<output, disturbed>>
  /\ worker' = [NoPass EXCEPT !.at = "check"]
  /\ UNCHANGED <<tree, stage, slice, checkpoints, rollback, journal, edits,
                 crashes, lost, exposed, written, touched>>

(* evaluatePawEditIdempotency *)
evaluatePawEditIdempotency(current, base, result) ==
  CASE current = result -> "noop"
    [] current # result /\ current # base -> "rederive"
    [] OTHER -> "apply"

(* Mutant: the base is compared first, so a change that is already there is
   refused. *)
MutBaseFirst(current, o) ==
  CASE o.change = "full_file" ->
         IF o.guarded /\ current # o.base THEN "rederive" ELSE "apply"
    [] o.change = "diff" -> IF current = o.base THEN "apply" ELSE "rederive"
    [] OTHER -> "noop"

(* applyFullFileWorkerChange and applyDiffWorkerChange up to the write.  A diff
   that applies to anything but its base does not give the content whose hash
   it declares, and is refused too: also when it is applied already. *)
applyOneWorkerChangedFile(current, o) ==
  CASE o.change = "full_file" ->
         IF o.guarded THEN evaluatePawEditIdempotency(current, o.base, o.result)
         ELSE "apply"
    [] o.change = "diff" -> IF current = o.base THEN "apply" ELSE "rederive"
    [] OTHER -> "noop"

(* Mutant: the issues of the files are not looked at after the last one. *)
MutIssuesIgnored(w) ==
  IF w.file < NumFiles THEN [w EXCEPT !.at = "check", !.file = @ + 1]
  ELSE [w EXCEPT !.at = "journal", !.file = 1]

(* On to the next file; after the last one a pass with issues is refused and
   keeps what it wrote, one without goes on to its journal. *)
NextFile(w) ==
  CASE w.file < NumFiles -> [w EXCEPT !.at = "check", !.file = @ + 1]
    [] w.file = NumFiles /\ ~w.issues -> [w EXCEPT !.at = "journal", !.file = 1]
    [] OTHER -> NoPass

checkChangedFile ==
  /\ worker.at = "check"
  /\ worker' = LET verdict == applyOneWorkerChangedFile(tree[worker.file],
                                                        output[worker.file])
               IN  CASE verdict = "apply" -> [worker EXCEPT !.at = "write"]
                     [] verdict = "rederive" -> NextFile([worker EXCEPT !.issues = TRUE])
                     [] OTHER -> NextFile(worker)
  /\ touched' = touched \ {worker.file}
  /\ UNCHANGED <<tree, stage, slice, output, checkpoints, rollback, journal,
                 edits, passes, crashes, lost, exposed, written, disturbed>>

(* What a change may replace: the content it was derived from, or anything
   when it names none. *)
Given(o) == IF o.guarded THEN {o.base} ELSE Contents

(* The writeFile or rm of the change. *)
writeChangedFile ==
  LET o == output[worker.file] IN
  /\ worker.at = "write"
  /\ Write("worker", worker.file, o.result, Given(o))
  /\ worker' = NextFile(worker)
  /\ UNCHANGED <<stage, slice, output, checkpoints, rollback, journal, edits,
                 passes, crashes>>

Entry(f) == [slice |-> slice, file |-> f, hash |-> output[f].result]

(* appendPawSliceJournalEntry for each listed file, applied or not. *)
appendPawSliceJournalEntry ==
  /\ worker.at = "journal"
  /\ journal' = journal \cup {Entry(f) : f \in {f \in {worker.file} :
                                                  output[f].change # "none"}}
  /\ worker' = IF worker.file < NumFiles THEN [worker EXCEPT !.file = @ + 1]
               ELSE [worker EXCEPT !.at = "state"]
  /\ UNCHANGED <<treeVars, stage, slice, output, checkpoints, rollback, edits,
                 passes, crashes>>

(* writePawSessionState: the slice goes to review. *)
completePawWorkerPass ==
  /\ worker.at = "state"
  /\ stage' = "reviewing"
  /\ worker' = NoPass
  /\ UNCHANGED <<treeVars, slice, output, checkpoints, rollback, journal, edits,
                 passes, crashes>>

-----------------------------------------------------------------------------
(* Checkpoints and rollback *)

(* createPawRestorableFileSnapshots: the content to restore, and the hash the
   file must have for that, are both the file's as it is now. *)
createPawRestorableFileSnapshots ==
  [f \in Files |-> [restore_content |-> tree[f], current_content_hash |-> tree[f]]]

(* preparePawSliceCheckpoint: only before the slice is begun.  The files are the
   ones the user names; others are no part of a rollback. *)
preparePawSliceCheckpoint ==
  /\ stage = "select"
  /\ Len(checkpoints) < MaxCheckpoints
  /\ checkpoints' = Append(checkpoints, createPawRestorableFileSnapshots)
  /\ written' = Append(written, {})
  /\ UNCHANGED <<tree, stage, slice, output, worker, rollback, journal, edits,
                 passes, crashes, lost, exposed, disturbed, touched>>

(* createPawRollbackCommandResult takes the named checkpoint, in any state of
   the session and without its lock. *)
createPawRollbackCommandResult ==
  /\ rollback.at \in {"none", "blocked"}
  /\ \E c \in DOMAIN checkpoints :
       rollback' = [at |-> "check", file |-> 1, checkpoint |-> c]
  /\ UNCHANGED <<treeVars, stage, slice, output, worker, checkpoints, journal,
                 edits, passes, crashes>>

(* The next round of a loop over restore_files. *)
NextRestore(after) ==
  IF rollback.file < NumFiles THEN [rollback EXCEPT !.file = @ + 1] ELSE after

(* Mutant: only the first file is checked. *)
MutCheckFirstOnly ==
  /\ rollback.at = "check"
  /\ rollback' = IF tree[rollback.file] # Restorable[rollback.file].current_content_hash
                 THEN [rollback EXCEPT !.at = "blocked"]
                 ELSE [rollback EXCEPT !.at = "restore", !.file = 1]
  /\ UNCHANGED <<treeVars, stage, slice, output, worker, checkpoints, journal,
                 edits, passes, crashes>>

(* findUnsafeRestoreReason, one file at a time *)
findUnsafeRestoreReason ==
  /\ rollback.at = "check"
  /\ rollback' = IF tree[rollback.file] # Restorable[rollback.file].current_content_hash
                 THEN [rollback EXCEPT !.at = "blocked"]
                 ELSE NextRestore([rollback EXCEPT !.at = "restore", !.file = 1])
  /\ UNCHANGED <<treeVars, stage, slice, output, worker, checkpoints, journal,
                 edits, passes, crashes>>

(* restorePawOwnedFiles, one file at a time; writeRestoreContentAtomic renames a
   complete copy into place. *)
restorePawOwnedFiles ==
  /\ rollback.at = "restore"
  /\ Write("rollback", rollback.file,
           Restorable[rollback.file].restore_content, {})
  /\ rollback' = NextRestore(NoRollback)
  /\ UNCHANGED <<stage, slice, output, worker, checkpoints, journal, edits,
                 passes, crashes>>

-----------------------------------------------------------------------------
(* The session around them, the user, and kills *)

(* beginPawSliceImplementation *)
beginSlice ==
  /\ stage = "select"
  /\ stage' = "implementing"
  /\ UNCHANGED <<treeVars, slice, output, worker, checkpoints, rollback, journal,
                 edits, passes, crashes>>

(* The slice is reviewed and verified, and the next one selected. *)
nextSlice ==
  /\ stage = "reviewing" /\ slice < MaxSlices
  /\ slice' = slice + 1
  /\ stage' = "select"
  /\ output' = NoOutput
  /\ disturbed' = FALSE /\ touched' = {}
  /\ UNCHANGED <<tree, worker, checkpoints, rollback, journal, edits, passes,
                 crashes, lost, exposed, written>>

userEdits ==
  /\ edits < MaxEdits
  /\ edits' = edits + 1
  /\ \E f \in Files :
       Write("user", f, Content("user", edits + 1), {tree[f]})
  /\ UNCHANGED <<stage, slice, output, worker, checkpoints, rollback, journal,
                 passes, crashes>>

(* A killed pass may leave the file it was writing truncated: writeFile is not
   atomic, rm is. *)
workerDies ==
  /\ crashes < MaxCrashes /\ crashes' = crashes + 1
  /\ worker.at # "none"
  /\ worker' = NoPass
  /\ \/ UNCHANGED treeVars
     \/ /\ worker.at = "write" /\ output[worker.file].result # Absent
        /\ Write("worker", worker.file, Torn, Given(output[worker.file]))
  /\ UNCHANGED <<stage, slice, output, checkpoints, rollback, journal, edits,
                 passes>>

(* Mutant: a killed rollback leaves the file it was restoring truncated. *)
MutRollbackDies ==
  /\ crashes < MaxCrashes /\ crashes' = crashes + 1
  /\ rollback.at \in {"check", "restore"}
  /\ rollback' = NoRollback
  /\ IF rollback.at = "restore"
     THEN Write("rollback", rollback.file, Torn, Contents)
     ELSE UNCHANGED treeVars
  /\ UNCHANGED <<stage, slice, output, worker, checkpoints, journal, edits,
                 passes>>

(* A killed rollback leaves the files it has restored: the one it was at is
   either the old or the new one. *)
rollbackDies ==
  /\ crashes < MaxCrashes /\ crashes' = crashes + 1
  /\ rollback.at \in {"check", "restore"}
  /\ rollback' = NoRollback
  /\ UNCHANGED <<treeVars, stage, slice, output, worker, checkpoints, journal,
                 edits, passes>>

WorkspaceNext ==
  \/ receiveOutput \/ checkChangedFile \/ writeChangedFile
  \/ appendPawSliceJournalEntry \/ completePawWorkerPass
  \/ preparePawSliceCheckpoint \/ createPawRollbackCommandResult
  \/ findUnsafeRestoreReason \/ restorePawOwnedFiles
  \/ beginSlice \/ nextSlice \/ userEdits \/ workerDies \/ rollbackDies

WorkspaceSpec == WorkspaceInit /\ [][WorkspaceNext]_workspaceVars

-----------------------------------------------------------------------------
(* Properties *)

(* The type invariant: file contents come from the repository, the worker, the
   user or an interrupted write, and both commands are at one of their files. *)
WorkspaceTypeOK ==
  /\ tree \in [Files -> Contents]
  /\ stage \in {"select", "implementing", "reviewing"}
  /\ slice \in 1..MaxSlices
  /\ output \in [Files -> [change : {"full_file", "diff", "listed", "none"},
                          guarded : BOOLEAN, base : Contents, result : Contents]]
  /\ worker \in [at : {"none", "check", "write", "journal", "state"},
                 file : Files, issues : BOOLEAN]
  /\ checkpoints \in Seq([Files -> [restore_content : Contents,
                                    current_content_hash : Contents]])
  /\ rollback \in [at : {"none", "check", "restore", "blocked"},
                   file : Files, checkpoint : Nat]
  /\ edits \in 0..MaxEdits
  /\ lost \cup exposed \subseteq 1..MaxEdits
  /\ written \in Seq(SUBSET {"worker", "rollback", "user"})
  /\ Len(written) = Len(checkpoints)
  /\ disturbed \in BOOLEAN
  /\ touched \subseteq Files

(* An edit of the user is lost only when it came between a command's check of
   that file and its write, or to a change that names no base: the checks of
   evaluatePawEditIdempotency, of the diffs and of findUnsafeRestoreReason let
   no other edit be overwritten, whatever else runs or dies. *)
LostOnlyWhenRaced == lost \subseteq exposed

(* After a pass was killed or refused, the same output of full files goes
   through unless someone else wrote a file or the kill left one torn: what is
   applied already counts as applied (SPEC.md:223). *)
RetryAccepted ==
  ~disturbed /\ (\A f \in Files : output[f].change # "diff")
    => ~worker.issues

(* A slice under review has all changes of its pass in the journal, and every
   file holds what the journal's hash says unless someone else has written it
   since the pass looked at it. *)
JournalMatchesTree ==
  stage = "reviewing" =>
    \A f \in {f \in Files : output[f].change # "none"} :
      /\ Entry(f) \in journal
      /\ f \in touched \/ output[f].change = "listed" \/ tree[f] = output[f].result

(* A rollback is refused only if some file was written after its checkpoint by
   the worker, the user or the rollback to another checkpoint: one that was
   killed halfway can be run again. *)
RefusedOnlyIfWritten ==
  rollback.at = "blocked" => written[rollback.checkpoint] # {}
=============================================================================
