------------------------- MODULE PawWorkspaceProofs -------------------------
(***************************************************************************)
(* Theorems about PawWorkspace for every number of files and slices, every *)
(* set of changes a worker may ask for and every bound.                    *)
(*                                                                         *)
(* The four properties are about three readers of the working tree that    *)
(* look at a file first and rely on it later: the pass, the rollback and   *)
(* the journal.  The inductive invariant says for each what is still true  *)
(* of the files it has looked at, or who is to blame if it is not.         *)
(***************************************************************************)
EXTENDS PawWorkspace, SequenceTheorems, TLAPS

UserContent(n) == Content("user", n)

(* What the user will write is nowhere yet. *)
NoFutureEdit ==
  \A n \in 1..MaxEdits : n > edits =>
    /\ \A f \in Files : tree[f] # UserContent(n)
    /\ \A c \in DOMAIN checkpoints, f \in Files :
         checkpoints[c][f].restore_content # UserContent(n)

(* A snapshot restores the content whose hash it asks for. *)
SnapshotsAgree ==
  \A c \in DOMAIN checkpoints, f \in Files :
    checkpoints[c][f].restore_content = checkpoints[c][f].current_content_hash

(* A worker writes its own contents, or deletes. *)
ResultsAreWorkers ==
  \A f \in Files, n \in 1..MaxEdits : output[f].result # UserContent(n)

(* A pass is part of the implementation of a slice, and ends without issues to
   tell the next one. *)
PassInSlice ==
  /\ worker.at # "none" => stage = "implementing"
  /\ worker.at \in {"none", "journal", "state"} => ~worker.issues

RollbackHasCheckpoint ==
  rollback.at # "none" => rollback.checkpoint \in DOMAIN checkpoints

(* The file a pass is about to write holds what the change was derived from, or
   an edit that came after the check. *)
PassHasChecked ==
  worker.at = "write" /\ output[worker.file].guarded =>
    \A n \in 1..MaxEdits :
      tree[worker.file] = UserContent(n)
        => n \in exposed \/ tree[worker.file] = output[worker.file].base

(* A file the rollback has checked and not yet restored holds what the snapshot
   asks for, or an edit that came after the check. *)
CheckedByRollback(f) ==
  \/ rollback.at = "check" /\ rollback.file > f
  \/ rollback.at = "restore" /\ rollback.file <= f

RollbackHasChecked ==
  \A f \in Files, n \in 1..MaxEdits :
    CheckedByRollback(f) /\ tree[f] = UserContent(n)
      => n \in exposed \/ tree[f] = Restorable[f].restore_content

(* As long as no one else writes, every file is as the worker found it or as it
   wants it. *)
FilesAsGiven ==
  ~disturbed => \A f \in Files :
    output[f].guarded => tree[f] \in {output[f].base, output[f].result}

(* The files a pass without issues has been through. *)
Applied(f) ==
  f \in touched \/ output[f].change \in {"none", "listed"} \/ tree[f] = output[f].result

Passed(f) ==
  \/ worker.at \in {"check", "write"} /\ f < worker.file
  \/ worker.at \in {"journal", "state"}

PassedAreApplied == ~worker.issues => \A f \in Files : Passed(f) => Applied(f)

PassedAreJournalled ==
  \A f \in Files :
    (worker.at = "journal" /\ f < worker.file) \/ worker.at = "state"
      => output[f].change = "none" \/ Entry(f) \in journal

(* A checkpoint since which no one has written anything is still the tree. *)
SnapshotIsTree ==
  \A c \in DOMAIN checkpoints :
    written[c] = {} => \A f \in Files : tree[f] = checkpoints[c][f].current_content_hash

(* The inductive invariant, in the parts that the properties need. *)
EditsInv ==
  /\ NoFutureEdit /\ SnapshotsAgree /\ ResultsAreWorkers /\ RollbackHasCheckpoint
  /\ PassHasChecked /\ RollbackHasChecked
  /\ LostOnlyWhenRaced

PassInv ==
  /\ PassInSlice
  /\ FilesAsGiven /\ PassedAreApplied /\ PassedAreJournalled
  /\ RetryAccepted /\ JournalMatchesTree

WInv ==
  /\ WorkspaceTypeOK
  /\ EditsInv
  /\ PassInv
  /\ SnapshotIsTree /\ RefusedOnlyIfWritten

-----------------------------------------------------------------------------
(* The contents, told apart by who wrote them. *)
LEMMA ContentFacts ==
  /\ {Absent, Base, Torn} \subseteq Contents
  /\ \A n \in 1..MaxSlices : Content("paw", n) \in Contents
  /\ \A n \in 1..MaxEdits : UserContent(n) \in Contents
  /\ \A n \in Nat : /\ UserContent(n) \notin {Absent, Base, Torn}
                    /\ \A m \in Nat : UserContent(n) # Content("paw", m)
                    /\ \A m \in Nat : UserContent(n) = UserContent(m) => n = m
                    /\ UserContent(n) \in Contents => n \in 1..MaxEdits
BY WorkspaceAssumption DEF Contents, Content, UserContent, Absent, Base, Torn

(* The file numbers of a loop over the files. *)
LEMMA FileNumbers ==
  /\ 1 \in Files /\ NumFiles \in Files
  /\ \A f \in Files : f \in Nat /\ f <= NumFiles /\ (f < NumFiles => f + 1 \in Files)
BY WorkspaceAssumption DEF Files

Passes == [at : {"none", "check", "write", "journal", "state"},
           file : Files, issues : BOOLEAN]

(* On to the next file: its number, and what becomes of the issues. *)
LEMMA NextFileFacts ==
  ASSUME NEW w \in Passes
  PROVE  /\ NextFile(w) \in Passes
         /\ NextFile(w).at \in {"check", "journal", "none"}
         /\ \/ /\ w.file < NumFiles
               /\ NextFile(w).at = "check" /\ NextFile(w).file = w.file + 1
               /\ NextFile(w).issues = w.issues
            \/ /\ w.file = NumFiles /\ ~w.issues
               /\ NextFile(w).at = "journal" /\ NextFile(w).file = 1
               /\ NextFile(w).issues = w.issues
            \/ NextFile(w) = NoPass
<1>1. /\ w.file \in Files
      /\ w.file < NumFiles \/ w.file = NumFiles
  BY FileNumbers DEF Passes
<1>2. CASE w.file < NumFiles
  <2>1. NextFile(w) = [w EXCEPT !.at = "check", !.file = w.file + 1]
    BY <1>2, FileNumbers DEF NextFile
  <2> QED
    BY <1>1, <1>2, <2>1, FileNumbers DEF Passes
<1>3. CASE w.file = NumFiles /\ ~w.issues
  <2>1. NextFile(w) = [w EXCEPT !.at = "journal", !.file = 1]
    BY <1>3, FileNumbers DEF NextFile
  <2> QED
    BY <1>3, <2>1, FileNumbers DEF Passes
<1>4. CASE w.file = NumFiles /\ w.issues
  <2>1. NextFile(w) = NoPass
    BY <1>4, FileNumbers DEF NextFile
  <2> QED
    BY <2>1, FileNumbers DEF Passes, NoPass
<1> QED
  BY <1>1, <1>2, <1>3, <1>4

(* The next round of a loop of the rollback. *)
LEMMA NextRestoreFacts ==
  ASSUME WorkspaceTypeOK,
         NEW after \in [at : {"none", "check", "restore", "blocked"},
                        file : Files, checkpoint : Nat]
  PROVE  /\ NextRestore(after) \in [at : {"none", "check", "restore", "blocked"},
                                     file : Files, checkpoint : Nat]
         /\ \/ /\ rollback.file < NumFiles
               /\ NextRestore(after) = [rollback EXCEPT !.file = rollback.file + 1]
            \/ rollback.file = NumFiles /\ NextRestore(after) = after
BY FileNumbers DEF NextRestore, WorkspaceTypeOK

(* What a write changes, as the conjuncts below need it. *)
LEMMA WriteFacts ==
  ASSUME WorkspaceTypeOK, NEW who \in {"worker", "rollback", "user"}, NEW f \in Files,
         NEW content \in Contents, NEW known, edits < MaxEdits \/ who # "user",
         Write(who, f, content, known)
  PROVE  /\ tree' \in [Files -> Contents]
         /\ tree'[f] = content
         /\ \A g \in Files \ {f} : tree'[g] = tree[g]
         /\ lost' \subseteq 1..MaxEdits /\ exposed' \subseteq 1..MaxEdits
         /\ exposed \subseteq exposed'
         /\ written' \in Seq(SUBSET {"worker", "rollback", "user"})
         /\ Len(written') = Len(written) /\ DOMAIN written' = DOMAIN written
         /\ disturbed' \in BOOLEAN
         /\ disturbed => disturbed'
         /\ touched' \subseteq Files /\ touched \subseteq touched'
         /\ who # "worker" /\ content # tree[f] => f \in touched' /\ disturbed'
<1>1. /\ tree' \in [Files -> Contents]
      /\ tree'[f] = content
      /\ \A g \in Files \ {f} : tree'[g] = tree[g]
  BY DEF Write, WorkspaceTypeOK
<1>2. /\ lost' \subseteq 1..MaxEdits
      /\ exposed \subseteq exposed'
  BY WorkspaceAssumption DEF Write, WorkspaceTypeOK
<1>3. exposed' \subseteq 1..MaxEdits
  <2> SUFFICES ASSUME NEW n \in 1..(edits + 1), content = UserContent(n)
               PROVE  n \in 1..MaxEdits
    BY DEF Write, WorkspaceTypeOK, UserContent
  <2> QED
    BY ContentFacts, WorkspaceAssumption DEF WorkspaceTypeOK
<1>4. /\ written' \in Seq(SUBSET {"worker", "rollback", "user"})
      /\ Len(written') = Len(written) /\ DOMAIN written' = DOMAIN written
  <2>1. DOMAIN written = 1..Len(written) /\ Len(written) \in Nat
    BY DEF WorkspaceTypeOK
  <2>2. /\ written' \in [1..Len(written) -> SUBSET {"worker", "rollback", "user"}]
    BY <2>1 DEF Write, WorkspaceTypeOK
  <2> QED
    BY <2>1, <2>2
<1>5. /\ disturbed' \in BOOLEAN
      /\ disturbed => disturbed'
      /\ touched' \subseteq Files /\ touched \subseteq touched'
      /\ who # "worker" /\ content # tree[f] => f \in touched' /\ disturbed'
  BY DEF Write, WorkspaceTypeOK
<1> QED
  BY <1>1, <1>2, <1>3, <1>4, <1>5

(* What the two commands write. *)
LEMMA WrittenContents ==
  ASSUME WInv
  PROVE  /\ worker.file \in Files /\ output[worker.file].result \in Contents
         /\ rollback.file \in Files
         /\ rollback.at # "none" => Restorable[rollback.file].restore_content \in Contents
         /\ rollback.at # "none" => rollback.checkpoint \in DOMAIN written
<1>1. DOMAIN checkpoints = DOMAIN written
  BY DEF WInv, WorkspaceTypeOK
<1>2. \A c \in DOMAIN checkpoints :
        checkpoints[c] \in [Files -> [restore_content : Contents,
                                     current_content_hash : Contents]]
  BY DEF WInv, WorkspaceTypeOK
<1> QED
  BY <1>1, <1>2 DEF WInv, EditsInv, WorkspaceTypeOK, RollbackHasCheckpoint, Restorable

(* Every step keeps the types. *)
LEMMA PreservesWorkspaceTypeOK ==
  ASSUME WInv, WorkspaceNext
  PROVE  WorkspaceTypeOK'
<1> DEFINE Rollbacks == [at : {"none", "check", "restore", "blocked"},
                         file : Files, checkpoint : Nat]
<1>0. /\ WorkspaceTypeOK
      /\ NoPass \in Passes /\ NoRollback \in Rollbacks
  BY FileNumbers DEF WInv, NoPass, NoRollback, Passes
<1>1. CASE receiveOutput
  <2>1. worker' \in Passes
    BY <1>1, FileNumbers DEF receiveOutput, NoPass, Passes
  <2>2. output' \in [Files -> [change : {"full_file", "diff", "listed", "none"},
                              guarded : BOOLEAN, base : Contents, result : Contents]]
    <3>1. CASE output' \in Outputs
      <4>1. PICK c \in [Files -> Changes] :
              output' = [f \in Files |->
                [change |-> c[f].method, guarded |-> c[f].guarded,
                 base |-> IF c[f].guarded THEN tree[f] ELSE Absent,
                 result |-> IF c[f].delete THEN Absent ELSE Content("paw", slice)]]
        BY <3>1 DEF Outputs
      <4>2. \A f \in Files : c[f] \in Change
        BY WorkspaceAssumption
      <4>3. \A f \in Files : tree[f] \in Contents
        BY <1>0 DEF WorkspaceTypeOK
      <4>4. Absent \in Contents /\ Content("paw", slice) \in Contents
        BY <1>0, ContentFacts DEF WorkspaceTypeOK
      <4> QED
        BY <4>1, <4>2, <4>3, <4>4 DEF Change
    <3> QED
      BY <1>0, <1>1, <3>1 DEF receiveOutput, WorkspaceTypeOK
  <2> QED
    BY <1>0, <1>1, <2>1, <2>2 DEF receiveOutput, WorkspaceTypeOK, Passes
<1>2. CASE checkChangedFile
  <2>1. worker' \in Passes
    <3>1. /\ worker \in Passes
          /\ [worker EXCEPT !.at = "write"] \in Passes
          /\ [worker EXCEPT !.issues = TRUE] \in Passes
      BY <1>0 DEF WorkspaceTypeOK, Passes
    <3> QED
      BY <1>2, <3>1, NextFileFacts DEF checkChangedFile
  <2> QED
    BY <1>0, <1>2, <2>1 DEF checkChangedFile, WorkspaceTypeOK, Passes
<1>3. CASE writeChangedFile
  <2>1. worker' \in Passes
    BY <1>0, <1>3, NextFileFacts DEF writeChangedFile, WorkspaceTypeOK, Passes
  <2> QED
    BY <1>0, <1>3, <2>1, WriteFacts, WrittenContents
       DEF writeChangedFile, WorkspaceTypeOK, Passes
<1>4. CASE appendPawSliceJournalEntry
  <2>1. worker' \in Passes
    BY <1>0, <1>4, FileNumbers DEF appendPawSliceJournalEntry, WorkspaceTypeOK, Passes
  <2> QED
    BY <1>0, <1>4, <2>1 DEF appendPawSliceJournalEntry, treeVars, WorkspaceTypeOK, Passes
<1>5. CASE completePawWorkerPass
  BY <1>0, <1>5 DEF completePawWorkerPass, treeVars, WorkspaceTypeOK, Passes
<1>6. CASE preparePawSliceCheckpoint
  <2>1. createPawRestorableFileSnapshots
          \in [Files -> [restore_content : Contents, current_content_hash : Contents]]
    BY <1>0 DEF createPawRestorableFileSnapshots, WorkspaceTypeOK
  <2>2. /\ checkpoints' \in Seq([Files -> [restore_content : Contents,
                                           current_content_hash : Contents]])
        /\ Len(checkpoints') = Len(checkpoints) + 1
    BY <1>0, <1>6, <2>1, AppendProperties DEF preparePawSliceCheckpoint, WorkspaceTypeOK
  <2>3. /\ written' \in Seq(SUBSET {"worker", "rollback", "user"})
        /\ Len(written') = Len(written) + 1
    BY <1>0, <1>6, AppendProperties DEF preparePawSliceCheckpoint, WorkspaceTypeOK
  <2> QED
    BY <1>0, <1>6, <2>2, <2>3 DEF preparePawSliceCheckpoint, WorkspaceTypeOK
<1>7. CASE createPawRollbackCommandResult
  <2>1. DOMAIN checkpoints \subseteq Nat
    BY <1>0 DEF WorkspaceTypeOK
  <2>2. rollback' \in Rollbacks
    BY <1>7, <2>1, FileNumbers DEF createPawRollbackCommandResult
  <2> QED
    BY <1>0, <1>7, <2>2 DEF createPawRollbackCommandResult, treeVars, WorkspaceTypeOK
<1>8. CASE findUnsafeRestoreReason
  <2>1. /\ [rollback EXCEPT !.at = "blocked"] \in Rollbacks
        /\ [rollback EXCEPT !.at = "restore", !.file = 1] \in Rollbacks
    BY <1>0, FileNumbers DEF WorkspaceTypeOK
  <2>2. rollback' \in Rollbacks
    BY <1>0, <1>8, <2>1, NextRestoreFacts DEF findUnsafeRestoreReason
  <2> QED
    BY <1>0, <1>8, <2>2 DEF findUnsafeRestoreReason, treeVars, WorkspaceTypeOK
<1>9. CASE restorePawOwnedFiles
  <2>1. rollback' \in Rollbacks
    BY <1>0, <1>9, NextRestoreFacts DEF restorePawOwnedFiles
  <2> QED
    BY <1>0, <1>9, <2>1, WriteFacts, WrittenContents
       DEF restorePawOwnedFiles, WorkspaceTypeOK
<1>10. CASE beginSlice
  BY <1>0, <1>10 DEF beginSlice, treeVars, WorkspaceTypeOK
<1>11. CASE nextSlice
  <2>1. output' \in [Files -> [change : {"full_file", "diff", "listed", "none"},
                              guarded : BOOLEAN, base : Contents, result : Contents]]
    BY <1>11, ContentFacts DEF nextSlice, NoOutput
  <2>2. slice' \in 1..MaxSlices
    BY <1>0, <1>11, WorkspaceAssumption DEF nextSlice, WorkspaceTypeOK
  <2> QED
    BY <1>0, <1>11, <2>1, <2>2 DEF nextSlice, WorkspaceTypeOK
<1>12. CASE userEdits
  <2>1. /\ edits + 1 \in 1..MaxEdits
        /\ UserContent(edits + 1) \in Contents
    BY <1>0, <1>12, ContentFacts, WorkspaceAssumption DEF userEdits, WorkspaceTypeOK
  <2> QED
    BY <1>0, <1>12, <2>1, WriteFacts, WorkspaceAssumption
       DEF userEdits, WorkspaceTypeOK, UserContent
<1>13. CASE workerDies
  <2>1. CASE UNCHANGED treeVars
    BY <1>0, <1>13, <2>1 DEF workerDies, treeVars, WorkspaceTypeOK, Passes
  <2>2. CASE Write("worker", worker.file, Torn, Given(output[worker.file]))
    BY <1>0, <1>13, <2>2, WriteFacts, WrittenContents, ContentFacts
       DEF workerDies, WorkspaceTypeOK, Passes
  <2> QED
    BY <1>13, <2>1, <2>2 DEF workerDies
<1>14. CASE rollbackDies
  BY <1>0, <1>14 DEF rollbackDies, treeVars, WorkspaceTypeOK
<1> QED
  BY <1>1, <1>2, <1>3, <1>4, <1>5, <1>6, <1>7, <1>8, <1>9, <1>10, <1>11, <1>12, <1>13,
     <1>14 DEF WorkspaceNext

-----------------------------------------------------------------------------
(* A step leaves the tree and the edits alone, or it is a write: of the worker,
   which may be cut short, of the rollback or of the user. *)
Quiet == UNCHANGED <<tree, lost, exposed, edits>>

WorkerWrites ==
  /\ worker.at = "write" /\ worker'.at # "write"
  /\ \E content \in {output[worker.file].result, Torn} :
       Write("worker", worker.file, content, Given(output[worker.file]))
  /\ UNCHANGED <<edits, rollback, output, checkpoints, stage, slice, journal>>

LEMMA QuietOrWrite ==
  ASSUME WInv, WorkspaceNext
  PROVE  Quiet \/ WorkerWrites \/ restorePawOwnedFiles \/ userEdits
<1>1. CASE writeChangedFile
  <2>1. NextFile(worker).at \in {"check", "journal", "none"}
    <3>1. worker \in Passes
      BY DEF WInv, WorkspaceTypeOK, Passes
    <3> QED
      BY <3>1, NextFileFacts
  <2> QED
    BY <1>1, <2>1 DEF writeChangedFile, WorkerWrites
<1>2. CASE workerDies
  BY <1>2 DEF workerDies, WorkerWrites, NoPass, Quiet, treeVars
<1> QED
  BY <1>1, <1>2
     DEF WorkspaceNext, Quiet, treeVars, receiveOutput, checkChangedFile,
       appendPawSliceJournalEntry, completePawWorkerPass, preparePawSliceCheckpoint,
       createPawRollbackCommandResult, findUnsafeRestoreReason, beginSlice, nextSlice,
       rollbackDies

(* A checkpoint is appended or nothing happens to the checkpoints. *)
LEMMA CheckpointsGrow ==
  ASSUME WInv, WorkspaceNext
  PROVE  /\ DOMAIN checkpoints \subseteq DOMAIN checkpoints'
         /\ \A c \in DOMAIN checkpoints : checkpoints'[c] = checkpoints[c]
         /\ \/ UNCHANGED checkpoints
            \/ /\ preparePawSliceCheckpoint
               /\ DOMAIN checkpoints' = DOMAIN checkpoints \cup {Len(checkpoints) + 1}
               /\ Len(checkpoints) + 1 \notin DOMAIN checkpoints
               /\ checkpoints'[Len(checkpoints) + 1] = createPawRestorableFileSnapshots
<1>1. CASE preparePawSliceCheckpoint
  <2> DEFINE S == [Files -> [restore_content : Contents, current_content_hash : Contents]]
  <2>1. checkpoints \in Seq(S) /\ createPawRestorableFileSnapshots \in S
    BY DEF WInv, WorkspaceTypeOK, createPawRestorableFileSnapshots
  <2> HIDE DEF S
  <2>2. checkpoints' = Append(checkpoints, createPawRestorableFileSnapshots)
    BY <1>1 DEF preparePawSliceCheckpoint
  <2>3. /\ DOMAIN checkpoints = 1..Len(checkpoints) /\ Len(checkpoints) \in Nat
        /\ DOMAIN checkpoints' = 1..(Len(checkpoints) + 1)
        /\ \A c \in 1..Len(checkpoints) : checkpoints'[c] = checkpoints[c]
        /\ checkpoints'[Len(checkpoints) + 1] = createPawRestorableFileSnapshots
    BY <2>1, <2>2, AppendProperties
  <2> QED
    BY <1>1, <2>3
<1>2. CASE ~preparePawSliceCheckpoint
  BY <1>2 DEF WorkspaceNext, receiveOutput, checkChangedFile, writeChangedFile,
     appendPawSliceJournalEntry, completePawWorkerPass, createPawRollbackCommandResult,
     findUnsafeRestoreReason, restorePawOwnedFiles, beginSlice, nextSlice, userEdits,
     workerDies, rollbackDies
<1> QED
  BY <1>1, <1>2

(* Snapshots are taken from the tree, with its own hash. *)
LEMMA PreservesSnapshotsAgree ==
  ASSUME WInv, WorkspaceNext
  PROVE  SnapshotsAgree'
BY CheckpointsGrow DEF WInv, EditsInv, SnapshotsAgree, createPawRestorableFileSnapshots

(* The worker's results are deletions or contents of its own. *)
LEMMA PreservesResultsAreWorkers ==
  ASSUME WInv, WorkspaceNext
  PROVE  ResultsAreWorkers'
<1> USE DEF ResultsAreWorkers
<1>1. CASE UNCHANGED output
  BY <1>1 DEF WInv, EditsInv
<1>2. ASSUME output' \in Outputs PROVE ResultsAreWorkers'
  <2>1. \A f \in Files : output'[f].result \in {Absent, Content("paw", slice)}
    BY <1>2 DEF Outputs
  <2> QED
    BY <2>1, ContentFacts DEF WInv, WorkspaceTypeOK
<1>3. ASSUME output' = NoOutput PROVE ResultsAreWorkers'
  BY <1>3, ContentFacts DEF NoOutput
<1> QED
  BY <1>1, <1>2, <1>3
     DEF WorkspaceNext, receiveOutput, checkChangedFile, writeChangedFile,
       appendPawSliceJournalEntry, completePawWorkerPass, preparePawSliceCheckpoint,
       createPawRollbackCommandResult, findUnsafeRestoreReason, restorePawOwnedFiles,
       beginSlice, nextSlice, userEdits, workerDies, rollbackDies

(* How the rollback moves: it starts on a checkpoint there is, goes on with it,
   or ends. *)
LEMMA RollbackMoves ==
  ASSUME WInv, WorkspaceNext
  PROVE  \/ UNCHANGED rollback
         \/ createPawRollbackCommandResult
         \/ findUnsafeRestoreReason
         \/ restorePawOwnedFiles
         \/ rollback' = NoRollback /\ Quiet
BY DEF WorkspaceNext, receiveOutput, checkChangedFile, writeChangedFile,
     appendPawSliceJournalEntry, completePawWorkerPass, preparePawSliceCheckpoint,
     beginSlice, nextSlice, userEdits, workerDies, rollbackDies, Quiet, treeVars

LEMMA PreservesRollbackHasCheckpoint ==
  ASSUME WInv, WorkspaceNext
  PROVE  RollbackHasCheckpoint'
<1> USE DEF RollbackHasCheckpoint
<1>1. rollback.at # "none" => rollback.checkpoint \in DOMAIN checkpoints'
  BY CheckpointsGrow DEF WInv, EditsInv
<1>2. CASE UNCHANGED rollback
  BY <1>1, <1>2
<1>3. CASE createPawRollbackCommandResult
  BY <1>3, CheckpointsGrow DEF createPawRollbackCommandResult
<1>4. CASE findUnsafeRestoreReason
  <2>1. rollback'.checkpoint = rollback.checkpoint
    BY <1>4 DEF findUnsafeRestoreReason, NextRestore, WInv, WorkspaceTypeOK
  <2> QED
    BY <1>1, <1>4, <2>1 DEF findUnsafeRestoreReason
<1>5. CASE restorePawOwnedFiles
  <2>1. rollback'.checkpoint = rollback.checkpoint \/ rollback' = NoRollback
    BY <1>5 DEF restorePawOwnedFiles, NextRestore, WInv, WorkspaceTypeOK
  <2> QED
    BY <1>1, <1>5, <2>1 DEF restorePawOwnedFiles, NoRollback
<1>6. CASE rollback' = NoRollback
  BY <1>6 DEF NoRollback
<1> QED
  BY <1>2, <1>3, <1>4, <1>5, <1>6, RollbackMoves

(* Only the user writes what the user will write. *)
LEMMA PreservesNoFutureEdit ==
  ASSUME WInv, WorkspaceNext
  PROVE  NoFutureEdit'
<1> SUFFICES ASSUME NEW n \in 1..MaxEdits, n > edits'
             PROVE  /\ \A f \in Files : tree'[f] # UserContent(n)
                    /\ \A c \in DOMAIN checkpoints', f \in Files :
                         checkpoints'[c][f].restore_content # UserContent(n)
  BY DEF NoFutureEdit
<1>0. edits' \in {edits, edits + 1} /\ edits \in Nat /\ n \in Nat
  BY QuietOrWrite, WorkspaceAssumption
     DEF Quiet, WorkerWrites, restorePawOwnedFiles, userEdits, WInv, WorkspaceTypeOK
<1>1. n > edits
  BY <1>0
<1>2. /\ \A f \in Files : tree[f] # UserContent(n)
      /\ \A c \in DOMAIN checkpoints, f \in Files :
           checkpoints[c][f].restore_content # UserContent(n)
  BY <1>1 DEF WInv, EditsInv, NoFutureEdit
<1>3. \A c \in DOMAIN checkpoints', f \in Files :
        checkpoints'[c][f].restore_content # UserContent(n)
  BY <1>2, CheckpointsGrow DEF createPawRestorableFileSnapshots
<1>4. \A f \in Files : tree'[f] # UserContent(n)
  <2>0. WorkspaceTypeOK
    BY DEF WInv
  <2>1. CASE Quiet
    BY <1>2, <2>1 DEF Quiet
  <2>2. CASE WorkerWrites
    <3>1. PICK content \in {output[worker.file].result, Torn} :
            Write("worker", worker.file, content, Given(output[worker.file]))
      BY <2>2 DEF WorkerWrites
    <3>2. content # UserContent(n)
      BY WrittenContents, ContentFacts DEF WInv, EditsInv, ResultsAreWorkers
    <3> QED
      BY <1>2, <2>0, <3>1, <3>2, WrittenContents DEF Write, WorkspaceTypeOK
  <2>3. CASE restorePawOwnedFiles
    <3>1. Restorable[rollback.file].restore_content # UserContent(n)
      BY <1>2, <2>3, WrittenContents
         DEF restorePawOwnedFiles, Restorable, WInv, EditsInv, RollbackHasCheckpoint
    <3> QED
      BY <1>2, <2>0, <2>3, <3>1, WrittenContents
         DEF restorePawOwnedFiles, Write, WorkspaceTypeOK
  <2>4. CASE userEdits
    <3>1. edits' = edits + 1
      BY <2>4 DEF userEdits
    <3>2. UserContent(edits + 1) # UserContent(n)
      BY <1>0, <3>1, ContentFacts
    <3> QED
      BY <1>2, <2>0, <2>4, <3>2 DEF userEdits, Write, WorkspaceTypeOK, UserContent
  <2> QED
    BY <2>1, <2>2, <2>3, <2>4, QuietOrWrite
<1> QED
  BY <1>3, <1>4

(* A write exposes an edit that it puts into another command's window. *)
LEMMA WriteExposes ==
  ASSUME WInv, NEW who, NEW f \in Files, NEW content, NEW known,
         Write(who, f, content, known), NEW n \in 1..MaxEdits,
         content = UserContent(n), n <= edits + 1, InWindow(who, f)
  PROVE  n \in exposed'
BY DEF Write, UserContent

(* What the rollback restores from the user was written by then. *)
LEMMA RestoresPastEdits ==
  ASSUME WInv, rollback.at # "none", NEW n \in 1..MaxEdits,
         Restorable[rollback.file].restore_content = UserContent(n)
  PROVE  n <= edits
<1>1. rollback.checkpoint \in DOMAIN checkpoints /\ rollback.file \in Files
  BY WrittenContents DEF WInv, EditsInv, RollbackHasCheckpoint
<1> QED
  BY <1>1, WorkspaceAssumption DEF WInv, EditsInv, NoFutureEdit, Restorable, WorkspaceTypeOK

LEMMA PreservesPassHasChecked ==
  ASSUME WInv, WorkspaceNext
  PROVE  PassHasChecked'
<1> SUFFICES ASSUME worker'.at = "write", output'[worker'.file].guarded,
                    NEW n \in 1..MaxEdits, tree'[worker'.file] = UserContent(n)
             PROVE  n \in exposed' \/ tree'[worker'.file] = output'[worker'.file].base
  BY DEF PassHasChecked
<1>0. WorkspaceTypeOK /\ worker \in Passes
  BY DEF WInv, WorkspaceTypeOK, Passes
<1>1. CASE checkChangedFile
  <2> DEFINE o == output[worker.file]
  <2>1. /\ NextFile(worker).at # "write"
        /\ NextFile([worker EXCEPT !.issues = TRUE]).at # "write"
    <3>1. [worker EXCEPT !.issues = TRUE] \in Passes
      BY <1>0 DEF Passes
    <3> QED
      BY <1>0, <3>1, NextFileFacts
  <2>2. /\ applyOneWorkerChangedFile(tree[worker.file], o) = "apply"
        /\ worker' = [worker EXCEPT !.at = "write"]
    BY <1>1, <2>1 DEF checkChangedFile
  <2>3. worker'.file = worker.file /\ output' = output /\ tree' = tree
    BY <1>0, <1>1, <2>2 DEF checkChangedFile, Passes
  <2>4. tree[worker.file] = o.base
    BY <2>2, <2>3 DEF applyOneWorkerChangedFile, evaluatePawEditIdempotency
  <2> QED
    BY <2>3, <2>4
<1>2. CASE worker' = worker /\ output' = output /\ Quiet
  BY <1>2 DEF WInv, EditsInv, PassHasChecked, Quiet
<1>3. CASE restorePawOwnedFiles
  <2> DEFINE f == rollback.file
             content == Restorable[f].restore_content
  <2>1. /\ Write("rollback", f, content, {}) /\ rollback.at = "restore"
        /\ worker' = worker /\ output' = output
    BY <1>3 DEF restorePawOwnedFiles
  <2>2. f \in Files /\ content \in Contents /\ worker.file \in Files
    BY <2>1, WrittenContents
  <2> HIDE DEF content, f
  <2>3. CASE worker.file = f
    <3>1. content = UserContent(n) /\ InWindow("rollback", f)
      BY <1>0, <2>1, <2>2, <2>3, WriteFacts DEF InWindow
    <3>2. n <= edits /\ edits \in Nat /\ n \in Nat
      BY <1>0, <2>1, <3>1, RestoresPastEdits, WorkspaceAssumption
         DEF content, f, WorkspaceTypeOK
    <3> QED
      BY <2>1, <2>2, <3>1, <3>2, WriteExposes
  <2>4. CASE worker.file # f
    BY <1>0, <2>1, <2>2, <2>4, WriteFacts DEF WInv, EditsInv, PassHasChecked
  <2> QED
    BY <2>3, <2>4
<1>4. CASE userEdits
  <2>1. PICK f \in Files : Write("user", f, UserContent(edits + 1), {tree[f]})
    BY <1>4 DEF userEdits, UserContent
  <2>2. /\ worker' = worker /\ output' = output /\ edits < MaxEdits
        /\ UserContent(edits + 1) \in Contents /\ worker.file \in Files
        /\ edits + 1 \in Nat /\ n \in Nat
    BY <1>0, <1>4, ContentFacts, WorkspaceAssumption
       DEF userEdits, WorkspaceTypeOK, Passes
  <2>3. CASE worker.file = f
    <3>1. /\ UserContent(edits + 1) = UserContent(n)
          /\ InWindow("user", f)
      BY <1>0, <2>1, <2>2, <2>3, WriteFacts DEF InWindow
    <3>2. n = edits + 1
      BY <2>2, <3>1, ContentFacts
    <3> QED
      BY <2>1, <2>2, <3>1, <3>2, WriteExposes
  <2>4. CASE worker.file # f
    BY <1>0, <2>1, <2>2, <2>4, WriteFacts DEF WInv, EditsInv, PassHasChecked
  <2> QED
    BY <2>3, <2>4
<1>5. worker'.at = "write" => checkChangedFile \/ (worker' = worker /\ output' = output)
  <2>1. NextFile(worker).at # "write"
    BY <1>0, NextFileFacts
  <2> QED
    BY <1>0, <2>1 DEF WorkspaceNext, NoPass, Passes, receiveOutput, writeChangedFile,
       appendPawSliceJournalEntry, completePawWorkerPass, preparePawSliceCheckpoint,
       createPawRollbackCommandResult, findUnsafeRestoreReason, restorePawOwnedFiles,
       beginSlice, nextSlice, userEdits, workerDies, rollbackDies, WInv, PassInv,
       PassInSlice
<1> QED
  BY <1>1, <1>2, <1>3, <1>4, <1>5, QuietOrWrite DEF WorkerWrites

LEMMA PreservesRollbackHasChecked ==
  ASSUME WInv, WorkspaceNext
  PROVE  RollbackHasChecked'
<1> SUFFICES ASSUME NEW f \in Files, NEW n \in 1..MaxEdits,
                    CheckedByRollback(f)', tree'[f] = UserContent(n)
             PROVE  n \in exposed' \/ tree'[f] = Restorable'[f].restore_content
  BY DEF RollbackHasChecked
<1>0. WorkspaceTypeOK
  BY DEF WInv
<1>1. /\ f \in Nat /\ n \in Nat /\ edits \in Nat
      /\ rollback.file \in Nat /\ rollback.file \in Files /\ NumFiles \in Nat
  BY <1>0, FileNumbers, WorkspaceAssumption DEF WorkspaceTypeOK
<1>2. rollback.at # "none" => rollback.checkpoint \in DOMAIN checkpoints
  BY DEF WInv, EditsInv, RollbackHasCheckpoint
<1>3. rollback'.checkpoint = rollback.checkpoint /\ rollback.at # "none"
        => Restorable' = Restorable
  BY <1>2, CheckpointsGrow DEF Restorable
<1>4. ASSUME CheckedByRollback(f), tree[f] = UserContent(n)
      PROVE  n \in exposed \/ tree[f] = Restorable[f].restore_content
  BY <1>4 DEF WInv, EditsInv, RollbackHasChecked
<1>5. CASE restorePawOwnedFiles
  <2>1. /\ rollback.at = "restore"
        /\ Write("rollback", rollback.file, Restorable[rollback.file].restore_content, {})
        /\ rollback' = NextRestore(NoRollback)
    BY <1>5 DEF restorePawOwnedFiles
  <2>2. rollback' = [rollback EXCEPT !.file = rollback.file + 1]
    BY <2>1 DEF NextRestore, NoRollback, CheckedByRollback
  <2>3. /\ rollback'.at = "restore" /\ rollback'.checkpoint = rollback.checkpoint
        /\ rollback.file + 1 <= f
    BY <1>0, <2>1, <2>2 DEF CheckedByRollback, WorkspaceTypeOK
  <2>4. rollback.file # f /\ rollback.file <= f
    BY <1>1, <2>3
  <2>5. tree'[f] = tree[f] /\ exposed \subseteq exposed'
    BY <1>0, <1>1, <2>1, <2>4, WriteFacts, WrittenContents
  <2> QED
    BY <1>3, <1>4, <2>1, <2>3, <2>4, <2>5 DEF CheckedByRollback
<1>6. CASE findUnsafeRestoreReason
  <2>1. /\ rollback.at = "check" /\ tree' = tree /\ exposed' = exposed
        /\ \/ rollback' = [rollback EXCEPT !.at = "blocked"]
           \/ /\ tree[rollback.file] = Restorable[rollback.file].current_content_hash
              /\ rollback' = NextRestore([rollback EXCEPT !.at = "restore", !.file = 1])
    BY <1>6 DEF findUnsafeRestoreReason, treeVars
  <2>2. ~(rollback' = [rollback EXCEPT !.at = "blocked"])
    BY <1>0 DEF CheckedByRollback, WorkspaceTypeOK
  <2>3. /\ rollback'.checkpoint = rollback.checkpoint
        /\ \/ rollback'.at = "check" /\ rollback'.file = rollback.file + 1
           \/ rollback'.at = "restore" /\ rollback.file = NumFiles
    <3> DEFINE after == [rollback EXCEPT !.at = "restore", !.file = 1]
    <3>1. /\ after.at = "restore" /\ after.checkpoint = rollback.checkpoint
          /\ after \in [at : {"none", "check", "restore", "blocked"},
                        file : Files, checkpoint : Nat]
      BY <1>0, FileNumbers DEF WorkspaceTypeOK
    <3>2. rollback' = NextRestore(after)
      BY <2>1, <2>2
    <3> HIDE DEF after
    <3>3. \/ rollback' = [rollback EXCEPT !.file = rollback.file + 1]
          \/ rollback.file = NumFiles /\ rollback' = after
      BY <1>0, <3>1, <3>2, NextRestoreFacts
    <3> QED
      BY <1>0, <2>1, <3>1, <3>3 DEF WorkspaceTypeOK
  <2>4. f <= rollback.file
    BY <1>1, <2>3, FileNumbers DEF CheckedByRollback
  <2>5. CASE f = rollback.file
    <3>1. Restorable[f].restore_content = Restorable[f].current_content_hash
      BY <1>2, <2>1 DEF WInv, EditsInv, SnapshotsAgree, Restorable
    <3>2. tree[f] = Restorable[f].restore_content
      BY <2>1, <2>2, <2>5, <3>1
    <3> QED
      BY <1>3, <2>1, <2>3, <3>2
  <2>6. CASE f < rollback.file
    BY <1>3, <1>4, <2>1, <2>3, <2>6 DEF CheckedByRollback
  <2> QED
    BY <1>1, <2>4, <2>5, <2>6
<1>7. CASE createPawRollbackCommandResult
  <2>1. rollback'.at = "check" /\ rollback'.file = 1
    BY <1>7 DEF createPawRollbackCommandResult
  <2> QED
    BY <1>1, <2>1 DEF CheckedByRollback, Files
<1>8. CASE rollback' = NoRollback
  BY <1>8 DEF NoRollback, CheckedByRollback
<1>9. CASE UNCHANGED rollback /\ ~restorePawOwnedFiles
  <2>1. CheckedByRollback(f) /\ Restorable' = Restorable
    BY <1>3, <1>9 DEF CheckedByRollback
  <2>2. CASE Quiet
    BY <1>4, <2>1, <2>2 DEF Quiet
  <2>3. CASE WorkerWrites
    <3>1. PICK content \in {output[worker.file].result, Torn} :
            Write("worker", worker.file, content, Given(output[worker.file]))
      BY <2>3 DEF WorkerWrites
    <3>2. /\ content # UserContent(n) /\ content \in Contents
          /\ worker.file \in Files
      BY WrittenContents, ContentFacts DEF WInv, EditsInv, ResultsAreWorkers
    <3>3. tree'[f] = tree[f] /\ exposed \subseteq exposed'
      BY <1>0, <3>1, <3>2, WriteFacts
    <3> QED
      BY <1>4, <2>1, <3>3
  <2>4. CASE userEdits
    <3>1. PICK g \in Files : Write("user", g, UserContent(edits + 1), {tree[g]})
      BY <2>4 DEF userEdits, UserContent
    <3>2. edits < MaxEdits /\ UserContent(edits + 1) \in Contents
      BY <1>1, <2>4, ContentFacts, WorkspaceAssumption DEF userEdits
    <3>3. CASE f = g
      <4>1. UserContent(edits + 1) = UserContent(n) /\ InWindow("user", g)
        BY <1>0, <2>1, <3>1, <3>2, <3>3, WriteFacts DEF InWindow, CheckedByRollback
      <4>2. n = edits + 1
        BY <1>1, <4>1, ContentFacts
      <4> QED
        BY <1>1, <3>1, <4>1, <4>2, WriteExposes
    <3>4. CASE f # g
      BY <1>0, <1>4, <2>1, <3>1, <3>2, <3>4, WriteFacts
    <3> QED
      BY <3>3, <3>4
  <2> QED
    BY <1>9, <2>2, <2>3, <2>4, QuietOrWrite
<1> QED
  BY <1>5, <1>6, <1>7, <1>8, <1>9, RollbackMoves

(* Every edit a write loses was exposed to it. *)
LEMMA PreservesLostOnlyWhenRaced ==
  ASSUME WInv, WorkspaceNext
  PROVE  LostOnlyWhenRaced'
<1> USE DEF LostOnlyWhenRaced
<1>0. WorkspaceTypeOK /\ lost \subseteq exposed
  BY DEF WInv, EditsInv
<1>1. CASE Quiet
  BY <1>0, <1>1 DEF Quiet
<1>2. ASSUME NEW who \in {"worker", "rollback", "user"}, NEW f \in Files,
             NEW content \in Contents, NEW known, Write(who, f, content, known),
             edits < MaxEdits \/ who # "user",
             \A n \in 1..MaxEdits :
               tree[f] = UserContent(n) => n \in exposed \/ tree[f] \in known \cup {content}
      PROVE  lost' \subseteq exposed'
  <2>1. exposed \subseteq exposed' /\ 1..edits \subseteq 1..MaxEdits
    BY <1>0, <1>2, WriteFacts, WorkspaceAssumption DEF WorkspaceTypeOK
  <2>2. lost' = lost \cup {n \in 1..edits : /\ tree[f] = UserContent(n)
                                           /\ tree[f] \notin known \cup {content}}
    BY <1>2 DEF Write, UserContent
  <2>3. ASSUME NEW n \in lost', n \notin lost
        PROVE  n \in exposed
    BY <1>2, <2>1, <2>2, <2>3
  <2> QED
    BY <1>0, <2>1, <2>3
<1>3. CASE WorkerWrites
  <2>1. PICK content \in {output[worker.file].result, Torn} :
          Write("worker", worker.file, content, Given(output[worker.file]))
    BY <1>3 DEF WorkerWrites
  <2>2. content \in Contents /\ worker.file \in Files
    BY WrittenContents, ContentFacts
  <2>3. \A n \in 1..MaxEdits : tree[worker.file] = UserContent(n) =>
          n \in exposed \/ tree[worker.file] \in Given(output[worker.file]) \cup {content}
    BY <1>0, <1>3, <2>2
       DEF WorkerWrites, WInv, EditsInv, PassHasChecked, Given, WorkspaceTypeOK
  <2> QED
    BY <1>2, <2>1, <2>2, <2>3
<1>4. CASE restorePawOwnedFiles
  <2> DEFINE f == rollback.file
             content == Restorable[f].restore_content
  <2>1. /\ Write("rollback", f, content, {}) /\ rollback.at = "restore"
        /\ f \in Files /\ content \in Contents
    BY <1>4, WrittenContents DEF restorePawOwnedFiles
  <2>2. CheckedByRollback(f)
    <3>1. f \in Nat
      BY <2>1, FileNumbers
    <3> QED
      BY <2>1, <3>1 DEF CheckedByRollback
  <2>3. \A n \in 1..MaxEdits : tree[f] = UserContent(n) =>
          n \in exposed \/ tree[f] \in {} \cup {content}
    BY <2>1, <2>2 DEF WInv, EditsInv, RollbackHasChecked
  <2> HIDE DEF f, content
  <2> QED
    BY <1>2, <2>1, <2>3
<1>5. CASE userEdits
  <2>1. PICK f \in Files : Write("user", f, UserContent(edits + 1), {tree[f]})
    BY <1>5 DEF userEdits, UserContent
  <2>2. edits < MaxEdits /\ UserContent(edits + 1) \in Contents
    BY <1>0, <1>5, ContentFacts, WorkspaceAssumption DEF userEdits, WorkspaceTypeOK
  <2> QED
    BY <1>2, <2>1, <2>2
<1> QED
  BY <1>1, <1>3, <1>4, <1>5, QuietOrWrite

-----------------------------------------------------------------------------
(* Steps that leave the pass and the tree alone keep PassInv. *)
LEMMA PassUntouched ==
  ASSUME WInv,
         UNCHANGED <<tree, stage, slice, output, worker, journal, disturbed, touched>>
  PROVE  PassInv'
BY DEF WInv, PassInv, PassInSlice, FilesAsGiven, PassedAreApplied, Passed, Applied,
     PassedAreJournalled, Entry, RetryAccepted, JournalMatchesTree

(* So do the writes of others: a file they change is touched from then on. *)
LEMMA OthersWrite ==
  ASSUME WInv, NEW who \in {"rollback", "user"}, NEW f \in Files,
         NEW content \in Contents, NEW known, Write(who, f, content, known),
         edits < MaxEdits \/ who # "user",
         UNCHANGED <<stage, slice, output, worker, journal>>
  PROVE  PassInv'
<1>0. WorkspaceTypeOK /\ PassInv
  BY DEF WInv
<1>1. /\ tree'[f] = content
      /\ \A g \in Files \ {f} : tree'[g] = tree[g]
      /\ disturbed => disturbed'
      /\ touched \subseteq touched'
      /\ content # tree[f] => f \in touched' /\ disturbed'
  BY <1>0, WriteFacts
<1>2. PassInSlice' /\ RetryAccepted' /\ PassedAreJournalled'
  BY <1>0, <1>1 DEF PassInv, PassInSlice, RetryAccepted, PassedAreJournalled, Entry
<1>3. FilesAsGiven'
  BY <1>0, <1>1 DEF PassInv, FilesAsGiven
<1>4. \A g \in Files : Applied(g) => Applied(g)'
  BY <1>1 DEF Applied
<1>5. PassedAreApplied'
  BY <1>0, <1>4 DEF PassInv, PassedAreApplied, Passed
<1>6. JournalMatchesTree'
  BY <1>0, <1>1 DEF PassInv, JournalMatchesTree, Entry
<1> QED
  BY <1>2, <1>3, <1>5, <1>6 DEF PassInv

(* A new pass has been through no file; the files are as its output found them. *)
LEMMA ReceiveKeepsPassInv ==
  ASSUME WInv, receiveOutput
  PROVE  PassInv'
<1>0. WorkspaceTypeOK /\ PassInv
  BY DEF WInv
<1>1. /\ stage = "implementing" /\ stage' = stage /\ tree' = tree
      /\ worker'.at = "check" /\ worker'.file = 1 /\ worker'.issues = FALSE
  BY DEF receiveOutput, NoPass
<1>2. FilesAsGiven'
  <2>1. ASSUME output' \in Outputs
        PROVE  \A f \in Files : output'[f].guarded => tree[f] = output'[f].base
    BY <2>1 DEF Outputs
  <2> QED
    BY <1>0, <1>1, <2>1 DEF receiveOutput, PassInv, FilesAsGiven
<1>3. PassInSlice' /\ RetryAccepted' /\ PassedAreJournalled' /\ JournalMatchesTree'
  BY <1>1 DEF PassInSlice, RetryAccepted, PassedAreJournalled, JournalMatchesTree
<1>4. PassedAreApplied'
  BY <1>1, FileNumbers DEF PassedAreApplied, Passed, Files
<1> QED
  BY <1>2, <1>3, <1>4 DEF PassInv

(* The pass goes on from a file that is applied, or has issues from then on. *)
LEMMA NextFileKeepsPassInv ==
  ASSUME WInv, worker.at \in {"check", "write"}, NEW w \in Passes,
         NEW k, k = worker.file, w.file = k, worker.issues => w.issues,
         worker' = NextFile(w),
         UNCHANGED <<stage, slice, output, journal>>,
         FilesAsGiven',
         \A f \in Files \ {k} : Applied(f) => Applied(f)',
         ~w.issues => Applied(k)',
         w.issues => disturbed' \/ \E f \in Files : output[f].change = "diff"
  PROVE  PassInv'
<1>0. WorkspaceTypeOK /\ PassInv /\ stage = "implementing"
  BY DEF WInv, PassInv, PassInSlice
<1>1. /\ w.file \in Files /\ w.file \in Nat /\ NumFiles \in Nat
  BY FileNumbers, WorkspaceAssumption DEF Passes
<1>2. \/ /\ w.file < NumFiles
         /\ worker'.at = "check" /\ worker'.file = w.file + 1 /\ worker'.issues = w.issues
      \/ /\ w.file = NumFiles /\ ~w.issues
         /\ worker'.at = "journal" /\ worker'.file = 1 /\ worker'.issues = w.issues
      \/ worker'.at = "none" /\ worker'.issues = FALSE
  BY NextFileFacts DEF NoPass
<1>3. PassInSlice' /\ RetryAccepted' /\ JournalMatchesTree'
  BY <1>0, <1>2 DEF PassInSlice, RetryAccepted, JournalMatchesTree
<1>4. PassedAreJournalled'
  BY <1>2 DEF PassedAreJournalled, Files
<1>5. PassedAreApplied'
  <2> SUFFICES ASSUME ~worker'.issues, NEW f \in Files, Passed(f)'
               PROVE  Applied(f)'
    BY DEF PassedAreApplied
  <2>1. f \in Nat /\ f <= NumFiles
    BY FileNumbers
  <2>2. ~w.issues /\ f <= k
    <3>1. worker'.at # "none"
      BY DEF Passed
    <3>2. ~w.issues
      BY <1>2, <3>1
    <3>3. w.file = NumFiles \/ f < w.file + 1
      BY <1>2, <3>1 DEF Passed
    <3> QED
      BY <1>1, <2>1, <3>2, <3>3
  <2>3. CASE f = k
    BY <2>2, <2>3
  <2>4. CASE f < k
    <3>1. Applied(f)
      BY <1>0, <2>2, <2>4 DEF PassInv, PassedAreApplied, Passed
    <3> QED
      BY <2>4, <3>1, <1>1, <2>1
  <2> QED
    BY <1>1, <2>1, <2>2, <2>3, <2>4
<1> QED
  BY <1>3, <1>4, <1>5 DEF PassInv

(* A file that is checked is applied already, or it has issues, unless the pass
   writes it next.  Issues come only with a diff or a disturbed file. *)
LEMMA CheckKeepsPassInv ==
  ASSUME WInv, checkChangedFile
  PROVE  PassInv'
<1> DEFINE o == output[worker.file]
           verdict == applyOneWorkerChangedFile(tree[worker.file], o)
<1>0. /\ WorkspaceTypeOK /\ PassInv /\ worker \in Passes
      /\ worker.file \in Files /\ worker.at = "check"
  BY DEF WInv, WorkspaceTypeOK, Passes, checkChangedFile
<1>1. UNCHANGED <<tree, stage, slice, output, journal, disturbed>>
  BY DEF checkChangedFile
<1>2. /\ FilesAsGiven'
      /\ touched' = touched \ {worker.file}
  BY <1>0, <1>1 DEF PassInv, FilesAsGiven, checkChangedFile
<1>3. PICK k \in Files : k = worker.file
  BY <1>0
<1>4. \A f \in Files \ {k} : Applied(f) => Applied(f)'
  BY <1>1, <1>2, <1>3 DEF Applied
<1>5. CASE verdict = "apply"
  <2>1. /\ worker'.at = "write" /\ worker'.file = worker.file
        /\ worker'.issues = worker.issues
    BY <1>0, <1>5 DEF checkChangedFile, Passes
  <2>2. stage' = "implementing"
    BY <1>0, <1>1 DEF PassInv, PassInSlice
  <2>3. PassInSlice' /\ RetryAccepted' /\ PassedAreJournalled' /\ JournalMatchesTree'
    BY <1>0, <1>1, <2>1, <2>2
       DEF PassInv, PassInSlice, RetryAccepted, PassedAreJournalled, JournalMatchesTree
  <2>4. PassedAreApplied'
    <3> SUFFICES ASSUME ~worker.issues, NEW f \in Files, f < worker.file
                 PROVE  Applied(f)'
      BY <2>1 DEF PassedAreApplied, Passed
    <3>1. Applied(f) /\ f \in Nat /\ worker.file \in Nat
      BY <1>0, FileNumbers DEF PassInv, PassedAreApplied, Passed
    <3> QED
      BY <1>3, <1>4, <3>1
  <2> QED
    BY <1>2, <2>3, <2>4 DEF PassInv
<1>6. CASE verdict = "rederive"
  <2> DEFINE w == [worker EXCEPT !.issues = TRUE]
  <2>1. w \in Passes /\ w.file = k /\ w.issues /\ worker' = NextFile(w)
    BY <1>0, <1>3, <1>6 DEF checkChangedFile, Passes
  <2>2. o.change = "diff" \/ (o.guarded /\ tree[k] \notin {o.base, o.result})
    BY <1>3, <1>6 DEF applyOneWorkerChangedFile, evaluatePawEditIdempotency
  <2>3. disturbed' \/ \E f \in Files : output[f].change = "diff"
    BY <1>0, <1>1, <1>3, <2>2 DEF PassInv, FilesAsGiven
  <2> HIDE DEF w
  <2> QED
    BY <1>0, <1>1, <1>2, <1>3, <1>4, <2>1, <2>3, NextFileKeepsPassInv
<1>7. CASE verdict \notin {"apply", "rederive"}
  <2>1. worker' = NextFile(worker)
    BY <1>7 DEF checkChangedFile
  <2>2. o.change \in {"none", "listed"} \/ tree[k] = o.result
    BY <1>0, <1>3, <1>7
       DEF applyOneWorkerChangedFile, evaluatePawEditIdempotency, WorkspaceTypeOK
  <2>3. Applied(k)'
    BY <1>1, <1>3, <2>2 DEF Applied
  <2>4. worker.issues => disturbed' \/ \E f \in Files : output[f].change = "diff"
    BY <1>0, <1>1 DEF PassInv, RetryAccepted
  <2> QED
    BY <1>0, <1>1, <1>2, <1>3, <1>4, <2>1, <2>3, <2>4, NextFileKeepsPassInv
<1> QED
  BY <1>5, <1>6, <1>7

(* A file that is written is applied. *)
LEMMA WriteKeepsPassInv ==
  ASSUME WInv, writeChangedFile
  PROVE  PassInv'
<1>0. /\ WorkspaceTypeOK /\ PassInv /\ worker \in Passes
      /\ worker.at = "write"
  BY DEF WInv, WorkspaceTypeOK, Passes, writeChangedFile
<1>1. /\ Write("worker", worker.file, output[worker.file].result,
               Given(output[worker.file]))
      /\ UNCHANGED <<stage, slice, output, journal>>
      /\ worker' = NextFile(worker)
  BY DEF writeChangedFile
<1>2. PICK k \in Files : k = worker.file
  BY <1>0 DEF Passes
<1>3. /\ tree'[k] = output[k].result
      /\ \A g \in Files \ {k} : tree'[g] = tree[g]
      /\ disturbed => disturbed'
      /\ touched \subseteq touched'
  BY <1>0, <1>1, <1>2, WriteFacts, WrittenContents
<1>4. FilesAsGiven'
  BY <1>0, <1>1, <1>3 DEF PassInv, FilesAsGiven
<1>5. Applied(k)' /\ \A f \in Files \ {k} : Applied(f) => Applied(f)'
  BY <1>1, <1>3 DEF Applied
<1>6. worker.issues => disturbed' \/ \E f \in Files : output[f].change = "diff"
  BY <1>0, <1>3 DEF PassInv, RetryAccepted
<1> QED
  BY <1>0, <1>1, <1>2, <1>4, <1>5, <1>6, NextFileKeepsPassInv

(* The journal gets an entry of each listed file before the slice goes to review. *)
LEMMA JournalKeepsPassInv ==
  ASSUME WInv, appendPawSliceJournalEntry
  PROVE  PassInv'
<1>0. /\ WorkspaceTypeOK /\ PassInv /\ worker \in Passes
      /\ worker.at = "journal" /\ stage = "implementing" /\ ~worker.issues
      /\ worker.file \in Nat /\ worker.file <= NumFiles /\ worker.file \in Files
  BY FileNumbers
     DEF WInv, WorkspaceTypeOK, Passes, appendPawSliceJournalEntry, PassInv, PassInSlice
<1>1. /\ UNCHANGED <<stage, slice, output, tree, disturbed, touched>>
      /\ journal' = journal \cup {Entry(f) : f \in {f \in {worker.file} :
                                                    output[f].change # "none"}}
  BY DEF appendPawSliceJournalEntry, treeVars
<1>2. /\ worker'.issues = worker.issues
      /\ \/ /\ worker.file < NumFiles
            /\ worker'.at = "journal" /\ worker'.file = worker.file + 1
         \/ worker.file = NumFiles /\ worker'.at = "state"
  BY <1>0, WorkspaceAssumption DEF appendPawSliceJournalEntry, Passes
<1>3. PassInSlice' /\ FilesAsGiven' /\ RetryAccepted' /\ JournalMatchesTree'
  BY <1>0, <1>1, <1>2
     DEF PassInv, PassInSlice, FilesAsGiven, RetryAccepted, JournalMatchesTree
<1>4. PassedAreApplied'
  BY <1>0, <1>1, <1>2 DEF PassInv, PassedAreApplied, Passed, Applied
<1>5. PassedAreJournalled'
  <2> SUFFICES ASSUME NEW f \in Files,
                      \/ worker'.at = "journal" /\ f < worker'.file
                      \/ worker'.at = "state",
                      output[f].change # "none"
               PROVE  Entry(f) \in journal'
    BY <1>1 DEF PassedAreJournalled, Entry
  <2>1. f \in Nat /\ f <= worker.file
    BY <1>0, <1>2, FileNumbers
  <2>2. CASE f = worker.file
    BY <1>1, <2>2
  <2>3. CASE f < worker.file
    BY <1>0, <1>1, <2>3 DEF PassInv, PassedAreJournalled
  <2> QED
    BY <1>0, <2>1, <2>2, <2>3
<1> QED
  BY <1>3, <1>4, <1>5 DEF PassInv

(* PassInv is kept by every step. *)
LEMMA PreservesPassInv ==
  ASSUME WInv, WorkspaceNext
  PROVE  PassInv'
<1>0. WorkspaceTypeOK /\ PassInv
  BY DEF WInv
<1>1. CASE receiveOutput
  BY <1>1, ReceiveKeepsPassInv
<1>2. CASE checkChangedFile
  BY <1>2, CheckKeepsPassInv
<1>3. CASE writeChangedFile
  BY <1>3, WriteKeepsPassInv
<1>4. CASE appendPawSliceJournalEntry
  BY <1>4, JournalKeepsPassInv
<1>5. CASE completePawWorkerPass
  <2>1. /\ worker.at = "state" /\ ~worker.issues
        /\ \A f \in Files : /\ Applied(f)
                            /\ output[f].change = "none" \/ Entry(f) \in journal
    BY <1>0, <1>5 DEF completePawWorkerPass, PassInv, PassInSlice, PassedAreApplied,
         Passed, PassedAreJournalled
  <2>2. /\ stage' = "reviewing" /\ worker'.at = "none" /\ worker'.issues = FALSE
        /\ UNCHANGED <<tree, slice, output, journal, disturbed, touched>>
    BY <1>5 DEF completePawWorkerPass, treeVars, NoPass
  <2>3. JournalMatchesTree'
    BY <2>1, <2>2 DEF JournalMatchesTree, Applied, Entry
  <2> QED
    BY <1>0, <2>2, <2>3 DEF PassInv, PassInSlice, FilesAsGiven, PassedAreApplied, Passed,
         PassedAreJournalled, RetryAccepted
<1>6. CASE \/ preparePawSliceCheckpoint \/ createPawRollbackCommandResult
           \/ findUnsafeRestoreReason \/ rollbackDies
  BY <1>6, PassUntouched
     DEF preparePawSliceCheckpoint, createPawRollbackCommandResult,
       findUnsafeRestoreReason, rollbackDies, treeVars
<1>7. CASE restorePawOwnedFiles
  BY <1>7, WrittenContents, OthersWrite DEF restorePawOwnedFiles
<1>8. CASE beginSlice
  BY <1>0, <1>8
     DEF beginSlice, treeVars, PassInv, PassInSlice, FilesAsGiven, PassedAreApplied,
       Passed, Applied, PassedAreJournalled, Entry, RetryAccepted, JournalMatchesTree
<1>9. CASE nextSlice
  <2>1. /\ worker.at = "none" /\ ~worker.issues /\ worker' = worker
        /\ stage' = "select"
        /\ \A f \in Files : ~output'[f].guarded
    BY <1>0, <1>9 DEF nextSlice, PassInv, PassInSlice, NoOutput, WorkspaceTypeOK
  <2> QED
    BY <2>1 DEF PassInv, PassInSlice, FilesAsGiven, PassedAreApplied, Passed,
         PassedAreJournalled, RetryAccepted, JournalMatchesTree
<1>10. CASE userEdits
  <2>1. PICK f \in Files : Write("user", f, UserContent(edits + 1), {tree[f]})
    BY <1>10 DEF userEdits, UserContent
  <2>2. edits < MaxEdits /\ UserContent(edits + 1) \in Contents
    BY <1>0, <1>10, ContentFacts, WorkspaceAssumption DEF userEdits, WorkspaceTypeOK
  <2> QED
    BY <1>10, <2>1, <2>2, OthersWrite DEF userEdits
<1>11. CASE workerDies
  <2>1. /\ worker'.at = "none" /\ worker'.issues = FALSE /\ worker.at # "none"
        /\ stage' = stage /\ output' = output
    BY <1>11 DEF workerDies, NoPass
  <2>2. stage = "implementing"
    BY <1>0, <2>1 DEF PassInv, PassInSlice
  <2>3. FilesAsGiven'
    <3>1. CASE UNCHANGED treeVars
      BY <1>0, <2>1, <3>1 DEF treeVars, PassInv, FilesAsGiven
    <3>2. CASE Write("worker", worker.file, Torn, Given(output[worker.file]))
      BY <3>2 DEF Write, FilesAsGiven
    <3> QED
      BY <1>11, <3>1, <3>2 DEF workerDies
  <2> QED
    BY <2>1, <2>2, <2>3 DEF PassInv, PassInSlice, PassedAreApplied, Passed,
         PassedAreJournalled, RetryAccepted, JournalMatchesTree
<1> QED
  BY <1>1, <1>2, <1>3, <1>4, <1>5, <1>6, <1>7, <1>8, <1>9, <1>10, <1>11
     DEF WorkspaceNext

-----------------------------------------------------------------------------
(* What a write leaves out of a checkpoint's history leaves the tree as the
   checkpoint has it. *)
LEMMA WriteKeepsSnapshots ==
  ASSUME WInv, NEW who \in {"worker", "rollback", "user"}, NEW f \in Files,
         NEW content \in Contents, NEW known, Write(who, f, content, known),
         edits < MaxEdits \/ who # "user",
         who = "rollback" => /\ rollback.at # "none" /\ f = rollback.file
                             /\ content = Restorable[f].restore_content,
         UNCHANGED checkpoints
  PROVE  SnapshotIsTree'
<1> SUFFICES ASSUME NEW c \in DOMAIN checkpoints, written'[c] = {}, NEW g \in Files
             PROVE  tree'[g] = checkpoints[c][g].current_content_hash
  BY DEF SnapshotIsTree
<1>0. WorkspaceTypeOK
  BY DEF WInv
<1>1. c \in DOMAIN written
  BY <1>0 DEF WorkspaceTypeOK
<1>2. /\ written[c] = {}
      /\ content = tree[f] \/ (who = "rollback" /\ c = rollback.checkpoint)
  BY <1>1 DEF Write
<1>3. tree[g] = checkpoints[c][g].current_content_hash
  BY <1>2 DEF WInv, SnapshotIsTree
<1>4. tree'[f] = content /\ (g # f => tree'[g] = tree[g])
  BY <1>0, WriteFacts
<1>5. CASE g = f
  <2>1. checkpoints[c][f].restore_content = checkpoints[c][f].current_content_hash
    BY DEF WInv, EditsInv, SnapshotsAgree
  <2> QED
    BY <1>2, <1>3, <1>4, <1>5, <2>1 DEF Restorable
<1> QED
  BY <1>3, <1>4, <1>5

LEMMA PreservesSnapshotIsTree ==
  ASSUME WInv, WorkspaceNext
  PROVE  SnapshotIsTree'
<1>0. WorkspaceTypeOK
  BY DEF WInv
<1>1. CASE writeChangedFile
  BY <1>1, WriteKeepsSnapshots, WrittenContents DEF writeChangedFile
<1>2. CASE restorePawOwnedFiles
  BY <1>2, WriteKeepsSnapshots, WrittenContents DEF restorePawOwnedFiles
<1>3. CASE userEdits
  <2>1. PICK f \in Files : Write("user", f, UserContent(edits + 1), {tree[f]})
    BY <1>3 DEF userEdits, UserContent
  <2>2. edits < MaxEdits /\ UserContent(edits + 1) \in Contents
    BY <1>0, <1>3, ContentFacts, WorkspaceAssumption DEF userEdits, WorkspaceTypeOK
  <2> QED
    BY <1>3, <2>1, <2>2, WriteKeepsSnapshots DEF userEdits
<1>4. CASE preparePawSliceCheckpoint
  <2>1. /\ tree' = tree /\ written' = Append(written, {})
    BY <1>4 DEF preparePawSliceCheckpoint
  <2>2. /\ Len(written) = Len(checkpoints)
        /\ DOMAIN checkpoints = DOMAIN written
        /\ \A c \in DOMAIN written : written'[c] = written[c]
    BY <1>0, <2>1, AppendProperties DEF WorkspaceTypeOK
  <2>3. \A f \in Files :
          createPawRestorableFileSnapshots[f].current_content_hash = tree[f]
    BY DEF createPawRestorableFileSnapshots
  <2> QED
    BY <2>1, <2>2, <2>3, CheckpointsGrow DEF WInv, SnapshotIsTree
<1>5. CASE UNCHANGED <<tree, written, checkpoints>>
  BY <1>5 DEF WInv, SnapshotIsTree
<1>6. CASE workerDies
  <2>1. CASE UNCHANGED treeVars
    BY <1>5, <1>6, <2>1 DEF workerDies, treeVars
  <2>2. CASE Write("worker", worker.file, Torn, Given(output[worker.file]))
    BY <1>6, <2>2, WriteKeepsSnapshots, WrittenContents, ContentFacts DEF workerDies
  <2> QED
    BY <1>6, <2>1, <2>2 DEF workerDies
<1> QED
  BY <1>1, <1>2, <1>3, <1>4, <1>5, <1>6
     DEF WorkspaceNext, treeVars, receiveOutput, checkChangedFile,
       appendPawSliceJournalEntry, completePawWorkerPass, createPawRollbackCommandResult,
       findUnsafeRestoreReason, beginSlice, nextSlice, rollbackDies

(* The history of a checkpoint only grows. *)
LEMMA WrittenGrows ==
  ASSUME WInv, WorkspaceNext
  PROVE  \A c \in DOMAIN written : written[c] \subseteq written'[c]
<1>1. ASSUME NEW who, NEW f, NEW content, NEW known, Write(who, f, content, known)
      PROVE  \A c \in DOMAIN written : written[c] \subseteq written'[c]
  BY <1>1 DEF Write
<1>2. CASE preparePawSliceCheckpoint
  <2>1. written' = Append(written, {}) /\ written \in Seq(SUBSET {"worker", "rollback", "user"})
    BY <1>2 DEF preparePawSliceCheckpoint, WInv, WorkspaceTypeOK
  <2> QED
    BY <2>1, AppendProperties
<1>3. CASE UNCHANGED written
  BY <1>3
<1> QED
  BY <1>1, <1>2, <1>3
     DEF WorkspaceNext, treeVars, receiveOutput, checkChangedFile, writeChangedFile,
       appendPawSliceJournalEntry, completePawWorkerPass, createPawRollbackCommandResult,
       findUnsafeRestoreReason, restorePawOwnedFiles, beginSlice, nextSlice, userEdits,
       workerDies, rollbackDies

(* A rollback finds a file changed only when its checkpoint was written over. *)
LEMMA PreservesRefusedOnlyIfWritten ==
  ASSUME WInv, WorkspaceNext
  PROVE  RefusedOnlyIfWritten'
<1> USE DEF RefusedOnlyIfWritten
<1>0. /\ WorkspaceTypeOK /\ RefusedOnlyIfWritten /\ SnapshotIsTree
      /\ rollback.at # "none" => /\ rollback.checkpoint \in DOMAIN checkpoints
                                 /\ rollback.checkpoint \in DOMAIN written
  BY WrittenContents DEF WInv, EditsInv, RollbackHasCheckpoint
<1>1. CASE UNCHANGED rollback
  BY <1>0, <1>1, WrittenGrows
<1>2. CASE createPawRollbackCommandResult
  BY <1>2 DEF createPawRollbackCommandResult
<1>3. CASE findUnsafeRestoreReason
  <2>1. CASE tree[rollback.file] # Restorable[rollback.file].current_content_hash
    <3>1. /\ rollback.at = "check" /\ rollback.file \in Files
          /\ rollback'.checkpoint = rollback.checkpoint /\ written' = written
      BY <1>0, <1>3, <2>1 DEF findUnsafeRestoreReason, treeVars, WorkspaceTypeOK
    <3>2. written[rollback.checkpoint] # {}
      BY <1>0, <2>1, <3>1 DEF SnapshotIsTree, Restorable
    <3> QED
      BY <3>1, <3>2
  <2>2. CASE tree[rollback.file] = Restorable[rollback.file].current_content_hash
    <3> DEFINE after == [rollback EXCEPT !.at = "restore", !.file = 1]
    <3>1. /\ after.at = "restore"
          /\ after \in [at : {"none", "check", "restore", "blocked"},
                        file : Files, checkpoint : Nat]
      BY <1>0, FileNumbers DEF WorkspaceTypeOK
    <3>2. rollback' = NextRestore(after) /\ rollback.at = "check"
      BY <1>3, <2>2 DEF findUnsafeRestoreReason
    <3> HIDE DEF after
    <3>3. \/ rollback' = [rollback EXCEPT !.file = rollback.file + 1]
          \/ rollback' = after
      BY <1>0, <3>1, <3>2, NextRestoreFacts
    <3>4. rollback'.at # "blocked"
      BY <1>0, <3>1, <3>2, <3>3 DEF WorkspaceTypeOK
    <3> QED
      BY <3>4
  <2> QED
    BY <2>1, <2>2
<1>4. CASE restorePawOwnedFiles
  BY <1>0, <1>4 DEF restorePawOwnedFiles, NextRestore, NoRollback, WorkspaceTypeOK
<1>5. CASE rollback' = NoRollback
  BY <1>5 DEF NoRollback
<1> QED
  BY <1>1, <1>2, <1>3, <1>4, <1>5, RollbackMoves

(* The invariant holds at the start of a task. *)
LEMMA WorkspaceInitInv ==
  ASSUME WorkspaceInit
  PROVE  WInv
<1>1. \A f \in Files : tree[f] \in {Absent, Base}
  BY DEF WorkspaceInit
<1>2. /\ DOMAIN checkpoints = {} /\ DOMAIN written = {}
      /\ \A f \in Files : /\ output[f].change = "none" /\ ~output[f].guarded
                          /\ output[f].result = Absent
      /\ worker.at = "none" /\ ~worker.issues /\ rollback.at = "none"
  BY DEF WorkspaceInit, NoOutput, NoPass, NoRollback
<1>3. WorkspaceTypeOK
  <2>1. tree \in [Files -> Contents]
    BY ContentFacts DEF WorkspaceInit
  <2>2. output \in [Files -> [change : {"full_file", "diff", "listed", "none"},
                             guarded : BOOLEAN, base : Contents, result : Contents]]
    BY ContentFacts DEF WorkspaceInit, NoOutput
  <2>3. /\ worker \in [at : {"none", "check", "write", "journal", "state"},
                       file : Files, issues : BOOLEAN]
        /\ rollback \in [at : {"none", "check", "restore", "blocked"},
                         file : Files, checkpoint : Nat]
    BY FileNumbers DEF WorkspaceInit, NoPass, NoRollback
  <2>4. 1 \in 1..MaxSlices /\ 0 \in 0..MaxEdits
    BY WorkspaceAssumption
  <2>5. /\ checkpoints \in Seq([Files -> [restore_content : Contents,
                                          current_content_hash : Contents]])
        /\ written \in Seq(SUBSET {"worker", "rollback", "user"})
        /\ Len(written) = Len(checkpoints)
    BY EmptySeq DEF WorkspaceInit
  <2>6. /\ stage = "select" /\ slice = 1 /\ edits = 0 /\ lost = {} /\ exposed = {}
        /\ disturbed = FALSE /\ touched = {}
    BY DEF WorkspaceInit
  <2> QED
    BY <2>1, <2>2, <2>3, <2>4, <2>5, <2>6 DEF WorkspaceTypeOK
<1>4. NoFutureEdit /\ ResultsAreWorkers
  BY <1>1, <1>2, ContentFacts DEF NoFutureEdit, ResultsAreWorkers
<1>5. EditsInv
  BY <1>2, <1>4
     DEF EditsInv, SnapshotsAgree, RollbackHasCheckpoint, PassHasChecked,
       RollbackHasChecked, CheckedByRollback, LostOnlyWhenRaced, WorkspaceInit
<1>6. PassInv
  BY <1>2
     DEF PassInv, PassInSlice, FilesAsGiven, PassedAreApplied, Passed,
       PassedAreJournalled, RetryAccepted, JournalMatchesTree, WorkspaceInit
<1>7. SnapshotIsTree /\ RefusedOnlyIfWritten
  BY <1>2 DEF SnapshotIsTree, RefusedOnlyIfWritten
<1> QED
  BY <1>3, <1>5, <1>6, <1>7 DEF WInv

(* Every behaviour of the workspace satisfies WInv. *)
THEOREM WorkspaceInductive == WorkspaceSpec => []WInv
<1>1. WorkspaceInit => WInv
  BY WorkspaceInitInv
<1>2. WInv /\ [WorkspaceNext]_workspaceVars => WInv'
  <2>1. ASSUME WInv, WorkspaceNext PROVE WInv'
    BY <2>1, PreservesWorkspaceTypeOK, PreservesNoFutureEdit, PreservesSnapshotsAgree,
       PreservesResultsAreWorkers, PreservesRollbackHasCheckpoint,
       PreservesPassHasChecked, PreservesRollbackHasChecked, PreservesLostOnlyWhenRaced,
       PreservesPassInv, PreservesSnapshotIsTree, PreservesRefusedOnlyIfWritten
       DEF WInv, EditsInv
  <2>2. ASSUME WInv, UNCHANGED workspaceVars PROVE WInv'
    <3>1. WorkspaceTypeOK' /\ PassInv'
      BY <2>2, PassUntouched DEF workspaceVars, WInv, WorkspaceTypeOK
    <3>2. EditsInv'
      BY <2>2 DEF workspaceVars, WInv, EditsInv, NoFutureEdit, SnapshotsAgree,
           ResultsAreWorkers, RollbackHasCheckpoint, PassHasChecked, RollbackHasChecked,
           CheckedByRollback, Restorable, LostOnlyWhenRaced
    <3>3. SnapshotIsTree' /\ RefusedOnlyIfWritten'
      BY <2>2 DEF workspaceVars, WInv, SnapshotIsTree, RefusedOnlyIfWritten
    <3> QED
      BY <3>1, <3>2, <3>3 DEF WInv
  <2> QED
    BY <2>1, <2>2
<1> QED
  BY <1>1, <1>2, PTL DEF WorkspaceSpec

(* The tree, the pass, the rollback and the histories always have their types:
   both commands stay within their files, and what they write is a content of
   the repository, the worker, the user or an interrupted write. *)
THEOREM WorkspaceTypeCorrect == WorkspaceSpec => []WorkspaceTypeOK
<1>1. WInv => WorkspaceTypeOK
  BY DEF WInv
<1> QED
  BY <1>1, WorkspaceInductive, PTL

(* An edit of the user is lost only if it came between a command's check of the
   file and its write, or to a change that names no base: whatever the worker,
   any number of rollbacks and kills do. *)
THEOREM EditsLostOnlyWhenRaced == WorkspaceSpec => []LostOnlyWhenRaced
<1>1. WInv => LostOnlyWhenRaced
  BY DEF WInv, EditsInv
<1> QED
  BY <1>1, WorkspaceInductive, PTL

(* A pass repeated after a kill or a refusal is accepted unless someone else
   wrote a file or the kill left one torn. *)
THEOREM RetryIsAccepted == WorkspaceSpec => []RetryAccepted
<1>1. WInv => RetryAccepted
  BY DEF WInv, PassInv
<1> QED
  BY <1>1, WorkspaceInductive, PTL

(* A slice under review has its changes in the journal and in the tree, except
   for files someone else has written since. *)
THEOREM JournalIsTree == WorkspaceSpec => []JournalMatchesTree
<1>1. WInv => JournalMatchesTree
  BY DEF WInv, PassInv
<1> QED
  BY <1>1, WorkspaceInductive, PTL

(* A rollback is refused only if something was written after its checkpoint,
   its own interrupted restores not counted. *)
THEOREM RollbackRepeatable == WorkspaceSpec => []RefusedOnlyIfWritten
<1>1. WInv => RefusedOnlyIfWritten
  BY DEF WInv
<1> QED
  BY <1>1, WorkspaceInductive, PTL
=============================================================================
