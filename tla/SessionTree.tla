----------------------------- MODULE SessionTree -----------------------------
(***************************************************************************)
(* The conversation as a tree in an append-only file:                      *)
(* packages/coding-agent/src/core/session-manager.ts with                  *)
(* compaction/compaction.ts, agent-session-tree-navigation.ts and fork()   *)
(* of agent-session-runtime.ts.                                            *)
(*                                                                         *)
(* Every message, label, setting and compaction is an entry whose parent   *)
(* is the leaf at the time.  Moving the leaf back and appending grows      *)
(* another branch.  What the model is sent is read off the path from the   *)
(* root to the leaf, where a compaction stands for what came before the    *)
(* first entry it keeps.  The file is only created with the first answer   *)
(* of the model; from then on every entry is appended as a line, and a     *)
(* kill may leave a line incomplete.  AgentSession has one path only and   *)
(* the run around it; here are the branches and the file.                  *)
(***************************************************************************)
EXTENDS Naturals, Sequences, FiniteSets, SequencesExt

CONSTANTS MaxEntries,  \* bound: entries, over all branches and forks
          MaxMoves,    \* bound: navigations and forks
          MaxTears     \* bound: kills in the middle of a line

ASSUME TreeAssumption == {MaxEntries, MaxMoves, MaxTears} \subseteq Nat

VARIABLES
    entries,     \* fileEntries without the header
    leaf,        \* leafId, or 0
    flushed,     \* the flag of _persist
    file,        \* the session file: whether it is there, its complete lines,
                 \* and how its last line ends
    compacting,  \* the compaction whose summary is being written, and the leaf
                 \* it was prepared from, or Nothing
    nextId,      \* for new entries
    moves, tears,
    stored,      \* history: the entries ever written to this file
    damage       \* history: what went wrong with the tree, see below

treeVars == <<entries, leaf, flushed, file, compacting, nextId, moves, tears,
              stored, damage>>

\* An entry: kind, and for labels the target, for compactions the first kept
\* entry (at) and the messages that its summary accounts for (covers).
Entry(id, parent, kind, at, covers) ==
    [id |-> id, parent |-> parent, kind |-> kind, at |-> at, covers |-> covers]

Kinds == {"user", "assistant", "toolResult", "setting", "label", "unlabel",
          "branchSummary", "compaction"}

\* Entries of type "message", and the ones that put a message in the context.
IsMessage(e) == e.kind \in {"user", "assistant", "toolResult"}
InContext(e) == IsMessage(e) \/ e.kind = "branchSummary"

Ids(es) == {e.id : e \in Range(es)}

Nothing == [at |-> 0, covers |-> {}, from |-> 0]
NoFile  == [there |-> FALSE, lines |-> <<>>, tail |-> "whole"]

\* newSession
TreeInit ==
    /\ entries = <<>> /\ leaf = 0
    /\ flushed = FALSE /\ file = NoFile
    /\ compacting = Nothing
    /\ nextId = 1
    /\ moves = 0 /\ tears = 0
    /\ stored = {} /\ damage = {}

-----------------------------------------------------------------------------
(* Reading the tree *)

\* byId.get, among the first n entries: the position, or 0
Position(es, n, id) ==
    LET at == {i \in 1..n : es[i].id = id}
    IN  IF at = {} THEN 0 ELSE CHOOSE i \in at : TRUE

\* getBranch: from the root to the entry; an unknown parent starts it.
getBranch(es, id) ==
    LET branch[i \in 0..Len(es)] ==
          IF i = 0 THEN <<>>
          ELSE Append(branch[Position(es, i - 1, es[i].parent)], es[i])
    IN  branch[Position(es, Len(es), id)]

\* The entries at the positions in keep, in their order.
Picked(path, keep) ==
    LET picked[i \in 0..Len(path)] ==
          IF i = 0 THEN <<>>
          ELSE IF i \in keep THEN Append(picked[i - 1], path[i])
          ELSE picked[i - 1]
    IN  picked[Len(path)]

IndexOf(path, id) == SelectInSeq(path, LAMBDA e : e.id = id)

\* getLatestCompactionEntry, findLastCompactionIndex; 0 if there is none
LatestCompaction(path) == SelectLastInSeq(path, LAMBDA e : e.kind = "compaction")

\* Where what is sent starts: at the first kept entry if it comes before the
\* latest compaction, else behind that.
sentFrom(path) ==
    LET c == LatestCompaction(path)
        kept == IF c = 0 THEN 1 ELSE IndexOf(path, path[c].at)
    IN  IF c > 0 /\ kept \in {0} \cup (c..Len(path)) THEN c ELSE kept

\* buildMessagesFromPath, without the summary it starts with
buildMessagesFromPath(path) ==
    Picked(path, {i \in sentFrom(path)..Len(path) : InContext(path[i])})

\* _buildIndex: the labelled entries, the last change wins.
LabelledIn(es) ==
    FoldLeft(LAMBDA acc, e : CASE e.kind = "label" -> acc \cup {e.at}
                               [] e.kind = "unlabel" -> acc \ {e.at}
                               [] OTHER -> acc,
             {}, es)

-----------------------------------------------------------------------------
(* Writing the file *)

HasAssistant(es) == \E e \in Range(es) : e.kind = "assistant"

\* Mutant: no newline ends the line, so that a torn one goes on for ever.
MutTornLineGoesOn(f, e) ==
    [f EXCEPT !.lines = CASE f.tail = "whole" -> Append(@, e)
                          [] f.tail = "cut" -> @
                          [] OTHER -> Front(@)]

\* appendFileSync.  After an incomplete last line the new one only completes
\* it to something that does not parse; one that lacks just its newline is
\* spoilt by that as well.
AppendLine(f, e) ==
    [f EXCEPT !.tail = "whole",
              !.lines = CASE f.tail = "whole" -> Append(@, e)
                          [] f.tail = "cut" -> @
                          [] OTHER -> Front(@)]

\* Mutant: nothing is written before the first answer, also to a file that is
\* there already.
MutPersistOnlyAnswers(e) ==
    /\ flushed' = (flushed \/ HasAssistant(entries'))
    /\ file' = CASE ~HasAssistant(entries') -> file
                 [] HasAssistant(entries') /\ ~flushed ->
                      [there |-> TRUE, lines |-> entries', tail |-> "whole"]
                 [] OTHER -> AppendLine(file, e)
    /\ stored' = IF HasAssistant(entries') THEN Ids(entries') \cup stored ELSE stored

\* _persist of the entry just appended: without an answer in the session
\* nothing is written unless the file is there; the first answer writes all.
persist(e) ==
    /\ flushed' = (flushed \/ HasAssistant(entries'))
    /\ file' = CASE flushed -> AppendLine(file, e)
                 [] ~flushed /\ HasAssistant(entries') ->
                      [there |-> TRUE, lines |-> entries', tail |-> "whole"]
                 [] OTHER -> file
    /\ stored' = CASE flushed -> stored \cup {e.id}
                   [] ~flushed /\ HasAssistant(entries') -> Ids(entries')
                   [] OTHER -> stored

\* _appendEntry under the given parent
appendEntry(kind, parent, at, covers) ==
    LET e == Entry(nextId, parent, kind, at, covers) IN
    /\ nextId <= MaxEntries
    /\ nextId' = nextId + 1
    /\ entries' = Append(entries, e)
    /\ leaf' = e.id
    /\ persist(e)

LastMessage(path) == SelectLastInSeq(path, InContext)

\* appendMessage.  Answers follow a message, results follow calls.
appendMessage ==
    LET path == getBranch(entries, leaf)
        last == LastMessage(path)
    IN  /\ \/ appendEntry("user", leaf, 0, {})
           \/ last > 0 /\ compacting = Nothing /\ appendEntry("assistant", leaf, 0, {})
           \/ /\ last > 0 /\ compacting = Nothing
              /\ path[last].kind \in {"assistant", "toolResult"}
              /\ LatestCompaction(path) < last
              /\ appendEntry("toolResult", leaf, 0, {})
        /\ UNCHANGED <<compacting, moves, tears, damage>>

\* appendThinkingLevelChange, appendModelChange, appendCustomEntry and
\* appendSessionInfo add an entry that is not part of the context.
appendSetting ==
    /\ appendEntry("setting", leaf, 0, {})
    /\ UNCHANGED <<compacting, moves, tears, damage>>

\* appendLabelChange: also a label is an entry under the leaf.
appendLabelChange ==
    /\ \E target \in Ids(entries), kind \in {"label", "unlabel"} :
         appendEntry(kind, leaf, target, {})
    /\ UNCHANGED <<compacting, moves, tears, damage>>

-----------------------------------------------------------------------------
(* Compaction *)

\* Mutant: the next summary starts behind the last compaction.
MutBehindLast(path) == LatestCompaction(path) + 1

\* resolveBoundaryFromPrevCompaction
boundaryStart(path) ==
    LET c == LatestCompaction(path)
        kept == IF c = 0 THEN 1 ELSE IndexOf(path, path[c].at)
    IN  IF kept > 0 THEN kept ELSE c + 1

\* Mutant: results are cut points too.
MutCutAnywhere(path, start) == {i \in start..Len(path) : InContext(path[i])}

\* findValidCutPoints
findValidCutPoints(path, start) ==
    {i \in start..Len(path) : InContext(path[i]) /\ path[i].kind # "toolResult"}

\* backtrackOverNonMessageEntries
backtrackOverNonMessageEntries(path, start, cut) ==
    CHOOSE i \in start..cut :
       /\ \A k \in i..(cut - 1) : ~IsMessage(path[k]) /\ path[k].kind # "compaction"
       /\ i > start => IsMessage(path[i - 1]) \/ path[i - 1].kind = "compaction"

\* findCutPoint: sizes are left out, so every cut point may be the one.
findCutPoint(path, start) ==
    LET cutPoints == findValidCutPoints(path, start)
    IN  IF cutPoints = {} THEN {start}
        ELSE {backtrackOverNonMessageEntries(path, start, cut) : cut \in cutPoints}

\* prepareCompaction: the summary accounts for what lies between the boundary
\* and the cut (messagesToSummarize and turnPrefixMessages), and builds on the
\* previous summary.  Writing it takes a request to the model.
prepareCompaction ==
    LET path  == getBranch(entries, leaf)
        c     == LatestCompaction(path)
        start == boundaryStart(path)
    IN  /\ compacting = Nothing
        /\ path # <<>> /\ Last(path).kind # "compaction"
        /\ \E cut \in findCutPoint(path, start) :
             compacting' = [at |-> path[cut].id,
                            covers |-> (IF c = 0 THEN {} ELSE path[c].covers)
                              \cup {path[k].id : k \in {k \in start..(cut - 1) : InContext(path[k])}},
                            from |-> leaf]
        /\ UNCHANGED <<entries, leaf, flushed, file, nextId, moves, tears, stored,
                       damage>>

\* appendCompaction, under the leaf as it is when the summary is there
appendCompaction ==
    /\ compacting # Nothing
    /\ appendEntry("compaction", leaf, compacting.at, compacting.covers)
    /\ compacting' = Nothing
    /\ LET path == getBranch(entries, leaf)
       IN  damage' = damage \cup (IF compacting.at \in Ids(path) THEN {} ELSE {"strayed"})
                           \cup (IF compacting.from \in Ids(path) THEN {} ELSE {"moved"})
    /\ UNCHANGED <<moves, tears>>

\* The summary fails or is cancelled.
cancelCompaction ==
    /\ compacting # Nothing
    /\ compacting' = Nothing
    /\ UNCHANGED <<entries, leaf, flushed, file, nextId, moves, tears, stored,
                   damage>>

-----------------------------------------------------------------------------
(* Branches and forks *)

\* resolveTreeNavigationTarget: a user message goes back to the editor.
resolveTreeNavigationTarget(e) == IF e.kind = "user" THEN e.parent ELSE e.id

\* navigateTree with branch or resetLeaf, or with branchWithSummary; both throw
\* if the entry is not there, which only a spoilt line can cause.  Nothing keeps
\* it from running during a compaction.
navigateTree ==
    /\ moves < MaxMoves /\ moves' = moves + 1
    /\ \E e \in Range(entries) :
         /\ e.id # leaf
         /\ LET newLeaf == resolveTreeNavigationTarget(e) IN
            /\ newLeaf \in Ids(entries) \cup {0}
            /\ \/ /\ leaf' = newLeaf
                  /\ UNCHANGED <<entries, flushed, file, nextId, stored>>
               \/ appendEntry("branchSummary", newLeaf, 0, {})
    /\ UNCHANGED <<compacting, tears, damage>>

\* The path without its labels, chained again.
pathWithoutLabels(path) ==
    LET es == Picked(path, {i \in DOMAIN path : path[i].kind \notin {"label", "unlabel"}})
    IN  [i \in DOMAIN es |->
           [es[i] EXCEPT !.parent = IF i = 1 THEN 0 ELSE es[i - 1].id]]

\* createBranchedSession of the session opened: the path to id as a session of
\* its own, then a label for every labelled entry on it.  The file is written if
\* it has an answer.
createBranchedSession(opened, id) ==
    LET path == pathWithoutLabels(getBranch(opened, id))
        targets == SetToSeq(LabelledIn(opened) \cap Ids(path))
        labels == [i \in DOMAIN targets |->
                     Entry(nextId + i - 1,
                           IF i > 1 THEN nextId + i - 2
                           ELSE IF path = <<>> THEN 0 ELSE Last(path).id,
                           "label", targets[i], {})]
        es == path \o labels
    IN  /\ id \in Ids(opened)
        /\ nextId + Len(labels) <= MaxEntries + 1
        /\ nextId' = nextId + Len(labels)
        /\ entries' = es
        /\ leaf' = IF es = <<>> THEN 0 ELSE Last(es).id
        /\ flushed' = HasAssistant(es)
        /\ file' = IF HasAssistant(es)
                   THEN [there |-> TRUE, lines |-> es, tail |-> "whole"] ELSE NoFile
        /\ stored' = IF HasAssistant(es) THEN Ids(es) ELSE {}
        /\ damage' = damage \cup
             (IF \E e \in Range(es) : e.kind = "compaction" /\ e.at \notin Ids(es)
              THEN {"unkept"} ELSE {})

\* fork at an entry, or before a user message, which goes back to the editor.
\* The current file is opened again for it, so there must be one; before the
\* first message the fork is a new session.
fork ==
    /\ moves < MaxMoves /\ moves' = moves + 1
    /\ \E e \in Range(entries) :
         \/ file.there /\ createBranchedSession(file.lines, e.id)
         \/ /\ e.kind = "user" /\ e.parent = 0
            /\ entries' = <<>> /\ leaf' = 0
            /\ flushed' = FALSE /\ file' = NoFile
            /\ stored' = {}
            /\ UNCHANGED <<nextId, damage>>
    /\ compacting' = Nothing
    /\ UNCHANGED tears

-----------------------------------------------------------------------------
(* Kills and opening again *)

\* loadEntriesFromFile and setSessionFile: lines that do not parse are skipped,
\* the last entry is the leaf.  Without a file the session is a new one.
setSessionFile ==
    /\ entries # file.lines \/ leaf # nextId - 1
    /\ entries' = file.lines
    /\ leaf' = IF file.lines = <<>> THEN 0 ELSE Last(file.lines).id
    /\ flushed' = file.there
    /\ compacting' = Nothing
    /\ UNCHANGED <<file, nextId, moves, tears, stored, damage>>

\* A kill or a full disk in the middle of an append: the line is cut somewhere
\* or lacks its newline.  The session is opened again.
tearLine ==
    /\ tears < MaxTears /\ tears' = tears + 1
    /\ flushed /\ file.tail = "whole"
    /\ nextId <= MaxEntries /\ nextId' = nextId + 1
    /\ LET e == Entry(nextId, leaf, "user", 0, {}) IN
       \E tail \in {"cut", "noNewline"} :
         LET torn == [file EXCEPT !.tail = tail,
                                  !.lines = IF tail = "cut" THEN @ ELSE Append(@, e)]
         IN  /\ file' = torn
             /\ entries' = torn.lines
             /\ leaf' = IF torn.lines = <<>> THEN 0 ELSE Last(torn.lines).id
             /\ stored' = stored \cup {e.id}
    /\ compacting' = Nothing
    /\ damage' = damage \cup {"torn"}
    /\ UNCHANGED <<flushed, moves>>

\* The same while _persist writes the new file: it holds a part of the session,
\* without an answer.  A header cut short counts as an empty file, see
\* setSessionFile, and so does one that is alone.
tearFirstWrite ==
    /\ tears < MaxTears /\ tears' = tears + 1
    /\ ~flushed /\ entries # <<>>
    /\ nextId <= MaxEntries /\ nextId' = nextId + 1
    /\ \E n \in 0..Len(entries), tail \in {"whole", "cut"} :
         /\ file' = [there |-> TRUE, lines |-> SubSeq(entries, 1, n), tail |-> tail]
         /\ entries' = SubSeq(entries, 1, n)
         /\ leaf' = IF n = 0 THEN 0 ELSE entries[n].id
         /\ stored' = Ids(SubSeq(entries, 1, n)) \cup
                        (IF tail = "cut" /\ n < Len(entries) THEN {entries[n + 1].id} ELSE {})
         /\ damage' = IF tail = "cut" THEN damage \cup {"torn"} ELSE damage
    /\ flushed' = TRUE
    /\ compacting' = Nothing
    /\ UNCHANGED moves

TreeNext ==
    \/ appendMessage \/ appendSetting \/ appendLabelChange
    \/ prepareCompaction \/ appendCompaction \/ cancelCompaction
    \/ navigateTree \/ fork
    \/ setSessionFile \/ tearLine \/ tearFirstWrite

TreeSpec == TreeInit /\ [][TreeNext]_treeVars

-----------------------------------------------------------------------------
(* Properties *)

\* The type invariant: entries have distinct ids, and unless a line was spoilt
\* the parent of each comes before it and the leaf is one of them.
TreeTypeOK ==
    /\ \A i \in DOMAIN entries :
         /\ entries[i].id \in 1..(nextId - 1) /\ entries[i].kind \in Kinds
         /\ \A j \in DOMAIN entries : entries[i].id = entries[j].id => i = j
         /\ "torn" \in damage \/ entries[i].parent \in Ids(SubSeq(entries, 1, i - 1)) \cup {0}
    /\ leaf \in Ids(entries) \cup {0}
    /\ flushed \in BOOLEAN /\ file.tail \in {"whole", "cut", "noNewline"}

Remembered ==
    LET path == getBranch(entries, leaf)
        c == LatestCompaction(path)
    IN  \A e \in Range(path) : InContext(e) =>
          e \in Range(buildMessagesFromPath(path)) \/ (c > 0 /\ e.id \in path[c].covers)

\* No message of the conversation is forgotten: each one on the path is sent to
\* the model or accounted for by the latest summary, over repeated compactions,
\* branches and forks.  Excepted are a navigation during the compaction to where
\* its first kept entry is not, a fork that drops the label a compaction starts
\* at, and spoilt lines.
NothingForgotten == damage \subseteq {"moved"} => Remembered

\* The same of every fork: a session goes on with the summary and "messages from
\* `firstKeptEntryId` onwards" (docs/compaction.md:46).
ForkKeepsContext == damage \subseteq {"unkept"} => Remembered

\* What is sent never starts a run of results without their call: compactions
\* cut where the results that follow are kept with the call.  Excepted is here
\* every navigation off the branch a compaction was prepared on: on another one
\* a result may be what follows its first kept entry.
ResultsFollowCalls ==
    damage = {} =>
      LET ms == buildMessagesFromPath(getBranch(entries, leaf))
      IN  \A i \in DOMAIN ms : ms[i].kind = "toolResult" =>
            i > 1 /\ ms[i - 1].kind \in {"assistant", "toolResult"}

\* Once there is a file it holds the session as it is in memory, whatever was
\* deferred before the first answer, branched or forked, and if the first write
\* was interrupted: opening it again gives the same entries.  Until then there is
\* none, else the exclusive creation by the first answer would fail.
FileHoldsSession ==
    /\ flushed = file.there
    /\ flushed /\ "torn" \notin damage => file.lines = entries

\* A kill in the middle of a line costs that line and at most one more.
TearLosesTwo == Cardinality(stored \ Ids(file.lines)) <= 2 * tears

==============================================================================
