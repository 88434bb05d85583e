-------------------------- MODULE SessionTreeProofs --------------------------
(***************************************************************************)
(* Theorems about SessionTree for any number of entries, branches,         *)
(* compactions, forks and kills: the file holds the session, a torn line   *)
(* costs at most two entries, a compaction forgets nothing, and what is    *)
(* sent to the model begins no tool result without its call.  The first is *)
(* about what is written when, whatever path getBranch gives; the others   *)
(* follow the walk along parents by induction, with the lemmas of          *)
(* SequenceLemmas.                                                         *)
(***************************************************************************)
EXTENDS SessionTree, SequenceLemmas, FiniteSetTheorems, TLAPS

(* Until a line is torn the last one is whole; that is what makes an append of
   the entry to the file the same as one to the session in memory. *)
WholeUntilTorn == flushed /\ "torn" \notin damage => file.tail = "whole"

TInv ==
  /\ flushed \in BOOLEAN
  /\ DOMAIN file = {"there", "lines", "tail"}
  /\ FileHoldsSession
  /\ WholeUntilTorn

-----------------------------------------------------------------------------
(* appendMessage, appendCompaction and the like: the entry goes to the file once
   it is there, and the first answer writes them all. *)
LEMMA AppendKeepsTInv ==
  ASSUME TInv, damage \subseteq damage',
         NEW kind, NEW parent, NEW at, NEW covers, appendEntry(kind, parent, at, covers)
  PROVE  TInv'
<1> DEFINE e == Entry(nextId, parent, kind, at, covers)
<1>1. entries' = Append(entries, e) /\ persist(e)
  BY DEF appendEntry
<1> HIDE DEF e
<1>2. CASE flushed
  <2>1. file' = AppendLine(file, e) /\ flushed' = TRUE
    BY <1>1, <1>2 DEF persist
  <2>2. /\ file'.there = file.there /\ file'.tail = "whole"
        /\ DOMAIN file' = {"there", "lines", "tail"}
    BY <2>1 DEF AppendLine, TInv
  <2>3. file.tail = "whole" => file'.lines = Append(file.lines, e)
    BY <2>1 DEF AppendLine, TInv
  <2> QED
    BY <1>1, <1>2, <2>1, <2>2, <2>3 DEF TInv, FileHoldsSession, WholeUntilTorn
<1>3. CASE ~flushed /\ HasAssistant(entries')
  <2>1. file' = [there |-> TRUE, lines |-> entries', tail |-> "whole"] /\ flushed' = TRUE
    BY <1>1, <1>3 DEF persist
  <2> QED
    BY <2>1 DEF TInv, FileHoldsSession, WholeUntilTorn
<1>4. CASE ~flushed /\ ~HasAssistant(entries')
  <2>1. file' = file /\ flushed' = FALSE
    BY <1>1, <1>4 DEF persist
  <2> QED
    BY <1>4, <2>1 DEF TInv, FileHoldsSession, WholeUntilTorn
<1> QED
  BY <1>2, <1>3, <1>4

LEMMA TreeNextPreservesTInv ==
  ASSUME TInv, [TreeNext]_treeVars
  PROVE  TInv'
<1> USE DEF TInv, FileHoldsSession, WholeUntilTorn
<1>1. CASE appendMessage \/ appendSetting \/ appendLabelChange
  <2>1. PICK kind, parent, at, covers : appendEntry(kind, parent, at, covers)
    BY <1>1 DEF appendMessage, appendSetting, appendLabelChange
  <2>2. damage' = damage
    BY <1>1 DEF appendMessage, appendSetting, appendLabelChange
  <2> QED
    BY <2>1, <2>2, AppendKeepsTInv
<1>2. CASE appendCompaction
  BY <1>2, AppendKeepsTInv DEF appendCompaction
<1>3. CASE prepareCompaction \/ cancelCompaction \/ UNCHANGED treeVars
  BY <1>3 DEF prepareCompaction, cancelCompaction, treeVars
<1>4. CASE navigateTree
  <2>1. CASE UNCHANGED <<entries, flushed, file, nextId, stored>>
    BY <1>4, <2>1 DEF navigateTree
  <2>2. CASE \E parent : appendEntry("branchSummary", parent, 0, {})
    BY <1>4, <2>2, AppendKeepsTInv DEF navigateTree
  <2> QED
    BY <1>4, <2>1, <2>2 DEF navigateTree
<1>5. CASE fork
  <2>1. CASE \E opened, id : createBranchedSession(opened, id)
    <3>1. PICK opened, id : createBranchedSession(opened, id)
      BY <2>1
    <3>2. /\ flushed' = HasAssistant(entries') /\ flushed' \in BOOLEAN
          /\ file' = IF HasAssistant(entries')
                     THEN [there |-> TRUE, lines |-> entries', tail |-> "whole"] ELSE NoFile
      BY <3>1 DEF createBranchedSession, HasAssistant
    <3> QED
      BY <3>2 DEF NoFile
  <2>2. CASE flushed' = FALSE /\ file' = NoFile
    BY <2>2 DEF NoFile
  <2> QED
    BY <1>5, <2>1, <2>2 DEF fork
<1>6. CASE setSessionFile
  BY <1>6 DEF setSessionFile
<1>7. CASE tearLine
  <2>1. PICK tail, lines : file' = [file EXCEPT !.tail = tail, !.lines = lines]
    BY <1>7 DEF tearLine
  <2>2. file'.there = file.there /\ DOMAIN file' = {"there", "lines", "tail"}
    BY <2>1
  <2>3. flushed' = flushed /\ "torn" \in damage'
    BY <1>7 DEF tearLine
  <2> QED
    BY <2>2, <2>3
<1>8. CASE tearFirstWrite
  <2>1. PICK n \in 0..Len(entries), tail \in {"whole", "cut"} :
          /\ file' = [there |-> TRUE, lines |-> SubSeq(entries, 1, n), tail |-> tail]
          /\ entries' = SubSeq(entries, 1, n)
          /\ damage' = IF tail = "cut" THEN damage \cup {"torn"} ELSE damage
    BY <1>8 DEF tearFirstWrite
  <2>2. flushed' = TRUE
    BY <1>8 DEF tearFirstWrite
  <2> QED
    BY <2>1, <2>2
<1> QED
  BY <1>1, <1>2, <1>3, <1>4, <1>5, <1>6, <1>7, <1>8 DEF TreeNext

(* The file is there exactly once it was written, and until a line is torn it
   holds the session as it is in memory: after the deferred first write, a
   branch, a fork, and a first write that a kill interrupted. *)
THEOREM FileIsSession == TreeSpec => []FileHoldsSession
<1>1. TreeInit => TInv
  <2>1. ASSUME TreeInit
        PROVE  /\ flushed = FALSE /\ file.there = FALSE
               /\ DOMAIN file = {"there", "lines", "tail"}
    BY <2>1 DEF TreeInit, NoFile
  <2> QED
    BY <2>1 DEF TInv, FileHoldsSession, WholeUntilTorn
<1>2. TInv /\ [TreeNext]_treeVars => TInv'
  BY TreeNextPreservesTInv
<1>3. TInv => FileHoldsSession
  BY DEF TInv
<1> QED
  BY <1>1, <1>2, <1>3, PTL DEF TreeSpec

-----------------------------------------------------------------------------
(* Reading the tree: what the operators return. *)

EntrySet == [id : Nat, parent : Nat, kind : Kinds, at : Nat, covers : SUBSET Nat]

LEMMA MinIs ==
  ASSUME NEW T, T \subseteq Nat, T # {}
  PROVE  Min(T) \in T /\ \A y \in T : Min(T) <= y
BY LeastExists DEF Min

LEMMA MaxIs ==
  ASSUME NEW T, NEW N \in Nat, T \subseteq 0..N, T # {}
  PROVE  Max(T) \in T /\ \A y \in T : Max(T) >= y
BY GreatestExists DEF Max

LEMMA IndexOfIs ==
  ASSUME NEW path, Len(path) \in Nat, NEW id
  PROVE  LET i == IndexOf(path, id)
         IN  /\ i \in 0..Len(path)
             /\ i = 0 => \A k \in 1..Len(path) : path[k].id # id
             /\ i > 0 => path[i].id = id /\ \A k \in 1..(i - 1) : path[k].id # id
<1> DEFINE I == {i \in 1..Len(path) : path[i].id = id}
<1>1. IndexOf(path, id) = IF I # {} THEN Min(I) ELSE 0
  BY DEF IndexOf, SelectInSeq
<1>2. I # {} => Min(I) \in I /\ \A y \in I : Min(I) <= y
  <2>1. I \subseteq Nat
    OBVIOUS
  <2> HIDE DEF I
  <2> QED BY <2>1, MinIs
<1>3. \A k \in I : k \in 1..Len(path)
  OBVIOUS
<1>4. \A k \in 1..Len(path) : k \in I <=> path[k].id = id
  OBVIOUS
<1> HIDE DEF I
<1>5. CASE I = {}
  <2>1. IndexOf(path, id) = 0 /\ \A k : k \notin I
    BY <1>1, <1>5
  <2> QED
    BY <2>1, <1>4
<1>6. CASE I # {}
  <2>1. IndexOf(path, id) \in I /\ \A y \in I : IndexOf(path, id) <= y
    BY <1>1, <1>2, <1>6
  <2> QED
    BY <2>1, <1>3, <1>4
<1> QED
  BY <1>5, <1>6

LEMMA LatestCompactionIs ==
  ASSUME NEW path, Len(path) \in Nat
  PROVE  LET c == LatestCompaction(path)
         IN  /\ c \in 0..Len(path)
             /\ c > 0 => path[c].kind = "compaction"
             /\ \A k \in (c + 1)..Len(path) : path[k].kind # "compaction"
<1> DEFINE I == {i \in 1..Len(path) : path[i].kind = "compaction"}
<1>1. LatestCompaction(path) = IF I # {} THEN Max(I) ELSE 0
  BY DEF LatestCompaction, SelectLastInSeq
<1>2. I # {} => Max(I) \in I /\ \A y \in I : Max(I) >= y
  <2>1. I \subseteq 0..Len(path)
    OBVIOUS
  <2> HIDE DEF I
  <2> QED BY <2>1, MaxIs
<1>3. \A k \in I : k \in 1..Len(path)
  OBVIOUS
<1>4. \A k \in 1..Len(path) : k \in I <=> path[k].kind = "compaction"
  OBVIOUS
<1> HIDE DEF I
<1>5. CASE I = {}
  <2>1. LatestCompaction(path) = 0 /\ \A k : k \notin I
    BY <1>1, <1>5
  <2> QED
    BY <2>1, <1>4
<1>6. CASE I # {}
  <2>1. LatestCompaction(path) \in I /\ \A y \in I : LatestCompaction(path) >= y
    BY <1>1, <1>2, <1>6
  <2> QED
    BY <2>1, <1>3, <1>4
<1> QED
  BY <1>5, <1>6

LEMMA LastMessageIs ==
  ASSUME NEW path, Len(path) \in Nat
  PROVE  LET c == LastMessage(path)
         IN  /\ c \in 0..Len(path)
             /\ c > 0 => InContext(path[c])
             /\ \A k \in (c + 1)..Len(path) : ~InContext(path[k])
<1> DEFINE I == {i \in 1..Len(path) : InContext(path[i])}
<1>1. LastMessage(path) = IF I # {} THEN Max(I) ELSE 0
  BY DEF LastMessage, SelectLastInSeq
<1>2. I # {} => Max(I) \in I /\ \A y \in I : Max(I) >= y
  <2>1. I \subseteq 0..Len(path)
    OBVIOUS
  <2> HIDE DEF I
  <2> QED BY <2>1, MaxIs
<1>3. \A k \in I : k \in 1..Len(path)
  OBVIOUS
<1>4. \A k \in 1..Len(path) : k \in I <=> InContext(path[k])
  OBVIOUS
<1> HIDE DEF I
<1>5. CASE I = {}
  <2>1. LastMessage(path) = 0 /\ \A k : k \notin I
    BY <1>1, <1>5
  <2> QED
    BY <2>1, <1>4
<1>6. CASE I # {}
  <2>1. LastMessage(path) \in I /\ \A y \in I : LastMessage(path) >= y
    BY <1>1, <1>2, <1>6
  <2> QED
    BY <2>1, <1>3, <1>4
<1> QED
  BY <1>5, <1>6

LEMMA PositionIs ==
  ASSUME NEW es, NEW n \in Nat, NEW id
  PROVE  LET i == Position(es, n, id)
         IN  /\ i \in 0..n
             /\ i > 0 => es[i].id = id
             /\ i = 0 => \A k \in 1..n : es[k].id # id
BY DEF Position

(* The recursive function in getBranch, and that it satisfies its equation. *)
IsBranchFn(es, f) ==
  f = [i \in 0..Len(es) |-> IF i = 0 THEN <<>>
                            ELSE Append(f[Position(es, i - 1, es[i].parent)], es[i])]
BranchFn(es) == CHOOSE f : IsBranchFn(es, f)

LEMMA BranchFnIs ==
  ASSUME NEW X, NEW es \in Seq(X)
  PROVE  /\ BranchFn(es) \in [0..Len(es) -> Seq(X)]
         /\ BranchFn(es)[0] = <<>>
         /\ \A i \in 1..Len(es) :
              BranchFn(es)[i] = Append(BranchFn(es)[Position(es, i - 1, es[i].parent)], es[i])
         /\ \A id : getBranch(es, id) = BranchFn(es)[Position(es, Len(es), id)]
<1> DEFINE N == Len(es)
           prev == [i \in 1..N |-> Position(es, i - 1, es[i].parent)]
           step == [x \in Seq(X) \X (1..N) |-> Append(x[1], es[x[2]])]
<1>1. N \in Nat /\ \A i \in 1..N : es[i] \in X
  OBVIOUS
<1>2. prev \in [1..N -> Nat] /\ \A i \in 1..N : prev[i] < i /\ prev[i] \in 0..N
  <2>1. ASSUME NEW i \in 1..N PROVE Position(es, i - 1, es[i].parent) \in 0..(i - 1)
    BY <1>1, PositionIs
  <2> QED
    BY <2>1, <1>1
<1>3. step \in [Seq(X) \X (1..N) -> Seq(X)]
  BY <1>1
<1>4. <<>> \in Seq(X)
  OBVIOUS
<1>5. PICK f \in [0..N -> Seq(X)] :
        f[0] = <<>> /\ \A i \in 1..N : f[i] = step[<<f[prev[i]], i>>]
  <2>1. Recursion(N, Seq(X), <<>>, prev, step)
    BY <1>1, <1>2, <1>3, <1>4 DEF Recursion
  <2> HIDE DEF prev, step, N
  <2>2. \E f : Solves(f, N, Seq(X), <<>>, prev, step)
    BY <2>1, RecursionExists
  <2> QED
    BY <2>2 DEF Solves
<1>6. ASSUME NEW i \in 1..N
      PROVE  f[i] = Append(f[Position(es, i - 1, es[i].parent)], es[i])
  <2>1. f[prev[i]] \in Seq(X)
    BY <1>2, <1>5
  <2>2. step[<<f[prev[i]], i>>] = Append(f[prev[i]], es[i])
    BY <2>1
  <2> QED
    BY <1>5, <2>2
<1>7. IsBranchFn(es, f)
  BY <1>5, <1>6 DEF IsBranchFn
<1> DEFINE B == BranchFn(es)
<1>8. IsBranchFn(es, B)
  <2>1. \E g : IsBranchFn(es, g)
    BY <1>7
  <2> QED
    BY <2>1, Zenon DEF BranchFn
<1> HIDE DEF B
<1>9. DOMAIN B = 0..N
  BY <1>8 DEF IsBranchFn
<1>10. B[0] = <<>> /\ \A i \in 1..N : B[i] = Append(B[Position(es, i - 1, es[i].parent)], es[i])
  <2>1. ASSUME NEW i \in 0..N
        PROVE  B[i] = IF i = 0 THEN <<>>
                      ELSE Append(B[Position(es, i - 1, es[i].parent)], es[i])
    BY <1>8 DEF IsBranchFn
  <2>2. 0 \in 0..N /\ \A i \in 1..N : i \in 0..N /\ i # 0
    BY <1>1
  <2>3. B[0] = <<>>
    BY <2>1, <2>2
  <2>4. ASSUME NEW i \in 1..N
        PROVE  B[i] = Append(B[Position(es, i - 1, es[i].parent)], es[i])
    BY <2>1, <2>2
  <2> QED
    BY <2>3, <2>4
<1>11. B \in [0..N -> Seq(X)]
  <2> DEFINE Typed(i) == B[i] \in Seq(X)
             S == {n \in Nat : \A i \in 0..N : i <= n => Typed(i)}
  <2>1. 0 \in S
    <3>1. Typed(0)
      BY <1>4, <1>10
    <3> HIDE DEF Typed
    <3> QED
      BY <3>1, <1>1
  <2>2. ASSUME NEW n \in Nat, n \in S PROVE n + 1 \in S
    <3> SUFFICES ASSUME n + 1 \in 1..N PROVE Typed(n + 1)
      <4> HIDE DEF Typed
      <4> QED BY <2>2, <1>1
    <3>1. prev[n + 1] \in 0..n
      BY <1>2
    <3>2. Typed(prev[n + 1])
      <4> HIDE DEF Typed
      <4> QED BY <2>2, <3>1, <1>2
    <3>3. B[n + 1] = Append(B[prev[n + 1]], es[n + 1])
      BY <1>10
    <3> QED
      BY <3>2, <3>3, <1>1
  <2>3. Nat \subseteq S
    <3> HIDE DEF S
    <3> QED BY <2>1, <2>2, SetInduction
  <2>4. ASSUME NEW i \in 0..N PROVE Typed(i)
    <3> HIDE DEF Typed
    <3>1. i \in Nat /\ i <= i
      BY <1>1
    <3>2. i \in S
      <4> HIDE DEF S
      <4> QED BY <2>3, <3>1
    <3> QED
      BY <3>1, <3>2
  <2>5. B = [i \in 0..N |-> B[i]]
    BY <1>8 DEF IsBranchFn
  <2> QED
    BY <2>4, <2>5
<1>12. \A id : getBranch(es, id) = B[Position(es, Len(es), id)]
  BY DEF getBranch, BranchFn, IsBranchFn, B
<1> QED
  BY <1>10, <1>11, <1>12 DEF B

(* The same for Picked. *)
IsPickedFn(path, keep, f) ==
  f = [i \in 0..Len(path) |-> IF i = 0 THEN <<>>
                              ELSE IF i \in keep THEN Append(f[i - 1], path[i])
                              ELSE f[i - 1]]
PickedFn(path, keep) == CHOOSE f : IsPickedFn(path, keep, f)

LEMMA PickedFnIs ==
  ASSUME NEW X, NEW path \in Seq(X), NEW keep
  PROVE  /\ PickedFn(path, keep)[0] = <<>>
         /\ \A i \in 1..Len(path) :
              PickedFn(path, keep)[i] = IF i \in keep
                                        THEN Append(PickedFn(path, keep)[i - 1], path[i])
                                        ELSE PickedFn(path, keep)[i - 1]
         /\ Picked(path, keep) = PickedFn(path, keep)[Len(path)]
<1> DEFINE N == Len(path)
           prev == [i \in 1..N |-> i - 1]
           step == [x \in Seq(X) \X (1..N) |-> IF x[2] \in keep THEN Append(x[1], path[x[2]])
                                               ELSE x[1]]
<1>1. N \in Nat /\ \A i \in 1..N : path[i] \in X
  OBVIOUS
<1>2. prev \in [1..N -> Nat] /\ \A i \in 1..N : prev[i] < i /\ prev[i] \in 0..N
  BY <1>1
<1>3. step \in [Seq(X) \X (1..N) -> Seq(X)]
  BY <1>1
<1>4. <<>> \in Seq(X)
  OBVIOUS
<1>5. PICK f \in [0..N -> Seq(X)] :
        f[0] = <<>> /\ \A i \in 1..N : f[i] = step[<<f[prev[i]], i>>]
  <2>1. Recursion(N, Seq(X), <<>>, prev, step)
    BY <1>1, <1>2, <1>3, <1>4 DEF Recursion
  <2> HIDE DEF prev, step, N
  <2>2. \E f : Solves(f, N, Seq(X), <<>>, prev, step)
    BY <2>1, RecursionExists
  <2> QED
    BY <2>2 DEF Solves
<1>6. ASSUME NEW i \in 1..N
      PROVE  f[i] = IF i \in keep THEN Append(f[i - 1], path[i]) ELSE f[i - 1]
  <2>1. f[prev[i]] \in Seq(X) /\ prev[i] = i - 1
    BY <1>2, <1>5
  <2> DEFINE v == f[i - 1]
  <2>2. v \in Seq(X) /\ f[i] = step[<<v, i>>]
    BY <1>5, <2>1
  <2> HIDE DEF v
  <2>3. step[<<v, i>>] = IF i \in keep THEN Append(v, path[i]) ELSE v
    BY <2>2
  <2> HIDE DEF step
  <2>4. f[i] = IF i \in keep THEN Append(v, path[i]) ELSE v
    BY <2>2, <2>3
  <2> QED
    BY <2>4 DEF v
<1>7. IsPickedFn(path, keep, f)
  <2>1. f[0] = <<>> /\ f \in [0..N -> Seq(X)]
    BY <1>5
  <2>2. ASSUME NEW i \in 0..N
        PROVE  f[i] = IF i = 0 THEN <<>>
                      ELSE IF i \in keep THEN Append(f[i - 1], path[i]) ELSE f[i - 1]
    <3>1. CASE i = 0
      BY <2>1, <3>1
    <3>2. CASE i # 0
      <4>1. i \in 1..N
        BY <3>2, <1>1
      <4> QED
        BY <4>1, <3>2, <1>6
    <3> QED
      BY <3>1, <3>2
  <2> QED
    BY <2>1, <2>2 DEF IsPickedFn
<1> DEFINE B == PickedFn(path, keep)
<1>8. IsPickedFn(path, keep, B)
  <2>1. \E g : IsPickedFn(path, keep, g)
    BY <1>7
  <2> QED
    BY <2>1, Zenon DEF PickedFn
<1> HIDE DEF B
<1>9. ASSUME NEW i \in 0..N
      PROVE  B[i] = IF i = 0 THEN <<>>
                    ELSE IF i \in keep THEN Append(B[i - 1], path[i]) ELSE B[i - 1]
  BY <1>8 DEF IsPickedFn
<1>10. 0 \in 0..N /\ \A i \in 1..N : i \in 0..N /\ i # 0
  BY <1>1
<1>11. B[0] = <<>>
  BY <1>9, <1>10
<1>12. ASSUME NEW i \in 1..N
       PROVE  B[i] = IF i \in keep THEN Append(B[i - 1], path[i]) ELSE B[i - 1]
  BY <1>9, <1>10
<1>13. Picked(path, keep) = B[Len(path)]
  BY DEF Picked, PickedFn, IsPickedFn, B
<1> QED
  BY <1>11, <1>12, <1>13 DEF B

(* r is what stands at the positions in keep among the first n, in order: pos
   says where each came from. *)
Selection(r, pos, path, keep, n) ==
  /\ pos \in [1..Len(r) -> 1..n]
  /\ \A i \in 1..Len(r) : pos[i] \in keep /\ r[i] = path[pos[i]]
  /\ \A i, j \in 1..Len(r) : i < j => pos[i] < pos[j]
  /\ \A k \in 1..n : k \in keep => \E i \in 1..Len(r) : pos[i] = k

LEMMA PickedIs ==
  ASSUME NEW X, NEW path \in Seq(X), NEW keep
  PROVE  /\ Picked(path, keep) \in Seq(X)
         /\ \E pos : Selection(Picked(path, keep), pos, path, keep, Len(path))
<1> DEFINE N == Len(path)
           B == PickedFn(path, keep)
           Ok(n) == B[n] \in Seq(X) /\ \E pos : Selection(B[n], pos, path, keep, n)
           S == {n \in Nat : n <= N => Ok(n)}
<1>1. N \in Nat /\ \A i \in 1..N : path[i] \in X
  OBVIOUS
<1>2. B[0] = <<>>
  BY PickedFnIs
<1>3. ASSUME NEW i \in 1..N
      PROVE  B[i] = IF i \in keep THEN Append(B[i - 1], path[i]) ELSE B[i - 1]
  BY PickedFnIs
<1> HIDE DEF B
<1>4. Ok(0)
  <2> DEFINE pos == [i \in 1..0 |-> i]
  <2>1. Selection(<<>>, pos, path, keep, 0)
    BY DEF Selection
  <2> QED
    BY <2>1, <1>2
<1>5. ASSUME NEW n \in Nat, n + 1 <= N, Ok(n)
      PROVE  Ok(n + 1)
  <2>1. n + 1 \in 1..N /\ (n + 1) - 1 = n /\ path[n + 1] \in X
    BY <1>5, <1>1
  <2> DEFINE r == B[n]
  <2>2. PICK pos : Selection(r, pos, path, keep, n)
    BY <1>5
  <2>3. r \in Seq(X)
    BY <1>5
  <2> HIDE DEF r
  <2>4. CASE n + 1 \in keep
    <3> DEFINE q == [i \in 1..(Len(r) + 1) |-> IF i = Len(r) + 1 THEN n + 1 ELSE pos[i]]
               s == Append(r, path[n + 1])
    <3>1. B[n + 1] = s
      BY <1>3, <2>1, <2>4 DEF r
    <3>2. /\ s \in Seq(X) /\ Len(s) = Len(r) + 1 /\ s[Len(r) + 1] = path[n + 1]
          /\ \A i \in 1..Len(r) : s[i] = r[i]
      BY <2>1, <2>3
    <3>3. Selection(s, q, path, keep, n + 1)
      <4> HIDE DEF s
      <4>1. Len(r) \in Nat
        BY <2>3
      <4>2. q \in [1..Len(s) -> 1..(n + 1)]
        BY <2>2, <3>2, <4>1 DEF Selection
      <4>3. \A i \in 1..Len(s) : q[i] \in keep /\ s[i] = path[q[i]]
        BY <2>2, <2>4, <3>2, <4>1 DEF Selection
      <4>4. ASSUME NEW i \in 1..Len(s), NEW j \in 1..Len(s), i < j
            PROVE  q[i] < q[j]
        <5>1. i \in 1..Len(r) /\ q[i] = pos[i] /\ pos[i] \in 1..n
          BY <2>2, <3>2, <4>1, <4>4, SMTT(30) DEF Selection
        <5>2. CASE j = Len(r) + 1
          <6>1. q[j] = n + 1
            BY <5>2, <3>2, <4>1
          <6> QED
            BY <5>1, <6>1
        <5>3. CASE j # Len(r) + 1
          <6>1. j \in 1..Len(r) /\ q[j] = pos[j]
            BY <5>3, <3>2, <4>1
          <6> QED
            BY <5>1, <6>1, <2>2, <4>4 DEF Selection
        <5> QED
          BY <5>2, <5>3
      <4>5. ASSUME NEW k \in 1..(n + 1), k \in keep
            PROVE  \E i \in 1..Len(s) : q[i] = k
        <5>1. CASE k = n + 1
          BY <5>1, <3>2, <4>1
        <5>2. CASE k # n + 1
          <6>1. PICK i \in 1..Len(r) : pos[i] = k
            BY <5>2, <4>5, <2>2 DEF Selection
          <6> QED
            BY <6>1, <3>2, <4>1
        <5> QED
          BY <5>1, <5>2
      <4> QED
        BY <4>2, <4>3, <4>4, <4>5 DEF Selection
    <3> QED
      BY <3>1, <3>2, <3>3
  <2>5. CASE n + 1 \notin keep
    <3>1. B[n + 1] = r
      BY <1>3, <2>1, <2>5 DEF r
    <3>2. Selection(r, pos, path, keep, n + 1)
      BY <2>2, <2>5 DEF Selection
    <3> QED
      BY <3>1, <3>2, <2>3
  <2> QED
    BY <2>4, <2>5
<1>6. 0 \in S /\ \A n \in Nat : n \in S => n + 1 \in S
  <2> HIDE DEF Ok
  <2> QED BY <1>4, <1>5, <1>1
<1>7. Nat \subseteq S
  <2> HIDE DEF S
  <2> QED BY <1>6, SetInduction
<1>8. Ok(N)
  <2> HIDE DEF Ok
  <2> QED BY <1>7, <1>1
<1> QED
  BY <1>8, PickedFnIs DEF B

-----------------------------------------------------------------------------
(* Paths in a tree.  Ids are given out in order, and the parent of an entry is an
   older one; whether it is there is another matter, a torn line may have been it. *)
Tree(es) ==
  /\ es \in Seq(EntrySet)
  /\ \A i, j \in 1..Len(es) : i < j => es[i].id < es[j].id
  /\ \A i \in 1..Len(es) : es[i].parent < es[i].id

Listed(es, id) == \E i \in 1..Len(es) : es[i].id = id

LEMMA IdsAre ==
  ASSUME NEW X, NEW es \in Seq(X), NEW id
  PROVE  id \in Ids(es) <=> Listed(es, id)
BY DEF Ids, Range, Listed

\* A path is a sequence of entries; of an id that is not there it is empty.
LEMMA BranchType ==
  ASSUME NEW X, NEW es \in Seq(X), NEW id
  PROVE  /\ getBranch(es, id) \in Seq(X)
         /\ ~Listed(es, id) => getBranch(es, id) = <<>>
<1>1. Len(es) \in Nat
  OBVIOUS
<1>2. Position(es, Len(es), id) \in 0..Len(es)
  BY <1>1, PositionIs
<1>3. Position(es, Len(es), id) > 0 => es[Position(es, Len(es), id)].id = id
  BY <1>1, PositionIs
<1>4. getBranch(es, id) = BranchFn(es)[Position(es, Len(es), id)]
  BY BranchFnIs
<1>5. BranchFn(es) \in [0..Len(es) -> Seq(X)] /\ BranchFn(es)[0] = <<>>
  BY BranchFnIs
<1>6. ~Listed(es, id) => Position(es, Len(es), id) = 0
  BY <1>1, <1>2, <1>3 DEF Listed
<1> QED
  BY <1>2, <1>4, <1>5, <1>6

LEMMA EntryType ==
  ASSUME NEW e, e \in EntrySet
  PROVE  /\ e.id \in Nat /\ e.parent \in Nat /\ e.at \in Nat
         /\ e.covers \in SUBSET Nat /\ e.kind \in Kinds
BY DEF EntrySet

LEMMA TreeIds ==
  ASSUME NEW es, Tree(es)
  PROVE  /\ Len(es) \in Nat /\ es \in Seq(EntrySet)
         /\ \A i \in 1..Len(es) : /\ es[i] \in EntrySet
                                  /\ es[i].id \in Nat /\ es[i].parent \in Nat /\ es[i].id # 0
                                  /\ es[i].at \in Nat /\ es[i].covers \in SUBSET Nat
                                  /\ es[i].kind \in Kinds
         /\ \A i, j \in 1..Len(es) : es[i].id = es[j].id => i = j
         /\ \A i, j \in 1..Len(es) : es[j].id = es[i].parent => j < i
<1>1. Len(es) \in Nat /\ es \in Seq(EntrySet)
  BY DEF Tree
<1>2. \A i \in 1..Len(es) : /\ es[i] \in EntrySet
                            /\ es[i].id \in Nat /\ es[i].parent \in Nat
                            /\ es[i].at \in Nat /\ es[i].covers \in SUBSET Nat
                            /\ es[i].kind \in Kinds
  <2> TAKE i \in 1..Len(es)
  <2>1. es[i] \in EntrySet
    BY <1>1
  <2> QED
    BY <2>1, EntryType
<1>3. ASSUME NEW i \in 1..Len(es), NEW j \in 1..Len(es), es[i].id = es[j].id PROVE i = j
  <2>1. ~(i < j) /\ ~(j < i)
    BY <1>2, <1>3 DEF Tree
  <2> QED
    BY <2>1
<1>4. ASSUME NEW i \in 1..Len(es), NEW j \in 1..Len(es), es[j].id = es[i].parent PROVE j < i
  <2>1. es[j].id < es[i].id
    BY <1>4 DEF Tree
  <2>2. ~(i < j) /\ i # j
    BY <2>1, <1>2 DEF Tree
  <2> QED
    BY <2>2
<1>5. \A i \in 1..Len(es) : es[i].id # 0
  BY <1>2 DEF Tree
<1> QED
  BY <1>1, <1>2, <1>3, <1>4, <1>5

LEMMA PositionOfEntry ==
  ASSUME NEW es, Tree(es), NEW n \in 0..Len(es), NEW k \in 1..n
  PROVE  Position(es, n, es[k].id) = k
<1>1. Len(es) \in Nat /\ n \in Nat /\ k \in 1..Len(es)
  BY TreeIds
<1>2. /\ Position(es, n, es[k].id) \in 0..n
      /\ Position(es, n, es[k].id) > 0 => es[Position(es, n, es[k].id)].id = es[k].id
      /\ Position(es, n, es[k].id) = 0 => \A j \in 1..n : es[j].id # es[k].id
  BY <1>1, PositionIs
<1> QED
  BY <1>1, <1>2, TreeIds

\* The path to an entry is the path to its parent and the entry.
LEMMA BranchOfEntry ==
  ASSUME NEW es, Tree(es), NEW i \in 1..Len(es)
  PROVE  getBranch(es, es[i].id) = Append(getBranch(es, es[i].parent), es[i])
<1>1. Len(es) \in Nat /\ es \in Seq(EntrySet)
  BY DEF Tree
<1>2. Position(es, Len(es), es[i].id) = i
  BY <1>1, PositionOfEntry
<1>3. Position(es, i - 1, es[i].parent) = Position(es, Len(es), es[i].parent)
  <2> DEFINE up == es[i].parent
  <2>1. /\ Position(es, i - 1, up) \in 0..(i - 1) /\ Position(es, Len(es), up) \in 0..Len(es)
        /\ Position(es, Len(es), up) > 0 => es[Position(es, Len(es), up)].id = up
    BY <1>1, PositionIs
  <2>2. Position(es, i - 1, up) > 0 => es[Position(es, i - 1, up)].id = up
    BY <1>1, PositionIs
  <2>3. CASE \E j \in 1..Len(es) : es[j].id = up
    <3>1. PICK j \in 1..Len(es) : es[j].id = up
      BY <2>3
    <3>2. j \in 1..(i - 1)
      BY <3>1, TreeIds
    <3>3. Position(es, i - 1, es[j].id) = j /\ Position(es, Len(es), es[j].id) = j
      BY <1>1, <3>2, PositionOfEntry
    <3> QED
      BY <3>1, <3>3
  <2>4. CASE ~ \E j \in 1..Len(es) : es[j].id = up
    BY <2>1, <2>2, <2>4, <1>1
  <2> QED
    BY <2>3, <2>4
<1>4. /\ getBranch(es, es[i].id) = BranchFn(es)[i]
      /\ getBranch(es, es[i].parent) = BranchFn(es)[Position(es, i - 1, es[i].parent)]
  BY <1>1, <1>2, <1>3, BranchFnIs
<1> QED
  BY <1>1, <1>4, BranchFnIs

\* A sequence that goes on with further entries has the same paths to the old.
Extends(fs, es) ==
  /\ Len(es) <= Len(fs)
  /\ \A k \in 1..Len(es) : fs[k] = es[k]

LEMMA BranchStays ==
  ASSUME NEW es, Tree(es), NEW fs, Tree(fs), Extends(fs, es), NEW id, Listed(es, id)
  PROVE  getBranch(fs, id) = getBranch(es, id)
<1> DEFINE N == Len(es)
           S == {i \in 1..N : getBranch(fs, es[i].id) = getBranch(es, es[i].id)}
<1>1. N \in Nat /\ Len(fs) \in Nat /\ N <= Len(fs) /\ \A k \in 1..N : fs[k] = es[k]
  BY DEF Tree, Extends
<1>2. ASSUME NEW i \in 1..N, \A j \in 1..(i - 1) : j \in S PROVE i \in S
  <2>1. fs[i] = es[i] /\ i \in 1..Len(fs)
    BY <1>1
  <2>2. getBranch(fs, es[i].id) = Append(getBranch(fs, es[i].parent), es[i])
    BY <2>1, BranchOfEntry
  <2>3. getBranch(es, es[i].id) = Append(getBranch(es, es[i].parent), es[i])
    BY BranchOfEntry
  <2>4. getBranch(fs, es[i].parent) = getBranch(es, es[i].parent)
    <3>1. CASE Listed(es, es[i].parent)
      <4>1. PICK j \in 1..N : es[j].id = es[i].parent
        BY <3>1 DEF Listed
      <4>2. j \in 1..(i - 1)
        BY <4>1, TreeIds
      <4> QED
        BY <4>1, <4>2, <1>2
    <3>2. CASE ~Listed(es, es[i].parent)
      <4>1. ~Listed(fs, es[i].parent)
        <5> SUFFICES ASSUME NEW j \in 1..Len(fs), fs[j].id = fs[i].parent PROVE FALSE
          BY <2>1 DEF Listed
        <5>1. j < i
          BY <2>1, TreeIds
        <5>2. es[j].id = es[i].parent /\ j \in 1..N
          BY <5>1, <1>1, <2>1
        <5> QED
          BY <5>2, <3>2 DEF Listed
      <4>2. getBranch(es, es[i].parent) = <<>> /\ getBranch(fs, es[i].parent) = <<>>
        BY <3>2, <4>1, BranchType, TreeIds
      <4> QED
        BY <4>2
    <3> QED
      BY <3>1, <3>2
  <2> QED
    BY <2>2, <2>3, <2>4
<1>3. \A i \in 1..N : i \in S
  <2> HIDE DEF S, N
  <2> QED BY <1>1, <1>2, StrongInduction
<1> QED
  BY <1>3 DEF Listed

\* On a path the part up to an entry is the path to that entry; its entries are
\* entries of the tree, older ones first.
PathIn(es, p) ==
  /\ p \in Seq(EntrySet)
  /\ \A k \in 1..Len(p) : /\ \E i \in 1..Len(es) : p[k] = es[i]
                          /\ getBranch(es, p[k].id) = SubSeq(p, 1, k)
  /\ \A j, k \in 1..Len(p) : j < k => p[j].id < p[k].id

LEMMA AppendToPath ==
  ASSUME NEW es, Tree(es), NEW q, PathIn(es, q), NEW i \in 1..Len(es),
         getBranch(es, es[i].id) = Append(q, es[i]),
         \A k \in 1..Len(q) : q[k].id < es[i].id
  PROVE  PathIn(es, Append(q, es[i]))
<1> DEFINE p == Append(q, es[i])
<1>1. es[i] \in EntrySet /\ q \in Seq(EntrySet)
  BY TreeIds DEF PathIn
<1>2. /\ Len(p) = Len(q) + 1 /\ Len(q) \in Nat /\ p[Len(q) + 1] = es[i] /\ p \in Seq(EntrySet)
      /\ SubSeq(p, 1, Len(p)) = p
  BY <1>1
<1>3. ASSUME NEW k \in 1..Len(q)
      PROVE  p[k] = q[k] /\ SubSeq(p, 1, k) = SubSeq(q, 1, k)
  BY <1>1, <1>2
<1>4. getBranch(es, es[i].id) = p
  OBVIOUS
<1> HIDE DEF p
<1>5. \A k \in 1..Len(p) : k \in 1..Len(q) \/ k = Len(q) + 1
  BY <1>2
<1>6. ASSUME NEW k \in 1..Len(p)
      PROVE  (\E x \in 1..Len(es) : p[k] = es[x]) /\ getBranch(es, p[k].id) = SubSeq(p, 1, k)
  <2>1. CASE k \in 1..Len(q)
    BY <2>1, <1>3 DEF PathIn
  <2>2. CASE k = Len(q) + 1
    BY <2>2, <1>2, <1>4
  <2> QED
    BY <2>1, <2>2, <1>5
<1>7. ASSUME NEW j \in 1..Len(p), NEW k \in 1..Len(p), j < k PROVE p[j].id < p[k].id
  <2>1. j \in 1..Len(q) /\ p[j] = q[j]
    BY <1>2, <1>3, <1>7
  <2>2. CASE k \in 1..Len(q)
    BY <2>1, <2>2, <1>3, <1>7 DEF PathIn
  <2>3. CASE k = Len(q) + 1
    BY <2>1, <2>3, <1>2
  <2> QED
    BY <2>2, <2>3, <1>5
<1> QED
  BY <1>2, <1>6, <1>7 DEF PathIn, p

LEMMA PathIsPathIn ==
  ASSUME NEW es, Tree(es), NEW id
  PROVE  PathIn(es, getBranch(es, id))
<1> DEFINE Ok(i) == LET p == getBranch(es, es[i].id)
                    IN  PathIn(es, p) /\ \A k \in 1..Len(p) : p[k].id <= es[i].id
           S == {i \in 1..Len(es) : Ok(i)}
<1>1. Len(es) \in Nat /\ es \in Seq(EntrySet)
  BY TreeIds
<1>2. PathIn(es, <<>>)
  BY DEF PathIn
<1>3. ASSUME NEW i \in 1..Len(es), \A j \in 1..(i - 1) : Ok(j) PROVE Ok(i)
  <2> DEFINE q == getBranch(es, es[i].parent)
  <2>1. getBranch(es, es[i].id) = Append(q, es[i])
    BY BranchOfEntry
  <2>2. PathIn(es, q) /\ \A k \in 1..Len(q) : q[k].id < es[i].id
    <3>1. CASE Listed(es, es[i].parent)
      <4>1. PICK j \in 1..Len(es) : es[j].id = es[i].parent
        BY <3>1 DEF Listed
      <4>2. j \in 1..(i - 1) /\ es[j].id < es[i].id
        BY <4>1, TreeIds DEF Tree
      <4>3. PathIn(es, q) /\ \A k \in 1..Len(q) : q[k].id <= es[j].id
        BY <4>1, <4>2, <1>3
      <4>4. \A k \in 1..Len(q) : q[k].id \in Nat
        <5> HIDE DEF q
        <5> QED BY <4>3, EntryType DEF PathIn
      <4>5. es[j].id \in Nat /\ es[i].id \in Nat
        BY TreeIds
      <4> HIDE DEF q
      <4> QED
        BY <4>2, <4>3, <4>4, <4>5
    <3>2. CASE ~Listed(es, es[i].parent)
      <4>1. q = <<>>
        BY <3>2, <1>1, BranchType
      <4> QED
        BY <4>1, <1>2
    <3> QED
      BY <3>1, <3>2
  <2> HIDE DEF q
  <2>3. PathIn(es, Append(q, es[i]))
    BY <2>1, <2>2, AppendToPath
  <2>4. ASSUME NEW k \in 1..Len(Append(q, es[i])) PROVE Append(q, es[i])[k].id <= es[i].id
    <3>1. q \in Seq(EntrySet) /\ es[i].id \in Nat
      BY <2>2, TreeIds DEF PathIn
    <3>2. CASE k \in 1..Len(q)
      <4>1. Append(q, es[i])[k] = q[k] /\ q[k].id \in Nat
        BY <3>1, <3>2, EntryType
      <4> QED
        BY <4>1, <3>1, <3>2, <2>2
    <3>3. CASE k = Len(q) + 1
      BY <3>1, <3>3
    <3>4. k \in 1..Len(q) \/ k = Len(q) + 1
      BY <3>1
    <3> QED
      BY <3>2, <3>3, <3>4
  <2> QED
    BY <2>1, <2>3, <2>4
<1>4. \A i \in 1..Len(es) : i \in S
  <2>1. \A i \in 1..Len(es) : (\A j \in 1..(i - 1) : j \in S) => i \in S
    <3> HIDE DEF Ok
    <3> QED BY <1>3, <1>1
  <2> HIDE DEF S
  <2> QED BY <1>1, <2>1, StrongInduction
<1>5. CASE Listed(es, id)
  BY <1>4, <1>5 DEF Listed
<1>6. CASE ~Listed(es, id)
  BY <1>1, <1>2, <1>6, BranchType
<1> QED
  BY <1>5, <1>6

\* The path to an entry ends with it.
LEMMA PathEnds ==
  ASSUME NEW es, Tree(es), NEW i \in 1..Len(es)
  PROVE  LET p == getBranch(es, es[i].id)
         IN  Len(p) \in Nat /\ Len(p) > 0 /\ p[Len(p)] = es[i]
<1>1. getBranch(es, es[i].id) = Append(getBranch(es, es[i].parent), es[i])
  BY BranchOfEntry
<1>2. getBranch(es, es[i].parent) \in Seq(EntrySet) /\ es[i] \in EntrySet
  BY BranchType, TreeIds
<1> QED
  BY <1>1, <1>2

\* Of a session that is a single chain the paths are the beginnings.
LEMMA ChainPaths ==
  ASSUME NEW es, Tree(es),
         \A i \in 1..Len(es) : es[i].parent = IF i = 1 THEN 0 ELSE es[i - 1].id,
         NEW n \in 1..Len(es)
  PROVE  getBranch(es, es[n].id) = SubSeq(es, 1, n)
<1> DEFINE S == {i \in 1..Len(es) : getBranch(es, es[i].id) = SubSeq(es, 1, i)}
<1>1. Len(es) \in Nat /\ es \in Seq(EntrySet)
  BY TreeIds
<1>2. ASSUME NEW i \in 1..Len(es), \A j \in 1..(i - 1) : j \in S PROVE i \in S
  <2>1. getBranch(es, es[i].id) = Append(getBranch(es, es[i].parent), es[i])
    BY BranchOfEntry
  <2>2. CASE i = 1
    <3>1. es[i].parent = 0 /\ ~Listed(es, 0)
      BY <2>2, TreeIds DEF Listed
    <3>2. getBranch(es, es[i].parent) = <<>>
      BY <3>1, <1>1, BranchType
    <3>3. Append(<<>>, es[i]) = SubSeq(es, 1, i)
      BY <2>2, <1>1
    <3> QED
      BY <2>1, <3>2, <3>3
  <2>3. CASE i # 1
    <3>1. es[i].parent = es[i - 1].id /\ i - 1 \in 1..(i - 1)
      BY <2>3
    <3>2. getBranch(es, es[i].parent) = SubSeq(es, 1, i - 1)
      BY <3>1, <1>2
    <3>3. Append(SubSeq(es, 1, i - 1), es[i]) = SubSeq(es, 1, i)
      BY <2>3, <1>1
    <3> QED
      BY <2>1, <3>2, <3>3
  <2> QED
    BY <2>2, <2>3
<1>3. \A i \in 1..Len(es) : i \in S
  <2> HIDE DEF S
  <2> QED BY <1>1, <1>2, StrongInduction
<1> QED
  BY <1>3

(* A fork has the entries of the path that are no labels, with new parents. *)
IsLabel(e) == e.kind \in {"label", "unlabel"}
SameEntry(d, e) == d.id = e.id /\ d.kind = e.kind /\ d.at = e.at /\ d.covers = e.covers

Chain(es) == \A i \in 1..Len(es) : es[i].parent = IF i = 1 THEN 0 ELSE es[i - 1].id

\* w has what stands on the path p without the labels; pos says where.
Forked(w, pos, p) ==
  /\ pos \in [1..Len(w) -> 1..Len(p)]
  /\ \A i \in 1..Len(w) : SameEntry(w[i], p[pos[i]]) /\ ~IsLabel(w[i])
  /\ \A i, j \in 1..Len(w) : i < j => pos[i] < pos[j]
  /\ \A k \in 1..Len(p) : ~IsLabel(p[k]) => \E i \in 1..Len(w) : pos[i] = k

LEMMA Rechained ==
  ASSUME NEW e \in EntrySet, NEW x \in Nat
  PROVE  LET d == [e EXCEPT !.parent = x]
         IN  d \in EntrySet /\ d.parent = x /\ SameEntry(d, e)
BY DEF EntrySet, SameEntry

LEMMA WithoutLabels ==
  ASSUME NEW p \in Seq(EntrySet), \A k \in 1..Len(p) : p[k].id # 0,
         \A j, k \in 1..Len(p) : j < k => p[j].id < p[k].id
  PROVE  LET w == pathWithoutLabels(p)
         IN  Tree(w) /\ Chain(w) /\ \E pos : Forked(w, pos, p)
<1> DEFINE keep == {i \in DOMAIN p : p[i].kind \notin {"label", "unlabel"}}
           r == Picked(p, keep)
           w == pathWithoutLabels(p)
<1>1. PICK pos : Selection(r, pos, p, keep, Len(p))
  BY PickedIs
<1>2. r \in Seq(EntrySet) /\ Len(r) \in Nat /\ DOMAIN r = 1..Len(r)
  BY PickedIs
<1>3. \A k \in 1..Len(p) : k \in keep <=> ~IsLabel(p[k])
  BY DEF IsLabel
<1>4. w = [i \in DOMAIN r |-> [r[i] EXCEPT !.parent = IF i = 1 THEN 0 ELSE r[i - 1].id]]
  BY DEF pathWithoutLabels
<1> HIDE DEF r, w, keep
<1>5. ASSUME NEW i \in 1..Len(r) PROVE (IF i = 1 THEN 0 ELSE r[i - 1].id) \in Nat
  <2>1. i # 1 => r[i - 1] \in EntrySet
    BY <1>2
  <2> QED
    BY <2>1, EntryType
<1>6. ASSUME NEW i \in 1..Len(r)
      PROVE  /\ w[i] \in EntrySet /\ w[i].parent = (IF i = 1 THEN 0 ELSE r[i - 1].id)
             /\ SameEntry(w[i], r[i])
  <2> DEFINE x == IF i = 1 THEN 0 ELSE r[i - 1].id
  <2>1. x \in Nat /\ r[i] \in EntrySet
    BY <1>2, <1>5
  <2>2. w[i] = [r[i] EXCEPT !.parent = x]
    BY <1>2, <1>4
  <2> HIDE DEF x
  <2>3. w[i] \in EntrySet /\ w[i].parent = x /\ SameEntry(w[i], r[i])
    BY <2>1, <2>2, Rechained
  <2> QED
    BY <2>3 DEF x
<1>7. w \in Seq(EntrySet) /\ Len(w) = Len(r)
  <2>1. w = [i \in 1..Len(r) |-> w[i]]
    BY <1>2, <1>4
  <2> QED
    BY <2>1, <1>2, <1>6
<1>8. ASSUME NEW i \in 1..Len(w)
      PROVE  /\ pos[i] \in 1..Len(p) /\ SameEntry(w[i], p[pos[i]]) /\ ~IsLabel(w[i])
             /\ w[i].id = p[pos[i]].id
  <2>1. i \in 1..Len(r) /\ pos[i] \in 1..Len(p) /\ pos[i] \in keep /\ r[i] = p[pos[i]]
    BY <1>1, <1>7 DEF Selection
  <2> QED
    BY <2>1, <1>3, <1>6 DEF SameEntry, IsLabel
<1>9. \A i, j \in 1..Len(w) : i < j => pos[i] < pos[j]
  BY <1>1, <1>7 DEF Selection
<1>10. \A i, j \in 1..Len(w) : i < j => w[i].id < w[j].id
  BY <1>8, <1>9
<1>11. Chain(w)
  <2> SUFFICES ASSUME NEW i \in 1..Len(w)
               PROVE  w[i].parent = IF i = 1 THEN 0 ELSE w[i - 1].id
    BY DEF Chain
  <2>1. w[i].parent = (IF i = 1 THEN 0 ELSE r[i - 1].id) /\ (i # 1 => i - 1 \in 1..Len(r))
    BY <1>2, <1>6, <1>7
  <2>2. i # 1 => w[i - 1].id = r[i - 1].id
    BY <2>1, <1>6 DEF SameEntry
  <2> QED
    BY <2>1, <2>2
<1>12. Tree(w)
  <2>1. ASSUME NEW i \in 1..Len(w) PROVE w[i].parent < w[i].id
    <3>1. CASE i = 1
      <4>1. w[i].parent = 0 /\ w[i].id \in Nat
        BY <3>1, <1>7, <1>11, EntryType DEF Chain
      <4>2. w[i].id # 0
        BY <1>8
      <4> QED
        BY <4>1, <4>2
    <3>2. CASE i # 1
      <4>1. i - 1 \in 1..Len(w) /\ w[i].parent = w[i - 1].id
        BY <3>2, <1>7, <1>2, <1>11 DEF Chain
      <4> QED
        BY <4>1, <1>10
    <3> QED
      BY <3>1, <3>2
  <2> QED
    BY <2>1, <1>7, <1>10 DEF Tree
<1>13. Forked(w, pos, p)
  <2>1. \A k \in 1..Len(p) : ~IsLabel(p[k]) => \E i \in 1..Len(w) : pos[i] = k
    BY <1>1, <1>3, <1>7 DEF Selection
  <2>2. pos \in [1..Len(w) -> 1..Len(p)]
    BY <1>1, <1>7 DEF Selection
  <2> QED
    BY <2>1, <2>2, <1>8, <1>9 DEF Forked
<1> QED
  BY <1>11, <1>12, <1>13 DEF w

LEMMA NatSeq ==
  ASSUME NEW T \in SUBSET Nat, NEW s \in Seq(T)
  PROVE  s \in Seq(Nat)
<1>1. \A i \in 1..Len(s) : s[i] \in T
  OBVIOUS
<1>2. \A i \in 1..Len(s) : s[i] \in Nat
  BY <1>1
<1> QED
  BY <1>2

LEMMA SetToSeqIs ==
  ASSUME NEW S \in SUBSET Nat, IsFiniteSet(S)
  PROVE  SetToSeq(S) \in Seq(S)
<1>1. Cardinality(S) \in Nat /\ ExistsBijection(1..Cardinality(S), S)
  BY FS_CardinalityType
<1>2. \E f : f \in [1..Cardinality(S) -> S] /\ IsInjective(f)
  BY <1>1 DEF ExistsBijection, Bijection, Injection
<1>3. SetToSeq(S) \in [1..Cardinality(S) -> S]
  BY <1>2, Zenon DEF SetToSeq
<1> QED
  BY <1>1, <1>3

\* Ids given out so far.
Older(es, n) == \A i \in 1..Len(es) : es[i].id < n

LEMMA EntryIs ==
  ASSUME NEW id \in Nat, NEW parent \in Nat, NEW kind \in Kinds, NEW at \in Nat,
         NEW covers \in SUBSET Nat
  PROVE  LET e == Entry(id, parent, kind, at, covers)
         IN  /\ e \in EntrySet
             /\ e.id = id /\ e.parent = parent /\ e.kind = kind /\ e.at = at
             /\ e.covers = covers
BY DEF Entry, EntrySet

\* A new entry keeps the tree a tree.
LEMMA TreeGrows ==
  ASSUME NEW es, Tree(es), NEW n \in Nat, Older(es, n), NEW e \in EntrySet,
         e.id = n, e.parent < n
  PROVE  /\ Tree(Append(es, e)) /\ Older(Append(es, e), n + 1)
         /\ Extends(Append(es, e), es)
         /\ Len(Append(es, e)) = Len(es) + 1 /\ Append(es, e)[Len(es) + 1] = e
<1> DEFINE fs == Append(es, e)
<1>1. Len(es) \in Nat /\ es \in Seq(EntrySet) /\ \A i \in 1..Len(es) : es[i].id \in Nat
  BY TreeIds
<1>2. /\ fs \in Seq(EntrySet) /\ Len(fs) = Len(es) + 1 /\ fs[Len(es) + 1] = e
      /\ \A i \in 1..Len(es) : fs[i] = es[i]
  BY <1>1
<1> HIDE DEF fs
<1>3. \A i \in 1..Len(fs) : i \in 1..Len(es) \/ i = Len(es) + 1
  BY <1>1, <1>2
<1>4. ASSUME NEW i \in 1..Len(fs), NEW j \in 1..Len(fs), i < j PROVE fs[i].id < fs[j].id
  <2>1. i \in 1..Len(es)
    BY <1>1, <1>2, <1>4
  <2>2. CASE j \in 1..Len(es)
    BY <2>1, <2>2, <1>2, <1>4 DEF Tree
  <2>3. CASE j = Len(es) + 1
    BY <2>1, <2>3, <1>2 DEF Older
  <2> QED
    BY <2>2, <2>3, <1>3
<1>5. ASSUME NEW i \in 1..Len(fs) PROVE fs[i].parent < fs[i].id /\ fs[i].id < n + 1
  <2>1. CASE i \in 1..Len(es)
    BY <2>1, <1>1, <1>2 DEF Tree, Older
  <2>2. CASE i = Len(es) + 1
    BY <2>2, <1>2
  <2> QED
    BY <2>1, <2>2, <1>3
<1>6. Tree(fs)
  BY <1>2, <1>4, <1>5 DEF Tree
<1>7. Older(fs, n + 1)
  BY <1>5 DEF Older
<1>8. Extends(fs, es)
  BY <1>1, <1>2 DEF Extends
<1> QED
  BY <1>2, <1>6, <1>7, <1>8 DEF fs

\* So does dropping the entries after the first n.
LEMMA TreePrefix ==
  ASSUME NEW es, Tree(es), NEW n \in 0..Len(es), NEW m, Older(es, m)
  PROVE  LET fs == SubSeq(es, 1, n)
         IN  /\ Tree(fs) /\ Older(fs, m) /\ Extends(es, fs) /\ Len(fs) = n
             /\ \A i \in 1..n : fs[i] = es[i]
<1> DEFINE fs == SubSeq(es, 1, n)
<1>1. Len(es) \in Nat /\ es \in Seq(EntrySet)
  BY TreeIds
<1>2. fs \in Seq(EntrySet) /\ Len(fs) = n /\ n \in Nat /\ n <= Len(es) /\ \A i \in 1..n : fs[i] = es[i]
  BY <1>1
<1> HIDE DEF fs
<1>3. Tree(fs)
  BY <1>1, <1>2, SMTT(30) DEF Tree
<1>4. Older(fs, m)
  BY <1>1, <1>2 DEF Older
<1>5. Extends(es, fs)
  BY <1>1, <1>2 DEF Extends
<1> QED
  BY <1>2, <1>3, <1>4, <1>5 DEF fs

LEMMA FilteredPath ==
  ASSUME NEW es, Tree(es), NEW id, NEW n, Older(es, n)
  PROVE  LET p == getBranch(es, id)
             w == pathWithoutLabels(p)
         IN  /\ PathIn(es, p) /\ Tree(w) /\ Chain(w) /\ Older(w, n)
             /\ \E pos : Forked(w, pos, p)
<1> DEFINE p == getBranch(es, id)
           w == pathWithoutLabels(p)
<1>1. PathIn(es, p)
  BY PathIsPathIn
<1> HIDE DEF p
<1>2. \A k \in 1..Len(p) : p[k].id # 0 /\ p[k].id < n
  BY <1>1, TreeIds DEF PathIn, Older
<1>3. p \in Seq(EntrySet) /\ \A j, k \in 1..Len(p) : j < k => p[j].id < p[k].id
  BY <1>1 DEF PathIn
<1>4. Tree(w) /\ Chain(w) /\ \E pos : Forked(w, pos, p)
  BY <1>2, <1>3, WithoutLabels
<1> HIDE DEF w
<1>5. PICK pos : Forked(w, pos, p)
  BY <1>4
<1>6. ASSUME NEW i \in 1..Len(w) PROVE w[i].id < n
  <2>1. pos[i] \in 1..Len(p) /\ w[i].id = p[pos[i]].id
    BY <1>5 DEF Forked, SameEntry
  <2> QED
    BY <2>1, <1>2
<1>7. Older(w, n)
  BY <1>6 DEF Older
<1> QED
  BY <1>1, <1>4, <1>7 DEF p, w

\* createBranchedSession: what the session consists of afterwards.
LEMMA BranchedSession ==
  ASSUME NEW opened, Tree(opened), nextId \in Nat \ {0}, Older(opened, nextId),
         NEW id, createBranchedSession(opened, id)
  PROVE  /\ nextId' \in Nat \ {0} /\ Tree(entries') /\ Chain(entries') /\ Older(entries', nextId')
         /\ leaf' = 0 \/ Listed(entries', leaf')
         /\ LET p == getBranch(opened, id)
                w == pathWithoutLabels(p)
            IN  /\ Len(w) <= Len(entries')
                /\ \A i \in 1..Len(w) : entries'[i] = w[i]
                /\ \A i \in (Len(w) + 1)..Len(entries') :
                     entries'[i].kind = "label" /\ entries'[i].id >= nextId
<1> DEFINE p == getBranch(opened, id)
           w == pathWithoutLabels(p)
           T == LabelledIn(opened) \cap Ids(w)
           targets == SetToSeq(T)
           labels == [i \in DOMAIN targets |->
                        Entry(nextId + i - 1,
                              IF i > 1 THEN nextId + i - 2
                              ELSE IF w = <<>> THEN 0 ELSE Last(w).id,
                              "label", targets[i], {})]
           es == w \o labels
<1>1. /\ nextId' = nextId + Len(labels)
      /\ entries' = es
      /\ leaf' = IF es = <<>> THEN 0 ELSE Last(es).id
  BY DEF createBranchedSession
<1>2. Tree(w) /\ Chain(w) /\ Older(w, nextId)
  BY FilteredPath
<1> HIDE DEF p, w
<1>3. /\ Len(w) \in Nat /\ w \in Seq(EntrySet)
      /\ \A i \in 1..Len(w) : w[i] \in EntrySet /\ w[i].id \in Nat
  BY <1>2, TreeIds
<1>4. targets \in Seq(T) /\ T \in SUBSET Nat
  <2>1. Ids(w) \in SUBSET Nat /\ \A x \in Ids(w) : x <= nextId
    BY <1>2, <1>3, IdsAre DEF Older, Listed
  <2>2. IsFiniteSet(Ids(w))
    BY <2>1, FS_BoundedSetOfNaturals
  <2>3. T \in SUBSET Ids(w)
    OBVIOUS
  <2>4. IsFiniteSet(T)
    <3> HIDE DEF T
    <3> QED BY <2>2, <2>3, FS_Subset
  <2>5. T \in SUBSET Nat
    BY <2>1, <2>3
  <2> HIDE DEF T
  <2> QED
    BY <2>4, <2>5, SetToSeqIs
<1> HIDE DEF targets, T
<1> DEFINE m == Len(targets)
<1>5. m \in Nat /\ DOMAIN targets = 1..m /\ \A i \in 1..m : targets[i] \in Nat
  <2>1. targets \in Seq(Nat)
    BY <1>4, NatSeq
  <2> HIDE DEF m
  <2>2. m \in Nat /\ DOMAIN targets = 1..m
    BY <2>1 DEF m
  <2> QED
    BY <2>1, <2>2
<1>6. w # <<>> => Len(w) > 0 /\ Last(w) = w[Len(w)]
  BY <1>3 DEF Last
<1>7. ASSUME NEW i \in 1..m
      PROVE  /\ labels[i] \in EntrySet /\ labels[i].kind = "label" /\ labels[i].id = nextId + i - 1
             /\ labels[i].parent = IF i > 1 THEN nextId + i - 2
                                   ELSE IF Len(w) = 0 THEN 0 ELSE w[Len(w)].id
  <2> DEFINE x == IF i > 1 THEN nextId + i - 2 ELSE IF w = <<>> THEN 0 ELSE Last(w).id
             y == nextId + i - 1
             z == targets[i]
  <2>1. labels[i] = Entry(y, x, "label", z, {})
    BY <1>5
  <2>2. w = <<>> <=> Len(w) = 0
    BY <1>3
  <2>3. x = IF i > 1 THEN nextId + i - 2 ELSE IF Len(w) = 0 THEN 0 ELSE w[Len(w)].id
    BY <2>2, <1>6
  <2>4. x \in Nat /\ y \in Nat /\ z \in Nat
    BY <2>3, <1>3, <1>5
  <2> HIDE DEF x, y, z, labels
  <2>5. "label" \in Kinds /\ {} \in SUBSET Nat
    BY DEF Kinds
  <2>6. /\ labels[i] \in EntrySet /\ labels[i].kind = "label" /\ labels[i].id = y
        /\ labels[i].parent = x
    BY <2>1, <2>4, <2>5, EntryIs
  <2> QED
    BY <2>3, <2>6 DEF y
<1>8. labels \in Seq(EntrySet) /\ Len(labels) = m
  <2>1. labels = [i \in 1..m |-> labels[i]]
    BY <1>5
  <2> HIDE DEF labels
  <2> QED
    BY <2>1, <1>5, <1>7
<1> HIDE DEF labels, m
<1>9. /\ es \in Seq(EntrySet) /\ Len(es) = Len(w) + m
      /\ \A i \in 1..Len(w) : es[i] = w[i]
      /\ \A i \in (Len(w) + 1)..Len(es) : i - Len(w) \in 1..m /\ es[i] = labels[i - Len(w)]
  BY <1>3, <1>5, <1>8
<1> HIDE DEF es
<1>10. ASSUME NEW i \in 1..Len(es)
       PROVE  i \in 1..Len(w) \/ i \in (Len(w) + 1)..Len(es)
  BY <1>3, <1>9
<1>11. ASSUME NEW i \in (Len(w) + 1)..Len(es)
       PROVE  /\ es[i].kind = "label" /\ es[i].id = nextId + i - Len(w) - 1
              /\ es[i].parent = IF i = 1 THEN 0 ELSE es[i - 1].id
              /\ es[i].parent < es[i].id /\ es[i].id < nextId + m
  <2> DEFINE k == i - Len(w)
  <2>1. /\ k \in 1..m /\ es[i] = labels[k] /\ i \in Nat
        /\ labels[k].kind = "label" /\ labels[k].id = nextId + k - 1
        /\ labels[k].parent = IF k > 1 THEN nextId + k - 2
                              ELSE IF Len(w) = 0 THEN 0 ELSE w[Len(w)].id
    BY <1>3, <1>5, <1>7, <1>9
  <2>2. CASE k > 1
    <3>1. i - 1 \in (Len(w) + 1)..Len(es) /\ (i - 1) - Len(w) = k - 1 /\ i # 1
      BY <2>2, <1>3, <1>9
    <3>2. k - 1 \in 1..m /\ es[i - 1].id = nextId + (k - 1) - 1
      BY <3>1, <1>7, <1>9
    <3> QED
      BY <2>1, <2>2, <3>1, <3>2, <1>3, <1>5, SMTT(30)
  <2>3. CASE ~(k > 1)
    <3>1. k = 1 /\ i = Len(w) + 1
      BY <2>1, <2>3, <1>3, <1>5
    <3>2. CASE Len(w) = 0
      BY <2>1, <3>1, <3>2, <1>5
    <3>3. CASE Len(w) # 0
      <4>1. es[i - 1] = w[Len(w)] /\ w[Len(w)].id < nextId /\ w[Len(w)].id \in Nat /\ i # 1
        BY <3>1, <3>3, <1>2, <1>3, <1>9 DEF Older
      <4> QED
        BY <2>1, <3>1, <3>3, <4>1, <1>3, <1>5
    <3> QED
      BY <3>2, <3>3
  <2> QED
    BY <2>2, <2>3
<1>12. ASSUME NEW i \in 1..Len(w)
       PROVE  /\ es[i] = w[i] /\ es[i].id < nextId /\ es[i].id \in Nat /\ es[i].parent < es[i].id
              /\ es[i].parent = IF i = 1 THEN 0 ELSE es[i - 1].id
  <2>1. es[i] = w[i] /\ i # 1 => i - 1 \in 1..Len(w)
    BY <1>3, <1>9
  <2> QED
    BY <2>1, <1>2, <1>3, <1>9 DEF Tree, Chain, Older
<1>13. Chain(es)
  BY <1>10, <1>11, <1>12 DEF Chain
<1>14. ASSUME NEW i \in 1..Len(es), NEW j \in 1..Len(es), i < j PROVE es[i].id < es[j].id
  <2>1. CASE j \in 1..Len(w)
    <3>1. i \in 1..Len(w)
      BY <2>1, <1>3, <1>9, <1>14
    <3> QED
      BY <2>1, <3>1, <1>2, <1>9, <1>14 DEF Tree
  <2>2. CASE j \in (Len(w) + 1)..Len(es)
    <3>1. es[j].id = nextId + j - Len(w) - 1 /\ j \in Nat
      BY <2>2, <1>3, <1>9, <1>11
    <3>2. CASE i \in 1..Len(w)
      BY <2>2, <3>1, <3>2, <1>3, <1>12
    <3>3. CASE i \in (Len(w) + 1)..Len(es)
      <4>1. es[i].id = nextId + i - Len(w) - 1
        BY <3>3, <1>11
      <4> QED
        BY <3>1, <4>1, <1>3, <1>14
    <3> QED
      BY <3>2, <3>3, <1>10
  <2> QED
    BY <2>1, <2>2, <1>10
<1>15. Tree(es)
  BY <1>9, <1>10, <1>11, <1>12, <1>14 DEF Tree
<1>16. Older(es, nextId + m)
  <2>1. ASSUME NEW i \in 1..Len(es) PROVE es[i].id < nextId + m
    <3>1. CASE i \in 1..Len(w)
      BY <3>1, <1>5, <1>12
    <3>2. CASE i \in (Len(w) + 1)..Len(es)
      BY <3>2, <1>11
    <3> QED
      BY <3>1, <3>2, <1>10
  <2> QED
    BY <2>1 DEF Older
<1>17. leaf' = 0 \/ Listed(es, leaf')
  <2>1. es # <<>> => Len(es) \in 1..Len(es) /\ Last(es) = es[Len(es)]
    BY <1>9 DEF Last
  <2> QED
    BY <2>1, <1>1 DEF Listed
<1>18. \A i \in (Len(w) + 1)..Len(es) : es[i].kind = "label" /\ es[i].id >= nextId
  BY <1>3, <1>9, <1>11, SMTT(30)
<1>19. nextId' = nextId + m /\ Len(w) <= Len(es)
  BY <1>1, <1>3, <1>5, <1>8, <1>9
<1>20. /\ nextId' \in Nat \ {0} /\ Tree(entries') /\ Chain(entries') /\ Older(entries', nextId')
       /\ leaf' = 0 \/ Listed(entries', leaf')
  BY <1>1, <1>5, <1>13, <1>15, <1>16, <1>17, <1>19
<1>21. /\ Len(w) <= Len(entries')
       /\ \A i \in 1..Len(w) : entries'[i] = w[i]
       /\ \A i \in (Len(w) + 1)..Len(entries') :
            entries'[i].kind = "label" /\ entries'[i].id >= nextId
  BY <1>1, <1>9, <1>18, <1>19
<1> QED
  BY <1>20, <1>21 DEF w, p

-----------------------------------------------------------------------------
(* The tree, in memory and in the file. *)
Rooted(es) == \A i \in 1..Len(es) : es[i].parent = 0 \/ Listed(es, es[i].parent)

TreeInv ==
  /\ nextId \in Nat \ {0}
  /\ leaf = 0 \/ Listed(entries, leaf)
  /\ Tree(entries) /\ Older(entries, nextId)
  /\ "torn" \in damage \/ Rooted(entries)
  /\ compacting \in [at : Nat, covers : SUBSET Nat, from : Nat]
  /\ Tree(file.lines) /\ Older(file.lines, nextId)
  /\ ~file.there => file = NoFile
  /\ file.tail \in {"whole", "cut", "noNewline"}
  /\ file.tail = "noNewline" => file.lines # <<>>

LEMMA EmptyTree == Tree(<<>>) /\ Rooted(<<>>) /\ \A n : Older(<<>>, n)
BY DEF Tree, Rooted, Older

LEMMA ListedIs ==
  ASSUME NEW es, Tree(es), NEW n \in Nat, Older(es, n), NEW id, Listed(es, id)
  PROVE  id \in Nat /\ id # 0 /\ id < n
BY TreeIds DEF Listed, Older

LEMMA OlderStill ==
  ASSUME NEW es, Tree(es), NEW n \in Nat, NEW m \in Nat, n <= m, Older(es, n)
  PROVE  Older(es, m)
BY TreeIds DEF Older

LEMMA RootedGrows ==
  ASSUME NEW es, Tree(es), Rooted(es), NEW e,
         e.parent = 0 \/ Listed(es, e.parent)
  PROVE  Rooted(Append(es, e))
<1> DEFINE fs == Append(es, e)
<1>1. Len(es) \in Nat /\ es \in Seq(EntrySet)
  BY TreeIds
<1>2. Len(fs) = Len(es) + 1 /\ fs[Len(es) + 1] = e /\ \A i \in 1..Len(es) : fs[i] = es[i]
  BY <1>1
<1> HIDE DEF fs
<1>3. ASSUME NEW id, Listed(es, id) PROVE Listed(fs, id)
  BY <1>1, <1>2, <1>3 DEF Listed
<1>4. ASSUME NEW i \in 1..Len(fs) PROVE fs[i].parent = 0 \/ Listed(fs, fs[i].parent)
  <2>1. CASE i \in 1..Len(es)
    BY <2>1, <1>2, <1>3 DEF Rooted
  <2>2. CASE i = Len(es) + 1
    BY <2>2, <1>2, <1>3
  <2> QED
    BY <2>1, <2>2, <1>1, <1>2
<1> QED
  BY <1>4 DEF Rooted, fs

LEMMA RootedPrefix ==
  ASSUME NEW es, Tree(es), Rooted(es), NEW n \in 0..Len(es)
  PROVE  Rooted(SubSeq(es, 1, n))
<1> DEFINE fs == SubSeq(es, 1, n)
<1>1. Len(es) \in Nat /\ es \in Seq(EntrySet)
  BY TreeIds
<1>2. Len(fs) = n /\ n \in Nat /\ n <= Len(es) /\ \A i \in 1..n : fs[i] = es[i]
  BY <1>1
<1> HIDE DEF fs
<1>3. ASSUME NEW i \in 1..n PROVE fs[i].parent = 0 \/ Listed(fs, fs[i].parent)
  <2>1. i \in 1..Len(es) /\ fs[i] = es[i]
    BY <1>1, <1>2
  <2>2. CASE es[i].parent = 0
    BY <2>1, <2>2
  <2>3. CASE Listed(es, es[i].parent)
    <3>1. PICK j \in 1..Len(es) : es[j].id = es[i].parent
      BY <2>3 DEF Listed
    <3>2. j < i
      BY <2>1, <3>1, TreeIds
    <3>3. j \in 1..n /\ fs[j].id = fs[i].parent
      BY <1>1, <1>2, <2>1, <3>1, <3>2
    <3> QED
      BY <1>2, <3>3 DEF Listed
  <2> QED
    BY <2>1, <2>2, <2>3 DEF Rooted
<1> QED
  BY <1>2, <1>3 DEF Rooted, fs

LEMMA ChainIsRooted ==
  ASSUME NEW es, Tree(es), Chain(es)
  PROVE  Rooted(es)
<1>1. Len(es) \in Nat
  BY TreeIds
<1>2. ASSUME NEW i \in 1..Len(es) PROVE es[i].parent = 0 \/ Listed(es, es[i].parent)
  <2>1. CASE i = 1
    BY <2>1 DEF Chain
  <2>2. CASE i # 1
    <3>1. i - 1 \in 1..Len(es) /\ es[i].parent = es[i - 1].id
      BY <2>2, <1>1 DEF Chain
    <3> QED
      BY <3>1 DEF Listed
  <2> QED
    BY <2>1, <2>2
<1> QED
  BY <1>2 DEF Rooted

LEMMA LastIsListed ==
  ASSUME NEW es, Tree(es), es # <<>>
  PROVE  Listed(es, Last(es).id)
<1>1. es \in Seq(EntrySet)
  BY TreeIds
<1>2. Len(es) \in 1..Len(es) /\ Last(es) = es[Len(es)]
  BY <1>1 DEF Last
<1> QED
  BY <1>2 DEF Listed

LEMMA LeafIs ==
  ASSUME TreeInv
  PROVE  leaf \in Nat /\ leaf < nextId
<1>1. nextId \in Nat /\ nextId # 0
  BY DEF TreeInv
<1>2. CASE leaf = 0
  BY <1>1, <1>2
<1>3. CASE Listed(entries, leaf)
  BY <1>1, <1>3, ListedIs DEF TreeInv
<1> QED
  BY <1>2, <1>3 DEF TreeInv

\* What _appendEntry does to the tree, for every entry that it is given.
Appends(e) ==
  /\ nextId' = nextId + 1 /\ leaf' = nextId
  /\ e \in EntrySet /\ e.id = nextId /\ e.parent < nextId
  /\ entries' = Append(entries, e)
  /\ persist(e)

LEMMA AppendIs ==
  ASSUME TreeInv, NEW kind \in Kinds, NEW parent, parent = 0 \/ Listed(entries, parent),
         NEW at \in Nat, NEW covers \in SUBSET Nat, appendEntry(kind, parent, at, covers)
  PROVE  LET e == Entry(nextId, parent, kind, at, covers)
         IN  /\ Appends(e)
             /\ e.parent = parent /\ e.kind = kind /\ e.at = at /\ e.covers = covers
<1> DEFINE e == Entry(nextId, parent, kind, at, covers)
<1>1. nextId \in Nat /\ nextId # 0
  BY DEF TreeInv
<1>2. parent \in Nat /\ parent < nextId
  <2>1. CASE parent = 0
    BY <1>1, <2>1
  <2>2. CASE Listed(entries, parent)
    BY <1>1, <2>2, ListedIs DEF TreeInv
  <2> QED
    BY <2>1, <2>2
<1>3. /\ e \in EntrySet
      /\ e.id = nextId /\ e.parent = parent /\ e.kind = kind /\ e.at = at /\ e.covers = covers
  BY <1>1, <1>2 DEF Entry, EntrySet
<1>4. nextId' = nextId + 1 /\ entries' = Append(entries, e) /\ leaf' = e.id /\ persist(e)
  BY DEF appendEntry
<1> HIDE DEF e
<1>5. Appends(e)
  BY <1>2, <1>3, <1>4 DEF Appends
<1> QED
  BY <1>3, <1>5 DEF e

LEMMA AppendKeepsTree ==
  ASSUME TreeInv, TInv, NEW e, Appends(e), e.parent = 0 \/ Listed(entries, e.parent),
         damage \subseteq damage',
         compacting' \in [at : Nat, covers : SUBSET Nat, from : Nat]
  PROVE  TreeInv'
<1>1. nextId \in Nat /\ nextId # 0 /\ nextId' = nextId + 1 /\ leaf' = nextId
      /\ e \in EntrySet /\ e.id = nextId /\ e.parent < nextId
      /\ entries' = Append(entries, e)
  BY DEF TreeInv, Appends
<1>2. /\ Tree(entries') /\ Older(entries', nextId')
      /\ Len(entries') = Len(entries) + 1 /\ entries'[Len(entries) + 1] = e
  BY <1>1, TreeGrows DEF TreeInv
<1>3. Listed(entries', leaf')
  <2>1. Len(entries) + 1 \in 1..Len(entries')
    BY <1>2, TreeIds DEF TreeInv
  <2> QED
    BY <1>1, <1>2, <2>1 DEF Listed
<1>4. "torn" \in damage' \/ Rooted(entries')
  BY <1>1, RootedGrows DEF TreeInv
<1>5. /\ Tree(file.lines) /\ Older(file.lines, nextId)
      /\ ~file.there => file = NoFile
      /\ file.tail \in {"whole", "cut", "noNewline"}
      /\ file.tail = "noNewline" => file.lines # <<>>
      /\ DOMAIN file = {"there", "lines", "tail"} /\ flushed = file.there
  BY DEF TreeInv, TInv, FileHoldsSession
<1>6. /\ Tree(file'.lines) /\ Older(file'.lines, nextId')
      /\ ~file'.there => file' = NoFile
      /\ file'.tail \in {"whole", "cut", "noNewline"}
      /\ file'.tail = "noNewline" => file'.lines # <<>>
  <2>1. CASE flushed
    <3>1. file' = AppendLine(file, e)
      BY <2>1 DEF Appends, persist
    <3>2. file'.there = file.there /\ file'.tail = "whole"
      BY <3>1, <1>5 DEF AppendLine
    <3>3. Tree(file'.lines) /\ Older(file'.lines, nextId')
      <4>1. CASE file.tail = "whole"
        <5>1. file'.lines = Append(file.lines, e)
          BY <3>1, <4>1, <1>5 DEF AppendLine
        <5> QED
          BY <5>1, <1>1, <1>5, TreeGrows
      <4>2. CASE file.tail = "cut"
        <5>1. file'.lines = file.lines
          BY <3>1, <4>2, <1>5 DEF AppendLine
        <5> QED
          BY <5>1, <1>1, <1>5, OlderStill
      <4>3. CASE file.tail = "noNewline"
        <5>1. file'.lines = Front(file.lines)
          BY <3>1, <4>3, <1>5 DEF AppendLine
        <5>2. file.lines \in Seq(EntrySet) /\ Len(file.lines) \in Nat /\ file.lines # <<>>
          BY <4>3, <1>5, TreeIds
        <5> DEFINE n == Len(file.lines) - 1
        <5>3. n \in 0..Len(file.lines)
          BY <5>2
        <5>4. file'.lines = SubSeq(file.lines, 1, n)
          BY <5>1 DEF Front
        <5> HIDE DEF n
        <5>5. Tree(file'.lines) /\ Older(file'.lines, nextId)
          BY <5>3, <5>4, <1>5, TreePrefix
        <5> QED
          BY <5>5, <1>1, OlderStill
      <4> QED
        BY <4>1, <4>2, <4>3, <1>5
    <3> QED
      BY <3>2, <3>3, <2>1, <1>5
  <2>2. CASE ~flushed /\ HasAssistant(entries')
    <3>1. file' = [there |-> TRUE, lines |-> entries', tail |-> "whole"]
      BY <2>2 DEF Appends, persist
    <3> QED
      BY <3>1, <1>2
  <2>3. CASE ~flushed /\ ~HasAssistant(entries')
    <3>1. file' = file
      BY <2>3 DEF Appends, persist
    <3> QED
      BY <3>1, <1>1, <1>5, OlderStill
  <2> QED
    BY <2>1, <2>2, <2>3
<1>7. nextId' \in Nat \ {0}
  BY <1>1
<1> QED
  BY <1>2, <1>3, <1>4, <1>6, <1>7 DEF TreeInv

-----------------------------------------------------------------------------
(* Compaction: where the summary starts and where it is cut. *)
LEMMA BoundaryIs ==
  ASSUME NEW path \in Seq(EntrySet), Len(path) > 0, path[Len(path)].kind # "compaction"
  PROVE  LET c == LatestCompaction(path)
             start == boundaryStart(path)
         IN  /\ start \in 1..Len(path) /\ c \in 0..(Len(path) - 1)
             /\ c = 0 => start = 1
             /\ c > 0 => \/ path[start].id = path[c].at
                         \/ \A k \in 1..Len(path) : path[k].id # path[c].at
<1> DEFINE c == LatestCompaction(path)
           kept == IndexOf(path, path[c].at)
<1>1. Len(path) \in Nat
  OBVIOUS
<1>2. c \in 0..Len(path) /\ c # Len(path)
  BY <1>1, LatestCompactionIs
<1>3. /\ kept \in 0..Len(path)
      /\ kept = 0 => \A k \in 1..Len(path) : path[k].id # path[c].at
      /\ kept > 0 => path[kept].id = path[c].at
  BY <1>1, IndexOfIs
<1>4. boundaryStart(path) = IF (IF c = 0 THEN 1 ELSE kept) > 0 THEN (IF c = 0 THEN 1 ELSE kept)
                            ELSE c + 1
  BY DEF boundaryStart
<1> HIDE DEF c, kept
<1>5. CASE c = 0
  <2>1. boundaryStart(path) = 1
    BY <1>4, <1>5
  <2> QED
    BY <2>1, <1>1, <1>5 DEF c
<1>6. CASE c # 0 /\ kept = 0
  <2>1. boundaryStart(path) = c + 1
    BY <1>4, <1>6
  <2> QED
    BY <2>1, <1>1, <1>2, <1>3, <1>6 DEF c
<1>7. CASE c # 0 /\ kept # 0
  <2>1. boundaryStart(path) = kept
    BY <1>3, <1>4, <1>7
  <2> QED
    BY <2>1, <1>1, <1>2, <1>3, <1>7 DEF c
<1> QED
  BY <1>5, <1>6, <1>7

\* Nothing that is sent and no compaction is skipped on the way back from a cut.
Between(path, b, cut) ==
  \A k \in b..(cut - 1) : ~IsMessage(path[k]) /\ path[k].kind # "compaction"

LEMMA BacktrackIs ==
  ASSUME NEW path, NEW start \in Nat, NEW cut \in Nat, start <= cut
  PROVE  LET b == backtrackOverNonMessageEntries(path, start, cut)
         IN  b \in start..cut /\ Between(path, b, cut)
<1> DEFINE T == {i \in start..cut : Between(path, i, cut)}
           Good(i) == /\ \A k \in i..(cut - 1) : ~IsMessage(path[k]) /\ path[k].kind # "compaction"
                      /\ i > start => IsMessage(path[i - 1]) \/ path[i - 1].kind = "compaction"
<1>1. cut \in T
  BY DEF Between
<1>2. T \subseteq Nat
  OBVIOUS
<1>3. PICK i \in T : \A y \in T : i <= y
  <2> HIDE DEF T
  <2>1. T # {}
    BY <1>1
  <2> QED BY <1>2, <2>1, LeastExists
<1>4. i \in start..cut /\ Between(path, i, cut)
  OBVIOUS
<1>5. i > start => IsMessage(path[i - 1]) \/ path[i - 1].kind = "compaction"
  <2> SUFFICES ASSUME i > start, ~IsMessage(path[i - 1]), path[i - 1].kind # "compaction"
               PROVE  FALSE
    OBVIOUS
  <2>1. i - 1 \in start..cut
    BY <1>4
  <2>2. Between(path, i - 1, cut)
    <3> SUFFICES ASSUME NEW k \in (i - 1)..(cut - 1)
                 PROVE  ~IsMessage(path[k]) /\ path[k].kind # "compaction"
      BY DEF Between
    <3>1. k = i - 1 \/ k \in i..(cut - 1)
      BY <1>4
    <3> QED
      BY <3>1, <1>4 DEF Between
  <2>3. i - 1 \in T
    BY <2>1, <2>2
  <2> QED
    BY <1>3, <1>4, <2>3
<1>6. Good(i)
  BY <1>4, <1>5 DEF Between
<1>7. backtrackOverNonMessageEntries(path, start, cut) = CHOOSE x \in start..cut : Good(x)
  BY DEF backtrackOverNonMessageEntries
<1>8. \E x : x \in start..cut /\ Good(x)
  BY <1>4, <1>6
<1>9. /\ backtrackOverNonMessageEntries(path, start, cut) \in start..cut
      /\ Good(backtrackOverNonMessageEntries(path, start, cut))
  <2> HIDE DEF Good
  <2> QED BY <1>7, <1>8, Zenon
<1> QED
  BY <1>9 DEF Between

\* The cut is before a message that is no result, with nothing sent in between
\* but branch summaries, or where no such message is, at the start.
LEMMA CutIs ==
  ASSUME NEW path \in Seq(EntrySet), NEW start \in 1..Len(path),
         NEW cut \in findCutPoint(path, start)
  PROVE  /\ cut \in start..Len(path)
         /\ \/ cut = start /\ \A k \in start..Len(path) :
                                InContext(path[k]) => path[k].kind = "toolResult"
            \/ \E v \in cut..Len(path) :
                 InContext(path[v]) /\ path[v].kind # "toolResult" /\ Between(path, cut, v)
<1> DEFINE V == findValidCutPoints(path, start)
<1>1. Len(path) \in Nat /\ start \in Nat
  OBVIOUS
<1>2. \A v : v \in V <=> v \in start..Len(path) /\ InContext(path[v]) /\ path[v].kind # "toolResult"
  BY DEF findValidCutPoints
<1>3. findCutPoint(path, start) =
        IF V = {} THEN {start} ELSE {backtrackOverNonMessageEntries(path, start, v) : v \in V}
  BY DEF findCutPoint
<1> HIDE DEF V
<1>4. CASE V = {}
  <2>1. cut = start /\ \A v : v \notin V
    BY <1>3, <1>4
  <2> QED
    BY <2>1, <1>1, <1>2
<1>5. CASE V # {}
  <2>1. PICK v \in V : cut = backtrackOverNonMessageEntries(path, start, v)
    BY <1>3, <1>5
  <2>2. v \in start..Len(path) /\ InContext(path[v]) /\ path[v].kind # "toolResult"
    BY <1>2
  <2>3. v \in Nat /\ start <= v
    BY <1>1, <2>2
  <2>4. cut \in start..v /\ Between(path, cut, v)
    BY <1>1, <2>1, <2>3, BacktrackIs
  <2>5. v \in cut..Len(path) /\ cut \in start..Len(path)
    BY <1>1, <2>2, <2>3, <2>4
  <2> QED
    BY <2>2, <2>4, <2>5
<1> QED
  BY <1>4, <1>5

\* What prepareCompaction leaves behind.
LEMMA PrepareIs ==
  ASSUME TreeInv, prepareCompaction
  PROVE  LET path == getBranch(entries, leaf)
             c == LatestCompaction(path)
             start == boundaryStart(path)
         IN  /\ path \in Seq(EntrySet) /\ Len(path) > 0 /\ path[Len(path)].kind # "compaction"
             /\ \E cut \in findCutPoint(path, start) :
                  /\ cut \in start..Len(path)
                  /\ compacting'.at = path[cut].id /\ compacting'.from = leaf
                  /\ c > 0 => path[c].covers \subseteq compacting'.covers
                  /\ \A k \in start..(cut - 1) : InContext(path[k]) => path[k].id \in compacting'.covers
             /\ compacting' \in [at : Nat, covers : SUBSET Nat, from : Nat]
<1> DEFINE path == getBranch(entries, leaf)
           c == LatestCompaction(path)
           start == boundaryStart(path)
<1>1. path \in Seq(EntrySet)
  BY BranchType DEF TreeInv, Tree
<1>2. path # <<>> /\ Last(path).kind # "compaction"
  BY DEF prepareCompaction
<1>3. PICK cut \in findCutPoint(path, start) :
        compacting' = [at |-> path[cut].id,
                       covers |-> (IF c = 0 THEN {} ELSE path[c].covers)
                         \cup {path[k].id : k \in {k \in start..(cut - 1) : InContext(path[k])}},
                       from |-> leaf]
  BY DEF prepareCompaction
<1> HIDE DEF path
<1>4. Len(path) > 0 /\ path[Len(path)].kind # "compaction" /\ Len(path) \in Nat
  BY <1>1, <1>2 DEF Last
<1>5. start \in 1..Len(path) /\ c \in 0..(Len(path) - 1)
  BY <1>1, <1>4, BoundaryIs
<1> HIDE DEF c, start
<1>6. cut \in start..Len(path)
  BY <1>1, <1>5, CutIs
<1>7. \A k \in 1..Len(path) : path[k] \in EntrySet /\ path[k].id \in Nat /\ path[k].covers \in SUBSET Nat
  BY <1>1, EntryType
<1> DEFINE old == IF c = 0 THEN {} ELSE path[c].covers
           new == {path[k].id : k \in {k \in start..(cut - 1) : InContext(path[k])}}
<1>8. old \in SUBSET Nat
  BY <1>4, <1>5, <1>7
<1>9. new \in SUBSET Nat
  <2>1. \A k \in start..(cut - 1) : path[k].id \in Nat
    BY <1>4, <1>5, <1>6, <1>7
  <2> QED
    BY <2>1
<1>10. \A k \in start..(cut - 1) : InContext(path[k]) => path[k].id \in new
  OBVIOUS
<1>11. c > 0 => path[c].covers = old
  BY <1>5
<1> HIDE DEF old, new
<1>12. compacting' = [at |-> path[cut].id, covers |-> old \cup new, from |-> leaf]
  BY <1>3 DEF old, new
<1>13. path[cut].id \in Nat /\ leaf \in Nat
  BY <1>4, <1>5, <1>6, <1>7, LeafIs
<1>14. compacting' \in [at : Nat, covers : SUBSET Nat, from : Nat]
  BY <1>8, <1>9, <1>12, <1>13
<1>15. compacting'.at = path[cut].id /\ compacting'.from = leaf /\ compacting'.covers = old \cup new
  BY <1>12
<1>16. /\ c > 0 => path[c].covers \subseteq compacting'.covers
       /\ \A k \in start..(cut - 1) : InContext(path[k]) => path[k].id \in compacting'.covers
  BY <1>10, <1>11, <1>15
<1> QED
  BY <1>1, <1>4, <1>6, <1>14, <1>15, <1>16 DEF path, c, start

-----------------------------------------------------------------------------
(* The other actions, as the arguments below need them. *)
AfterCall(path) ==
  LET last == LastMessage(path)
  IN  /\ last > 0 /\ path[last].kind \in {"assistant", "toolResult"}
      /\ LatestCompaction(path) < last

\* Messages, settings and labels go under the leaf; results only after a call.
LEMMA PlainAppend ==
  ASSUME TreeInv, appendMessage \/ appendSetting \/ appendLabelChange
  PROVE  /\ UNCHANGED <<compacting, moves, tears, damage>>
         /\ \E e : /\ Appends(e) /\ e.parent = leaf /\ e.kind # "compaction"
                   /\ e.kind = "toolResult" => AfterCall(getBranch(entries, leaf))
<1>1. leaf = 0 \/ Listed(entries, leaf)
  BY DEF TreeInv
<1>2. ASSUME NEW kind \in Kinds \ {"compaction"}, NEW at \in Nat, appendEntry(kind, leaf, at, {}),
             kind = "toolResult" => AfterCall(getBranch(entries, leaf))
      PROVE  \E e : /\ Appends(e) /\ e.parent = leaf /\ e.kind # "compaction"
                    /\ e.kind = "toolResult" => AfterCall(getBranch(entries, leaf))
  <2>1. {} \in SUBSET Nat /\ kind \in Kinds
    OBVIOUS
  <2> DEFINE e == Entry(nextId, leaf, kind, at, {})
  <2>2. Appends(e) /\ e.parent = leaf /\ e.kind = kind
    BY <1>1, <1>2, <2>1, AppendIs
  <2> HIDE DEF e
  <2> QED
    BY <1>2, <2>2
<1>3. {"user", "assistant", "toolResult", "setting", "label", "unlabel"} \subseteq Kinds \ {"compaction"}
      /\ 0 \in Nat
  BY DEF Kinds
<1>4. CASE appendMessage
  <2>1. PICK kind \in {"user", "assistant", "toolResult"} :
          /\ appendEntry(kind, leaf, 0, {})
          /\ kind = "toolResult" => AfterCall(getBranch(entries, leaf))
    BY <1>4 DEF appendMessage, AfterCall
  <2> QED
    BY <1>2, <1>3, <1>4, <2>1 DEF appendMessage
<1>5. CASE appendSetting
  BY <1>2, <1>3, <1>5 DEF appendSetting
<1>6. CASE appendLabelChange
  <2>1. PICK target \in Ids(entries), kind \in {"label", "unlabel"} :
          appendEntry(kind, leaf, target, {})
    BY <1>6 DEF appendLabelChange
  <2>2. target \in Nat
    <3>1. Listed(entries, target)
      BY IdsAre, TreeIds DEF TreeInv
    <3> QED
      BY <3>1, ListedIs DEF TreeInv
  <2> QED
    BY <1>2, <1>3, <1>6, <2>1, <2>2 DEF appendLabelChange
<1> QED
  BY <1>4, <1>5, <1>6

\* The compaction goes under the leaf, wherever that is by now.
LEMMA CompactionAppend ==
  ASSUME TreeInv, appendCompaction
  PROVE  /\ compacting # Nothing /\ compacting' = Nothing /\ UNCHANGED <<moves, tears>>
         /\ damage \subseteq damage'
         /\ "strayed" \notin damage' => compacting.at \in Ids(getBranch(entries, leaf))
         /\ "moved" \notin damage' => compacting.from \in Ids(getBranch(entries, leaf))
         /\ "torn" \in damage' => "torn" \in damage
         /\ \E e : /\ Appends(e) /\ e.parent = leaf /\ e.kind = "compaction"
                   /\ e.at = compacting.at /\ e.covers = compacting.covers
<1>1. appendEntry("compaction", leaf, compacting.at, compacting.covers)
  BY DEF appendCompaction
<1>2. leaf = 0 \/ Listed(entries, leaf)
  BY DEF TreeInv
<1>3. compacting.at \in Nat /\ compacting.covers \in SUBSET Nat /\ "compaction" \in Kinds
  BY DEF TreeInv, Kinds
<1> DEFINE e == Entry(nextId, leaf, "compaction", compacting.at, compacting.covers)
<1>4. /\ Appends(e) /\ e.parent = leaf /\ e.kind = "compaction"
      /\ e.at = compacting.at /\ e.covers = compacting.covers
  BY <1>1, <1>2, <1>3, AppendIs
<1> HIDE DEF e
<1> QED
  BY <1>4 DEF appendCompaction

LEMMA NothingTyped == Nothing \in [at : Nat, covers : SUBSET Nat, from : Nat]
BY DEF Nothing

\* navigateTree leaves the entries alone or appends a summary.
LEMMA NavigateIs ==
  ASSUME TreeInv, navigateTree
  PROVE  /\ UNCHANGED <<compacting, tears, damage>>
         /\ \/ /\ UNCHANGED <<entries, flushed, file, nextId, stored>>
               /\ leaf' = 0 \/ Listed(entries, leaf')
            \/ \E e : /\ Appends(e) /\ e.kind = "branchSummary"
                      /\ e.parent = 0 \/ Listed(entries, e.parent)
<1>1. PICK newLeaf \in Ids(entries) \cup {0} :
        \/ /\ leaf' = newLeaf
           /\ UNCHANGED <<entries, flushed, file, nextId, stored>>
        \/ appendEntry("branchSummary", newLeaf, 0, {})
  BY DEF navigateTree
<1>2. newLeaf = 0 \/ Listed(entries, newLeaf)
  BY IdsAre, TreeIds DEF TreeInv
<1>3. CASE appendEntry("branchSummary", newLeaf, 0, {})
  <2>1. {} \in SUBSET Nat /\ "branchSummary" \in Kinds /\ 0 \in Nat
    BY DEF Kinds
  <2> DEFINE e == Entry(nextId, newLeaf, "branchSummary", 0, {})
  <2>2. Appends(e) /\ e.parent = newLeaf /\ e.kind = "branchSummary"
    BY <1>2, <1>3, <2>1, AppendIs
  <2> HIDE DEF e
  <2> QED
    BY <1>2, <2>2 DEF navigateTree
<1>4. CASE /\ leaf' = newLeaf
           /\ UNCHANGED <<entries, flushed, file, nextId, stored>>
  BY <1>2, <1>4 DEF navigateTree
<1> QED
  BY <1>1, <1>3, <1>4

\* fork: of a session in a file, or of nothing.
LEMMA ForkIs ==
  ASSUME TInv, fork
  PROVE  /\ compacting' = Nothing /\ tears' = tears
         /\ \/ /\ flushed /\ \E id : createBranchedSession(file.lines, id)
            \/ /\ entries' = <<>> /\ leaf' = 0
               /\ flushed' = FALSE /\ file' = NoFile
               /\ stored' = {}
               /\ UNCHANGED <<nextId, damage>>
BY DEF fork, TInv, FileHoldsSession

\* The file of a branched session, if there is one, and its ids.
LEMMA BranchedFile ==
  ASSUME NEW opened, NEW id, createBranchedSession(opened, id)
  PROVE  /\ damage \subseteq damage'
         /\ "unkept" \notin damage' =>
              \A e \in Range(entries') : e.kind = "compaction" => e.at \in Ids(entries')
         /\ \/ /\ file' = [there |-> TRUE, lines |-> entries', tail |-> "whole"]
               /\ stored' = Ids(entries')
            \/ file' = NoFile /\ stored' = {}
BY DEF createBranchedSession

LEMMA TreeNextPreservesTree ==
  ASSUME TreeInv, TInv, [TreeNext]_treeVars
  PROVE  TreeInv'
<1>1. CASE appendMessage \/ appendSetting \/ appendLabelChange
  <2>1. PICK e : Appends(e) /\ e.parent = leaf
    BY <1>1, PlainAppend
  <2>2. compacting' = compacting /\ damage' = damage
    BY <1>1, PlainAppend
  <2> QED
    BY <2>1, <2>2, AppendKeepsTree DEF TreeInv
<1>2. CASE appendCompaction
  <2>1. PICK e : Appends(e) /\ e.parent = leaf
    BY <1>2, CompactionAppend
  <2>2. compacting' = Nothing /\ damage \subseteq damage'
    BY <1>2, CompactionAppend
  <2> QED
    BY <2>1, <2>2, AppendKeepsTree, NothingTyped DEF TreeInv
<1>3. CASE prepareCompaction
  <2>1. compacting' \in [at : Nat, covers : SUBSET Nat, from : Nat]
    BY <1>3, PrepareIs
  <2>2. UNCHANGED <<entries, leaf, file, nextId, damage>>
    BY <1>3 DEF prepareCompaction
  <2> QED
    BY <2>1, <2>2 DEF TreeInv
<1>4. CASE cancelCompaction
  <2>1. UNCHANGED <<entries, leaf, file, nextId, damage>> /\ compacting' = Nothing
    BY <1>4 DEF cancelCompaction
  <2> QED
    BY <2>1, NothingTyped DEF TreeInv
<1>5. CASE navigateTree
  <2>1. UNCHANGED <<compacting, tears, damage>>
    BY <1>5, NavigateIs
  <2>2. CASE /\ UNCHANGED <<entries, flushed, file, nextId, stored>>
             /\ leaf' = 0 \/ Listed(entries, leaf')
    BY <2>1, <2>2 DEF TreeInv
  <2>3. CASE \E e : /\ Appends(e) /\ e.kind = "branchSummary"
                    /\ e.parent = 0 \/ Listed(entries, e.parent)
    BY <2>1, <2>3, AppendKeepsTree DEF TreeInv
  <2> QED
    BY <1>5, <2>2, <2>3, NavigateIs
<1>6. CASE fork
  <2>1. compacting' \in [at : Nat, covers : SUBSET Nat, from : Nat]
    BY <1>6, ForkIs, NothingTyped
  <2>2. ASSUME NEW id, flushed, createBranchedSession(file.lines, id)
        PROVE  TreeInv'
    <3>1. /\ nextId' \in Nat \ {0} /\ Tree(entries') /\ Chain(entries') /\ Older(entries', nextId')
          /\ leaf' = 0 \/ Listed(entries', leaf')
      BY <2>2, BranchedSession DEF TreeInv
    <3>2. Rooted(entries')
      BY <3>1, ChainIsRooted
    <3>3. CASE file' = [there |-> TRUE, lines |-> entries', tail |-> "whole"]
      BY <2>1, <3>1, <3>2, <3>3 DEF TreeInv
    <3>4. CASE file' = NoFile
      <4>1. file'.lines = <<>> /\ ~file'.there /\ file'.tail = "whole"
        BY <3>4 DEF NoFile
      <4> QED
        BY <2>1, <3>1, <3>2, <3>4, <4>1, EmptyTree DEF TreeInv
    <3> QED
      BY <2>2, <3>3, <3>4, BranchedFile
  <2>3. ASSUME entries' = <<>>, leaf' = 0, file' = NoFile, nextId' = nextId
        PROVE  TreeInv'
    <3>1. file'.lines = <<>> /\ ~file'.there /\ file'.tail = "whole"
      BY <2>3 DEF NoFile
    <3> QED
      BY <2>1, <2>3, <3>1, EmptyTree DEF TreeInv
  <2> QED
    BY <1>6, <2>2, <2>3, ForkIs
<1>7. CASE setSessionFile
  <2>1. /\ entries' = file.lines /\ compacting' = Nothing
        /\ leaf' = IF file.lines = <<>> THEN 0 ELSE Last(file.lines).id
        /\ UNCHANGED <<file, nextId, damage>>
    BY <1>7 DEF setSessionFile
  <2>2. "torn" \in damage \/ Rooted(file.lines)
    <3>1. CASE flushed
      BY <3>1 DEF TreeInv, TInv, FileHoldsSession
    <3>2. CASE ~flushed
      <4>1. file.lines = <<>>
        BY <3>2 DEF TreeInv, TInv, FileHoldsSession, NoFile
      <4> QED
        BY <4>1, EmptyTree
    <3> QED
      BY <3>1, <3>2
  <2>3. leaf' = 0 \/ Listed(file.lines, leaf')
    BY <2>1, LastIsListed DEF TreeInv
  <2> QED
    BY <2>1, <2>2, <2>3, NothingTyped DEF TreeInv
<1>8. CASE tearLine
  <2> DEFINE e == Entry(nextId, leaf, "user", 0, {})
  <2>1. PICK tail \in {"cut", "noNewline"} :
          /\ file' = [file EXCEPT !.tail = tail,
                                  !.lines = IF tail = "cut" THEN @ ELSE Append(@, e)]
          /\ entries' = file'.lines
          /\ leaf' = IF file'.lines = <<>> THEN 0 ELSE Last(file'.lines).id
    BY <1>8 DEF tearLine
  <2>2. nextId' = nextId + 1 /\ compacting' = Nothing /\ "torn" \in damage' /\ flushed /\ file.there
    BY <1>8 DEF tearLine, TInv, FileHoldsSession
  <2>3. nextId \in Nat /\ nextId # 0 /\ leaf \in Nat /\ leaf < nextId
    BY LeafIs DEF TreeInv
  <2>4. e \in EntrySet /\ e.id = nextId /\ e.parent < nextId
    BY <2>3 DEF Entry, EntrySet, Kinds
  <2> HIDE DEF e
  <2>5. file'.tail = tail /\ file'.there = file.there
        /\ file'.lines = IF tail = "cut" THEN file.lines ELSE Append(file.lines, e)
    BY <2>1 DEF TInv
  <2>6. /\ Tree(file'.lines) /\ Older(file'.lines, nextId')
        /\ tail = "noNewline" => file'.lines # <<>>
    <3>1. CASE tail = "cut"
      BY <3>1, <2>2, <2>3, <2>5, OlderStill DEF TreeInv
    <3>2. CASE tail = "noNewline"
      <4>1. file'.lines = Append(file.lines, e)
        BY <2>5, <3>2
      <4>2. Tree(file'.lines) /\ Older(file'.lines, nextId + 1) /\ Len(file'.lines) = Len(file.lines) + 1
        BY <4>1, <2>3, <2>4, TreeGrows DEF TreeInv
      <4>3. Len(file.lines) \in Nat
        BY TreeIds DEF TreeInv
      <4> QED
        BY <2>2, <4>2, <4>3
    <3> QED
      BY <3>1, <3>2
  <2>7. Tree(entries') /\ Older(entries', nextId')
    BY <2>1, <2>6
  <2>8. leaf' = IF entries' = <<>> THEN 0 ELSE Last(entries').id
    BY <2>1
  <2>9. leaf' = 0 \/ Listed(entries', leaf')
    BY <2>7, <2>8, LastIsListed
  <2>10. nextId' \in Nat \ {0} /\ file'.there /\ file'.tail \in {"whole", "cut", "noNewline"}
    BY <2>2, <2>3, <2>5
  <2>11. file'.tail = "noNewline" => file'.lines # <<>>
    BY <2>5, <2>6
  <2> QED
    BY <2>2, <2>6, <2>7, <2>9, <2>10, <2>11, NothingTyped DEF TreeInv
<1>9. CASE tearFirstWrite
  <2>1. PICK n \in 0..Len(entries), tail \in {"whole", "cut"} :
          /\ file' = [there |-> TRUE, lines |-> SubSeq(entries, 1, n), tail |-> tail]
          /\ entries' = SubSeq(entries, 1, n)
          /\ leaf' = IF n = 0 THEN 0 ELSE entries[n].id
          /\ damage' = IF tail = "cut" THEN damage \cup {"torn"} ELSE damage
    BY <1>9 DEF tearFirstWrite
  <2>2. nextId' = nextId + 1 /\ compacting' = Nothing /\ nextId \in Nat /\ nextId # 0
    BY <1>9 DEF tearFirstWrite, TreeInv
  <2>3. /\ Tree(entries') /\ Older(entries', nextId) /\ Len(entries') = n
        /\ \A i \in 1..n : entries'[i] = entries[i]
    BY <2>1, TreePrefix DEF TreeInv
  <2>4. Older(entries', nextId')
    BY <2>2, <2>3, OlderStill
  <2>5. "torn" \in damage' \/ Rooted(entries')
    BY <2>1, RootedPrefix DEF TreeInv
  <2>6. leaf' = 0 \/ Listed(entries', leaf')
    <3>1. CASE n # 0
      <4>1. n \in 1..n /\ n \in Nat
        BY <3>1, TreeIds DEF TreeInv
      <4> QED
        BY <4>1, <2>1, <2>3, <3>1 DEF Listed
    <3> QED
      BY <2>1, <3>1
  <2> QED
    BY <2>1, <2>2, <2>3, <2>4, <2>5, <2>6, NothingTyped DEF TreeInv
<1>10. CASE UNCHANGED treeVars
  <2>1. UNCHANGED <<entries, leaf, file, nextId, damage, compacting>>
    BY <1>10 DEF treeVars
  <2> QED
    BY <2>1 DEF TreeInv
<1> QED
  BY <1>1, <1>2, <1>3, <1>4, <1>5, <1>6, <1>7, <1>8, <1>9, <1>10 DEF TreeNext

LEMMA TreeStarts ==
  ASSUME TreeInit
  PROVE  TreeInv /\ TInv
<1>1. /\ nextId = 1 /\ leaf = 0 /\ entries = <<>> /\ compacting = Nothing
      /\ file = NoFile /\ file.lines = <<>> /\ file.there = FALSE /\ file.tail = "whole"
      /\ DOMAIN file = {"there", "lines", "tail"} /\ flushed = FALSE
  BY DEF TreeInit, NoFile
<1>2. TInv
  BY <1>1 DEF TInv, FileHoldsSession, WholeUntilTorn
<1>3. Tree(entries) /\ Older(entries, nextId) /\ Rooted(entries)
  BY <1>1, EmptyTree
<1>4. Tree(file.lines) /\ Older(file.lines, nextId)
  BY <1>1, EmptyTree
<1>5. nextId \in Nat \ {0} /\ compacting \in [at : Nat, covers : SUBSET Nat, from : Nat]
  BY <1>1, NothingTyped
<1> QED
  BY <1>1, <1>2, <1>3, <1>4, <1>5 DEF TreeInv

\* Unless a line was spoilt the parent of every entry comes before it, and the
\* leaf is an entry: so is every place that navigateTree moves it to.
THEOREM TreeWellFormed == TreeSpec => []TreeTypeOK
<1>1. TreeInit => TreeInv /\ TInv
  BY TreeStarts
<1>2. TreeInv /\ TInv /\ [TreeNext]_treeVars => (TreeInv /\ TInv)'
  BY TreeNextPreservesTree, TreeNextPreservesTInv
<1>3. TreeInv /\ TInv => TreeTypeOK
  <2> SUFFICES ASSUME TreeInv, TInv PROVE TreeTypeOK
    OBVIOUS
  <2>1. nextId \in Nat /\ Len(entries) \in Nat /\ entries \in Seq(EntrySet) /\ DOMAIN entries = 1..Len(entries)
    BY TreeIds DEF TreeInv
  <2>2. ASSUME NEW i \in 1..Len(entries)
        PROVE  /\ entries[i].id \in 1..(nextId - 1) /\ entries[i].kind \in Kinds
               /\ \A j \in 1..Len(entries) : entries[i].id = entries[j].id => i = j
    <3>1. entries[i].id \in Nat /\ entries[i].id # 0 /\ entries[i].kind \in Kinds
      BY TreeIds DEF TreeInv
    <3>2. entries[i].id < nextId
      BY DEF TreeInv, Older
    <3>3. \A j \in 1..Len(entries) : entries[i].id = entries[j].id => i = j
      BY TreeIds DEF TreeInv
    <3> QED
      BY <2>1, <3>1, <3>2, <3>3
  <2>3. ASSUME NEW i \in 1..Len(entries), "torn" \notin damage
        PROVE  entries[i].parent \in Ids(SubSeq(entries, 1, i - 1)) \cup {0}
    <3> DEFINE s == SubSeq(entries, 1, i - 1)
    <3>1. CASE Listed(entries, entries[i].parent)
      <4>1. PICK j \in 1..Len(entries) : entries[j].id = entries[i].parent
        BY <3>1 DEF Listed
      <4>2. j < i
        BY <4>1, TreeIds DEF TreeInv
      <4>3. s \in Seq(EntrySet) /\ Len(s) = i - 1 /\ j \in 1..(i - 1) /\ s[j] = entries[j]
        BY <2>1, <4>2
      <4> HIDE DEF s
      <4>4. Listed(s, entries[i].parent)
        BY <4>1, <4>3 DEF Listed
      <4>5. entries[i].parent \in Ids(s)
        BY <4>3, <4>4, IdsAre
      <4> QED
        BY <4>5 DEF s
    <3>2. CASE entries[i].parent = 0
      BY <3>2
    <3> QED
      BY <2>3, <3>1, <3>2 DEF TreeInv, Rooted
  <2>4. leaf \in Ids(entries) \cup {0}
    BY <2>1, IdsAre DEF TreeInv
  <2>5. flushed \in BOOLEAN /\ file.tail \in {"whole", "cut", "noNewline"}
    BY DEF TreeInv, TInv
  <2> QED
    BY <2>1, <2>2, <2>3, <2>4, <2>5 DEF TreeTypeOK
<1> QED
  BY <1>1, <1>2, <1>3, PTL DEF TreeSpec

-----------------------------------------------------------------------------
(* What a torn line costs: the entries lost, and the ones that the next append
   will still spoil, are at most two for each kill. *)
Lost == stored \ Ids(file.lines)
Debt == CASE file.tail = "whole" -> 0 [] file.tail = "cut" -> 1 [] OTHER -> 2

LostInv ==
  /\ tears \in Nat
  /\ IsFiniteSet(Lost)
  /\ Cardinality(Lost) + Debt <= 2 * tears

LEMMA OneMore ==
  ASSUME NEW A, IsFiniteSet(A), NEW B, NEW x, B \subseteq A \cup {x}
  PROVE  IsFiniteSet(B) /\ Cardinality(B) <= Cardinality(A) + 1 /\ Cardinality(B) \in Nat
         /\ Cardinality(A) \in Nat
<1> DEFINE C == A \cup {x}
<1>1. Cardinality(A) \in Nat
  BY FS_CardinalityType
<1>2. IsFiniteSet(C) /\ (Cardinality(C) = Cardinality(A) \/ Cardinality(C) = Cardinality(A) + 1)
  BY FS_AddElement
<1> HIDE DEF C
<1>3. B \subseteq C
  BY DEF C
<1>4. IsFiniteSet(B) /\ Cardinality(B) <= Cardinality(C)
  BY <1>2, <1>3, FS_Subset
<1>5. Cardinality(B) \in Nat
  BY <1>4, FS_CardinalityType
<1> QED
  BY <1>1, <1>2, <1>4, <1>5

LEMMA OneAtMost ==
  ASSUME NEW B, NEW x, B \subseteq {x}
  PROVE  IsFiniteSet(B) /\ Cardinality(B) <= 1 /\ Cardinality(B) \in Nat
<1>1. IsFiniteSet({}) /\ Cardinality({}) = 0
  BY FS_EmptySet
<1>2. IsFiniteSet({x}) /\ Cardinality({x}) = 1
  BY FS_Singleton
<1>3. B = {} \/ B = {x}
  OBVIOUS
<1> QED
  BY <1>1, <1>2, <1>3

LEMMA NoMore ==
  ASSUME NEW A, IsFiniteSet(A), NEW B, B \subseteq A
  PROVE  IsFiniteSet(B) /\ Cardinality(B) <= Cardinality(A) /\ Cardinality(B) \in Nat
         /\ Cardinality(A) \in Nat
BY FS_Subset, FS_CardinalityType

LEMMA NoneLost ==
  ASSUME Lost' = {}, Debt' = 0, tears' \in Nat
  PROVE  LostInv'
<1>1. IsFiniteSet({}) /\ Cardinality({}) = 0
  BY FS_EmptySet
<1>2. IsFiniteSet(Lost') /\ Cardinality(Lost') = 0
  BY <1>1
<1>3. \A t \in Nat : 0 + 0 <= 2 * t
  OBVIOUS
<1>4. Cardinality(Lost') + Debt' <= 2 * tears'
  BY <1>2, <1>3
<1> QED
  BY <1>2, <1>4 DEF LostInv

LEMMA AppendLoses ==
  ASSUME TreeInv, TInv, LostInv, NEW e, Appends(e), tears' = tears
  PROVE  LostInv'
<1>1. Tree(file.lines) /\ Len(file.lines) \in Nat /\ file.lines \in Seq(EntrySet) /\ e \in EntrySet
  BY TreeIds DEF TreeInv, Appends
<1>2. /\ file.tail \in {"whole", "cut", "noNewline"}
      /\ file.tail = "noNewline" => file.lines # <<>>
      /\ DOMAIN file = {"there", "lines", "tail"}
  BY DEF TreeInv, TInv
<1>3. CASE flushed
  <2>1. file' = AppendLine(file, e) /\ stored' = stored \cup {e.id}
    BY <1>3 DEF Appends, persist
  <2>2. file'.tail = "whole" /\ Debt' = 0
    BY <2>1, <1>2 DEF AppendLine, Debt
  <2>3. CASE file.tail = "whole"
    <3>1. file'.lines = Append(file.lines, e)
      BY <2>1, <2>3, <1>2 DEF AppendLine
    <3>2. Ids(file'.lines) = Ids(file.lines) \cup {e.id}
      <4>1. ASSUME NEW x PROVE x \in Ids(file'.lines) <=> x \in Ids(file.lines) \/ x = e.id
        <5> DEFINE fs == Append(file.lines, e)
        <5>1. fs \in Seq(EntrySet) /\ Len(fs) = Len(file.lines) + 1 /\ fs[Len(file.lines) + 1] = e
              /\ \A i \in 1..Len(file.lines) : fs[i] = file.lines[i]
          BY <1>1
        <5> HIDE DEF fs
        <5>2. Listed(fs, x) <=> Listed(file.lines, x) \/ x = e.id
          BY <5>1, <1>1 DEF Listed
        <5> QED
          BY <5>1, <5>2, <1>1, <3>1, IdsAre DEF fs
      <4> QED
        BY <4>1
    <3>3. Lost' \subseteq Lost
      BY <2>1, <3>2 DEF Lost
    <3>4. /\ IsFiniteSet(Lost') /\ Cardinality(Lost') <= Cardinality(Lost)
          /\ Cardinality(Lost') \in Nat /\ Cardinality(Lost) \in Nat
      BY <3>3, NoMore DEF LostInv
    <3>5. Debt = 0
      BY <2>3 DEF Debt
    <3> QED
      BY <2>2, <3>4, <3>5 DEF LostInv
  <2>4. CASE file.tail = "cut"
    <3>1. file'.lines = file.lines
      BY <2>1, <2>4, <1>2 DEF AppendLine
    <3>2. Lost' \subseteq Lost \cup {e.id}
      BY <2>1, <3>1 DEF Lost
    <3>3. /\ IsFiniteSet(Lost') /\ Cardinality(Lost') <= Cardinality(Lost) + 1
          /\ Cardinality(Lost') \in Nat /\ Cardinality(Lost) \in Nat
      BY <3>2, OneMore DEF LostInv
    <3>4. Debt = 1
      BY <2>4 DEF Debt
    <3> QED
      BY <2>2, <3>3, <3>4 DEF LostInv
  <2>5. CASE file.tail = "noNewline"
    <3> DEFINE last == file.lines[Len(file.lines)]
    <3>1. file'.lines = Front(file.lines) /\ Len(file.lines) > 0
      BY <2>1, <2>5, <1>1, <1>2 DEF AppendLine
    <3>2. ASSUME NEW x, x \in Ids(file.lines), x # last.id PROVE x \in Ids(file'.lines)
      <4> DEFINE fs == Front(file.lines)
      <4>1. /\ fs \in Seq(EntrySet) /\ Len(fs) = Len(file.lines) - 1
            /\ \A i \in 1..Len(fs) : fs[i] = file.lines[i]
        BY <1>1, <3>1 DEF Front
      <4> HIDE DEF fs
      <4>2. Listed(file.lines, x)
        BY <1>1, <3>2, IdsAre
      <4>3. Listed(fs, x)
        BY <4>1, <4>2, <3>2, <1>1 DEF Listed
      <4> QED
        BY <4>1, <4>3, <3>1, IdsAre DEF fs
    <3> HIDE DEF last
    <3>3. Lost' \subseteq (Lost \cup {last.id}) \cup {e.id}
      BY <2>1, <3>2 DEF Lost
    <3> DEFINE A == Lost \cup {last.id}
    <3>4. IsFiniteSet(A) /\ Cardinality(A) <= Cardinality(Lost) + 1
          /\ Cardinality(A) \in Nat /\ Cardinality(Lost) \in Nat
      BY OneMore DEF LostInv
    <3> HIDE DEF A
    <3>5. /\ IsFiniteSet(Lost') /\ Cardinality(Lost') <= Cardinality(A) + 1
          /\ Cardinality(Lost') \in Nat
      BY <3>3, <3>4, OneMore DEF A
    <3>6. Debt = 2
      BY <2>5 DEF Debt
    <3> QED
      BY <2>2, <3>4, <3>5, <3>6 DEF LostInv
  <2> QED
    BY <1>2, <2>3, <2>4, <2>5
<1>4. CASE ~flushed /\ HasAssistant(entries')
  <2>1. file' = [there |-> TRUE, lines |-> entries', tail |-> "whole"] /\ stored' = Ids(entries')
    BY <1>4 DEF Appends, persist
  <2>2. Lost' = {} /\ Debt' = 0
    BY <2>1 DEF Lost, Debt
  <2> QED
    BY <2>2, NoneLost DEF LostInv
<1>5. CASE ~flushed /\ ~HasAssistant(entries')
  <2>1. file' = file /\ stored' = stored
    BY <1>5 DEF Appends, persist
  <2> QED
    BY <2>1 DEF LostInv, Lost, Debt
<1> QED
  BY <1>3, <1>4, <1>5

LEMMA TreeNextPreservesLost ==
  ASSUME TreeInv, TInv, LostInv, [TreeNext]_treeVars
  PROVE  LostInv'
<1>1. CASE appendMessage \/ appendSetting \/ appendLabelChange
  BY <1>1, PlainAppend, AppendLoses
<1>2. CASE appendCompaction
  BY <1>2, CompactionAppend, AppendLoses
<1>3. CASE navigateTree
  <2>1. tears' = tears
    BY <1>3, NavigateIs
  <2>2. CASE UNCHANGED <<entries, flushed, file, nextId, stored>>
    BY <2>1, <2>2 DEF LostInv, Lost, Debt
  <2>3. CASE \E e : Appends(e)
    BY <2>1, <2>3, AppendLoses
  <2> QED
    BY <1>3, <2>2, <2>3, NavigateIs
<1>4. CASE fork
  <2>1. tears' = tears
    BY <1>4, ForkIs
  <2>2. \/ file' = [there |-> TRUE, lines |-> entries', tail |-> "whole"] /\ stored' = Ids(entries')
        \/ file' = NoFile /\ stored' = {}
    BY <1>4, ForkIs, BranchedFile
  <2>3. Lost' = {} /\ Debt' = 0
    BY <2>2 DEF Lost, Debt, NoFile
  <2> QED
    BY <2>1, <2>3, NoneLost DEF LostInv
<1>5. CASE prepareCompaction \/ cancelCompaction \/ setSessionFile \/ UNCHANGED treeVars
  <2>1. UNCHANGED <<file, stored, tears>>
    BY <1>5 DEF prepareCompaction, cancelCompaction, setSessionFile, treeVars
  <2> QED
    BY <2>1 DEF LostInv, Lost, Debt
<1>6. CASE tearLine
  <2> DEFINE e == Entry(nextId, leaf, "user", 0, {})
  <2>1. PICK tail \in {"cut", "noNewline"} :
          /\ file' = [file EXCEPT !.tail = tail,
                                  !.lines = IF tail = "cut" THEN @ ELSE Append(@, e)]
          /\ stored' = stored \cup {e.id}
    BY <1>6 DEF tearLine
  <2>2. tears' = tears + 1 /\ file.tail = "whole" /\ Debt = 0
    BY <1>6 DEF tearLine, Debt
  <2>3. e \in EntrySet
    BY LeafIs DEF TreeInv, Entry, EntrySet, Kinds
  <2> HIDE DEF e
  <2>4. file'.tail = tail
        /\ file'.lines = IF tail = "cut" THEN file.lines ELSE Append(file.lines, e)
    BY <2>1 DEF TInv
  <2>5. CASE tail = "cut"
    <3>1. Lost' \subseteq Lost \cup {e.id}
      BY <2>1, <2>4, <2>5 DEF Lost
    <3>2. /\ IsFiniteSet(Lost') /\ Cardinality(Lost') <= Cardinality(Lost) + 1
          /\ Cardinality(Lost') \in Nat /\ Cardinality(Lost) \in Nat
      BY <3>1, OneMore DEF LostInv
    <3>3. Debt' = 1
      BY <2>4, <2>5 DEF Debt
    <3> QED
      BY <2>2, <3>2, <3>3 DEF LostInv
  <2>6. CASE tail = "noNewline"
    <3>1. file'.lines = Append(file.lines, e)
      BY <2>4, <2>6
    <3>2. ASSUME NEW x, x \in Ids(file.lines) \/ x = e.id PROVE x \in Ids(file'.lines)
      <4> DEFINE fs == Append(file.lines, e)
      <4>0. file.lines \in Seq(EntrySet) /\ Len(file.lines) \in Nat
        BY TreeIds DEF TreeInv
      <4>1. fs \in Seq(EntrySet) /\ Len(fs) = Len(file.lines) + 1 /\ fs[Len(file.lines) + 1] = e
            /\ \A i \in 1..Len(file.lines) : fs[i] = file.lines[i]
        BY <2>3, <4>0
      <4> HIDE DEF fs
      <4>2. Listed(file.lines, x) \/ x = e.id
        BY <3>2, <4>0, IdsAre
      <4>3. Listed(fs, x)
        BY <4>0, <4>1, <4>2 DEF Listed
      <4> QED
        BY <4>1, <4>3, <3>1, IdsAre DEF fs
    <3>3. Lost' \subseteq Lost
      BY <2>1, <3>2 DEF Lost
    <3>4. /\ IsFiniteSet(Lost') /\ Cardinality(Lost') <= Cardinality(Lost)
          /\ Cardinality(Lost') \in Nat /\ Cardinality(Lost) \in Nat
      BY <3>3, NoMore DEF LostInv
    <3>5. Debt' = 2
      BY <2>4, <2>6 DEF Debt
    <3> QED
      BY <2>2, <3>4, <3>5 DEF LostInv
  <2> QED
    BY <2>5, <2>6
<1>7. CASE tearFirstWrite
  <2>1. PICK n \in 0..Len(entries), tail \in {"whole", "cut"} :
          /\ file' = [there |-> TRUE, lines |-> SubSeq(entries, 1, n), tail |-> tail]
          /\ stored' = Ids(SubSeq(entries, 1, n)) \cup
                (IF tail = "cut" /\ n < Len(entries) THEN {entries[n + 1].id} ELSE {})
    BY <1>7 DEF tearFirstWrite
  <2>2. tears' = tears + 1 /\ tears \in Nat
    BY <1>7 DEF tearFirstWrite, LostInv
  <2>3. CASE tail = "whole"
    <3>1. Lost' = {} /\ Debt' = 0
      BY <2>1, <2>3 DEF Lost, Debt
    <3> QED
      BY <2>2, <3>1, NoneLost
  <2>4. CASE tail = "cut"
    <3>1. Lost' \subseteq {entries[n + 1].id} /\ Debt' = 1
      BY <2>1, <2>4 DEF Lost, Debt
    <3>2. IsFiniteSet(Lost') /\ Cardinality(Lost') <= 1 /\ Cardinality(Lost') \in Nat
      BY <3>1, OneAtMost
    <3> QED
      BY <2>2, <3>1, <3>2 DEF LostInv
  <2> QED
    BY <2>3, <2>4
<1> QED
  BY <1>1, <1>2, <1>3, <1>4, <1>5, <1>6, <1>7 DEF TreeNext

\* A kill in the middle of a line costs that line and at most one more, the one
\* that completes it or that the completion spoils, however many appends, forks
\* and kills there were before.
THEOREM KillLosesTwo == TreeSpec => []TearLosesTwo
<1>1. TreeInit => TreeInv /\ TInv /\ LostInv
  <2>1. ASSUME TreeInit PROVE LostInv
    <3>1. Lost = {} /\ Debt = 0 /\ tears = 0
      BY <2>1 DEF TreeInit, NoFile, Lost, Debt
    <3>2. IsFiniteSet({}) /\ Cardinality({}) = 0
      BY FS_EmptySet
    <3> QED
      BY <3>1, <3>2 DEF LostInv
  <2> QED
    BY <2>1, TreeStarts
<1>2. TreeInv /\ TInv /\ LostInv /\ [TreeNext]_treeVars => (TreeInv /\ TInv /\ LostInv)'
  BY TreeNextPreservesTree, TreeNextPreservesTInv, TreeNextPreservesLost
<1>3. LostInv => TearLosesTwo
  <2> SUFFICES ASSUME LostInv PROVE TearLosesTwo
    OBVIOUS
  <2>1. Cardinality(Lost) \in Nat /\ Debt \in {0, 1, 2} /\ tears \in Nat
        /\ Cardinality(Lost) + Debt <= 2 * tears
    BY FS_CardinalityType DEF LostInv, Debt
  <2> DEFINE n == Cardinality(Lost)
             d == Debt
  <2>2. n \in Nat /\ d \in Nat /\ n + d <= 2 * tears /\ 2 * tears \in Nat
    BY <2>1
  <2> HIDE DEF n, d
  <2>3. n <= 2 * tears
    BY <2>2
  <2> QED
    BY <2>3 DEF TearLosesTwo, Lost, n
<1> QED
  BY <1>1, <1>2, <1>3, PTL DEF TreeSpec

-----------------------------------------------------------------------------
(* What holds of every path: a set of paths that has the path to each entry. *)
AllPaths(es, S) == \A i \in 1..Len(es) : getBranch(es, es[i].id) \in S

LEMMA PathInPaths ==
  ASSUME NEW es, NEW S, AllPaths(es, S), NEW id, Listed(es, id)
  PROVE  getBranch(es, id) \in S
BY DEF AllPaths, Listed

LEMMA PathsPrefix ==
  ASSUME NEW es, Tree(es), NEW fs, Tree(fs), Extends(fs, es), NEW S, AllPaths(fs, S)
  PROVE  AllPaths(es, S)
<1>1. Len(es) \in Nat /\ Len(fs) \in Nat
  BY TreeIds
<1>2. ASSUME NEW i \in 1..Len(es) PROVE getBranch(es, es[i].id) \in S
  <2>1. i \in 1..Len(fs) /\ fs[i] = es[i] /\ Listed(es, es[i].id)
    BY <1>1 DEF Extends, Listed
  <2>2. getBranch(fs, es[i].id) = getBranch(es, es[i].id)
    BY <2>1, BranchStays
  <2> QED
    BY <2>1, <2>2 DEF AllPaths
<1> QED
  BY <1>2 DEF AllPaths

LEMMA PathsAppend ==
  ASSUME NEW es, Tree(es), NEW n \in Nat, Older(es, n), NEW e \in EntrySet, e.id = n, e.parent < n,
         NEW S, AllPaths(es, S), Append(getBranch(es, e.parent), e) \in S
  PROVE  LET fs == Append(es, e)
         IN  /\ AllPaths(fs, S)
             /\ \A id : Listed(es, id) => Listed(fs, id) /\ getBranch(fs, id) = getBranch(es, id)
             /\ getBranch(fs, e.id) = Append(getBranch(es, e.parent), e)
<1> DEFINE fs == Append(es, e)
<1>1. /\ Tree(fs) /\ Extends(fs, es) /\ Len(fs) = Len(es) + 1 /\ fs[Len(es) + 1] = e
  BY TreeGrows
<1>2. Len(es) \in Nat /\ es \in Seq(EntrySet)
  BY TreeIds
<1> HIDE DEF fs
<1>3. ASSUME NEW id, Listed(es, id) PROVE Listed(fs, id) /\ getBranch(fs, id) = getBranch(es, id)
  <2>1. Listed(fs, id)
    BY <1>1, <1>2, <1>3 DEF Listed, Extends
  <2> QED
    BY <2>1, <1>1, <1>3, BranchStays
<1>4. getBranch(fs, e.id) = Append(getBranch(es, e.parent), e)
  <2>1. getBranch(fs, e.id) = Append(getBranch(fs, e.parent), e)
    <3> DEFINE i == Len(es) + 1
    <3>1. i \in 1..Len(fs) /\ fs[i] = e
      BY <1>1, <1>2
    <3> HIDE DEF i
    <3> QED
      BY <1>1, <3>1, BranchOfEntry
  <2>2. getBranch(fs, e.parent) = getBranch(es, e.parent)
    <3>1. CASE Listed(es, e.parent)
      BY <1>3, <3>1
    <3>2. CASE ~Listed(es, e.parent)
      <4>1. ~Listed(fs, e.parent)
        <5> SUFFICES ASSUME NEW k \in 1..Len(fs), fs[k].id = e.parent PROVE FALSE
          BY DEF Listed
        <5>1. k \in 1..Len(es) \/ k = Len(es) + 1
          BY <1>1, <1>2
        <5>2. CASE k \in 1..Len(es)
          BY <5>2, <1>1, <3>2 DEF Extends, Listed
        <5>3. CASE k = Len(es) + 1
          BY <5>3, <1>1, EntryType
        <5> QED
          BY <5>1, <5>2, <5>3
      <4>2. fs \in Seq(EntrySet)
        BY <1>1, TreeIds
      <4> QED
        BY <1>2, <3>2, <4>1, <4>2, BranchType
    <3> QED
      BY <3>1, <3>2
  <2> QED
    BY <2>1, <2>2
<1>5. ASSUME NEW i \in 1..Len(fs) PROVE getBranch(fs, fs[i].id) \in S
  <2>1. CASE i \in 1..Len(es)
    <3>1. fs[i] = es[i] /\ Listed(es, es[i].id)
      BY <2>1, <1>1 DEF Extends, Listed
    <3> QED
      BY <3>1, <2>1, <1>3 DEF AllPaths
  <2>2. CASE i = Len(es) + 1
    BY <2>2, <1>1, <1>4
  <2> QED
    BY <2>1, <2>2, <1>1, <1>2
<1> QED
  BY <1>3, <1>4, <1>5 DEF AllPaths, fs

LEMMA PathsOfChain ==
  ASSUME NEW es, Tree(es), Chain(es), NEW S, \A n \in 1..Len(es) : SubSeq(es, 1, n) \in S
  PROVE  AllPaths(es, S)
<1>1. \A n \in 1..Len(es) : getBranch(es, es[n].id) = SubSeq(es, 1, n)
  BY ChainPaths DEF Chain
<1> QED
  BY <1>1 DEF AllPaths

\* A fork's position on the path of an entry, and the other way round.
LEMMA ForkedPath ==
  ASSUME NEW p \in Seq(EntrySet), NEW w, NEW pos, Forked(w, pos, p), Len(w) \in Nat
  PROVE  /\ \A i \in 1..Len(w) : /\ pos[i] \in 1..Len(p) /\ pos[i] \in Nat
                                 /\ w[i].id = p[pos[i]].id /\ w[i].kind = p[pos[i]].kind
                                 /\ w[i].at = p[pos[i]].at /\ w[i].covers = p[pos[i]].covers
                                 /\ InContext(w[i]) <=> InContext(p[pos[i]])
         /\ \A k \in 1..Len(p) : ~IsLabel(p[k]) => \E i \in 1..Len(w) : pos[i] = k
         /\ \A i, j \in 1..Len(w) : i < j <=> pos[i] < pos[j]
<1>1. Len(p) \in Nat /\ pos \in [1..Len(w) -> 1..Len(p)]
  BY DEF Forked
<1>2. ASSUME NEW i \in 1..Len(w)
      PROVE  /\ pos[i] \in 1..Len(p) /\ pos[i] \in Nat
             /\ w[i].id = p[pos[i]].id /\ w[i].kind = p[pos[i]].kind
             /\ w[i].at = p[pos[i]].at /\ w[i].covers = p[pos[i]].covers
             /\ InContext(w[i]) <=> InContext(p[pos[i]])
  BY <1>1 DEF Forked, SameEntry, InContext, IsMessage
<1>3. \A i, j \in 1..Len(w) : i < j => pos[i] < pos[j]
  BY DEF Forked
<1>4. ASSUME NEW i \in 1..Len(w), NEW j \in 1..Len(w), pos[i] < pos[j] PROVE i < j
  <2>1. ~(j < i)
    BY <1>2, <1>3, <1>4
  <2>2. i # j
    BY <1>2, <1>4
  <2> QED
    BY <2>1, <2>2
<1>5. \A k \in 1..Len(p) : ~IsLabel(p[k]) => \E i \in 1..Len(w) : pos[i] = k
  BY DEF Forked
<1> QED
  BY <1>2, <1>3, <1>4, <1>5

-----------------------------------------------------------------------------
(* NothingForgotten.  A compaction on a path has its first kept entry before it
   on that path, and accounts for all that is sent from before that entry. *)
Covers(p, a, covers) == \A k \in 1..(a - 1) : InContext(p[k]) => p[k].id \in covers

Kept(p, n) ==
  p[n].kind = "compaction" =>
    \E a \in 1..(n - 1) : p[a].id = p[n].at /\ Covers(p, a, p[n].covers)

KeptPaths == {p \in Seq(EntrySet) : \A n \in 1..Len(p) : Kept(p, n)}

\* The same for the compaction whose summary is still being written.
Summarizes(es, at, covers) ==
  /\ Listed(es, at)
  /\ Covers(getBranch(es, at), Len(getBranch(es, at)), covers)

CoverInv ==
  damage \subseteq {"moved"} =>
    /\ AllPaths(entries, KeptPaths)
    /\ compacting # Nothing => Summarizes(entries, compacting.at, compacting.covers)

LEMMA NoPathKept == <<>> \in KeptPaths
BY DEF KeptPaths

LEMMA KeptSame ==
  ASSUME NEW p, NEW q, NEW n \in Nat, n > 0, \A k \in 1..n : p[k] = q[k], Kept(p, n)
  PROVE  Kept(q, n)
<1>1. n \in 1..n /\ q[n] = p[n]
  OBVIOUS
<1> SUFFICES ASSUME q[n].kind = "compaction"
             PROVE  \E a \in 1..(n - 1) : q[a].id = q[n].at /\ Covers(q, a, q[n].covers)
  BY DEF Kept
<1>2. PICK a \in 1..(n - 1) : p[a].id = p[n].at /\ Covers(p, a, p[n].covers)
  BY <1>1 DEF Kept
<1>3. a \in 1..n /\ \A k \in 1..(a - 1) : k \in 1..n
  OBVIOUS
<1>4. q[a].id = q[n].at
  BY <1>1, <1>2, <1>3
<1>5. Covers(q, a, q[n].covers)
  BY <1>1, <1>2, <1>3 DEF Covers
<1> QED
  BY <1>4, <1>5

LEMMA KeptAppend ==
  ASSUME NEW p \in KeptPaths, NEW e \in EntrySet, Kept(Append(p, e), Len(p) + 1)
  PROVE  Append(p, e) \in KeptPaths
<1> DEFINE q == Append(p, e)
<1>1. p \in Seq(EntrySet) /\ Len(p) \in Nat
  BY DEF KeptPaths
<1>2. q \in Seq(EntrySet) /\ Len(q) = Len(p) + 1 /\ \A k \in 1..Len(p) : p[k] = q[k]
  BY <1>1
<1>3. Kept(q, Len(p) + 1)
  OBVIOUS
<1> HIDE DEF q
<1>4. ASSUME NEW n \in 1..Len(q) PROVE Kept(q, n)
  <2>1. CASE n \in 1..Len(p)
    <3>1. n \in Nat /\ n > 0 /\ Kept(p, n) /\ \A k \in 1..n : k \in 1..Len(p)
      BY <2>1, <1>1 DEF KeptPaths
    <3>2. \A k \in 1..n : p[k] = q[k]
      BY <3>1, <1>2
    <3> QED
      BY <3>1, <3>2, KeptSame
  <2>2. CASE n = Len(p) + 1
    BY <2>2, <1>3
  <2> QED
    BY <2>1, <2>2, <1>1, <1>2
<1>5. q \in KeptPaths
  BY <1>2, <1>4 DEF KeptPaths
<1> QED
  BY <1>5 DEF q

LEMMA KeptPrefix ==
  ASSUME NEW p \in KeptPaths, NEW m \in 0..Len(p)
  PROVE  SubSeq(p, 1, m) \in KeptPaths
<1> DEFINE q == SubSeq(p, 1, m)
<1>1. p \in Seq(EntrySet) /\ Len(p) \in Nat
  BY DEF KeptPaths
<1>2. q \in Seq(EntrySet) /\ Len(q) = m /\ m \in Nat /\ \A k \in 1..m : p[k] = q[k]
  BY <1>1
<1> HIDE DEF q
<1>3. ASSUME NEW n \in 1..m PROVE Kept(q, n)
  <2>1. n \in Nat /\ n > 0 /\ Kept(p, n) /\ \A k \in 1..n : p[k] = q[k]
    BY <1>1, <1>2 DEF KeptPaths
  <2> QED
    BY <2>1, KeptSame
<1>4. q \in KeptPaths
  BY <1>2, <1>3 DEF KeptPaths
<1> QED
  BY <1>4 DEF q

LEMMA ForkOfPath ==
  ASSUME NEW opened, Tree(opened), NEW id
  PROVE  LET p == getBranch(opened, id)
             w == pathWithoutLabels(p)
         IN  PathIn(opened, p) /\ Tree(w) /\ \E pos : Forked(w, pos, p)
<1> DEFINE p == getBranch(opened, id)
           w == pathWithoutLabels(p)
<1>1. PathIn(opened, p)
  BY PathIsPathIn
<1> HIDE DEF p
<1>2. ASSUME NEW k \in 1..Len(p) PROVE p[k].id # 0
  <2>1. PICK i \in 1..Len(opened) : p[k] = opened[i]
    BY <1>1 DEF PathIn
  <2> QED
    BY <2>1, TreeIds
<1>3. p \in Seq(EntrySet) /\ \A j, k \in 1..Len(p) : j < k => p[j].id < p[k].id
  BY <1>1 DEF PathIn
<1>4. Tree(w) /\ \E pos : Forked(w, pos, p)
  BY <1>2, <1>3, WithoutLabels
<1> QED
  BY <1>1, <1>4 DEF p

\* A fork keeps what a compaction starts at, unless that was a label.
LEMMA ForkKept ==
  ASSUME NEW es, Tree(es), Chain(es), NEW opened, Tree(opened), NEW id,
         AllPaths(opened, KeptPaths),
         LET p == getBranch(opened, id)
             w == pathWithoutLabels(p)
         IN  /\ Len(w) <= Len(es)
             /\ \A i \in 1..Len(w) : es[i] = w[i]
             /\ \A i \in (Len(w) + 1)..Len(es) : es[i].kind = "label",
         \A e \in Range(es) : e.kind = "compaction" => e.at \in Ids(es)
  PROVE  AllPaths(es, KeptPaths)
<1> DEFINE p == getBranch(opened, id)
           w == pathWithoutLabels(p)
<1>1. /\ Len(w) <= Len(es) /\ \A i \in 1..Len(w) : es[i] = w[i]
      /\ \A i \in (Len(w) + 1)..Len(es) : es[i].kind = "label"
  OBVIOUS
<1>2. PathIn(opened, p) /\ Tree(w) /\ \E pos : Forked(w, pos, p)
  BY ForkOfPath
<1>3. p \in KeptPaths
  <2>1. CASE Listed(opened, id)
    BY <2>1, PathInPaths
  <2>2. CASE ~Listed(opened, id)
    BY <2>2, BranchType, NoPathKept DEF Tree
  <2> QED
    BY <2>1, <2>2
<1> HIDE DEF p, w
<1>4. PICK pos : Forked(w, pos, p)
  BY <1>2
<1>5. p \in Seq(EntrySet) /\ Len(p) \in Nat /\ Len(w) \in Nat /\ Len(es) \in Nat /\ es \in Seq(EntrySet)
  BY <1>2, TreeIds DEF PathIn
<1>6. /\ \A i \in 1..Len(w) : /\ pos[i] \in 1..Len(p) /\ pos[i] \in Nat
                              /\ w[i].id = p[pos[i]].id /\ w[i].kind = p[pos[i]].kind
                              /\ w[i].at = p[pos[i]].at /\ w[i].covers = p[pos[i]].covers
                              /\ InContext(w[i]) <=> InContext(p[pos[i]])
      /\ \A i, j \in 1..Len(w) : i < j <=> pos[i] < pos[j]
  BY <1>4, <1>5, ForkedPath
<1>7. \A j, k \in 1..Len(p) : p[j].id = p[k].id => j = k
  <2>1. \A j \in 1..Len(p) : p[j].id \in Nat
    BY <1>5, EntryType
  <2>2. \A j, k \in 1..Len(p) : j < k => p[j].id < p[k].id
    BY <1>2 DEF PathIn
  <2> QED
    BY <2>1, <2>2, <1>5, SMTT(30)
<1>8. ASSUME NEW i \in 1..Len(es), es[i].kind = "compaction"
      PROVE  \E a \in 1..(i - 1) : es[a].id = es[i].at /\ Covers(es, a, es[i].covers)
  <2>1. i \in 1..Len(w) /\ es[i] = w[i]
    BY <1>1, <1>5, <1>8
  <2>2. p[pos[i]].kind = "compaction" /\ pos[i] \in 1..Len(p)
    BY <2>1, <1>6, <1>8
  <2>3. PICK b \in 1..(pos[i] - 1) :
          p[b].id = p[pos[i]].at /\ Covers(p, b, p[pos[i]].covers)
    BY <2>2, <1>3 DEF KeptPaths, Kept
  <2>4. es[i] \in Range(es)
    BY <1>5 DEF Range
  <2>5. Listed(es, es[i].at)
    BY <2>4, <1>5, <1>8, IdsAre
  <2>6. PICK a \in 1..Len(es) : es[a].id = es[i].at
    BY <2>5 DEF Listed
  <2>7. es[a].id = p[b].id /\ es[i].id = p[pos[i]].id
    BY <2>1, <2>3, <2>6, <1>6
  <2>8. b \in 1..Len(p) /\ b < pos[i] /\ p[b].id < p[pos[i]].id
    <3>1. pos[i] \in Nat /\ b \in 1..Len(p) /\ b < pos[i]
      BY <2>2, <2>3, <1>5
    <3> QED
      BY <3>1, <2>2, <1>2 DEF PathIn
  <2>9. a < i
    <3>1. es[a].id < es[i].id /\ es[a].id \in Nat /\ es[i].id \in Nat
      BY <2>7, <2>8, TreeIds
    <3>2. ~(i < a) /\ i # a
      BY <3>1 DEF Tree
    <3> QED
      BY <3>2
  <2>10. a \in 1..Len(w) /\ a \in 1..(i - 1)
    BY <2>1, <2>9, <1>5
  <2>11. pos[a] = b
    <3>1. p[pos[a]].id = p[b].id /\ pos[a] \in 1..Len(p)
      BY <2>7, <2>10, <1>1, <1>6
    <3> QED
      BY <3>1, <2>8, <1>7
  <2>12. Covers(es, a, es[i].covers)
    <3> SUFFICES ASSUME NEW k \in 1..(a - 1), InContext(es[k]) PROVE es[k].id \in es[i].covers
      BY DEF Covers
    <3>1. k \in 1..Len(w) /\ k < a /\ es[k] = w[k]
      BY <2>10, <1>1, <1>5
    <3>2. pos[k] \in 1..(b - 1)
      BY <3>1, <2>8, <2>10, <2>11, <1>6
    <3>3. InContext(p[pos[k]]) /\ es[k].id = p[pos[k]].id
      BY <3>1, <1>6
    <3>4. p[pos[k]].id \in p[pos[i]].covers
      BY <3>2, <3>3, <2>3 DEF Covers
    <3> QED
      BY <3>3, <3>4, <2>1, <1>6
  <2> QED
    BY <2>6, <2>10, <2>12
<1>9. es \in KeptPaths
  BY <1>5, <1>8 DEF KeptPaths, Kept
<1>10. \A n \in 1..Len(es) : SubSeq(es, 1, n) \in KeptPaths
  BY <1>5, <1>9, KeptPrefix
<1> QED
  BY <1>10, PathsOfChain

LEMMA AppendKeepsCover ==
  ASSUME TreeInv, NEW e, Appends(e), e.parent = 0 \/ Listed(entries, e.parent),
         AllPaths(entries, KeptPaths),
         LET p == getBranch(entries, e.parent) IN Kept(Append(p, e), Len(p) + 1)
  PROVE  /\ AllPaths(entries', KeptPaths)
         /\ \A at, covers : Summarizes(entries, at, covers) => Summarizes(entries', at, covers)
<1> DEFINE p == getBranch(entries, e.parent)
<1>1. p \in KeptPaths
  <2>1. CASE Listed(entries, e.parent)
    BY <2>1, PathInPaths
  <2>2. CASE ~Listed(entries, e.parent)
    BY <2>2, BranchType, NoPathKept DEF TreeInv, Tree
  <2> QED
    BY <2>1, <2>2
<1>2. e \in EntrySet /\ e.id = nextId /\ e.parent < nextId /\ entries' = Append(entries, e)
      /\ nextId \in Nat
  BY DEF Appends, TreeInv
<1>3. Append(p, e) \in KeptPaths
  <2>1. Kept(Append(p, e), Len(p) + 1)
    OBVIOUS
  <2> HIDE DEF p
  <2> QED
    BY <2>1, <1>1, <1>2, KeptAppend
<1>4. /\ AllPaths(Append(entries, e), KeptPaths)
      /\ \A id : Listed(entries, id) =>
           /\ Listed(Append(entries, e), id)
           /\ getBranch(Append(entries, e), id) = getBranch(entries, id)
  BY <1>2, <1>3, PathsAppend DEF TreeInv
<1>5. \A id : Listed(entries, id) => Listed(entries', id) /\ getBranch(entries', id) = getBranch(entries, id)
  BY <1>2, <1>4
<1> QED
  BY <1>2, <1>4, <1>5 DEF Summarizes

\* An entry that is no compaction keeps it all.
LEMMA NoCompactionKept ==
  ASSUME NEW p \in Seq(EntrySet), NEW e, e.kind # "compaction"
  PROVE  Kept(Append(p, e), Len(p) + 1)
BY DEF Kept

LEMMA PathOfLeaf ==
  ASSUME TreeInv
  PROVE  LET path == getBranch(entries, leaf)
         IN  /\ PathIn(entries, path)
             /\ path \in Seq(EntrySet) /\ Len(path) \in Nat
             /\ \A k \in 1..Len(path) :
                  /\ path[k] \in EntrySet
                  /\ Listed(entries, path[k].id)
                  /\ getBranch(entries, path[k].id) = SubSeq(path, 1, k)
             /\ \A j, k \in 1..Len(path) : path[j].id = path[k].id => j = k
             /\ Len(path) > 0 => Listed(entries, leaf)
<1> DEFINE path == getBranch(entries, leaf)
<1>1. PathIn(entries, path)
  BY PathIsPathIn DEF TreeInv
<1>2. Len(path) > 0 => Listed(entries, leaf)
  BY BranchType DEF TreeInv, Tree
<1> HIDE DEF path
<1>3. path \in Seq(EntrySet) /\ Len(path) \in Nat
  BY <1>1 DEF PathIn
<1>4. \A k \in 1..Len(path) : path[k] \in EntrySet /\ path[k].id \in Nat
  BY <1>3, EntryType
<1>5. \A k \in 1..Len(path) : /\ Listed(entries, path[k].id)
                              /\ getBranch(entries, path[k].id) = SubSeq(path, 1, k)
  BY <1>1 DEF PathIn, Listed
<1>6. \A j, k \in 1..Len(path) : path[j].id = path[k].id => j = k
  <2>1. \A j, k \in 1..Len(path) : j < k => path[j].id < path[k].id
    BY <1>1 DEF PathIn
  <2> QED
    BY <2>1, <1>3, <1>4
<1> QED
  BY <1>1, <1>2, <1>3, <1>4, <1>5, <1>6 DEF path

\* prepareCompaction accounts for everything before the cut, what the previous
\* summary stands for included.
LEMMA PrepareCovers ==
  ASSUME TreeInv, AllPaths(entries, KeptPaths), prepareCompaction
  PROVE  Summarizes(entries, compacting'.at, compacting'.covers)
<1> DEFINE path == getBranch(entries, leaf)
           c == LatestCompaction(path)
           start == boundaryStart(path)
<1>1. /\ path \in Seq(EntrySet) /\ Len(path) \in Nat
      /\ \A k \in 1..Len(path) : /\ Listed(entries, path[k].id)
                                 /\ getBranch(entries, path[k].id) = SubSeq(path, 1, k)
      /\ \A j, k \in 1..Len(path) : path[j].id = path[k].id => j = k
      /\ Len(path) > 0 => Listed(entries, leaf)
  BY PathOfLeaf
<1>2. Len(path) > 0 /\ path[Len(path)].kind # "compaction"
  BY PrepareIs
<1>3. PICK cut \in start..Len(path) :
        /\ compacting'.at = path[cut].id
        /\ c > 0 => path[c].covers \subseteq compacting'.covers
        /\ \A k \in start..(cut - 1) : InContext(path[k]) => path[k].id \in compacting'.covers
  BY PrepareIs
<1>4. path \in KeptPaths
  BY <1>1, <1>2, PathInPaths
<1> HIDE DEF path
<1>5. /\ start \in 1..Len(path) /\ c \in 0..(Len(path) - 1)
      /\ c = 0 => start = 1
      /\ c > 0 => \/ path[start].id = path[c].at
                  \/ \A k \in 1..Len(path) : path[k].id # path[c].at
  BY <1>1, <1>2, BoundaryIs
<1>6. c > 0 => path[c].kind = "compaction"
  BY <1>1, LatestCompactionIs
<1> HIDE DEF c, start
<1>7. cut \in 1..Len(path) /\ cut \in Nat
  BY <1>1, <1>3, <1>5
<1>8. ASSUME NEW k \in 1..(cut - 1), InContext(path[k]) PROVE path[k].id \in compacting'.covers
  <2>1. CASE k >= start
    BY <2>1, <1>3, <1>5, <1>7, <1>8
  <2>2. CASE ~(k >= start)
    <3>1. c > 0 /\ c \in 1..Len(path) /\ k < start
      BY <2>2, <1>1, <1>5
    <3>2. PICK a \in 1..(c - 1) : path[a].id = path[c].at /\ Covers(path, a, path[c].covers)
      BY <3>1, <1>4, <1>6 DEF KeptPaths, Kept
    <3>3. a = start
      BY <3>1, <3>2, <1>1, <1>5
    <3>4. k \in 1..(a - 1)
      BY <3>1, <3>3, <1>5
    <3>5. path[k].id \in path[c].covers
      BY <3>2, <3>4, <1>8 DEF Covers
    <3> QED
      BY <3>1, <3>5, <1>3
  <2> QED
    BY <2>1, <2>2
<1> DEFINE q == SubSeq(path, 1, cut)
<1>9. Len(q) = cut /\ \A k \in 1..cut : q[k] = path[k]
  BY <1>1, <1>7
<1>10. Listed(entries, path[cut].id) /\ getBranch(entries, path[cut].id) = q
  BY <1>1, <1>7
<1> HIDE DEF q
<1>11. Covers(q, cut, compacting'.covers)
  BY <1>7, <1>8, <1>9 DEF Covers
<1> QED
  BY <1>3, <1>9, <1>10, <1>11 DEF Summarizes

\* appendCompaction: on another branch too, as long as the entry is on it.
LEMMA CompactionKept ==
  ASSUME TreeInv, Summarizes(entries, compacting.at, compacting.covers),
         compacting.at \in Ids(getBranch(entries, leaf)),
         NEW e, e.at = compacting.at, e.covers = compacting.covers
  PROVE  LET p == getBranch(entries, leaf) IN Kept(Append(p, e), Len(p) + 1)
<1> DEFINE p == getBranch(entries, leaf)
           q == Append(p, e)
<1>1. /\ p \in Seq(EntrySet) /\ Len(p) \in Nat
      /\ \A k \in 1..Len(p) : getBranch(entries, p[k].id) = SubSeq(p, 1, k)
  BY PathOfLeaf
<1> HIDE DEF p
<1>2. PICK a \in 1..Len(p) : p[a].id = compacting.at
  BY <1>1, IdsAre DEF Listed, p
<1>3. Covers(SubSeq(p, 1, a), a, compacting.covers)
  <2>1. getBranch(entries, compacting.at) = SubSeq(p, 1, a) /\ Len(SubSeq(p, 1, a)) = a
    BY <1>1, <1>2
  <2> QED
    BY <2>1 DEF Summarizes
<1>4. q[Len(p) + 1] = e /\ \A k \in 1..Len(p) : q[k] = p[k] /\ (k <= a => SubSeq(p, 1, a)[k] = p[k])
  BY <1>1, <1>2
<1> HIDE DEF q
<1>5. Covers(q, a, e.covers)
  BY <1>1, <1>2, <1>3, <1>4 DEF Covers
<1>6. Kept(q, Len(p) + 1)
  BY <1>1, <1>2, <1>4, <1>5 DEF Kept
<1> QED
  BY <1>6 DEF p, q

LEMMA TreeNextPreservesCover ==
  ASSUME TreeInv, TInv, CoverInv, [TreeNext]_treeVars
  PROVE  CoverInv'
<1> SUFFICES ASSUME damage' \subseteq {"moved"}
             PROVE  /\ AllPaths(entries', KeptPaths)
                    /\ compacting' # Nothing =>
                         Summarizes(entries', compacting'.at, compacting'.covers)
  BY DEF CoverInv
<1>1. "strayed" \notin damage' /\ "torn" \notin damage' /\ "unkept" \notin damage'
  OBVIOUS
<1>2. ASSUME damage \subseteq damage'
      PROVE  /\ AllPaths(entries, KeptPaths) /\ "torn" \notin damage
             /\ compacting # Nothing => Summarizes(entries, compacting.at, compacting.covers)
  <2>1. damage \subseteq {"moved"}
    BY <1>2
  <2> QED
    BY <1>1, <1>2, <2>1 DEF CoverInv
<1>3. \A id : getBranch(entries, id) \in Seq(EntrySet)
  BY BranchType DEF TreeInv, Tree
<1>4. leaf = 0 \/ Listed(entries, leaf)
  BY DEF TreeInv
<1>5. CASE appendMessage \/ appendSetting \/ appendLabelChange
  <2>1. compacting' = compacting /\ damage' = damage
    BY <1>5, PlainAppend
  <2>2. PICK e : Appends(e) /\ e.parent = leaf /\ e.kind # "compaction"
    BY <1>5, PlainAppend
  <2>3. /\ AllPaths(entries', KeptPaths)
        /\ \A at, covers : Summarizes(entries, at, covers) => Summarizes(entries', at, covers)
    BY <1>2, <1>3, <1>4, <2>1, <2>2, NoCompactionKept, AppendKeepsCover
  <2> QED
    BY <1>2, <2>1, <2>3
<1>6. CASE appendCompaction
  <2>1. /\ compacting # Nothing /\ compacting' = Nothing /\ damage \subseteq damage'
        /\ compacting.at \in Ids(getBranch(entries, leaf))
    BY <1>1, <1>6, CompactionAppend
  <2>2. PICK e : /\ Appends(e) /\ e.parent = leaf
                 /\ e.at = compacting.at /\ e.covers = compacting.covers
    BY <1>6, CompactionAppend
  <2>3. LET p == getBranch(entries, leaf) IN Kept(Append(p, e), Len(p) + 1)
    BY <1>2, <2>1, <2>2, CompactionKept
  <2>4. AllPaths(entries', KeptPaths)
    BY <1>2, <1>4, <2>1, <2>2, <2>3, AppendKeepsCover
  <2> QED
    BY <2>1, <2>4
<1>7. CASE prepareCompaction
  <2>1. UNCHANGED <<entries, damage>>
    BY <1>7 DEF prepareCompaction
  <2>2. Summarizes(entries, compacting'.at, compacting'.covers)
    BY <1>2, <1>7, <2>1, PrepareCovers
  <2> QED
    BY <1>2, <2>1, <2>2
<1>8. CASE cancelCompaction
  <2>1. UNCHANGED <<entries, damage>> /\ compacting' = Nothing
    BY <1>8 DEF cancelCompaction
  <2> QED
    BY <1>2, <2>1
<1>9. CASE navigateTree
  <2>1. compacting' = compacting /\ damage' = damage
    BY <1>9, NavigateIs
  <2>2. CASE entries' = entries
    BY <1>2, <2>1, <2>2
  <2>3. ASSUME NEW e, Appends(e), e.kind = "branchSummary", e.parent = 0 \/ Listed(entries, e.parent)
        PROVE  /\ AllPaths(entries', KeptPaths)
               /\ compacting' # Nothing =>
                    Summarizes(entries', compacting'.at, compacting'.covers)
    <3>1. /\ AllPaths(entries', KeptPaths)
          /\ \A at, covers : Summarizes(entries, at, covers) => Summarizes(entries', at, covers)
      BY <1>2, <1>3, <2>1, <2>3, NoCompactionKept, AppendKeepsCover
    <3> QED
      BY <1>2, <2>1, <3>1
  <2> QED
    BY <1>9, <2>2, <2>3, NavigateIs
<1>10. CASE fork
  <2>1. compacting' = Nothing
    BY <1>10, ForkIs
  <2>2. ASSUME NEW id, flushed, createBranchedSession(file.lines, id)
        PROVE  AllPaths(entries', KeptPaths)
    <3>1. damage \subseteq damage'
      BY <2>2, BranchedFile
    <3>5. \A e \in Range(entries') : e.kind = "compaction" => e.at \in Ids(entries')
      BY <1>1, <2>2, BranchedFile, Zenon
    <3>2. file.lines = entries /\ AllPaths(file.lines, KeptPaths)
      BY <1>2, <2>2, <3>1 DEF TInv, FileHoldsSession
    <3>3. Tree(file.lines) /\ Tree(entries') /\ Chain(entries')
      BY <2>2, BranchedSession DEF TreeInv
    <3>4. LET p == getBranch(file.lines, id)
              w == pathWithoutLabels(p)
          IN  /\ Len(w) <= Len(entries')
              /\ \A i \in 1..Len(w) : entries'[i] = w[i]
              /\ \A i \in (Len(w) + 1)..Len(entries') : entries'[i].kind = "label"
      BY <2>2, BranchedSession DEF TreeInv
    <3> QED
      BY <3>2, <3>3, <3>4, <3>5, ForkKept
  <2>3. ASSUME entries' = <<>> PROVE AllPaths(entries', KeptPaths)
    BY <2>3 DEF AllPaths
  <2> QED
    BY <1>10, <2>1, <2>2, <2>3, ForkIs
<1>11. CASE setSessionFile
  <2>1. entries' = file.lines /\ compacting' = Nothing /\ damage' = damage
    BY <1>11 DEF setSessionFile
  <2>2. file.lines = entries \/ file.lines = <<>>
    BY <1>2, <2>1 DEF TreeInv, TInv, FileHoldsSession, NoFile
  <2>3. entries' = <<>> => AllPaths(entries', KeptPaths)
    BY DEF AllPaths
  <2> QED
    BY <1>2, <2>1, <2>2, <2>3
<1>12. CASE tearLine
  BY <1>1, <1>12 DEF tearLine
<1>13. CASE tearFirstWrite
  <2>1. PICK n \in 0..Len(entries), tail \in {"whole", "cut"} :
          /\ entries' = SubSeq(entries, 1, n)
          /\ damage' = IF tail = "cut" THEN damage \cup {"torn"} ELSE damage
    BY <1>13 DEF tearFirstWrite
  <2>2. compacting' = Nothing /\ damage' = damage
    BY <1>1, <1>13, <2>1 DEF tearFirstWrite
  <2>3. Tree(entries') /\ Extends(entries, entries')
    BY <2>1, TreePrefix DEF TreeInv
  <2>4. AllPaths(entries', KeptPaths)
    BY <1>2, <2>2, <2>3, PathsPrefix DEF TreeInv
  <2> QED
    BY <2>2, <2>4
<1>14. CASE UNCHANGED treeVars
  <2>1. UNCHANGED <<entries, damage, compacting>>
    BY <1>14 DEF treeVars
  <2> QED
    BY <1>2, <2>1
<1> QED
  BY <1>5, <1>6, <1>7, <1>8, <1>9, <1>10, <1>11, <1>12, <1>13, <1>14 DEF TreeNext

\* What is sent starts where the latest compaction says, and that comes before it.
LEMMA SentFromIs ==
  ASSUME NEW path \in KeptPaths,
         \A j, k \in 1..Len(path) : path[j].id = path[k].id => j = k
  PROVE  LET c == LatestCompaction(path)
             s == sentFrom(path)
         IN  /\ c \in 0..Len(path)
             /\ c = 0 => s = 1
             /\ c > 0 => /\ path[c].kind = "compaction"
                         /\ s \in 1..(c - 1) /\ path[s].id = path[c].at
                         /\ Covers(path, s, path[c].covers)
             /\ \A k \in (c + 1)..Len(path) : path[k].kind # "compaction"
<1> DEFINE c == LatestCompaction(path)
           kept == IndexOf(path, path[c].at)
<1>1. path \in Seq(EntrySet) /\ Len(path) \in Nat
  BY DEF KeptPaths
<1>2. /\ c \in 0..Len(path)
      /\ c > 0 => path[c].kind = "compaction"
      /\ \A k \in (c + 1)..Len(path) : path[k].kind # "compaction"
  BY <1>1, LatestCompactionIs
<1>3. /\ kept \in 0..Len(path)
      /\ kept = 0 => \A k \in 1..Len(path) : path[k].id # path[c].at
      /\ kept > 0 => path[kept].id = path[c].at
  BY <1>1, IndexOfIs
<1>4. sentFrom(path) = IF c > 0 /\ (IF c = 0 THEN 1 ELSE kept) \in {0} \cup (c..Len(path)) THEN c
                       ELSE IF c = 0 THEN 1 ELSE kept
  BY DEF sentFrom
<1> HIDE DEF c, kept
<1>5. CASE c = 0
  <2>1. sentFrom(path) = 1
    BY <1>4, <1>5
  <2> QED
    BY <2>1, <1>2, <1>5 DEF c
<1>6. CASE c # 0
  <2>1. c \in 1..Len(path) /\ c > 0
    BY <1>1, <1>2, <1>6
  <2>2. PICK a \in 1..(c - 1) : path[a].id = path[c].at /\ Covers(path, a, path[c].covers)
    BY <2>1, <1>2 DEF KeptPaths, Kept
  <2>3. a \in 1..Len(path) /\ kept # 0 /\ kept \in 1..Len(path)
    BY <2>1, <2>2, <1>1, <1>3
  <2>4. kept = a
    BY <2>2, <2>3, <1>3
  <2>5. a \notin {0} \cup (c..Len(path))
    BY <2>1, <2>2, <1>1
  <2>6. sentFrom(path) = a
    BY <1>4, <1>6, <2>4, <2>5
  <2> QED
    BY <2>1, <2>2, <2>6, <1>2, <1>6 DEF c
<1> QED
  BY <1>5, <1>6

LEMMA SentIs ==
  ASSUME NEW path \in Seq(EntrySet)
  PROVE  LET ms == buildMessagesFromPath(path)
             keep == {i \in sentFrom(path)..Len(path) : InContext(path[i])}
         IN  /\ ms \in Seq(EntrySet)
             /\ \E pos : Selection(ms, pos, path, keep, Len(path))
BY PickedIs DEF buildMessagesFromPath

\* Whatever was said on the way to the leaf is sent to the model or accounted for
\* by the latest summary: over repeated compactions, each of which builds on the
\* one before, navigation, forks and interrupted writes.
THEOREM ContextIsWhole == TreeSpec => []NothingForgotten
<1>1. TreeInit => TreeInv /\ TInv /\ CoverInv
  <2>1. ASSUME TreeInit PROVE CoverInv
    <3>1. entries = <<>> /\ compacting = Nothing
      BY <2>1 DEF TreeInit
    <3> QED
      BY <3>1 DEF CoverInv, AllPaths
  <2> QED
    BY <2>1, TreeStarts
<1>2. TreeInv /\ TInv /\ CoverInv /\ [TreeNext]_treeVars => (TreeInv /\ TInv /\ CoverInv)'
  BY TreeNextPreservesTree, TreeNextPreservesTInv, TreeNextPreservesCover
<1>3. TreeInv /\ CoverInv => NothingForgotten
  <2> SUFFICES ASSUME TreeInv, AllPaths(entries, KeptPaths) PROVE Remembered
    BY DEF CoverInv, NothingForgotten
  <2> DEFINE path == getBranch(entries, leaf)
             c == LatestCompaction(path)
             s == sentFrom(path)
             keep == {i \in s..Len(path) : InContext(path[i])}
             ms == buildMessagesFromPath(path)
  <2>1. /\ path \in Seq(EntrySet) /\ Len(path) \in Nat
        /\ \A j, k \in 1..Len(path) : path[j].id = path[k].id => j = k
        /\ Len(path) > 0 => Listed(entries, leaf)
    BY PathOfLeaf
  <2>2. path \in KeptPaths
    <3>1. CASE Listed(entries, leaf)
      BY <3>1, PathInPaths
    <3>2. CASE ~Listed(entries, leaf)
      BY <3>2, BranchType, NoPathKept DEF TreeInv, Tree
    <3> QED
      BY <3>1, <3>2
  <2> SUFFICES ASSUME NEW e \in Range(path), InContext(e)
               PROVE  e \in Range(ms) \/ (c > 0 /\ e.id \in path[c].covers)
    BY DEF Remembered
  <2> HIDE DEF path
  <2>3. PICK k \in 1..Len(path) : e = path[k]
    BY <2>1 DEF Range
  <2>4. /\ c \in 0..Len(path)
        /\ c = 0 => s = 1
        /\ c > 0 => s \in 1..(c - 1) /\ Covers(path, s, path[c].covers)
    BY <2>1, <2>2, SentFromIs
  <2>5. CASE k >= s
    <3>1. k \in keep
      BY <2>1, <2>3, <2>4, <2>5
    <3>2. PICK pos : Selection(ms, pos, path, keep, Len(path))
      BY <2>1, SentIs
    <3>3. ms \in Seq(EntrySet)
      BY <2>1, SentIs
    <3> HIDE DEF ms, keep
    <3>4. PICK i \in 1..Len(ms) : pos[i] = k
      BY <3>1, <3>2, <2>3 DEF Selection
    <3>5. ms[i] = e
      BY <3>2, <3>4, <2>3 DEF Selection
    <3> QED
      BY <3>3, <3>5 DEF Range
  <2>6. CASE ~(k >= s)
    <3>1. c > 0 /\ k \in 1..(s - 1)
      BY <2>1, <2>3, <2>4, <2>6
    <3> QED
      BY <3>1, <2>3, <2>4 DEF Covers
  <2> QED
    BY <2>5, <2>6
<1> QED
  BY <1>1, <1>2, <1>3, PTL DEF TreeSpec

-----------------------------------------------------------------------------
(* ResultsFollowCalls.  On every path a result has its call, or another result,
   before it with nothing sent and no compaction in between; and from the first
   kept entry of a compaction on no result comes before some message that is
   kept with it. *)
Called(p, n) ==
  p[n].kind = "toolResult" =>
    \E j \in 1..(n - 1) :
      /\ p[j].kind \in {"assistant", "toolResult"}
      /\ \A m \in (j + 1)..(n - 1) : ~InContext(p[m]) /\ p[m].kind # "compaction"

SafeCut(p, a, n) ==
  \A k \in a..n : p[k].kind = "toolResult" => \E j \in a..(k - 1) : InContext(p[j])

CalledSince(p, n) ==
  p[n].kind = "compaction" => \A a \in 1..n : p[a].id = p[n].at => SafeCut(p, a, n)

CalledPaths == {p \in Seq(EntrySet) : \A n \in 1..Len(p) : Called(p, n) /\ CalledSince(p, n)}

\* The same for the compaction whose summary is still being written, on the path
\* that it was prepared from; what is kept is not the end of an exchange only.
SafelyCut(q, at) ==
  \E a \in 1..Len(q) :
    /\ q[a].id = at
    /\ SafeCut(q, a, Len(q))
    /\ a = 1 \/ \E m \in a..Len(q) : InContext(q[m]) \/ q[m].kind = "compaction"

ResultInv ==
  damage = {} =>
    /\ AllPaths(entries, CalledPaths)
    /\ compacting # Nothing => SafelyCut(getBranch(entries, compacting.from), compacting.at)

LEMMA NoPathCalled == <<>> \in CalledPaths
BY DEF CalledPaths

LEMMA CalledSame ==
  ASSUME NEW p, NEW q, NEW n \in Nat, n > 0, \A k \in 1..n : p[k] = q[k],
         Called(p, n), CalledSince(p, n)
  PROVE  Called(q, n) /\ CalledSince(q, n)
<1>1. n \in 1..n /\ q[n] = p[n]
  OBVIOUS
<1>2. Called(q, n)
  <2> SUFFICES ASSUME q[n].kind = "toolResult"
               PROVE  \E j \in 1..(n - 1) :
                        /\ q[j].kind \in {"assistant", "toolResult"}
                        /\ \A m \in (j + 1)..(n - 1) : ~InContext(q[m]) /\ q[m].kind # "compaction"
    BY DEF Called
  <2>1. PICK j \in 1..(n - 1) :
          /\ p[j].kind \in {"assistant", "toolResult"}
          /\ \A m \in (j + 1)..(n - 1) : ~InContext(p[m]) /\ p[m].kind # "compaction"
    BY <1>1 DEF Called
  <2>2. j \in 1..n /\ \A m \in (j + 1)..(n - 1) : m \in 1..n
    OBVIOUS
  <2> QED
    BY <2>1, <2>2
<1>3. CalledSince(q, n)
  <2> SUFFICES ASSUME q[n].kind = "compaction", NEW a \in 1..n, q[a].id = q[n].at,
                      NEW k \in a..n, q[k].kind = "toolResult"
               PROVE  \E j \in a..(k - 1) : InContext(q[j])
    BY DEF CalledSince, SafeCut
  <2>1. k \in 1..n /\ q[k] = p[k] /\ q[a] = p[a]
    OBVIOUS
  <2>2. PICK j \in a..(k - 1) : InContext(p[j])
    BY <1>1, <2>1 DEF CalledSince, SafeCut
  <2>3. j \in 1..n
    BY <2>1
  <2> QED
    BY <2>2, <2>3
<1> QED
  BY <1>2, <1>3

LEMMA CalledAppend ==
  ASSUME NEW p \in CalledPaths, NEW e \in EntrySet,
         Called(Append(p, e), Len(p) + 1), CalledSince(Append(p, e), Len(p) + 1)
  PROVE  Append(p, e) \in CalledPaths
<1> DEFINE q == Append(p, e)
<1>1. p \in Seq(EntrySet) /\ Len(p) \in Nat
  BY DEF CalledPaths
<1>2. q \in Seq(EntrySet) /\ Len(q) = Len(p) + 1 /\ \A k \in 1..Len(p) : p[k] = q[k]
  BY <1>1
<1>3. Called(q, Len(p) + 1) /\ CalledSince(q, Len(p) + 1)
  OBVIOUS
<1> HIDE DEF q
<1>4. ASSUME NEW n \in 1..Len(q) PROVE Called(q, n) /\ CalledSince(q, n)
  <2>1. CASE n \in 1..Len(p)
    <3>1. n \in Nat /\ n > 0 /\ Called(p, n) /\ CalledSince(p, n) /\ \A k \in 1..n : k \in 1..Len(p)
      BY <2>1, <1>1 DEF CalledPaths
    <3>2. \A k \in 1..n : p[k] = q[k]
      BY <3>1, <1>2
    <3> QED
      BY <3>1, <3>2, CalledSame
  <2>2. CASE n = Len(p) + 1
    BY <2>2, <1>3
  <2> QED
    BY <2>1, <2>2, <1>1, <1>2
<1>5. q \in CalledPaths
  BY <1>2, <1>4 DEF CalledPaths
<1> QED
  BY <1>5 DEF q

LEMMA CalledPrefix ==
  ASSUME NEW p \in CalledPaths, NEW m \in 0..Len(p)
  PROVE  SubSeq(p, 1, m) \in CalledPaths
<1> DEFINE q == SubSeq(p, 1, m)
<1>1. p \in Seq(EntrySet) /\ Len(p) \in Nat
  BY DEF CalledPaths
<1>2. q \in Seq(EntrySet) /\ Len(q) = m /\ m \in Nat /\ \A k \in 1..m : p[k] = q[k]
  BY <1>1
<1> HIDE DEF q
<1>3. ASSUME NEW n \in 1..m PROVE Called(q, n) /\ CalledSince(q, n)
  <2>1. n \in Nat /\ n > 0 /\ Called(p, n) /\ CalledSince(p, n) /\ \A k \in 1..n : p[k] = q[k]
    BY <1>1, <1>2 DEF CalledPaths
  <2> QED
    BY <2>1, CalledSame
<1>4. q \in CalledPaths
  BY <1>2, <1>3 DEF CalledPaths
<1> QED
  BY <1>4 DEF q

LEMMA AppendKeepsCalled ==
  ASSUME TreeInv, NEW e, Appends(e), e.parent = 0 \/ Listed(entries, e.parent),
         AllPaths(entries, CalledPaths),
         LET p == getBranch(entries, e.parent)
         IN  Called(Append(p, e), Len(p) + 1) /\ CalledSince(Append(p, e), Len(p) + 1)
  PROVE  /\ AllPaths(entries', CalledPaths)
         /\ \A id, at : SafelyCut(getBranch(entries, id), at) =>
                          SafelyCut(getBranch(entries', id), at)
<1> DEFINE p == getBranch(entries, e.parent)
<1>1. p \in CalledPaths
  <2>1. CASE Listed(entries, e.parent)
    BY <2>1, PathInPaths
  <2>2. CASE ~Listed(entries, e.parent)
    BY <2>2, BranchType, NoPathCalled DEF TreeInv, Tree
  <2> QED
    BY <2>1, <2>2
<1>2. e \in EntrySet /\ e.id = nextId /\ e.parent < nextId /\ entries' = Append(entries, e)
      /\ nextId \in Nat
  BY DEF Appends, TreeInv
<1>3. Append(p, e) \in CalledPaths
  <2>1. Called(Append(p, e), Len(p) + 1) /\ CalledSince(Append(p, e), Len(p) + 1)
    OBVIOUS
  <2> HIDE DEF p
  <2> QED
    BY <2>1, <1>1, <1>2, CalledAppend
<1>4. /\ AllPaths(Append(entries, e), CalledPaths)
      /\ \A id : Listed(entries, id) =>
           getBranch(Append(entries, e), id) = getBranch(entries, id)
  BY <1>2, <1>3, PathsAppend DEF TreeInv
<1>5. ASSUME NEW id, NEW at, SafelyCut(getBranch(entries, id), at)
      PROVE  SafelyCut(getBranch(entries', id), at)
  <2>1. Listed(entries, id)
    <3> SUFFICES ASSUME ~Listed(entries, id) PROVE FALSE
      OBVIOUS
    <3>1. getBranch(entries, id) = <<>>
      BY BranchType DEF TreeInv, Tree
    <3>2. SafelyCut(<<>>, at)
      BY <1>5, <3>1
    <3> QED
      BY <3>2 DEF SafelyCut
  <2> QED
    BY <1>2, <1>4, <1>5, <2>1
<1> QED
  BY <1>2, <1>4, <1>5

LEMMA NoResultCalled ==
  ASSUME NEW p \in Seq(EntrySet), NEW e, e.kind \notin {"toolResult", "compaction"}
  PROVE  Called(Append(p, e), Len(p) + 1) /\ CalledSince(Append(p, e), Len(p) + 1)
BY DEF Called, CalledSince

\* appendMessage: a result comes after its call.
LEMMA ResultCalled ==
  ASSUME NEW p \in Seq(EntrySet), NEW e, e.kind # "compaction",
         e.kind = "toolResult" => AfterCall(p)
  PROVE  Called(Append(p, e), Len(p) + 1) /\ CalledSince(Append(p, e), Len(p) + 1)
<1> DEFINE q == Append(p, e)
           last == LastMessage(p)
<1>1. Len(p) \in Nat /\ q[Len(p) + 1] = e /\ \A k \in 1..Len(p) : q[k] = p[k]
  OBVIOUS
<1> HIDE DEF q
<1>2. CalledSince(q, Len(p) + 1)
  BY <1>1 DEF CalledSince
<1>3. Called(q, Len(p) + 1)
  <2> SUFFICES ASSUME e.kind = "toolResult"
               PROVE  \E j \in 1..Len(p) :
                        /\ q[j].kind \in {"assistant", "toolResult"}
                        /\ \A m \in (j + 1)..Len(p) : ~InContext(q[m]) /\ q[m].kind # "compaction"
    BY <1>1 DEF Called
  <2>1. /\ last > 0 /\ p[last].kind \in {"assistant", "toolResult"}
        /\ LatestCompaction(p) < last
    BY DEF AfterCall
  <2>2. last \in 0..Len(p) /\ \A k \in (last + 1)..Len(p) : ~InContext(p[k])
    BY <1>1, LastMessageIs
  <2>3. LatestCompaction(p) \in 0..Len(p)
        /\ \A k \in (LatestCompaction(p) + 1)..Len(p) : p[k].kind # "compaction"
    BY <1>1, LatestCompactionIs
  <2> HIDE DEF last
  <2>4. last \in 1..Len(p) /\ q[last] = p[last]
    BY <1>1, <2>1, <2>2
  <2>5. \A m \in (last + 1)..Len(p) : ~InContext(q[m]) /\ q[m].kind # "compaction"
    BY <1>1, <2>1, <2>2, <2>3
  <2> QED
    BY <2>1, <2>4, <2>5
<1> QED
  BY <1>2, <1>3 DEF q

\* prepareCompaction: the cut is never before a result whose call is cut off.
LEMMA PrepareSafe ==
  ASSUME NEW path \in KeptPaths, path \in CalledPaths,
         \A j, k \in 1..Len(path) : path[j].id = path[k].id => j = k,
         Len(path) > 0, path[Len(path)].kind # "compaction",
         NEW cut \in findCutPoint(path, boundaryStart(path))
  PROVE  SafelyCut(path, path[cut].id)
<1> DEFINE c == LatestCompaction(path)
           start == boundaryStart(path)
<1>1. path \in Seq(EntrySet) /\ Len(path) \in Nat
  BY DEF KeptPaths
<1>2. /\ start \in 1..Len(path) /\ c \in 0..(Len(path) - 1)
      /\ c = 0 => start = 1
      /\ c > 0 => \/ path[start].id = path[c].at
                  \/ \A k \in 1..Len(path) : path[k].id # path[c].at
  BY <1>1, BoundaryIs
<1>3. /\ c > 0 => path[c].kind = "compaction"
      /\ \A k \in (c + 1)..Len(path) : path[k].kind # "compaction"
  BY <1>1, LatestCompactionIs
<1>4. cut \in start..Len(path)
      /\ \/ cut = start /\ \A k \in start..Len(path) :
                             InContext(path[k]) => path[k].kind = "toolResult"
         \/ \E v \in cut..Len(path) :
              InContext(path[v]) /\ path[v].kind # "toolResult" /\ Between(path, cut, v)
  BY <1>1, <1>2, CutIs
<1> HIDE DEF c, start
<1>5. cut \in 1..Len(path) /\ start \in Nat
  BY <1>1, <1>2, <1>4
<1>6. ASSUME NEW k \in 1..Len(path)
      PROVE  path[k].kind = "toolResult" => InContext(path[k]) /\ IsMessage(path[k])
  BY DEF InContext, IsMessage
<1>7. CASE \E v \in cut..Len(path) :
             InContext(path[v]) /\ path[v].kind # "toolResult" /\ Between(path, cut, v)
  <2>1. PICK v \in cut..Len(path) :
          InContext(path[v]) /\ path[v].kind # "toolResult" /\ Between(path, cut, v)
    BY <1>7
  <2>2. ASSUME NEW k \in cut..Len(path), path[k].kind = "toolResult"
        PROVE  \E j \in cut..(k - 1) : InContext(path[j])
    <3>1. k \in 1..Len(path) /\ k \in Nat /\ v \in Nat
      BY <1>1, <1>5
    <3>2. k # v /\ ~(k < v)
      <4>1. k < v => k \in cut..(v - 1)
        BY <3>1, <1>5
      <4> QED
        BY <2>1, <2>2, <3>1, <4>1, <1>6 DEF Between
    <3>3. v \in cut..(k - 1)
      BY <3>1, <3>2, <1>5
    <3> QED
      BY <2>1, <3>3
  <2> QED
    BY <2>1, <2>2, <1>5 DEF SafelyCut, SafeCut
<1>8. CASE cut = start /\ \A k \in start..Len(path) :
                            InContext(path[k]) => path[k].kind = "toolResult"
  <2>1. CASE c = 0
    <3>1. cut = 1
      BY <2>1, <1>2, <1>8
    <3>2. ASSUME NEW k \in cut..Len(path), path[k].kind = "toolResult"
          PROVE  \E j \in cut..(k - 1) : InContext(path[j])
      <4>1. k \in 1..Len(path)
        BY <3>1
      <4>2. PICK j \in 1..(k - 1) : path[j].kind \in {"assistant", "toolResult"}
        BY <3>2, <4>1 DEF CalledPaths, Called
      <4> QED
        BY <3>1, <4>2 DEF InContext, IsMessage
    <3> QED
      BY <3>1, <3>2, <1>5 DEF SafelyCut, SafeCut
  <2>2. CASE c > 0
    <3>1. c \in 1..Len(path) /\ c \in Nat
      BY <2>2, <1>1, <1>2
    <3>2. PICK a \in 1..(c - 1) : path[a].id = path[c].at
      BY <2>2, <3>1, <1>3 DEF KeptPaths, Kept
    <3>3. a = cut /\ cut \in 1..c /\ cut <= c /\ path[cut].id = path[c].at
      BY <2>2, <3>1, <3>2, <1>1, <1>2, <1>8
    <3>4. SafeCut(path, cut, c)
      BY <2>2, <3>1, <3>3, <1>3 DEF CalledPaths, CalledSince
    <3>5. ASSUME NEW k \in cut..Len(path), path[k].kind = "toolResult"
          PROVE  \E j \in cut..(k - 1) : InContext(path[j])
      <4>1. k \in 1..Len(path) /\ k \in Nat /\ cut \in Nat
        BY <1>1, <1>5
      <4>2. CASE k <= c
        BY <3>1, <3>4, <3>5, <4>1, <4>2 DEF SafeCut
      <4>3. CASE ~(k <= c)
        <5>1. PICK j \in 1..(k - 1) :
                /\ path[j].kind \in {"assistant", "toolResult"}
                /\ \A m \in (j + 1)..(k - 1) : path[m].kind # "compaction"
          BY <3>5, <4>1 DEF CalledPaths, Called
        <5>2. c \notin (j + 1)..(k - 1)
          BY <2>2, <5>1, <1>3
        <5>3. j >= c
          BY <3>1, <4>1, <4>3, <5>2
        <5> QED
          BY <3>1, <3>3, <4>1, <5>1, <5>3 DEF InContext, IsMessage
      <4> QED
        BY <4>2, <4>3
    <3>6. c \in cut..Len(path) /\ path[c].kind = "compaction"
      BY <2>2, <3>1, <3>3, <1>3, <1>5
    <3> QED
      BY <3>5, <3>6, <1>5 DEF SafelyCut, SafeCut
  <2> QED
    BY <2>1, <2>2, <1>2
<1> QED
  BY <1>4, <1>7, <1>8

\* appendCompaction on the branch that it was prepared from, further on: what came
\* since starts no run of results either.
LEMMA CompactionCalled ==
  ASSUME TreeInv, AllPaths(entries, CalledPaths),
         SafelyCut(getBranch(entries, compacting.from), compacting.at),
         compacting.from \in Ids(getBranch(entries, leaf)),
         NEW e, e.kind = "compaction", e.at = compacting.at
  PROVE  LET p == getBranch(entries, leaf)
         IN  Called(Append(p, e), Len(p) + 1) /\ CalledSince(Append(p, e), Len(p) + 1)
<1> DEFINE p == getBranch(entries, leaf)
           q == Append(p, e)
<1>1. /\ p \in Seq(EntrySet) /\ Len(p) \in Nat
      /\ \A k \in 1..Len(p) : getBranch(entries, p[k].id) = SubSeq(p, 1, k)
      /\ \A j, k \in 1..Len(p) : p[j].id = p[k].id => j = k
      /\ Len(p) > 0 => Listed(entries, leaf)
  BY PathOfLeaf
<1>2. Len(p) > 0 => p \in CalledPaths
  BY <1>1, PathInPaths
<1> HIDE DEF p
<1>3. PICK f \in 1..Len(p) : p[f].id = compacting.from
  BY <1>1, IdsAre DEF Listed, p
<1>4. p \in CalledPaths /\ f \in Nat /\ f <= Len(p)
  BY <1>1, <1>2, <1>3
<1> DEFINE r == SubSeq(p, 1, f)
<1>5. getBranch(entries, compacting.from) = r /\ Len(r) = f /\ \A k \in 1..f : r[k] = p[k]
  BY <1>1, <1>3
<1> HIDE DEF r
<1>6. PICK a \in 1..f : /\ r[a].id = compacting.at
                        /\ SafeCut(r, a, f)
                        /\ a = 1 \/ \E m \in a..f : InContext(r[m]) \/ r[m].kind = "compaction"
  BY <1>5 DEF SafelyCut
<1>7. Len(q) = Len(p) + 1 /\ q[Len(p) + 1] = e /\ \A k \in 1..Len(p) : q[k] = p[k]
  BY <1>1
<1> HIDE DEF q
<1>8. Called(q, Len(p) + 1)
  BY <1>7 DEF Called
<1>9. CalledSince(q, Len(p) + 1)
  <2> SUFFICES ASSUME NEW b \in 1..(Len(p) + 1), q[b].id = compacting.at,
                      NEW k \in b..(Len(p) + 1), q[k].kind = "toolResult"
               PROVE  \E j \in b..(k - 1) : InContext(q[j])
    BY <1>7 DEF CalledSince, SafeCut
  <2>1. k \in 1..Len(p) /\ b \in 1..Len(p) /\ b <= k /\ k \in Nat
    <3>1. k # Len(p) + 1
      BY <1>7
    <3> QED
      BY <3>1, <1>1
  <2>2. b = a /\ a \in Nat
    <3>1. p[b].id = p[a].id /\ a \in 1..Len(p)
      BY <2>1, <1>4, <1>5, <1>6, <1>7
    <3> QED
      BY <2>1, <3>1, <1>1
  <2>3. p[k].kind = "toolResult"
    BY <2>1, <1>7
  <2>4. \E j \in a..(k - 1) : InContext(p[j])
    <3>1. CASE k <= f
      <4>1. k \in a..f /\ r[k] = p[k]
        BY <2>1, <2>2, <3>1, <1>5
      <4>2. PICK j \in a..(k - 1) : InContext(r[j])
        BY <2>3, <4>1, <1>6 DEF SafeCut
      <4>3. j \in 1..f
        BY <4>1, <2>2, <1>4
      <4> QED
        BY <4>2, <4>3, <1>5
    <3>2. CASE ~(k <= f)
      <4>1. PICK j \in 1..(k - 1) :
              /\ p[j].kind \in {"assistant", "toolResult"}
              /\ \A m \in (j + 1)..(k - 1) : ~InContext(p[m]) /\ p[m].kind # "compaction"
        BY <2>1, <2>3, <1>4 DEF CalledPaths, Called
      <4>2. InContext(p[j])
        BY <4>1 DEF InContext, IsMessage
      <4>3. j >= a
        <5>1. CASE a = 1
          BY <5>1
        <5>2. CASE \E m \in a..f : InContext(r[m]) \/ r[m].kind = "compaction"
          <6>1. PICK m \in a..f : InContext(r[m]) \/ r[m].kind = "compaction"
            BY <5>2
          <6>2. m \in 1..f /\ r[m] = p[m] /\ m \in Nat
            BY <2>2, <1>4, <1>5
          <6>3. m \notin (j + 1)..(k - 1)
            BY <4>1, <6>1, <6>2
          <6> QED
            BY <2>1, <2>2, <3>2, <6>2, <6>3, <1>4
        <5> QED
          BY <5>1, <5>2, <1>6
      <4>4. j \in a..(k - 1)
        BY <2>1, <2>2, <4>3
      <4> QED
        BY <4>2, <4>4
    <3> QED
      BY <3>1, <3>2
  <2>5. PICK j \in a..(k - 1) : InContext(p[j])
    BY <2>4
  <2>6. j \in 1..Len(p) /\ j \in b..(k - 1)
    BY <2>1, <2>2, <2>5, <1>1
  <2> QED
    BY <2>5, <2>6, <1>7
<1> QED
  BY <1>8, <1>9 DEF p, q

\* A fork has the messages of the path in their order, with nothing in between
\* that was not there.
LEMMA ForkCalled ==
  ASSUME NEW es, Tree(es), Chain(es), NEW opened, Tree(opened), NEW id,
         AllPaths(opened, CalledPaths),
         LET p == getBranch(opened, id)
             w == pathWithoutLabels(p)
         IN  /\ Len(w) <= Len(es)
             /\ \A i \in 1..Len(w) : es[i] = w[i]
             /\ \A i \in (Len(w) + 1)..Len(es) : es[i].kind = "label"
  PROVE  AllPaths(es, CalledPaths)
<1> DEFINE p == getBranch(opened, id)
           w == pathWithoutLabels(p)
<1>1. /\ Len(w) <= Len(es) /\ \A i \in 1..Len(w) : es[i] = w[i]
      /\ \A i \in (Len(w) + 1)..Len(es) : es[i].kind = "label"
  OBVIOUS
<1>2. PathIn(opened, p) /\ Tree(w) /\ \E pos : Forked(w, pos, p)
  BY ForkOfPath
<1>3. p \in CalledPaths
  <2>1. CASE Listed(opened, id)
    BY <2>1, PathInPaths
  <2>2. CASE ~Listed(opened, id)
    BY <2>2, BranchType, NoPathCalled DEF Tree
  <2> QED
    BY <2>1, <2>2
<1> HIDE DEF p, w
<1>4. PICK pos : Forked(w, pos, p)
  BY <1>2
<1>5. p \in Seq(EntrySet) /\ Len(p) \in Nat /\ Len(w) \in Nat /\ Len(es) \in Nat /\ es \in Seq(EntrySet)
  BY <1>2, TreeIds DEF PathIn
<1>6. /\ \A i \in 1..Len(w) : /\ pos[i] \in 1..Len(p) /\ pos[i] \in Nat
                              /\ w[i].id = p[pos[i]].id /\ w[i].kind = p[pos[i]].kind
                              /\ w[i].at = p[pos[i]].at /\ w[i].covers = p[pos[i]].covers
                              /\ InContext(w[i]) <=> InContext(p[pos[i]])
      /\ \A k \in 1..Len(p) : ~IsLabel(p[k]) => \E i \in 1..Len(w) : pos[i] = k
      /\ \A i, j \in 1..Len(w) : i < j <=> pos[i] < pos[j]
  BY <1>4, <1>5, ForkedPath
<1>7. ASSUME NEW i \in 1..Len(es), es[i].kind \in {"toolResult", "compaction"}
      PROVE  i \in 1..Len(w) /\ es[i] = w[i] /\ pos[i] \in 1..Len(p) /\ p[pos[i]].kind = es[i].kind
  <2>1. i \in 1..Len(w)
    BY <1>1, <1>5, <1>7
  <2> QED
    BY <2>1, <1>1, <1>6
<1>8. ASSUME NEW i \in 1..Len(es) PROVE Called(es, i)
  <2> SUFFICES ASSUME es[i].kind = "toolResult"
               PROVE  \E j \in 1..(i - 1) :
                        /\ es[j].kind \in {"assistant", "toolResult"}
                        /\ \A m \in (j + 1)..(i - 1) : ~InContext(es[m]) /\ es[m].kind # "compaction"
    BY DEF Called
  <2>1. i \in 1..Len(w) /\ pos[i] \in 1..Len(p) /\ p[pos[i]].kind = "toolResult"
    BY <1>7
  <2>2. PICK b \in 1..(pos[i] - 1) :
          /\ p[b].kind \in {"assistant", "toolResult"}
          /\ \A m \in (b + 1)..(pos[i] - 1) : ~InContext(p[m]) /\ p[m].kind # "compaction"
    BY <2>1, <1>3 DEF CalledPaths, Called
  <2>3. b \in 1..Len(p) /\ b < pos[i] /\ ~IsLabel(p[b]) /\ b \in Nat
    BY <2>1, <2>2, <1>5 DEF IsLabel
  <2>4. PICK j \in 1..Len(w) : pos[j] = b
    BY <2>3, <1>6
  <2>5. j < i /\ j \in 1..(i - 1) /\ es[j].kind = p[b].kind
    <3>1. j < i
      BY <2>1, <2>3, <2>4, <1>6
    <3>2. es[j] = w[j] /\ w[j].kind = p[b].kind
      BY <2>4, <1>1, <1>6
    <3> QED
      BY <3>1, <3>2, <1>5
  <2>6. ASSUME NEW m \in (j + 1)..(i - 1) PROVE ~InContext(es[m]) /\ es[m].kind # "compaction"
    <3>1. m \in 1..Len(w) /\ j < m /\ m < i
      BY <2>1, <2>5, <1>5, SMTT(30)
    <3>2. pos[m] \in (b + 1)..(pos[i] - 1)
      <4>1. b < pos[m] /\ pos[m] < pos[i]
        BY <2>1, <2>4, <3>1, <1>6
      <4>2. pos[m] \in Nat /\ pos[i] \in Nat
        BY <2>1, <3>1, <1>6
      <4> QED
        BY <4>1, <4>2, <2>3
    <3>3. ~InContext(p[pos[m]]) /\ p[pos[m]].kind # "compaction"
      BY <2>2, <3>2
    <3> QED
      BY <3>1, <3>3, <1>1, <1>6, SMTT(30)
  <2> QED
    BY <2>2, <2>5, <2>6
<1>9. ASSUME NEW i \in 1..Len(es) PROVE CalledSince(es, i)
  <2> SUFFICES ASSUME es[i].kind = "compaction", NEW a \in 1..i, es[a].id = es[i].at,
                      NEW k \in a..i, es[k].kind = "toolResult"
               PROVE  \E j \in a..(k - 1) : InContext(es[j])
    BY DEF CalledSince, SafeCut
  <2>1. i \in 1..Len(w) /\ a \in 1..Len(w) /\ k \in 1..Len(w) /\ a <= k /\ k <= i /\ a \in Nat /\ k \in Nat
    BY <1>5, <1>7
  <2>2. /\ p[pos[i]].kind = "compaction" /\ p[pos[k]].kind = "toolResult"
        /\ p[pos[a]].id = p[pos[i]].at
        /\ pos[i] \in 1..Len(p) /\ pos[a] \in Nat /\ pos[k] \in Nat /\ pos[i] \in Nat /\ pos[a] > 0
    <3>1. es[i] = w[i] /\ es[a] = w[a] /\ es[k] = w[k]
      BY <2>1, <1>1
    <3>2. /\ w[i].kind = p[pos[i]].kind /\ w[i].at = p[pos[i]].at
          /\ w[a].id = p[pos[a]].id /\ w[k].kind = p[pos[k]].kind
          /\ pos[i] \in 1..Len(p) /\ pos[a] \in 1..Len(p) /\ pos[k] \in 1..Len(p)
      BY <2>1, <1>6
    <3>3. \A x \in 1..Len(p) : x \in Nat /\ x > 0
      BY <1>5
    <3> QED
      BY <3>1, <3>2, <3>3
  <2>3. pos[a] \in 1..pos[i] /\ pos[k] \in pos[a]..pos[i]
    <3>1. ~(pos[k] < pos[a]) /\ ~(pos[i] < pos[k]) /\ ~(pos[i] < pos[a])
      BY <2>1, <1>6
    <3> QED
      BY <2>2, <3>1, SMTT(30)
  <2>4. PICK b \in pos[a]..(pos[k] - 1) : InContext(p[b])
    <3>1. CalledSince(p, pos[i])
      BY <2>2, <1>3 DEF CalledPaths
    <3>2. SafeCut(p, pos[a], pos[i])
      BY <2>2, <2>3, <3>1 DEF CalledSince
    <3> QED
      BY <2>2, <2>3, <3>2 DEF SafeCut
  <2>5. b \in 1..Len(p) /\ ~IsLabel(p[b]) /\ b \in Nat /\ pos[a] <= b /\ b < pos[k]
    <3>1. b \in Nat /\ pos[a] <= b /\ b < pos[k]
      BY <2>2, <2>4, SMTT(30)
    <3>2. b \in 1..Len(p)
      BY <2>2, <2>3, <3>1, <1>5, SMTT(30)
    <3>3. ~IsLabel(p[b])
      BY <2>4 DEF IsLabel, InContext, IsMessage
    <3> QED
      BY <3>1, <3>2, <3>3
  <2>6. PICK j \in 1..Len(w) : pos[j] = b
    BY <2>5, <1>6
  <2>7. j < k /\ ~(j < a)
    <3>1. (j < k <=> pos[j] < pos[k]) /\ (j < a <=> pos[j] < pos[a])
      BY <2>1, <2>6, <1>6
    <3> QED
      BY <2>2, <2>5, <2>6, <3>1
  <2>8. j \in a..(k - 1)
    BY <2>1, <2>7
  <2>9. InContext(es[j])
    BY <2>4, <2>6, <1>1, <1>6
  <2> QED
    BY <2>8, <2>9
<1>10. es \in CalledPaths
  BY <1>5, <1>8, <1>9 DEF CalledPaths
<1>11. \A n \in 1..Len(es) : SubSeq(es, 1, n) \in CalledPaths
  BY <1>5, <1>10, CalledPrefix
<1> QED
  BY <1>11, PathsOfChain

LEMMA TreeNextPreservesResult ==
  ASSUME TreeInv, TInv, CoverInv, ResultInv, [TreeNext]_treeVars
  PROVE  ResultInv'
<1> SUFFICES ASSUME damage' = {}
             PROVE  /\ AllPaths(entries', CalledPaths)
                    /\ compacting' # Nothing =>
                         SafelyCut(getBranch(entries', compacting'.from), compacting'.at)
  BY DEF ResultInv
<1>1. "strayed" \notin damage' /\ "moved" \notin damage' /\ "torn" \notin damage'
  OBVIOUS
<1>2. ASSUME damage \subseteq damage'
      PROVE  /\ AllPaths(entries, CalledPaths) /\ AllPaths(entries, KeptPaths) /\ damage = {}
             /\ compacting # Nothing =>
                  SafelyCut(getBranch(entries, compacting.from), compacting.at)
  <2>1. damage = {}
    BY <1>2
  <2>2. damage \subseteq {"moved"}
    BY <2>1
  <2> QED
    BY <2>1, <2>2 DEF CoverInv, ResultInv
<1>3. \A id : getBranch(entries, id) \in Seq(EntrySet)
  BY BranchType DEF TreeInv, Tree
<1>4. leaf = 0 \/ Listed(entries, leaf)
  BY DEF TreeInv
<1>5. CASE appendMessage \/ appendSetting \/ appendLabelChange
  <2>1. compacting' = compacting /\ damage' = damage
    BY <1>5, PlainAppend
  <2>2. PICK e : /\ Appends(e) /\ e.parent = leaf /\ e.kind # "compaction"
                 /\ e.kind = "toolResult" => AfterCall(getBranch(entries, leaf))
    BY <1>5, PlainAppend
  <2>3. LET p == getBranch(entries, e.parent)
        IN  Called(Append(p, e), Len(p) + 1) /\ CalledSince(Append(p, e), Len(p) + 1)
    BY <1>3, <2>2, ResultCalled
  <2>4. /\ AllPaths(entries', CalledPaths)
        /\ \A id, at : SafelyCut(getBranch(entries, id), at) => SafelyCut(getBranch(entries', id), at)
    BY <1>2, <1>4, <2>1, <2>2, <2>3, AppendKeepsCalled
  <2> QED
    BY <1>2, <2>1, <2>4
<1>6. CASE appendCompaction
  <2>1. /\ compacting # Nothing /\ compacting' = Nothing /\ damage \subseteq damage'
        /\ compacting.from \in Ids(getBranch(entries, leaf))
    BY <1>1, <1>6, CompactionAppend
  <2>2. PICK e : /\ Appends(e) /\ e.parent = leaf /\ e.kind = "compaction"
                 /\ e.at = compacting.at
    BY <1>6, CompactionAppend
  <2>3. LET p == getBranch(entries, e.parent)
        IN  Called(Append(p, e), Len(p) + 1) /\ CalledSince(Append(p, e), Len(p) + 1)
    BY <1>2, <2>1, <2>2, CompactionCalled
  <2>4. AllPaths(entries', CalledPaths)
    BY <1>2, <1>4, <2>1, <2>2, <2>3, AppendKeepsCalled
  <2> QED
    BY <2>1, <2>4
<1>7. CASE prepareCompaction
  <2>1. UNCHANGED <<entries, damage>>
    BY <1>7 DEF prepareCompaction
  <2> DEFINE path == getBranch(entries, leaf)
  <2>2. /\ path \in Seq(EntrySet) /\ Len(path) \in Nat
        /\ \A j, k \in 1..Len(path) : path[j].id = path[k].id => j = k
        /\ Len(path) > 0 => Listed(entries, leaf)
    BY PathOfLeaf
  <2>3. /\ Len(path) > 0 /\ path[Len(path)].kind # "compaction"
        /\ compacting'.from = leaf
        /\ \E cut \in findCutPoint(path, boundaryStart(path)) : compacting'.at = path[cut].id
    BY <1>7, PrepareIs
  <2>4. path \in KeptPaths /\ path \in CalledPaths
    BY <1>2, <2>1, <2>2, <2>3, PathInPaths
  <2>5. SafelyCut(path, compacting'.at)
    <3> HIDE DEF path
    <3> QED BY <2>2, <2>3, <2>4, PrepareSafe
  <2> QED
    BY <1>2, <2>1, <2>3, <2>5
<1>8. CASE cancelCompaction
  <2>1. UNCHANGED <<entries, damage>> /\ compacting' = Nothing
    BY <1>8 DEF cancelCompaction
  <2> QED
    BY <1>2, <2>1
<1>9. CASE navigateTree
  <2>1. compacting' = compacting /\ damage' = damage
    BY <1>9, NavigateIs
  <2>2. CASE entries' = entries
    BY <1>2, <2>1, <2>2
  <2>3. ASSUME NEW e, Appends(e), e.kind = "branchSummary", e.parent = 0 \/ Listed(entries, e.parent)
        PROVE  /\ AllPaths(entries', CalledPaths)
               /\ compacting' # Nothing =>
                    SafelyCut(getBranch(entries', compacting'.from), compacting'.at)
    <3>1. LET p == getBranch(entries, e.parent)
          IN  Called(Append(p, e), Len(p) + 1) /\ CalledSince(Append(p, e), Len(p) + 1)
      BY <1>3, <2>3, NoResultCalled
    <3>2. /\ AllPaths(entries', CalledPaths)
          /\ \A id, at : SafelyCut(getBranch(entries, id), at) => SafelyCut(getBranch(entries', id), at)
      BY <1>2, <2>1, <2>3, <3>1, AppendKeepsCalled
    <3> QED
      BY <1>2, <2>1, <3>2
  <2> QED
    BY <1>9, <2>2, <2>3, NavigateIs
<1>10. CASE fork
  <2>1. compacting' = Nothing
    BY <1>10, ForkIs
  <2>2. ASSUME NEW id, flushed, createBranchedSession(file.lines, id)
        PROVE  AllPaths(entries', CalledPaths)
    <3>1. damage \subseteq damage'
      BY <2>2, BranchedFile
    <3>2. file.lines = entries /\ AllPaths(file.lines, CalledPaths)
      BY <1>2, <2>2, <3>1 DEF TInv, FileHoldsSession
    <3>3. Tree(file.lines) /\ Tree(entries') /\ Chain(entries')
      BY <2>2, BranchedSession DEF TreeInv
    <3>4. LET p == getBranch(file.lines, id)
              w == pathWithoutLabels(p)
          IN  /\ Len(w) <= Len(entries')
              /\ \A i \in 1..Len(w) : entries'[i] = w[i]
              /\ \A i \in (Len(w) + 1)..Len(entries') : entries'[i].kind = "label"
      BY <2>2, BranchedSession DEF TreeInv
    <3> QED
      BY <3>2, <3>3, <3>4, ForkCalled
  <2>3. ASSUME entries' = <<>> PROVE AllPaths(entries', CalledPaths)
    BY <2>3 DEF AllPaths
  <2> QED
    BY <1>10, <2>1, <2>2, <2>3, ForkIs
<1>11. CASE setSessionFile
  <2>1. entries' = file.lines /\ compacting' = Nothing /\ damage' = damage
    BY <1>11 DEF setSessionFile
  <2>2. file.lines = entries \/ file.lines = <<>>
    BY <1>2, <2>1 DEF TreeInv, TInv, FileHoldsSession, NoFile
  <2>3. entries' = <<>> => AllPaths(entries', CalledPaths)
    BY DEF AllPaths
  <2> QED
    BY <1>2, <2>1, <2>2, <2>3
<1>12. CASE tearLine
  BY <1>1, <1>12 DEF tearLine
<1>13. CASE tearFirstWrite
  <2>1. PICK n \in 0..Len(entries), tail \in {"whole", "cut"} :
          /\ entries' = SubSeq(entries, 1, n)
          /\ damage' = IF tail = "cut" THEN damage \cup {"torn"} ELSE damage
    BY <1>13 DEF tearFirstWrite
  <2>2. compacting' = Nothing /\ damage' = damage
    BY <1>1, <1>13, <2>1 DEF tearFirstWrite
  <2>3. Tree(entries') /\ Extends(entries, entries')
    BY <2>1, TreePrefix DEF TreeInv
  <2>4. AllPaths(entries', CalledPaths)
    BY <1>2, <2>2, <2>3, PathsPrefix DEF TreeInv
  <2> QED
    BY <2>2, <2>4
<1>14. CASE UNCHANGED treeVars
  <2>1. UNCHANGED <<entries, damage, compacting>>
    BY <1>14 DEF treeVars
  <2> QED
    BY <1>2, <2>1
<1> QED
  BY <1>5, <1>6, <1>7, <1>8, <1>9, <1>10, <1>11, <1>12, <1>13, <1>14 DEF TreeNext

\* What is sent never starts a run of results without their call, as long as every
\* compaction is appended to the branch that it was prepared on.
THEOREM ResultsHaveCalls == TreeSpec => []ResultsFollowCalls
<1>1. TreeInit => TreeInv /\ TInv /\ CoverInv /\ ResultInv
  <2>1. ASSUME TreeInit PROVE CoverInv /\ ResultInv
    <3>1. entries = <<>> /\ compacting = Nothing
      BY <2>1 DEF TreeInit
    <3> QED
      BY <3>1 DEF CoverInv, ResultInv, AllPaths
  <2> QED
    BY <2>1, TreeStarts
<1>2. TreeInv /\ TInv /\ CoverInv /\ ResultInv /\ [TreeNext]_treeVars
        => (TreeInv /\ TInv /\ CoverInv /\ ResultInv)'
  BY TreeNextPreservesTree, TreeNextPreservesTInv, TreeNextPreservesCover,
     TreeNextPreservesResult
<1>3. TreeInv /\ CoverInv /\ ResultInv => ResultsFollowCalls
  <2> DEFINE path == getBranch(entries, leaf)
             c == LatestCompaction(path)
             s == sentFrom(path)
             keep == {i \in s..Len(path) : InContext(path[i])}
             ms == buildMessagesFromPath(path)
  <2> SUFFICES ASSUME TreeInv, AllPaths(entries, KeptPaths), AllPaths(entries, CalledPaths),
                      NEW n \in DOMAIN ms, ms[n].kind = "toolResult"
               PROVE  n > 1 /\ ms[n - 1].kind \in {"assistant", "toolResult"}
    BY DEF CoverInv, ResultInv, ResultsFollowCalls
  <2>1. /\ path \in Seq(EntrySet) /\ Len(path) \in Nat
        /\ \A j, k \in 1..Len(path) : path[j].id = path[k].id => j = k
        /\ Len(path) > 0 => Listed(entries, leaf)
    BY PathOfLeaf
  <2>2. path \in KeptPaths /\ path \in CalledPaths
    <3>1. CASE Listed(entries, leaf)
      BY <3>1, PathInPaths
    <3>2. CASE ~Listed(entries, leaf)
      BY <3>2, BranchType, NoPathKept, NoPathCalled DEF TreeInv, Tree
    <3> QED
      BY <3>1, <3>2
  <2> HIDE DEF path
  <2>3. /\ c \in 0..Len(path)
        /\ c = 0 => s = 1
        /\ c > 0 => /\ path[c].kind = "compaction"
                    /\ s \in 1..(c - 1) /\ path[s].id = path[c].at
        /\ \A k \in (c + 1)..Len(path) : path[k].kind # "compaction"
    BY <2>1, <2>2, SentFromIs
  <2>4. ms \in Seq(EntrySet)
    BY <2>1, SentIs
  <2>5. PICK pos : Selection(ms, pos, path, keep, Len(path))
    BY <2>1, SentIs
  <2>6. n \in 1..Len(ms) /\ Len(ms) \in Nat
    BY <2>4
  <2>7. ASSUME NEW k \in s..Len(path), InContext(path[k]) PROVE k \in keep
    BY <2>7
  <2>8. \A k \in keep : k \in s..Len(path)
    OBVIOUS
  <2> HIDE DEF ms, keep, c, s
  <2>9. s \in Nat /\ s >= 1
    BY <2>1, <2>3
  <2> DEFINE k == pos[n]
  <2>10. /\ k \in 1..Len(path) /\ k \in s..Len(path) /\ k \in Nat
         /\ path[k].kind = "toolResult"
    BY <2>1, <2>5, <2>6, <2>8 DEF Selection
  <2> HIDE DEF k
  <2>11. PICK j \in 1..(k - 1) :
           /\ path[j].kind \in {"assistant", "toolResult"}
           /\ \A m \in (j + 1)..(k - 1) : ~InContext(path[m]) /\ path[m].kind # "compaction"
    BY <2>2, <2>10 DEF CalledPaths, Called
  <2>12. InContext(path[j]) /\ j \in Nat /\ j < k /\ j \in 1..Len(path)
    BY <2>1, <2>10, <2>11 DEF InContext, IsMessage
  <2>13. j >= s
    <3>1. CASE c = 0
      BY <3>1, <2>3, <2>12
    <3>2. CASE c > 0 /\ k <= c
      <4>1. c \in 1..Len(path) /\ s \in 1..c /\ k \in s..c
        BY <3>2, <2>1, <2>3, <2>10
      <4>2. CalledSince(path, c)
        BY <4>1, <2>2 DEF CalledPaths
      <4>3. SafeCut(path, s, c)
        BY <3>2, <4>1, <4>2, <2>3 DEF CalledSince
      <4>4. PICK i \in s..(k - 1) : InContext(path[i])
        BY <4>1, <4>3, <2>10 DEF SafeCut
      <4>5. i \notin (j + 1)..(k - 1)
        BY <4>4, <2>11
      <4> QED
        BY <4>4, <4>5, <2>9, <2>10, <2>12
    <3>3. CASE c > 0 /\ ~(k <= c)
      <4>1. c \notin (j + 1)..(k - 1)
        BY <3>3, <2>3, <2>11
      <4>2. c \in Nat /\ s <= c
        BY <3>3, <2>1, <2>3
      <4> QED
        BY <3>3, <4>1, <4>2, <2>9, <2>10, <2>12
    <3> QED
      BY <3>1, <3>2, <3>3, <2>1, <2>3
  <2>14. PICK i \in 1..Len(ms) : pos[i] = j
    <3>1. j \in s..Len(path)
      BY <2>1, <2>9, <2>12, <2>13
    <3>2. j \in keep
      BY <3>1, <2>7, <2>12
    <3> QED
      BY <3>2, <2>5, <2>12 DEF Selection
  <2>15. /\ \A x, y \in 1..Len(ms) : x < y => pos[x] < pos[y]
         /\ \A x \in 1..Len(ms) : pos[x] \in Nat /\ pos[x] \in keep /\ ms[x] = path[pos[x]]
    BY <2>1, <2>5 DEF Selection
  <2>16. i < n
    <3>1. ~(n < i)
      BY <2>6, <2>12, <2>14, <2>15 DEF k
    <3>2. n # i
      BY <2>10, <2>12, <2>14 DEF k
    <3> QED
      BY <3>1, <3>2, <2>6
  <2>17. i = n - 1
    <3> SUFFICES ASSUME i # n - 1 PROVE FALSE
      OBVIOUS
    <3>1. i + 1 \in 1..Len(ms) /\ i + 1 < n /\ i < i + 1
      BY <2>6, <2>16
    <3>2. j < pos[i + 1] /\ pos[i + 1] < k /\ pos[i + 1] \in Nat
      BY <3>1, <2>6, <2>14, <2>15 DEF k
    <3>3. pos[i + 1] \in (j + 1)..(k - 1)
      BY <3>2, <2>10, <2>12
    <3>4. InContext(path[pos[i + 1]])
      BY <3>1, <2>15 DEF keep
    <3> QED
      BY <3>3, <3>4, <2>11
  <2> QED
    BY <2>6, <2>11, <2>14, <2>15, <2>16, <2>17
<1> QED
  BY <1>1, <1>2, <1>3, PTL DEF TreeSpec
=============================================================================
