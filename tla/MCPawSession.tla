---------------------------- MODULE MCPawSession ----------------------------
(* Commands of two processes on one host, on a plan of two slices.  One      *)
(* blocked code is enough: all are treated alike but NEEDS_USER_DECISION,    *)
(* which approve resumes and PawState's run has.                             *)
EXTENDS PawSession, TLC

CONSTANTS p1, p2, s1, s2

TwoProcs == {p1, p2}

(* Sound: both processes are on one host. *)
ProcSymmetry == Permutations(Procs)

OneHost == [p \in Procs |-> "h1"]

NoRefreshers == {}

TwoSlices == {s1, s2}

TwoSlicePlan == {<<s1, s2>>}

MCBlockedCodes == {"TEST_FAILURE"}

(* Worker outputs with and without changed files. *)
BothChanges == BOOLEAN

(* Bound: the search does not go on after a race.  AtomicUnlessRaced is about
   the steps before it, and after it the histories grow without limit. *)
NotRacedYet == incidents = {}
=============================================================================
