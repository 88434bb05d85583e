----------------------------- MODULE MCPawState -----------------------------
(* The session state machine with three slice ids, plans of at most two ids *)
(* (repeated and reused ids included) and two blocked codes.                *)
EXTENDS PawState, SequencesExt

CONSTANTS s1, s2, s3

MCSliceIds == {s1, s2, s3}

MCPlans == BoundedSeq({s1, s2, s3}, 2)

MCBlockedCodes == {"NEEDS_USER_DECISION", "TEST_FAILURE"}

SliceSymmetry == Permutations({s1, s2, s3})
=============================================================================
