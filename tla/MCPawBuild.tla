----------------------------- MODULE MCPawBuild -----------------------------
(* paw build on a plan of one or two slices, with other shells. *)
EXTENDS PawBuild

CONSTANTS s1, s2

TwoSlices == {s1, s2}

TwoSlicePlan == {<<>>, <<s1, s2>>}

MCBlockedCodes == {"CONTEXT_MISSING"}

(* One step too few and exactly enough for two slices. *)
MCMaxSteps == {10, 11}

(* Five commands take a slice from implementation to the next one's while a
   sub-agent works on it. *)
MCMaxMeddling == [n \in 0..2 |-> IF n = 1 THEN 5 ELSE 1]
=============================================================================
