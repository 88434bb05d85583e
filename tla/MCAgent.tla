------------------------------- MODULE MCAgent -------------------------------
(* Two calls of prompt(): enough for the second to begin while the first      *)
(* waits.  A run and a queue that holds two texts take a third one.           *)
EXTENDS AgentSession, TLC

\* Sound for the safety run: neither drivers nor texts are told apart.
AgentSymmetry == Permutations(Drivers) \cup Permutations(Texts)

\* Bound: the third text is only sent where calls do not overlap, and a run with
\* three texts is not followed further once queued ones were given back.
ThirdTextAlone == used = Texts => ~overlapped /\ cleared = {}
==============================================================================
