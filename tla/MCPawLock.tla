------------------------------ MODULE MCPawLock -----------------------------
(* Three processes on two hosts: enough for a dead holder and two contenders, *)
(* on the dead one's host and on another.                                    *)
EXTENDS PawLock, TLC

CONSTANTS p1, p2, p3

MCProcs == {p1, p2, p3}

OneHost == [p \in {p1, p2, p3} |-> "h1"]

TwoHosts == (p1 :> "h1") @@ (p2 :> "h1") @@ (p3 :> "h2")

MCRefreshers == {p2}

NoRefreshers == {}
=============================================================================
