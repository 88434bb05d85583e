--------------------------- MODULE MessageDelivery ---------------------------
(***************************************************************************)
(* What prompt() of packages/coding-agent/src/core/agent-session.ts        *)
(* promises for the messages it accepts: each one reaches the conversation *)
(* once, or is given back to the user, or the call that sent it fails; and *)
(* one of the three does happen.  How the messages travel (queues, polls,  *)
(* retries, compactions) is AgentSession's business.                       *)
(***************************************************************************)
CONSTANT Texts

VARIABLE status  \* of every text

Init == status = [t \in Texts |-> "new"]

Move(from, to) ==
    \E ts \in SUBSET Texts :
       /\ ts # {}
       /\ \A t \in ts : status[t] \in from
       /\ status' = [t \in Texts |-> IF t \in ts THEN to ELSE status[t]]

\* A text is sent while no run is active, or queued while one is.
Send == Move({"new"}, "prompted") \/ Move({"new"}, "queued")

Accepted == {"prompted", "queued"}

\* Several messages may be drained from a queue and delivered together.  A
\* message given back after it was drained is still delivered.
Deliver == Move(Accepted \cup {"returned"}, "delivered")

GiveBack == Move({"queued"}, "returned")

\* A queued message is never refused: its prompt() has returned.
Refuse == Move({"prompted"}, "refused")

Next == Send \/ Deliver \/ GiveBack \/ Refuse

\* No accepted message is left behind.
Settles == \A t \in Texts : status[t] \in Accepted ~> status[t] \notin Accepted

Safety == Init /\ [][Next]_status

Spec == Safety /\ Settles

==============================================================================
