----------------------------- MODULE MCLiveCards -----------------------------
(* Instances of LiveCards for TLC. *)
EXTENDS LiveCards, TLC

CONSTANTS n1, n2

(* Three troubles for the overview and one node, one for the overview and two *)
(* nodes, side by side.  Every step of the loop can be taken without trouble,  *)
(* so the restriction keeps no fair behaviour from going on.                   *)
Affordable == troubles <= 1 \/ phase[n2] = "new"
BudgetSpec == Init /\ [][Next /\ Affordable']_vars /\ WF_vars(ForumLoop) /\ WF_vars(Start)
=============================================================================
