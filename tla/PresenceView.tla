---------------------------- MODULE PresenceView ----------------------------
(***************************************************************************)
(* What the registry of online accounts promises to those who read it.     *)
(* Each node takes samples of its accounts; a life of its sender is one    *)
(* sequence of samples.  A reader sees for each node either nothing or     *)
(* exactly one of its samples that a healthy source gave; and while the    *)
(* samples of one life are held, never an earlier one after a later one.   *)
(***************************************************************************)
EXTENDS Naturals, Sequences

CONSTANT Nodes

VARIABLES
  taken,   \* the samples of each node: a sequence of lives
  at,      \* the life and number of the sample that Central holds
  shown    \* what a reader sees: <<accounts>>, or nothing: <<>>

vars == <<taken, at, shown>>

Init == /\ taken = [n \in Nodes |-> <<<<>>>>]
        /\ at = [n \in Nodes |-> <<0, 0>>]
        /\ shown = [n \in Nodes |-> <<>>]

(* Samples are only added. *)
Extended(n) ==
  \A e \in DOMAIN taken[n] :
    /\ e \in DOMAIN taken'[n]
    /\ \A k \in DOMAIN taken[n][e] :
         k \in DOMAIN taken'[n][e] /\ taken'[n][e][k] = taken[n][e][k]

Keep(n) == UNCHANGED <<at[n], shown[n]>>

(* Too old, forgotten, or Central restarted. *)
Hide(n) == shown'[n] = <<>> /\ at'[n] \in {at[n], <<0, 0>>}

(* A sample arrives that is later than the one held, or of another life. *)
Show(n) ==
  \E e \in DOMAIN taken'[n] : \E k \in DOMAIN taken'[n][e] :
    /\ e = at[n][1] => k > at[n][2]
    /\ at'[n] = <<e, k>>
    /\ shown'[n] = IF taken'[n][e][k].status = "ok" THEN <<taken'[n][e][k].users>>
                   ELSE <<>>

Next == \A n \in Nodes : Extended(n) /\ (Keep(n) \/ Hide(n) \/ Show(n))

Spec == Init /\ [][Next]_vars
=============================================================================
