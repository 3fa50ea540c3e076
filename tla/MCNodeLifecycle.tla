--------------------------- MODULE MCNodeLifecycle ---------------------------
(* Instances of NodeLifecycle for TLC. *)
EXTENDS NodeLifecycle, TLC

CONSTANTS
  i1, i2, i3, m1,
  Budgets       \* what may go wrong together in one behaviour

(* One machine with identity i1, into which i2 was merged. *)
OneMachine == {m1}
OneInstalled == m1 :> i1
OneMerged == [i \in Ids |-> IF i = i2 THEN i1 ELSE NoId]

(* The same machine, nothing merged yet. *)
NoneMerged == [i \in Ids |-> NoId]

(* Identities of one machine are saved with its address and hostname. *)
AllPairs == Ids \X Ids

-----------------------------------------------------------------------------
(* A run explores several budgets side by side: the sum of their state       *)
(* spaces instead of the product that one set of bounds would give.          *)
Budget(ops, flt, crash, loss, merge, setback, wipe, new) ==
  [ops |-> ops, faults |-> flt, crashes |-> crash, lost |-> loss,
   merges |-> merge, setbacks |-> setback, wipes |-> wipe, new |-> new, prompt |-> FALSE]

(* With less around it: no node is silent for an hour, no packet overtakes another. *)
Prompt(b) == [b EXCEPT !.prompt = TRUE]

Within(b) ==
  /\ nonces <= b.ops /\ faults <= b.faults /\ crashes <= b.crashes
  /\ lost <= b.lost /\ merges <= b.merges /\ setbacks <= b.setbacks
  /\ wipes <= b.wipes /\ Cardinality(used \ InitialIds) <= b.new
  /\ b.prompt => Cardinality(reqs) <= 1 /\ \A i \in Ids : mem.contact[i] # "stale"

Affordable == \E b \in Budgets : Within(b)
StaysAffordable == Affordable'

(* A removal under a stop with a lost request, a new registration or a refused *)
(* write, and after the clock was set back; a machine that is wiped and        *)
(* registers again, under a refused write and a stop, or with a merge and a    *)
(* lost request or a stop, or with a merge beside a removal and a stop.        *)
SafetyBudgets ==
  {Budget(1, 0, 1, 1, 0, 0, 0, 0), Budget(1, 0, 1, 0, 0, 0, 0, 1),
   Budget(1, 1, 1, 0, 0, 0, 0, 0), Budget(1, 0, 0, 0, 0, 1, 0, 0),
   Budget(0, 1, 1, 0, 0, 0, 1, 1), Budget(0, 0, 0, 1, 1, 0, 1, 1),
   Budget(0, 0, 1, 0, 1, 0, 1, 1), Prompt(Budget(1, 0, 1, 0, 1, 0, 1, 1))}

(* Two new registrations over a refused write and a stop, with a lost request  *)
(* or for a wiped machine; a wiped machine over a stop and a lost request; an  *)
(* uninstall over a stop, with a lost request or a new registration.           *)
LivenessBudgets ==
  {Budget(0, 1, 1, 1, 0, 0, 0, 2), Budget(0, 1, 1, 0, 0, 0, 1, 2),
   Budget(0, 0, 1, 1, 0, 0, 1, 1), Budget(1, 0, 1, 1, 0, 0, 0, 0),
   Budget(1, 0, 1, 0, 0, 0, 0, 1)}
=============================================================================
