------------------------------ MODULE NodeStore ------------------------------
(***************************************************************************)
(* The identity store of Central (internal/storage): the operations on the *)
(* set of monitored identities and on the operator's explicit aliases, as  *)
(* functions from one store value to the next.  A store value is what one  *)
(* critical section of Store.mu sees and what state.json holds: the module *)
(* NodeLifecycle keeps one in memory and one on disk.                      *)
(*                                                                         *)
(* An archived identity ("from" of an alias) stays in the store, but only  *)
(* its canonical identity ("to") is listed.  Names, locations and the      *)
(* telemetry of a node are not part of the value.                          *)
(***************************************************************************)
EXTENDS Naturals, FiniteSets

CONSTANTS
  Ids,    \* the random node identities Central may ever hand out
  Keys,   \* machine keys (one per physical machine)
  NoId,   \* "no identity": the empty string of the Go code
  NoKey   \* the empty ServerKey of a node saved before keys existed

ASSUME StoreAssumption == /\ NoId \notin Ids
                          /\ NoKey \notin Keys

-----------------------------------------------------------------------------
(* LastContact as Central's clock sees it: "none" is the zero time, "fresh" *)
(* at most 15 s old, "quiet" at most one hour, "stale" older, "future" later *)
(* than the present reading of the clock (a clock that was set back).        *)
Contact == {"none", "fresh", "quiet", "stale", "future"}

Store == [stored  : SUBSET Ids,
          key     : [Ids -> Keys \cup {NoKey}],
          contact : [Ids -> Contact],
          alias   : [Ids -> Ids \cup {NoId}]]

Archived(s) == {i \in Ids : s.alias[i] # NoId}

Canonical(s, id) == IF s.alias[id] # NoId THEN s.alias[id] ELSE id

(* Store.Nodes and Store.IsActiveNode: what a snapshot lists. *)
Listed(s) == {i \in s.stored : s.alias[i] = NoId}

(* The identity that a removal acts on, with the identities archived into it. *)
RemovalFamily(s, id) ==
  IF id \in Listed(s) THEN {id} \cup {i \in Ids : s.alias[i] = id} ELSE {}

-----------------------------------------------------------------------------
(* Removing identities (Store.DeleteIDs and the second half of Expire): an   *)
(* alias goes with either of its ends, an archived identity only when the    *)
(* caller names it.                                                          *)
Without(s, D) ==
  [stored  |-> s.stored \ D,
   key     |-> [i \in Ids |-> IF i \in D THEN NoKey ELSE s.key[i]],
   contact |-> [i \in Ids |-> IF i \in D THEN "none" ELSE s.contact[i]],
   alias   |-> [i \in Ids |-> IF i \in D \/ s.alias[i] \in D THEN NoId
                              ELSE s.alias[i]]]

(* RecordContact: an archived stream cannot keep the chosen node alive. *)
Touched(s, id) ==
  IF s.alias[id] # NoId THEN s ELSE [s EXCEPT !.contact[id] = "fresh"]

Added(s, id, k) ==
  [s EXCEPT !.stored = @ \cup {id}, !.key[id] = k, !.contact[id] = "fresh"]

KeyOwners(s, k) == {i \in s.stored : s.key[i] = k}

-----------------------------------------------------------------------------
(* Expire: canonical identities whose last contact is older than the limit, *)
(* and the identities archived into them.                                   *)
Expired(s) == {i \in Listed(s) : s.contact[i] = "stale"}

(* A mutant of ExpiredFamilies: the archived identities are left behind. *)
ExpiredAlone(s) == Expired(s)

ExpiredFamilies(s) ==
  Expired(s) \cup {i \in s.stored : s.alias[i] \in Expired(s)}

(* A time Central cannot use gets one observation window from now. *)
Observed(s) ==
  [s EXCEPT !.contact = [i \in Ids |->
     IF i \in Listed(s) /\ s.contact[i] \in {"none", "future"}
     THEN "fresh" ELSE s.contact[i]]]

-----------------------------------------------------------------------------
(* A mutant of AliasesWith: aliases of vanished groups are kept. *)
AliasesWithoutPruning(s, extra) ==
  [i \in Ids |-> IF extra[i] # NoId THEN extra[i] ELSE s.alias[i]]

(* ApplyAliases(extra): the new map, aliases of vanished groups dropped. *)
AliasesWith(s, extra) ==
  LET next == [i \in Ids |-> IF extra[i] # NoId THEN extra[i] ELSE s.alias[i]]
  IN  [i \in Ids |-> IF next[i] # NoId /\ {i, next[i]} \cap s.stored = {}
                     THEN NoId ELSE next[i]]

(* A mutant of AliasesValid: an alias may point to an archived identity. *)
AliasesValidWithChains(s, al) ==
  \A i \in Ids : al[i] # NoId =>
    /\ al[i] # i
    /\ {i, al[i]} \subseteq s.stored
    /\ NoKey \in {s.key[i], s.key[al[i]]} \/ s.key[i] = s.key[al[i]]

AliasesValid(s, al) ==
  \A i \in Ids : al[i] # NoId =>
    /\ al[i] # i
    /\ {i, al[i]} \subseteq s.stored
    /\ al[al[i]] = NoId
    /\ NoKey \in {s.key[i], s.key[al[i]]} \/ s.key[i] = s.key[al[i]]

NoAliases == [i \in Ids |-> NoId]
=============================================================================
