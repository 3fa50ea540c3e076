------------------------- MODULE NodeLifecycleProofs -------------------------
(***************************************************************************)
(* Theorems about NodeLifecycle, for every number of identities, machines, *)
(* faults, crashes, losses and merges.                                     *)
(***************************************************************************)
EXTENDS NodeLifecycle, TLAPS

-----------------------------------------------------------------------------
(* What the operations of the store return and preserve, for any store.    *)
Aliases == [Ids -> Ids \cup {NoId}]

(* Every operation of the store yields a store. *)
LEMMA StoreOperations ==
  ASSUME NEW s \in Store, NEW D
  PROVE  /\ Without(s, D) \in Store
         /\ Observed(s) \in Store
         /\ \A id \in Ids : Touched(s, id) \in Store
         /\ \A id \in Ids, k \in Keys \cup {NoKey} : Added(s, id, k) \in Store
         /\ \A id \in Ids, k \in Keys \cup {NoKey} : [s EXCEPT !.key[id] = k] \in Store
         /\ \A al \in Aliases : [s EXCEPT !.alias = al] \in Store
<1>1. Without(s, D) \in Store
  <2>1. [i \in Ids |-> IF i \in D THEN NoKey ELSE s.key[i]] \in [Ids -> Keys \cup {NoKey}]
    BY DEF Store
  <2>2. [i \in Ids |-> IF i \in D THEN "none" ELSE s.contact[i]] \in [Ids -> Contact]
    BY DEF Store, Contact
  <2>3. [i \in Ids |-> IF i \in D \/ s.alias[i] \in D THEN NoId ELSE s.alias[i]] \in Aliases
    BY DEF Store, Aliases
  <2>4. s.stored \ D \in SUBSET Ids
    BY DEF Store
  <2> QED BY <2>1, <2>2, <2>3, <2>4 DEF Without, Store, Aliases
<1>2. Observed(s) \in Store
  BY DEF Observed, Store, Contact
<1>3. \A id \in Ids : Touched(s, id) \in Store
  BY DEF Touched, Store, Contact
<1>4. \A id \in Ids, k \in Keys \cup {NoKey} : Added(s, id, k) \in Store
  BY DEF Added, Store, Contact
<1>5. \A id \in Ids, k \in Keys \cup {NoKey} : [s EXCEPT !.key[id] = k] \in Store
  BY DEF Store
<1>6. \A al \in Aliases : [s EXCEPT !.alias = al] \in Store
  BY DEF Store, Aliases
<1> QED BY <1>1, <1>2, <1>3, <1>4, <1>5, <1>6

(* The new map of ApplyAliases is a map of aliases. *)
LEMMA AliasesWithType ==
  ASSUME NEW s \in Store, NEW extra \in Aliases
  PROVE  AliasesWith(s, extra) \in Aliases
<1> DEFINE next == [i \in Ids |-> IF extra[i] # NoId THEN extra[i] ELSE s.alias[i]]
<1>1. next \in Aliases
  BY DEF Store, Aliases
<1> QED BY <1>1 DEF AliasesWith, Aliases

(* Canonical and RemovalFamily stay within the identities. *)
LEMMA CanonicalType ==
  ASSUME NEW s \in Store, NEW id \in Ids
  PROVE  Canonical(s, id) \in Ids /\ RemovalFamily(s, id) \in SUBSET Ids
BY DEF Canonical, RemovalFamily, Store

(* What an alias promises: its two ends are stored, and its target is listed. *)
Sound(s) == \A i \in Ids : s.alias[i] # NoId =>
              /\ {i, s.alias[i]} \subseteq s.stored
              /\ s.alias[s.alias[i]] = NoId

(* No removal leaves an alias dangling, whatever it removes (DeleteIDs, Expire). *)
LEMMA WithoutIsSound ==
  ASSUME StoreAssumption, NEW s \in Store, NEW D, Sound(s)
  PROVE  Sound(Without(s, D))
<1> DEFINE t == Without(s, D)
<1>1. /\ t.stored = s.stored \ D
      /\ \A i \in Ids : t.alias[i] = IF i \in D \/ s.alias[i] \in D THEN NoId ELSE s.alias[i]
  BY DEF Without
<1> SUFFICES ASSUME NEW i \in Ids, t.alias[i] # NoId
             PROVE  /\ {i, t.alias[i]} \subseteq t.stored
                    /\ t.alias[t.alias[i]] = NoId
  BY DEF Sound
<1>2. i \notin D /\ s.alias[i] \notin D /\ t.alias[i] = s.alias[i] /\ s.alias[i] # NoId
  BY <1>1
<1>3. s.alias[i] \in Ids
  BY <1>2 DEF Store
<1> HIDE DEF t
<1> QED BY <1>1, <1>2, <1>3 DEF Sound

-----------------------------------------------------------------------------
USE DEF Aliases

(* The types, and the identities that are never empty where they are used. *)
TypeCentral ==
  /\ up \in BOOLEAN /\ dirty \in BOOLEAN
  /\ mem \in Store /\ disk \in Store
  /\ cfg \in Aliases
  /\ journal \in [Ids -> Op]
  /\ capable \subseteq Ids /\ used \subseteq Ids /\ nonces \in Nat

TypeNodes ==
  /\ agent \in [Machines -> Agent]
  /\ \A m \in Machines : agent[m].st = "running" => agent[m].id \in Ids
  /\ helper \in [Machines -> Helper]
  /\ \A m \in Machines : helper[m].ph # "idle" => helper[m].id \in Ids
  /\ signal \in [Machines -> Nat]

TypeNetwork ==
  reqs \subseteq Request /\ acts \subseteq Action /\ givenup \subseteq Machines

TypeBounds ==
  /\ faults \in Nat /\ crashes \in Nat /\ lost \in Nat
  /\ merges \in Nat /\ setbacks \in Nat /\ wipes \in Nat

Typed == TypeCentral /\ TypeNodes /\ TypeNetwork /\ TypeBounds

-----------------------------------------------------------------------------
LEMMA EmptyStoreType == EmptyStore \in Store
BY DEF EmptyStore, Store, Contact, NoAliases

LEMMA InitialStoreType == InitialStore \in Store
<1>1. InitialIds \subseteq Ids
  BY LifecycleAssumption DEF InitialIds
<1>2. \A i \in Ids : (\E m \in Machines : Installed[m] = i)
        => (CHOOSE m \in Machines : Installed[m] = i) \in Keys
  BY LifecycleAssumption
<1> QED BY <1>1, <1>2, LifecycleAssumption DEF InitialStore, Store, Contact

LEMMA ConfiguredType ==
  ASSUME disk \in Store, cfg \in Aliases
  PROVE  Loaded \in Store /\ Configured \in Store
<1>1. NoAliases \in Aliases
  BY DEF NoAliases
<1>2. [disk EXCEPT !.alias = NoAliases] \in Store
  BY <1>1, StoreOperations
<1>3. disk.alias \in Aliases
  BY DEF Store
<1>4. AliasesWith([disk EXCEPT !.alias = NoAliases], disk.alias) \in Aliases
  BY <1>2, <1>3, AliasesWithType
<1>5. Loaded \in Store
  BY <1>4, StoreOperations DEF Loaded
<1>6. AliasesWith(Loaded, cfg) \in Aliases
  BY <1>5, AliasesWithType
<1> QED BY <1>5, <1>6, StoreOperations DEF Configured

LEMMA OlderType == Older \in [Contact -> Contact]
BY DEF Older, Contact

LEMMA SetBackType == ASSUME NEW s \in Store PROVE SetBack(s) \in Store
BY DEF SetBack, Store, Contact

LEMMA InitTyped == Init => Typed
<1> SUFFICES ASSUME Init PROVE Typed
  OBVIOUS
<1>1. InitialIds \subseteq Ids
  BY LifecycleAssumption DEF InitialIds
<1>2. NoOp \in Op
  BY DEF NoOp, Op
<1>3. Idle \in Helper
  BY DEF Idle, Helper, Phase
<1>4. TypeCentral
  BY <1>1, <1>2, InitialStoreType, LifecycleAssumption DEF Init, TypeCentral
<1>5. agent \in [Machines -> Agent]
  BY LifecycleAssumption DEF Init, Agent
<1>6. \A m \in Machines : agent[m].st = "running" => agent[m].id \in Ids
  BY LifecycleAssumption DEF Init
<1>7. TypeNodes
  BY <1>3, <1>5, <1>6 DEF Init, TypeNodes, Idle
<1>8. TypeNetwork /\ TypeBounds
  BY DEF Init, TypeNetwork, TypeBounds
<1> QED BY <1>4, <1>7, <1>8 DEF Typed

-----------------------------------------------------------------------------
(* What an action leaves alone keeps its type. *)
LEMMA NodesSame == TypeNodes /\ UNCHANGED nodeside => TypeNodes'
BY DEF TypeNodes, nodeside

LEMMA NetworkSame == TypeNetwork /\ UNCHANGED network => TypeNetwork'
BY DEF TypeNetwork, network

LEMMA CentralSame == TypeCentral /\ UNCHANGED central => TypeCentral'
BY DEF TypeCentral, central

LEMMA BoundsSame == TypeBounds /\ UNCHANGED bounds => TypeBounds'
BY DEF TypeBounds, bounds

(* The ways to write state.json keep the stores and count the fault. *)
LEMMA FlushTypes ==
  ASSUME TypeCentral, TypeBounds, NEW s \in Store, Flushed(s) \/ FlushRefused(s)
  PROVE  /\ mem' \in Store /\ disk' \in Store /\ dirty' \in BOOLEAN
         /\ faults' \in Nat
<1>1. disk' = disk \/ disk' = s
  BY DEF Flushed, FlushRefused
<1>2. mem' \in Store /\ disk' \in Store
  BY <1>1 DEF TypeCentral, Flushed, FlushRefused
<1>3. dirty' \in BOOLEAN
  BY DEF Flushed, FlushRefused
<1>4. faults' \in Nat
  BY DEF TypeBounds, Flushed, FlushRefused, NoFault, Fault
<1> QED BY <1>2, <1>3, <1>4

(* The requests that replace one another are requests. *)
LEMMA ReplaceTypes ==
  ASSUME TypeNetwork, NEW r \in reqs
  PROVE  /\ \A new \in SUBSET Request : Replace(r, new) => reqs' \subseteq Request
         /\ \A code \in Replied : Answered(r, code) => reqs' \subseteq Request
         /\ \A st \in InFlight, hint \in Nat : Moved(r, st, hint) => reqs' \subseteq Request
<1>1. r \in Request
  BY DEF TypeNetwork
<1>2. \A code \in Replied : [r EXCEPT !.st = code] \in Request
  BY <1>1 DEF Request
<1>3. \A st \in InFlight, hint \in Nat : [r EXCEPT !.st = st, !.hint = hint] \in Request
  BY <1>1 DEF Request
<1>4. \A new \in SUBSET Request : Replace(r, new) => reqs' \subseteq Request
  BY DEF Replace, TypeNetwork
<1> QED BY <1>2, <1>3, <1>4 DEF Answered, Moved

(* The type invariant is inductive: one step per action. *)
LEMMA CentralNextTyped == Typed /\ CentralNext => Typed'
<1> SUFFICES ASSUME Typed, CentralNext PROVE Typed'
  OBVIOUS
<1> USE DEF Typed
<1>1. CASE Stop
  <2>1. TypeCentral'
    BY <1>1, EmptyStoreType DEF Stop, Stopped, TypeCentral
  <2>2. TypeNetwork'
    BY <1>1 DEF Stop, Stopped, TypeNetwork
  <2>3. TypeBounds'
    BY <1>1 DEF Stop, Stopped, TypeBounds
  <2> QED BY <1>1, <2>1, <2>2, <2>3, NodesSame DEF Stop
<1>2. CASE Start
  <2>1. Configured \in Store /\ AfterJournal(Configured) \in Store
    BY ConfiguredType, StoreOperations DEF AfterJournal, TypeCentral
  <2>2. \A D : Without(Configured, D) \in Store
    BY <2>1, StoreOperations
  <2>3. up' \in BOOLEAN /\ mem' \in Store /\ disk' \in Store
    BY <1>2, <2>1, <2>2 DEF Start, TypeCentral
  <2>4. TypeCentral'
    BY <1>2, <2>3 DEF Start, TypeCentral
  <2>5. TypeBounds'
    BY <1>2 DEF Start, TypeBounds, NoFault, Fault
  <2> QED BY <1>2, <2>4, <2>5, NodesSame, NetworkSame DEF Start
<1>3. CASE Flush
  <2>1. mem \in Store
    BY DEF TypeCentral
  <2>2. /\ mem' \in Store /\ disk' \in Store /\ dirty' \in BOOLEAN
        /\ faults' \in Nat
    BY <1>3, <2>1, FlushTypes DEF Flush
  <2>3. TypeCentral' /\ TypeBounds'
    BY <1>3, <2>2 DEF Flush, TypeCentral, TypeBounds
  <2> QED BY <1>3, <2>3, NodesSame, NetworkSame DEF Flush
<1>4. CASE Expire
  <2> DEFINE seen == Observed(mem)
             gone == ExpiredFamilies(mem)
  <2>1. seen \in Store /\ Without(seen, gone) \in Store
    BY StoreOperations DEF TypeCentral
  <2> HIDE DEF seen, gone
  <2>2. \/ Flushed(seen) \/ FlushRefused(seen)
        \/ SaveOrUndo(Without(seen, gone), seen)
    BY <1>4 DEF Expire, seen, gone
  <2>3. /\ mem' \in Store /\ disk' \in Store /\ dirty' \in BOOLEAN
        /\ faults' \in Nat
    <3>1. CASE SaveOrUndo(Without(seen, gone), seen)
      <4>1. mem' \in Store /\ disk' \in Store
        BY <3>1, <2>1 DEF SaveOrUndo, TypeCentral
      <4>2. dirty' \in BOOLEAN
        BY <3>1, Zenon DEF SaveOrUndo
      <4>3. faults' \in Nat
        BY <3>1 DEF SaveOrUndo, NoFault, Fault, TypeBounds
      <4> QED BY <4>1, <4>2, <4>3
    <3> QED BY <2>1, <2>2, <3>1, FlushTypes
  <2>4. TypeCentral' /\ TypeBounds'
    BY <1>4, <2>3 DEF Expire, TypeCentral, TypeBounds
  <2> QED BY <1>4, <2>4, NodesSame, NetworkSame DEF Expire
<1> QED BY <1>1, <1>2, <1>3, <1>4 DEF CentralNext

LEMMA MetricNextTyped == Typed /\ MetricNext => Typed'
<1> SUFFICES ASSUME Typed, MetricNext PROVE Typed'
  OBVIOUS
<1> USE DEF Typed
<1>1. ASSUME NEW m \in Machines, SendMetric(m) PROVE Typed'
  <2>1. [m |-> m, id |-> agent[m].id, st |-> "new", live |-> TRUE, hint |-> 0] \in Request
    BY <1>1 DEF SendMetric, Request, InFlight, TypeNodes
  <2>2. TypeNetwork'
    BY <1>1, <2>1 DEF SendMetric, TypeNetwork
  <2> QED BY <1>1, <2>2, CentralSame, NodesSame, BoundsSame DEF SendMetric
<1>2. ASSUME NEW r \in reqs, GiveUp(r) PROVE Typed'
  <2>1. {} \in SUBSET Request /\ {[r EXCEPT !.live = FALSE]} \in SUBSET Request
    BY DEF TypeNetwork, Request
  <2>2. TypeNetwork'
    BY <1>2, <2>1, ReplaceTypes DEF GiveUp, TypeNetwork
  <2>3. TypeBounds'
    BY <1>2 DEF GiveUp, TypeBounds
  <2> QED BY <1>2, <2>2, <2>3, CentralSame, NodesSame DEF GiveUp
<1>3. ASSUME NEW r \in reqs, Lookup(r) PROVE Typed'
  <2>1. TypeNetwork'
    BY <1>3, ReplaceTypes DEF Lookup, TypeNetwork, InFlight, Replied
  <2> QED BY <1>3, <2>1, CentralSame, NodesSame, BoundsSame DEF Lookup
<1>4. ASSUME NEW r \in reqs, RecordContact(r) PROVE Typed'
  <2>1. r.id \in Ids
    BY DEF TypeNetwork, Request
  <2>2. Touched(mem, r.id) \in Store
    BY <2>1, StoreOperations DEF TypeCentral
  <2>3. Hint(r.id) \in Nat
    BY <2>1 DEF Hint, Op, TypeCentral
  <2>4. TypeCentral'
    BY <1>4, <2>1, <2>2 DEF RecordContact, TypeCentral
  <2>5. TypeNetwork'
    BY <1>4, <2>3, ReplaceTypes DEF RecordContact, TypeNetwork, InFlight, Replied
  <2> QED BY <1>4, <2>4, <2>5, NodesSame, BoundsSame DEF RecordContact
<1>5. ASSUME NEW r \in reqs, BindServerKey(r) PROVE Typed'
  <2>1. r.id \in Ids /\ r.m \in Keys
    BY LifecycleAssumption DEF TypeNetwork, Request
  <2> DEFINE s == [mem EXCEPT !.key[r.id] = r.m]
  <2>2. s \in Store
    BY <2>1, StoreOperations DEF TypeCentral
  <2> HIDE DEF s
  <2>3. \/ UNCHANGED <<mem, dirty, disk, faults>>
        \/ Flushed(s) \/ FlushRefused(s)
    BY <1>5 DEF BindServerKey, s
  <2>4. /\ mem' \in Store /\ disk' \in Store /\ dirty' \in BOOLEAN
        /\ faults' \in Nat
    BY <2>2, <2>3, FlushTypes DEF TypeCentral, TypeBounds
  <2>5. TypeCentral' /\ TypeBounds'
    BY <1>5, <2>4 DEF BindServerKey, TypeCentral, TypeBounds
  <2>6. Answered(r, "409") \/ Answered(r, "204")
    BY <1>5 DEF BindServerKey
  <2>7. TypeNetwork'
    BY <1>5, <2>6, ReplaceTypes DEF BindServerKey, TypeNetwork, Replied
  <2> QED BY <1>5, <2>5, <2>7, NodesSame DEF BindServerKey
<1>6. ASSUME NEW r \in reqs, Receive(r) PROVE Typed'
  <2>1. r.m \in Machines /\ r.hint \in Nat
    BY DEF TypeNetwork, Request
  <2>2. TypeNetwork'
    BY <1>6, ReplaceTypes DEF Receive, TypeNetwork
  <2>3. TypeNodes'
    BY <1>6, <2>1 DEF Receive, TypeNodes, Agent
  <2> QED BY <1>6, <2>2, <2>3, CentralSame, BoundsSame DEF Receive
<1> QED BY <1>1, <1>2, <1>3, <1>4, <1>5, <1>6 DEF MetricNext

LEMMA RegisterNextTyped == Typed /\ RegisterNext => Typed'
<1> SUFFICES ASSUME Typed, RegisterNext PROVE Typed'
  OBVIOUS
<1> USE DEF Typed
<1>1. ASSUME NEW m \in Machines, NEW waits \in BOOLEAN, NEW id \in Ids,
             Registered(m, id, waits)
      PROVE  /\ agent' \in [Machines -> Agent]
             /\ \A n \in Machines : agent'[n].st = "running" => agent'[n].id \in Ids
             /\ lost' \in Nat
  <2>1. CASE agent' = [agent EXCEPT ![m] = [st |-> "running", id |-> id]] /\ UNCHANGED lost
    BY <2>1 DEF TypeNodes, TypeBounds, Agent
  <2>2. CASE UNCHANGED agent /\ lost' \in {lost, lost + 1}
    BY <2>2 DEF TypeNodes, TypeBounds
  <2> QED BY <1>1, <2>1, <2>2 DEF Registered, Unanswered
<1>2. ASSUME NEW m \in Machines, NEW waits \in BOOLEAN, RegisterKnown(m, waits) PROVE Typed'
  <2>1. PICK owner \in KeyOwners(mem, m) :
          \/ Flushed(mem) /\ Registered(m, Canonical(mem, owner), waits)
          \/ FlushRefused(mem) /\ Unanswered
    BY <1>2 DEF RegisterKnown
  <2>2. Canonical(mem, owner) \in Ids
    BY CanonicalType DEF KeyOwners, Store, TypeCentral
  <2>3. /\ mem' \in Store /\ disk' \in Store /\ dirty' \in BOOLEAN
        /\ faults' \in Nat
    BY <2>1, FlushTypes DEF TypeCentral
  <2>4. TypeCentral'
    BY <1>2, <2>3 DEF RegisterKnown, TypeCentral
  <2>5. TypeNodes' /\ TypeBounds'
    BY <1>1, <1>2, <2>1, <2>2, <2>3 DEF RegisterKnown, Unanswered, TypeNodes, TypeBounds
  <2>6. TypeNetwork'
    BY <1>2 DEF RegisterKnown, Registering, TypeNetwork
  <2> QED BY <2>4, <2>5, <2>6
<1>3. ASSUME NEW m \in Machines, NEW waits \in BOOLEAN, RegisterNew(m, waits) PROVE Typed'
  <2>1. PICK id \in Ids \ used :
          /\ used' = used \cup {id}
          /\ \/ Flushed(Added(mem, id, m)) /\ Registered(m, id, waits)
             \/ FlushRefused(Added(mem, id, m)) /\ Unanswered
    BY <1>3 DEF RegisterNew
  <2>2. Added(mem, id, m) \in Store
    BY StoreOperations, LifecycleAssumption DEF TypeCentral
  <2>3. /\ mem' \in Store /\ disk' \in Store /\ dirty' \in BOOLEAN
        /\ faults' \in Nat
    BY <2>1, <2>2, FlushTypes
  <2>4. TypeCentral'
    BY <1>3, <2>1, <2>3 DEF RegisterNew, TypeCentral
  <2>5. TypeNodes' /\ TypeBounds'
    BY <1>1, <1>3, <2>1, <2>3 DEF RegisterNew, Unanswered, TypeNodes, TypeBounds
  <2>6. TypeNetwork'
    BY <1>3 DEF RegisterNew, Registering, TypeNetwork
  <2> QED BY <2>4, <2>5, <2>6
<1>4. ASSUME NEW m \in Machines, LeaveRegistration(m) PROVE Typed'
  <2>1. TypeCentral' /\ TypeNodes'
    BY <1>4, CentralSame, NodesSame DEF LeaveRegistration
  <2>2. TypeNetwork' /\ TypeBounds'
    BY <1>4 DEF LeaveRegistration, TypeNetwork, TypeBounds
  <2> QED BY <2>1, <2>2
<1> QED BY <1>2, <1>3, <1>4 DEF RegisterNext

LEMMA TimeNextTyped == Typed /\ TimeNext => Typed'
<1> SUFFICES ASSUME Typed, TimeNext PROVE Typed'
  OBVIOUS
<1> USE DEF Typed
<1>1. CASE ClockSetBack
  <2>1. TypeCentral'
    BY <1>1, SetBackType DEF ClockSetBack, TypeCentral
  <2>2. TypeBounds'
    BY <1>1 DEF ClockSetBack, TypeBounds
  <2> QED BY <1>1, <2>1, <2>2, NetworkSame, NodesSame DEF ClockSetBack
<1>2. ASSUME NEW id \in Ids, Age(id) PROVE Typed'
  <2>1. \A s \in Store : [s EXCEPT !.contact[id] = Older[@]] \in Store
    BY OlderType DEF Store
  <2>2. TypeCentral'
    BY <1>2, <2>1 DEF Age, TypeCentral
  <2> QED BY <1>2, <2>2, NetworkSame, NodesSame, BoundsSame DEF Age
<1>3. ASSUME NEW id \in Ids, Lapse(id) PROVE Typed'
  <2>1. TypeCentral'
    BY <1>3 DEF Lapse, TypeCentral, Op
  <2> QED BY <1>3, <2>1, NetworkSame, NodesSame, BoundsSame DEF Lapse
<1> QED BY <1>1, <1>2, <1>3 DEF TimeNext

-----------------------------------------------------------------------------
(* The steps of a removal. *)
LEMMA PurgeTypes ==
  ASSUME TypeCentral, TypeBounds, NEW ids, Purge(ids)
  PROVE  /\ mem' \in Store /\ disk' \in Store /\ dirty' \in BOOLEAN
         /\ faults' \in Nat
<1>1. Without(mem, ids) \in Store
  BY StoreOperations DEF TypeCentral
<1>2. mem' \in Store /\ disk' \in Store /\ dirty' \in BOOLEAN
  BY <1>1 DEF Purge, TypeCentral
<1>3. faults' \in Nat
  BY DEF Purge, NoFault, Fault, TypeBounds
<1> QED BY <1>2, <1>3

LEMMA SaveAndPurgeTypes ==
  ASSUME TypeCentral, TypeNetwork, TypeBounds,
         NEW id \in Ids, NEW op \in Op, SaveAndPurge(id, op)
  PROVE  /\ up' \in BOOLEAN /\ mem' \in Store /\ disk' \in Store /\ dirty' \in BOOLEAN
         /\ journal' \in [Ids -> Op] /\ capable' \subseteq Ids
         /\ faults' \in Nat /\ crashes' \in Nat
         /\ ~up' /\ up => TypeNetwork'
<1>1. CASE journal' = [journal EXCEPT ![id] = op] /\ Purge(op.ids) /\ UNCHANGED <<up, capable, crashes>>
  <2>1. /\ mem' \in Store /\ disk' \in Store /\ dirty' \in BOOLEAN
        /\ faults' \in Nat
    BY <1>1, PurgeTypes
  <2> QED BY <1>1, <2>1 DEF TypeCentral, TypeBounds
<1>2. CASE journal' = [journal EXCEPT ![id] = op] /\ Stopped /\ UNCHANGED <<disk, faults>>
  <2>1. up' \in BOOLEAN /\ mem' \in Store /\ disk' \in Store /\ dirty' \in BOOLEAN /\ capable' \subseteq Ids
    BY <1>2, EmptyStoreType DEF Stopped, TypeCentral
  <2>2. journal' \in [Ids -> Op]
    BY <1>2 DEF TypeCentral
  <2>3. faults' \in Nat /\ crashes' \in Nat
    BY <1>2 DEF Stopped, TypeBounds
  <2>4. TypeNetwork'
    BY <1>2 DEF Stopped, TypeNetwork
  <2> QED BY <2>1, <2>2, <2>3, <2>4
<1>3. CASE Fault /\ UNCHANGED <<journal, up, mem, dirty, disk, capable, crashes>>
  BY <1>3 DEF Fault, TypeCentral, TypeBounds
<1> QED BY <1>1, <1>2, <1>3 DEF SaveAndPurge

LEMMA OpTypes ==
  ASSUME NEW op \in Op
  PROVE  /\ [op EXCEPT !.status = "accepted", !.live = TRUE] \in Op
         /\ [op EXCEPT !.status = "failed"] \in Op
         /\ [op EXCEPT !.status = "removed", !.live = FALSE] \in Op
BY DEF Op

LEMMA SaveOpTypes ==
  ASSUME TypeCentral, TypeBounds, NEW id \in Ids, NEW op \in Op, SaveOp(id, op)
  PROVE  journal' \in [Ids -> Op] /\ faults' \in Nat
BY DEF SaveOp, NoFault, Fault, TypeCentral, TypeBounds

LEMMA AbandonedTypes ==
  ASSUME TypeNetwork, NEW m \in Machines, Abandoned(m)
  PROVE  reqs' \subseteq Request
<1>1. \A r \in reqs : [r EXCEPT !.live = FALSE] \in Request
  BY DEF TypeNetwork, Request
<1> QED BY <1>1 DEF Abandoned, TypeNetwork

LEMMA OperatorNextTyped == Typed /\ OperatorNext => Typed'
<1> SUFFICES ASSUME Typed, OperatorNext PROVE Typed'
  OBVIOUS
<1> USE DEF Typed
<1>1. ASSUME NEW id \in Ids, FinishRemoval(id) PROVE Typed'
  <2>1. Purge(journal[id].ids)
    BY <1>1 DEF FinishRemoval
  <2>2. /\ mem' \in Store /\ disk' \in Store /\ dirty' \in BOOLEAN
        /\ faults' \in Nat
    BY <2>1, PurgeTypes
  <2>3. TypeCentral' /\ TypeBounds'
    BY <1>1, <2>2 DEF FinishRemoval, RemovalStep, TypeCentral, TypeBounds
  <2> QED BY <1>1, <2>3, NodesSame, NetworkSame DEF FinishRemoval, RemovalStep
<1>2. ASSUME NEW id \in Ids, RemoveFromList(id) PROVE Typed'
  <2> DEFINE op == [NoOp EXCEPT !.status = "removed", !.ids = RemovalFamily(mem, id)]
  <2>1. op \in Op
    BY CanonicalType DEF NoOp, Op, TypeCentral
  <2> HIDE DEF op
  <2>2. up /\ SaveAndPurge(id, op)
    BY <1>2 DEF RemoveFromList, RemovalStep, op
  <2>3. /\ up' \in BOOLEAN /\ mem' \in Store /\ disk' \in Store /\ dirty' \in BOOLEAN
        /\ journal' \in [Ids -> Op] /\ capable' \subseteq Ids
        /\ faults' \in Nat /\ crashes' \in Nat
        /\ ~up' /\ up => TypeNetwork'
    BY <2>1, <2>2, SaveAndPurgeTypes
  <2>4. TypeCentral' /\ TypeBounds'
    BY <1>2, <2>3 DEF RemoveFromList, RemovalStep, TypeCentral, TypeBounds
  <2>5. TypeNetwork'
    BY <1>2, <2>2, <2>3 DEF RemoveFromList, TypeNetwork, network
  <2> QED BY <1>2, <2>4, <2>5, NodesSame DEF RemoveFromList, RemovalStep
<1>3. ASSUME NEW id \in Ids, RequestUninstall(id) PROVE Typed'
  <2> DEFINE op == [status |-> "pending", nonce |-> nonces + 1, live |-> TRUE,
                    ids |-> RemovalFamily(mem, id)]
  <2>1. op \in Op
    BY CanonicalType DEF Op, TypeCentral
  <2> HIDE DEF op
  <2>2. SaveOp(id, op)
    BY <1>3 DEF RequestUninstall, op
  <2>3. journal' \in [Ids -> Op] /\ faults' \in Nat
    BY <2>1, <2>2, SaveOpTypes
  <2>4. TypeCentral' /\ TypeBounds'
    BY <1>3, <2>3 DEF RequestUninstall, RemovalStep, TypeCentral, TypeBounds
  <2> QED BY <1>3, <2>4, NodesSame, NetworkSame DEF RequestUninstall, RemovalStep
<1>4. ASSUME NEW m \in Machines, Reinstall(m) PROVE Typed'
  <2>1. TypeNodes'
    BY <1>4 DEF Reinstall, TypeNodes, Agent
  <2> QED BY <1>4, <2>1, CentralSame, NetworkSame, BoundsSame DEF Reinstall
<1>5. ASSUME NEW m \in Machines, Wipe(m) PROVE Typed'
  <2>1. TypeNodes'
    BY <1>5 DEF Wipe, TypeNodes, Agent
  <2>2. TypeNetwork'
    BY <1>5, AbandonedTypes DEF Wipe, TypeNetwork
  <2>3. TypeBounds'
    BY <1>5 DEF Wipe, TypeBounds
  <2> QED BY <1>5, <2>1, <2>2, <2>3, CentralSame DEF Wipe
<1>6. ASSUME NEW from \in Ids, NEW to \in Ids, Merge(from, to) PROVE Typed'
  <2>1. TypeCentral'
    BY <1>6 DEF Merge, TypeCentral
  <2>2. TypeBounds'
    BY <1>6 DEF Merge, TypeBounds
  <2> QED BY <1>6, <2>1, <2>2, NodesSame, NetworkSame DEF Merge
<1> QED BY <1>1, <1>2, <1>3, <1>4, <1>5, <1>6 DEF OperatorNext

-----------------------------------------------------------------------------
(* The helpers and their exchanges. *)
HelperTypes ==
  /\ helper' \in [Machines -> Helper]
  /\ \A m \in Machines : helper'[m].ph # "idle" => helper'[m].id \in Ids
  /\ acts' \subseteq Action
  /\ signal' \in [Machines -> Nat]

LEMMA WentTypes ==
  ASSUME TypeNodes, NEW m \in Machines, NEW ok \in BOOLEAN
  PROVE  /\ Went(m, ok) \in Helper
         /\ Went(m, ok).ph # "idle" => Went(m, ok).id \in Ids
         /\ Begun(m, Went(m, ok)) \subseteq Action
         /\ SignalAfter(m) \in [Machines -> Nat]
<1> DEFINE h == helper[m]
<1>1. h \in Helper /\ (h.ph # "idle" => h.id \in Ids)
  BY DEF TypeNodes
<1>2. Idle \in Helper /\ Idle.ph = "idle"
  BY DEF Idle, Helper, Phase
<1>3. \/ Went(m, ok) = Idle
      \/ h.ph # "idle" /\ \E ph \in {"checked", "cleaning", "failed"} : Went(m, ok) = [h EXCEPT !.ph = ph]
      \/ h.ph # "idle" /\ h.tries < 3 /\ Went(m, ok) = [h EXCEPT !.tries = @ + 1]
  BY DEF Went
<1>4. \A ph \in {"checked", "cleaning", "failed"} : [h EXCEPT !.ph = ph] \in Helper
  BY <1>1 DEF Helper, Phase
<1>5. h.tries < 3 => [h EXCEPT !.tries = @ + 1] \in Helper
  BY <1>1 DEF Helper
<1>6. Went(m, ok) \in Helper
  BY <1>2, <1>3, <1>4, <1>5
<1>7. Went(m, ok).ph # "idle" => Went(m, ok).id \in Ids
  BY <1>1, <1>2, <1>3, <1>5 DEF Helper
<1>8. Begun(m, Went(m, ok)) \subseteq Action
  <2> DEFINE w == Went(m, ok)
  <2> HIDE DEF w
  <2>1. ASSUME w.ph \in {"failed", "complete"}
        PROVE  [m |-> m, id |-> w.id, nonce |-> w.nonce, phase |-> w.ph, live |-> TRUE] \in Action
    <3>1. w.id \in Ids /\ w.nonce \in Nat /\ w.ph \in Phase
      BY <1>6, <1>7, <2>1 DEF w, Helper, Phase
    <3> QED BY <3>1 DEF Action
  <2>2. Begun(m, w) \subseteq Action
    BY <2>1 DEF Begun
  <2> QED BY <2>2 DEF w
<1>9. SignalAfter(m) \in [Machines -> Nat]
  BY DEF SignalAfter, TypeNodes
<1> QED BY <1>6, <1>7, <1>8, <1>9

LEMMA OutcomeTypes ==
  ASSUME TypeNodes, NEW a \in Action, NEW ok \in BOOLEAN, NEW rest \in SUBSET Action,
         Outcome(a, ok, rest)
  PROVE  HelperTypes
<1>1. a.m \in Machines
  BY DEF Action
<1>2. CASE a.live
  <2>1. /\ helper' = [helper EXCEPT ![a.m] = Went(a.m, ok)]
        /\ signal' = SignalAfter(a.m)
        /\ acts' = rest \cup Begun(a.m, Went(a.m, ok))
    BY <1>2 DEF Outcome
  <2> QED BY <1>1, <2>1, WentTypes DEF HelperTypes, TypeNodes
<1>3. CASE ~a.live
  BY <1>3 DEF Outcome, HelperTypes, TypeNodes
<1> QED BY <1>2, <1>3

LEMMA ExchangeTypes ==
  ASSUME TypeNodes, TypeNetwork, NEW m \in Machines, NEW ph \in Phase, NEW tries \in 0..3,
         NEW id \in Ids, NEW nonce \in Nat, Exchange(m, ph, tries, id, nonce)
  PROVE  /\ helper' \in [Machines -> Helper]
         /\ \A n \in Machines : helper'[n].ph # "idle" => helper'[n].id \in Ids
         /\ acts' \subseteq Action
<1>1. [ph |-> ph, id |-> id, nonce |-> nonce, tries |-> tries] \in Helper
  BY DEF Helper
<1>2. [m |-> m, id |-> id, nonce |-> nonce, phase |-> ph, live |-> TRUE] \in Action
  BY DEF Action
<1>3. acts' \subseteq Action
  BY <1>2 DEF Exchange, TypeNetwork
<1> QED BY <1>1, <1>3 DEF Exchange, TypeNodes

LEMMA NodesStep ==
  ASSUME TypeNodes, HelperTypes, agent' = agent
  PROVE  TypeNodes'
BY DEF TypeNodes, HelperTypes

LEMMA HelperNextTyped == Typed /\ HelperNext => Typed'
<1> SUFFICES ASSUME Typed, HelperNext PROVE Typed'
  OBVIOUS
<1> USE DEF Typed
<1>1. ASSUME NEW m \in Machines, HelperStart(m) PROVE Typed'
  <2>1. agent[m].id \in Ids /\ signal[m] \in Nat
    BY <1>1 DEF HelperStart, TypeNodes
  <2>2. /\ helper' \in [Machines -> Helper]
        /\ \A n \in Machines : helper'[n].ph # "idle" => helper'[n].id \in Ids
        /\ acts' \subseteq Action
    BY <1>1, <2>1, ExchangeTypes DEF HelperStart, Phase
  <2>3. TypeNodes' /\ TypeNetwork'
    BY <1>1, <2>2 DEF HelperStart, TypeNodes, TypeNetwork
  <2> QED BY <1>1, <2>3, CentralSame, BoundsSame DEF HelperStart
<1>2. ASSUME NEW m \in Machines, HelperTimeout(m) PROVE Typed'
  <2>1. Went(m, FALSE) \in Helper /\ (Went(m, FALSE).ph # "idle" => Went(m, FALSE).id \in Ids)
        /\ Begun(m, Went(m, FALSE)) \subseteq Action /\ SignalAfter(m) \in [Machines -> Nat]
    BY WentTypes
  <2>2. \A a \in acts : [a EXCEPT !.live = FALSE] \in Action
    BY DEF TypeNetwork, Action
  <2>3. acts' \subseteq Action
    BY <1>2, <2>1, <2>2 DEF HelperTimeout, TypeNetwork
  <2>4. TypeNodes'
    BY <1>2, <2>1 DEF HelperTimeout, TypeNodes
  <2>5. TypeBounds'
    BY <1>2 DEF HelperTimeout, TypeBounds
  <2>6. TypeNetwork'
    BY <1>2, <2>3 DEF HelperTimeout, TypeNetwork
  <2> QED BY <1>2, <2>4, <2>5, <2>6, CentralSame DEF HelperTimeout
<1>3. ASSUME NEW m \in Machines, Preflight(m) PROVE Typed'
  <2>1. helper[m].id \in Ids /\ helper[m].nonce \in Nat
    BY <1>3 DEF Preflight, TypeNodes, Helper
  <2>2. /\ helper' \in [Machines -> Helper]
        /\ \A n \in Machines : helper'[n].ph # "idle" => helper'[n].id \in Ids
        /\ acts' \subseteq Action
    BY <1>3, <2>1, ExchangeTypes DEF Preflight, Phase
  <2>3. TypeNodes' /\ TypeNetwork'
    BY <1>3, <2>2 DEF Preflight, TypeNodes, TypeNetwork
  <2> QED BY <1>3, <2>3, CentralSame, BoundsSame DEF Preflight
<1>4. ASSUME NEW m \in Machines, Cleanup(m) PROVE Typed'
  <2>1. helper[m].id \in Ids /\ helper[m].nonce \in Nat
    BY <1>4 DEF Cleanup, TypeNodes, Helper
  <2>2. /\ helper' \in [Machines -> Helper]
        /\ \A n \in Machines : helper'[n].ph # "idle" => helper'[n].id \in Ids
        /\ acts' \subseteq Action
    BY <1>4, <2>1, ExchangeTypes DEF Cleanup, Phase
  <2>3. reqs' \subseteq Request
    BY <1>4, AbandonedTypes DEF Cleanup, TypeNetwork
  <2>4. agent' \in [Machines -> Agent] /\ signal' \in [Machines -> Nat]
    BY <1>4 DEF Cleanup, TypeNodes, Agent
  <2>5. \A n \in Machines : agent'[n].st = "running" => agent'[n].id \in Ids
    BY <1>4 DEF Cleanup, TypeNodes
  <2>6. TypeNodes' /\ TypeNetwork'
    BY <1>4, <2>2, <2>3, <2>4, <2>5 DEF Cleanup, TypeNodes, TypeNetwork
  <2> QED BY <1>4, <2>6, CentralSame, BoundsSame DEF Cleanup
<1>5. ASSUME NEW a \in acts, Refuse(a) \/ Poll(a) PROVE Typed'
  <2>1. a \in Action /\ acts \ {a} \in SUBSET Action
    BY DEF TypeNetwork
  <2>2. HelperTypes
    BY <1>5, <2>1, OutcomeTypes DEF Refuse, Poll
  <2>3. TypeNodes' /\ TypeNetwork'
    BY <1>5, <2>2, NodesStep DEF HelperTypes, Refuse, Poll, ActionStep, TypeNetwork
  <2>4. UNCHANGED central /\ UNCHANGED bounds
    BY <1>5 DEF Refuse, Poll, ActionStep, central, bounds
  <2> QED BY <2>3, <2>4, CentralSame, BoundsSame
<1>6. ASSUME NEW a \in acts, Decide(a) PROVE Typed'
  <2>1. a \in Action /\ a.id \in Ids /\ acts \ {a} \in SUBSET Action
    BY DEF TypeNetwork, Action
  <2>2. HelperTypes
    BY <1>6, <2>1, OutcomeTypes DEF Decide
  <2>3. TypeNodes' /\ TypeNetwork'
    BY <1>6, <2>2, NodesStep DEF HelperTypes, Decide, ActionStep, TypeNetwork
  <2> DEFINE op == IF a.phase = "accept"
                   THEN [journal[a.id] EXCEPT !.status = "accepted", !.live = TRUE]
                   ELSE [journal[a.id] EXCEPT !.status = "failed"]
  <2>4. op \in Op
    BY <2>1, OpTypes DEF TypeCentral
  <2>5. SaveOp(a.id, op)
    BY <1>6 DEF Decide
  <2> HIDE DEF op
  <2>6. journal' \in [Ids -> Op] /\ faults' \in Nat
    BY <2>1, <2>4, <2>5, SaveOpTypes
  <2>7. TypeCentral' /\ TypeBounds'
    BY <1>6, <2>6 DEF Decide, ActionStep, TypeCentral, TypeBounds
  <2> QED BY <2>3, <2>7
<1>7. ASSUME NEW a \in acts, Complete(a) PROVE Typed'
  <2>1. a \in Action /\ a.id \in Ids /\ acts \ {a} \in SUBSET Action
    BY DEF TypeNetwork, Action
  <2> DEFINE op == [journal[a.id] EXCEPT !.status = "removed", !.live = FALSE]
  <2>2. op \in Op
    BY <2>1, OpTypes DEF TypeCentral
  <2>3. up /\ SaveAndPurge(a.id, op)
    BY <1>7 DEF Complete, ActionStep
  <2> HIDE DEF op
  <2>4. /\ up' \in BOOLEAN /\ mem' \in Store /\ disk' \in Store /\ dirty' \in BOOLEAN
        /\ journal' \in [Ids -> Op] /\ capable' \subseteq Ids
        /\ faults' \in Nat /\ crashes' \in Nat
        /\ ~up' /\ up => TypeNetwork'
    BY <2>1, <2>2, <2>3, SaveAndPurgeTypes
  <2>5. TypeCentral' /\ TypeBounds'
    BY <1>7, <2>4 DEF Complete, ActionStep, TypeCentral, TypeBounds
  <2>6. CASE up'
    <3>1. HelperTypes
      BY <1>7, <2>1, <2>6, OutcomeTypes DEF Complete
    <3> QED BY <1>7, <2>5, <2>6, <3>1, NodesStep DEF HelperTypes, Complete, ActionStep, TypeNetwork
  <2>7. CASE ~up'
    <3>1. TypeNetwork'
      BY <2>3, <2>4, <2>7
    <3>2. UNCHANGED nodeside
      BY <1>7, <2>7 DEF Complete, ActionStep, nodeside
    <3> QED BY <2>5, <3>1, <3>2, NodesSame
  <2> QED BY <2>6, <2>7
<1>8. ASSUME NEW a \in acts, Confirm(a) PROVE Typed'
  <2>1. a \in Action /\ a.id \in Ids /\ acts \ {a} \in SUBSET Action
    BY DEF TypeNetwork, Action
  <2>2. HelperTypes
    BY <1>8, <2>1, OutcomeTypes DEF Confirm
  <2>3. TypeNodes' /\ TypeNetwork'
    BY <1>8, <2>2, NodesStep DEF HelperTypes, Confirm, ActionStep, TypeNetwork
  <2>4. Purge(journal[a.id].ids)
    BY <1>8 DEF Confirm
  <2>5. /\ mem' \in Store /\ disk' \in Store /\ dirty' \in BOOLEAN
        /\ faults' \in Nat
    BY <2>4, PurgeTypes
  <2>6. TypeCentral' /\ TypeBounds'
    BY <1>8, <2>5 DEF Confirm, ActionStep, TypeCentral, TypeBounds
  <2> QED BY <2>3, <2>6
<1> QED BY <1>1, <1>2, <1>3, <1>4, <1>5, <1>6, <1>7, <1>8 DEF HelperNext

LEMMA NextTyped == Typed /\ [Next]_vars => Typed'
<1>1. Typed /\ UNCHANGED vars => Typed'
  BY CentralSame, NodesSame, NetworkSame, BoundsSame DEF vars, Typed
<1> QED BY <1>1, CentralNextTyped, MetricNextTyped, RegisterNextTyped, TimeNextTyped,
           OperatorNextTyped, HelperNextTyped DEF Next

(* Every variable keeps its type, whatever is lost, refused or delivered late. *)
THEOREM TypeCorrect == Spec => []TypeOK
<1>1. Typed => TypeOK
  BY DEF Typed, TypeCentral, TypeNodes, TypeNetwork, TypeBounds, TypeOK
<1>2. Spec => []Typed
  BY InitTyped, NextTyped, PTL DEF Spec
<1> QED BY <1>1, <1>2, PTL

-----------------------------------------------------------------------------
(* The journal: an operation removes at least the identity it is filed under, *)
(* its nonce is one that was drawn, and only a removal from the list has none. *)
JournalInv ==
  \A i \in Ids :
    /\ journal[i].status # "none" => i \in journal[i].ids
    /\ journal[i].nonce <= nonces
    /\ journal[i].status \in {"pending", "accepted", "failed"} => journal[i].nonce # 0

(* All that a step may write under one identity: a removal from the list, a    *)
(* new uninstall, the next status of an unfinished one, or its expiry.         *)
NewRemoval(id, op) ==
  /\ op.status = "removed" /\ op.nonce = 0 /\ id \in op.ids
  /\ journal[id].status # "removed" /\ nonces' = nonces
NewUninstall(id, op) ==
  /\ op.status = "pending" /\ op.nonce = nonces + 1 /\ id \in op.ids
  /\ journal[id].status # "removed" /\ nonces' = nonces + 1
NextStatus(id, op) ==
  /\ op.nonce = journal[id].nonce /\ op.ids = journal[id].ids /\ nonces' = nonces
  /\ journal[id].status \in {"pending", "accepted"}
  /\ op.status \in {"accepted", "failed", "removed"}
SameStatus(id, op) ==
  /\ op.nonce = journal[id].nonce /\ op.ids = journal[id].ids /\ nonces' = nonces
  /\ op.status = journal[id].status

JournalWrite(id, op) ==
  /\ journal' = [journal EXCEPT ![id] = op]
  /\ NewRemoval(id, op) \/ NewUninstall(id, op) \/ NextStatus(id, op) \/ SameStatus(id, op)

JournalStep ==
  \/ journal' = journal /\ nonces' \in Nat /\ nonces <= nonces'
  \/ \E id \in Ids, op \in Op : JournalWrite(id, op)

LEMMA RemovableIsNew ==
  ASSUME Typed, JournalInv, NEW id \in Ids, Removable(id)
  PROVE  journal[id].status # "removed" /\ id \in RemovalFamily(mem, id)
<1>1. id \in Listed(mem) /\ id \notin Revoked
  BY DEF Removable
<1>2. journal[id].status # "removed"
  BY <1>1 DEF Revoked, Removed, JournalInv
<1> QED BY <1>1, <1>2 DEF RemovalFamily

LEMMA NextJournalStep == Typed /\ JournalInv /\ [Next]_vars => JournalStep
<1> SUFFICES ASSUME Typed, JournalInv, [Next]_vars PROVE JournalStep
  OBVIOUS
<1>1. nonces \in Nat /\ journal \in [Ids -> Op]
  BY DEF Typed, TypeCentral
<1>2. ASSUME UNCHANGED <<journal, nonces>> PROVE JournalStep
  BY <1>1, <1>2 DEF JournalStep
<1>3. CASE CentralNext
  BY <1>2, <1>3 DEF CentralNext, Stop, Start, Flush, Expire
<1>4. CASE MetricNext
  BY <1>2, <1>4 DEF MetricNext, SendMetric, GiveUp, Lookup, RecordContact, BindServerKey, Receive,
                    central
<1>5. CASE RegisterNext
  BY <1>2, <1>5 DEF RegisterNext, LeaveRegistration, RegisterKnown, RegisterNew, Registering, central
<1>6. CASE TimeNext
  <2>1. CASE ClockSetBack
    BY <1>2, <2>1 DEF ClockSetBack
  <2>2. ASSUME NEW id \in Ids, Age(id) PROVE JournalStep
    BY <1>2, <2>2 DEF Age
  <2>3. ASSUME NEW id \in Ids, Lapse(id) PROVE JournalStep
    <3> DEFINE op == [journal[id] EXCEPT !.live = FALSE]
    <3>1. op \in Op /\ journal' = [journal EXCEPT ![id] = op]
      BY <1>1, <2>3 DEF Lapse, Op
    <3>2. op.nonce = journal[id].nonce /\ op.ids = journal[id].ids /\ op.status = journal[id].status
      BY <1>1 DEF Op
    <3> QED BY <2>3, <3>1, <3>2 DEF JournalStep, JournalWrite, SameStatus, Lapse
  <2> QED BY <1>6, <2>1, <2>2, <2>3 DEF TimeNext
<1>7. ASSUME NEW id \in Ids, NEW op \in Op, SaveAndPurge(id, op), nonces' = nonces,
             NewRemoval(id, op) \/ NextStatus(id, op)
      PROVE  JournalStep
  BY <1>1, <1>7 DEF SaveAndPurge, JournalStep, JournalWrite
<1>8. ASSUME NEW id \in Ids, NEW op \in Op, SaveOp(id, op), nonces' \in Nat, nonces <= nonces',
             NewUninstall(id, op) \/ NextStatus(id, op)
      PROVE  JournalStep
  BY <1>1, <1>8 DEF SaveOp, JournalStep, JournalWrite
<1>9. CASE OperatorNext
  <2>1. ASSUME NEW id \in Ids, FinishRemoval(id) PROVE JournalStep
    BY <1>2, <2>1 DEF FinishRemoval
  <2>2. ASSUME NEW id \in Ids, RemoveFromList(id) PROVE JournalStep
    <3> DEFINE op == [NoOp EXCEPT !.status = "removed", !.ids = RemovalFamily(mem, id)]
    <3>1. op \in Op /\ op.status = "removed" /\ op.nonce = 0 /\ op.ids = RemovalFamily(mem, id)
      BY CanonicalType DEF NoOp, Op, Typed, TypeCentral
    <3>2. NewRemoval(id, op)
      BY <2>2, <3>1, RemovableIsNew DEF RemoveFromList, NewRemoval
    <3> QED BY <1>7, <2>2, <3>1, <3>2 DEF RemoveFromList
  <2>3. ASSUME NEW id \in Ids, RequestUninstall(id) PROVE JournalStep
    <3> DEFINE op == [status |-> "pending", nonce |-> nonces + 1, live |-> TRUE,
                      ids |-> RemovalFamily(mem, id)]
    <3>1. op \in Op
      BY <1>1, CanonicalType DEF Op, Typed, TypeCentral
    <3>2. NewUninstall(id, op)
      BY <2>3, RemovableIsNew DEF RequestUninstall, NewUninstall
    <3> QED BY <1>1, <1>8, <2>3, <3>1, <3>2 DEF RequestUninstall
  <2>4. ASSUME NEW m \in Machines, Reinstall(m) \/ Wipe(m) PROVE JournalStep
    BY <1>2, <2>4 DEF Reinstall, Wipe, central
  <2>5. ASSUME NEW from \in Ids, NEW to \in Ids, Merge(from, to) PROVE JournalStep
    BY <1>2, <2>5 DEF Merge
  <2> QED BY <1>9, <2>1, <2>2, <2>3, <2>4, <2>5 DEF OperatorNext
<1>10. CASE HelperNext
  <2>1. ASSUME NEW m \in Machines, HelperStart(m) \/ HelperTimeout(m) \/ Preflight(m) \/ Cleanup(m)
        PROVE  JournalStep
    BY <1>2, <2>1 DEF HelperStart, HelperTimeout, Preflight, Cleanup, central
  <2>2. ASSUME NEW a \in acts, Refuse(a) \/ Poll(a) \/ Confirm(a) PROVE JournalStep
    BY <1>2, <2>2 DEF Refuse, Poll, Confirm, ActionStep
  <2>3. ASSUME NEW a \in acts PROVE a.id \in Ids /\ journal[a.id] \in Op
    BY <1>1 DEF Typed, TypeNetwork, Action
  <2>4. ASSUME NEW a \in acts, Decide(a) PROVE JournalStep
    <3> DEFINE old == journal[a.id]
               op == IF a.phase = "accept"
                     THEN [old EXCEPT !.status = "accepted", !.live = TRUE]
                     ELSE [old EXCEPT !.status = "failed"]
    <3>1. op \in Op
      BY <2>3, OpTypes
    <3>2. op.nonce = old.nonce /\ op.ids = old.ids /\ op.status \in {"accepted", "failed"}
      BY <2>3 DEF Op
    <3>3. SaveOp(a.id, op) /\ nonces' = nonces /\ old.status \in {"pending", "accepted"}
      BY <2>4 DEF Decide, ActionStep, Acceptable, Failable
    <3> HIDE DEF op
    <3> QED BY <1>1, <1>8, <2>3, <3>1, <3>2, <3>3 DEF NextStatus
  <2>5. ASSUME NEW a \in acts, Complete(a) PROVE JournalStep
    <3> DEFINE old == journal[a.id]
               op == [old EXCEPT !.status = "removed", !.live = FALSE]
    <3>1. op \in Op
      BY <2>3, OpTypes
    <3>2. op.nonce = old.nonce /\ op.ids = old.ids /\ op.status = "removed"
      BY <2>3 DEF Op
    <3>3. SaveAndPurge(a.id, op) /\ nonces' = nonces /\ old.status = "accepted"
      BY <2>5 DEF Complete, ActionStep, Completable
    <3> HIDE DEF op
    <3> QED BY <1>7, <2>3, <3>1, <3>2, <3>3 DEF NextStatus
  <2> QED BY <1>10, <2>1, <2>2, <2>4, <2>5 DEF HelperNext
<1>11. CASE UNCHANGED vars
  BY <1>2, <1>11 DEF vars, central
<1> QED BY <1>3, <1>4, <1>5, <1>6, <1>9, <1>10, <1>11 DEF Next

LEMMA JournalInductive ==
  ASSUME Typed, JournalInv, JournalStep
  PROVE  /\ JournalInv'
         /\ Revoked \subseteq Revoked'
         /\ \A i \in Ids :
              journal[i].status = "failed" /\ journal'[i].nonce = journal[i].nonce
                => journal'[i].status = "failed"
<1>1. nonces \in Nat /\ journal \in [Ids -> Op] /\ \A i \in Ids : journal[i].nonce \in Nat
  BY DEF Typed, TypeCentral, Op
<1>2. CASE journal' = journal /\ nonces' \in Nat /\ nonces <= nonces'
  BY <1>1, <1>2 DEF JournalInv, Revoked, Removed
<1>3. ASSUME NEW id \in Ids, NEW op \in Op, JournalWrite(id, op)
      PROVE  /\ JournalInv'
             /\ Revoked \subseteq Revoked'
             /\ \A i \in Ids :
                  journal[i].status = "failed" /\ journal'[i].nonce = journal[i].nonce
                    => journal'[i].status = "failed"
  <2>1. /\ \A i \in Ids \ {id} : journal'[i] = journal[i]
        /\ journal'[id] = op /\ op.nonce \in Nat
    BY <1>1, <1>3 DEF JournalWrite, Op
  <2>2. nonces' \in Nat /\ nonces <= nonces' /\ op.nonce <= nonces'
    BY <1>1, <1>3 DEF JournalWrite, NewRemoval, NewUninstall, NextStatus, SameStatus, JournalInv
  <2>3. op.status # "none" => id \in op.ids
    BY <1>3 DEF JournalWrite, NewRemoval, NewUninstall, NextStatus, SameStatus, JournalInv
  <2>4. op.status \in {"pending", "accepted", "failed"} => op.nonce # 0
    BY <1>1, <1>3 DEF JournalWrite, NewRemoval, NewUninstall, NextStatus, SameStatus, JournalInv
  <2>5. JournalInv'
    BY <1>1, <2>1, <2>2, <2>3, <2>4 DEF JournalInv
  <2>6. journal[id].status = "removed" => op.status = "removed" /\ op.ids = journal[id].ids
    BY <1>3 DEF JournalWrite, NewRemoval, NewUninstall, NextStatus, SameStatus
  <2>7. Revoked \subseteq Revoked'
    BY <2>1, <2>6 DEF Revoked, Removed
  <2>8. journal[id].status = "failed" /\ op.nonce = journal[id].nonce => op.status = "failed"
    BY <1>1, <1>3 DEF JournalWrite, NewRemoval, NewUninstall, NextStatus, SameStatus, JournalInv
  <2> QED BY <2>1, <2>5, <2>7, <2>8
<1> QED BY <1>2, <1>3 DEF JournalStep

LEMMA InitJournal == Init => JournalInv
BY DEF Init, JournalInv, NoOp

(* The journal is well formed in every reachable state: an operation covers the *)
(* node it is filed under, and its nonce is one that was drawn.                 *)
THEOREM JournalInvariant == Spec => [](Typed /\ JournalInv)
<1>1. Init => Typed /\ JournalInv
  BY InitTyped, InitJournal
<1>2. Typed /\ JournalInv /\ [Next]_vars => (Typed /\ JournalInv)'
  BY NextTyped, NextJournalStep, JournalInductive
<1> QED BY <1>1, <1>2, PTL DEF Spec

(* A revoked identity is revoked for good, whatever the operator, the helpers  *)
(* and the disk do.                                                            *)
THEOREM RevocationIsPermanent == Spec => RevokedForever
<1>1. Typed /\ JournalInv /\ [Next]_vars => [Revoked \subseteq Revoked']_vars
  BY NextJournalStep, JournalInductive
<1> QED BY <1>1, JournalInvariant, PTL DEF Spec, RevokedForever

(* What has failed stays failed, however late the requests of its helper are.  *)
THEOREM FailureIsFinal == Spec => FailedIsFinal
<1>1. Typed /\ JournalInv /\ [Next]_vars
        => [\A i \in Ids :
             journal[i].status = "failed" /\ journal'[i].nonce = journal[i].nonce
               => journal'[i].status = "failed"]_vars
  BY NextJournalStep, JournalInductive
<1> QED BY <1>1, JournalInvariant, PTL DEF Spec, FailedIsFinal

-----------------------------------------------------------------------------
(* What is stored and what is saved.  Memory may be ahead of the disk only      *)
(* while Central is up and knows it (dirty), and only by identities that no     *)
(* agent was told of; an identity is never drawn twice, so a deleted one cannot *)
(* come back.                                                                   *)
SavedInv ==
  /\ Sound(mem)
  /\ mem.stored \cup disk.stored \subseteq used
  /\ up => disk.stored \subseteq mem.stored
  /\ up /\ ~dirty => mem.stored \subseteq disk.stored
  /\ \A m \in Machines : agent[m].id # NoId =>
       /\ agent[m].id \in used
       /\ up /\ agent[m].id \in mem.stored => agent[m].id \in disk.stored

Same(s, t) == s.stored = t.stored /\ s.alias = t.alias

(* The steps of Central by what they do to the set of stored identities. *)
Kept ==
  /\ Same(mem', mem) /\ up' = up
  /\ \/ disk'.stored = disk.stored /\ (dirty => dirty')
     \/ disk'.stored = mem.stored
Shrunk == /\ Sound(mem') /\ mem'.stored \subseteq mem.stored
          /\ disk'.stored = mem'.stored /\ up' = up
Halted == mem' = EmptyStore /\ up' = FALSE /\ disk'.stored = disk.stored
Restarted == /\ Sound(mem') /\ mem'.stored \subseteq disk.stored
             /\ disk'.stored = mem'.stored /\ up' = TRUE
Interrupted == Same(mem', mem) /\ ~up /\ ~up' /\ disk'.stored \subseteq disk.stored

AgentsKept == \A m \in Machines : agent'[m].id \in {agent[m].id, NoId}

StoredStep == Kept \/ Shrunk \/ Halted \/ Restarted \/ Interrupted

LEMMA SavedStep ==
  ASSUME Typed, SavedInv, StoredStep, AgentsKept, used' = used
  PROVE  SavedInv'
<1>1. Sound(EmptyStore) /\ EmptyStore.stored = {}
  BY DEF Sound, EmptyStore, NoAliases
<1>2. CASE Kept
  <2>1. Sound(mem')
    BY <1>2 DEF Kept, Same, Sound, SavedInv
  <2>2. /\ mem'.stored \cup disk'.stored \subseteq used'
        /\ up' => disk'.stored \subseteq mem'.stored
        /\ up' /\ ~dirty' => mem'.stored \subseteq disk'.stored
    BY <1>2 DEF Kept, Same, SavedInv
  <2>3. ASSUME NEW m \in Machines, agent'[m].id # NoId
        PROVE  /\ agent'[m].id \in used'
               /\ up' /\ agent'[m].id \in mem'.stored => agent'[m].id \in disk'.stored
    BY <1>2, <2>3 DEF Kept, Same, SavedInv, AgentsKept
  <2> QED BY <2>1, <2>2, <2>3 DEF SavedInv
<1>3. CASE Shrunk
  BY <1>3 DEF Shrunk, SavedInv, AgentsKept
<1>4. CASE Halted
  BY <1>1, <1>4 DEF Halted, SavedInv, AgentsKept
<1>5. CASE Restarted
  BY <1>5 DEF Restarted, SavedInv, AgentsKept
<1>6. CASE Interrupted
  <2>1. Sound(mem')
    BY <1>6 DEF Interrupted, Same, Sound, SavedInv
  <2> QED BY <1>6, <2>1 DEF Interrupted, Same, SavedInv, AgentsKept
<1> QED BY <1>2, <1>3, <1>4, <1>5, <1>6 DEF StoredStep

LEMMA FlushKeeps ==
  ASSUME NEW s, Same(s, mem), up' = up, Flushed(s) \/ FlushRefused(s)
  PROVE  Kept
<1>1. CASE Flushed(s)
  BY <1>1 DEF Flushed, Kept, Same
<1>2. CASE FlushRefused(s)
  BY <1>2 DEF FlushRefused, Kept
<1> QED BY <1>1, <1>2

LEMMA PurgeShrinks ==
  ASSUME Typed, SavedInv, up' = up, NEW ids, Purge(ids)
  PROVE  StoredStep
<1>1. CASE mem' = Without(mem, ids) /\ disk' = Without(mem, ids)
  <2>1. Sound(mem')
    BY <1>1, WithoutIsSound, StoreAssumption DEF SavedInv, Typed, TypeCentral
  <2> QED BY <1>1, <2>1 DEF StoredStep, Shrunk, Without
<1>2. CASE UNCHANGED <<mem, disk, dirty>>
  BY <1>2 DEF StoredStep, Kept, Same
<1> QED BY <1>1, <1>2 DEF Purge

LEMMA SaveAndPurgeSteps ==
  ASSUME Typed, SavedInv, NEW id, NEW op, SaveAndPurge(id, op)
  PROVE  StoredStep
<1>1. CASE Purge(op.ids) /\ UNCHANGED <<up, capable, crashes>>
  BY <1>1, PurgeShrinks
<1>2. CASE Stopped /\ UNCHANGED <<disk, faults>>
  BY <1>2 DEF StoredStep, Halted, Stopped
<1>3. CASE UNCHANGED <<journal, up, mem, dirty, disk, capable, crashes>>
  BY <1>3 DEF StoredStep, Kept, Same
<1> QED BY <1>1, <1>2, <1>3 DEF SaveAndPurge

(* A valid configuration leaves no alias dangling. *)
LEMMA ConfiguredIsSound ==
  ASSUME Typed, CanStart
  PROVE  Sound(Configured) /\ Configured.stored = disk.stored
<1>1. Configured \in Store /\ Configured.stored = disk.stored
  BY ConfiguredType DEF Configured, Loaded, Typed, TypeCentral, Store
<1>2. AliasesValid(Configured, Configured.alias)
  BY DEF CanStart
<1> QED BY <1>1, <1>2 DEF AliasesValid, Sound

LEMMA CentralNextSaved == Typed /\ SavedInv /\ CentralNext => SavedInv'
<1> SUFFICES ASSUME Typed, SavedInv, CentralNext PROVE SavedInv'
  OBVIOUS
<1>1. CASE Stop
  <2>1. Halted
    BY <1>1 DEF Stop, Stopped, Halted
  <2> QED BY <1>1, <2>1, SavedStep DEF Stop, StoredStep, AgentsKept, nodeside
<1>2. CASE Start
  <2>1. Sound(Configured) /\ Configured.stored = disk.stored /\ Configured \in Store
    BY <1>2, ConfiguredIsSound, ConfiguredType DEF Start, Typed, TypeCentral
  <2>2. Sound(AfterJournal(Configured)) /\ AfterJournal(Configured).stored \subseteq disk.stored
    BY <2>1, WithoutIsSound, StoreAssumption DEF AfterJournal, Without
  <2>3. \A D : Without(Configured, D).stored \subseteq disk.stored
    BY <2>1 DEF Without
  <2>4. Restarted \/ Interrupted
    BY <1>2, <2>2, <2>3 DEF Start, Restarted, Interrupted, Same
  <2> QED BY <1>2, <2>4, SavedStep DEF Start, StoredStep, AgentsKept, nodeside
<1>3. CASE Flush
  <2>1. Kept
    BY <1>3, FlushKeeps DEF Flush, Same
  <2> QED BY <1>3, <2>1, SavedStep DEF Flush, StoredStep, AgentsKept, nodeside
<1>4. CASE Expire
  <2> DEFINE seen == Observed(mem)
             gone == ExpiredFamilies(mem)
  <2>1. seen \in Store /\ Same(seen, mem)
    BY StoreOperations DEF Typed, TypeCentral, Observed, Same, Store
  <2>2. Sound(seen)
    BY <2>1 DEF Same, Sound, SavedInv
  <2>3. Sound(Without(seen, gone)) /\ Without(seen, gone).stored = mem.stored \ gone
    BY <2>1, <2>2, WithoutIsSound, StoreAssumption DEF Without, Same
  <2> HIDE DEF seen, gone
  <2>4. \/ Flushed(seen) \/ FlushRefused(seen)
        \/ SaveOrUndo(Without(seen, gone), seen)
    BY <1>4 DEF Expire, seen, gone
  <2>5. up' = up /\ used' = used /\ AgentsKept
    BY <1>4 DEF Expire, AgentsKept, nodeside
  <2>6. CASE SaveOrUndo(Without(seen, gone), seen)
    <3>1. CASE mem' = Without(seen, gone) /\ disk' = Without(seen, gone)
      BY <2>3, <2>5, <3>1, SavedStep DEF StoredStep, Shrunk
    <3>2. CASE mem' = seen /\ UNCHANGED disk /\ dirty' = (dirty \/ seen # mem)
      <4>1. dirty => dirty'
        BY <3>2
      <4> QED BY <2>1, <2>5, <3>2, <4>1, SavedStep DEF StoredStep, Kept
    <3> QED BY <2>6, <3>1, <3>2 DEF SaveOrUndo
  <2> QED BY <2>1, <2>4, <2>5, <2>6, FlushKeeps, SavedStep DEF StoredStep
<1> QED BY <1>1, <1>2, <1>3, <1>4 DEF CentralNext

LEMMA MetricNextSaved == Typed /\ SavedInv /\ MetricNext => SavedInv'
<1> SUFFICES ASSUME Typed, SavedInv, MetricNext PROVE SavedInv'
  OBVIOUS
<1>1. ASSUME UNCHANGED <<mem, dirty, disk, up, used>>, AgentsKept PROVE SavedInv'
  BY <1>1, SavedStep DEF StoredStep, Kept, Same
<1>2. ASSUME NEW m \in Machines, SendMetric(m) PROVE SavedInv'
  BY <1>1, <1>2 DEF SendMetric, central, nodeside, AgentsKept
<1>3. ASSUME NEW r \in reqs, GiveUp(r) \/ Lookup(r) PROVE SavedInv'
  BY <1>1, <1>3 DEF GiveUp, Lookup, central, nodeside, AgentsKept
<1>4. ASSUME NEW r \in reqs, RecordContact(r) PROVE SavedInv'
  <2>1. Same(Touched(mem, r.id), mem)
    BY DEF Typed, TypeCentral, Touched, Same, Store
  <2>2. Kept
    <3>1. CASE UNCHANGED <<mem, dirty>>
      BY <1>4, <3>1 DEF RecordContact, Kept, Same
    <3>2. CASE mem' = Touched(mem, r.id) /\ dirty' = (dirty \/ mem.alias[r.id] = NoId)
      <4>1. dirty => dirty'
        BY <3>2
      <4> QED BY <1>4, <2>1, <3>2, <4>1 DEF RecordContact, Kept
    <3> QED BY <1>4, <3>1, <3>2 DEF RecordContact
  <2> QED BY <1>4, <2>2, SavedStep DEF RecordContact, StoredStep, AgentsKept, nodeside
<1>5. ASSUME NEW r \in reqs, BindServerKey(r) PROVE SavedInv'
  <2> DEFINE s == [mem EXCEPT !.key[r.id] = r.m]
  <2>1. Same(s, mem)
    BY DEF Typed, TypeCentral, Same, Store
  <2> HIDE DEF s
  <2>2. \/ UNCHANGED <<mem, dirty, disk, faults>>
        \/ Flushed(s) \/ FlushRefused(s)
    BY <1>5 DEF BindServerKey, s
  <2>3. Kept
    BY <1>5, <2>1, <2>2, FlushKeeps DEF BindServerKey, Kept, Same
  <2> QED BY <1>5, <2>3, SavedStep DEF BindServerKey, StoredStep, AgentsKept, nodeside
<1>6. ASSUME NEW r \in reqs, Receive(r) PROVE SavedInv'
  <2>1. AgentsKept
    BY <1>6 DEF Receive, AgentsKept, Typed, TypeNodes
  <2> QED BY <1>1, <1>6, <2>1 DEF Receive, central
<1> QED BY <1>2, <1>3, <1>4, <1>5, <1>6 DEF MetricNext

LEMMA RegisterNextSaved == Typed /\ SavedInv /\ RegisterNext => SavedInv'
<1> SUFFICES ASSUME Typed, SavedInv, RegisterNext PROVE SavedInv'
  OBVIOUS
<1>1. mem \in Store /\ mem.stored \subseteq Ids /\ agent \in [Machines -> Agent]
  BY DEF Typed, TypeCentral, TypeNodes, Store
<1>2. ASSUME NEW m \in Machines, NEW waits \in BOOLEAN, RegisterKnown(m, waits) PROVE SavedInv'
  <2>1. PICK owner \in KeyOwners(mem, m) :
          \/ Flushed(mem) /\ Registered(m, Canonical(mem, owner), waits)
          \/ FlushRefused(mem) /\ Unanswered
    BY <1>2 DEF RegisterKnown, Registering
  <2>2. Canonical(mem, owner) \in mem.stored
    BY <1>1 DEF KeyOwners, Canonical, SavedInv, Sound
  <2>3. up /\ up' /\ used' = used
    BY <1>2 DEF RegisterKnown, Registering
  <2>4. CASE Flushed(mem) /\ Registered(m, Canonical(mem, owner), waits)
    <3>1. mem' = mem /\ dirty' = FALSE /\ disk'.stored = mem.stored
      BY <2>3, <2>4 DEF Flushed, SavedInv
    <3>2. \A n \in Machines : agent'[n].id \in {agent[n].id, Canonical(mem, owner)}
      BY <1>1, <2>4 DEF Registered, Unanswered
    <3> QED BY <2>2, <2>3, <3>1, <3>2 DEF SavedInv
  <2>5. CASE FlushRefused(mem) /\ Unanswered
    BY <2>3, <2>5, FlushKeeps, SavedStep DEF StoredStep, AgentsKept, Same, Unanswered
  <2> QED BY <2>1, <2>4, <2>5
<1>3. ASSUME NEW m \in Machines, NEW waits \in BOOLEAN, RegisterNew(m, waits) PROVE SavedInv'
  <2>1. PICK id \in Ids \ used :
          /\ used' = used \cup {id}
          /\ \/ Flushed(Added(mem, id, m)) /\ Registered(m, id, waits)
             \/ FlushRefused(Added(mem, id, m)) /\ Unanswered
    BY <1>3 DEF RegisterNew, Registering
  <2> DEFINE s == Added(mem, id, m)
  <2>2. s.stored = mem.stored \cup {id} /\ s.alias = mem.alias
    BY <1>1 DEF Added, Store
  <2>3. Sound(s)
    BY <2>2 DEF Sound, SavedInv
  <2>4. up /\ up'
    BY <1>3 DEF RegisterNew, Registering
  <2>5. id \notin mem.stored
    BY <2>1 DEF SavedInv
  <2> HIDE DEF s
  <2>6. CASE Flushed(s) /\ Registered(m, id, waits)
    <3>1. mem' = s /\ dirty' = FALSE /\ disk' = s
      BY <2>2, <2>5, <2>6 DEF Flushed
    <3>2. \A n \in Machines : agent'[n].id \in {agent[n].id, id}
      BY <1>1, <2>6 DEF Registered, Unanswered
    <3> QED BY <2>1, <2>2, <2>3, <2>4, <3>1, <3>2 DEF SavedInv
  <2>7. CASE FlushRefused(s) /\ Unanswered
    <3>1. mem' = s /\ dirty' = TRUE /\ disk' = disk /\ agent' = agent
      BY <2>7 DEF FlushRefused, Unanswered
    <3> QED BY <2>1, <2>2, <2>3, <2>4, <2>5, <3>1 DEF SavedInv
  <2> QED BY <2>1, <2>6, <2>7 DEF s
<1>4. ASSUME NEW m \in Machines, LeaveRegistration(m) PROVE SavedInv'
  BY <1>4 DEF LeaveRegistration, central, nodeside, SavedInv
<1> QED BY <1>2, <1>3, <1>4 DEF RegisterNext

LEMMA OtherNextSaved == Typed /\ SavedInv /\ (TimeNext \/ OperatorNext) => SavedInv'
<1> SUFFICES ASSUME Typed, SavedInv, TimeNext \/ OperatorNext PROVE SavedInv'
  OBVIOUS
<1>1. mem \in Store /\ disk \in Store /\ agent \in [Machines -> Agent]
  BY DEF Typed, TypeCentral, TypeNodes
<1>2. ASSUME UNCHANGED <<mem, dirty, disk, up, used>>, AgentsKept PROVE SavedInv'
  BY <1>2, SavedStep DEF StoredStep, Kept, Same
<1>3. CASE ClockSetBack
  <2>1. Kept
    BY <1>1, <1>3 DEF ClockSetBack, SetBack, Kept, Same, Store
  <2> QED BY <1>3, <2>1, SavedStep DEF ClockSetBack, StoredStep, AgentsKept, nodeside
<1>4. ASSUME NEW id \in Ids, Age(id) PROVE SavedInv'
  <2>1. Kept
    BY <1>1, <1>4 DEF Age, Kept, Same, Store
  <2>2. AgentsKept /\ used' = used
    BY <1>4 DEF Age, AgentsKept, nodeside
  <2> QED BY <2>1, <2>2, SavedStep DEF StoredStep
<1>5. ASSUME NEW id \in Ids, Lapse(id) PROVE SavedInv'
  BY <1>2, <1>5 DEF Lapse, nodeside, AgentsKept
<1>6. ASSUME NEW id \in Ids, FinishRemoval(id) PROVE SavedInv'
  <2>1. up' = up /\ Purge(journal[id].ids)
    BY <1>6 DEF FinishRemoval
  <2>2. AgentsKept /\ used' = used
    BY <1>6 DEF FinishRemoval, RemovalStep, AgentsKept, nodeside
  <2> QED BY <2>1, <2>2, PurgeShrinks, SavedStep
<1>7. ASSUME NEW id \in Ids, RemoveFromList(id) PROVE SavedInv'
  <2>1. AgentsKept /\ used' = used
    BY <1>7 DEF RemoveFromList, RemovalStep, AgentsKept, nodeside
  <2> QED BY <1>7, <2>1, SaveAndPurgeSteps, SavedStep DEF RemoveFromList
<1>8. ASSUME NEW id \in Ids, RequestUninstall(id) PROVE SavedInv'
  BY <1>2, <1>8 DEF RequestUninstall, RemovalStep, nodeside, AgentsKept
<1>9. ASSUME NEW m \in Machines, Reinstall(m) \/ Wipe(m) PROVE SavedInv'
  <2>1. AgentsKept
    BY <1>1, <1>9 DEF Reinstall, Wipe, AgentsKept, Agent
  <2> QED BY <1>2, <1>9, <2>1 DEF Reinstall, Wipe, central
<1>10. ASSUME NEW from \in Ids, NEW to \in Ids, Merge(from, to) PROVE SavedInv'
  BY <1>2, <1>10 DEF Merge, nodeside, AgentsKept
<1> QED BY <1>3, <1>4, <1>5, <1>6, <1>7, <1>8, <1>9, <1>10 DEF TimeNext, OperatorNext

LEMMA HelperNextSaved == Typed /\ SavedInv /\ HelperNext => SavedInv'
<1> SUFFICES ASSUME Typed, SavedInv, HelperNext PROVE SavedInv'
  OBVIOUS
<1>1. ASSUME UNCHANGED <<mem, dirty, disk, up, used>>, AgentsKept PROVE SavedInv'
  BY <1>1, SavedStep DEF StoredStep, Kept, Same
<1>2. ASSUME NEW m \in Machines, HelperStart(m) \/ HelperTimeout(m) \/ Preflight(m) PROVE SavedInv'
  BY <1>1, <1>2 DEF HelperStart, HelperTimeout, Preflight, central, AgentsKept
<1>3. ASSUME NEW m \in Machines, Cleanup(m) PROVE SavedInv'
  <2>1. AgentsKept
    BY <1>3 DEF Cleanup, AgentsKept, Typed, TypeNodes, Agent
  <2> QED BY <1>1, <1>3, <2>1 DEF Cleanup, central
<1>4. ASSUME NEW a \in acts, Refuse(a) \/ Poll(a) \/ Decide(a) PROVE SavedInv'
  BY <1>1, <1>4 DEF Refuse, Poll, Decide, ActionStep, AgentsKept
<1>5. ASSUME NEW a \in acts, Complete(a) PROVE SavedInv'
  <2>1. AgentsKept /\ used' = used
    BY <1>5 DEF Complete, ActionStep, AgentsKept
  <2> QED BY <1>5, <2>1, SaveAndPurgeSteps, SavedStep DEF Complete
<1>6. ASSUME NEW a \in acts, Confirm(a) PROVE SavedInv'
  <2>1. AgentsKept /\ used' = used
    BY <1>6 DEF Confirm, ActionStep, AgentsKept
  <2>2. Purge(journal[a.id].ids) /\ up' = up
    BY <1>6 DEF Confirm
  <2> QED BY <2>1, <2>2, PurgeShrinks, SavedStep
<1> QED BY <1>2, <1>3, <1>4, <1>5, <1>6 DEF HelperNext

LEMMA InitSaved == Init => SavedInv
<1> SUFFICES ASSUME Init PROVE SavedInv
  OBVIOUS
<1>1. Sound(InitialStore)
  BY SettledAssumption DEF AliasesValid, InitialStore, Sound
<1>2. \A m \in Machines : agent[m].id # NoId => agent[m].id \in InitialIds
  BY DEF Init, InitialIds
<1> QED BY <1>1, <1>2 DEF Init, InitialStore, SavedInv

(* Memory and disk relate as SavedInv says, through every fault and stop.       *)
THEOREM SavedInvariant == Spec => [](Typed /\ SavedInv)
<1>1. Init => Typed /\ SavedInv
  BY InitTyped, InitSaved
<1>2. Typed /\ SavedInv /\ UNCHANGED vars => SavedInv'
  BY SavedStep DEF vars, central, nodeside, StoredStep, Kept, Same, AgentsKept
<1>3. Typed /\ SavedInv /\ [Next]_vars => (Typed /\ SavedInv)'
  BY <1>2, NextTyped, CentralNextSaved, MetricNextSaved, RegisterNextSaved, OtherNextSaved,
     HelperNextSaved DEF Next
<1> QED BY <1>1, <1>3, PTL DEF Spec

(* No stop of Central makes an identity that an agent works with unknown.      *)
THEOREM AcknowledgedIsSaved == Spec => []AckedSaved
<1>1. Typed /\ SavedInv => AckedSaved
  BY StoreAssumption DEF Typed, TypeCentral, Store, SavedInv, AckedSaved
<1> QED BY <1>1, SavedInvariant, PTL

(* What Central has forgotten is forgotten on disk.                            *)
THEOREM DeletionIsSaved == Spec => []DeletedStaysDeleted
<1>1. SavedInv => DeletedStaysDeleted
  BY DEF SavedInv, DeletedStaysDeleted
<1> QED BY <1>1, SavedInvariant, PTL

(* No sequence of merges, expiries, removals and restarts leaves an alias that *)
(* points nowhere or to an archived identity.                                  *)
THEOREM AliasesAreSound == Spec => []AliasesSound
<1>1. SavedInv => AliasesSound
  BY DEF SavedInv, Sound, AliasesSound, Archived
<1> QED BY <1>1, SavedInvariant, PTL
=============================================================================
