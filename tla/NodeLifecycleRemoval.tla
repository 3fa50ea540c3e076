------------------------ MODULE NodeLifecycleRemoval ------------------------
(***************************************************************************)
(* What a removal, a merge and a restart may do to the identities Central  *)
(* lists, proved from the invariants of NodeLifecycleProofs.               *)
(***************************************************************************)
EXTENDS NodeLifecycleProofs

USE DEF Aliases

-----------------------------------------------------------------------------
(* The steps of Central by what they do to its nodes; contacts are left out. *)
Alike(s, t) == s.stored = t.stored /\ s.alias = t.alias /\ s.key = t.key

(* Nothing happens to the nodes, except that they may be written down. *)
Still == /\ Alike(mem', mem) /\ up' = up
         /\ Alike(disk', disk) \/ (up /\ Alike(disk', mem))

(* Nodes are removed, from memory and disk alike: those of an operation, when it  *)
(* is recorded as a removal or finished, or those that have been silent.          *)
Removal(D) ==
  \/ D = ExpiredFamilies(mem)
  \/ \E id \in Ids :
       \/ D = RemovalFamily(mem, id)
       \/ /\ D = journal[id].ids
          /\ id \in Revoked \/ (journal'[id].status = "removed" /\ journal'[id].ids = D)
Cleared == /\ up /\ up'
           /\ \E D : Removal(D) /\ Alike(mem', Without(mem, D)) /\ Alike(disk', Without(mem, D))

Downed == mem' = EmptyStore /\ ~up' /\ Alike(disk', disk)

Resumed == /\ ~up /\ up'
           /\ mem' = AfterJournal(Configured) /\ disk' = AfterJournal(Configured)

Aborted == /\ ~up /\ ~up' /\ mem' = mem
           /\ \/ disk' = disk
              \/ \E done \in SUBSET Removed :
                   disk' = Without(Configured, UNION {journal[i].ids : i \in done})

(* A node is added; a key is bound to a node that had none. *)
Enrolled == \E m \in Machines, id \in Ids \ used :
              /\ up /\ up' /\ KeyOwners(mem, m) = {} /\ used' = used \cup {id}
              /\ mem' = Added(mem, id, m) /\ disk' \in {disk, mem'}
Bound == \E m \in Machines, id \in Ids :
           /\ up /\ up' /\ id \in mem.stored /\ mem.alias[id] = NoId /\ mem.key[id] = NoKey
           /\ \A o \in KeyOwners(mem, m) : Canonical(mem, o) = id
           /\ mem' = [mem EXCEPT !.key[id] = m] /\ disk' \in {disk, mem'}

StoreStep == Still \/ Cleared \/ Downed \/ Resumed \/ Aborted \/ Enrolled \/ Bound

LEMMA AlikeOperations ==
  ASSUME NEW s \in Store
  PROVE  /\ Alike(s, s) /\ Alike(Observed(s), s) /\ Alike(SetBack(s), s)
         /\ \A id \in Ids : Alike(Touched(s, id), s)
         /\ \A id \in Ids, c \in Contact : Alike([s EXCEPT !.contact[id] = c], s)
         /\ \A t \in Store : \A D : Alike(t, s) => Alike(Without(t, D), Without(s, D))
<1>1. Alike(s, s) /\ Alike(Observed(s), s) /\ Alike(SetBack(s), s)
  BY DEF Alike, Observed, SetBack, Store
<1>2. \A id \in Ids : Alike(Touched(s, id), s)
  BY DEF Alike, Touched, Store
<1>3. \A id \in Ids, c \in Contact : Alike([s EXCEPT !.contact[id] = c], s)
  BY DEF Alike, Store
<1>4. \A t \in Store : \A D : Alike(t, s) => Alike(Without(t, D), Without(s, D))
  BY DEF Alike, Without
<1> QED BY <1>1, <1>2, <1>3, <1>4

LEMMA StillFlush ==
  ASSUME mem \in Store, NEW s, Alike(s, mem), up, up' = up, Flushed(s) \/ FlushRefused(s)
  PROVE  Still
<1>1. Alike(disk, disk) /\ Alike(mem, mem)
  BY DEF Alike
<1> QED BY <1>1 DEF Flushed, FlushRefused, Still

LEMMA SaveAndPurgeNodes ==
  ASSUME Typed, up, NEW ids,
         \/ Purge(ids) /\ up' = up /\ Removal(ids)
         \/ \E id \in Ids : \E op :
              /\ op.ids = ids /\ op.status = "removed" /\ SaveAndPurge(id, op)
              /\ ids \in {journal[id].ids, RemovalFamily(mem, id)}
  PROVE  StoreStep
<1>1. Alike(disk, disk) /\ Alike(mem, mem)
  BY DEF Alike
<1>2. ASSUME UNCHANGED <<mem, disk, up>> PROVE StoreStep
  BY <1>1, <1>2 DEF StoreStep, Still
<1>3. ASSUME Purge(ids), up' = up, Removal(ids) PROVE StoreStep
  <2>1. CASE mem' = Without(mem, ids) /\ disk' = Without(mem, ids)
    <3>1. Alike(Without(mem, ids), Without(mem, ids))
      BY DEF Alike
    <3> QED BY <1>3, <2>1, <3>1 DEF StoreStep, Cleared
  <2> QED BY <1>2, <1>3, <2>1 DEF Purge
<1>4. ASSUME NEW id \in Ids, NEW op, op.ids = ids, op.status = "removed", SaveAndPurge(id, op),
             ids \in {journal[id].ids, RemovalFamily(mem, id)}
      PROVE  StoreStep
  <2>1. CASE Stopped /\ UNCHANGED disk
    BY <1>1, <2>1 DEF Stopped, StoreStep, Downed
  <2>2. CASE UNCHANGED <<up, mem, disk>>
    BY <1>2, <2>2
  <2>3. CASE Purge(op.ids) /\ UNCHANGED up /\ journal' = [journal EXCEPT ![id] = op]
    <3>1. journal'[id] = op
      BY <2>3 DEF Typed, TypeCentral
    <3>2. Removal(ids)
      BY <1>4, <3>1 DEF Removal
    <3> QED BY <1>3, <1>4, <2>3, <3>2
  <2> QED BY <1>4, <2>1, <2>2, <2>3 DEF SaveAndPurge
<1> QED BY <1>3, <1>4

LEMMA NextStoreStep == Typed /\ [Next]_vars => StoreStep
<1> SUFFICES ASSUME Typed, [Next]_vars PROVE StoreStep
  OBVIOUS
<1>1. mem \in Store /\ disk \in Store /\ cfg \in Aliases
  BY DEF Typed, TypeCentral
<1>2. Alike(disk, disk) /\ Alike(mem, mem)
  BY DEF Alike
<1>3. ASSUME UNCHANGED <<mem, disk, up>> PROVE StoreStep
  BY <1>2, <1>3 DEF StoreStep, Still
<1>4. CASE CentralNext
  <2>1. CASE Stop
    BY <1>2, <2>1 DEF Stop, Stopped, StoreStep, Downed
  <2>2. CASE Start
    BY <2>2 DEF Start, StoreStep, Resumed, Aborted
  <2>3. CASE Flush
    BY <1>1, <1>2, <2>3, StillFlush DEF Flush, StoreStep
  <2>4. CASE Expire
    <3> DEFINE seen == Observed(mem)
               gone == ExpiredFamilies(mem)
    <3>1. seen \in Store /\ Alike(seen, mem)
      BY <1>1, StoreOperations, AlikeOperations
    <3>2. Alike(Without(seen, gone), Without(mem, gone))
      BY <1>1, <3>1, AlikeOperations
    <3>3. up /\ up' = up /\ (Flushed(seen) \/ FlushRefused(seen) \/ SaveOrUndo(Without(seen, gone), seen))
      BY <2>4 DEF Expire
    <3> HIDE DEF seen, gone
    <3>4. CASE SaveOrUndo(Without(seen, gone), seen)
      <4>1. CASE mem' = Without(seen, gone) /\ disk' = Without(seen, gone)
        BY <3>2, <3>3, <4>1 DEF StoreStep, Cleared, Removal, gone
      <4>2. CASE mem' = seen /\ UNCHANGED disk
        BY <1>2, <3>1, <3>3, <4>2 DEF StoreStep, Still
      <4> QED BY <3>4, <4>1, <4>2 DEF SaveOrUndo
    <3> QED BY <1>1, <3>1, <3>3, <3>4, StillFlush DEF StoreStep
  <2> QED BY <1>4, <2>1, <2>2, <2>3, <2>4 DEF CentralNext
<1>5. CASE MetricNext
  <2>1. ASSUME NEW m \in Machines, SendMetric(m) PROVE StoreStep
    BY <1>3, <2>1 DEF SendMetric, central
  <2>2. ASSUME NEW r \in reqs, GiveUp(r) \/ Lookup(r) \/ Receive(r) PROVE StoreStep
    BY <1>3, <2>2 DEF GiveUp, Lookup, Receive, central
  <2>3. ASSUME NEW r \in reqs PROVE r.id \in Ids /\ r.m \in Machines
    BY DEF Typed, TypeNetwork, Request
  <2>4. ASSUME NEW r \in reqs, RecordContact(r) PROVE StoreStep
    <3>1. Alike(Touched(mem, r.id), mem)
      BY <1>1, <2>3, AlikeOperations
    <3> QED BY <1>2, <2>4, <3>1 DEF RecordContact, StoreStep, Still
  <2>5. ASSUME NEW r \in reqs, BindServerKey(r) PROVE StoreStep
    <3> DEFINE s == [mem EXCEPT !.key[r.id] = r.m]
    <3>1. CASE UNCHANGED <<mem, disk>>
      BY <1>3, <2>5, <3>1 DEF BindServerKey
    <3>2. CASE /\ ~BindRefused(r.id, r.m)
               /\ ~(mem.alias[r.id] # NoId \/ mem.key[r.id] = r.m)
               /\ Flushed(s) \/ FlushRefused(s)
      <4>1. /\ mem.alias[r.id] = NoId /\ mem.key[r.id] = NoKey
            /\ \A o \in KeyOwners(mem, r.m) : Canonical(mem, o) = r.id
        BY <3>2 DEF BindRefused
      <4>2. mem' = s /\ disk' \in {disk, mem'}
        BY <3>2 DEF Flushed, FlushRefused
      <4>3. r.id \in mem.stored
        BY <3>2, <4>1 DEF BindRefused
      <4> QED BY <2>3, <2>5, <4>1, <4>2, <4>3 DEF BindServerKey, StoreStep, Bound
    <3> QED BY <2>5, <3>1, <3>2 DEF BindServerKey
  <2> QED BY <1>5, <2>1, <2>2, <2>4, <2>5 DEF MetricNext
<1>6. CASE RegisterNext
  <2>1. ASSUME NEW m \in Machines, NEW waits \in BOOLEAN, RegisterKnown(m, waits) PROVE StoreStep
    BY <1>1, <1>2, <2>1, StillFlush DEF RegisterKnown, Registering, StoreStep
  <2>2. ASSUME NEW m \in Machines, NEW waits \in BOOLEAN, RegisterNew(m, waits) PROVE StoreStep
    <3>1. PICK id \in Ids \ used : /\ Flushed(Added(mem, id, m)) \/ FlushRefused(Added(mem, id, m))
                                  /\ used' = used \cup {id}
      BY <2>2 DEF RegisterNew, Registering
    <3>2. mem' = Added(mem, id, m) /\ disk' \in {disk, mem'}
      BY <3>1 DEF Flushed, FlushRefused
    <3> QED BY <2>2, <3>1, <3>2 DEF RegisterNew, Registering, StoreStep, Enrolled
  <2>3. ASSUME NEW m \in Machines, LeaveRegistration(m) PROVE StoreStep
    BY <1>3, <2>3 DEF LeaveRegistration, central
  <2> QED BY <1>6, <2>1, <2>2, <2>3 DEF RegisterNext
<1>7. CASE TimeNext
  <2>1. CASE ClockSetBack
    <3>1. Alike(SetBack(mem), mem) /\ Alike(SetBack(disk), disk)
      BY <1>1, AlikeOperations
    <3> QED BY <2>1, <3>1 DEF ClockSetBack, StoreStep, Still
  <2>2. ASSUME NEW id \in Ids, Age(id) PROVE StoreStep
    <3>1. Alike(mem', mem) /\ Alike(disk', disk) /\ up' = up
      BY <1>1, <1>2, <2>2 DEF Age, Alike, Store
    <3> QED BY <3>1 DEF StoreStep, Still
  <2>3. ASSUME NEW id \in Ids, Lapse(id) PROVE StoreStep
    BY <1>3, <2>3 DEF Lapse
  <2> QED BY <1>7, <2>1, <2>2, <2>3 DEF TimeNext
<1>8. CASE OperatorNext
  <2>1. ASSUME NEW id \in Ids, FinishRemoval(id) PROVE StoreStep
    BY <2>1, SaveAndPurgeNodes DEF FinishRemoval, RemovalStep, Removal
  <2>2. ASSUME NEW id \in Ids, RemoveFromList(id) PROVE StoreStep
    <3> DEFINE op == [NoOp EXCEPT !.status = "removed", !.ids = RemovalFamily(mem, id)]
    <3>1. /\ op.ids = RemovalFamily(mem, id) /\ op.status = "removed"
          /\ SaveAndPurge(id, op) /\ up
      BY <2>2 DEF RemoveFromList, RemovalStep, NoOp
    <3> HIDE DEF op
    <3> QED BY <3>1, SaveAndPurgeNodes
  <2>3. ASSUME NEW id \in Ids, RequestUninstall(id) PROVE StoreStep
    BY <1>3, <2>3 DEF RequestUninstall
  <2>4. ASSUME NEW m \in Machines, Reinstall(m) \/ Wipe(m) PROVE StoreStep
    BY <1>3, <2>4 DEF Reinstall, Wipe, central
  <2>5. ASSUME NEW from \in Ids, NEW to \in Ids, Merge(from, to) PROVE StoreStep
    BY <1>3, <2>5 DEF Merge
  <2> QED BY <1>8, <2>1, <2>2, <2>3, <2>4, <2>5 DEF OperatorNext
<1>9. CASE HelperNext
  <2>1. ASSUME NEW m \in Machines, HelperStart(m) \/ HelperTimeout(m) \/ Preflight(m) \/ Cleanup(m)
        PROVE  StoreStep
    BY <1>3, <2>1 DEF HelperStart, HelperTimeout, Preflight, Cleanup, central
  <2>2. ASSUME NEW a \in acts, Refuse(a) \/ Poll(a) \/ Decide(a) PROVE StoreStep
    BY <1>3, <2>2 DEF Refuse, Poll, Decide
  <2>3. ASSUME NEW a \in acts PROVE a.id \in Ids /\ journal[a.id] \in Op
    BY DEF Typed, TypeNetwork, TypeCentral, Action
  <2>4. ASSUME NEW a \in acts, Complete(a) PROVE StoreStep
    <3> DEFINE op == [journal[a.id] EXCEPT !.status = "removed", !.live = FALSE]
    <3>1. op.ids = journal[a.id].ids /\ op.status = "removed"
      BY <2>3 DEF Op
    <3>2. SaveAndPurge(a.id, op) /\ up
      BY <2>4 DEF Complete, ActionStep
    <3> HIDE DEF op
    <3> QED BY <2>3, <3>1, <3>2, SaveAndPurgeNodes
  <2>5. ASSUME NEW a \in acts, Confirm(a) PROVE StoreStep
    <3>1. Removal(journal[a.id].ids)
      BY <2>3, <2>5 DEF Confirm, Removal
    <3> QED BY <2>5, <3>1, SaveAndPurgeNodes DEF Confirm, ActionStep
  <2> QED BY <1>9, <2>1, <2>2, <2>4, <2>5 DEF HelperNext
<1>10. CASE UNCHANGED vars
  BY <1>3, <1>10 DEF vars, central
<1> QED BY <1>4, <1>5, <1>6, <1>7, <1>8, <1>9, <1>10 DEF Next

-----------------------------------------------------------------------------
(* Aliases come from the configuration, and that one has no chains: "to" of   *)
(* one merge is "from" of none.                                               *)
OfConfig(s) == \A i \in Ids : s.alias[i] \in {NoId, cfg[i]}
Flat == \A i \in Ids : cfg[i] # NoId => cfg[i] # i /\ cfg[cfg[i]] = NoId

(* The identities of an operation are drawn ones, of one group.               *)
OneGroup(i) == \A k \in journal[i].ids : k \in used /\ (k = i \/ cfg[k] = i)

FamilyInv ==
  /\ OfConfig(mem) /\ OfConfig(disk) /\ Flat
  /\ \A i \in Ids : OneGroup(i)
  /\ ~up => mem.stored = {}

(* What the start makes of state.json and config.json.                        *)
LEMMA ConfiguredAliases ==
  ASSUME disk \in Store, cfg \in Aliases
  PROVE  /\ Configured.stored = disk.stored /\ Configured.key = disk.key
         /\ Configured.contact = disk.contact
         /\ Loaded.stored = disk.stored /\ Loaded.key = disk.key
         /\ \A i \in Ids : Loaded.alias[i] \in {NoId, disk.alias[i]}
         /\ \A i \in Ids : Configured.alias[i] \in {NoId, disk.alias[i], cfg[i]}
         /\ \A i \in disk.stored : Loaded.alias[i] = disk.alias[i]
         /\ \A i \in disk.stored :
              Configured.alias[i] = IF cfg[i] # NoId THEN cfg[i] ELSE disk.alias[i]
         /\ \A i \in Ids : cfg[i] \in disk.stored => Configured.alias[i] = cfg[i]
         /\ \A i \in Ids : Loaded.alias[i] # NoId => {i, Loaded.alias[i]} \cap disk.stored # {}
         /\ \A i \in Ids : Configured.alias[i] # NoId
                             => {i, Configured.alias[i]} \cap disk.stored # {}
<1>1. disk.stored \subseteq Ids /\ disk.alias \in Aliases
  BY DEF Store
<1>2. Loaded.stored = disk.stored /\ Loaded.key = disk.key /\ Loaded.contact = disk.contact
  BY DEF Loaded, Store
<1>3. \A i \in Ids : Loaded.alias[i] = IF disk.alias[i] # NoId /\ {i,
              disk.alias[i]} \cap disk.stored = {}
                                       THEN NoId ELSE disk.alias[i]
  BY <1>1 DEF Loaded, AliasesWith, NoAliases, Store
<1>4. Loaded \in Store /\ Configured \in Store
  BY ConfiguredType
<1>5. Configured.stored = disk.stored /\ Configured.key = disk.key /\ Configured.contact = disk.contact
  BY <1>2, <1>4 DEF Configured, Store
<1> DEFINE next == [i \in Ids |-> IF cfg[i] # NoId THEN cfg[i] ELSE Loaded.alias[i]]
<1>6. \A i \in Ids : Configured.alias[i] = IF next[i] # NoId /\ {i,
              next[i]} \cap disk.stored = {}
                                           THEN NoId ELSE next[i]
  BY <1>2, <1>4 DEF Configured, AliasesWith, Store
<1>7. \A i \in Ids : next[i] = IF cfg[i] # NoId THEN cfg[i] ELSE Loaded.alias[i]
  OBVIOUS
<1> HIDE DEF next
<1>8. \A i \in Ids : Loaded.alias[i] \in {NoId, disk.alias[i]}
  BY <1>3
<1>9. \A i \in disk.stored : Loaded.alias[i] = disk.alias[i]
  BY <1>1, <1>3
<1>10. \A i \in Ids : Configured.alias[i] \in {NoId, disk.alias[i], cfg[i]}
  BY <1>6, <1>7, <1>8
<1>11. \A i \in disk.stored :
         Configured.alias[i] = IF cfg[i] # NoId THEN cfg[i] ELSE disk.alias[i]
  BY <1>1, <1>6, <1>7, <1>9
<1>12. \A i \in Ids : cfg[i] \in disk.stored => Configured.alias[i] = cfg[i]
  BY <1>1, <1>6, <1>7, StoreAssumption
<1>13. \A i \in Ids : Loaded.alias[i] # NoId => {i, Loaded.alias[i]} \cap disk.stored # {}
  BY <1>3
<1>14. \A i \in Ids : Configured.alias[i] # NoId => {i, Configured.alias[i]} \cap disk.stored # {}
  BY <1>6
<1> QED BY <1>2, <1>5, <1>8, <1>9, <1>10, <1>11, <1>12, <1>13, <1>14

LEMMA WithoutAliases ==
  ASSUME NEW s, NEW D
  PROVE  /\ \A i \in Ids : Without(s, D).alias[i] \in {NoId, s.alias[i]}
         /\ \A i \in Ids : i \notin D /\ s.alias[i] \notin D
                             => Without(s, D).alias[i] = s.alias[i]
         /\ \A i \in Ids : i \notin D => /\ Without(s, D).key[i] = s.key[i]
                                         /\ Without(s, D).contact[i] = s.contact[i]
         /\ Without(s, D).stored = s.stored \ D
BY DEF Without

(* A step takes no alias but from memory, from disk or from the configuration. *)
LEMMA StepOfConfig ==
  ASSUME Typed, FamilyInv, StoreStep, \A i \in Ids : cfg[i] # NoId => cfg'[i] = cfg[i]
  PROVE  OfConfig(mem)' /\ OfConfig(disk)'
<1>1. mem \in Store /\ disk \in Store /\ cfg \in Aliases
  BY DEF Typed, TypeCentral
<1>2. \A i \in Ids : /\ mem.alias[i] \in {NoId, cfg[i]} /\ disk.alias[i] \in {NoId, cfg[i]}
                     /\ Configured.alias[i] \in {NoId, cfg[i]}
  BY <1>1, ConfiguredAliases DEF FamilyInv, OfConfig
<1>3. \A i \in Ids : \A D : /\ Without(mem, D).alias[i] \in {NoId, cfg[i]}
                        /\ Without(Configured, D).alias[i] \in {NoId, cfg[i]}
  BY <1>2, WithoutAliases
<1>4. \A i \in Ids : mem'.alias[i] \in {NoId, cfg[i]} /\ disk'.alias[i] \in {NoId, cfg[i]}
  <2> SUFFICES ASSUME NEW i \in Ids
               PROVE  mem'.alias[i] \in {NoId, cfg[i]} /\ disk'.alias[i] \in {NoId, cfg[i]}
    OBVIOUS
  <2>1. CASE Still
    BY <1>2, <2>1 DEF Still, Alike
  <2>2. CASE Cleared
    BY <1>3, <2>2 DEF Cleared, Alike
  <2>3. CASE Downed
    BY <1>2, <2>3 DEF Downed, Alike, EmptyStore, NoAliases
  <2>4. CASE Resumed
    BY <1>3, <2>4 DEF Resumed, AfterJournal
  <2>5. CASE Aborted
    BY <1>2, <1>3, <2>5 DEF Aborted
  <2>6. CASE Enrolled
    <3>1. mem'.alias = mem.alias
      BY <1>1, <2>6 DEF Enrolled, Added, Store
    <3> QED BY <1>2, <2>6, <3>1 DEF Enrolled
  <2>7. CASE Bound
    <3>1. mem'.alias = mem.alias
      BY <1>1, <2>7 DEF Bound, Store
    <3> QED BY <1>2, <2>7, <3>1 DEF Bound
  <2> QED BY <2>1, <2>2, <2>3, <2>4, <2>5, <2>6, <2>7 DEF StoreStep
<1> QED BY <1>4 DEF OfConfig

(* A stopped Central has nothing in memory. *)
LEMMA StepEmpty ==
  ASSUME Typed, FamilyInv, StoreStep
  PROVE  ~up' => mem'.stored = {}
<1>1. EmptyStore.stored = {}
  BY DEF EmptyStore
<1> QED BY <1>1 DEF FamilyInv, StoreStep, Still, Cleared, Downed, Resumed, Aborted, Enrolled,
                    Bound, Alike

(* "merge-nodes" adds one pair and makes no chain. *)
LEMMA MergeFlat ==
  ASSUME Typed, FamilyInv, NEW from \in Ids, NEW to \in Ids, Merge(from, to)
  PROVE  Flat' /\ cfg[from] = NoId /\ cfg' = [cfg EXCEPT ![from] = to]
<1> DEFINE new == [cfg EXCEPT ![from] = to]
           al == AliasesWith(Loaded, new)
<1>1. /\ cfg \in Aliases /\ disk \in Store /\ Loaded \in Store
      /\ cfg[from] = NoId /\ {from, to} \subseteq disk.stored
      /\ cfg' = new /\ AliasesValid(Loaded, al)
  BY ConfiguredType DEF Merge, Typed, TypeCentral
<1>2. Loaded.stored = disk.stored /\ from \in Loaded.stored /\ to \in Loaded.stored
  BY <1>1, ConfiguredAliases
<1>3. /\ new[from] = to /\ to \in Ids /\ to # NoId /\ new \in Aliases
      /\ \A i \in Ids \ {from} : new[i] = cfg[i]
  BY <1>1, StoreAssumption
<1>4. \A i \in Ids : new[i] # NoId /\ {i, new[i]} \cap Loaded.stored # {} => al[i] = new[i]
  BY <1>1, <1>2, <1>3 DEF AliasesWith, Store
<1> HIDE DEF al, new
<1>5. al[from] = to
  BY <1>2, <1>3, <1>4
<1>6. to # from /\ al[to] = NoId
  BY <1>1, <1>3, <1>5 DEF AliasesValid
<1>7. new[to] = NoId
  BY <1>2, <1>3, <1>4, <1>6
<1>8. \A i \in Ids : new[i] # from
  <2> SUFFICES ASSUME NEW i \in Ids, new[i] = from PROVE FALSE
    OBVIOUS
  <2>1. al[i] = from
    BY <1>2, <1>4, StoreAssumption
  <2> QED BY <1>1, <1>3, <1>5, <2>1, StoreAssumption DEF AliasesValid
<1>9. \A i \in Ids : new[i] # NoId => new[i] # i /\ new[new[i]] = NoId
  <2> SUFFICES ASSUME NEW i \in Ids, new[i] # NoId PROVE new[i] # i /\ new[new[i]] = NoId
    OBVIOUS
  <2>1. CASE i = from
    BY <1>3, <1>6, <1>7, <2>1
  <2>2. CASE i # from
    BY <1>1, <1>3, <1>8, <2>2 DEF FamilyInv, Flat
  <2> QED BY <2>1, <2>2
<1> QED BY <1>1, <1>9 DEF Flat, new

(* The operation a step may write down: of the family it is for, and when it is *)
(* a removal the nodes go with it, unless the purge is refused or cut short.    *)
Carried(id) ==
  journal'[id].status = "removed" =>
    \/ journal[id].status = "removed" /\ journal'[id].ids = journal[id].ids
    \/ ~up'
    \/ faults' = faults + 1
    \/ mem'.stored \cap journal'[id].ids = {}

OperationStep(id) ==
  /\ \A i \in Ids \ {id} : journal'[i] = journal[i]
  /\ journal'[id].ids \in {journal[id].ids, RemovalFamily(mem, id)}
  /\ Carried(id)

LEMMA SavedOperation ==
  ASSUME Typed, NEW id \in Ids, NEW op, op.ids \in {journal[id].ids, RemovalFamily(mem, id)},
         SaveAndPurge(id, op) \/ (SaveOp(id, op) /\ op.status # "removed")
  PROVE  journal' = journal \/ OperationStep(id)
<1>1. journal \in [Ids -> Op]
  BY DEF Typed, TypeCentral
<1>2. CASE journal' = [journal EXCEPT ![id] = op]
  <2>1. journal'[id] = op /\ \A i \in Ids \ {id} : journal'[i] = journal[i]
    BY <1>1, <1>2
  <2>2. op.status = "removed" => ~up' \/ faults' = faults + 1 \/ mem'.stored \cap op.ids = {}
    <3>1. CASE Purge(op.ids)
      BY <3>1 DEF Purge, Without, Fault
    <3>2. CASE Stopped
      BY <3>2 DEF Stopped
    <3>3. CASE Fault
      BY <3>3 DEF Fault
    <3> QED BY <3>1, <3>2, <3>3 DEF SaveAndPurge
  <2> QED BY <2>1, <2>2 DEF OperationStep, Carried
<1> QED BY <1>2 DEF SaveAndPurge, SaveOp

LEMMA NextOperationStep ==
  Typed /\ [Next]_vars => journal' = journal \/ \E id \in Ids : OperationStep(id)
<1> DEFINE Goal == journal' = journal \/ \E id \in Ids : OperationStep(id)
<1> SUFFICES ASSUME Typed, [Next]_vars PROVE Goal
  OBVIOUS
<1>1. journal \in [Ids -> Op]
  BY DEF Typed, TypeCentral
<1>2. CASE CentralNext \/ MetricNext \/ RegisterNext
  BY <1>2 DEF CentralNext, Stop, Start, Flush, Expire, MetricNext, SendMetric, GiveUp, Lookup,
              RecordContact, BindServerKey, Receive, RegisterNext, LeaveRegistration,
              RegisterKnown, RegisterNew, Registering, central
<1>3. CASE TimeNext
  <2>1. CASE ClockSetBack \/ \E id \in Ids : Age(id)
    BY <2>1 DEF ClockSetBack, Age
  <2>2. ASSUME NEW id \in Ids, Lapse(id) PROVE Goal
    <3>1. journal' = [journal EXCEPT ![id] = [journal[id] EXCEPT !.live = FALSE]]
      BY <2>2 DEF Lapse
    <3>2. /\ \A i \in Ids \ {id} : journal'[i] = journal[i]
          /\ journal'[id].ids = journal[id].ids /\ journal'[id].status = journal[id].status
      BY <1>1, <3>1 DEF Op
    <3> QED BY <3>2 DEF OperationStep, Carried
  <2> QED BY <1>3, <2>1, <2>2 DEF TimeNext
<1>4. CASE OperatorNext
  <2>1. ASSUME NEW id \in Ids, RemoveFromList(id) PROVE Goal
    <3> DEFINE op == [NoOp EXCEPT !.status = "removed", !.ids = RemovalFamily(mem, id)]
    <3>1. op.ids = RemovalFamily(mem, id) /\ SaveAndPurge(id, op)
      BY <2>1 DEF RemoveFromList, NoOp
    <3> HIDE DEF op
    <3> QED BY <3>1, SavedOperation
  <2>2. ASSUME NEW id \in Ids, RequestUninstall(id) PROVE Goal
    <3> DEFINE op == [status |-> "pending", nonce |-> nonces + 1, live |-> TRUE,
                      ids |-> RemovalFamily(mem, id)]
    <3>1. op.ids = RemovalFamily(mem, id) /\ SaveOp(id, op) /\ op.status # "removed"
      BY <2>2 DEF RequestUninstall
    <3> QED BY <3>1, SavedOperation
  <2>3. CASE \/ \E id \in Ids : FinishRemoval(id)
             \/ \E m \in Machines : Reinstall(m) \/ Wipe(m)
             \/ \E from, to \in Ids : Merge(from, to)
    BY <2>3 DEF FinishRemoval, Reinstall, Wipe, Merge, central
  <2> QED BY <1>4, <2>1, <2>2, <2>3 DEF OperatorNext
<1>5. CASE HelperNext
  <2>1. ASSUME NEW a \in acts PROVE a.id \in Ids /\ journal[a.id] \in Op
    BY <1>1 DEF Typed, TypeNetwork, Action
  <2>2. ASSUME NEW a \in acts, Decide(a) PROVE Goal
    <3> DEFINE op == IF a.phase = "accept"
                     THEN [journal[a.id] EXCEPT !.status = "accepted", !.live = TRUE]
                     ELSE [journal[a.id] EXCEPT !.status = "failed"]
    <3>1. op.ids = journal[a.id].ids /\ op.status # "removed"
      BY <2>1 DEF Op
    <3>2. SaveOp(a.id, op)
      BY <2>2 DEF Decide
    <3> HIDE DEF op
    <3> QED BY <2>1, <3>1, <3>2, SavedOperation
  <2>3. ASSUME NEW a \in acts, Complete(a) PROVE Goal
    <3> DEFINE op == [journal[a.id] EXCEPT !.status = "removed", !.live = FALSE]
    <3>1. op.ids = journal[a.id].ids
      BY <2>1 DEF Op
    <3>2. SaveAndPurge(a.id, op)
      BY <2>3 DEF Complete
    <3> HIDE DEF op
    <3> QED BY <2>1, <3>1, <3>2, SavedOperation
  <2>4. CASE \/ \E m \in Machines : HelperStart(m) \/ HelperTimeout(m) \/ Preflight(m) \/ Cleanup(m)
             \/ \E a \in acts : Refuse(a) \/ Poll(a) \/ Confirm(a)
    BY <2>4 DEF HelperStart, HelperTimeout, Preflight, Cleanup, Refuse, Poll, Confirm, central
  <2> QED BY <1>5, <2>2, <2>3, <2>4 DEF HelperNext
<1>6. CASE UNCHANGED vars
  BY <1>6 DEF vars, central
<1> QED BY <1>2, <1>3, <1>4, <1>5, <1>6 DEF Next

(* The configuration changes only by a merge; identities are drawn, not returned. *)
LEMMA NextConfiguration ==
  Typed /\ [Next]_vars => /\ cfg' = cfg \/ \E from, to \in Ids : Merge(from, to)
                          /\ used \subseteq used'
<1> SUFFICES ASSUME Typed, [Next]_vars
             PROVE  /\ cfg' = cfg \/ \E from, to \in Ids : Merge(from, to)
                    /\ used \subseteq used'
  OBVIOUS
<1>1. CASE CentralNext \/ MetricNext \/ RegisterNext \/ TimeNext
  BY <1>1 DEF CentralNext, Stop, Start, Flush, Expire, MetricNext, SendMetric, GiveUp, Lookup,
              RecordContact, BindServerKey, Receive, RegisterNext, LeaveRegistration,
              RegisterKnown, RegisterNew, Registering,
              TimeNext, ClockSetBack, Age, Lapse, central
<1>2. CASE OperatorNext
  BY <1>2 DEF OperatorNext, FinishRemoval, RemoveFromList, RequestUninstall, RemovalStep,
              Reinstall,
              Wipe, Merge, central
<1>3. CASE HelperNext
  BY <1>3 DEF HelperNext, HelperStart, HelperTimeout, Preflight, Cleanup, Refuse, Poll, Decide,
              Complete, Confirm, ActionStep, central
<1>4. CASE UNCHANGED vars
  BY <1>4 DEF vars, central
<1> QED BY <1>1, <1>2, <1>3, <1>4 DEF Next

(* The family of a node is of its group and was drawn. *)
LEMMA FamilyOfGroup ==
  ASSUME Typed, SavedInv, FamilyInv, NEW id \in Ids
  PROVE  \A k \in RemovalFamily(mem, id) : k \in used /\ (k = id \/ cfg[k] = id)
<1>1. mem \in Store
  BY DEF Typed, TypeCentral
<1> SUFFICES ASSUME NEW k \in RemovalFamily(mem, id)
             PROVE  k \in used /\ (k = id \/ cfg[k] = id)
  OBVIOUS
<1>2. id \in mem.stored /\ (k = id \/ (k \in Ids /\ mem.alias[k] = id))
  BY DEF RemovalFamily, Listed
<1>3. k \in mem.stored
  BY <1>2, StoreAssumption DEF SavedInv, Sound
<1> QED BY <1>2, <1>3, StoreAssumption DEF SavedInv, FamilyInv, OfConfig

LEMMA FamilyInductive == Typed /\ SavedInv /\ FamilyInv /\ [Next]_vars => FamilyInv'
<1> SUFFICES ASSUME Typed, SavedInv, FamilyInv, [Next]_vars PROVE FamilyInv'
  OBVIOUS
<1>1. /\ StoreStep /\ used \subseteq used'
      /\ cfg' = cfg \/ \E from, to \in Ids : Merge(from, to)
      /\ journal' = journal \/ \E id \in Ids : OperationStep(id)
  BY NextStoreStep, NextConfiguration, NextOperationStep
<1>2. Flat' /\ \A i \in Ids : cfg[i] # NoId => cfg'[i] = cfg[i]
  <2>1. CASE cfg' = cfg
    BY <2>1 DEF FamilyInv, Flat
  <2>2. ASSUME NEW from \in Ids, NEW to \in Ids, Merge(from, to)
        PROVE  Flat' /\ \A i \in Ids : cfg[i] # NoId => cfg'[i] = cfg[i]
    BY <2>2, MergeFlat DEF Typed, TypeCentral
  <2> QED BY <1>1, <2>1, <2>2
<1>3. OfConfig(mem)' /\ OfConfig(disk)' /\ (~up' => mem'.stored = {})
  BY <1>1, <1>2, StepOfConfig, StepEmpty
<1>4. ASSUME NEW i \in Ids PROVE OneGroup(i)'
  <2>1. \A k \in journal[i].ids : k \in used /\ (k = i \/ cfg[k] = i)
    BY DEF FamilyInv, OneGroup
  <2>2. \A k \in RemovalFamily(mem, i) : k \in used /\ (k = i \/ cfg[k] = i)
    BY FamilyOfGroup
  <2>3. journal'[i].ids \in {journal[i].ids, RemovalFamily(mem, i)}
    BY <1>1 DEF OperationStep
  <2>4. i # NoId /\ used \subseteq Ids
    BY StoreAssumption DEF Typed, TypeCentral
  <2>5. \A k \in journal'[i].ids : k \in used' /\ (k = i \/ cfg'[k] = i)
    BY <1>1, <1>2, <2>1, <2>2, <2>3, <2>4
  <2> QED BY <2>5 DEF OneGroup
<1> QED BY <1>2, <1>3, <1>4 DEF FamilyInv

LEMMA InitFamily == Init => FamilyInv
<1> SUFFICES ASSUME Init PROVE FamilyInv
  OBVIOUS
<1>1. OfConfig(mem) /\ OfConfig(disk)
  BY DEF Init, OfConfig, InitialStore
<1>2. Flat
  BY SettledAssumption DEF Init, Flat, AliasesValid
<1> QED BY <1>1, <1>2 DEF Init, FamilyInv, OneGroup, NoOp

(* Aliases are those of a configuration without chains, and an operation is about *)
(* one group of it.                                                               *)
THEOREM FamilyInvariant == Spec => [](Typed /\ SavedInv /\ FamilyInv)
<1>1. Init => FamilyInv
  BY InitFamily
<1>2. Typed /\ SavedInv /\ FamilyInv /\ [Next]_vars => FamilyInv'
  BY FamilyInductive
<1> QED BY <1>1, <1>2, SavedInvariant, PTL DEF Spec

-----------------------------------------------------------------------------
(* While Central runs and no write was refused, what is revoked is not stored:  *)
(* an identity that was once drawn and deleted is not drawn again.              *)
LEMMA NextFaults == Typed /\ [Next]_vars => faults' \in {faults, faults + 1}
<1> SUFFICES ASSUME Typed, [Next]_vars PROVE faults' \in {faults, faults + 1}
  OBVIOUS
<1> USE DEF NoFault, Fault, Flushed, FlushRefused, SaveOrUndo, Purge, SaveAndPurge, SaveOp,
              bounds
<1>1. CASE CentralNext
  <2>1. CASE Expire
    BY <2>1 DEF Expire
  <2> QED BY <1>1, <2>1 DEF CentralNext, Stop, Start, Flush
<1>2. CASE MetricNext
  BY <1>2 DEF MetricNext, SendMetric, GiveUp, Lookup, RecordContact, BindServerKey, Receive
<1>3. CASE RegisterNext
  BY <1>3 DEF RegisterNext, LeaveRegistration, RegisterKnown, RegisterNew, Registering
<1>4. CASE TimeNext
  BY <1>4 DEF TimeNext, ClockSetBack, Age, Lapse
<1>5. CASE OperatorNext
  BY <1>5 DEF OperatorNext, FinishRemoval, RemoveFromList, RequestUninstall, Reinstall, Wipe,
              Merge
<1>6. CASE HelperNext
  BY <1>6 DEF HelperNext, HelperStart, HelperTimeout, Preflight, Cleanup, Refuse, Poll, Decide,
              Complete, Confirm
<1>7. CASE UNCHANGED vars
  BY <1>7 DEF vars
<1> QED BY <1>1, <1>2, <1>3, <1>4, <1>5, <1>6, <1>7 DEF Next

LEMMA RevokedIsUsed == FamilyInv => Revoked \subseteq used
BY DEF FamilyInv, OneGroup, Revoked, Removed

(* What a step revokes. *)
LEMMA NewlyRevoked ==
  ASSUME Typed, [Next]_vars
  PROVE  \/ ~up' \/ faults' = faults + 1
         \/ (Revoked' \ Revoked) \cap mem'.stored = {}
<1>1. journal' = journal \/ \E id \in Ids : OperationStep(id)
  BY NextOperationStep
<1>2. CASE journal' = journal
  BY <1>2 DEF Revoked, Removed
<1>3. ASSUME NEW id \in Ids, OperationStep(id), up', faults' # faults + 1,
             NEW k \in Revoked' \ Revoked, k \in mem'.stored
      PROVE  FALSE
  <2>1. PICK i \in Ids : journal'[i].status = "removed" /\ k \in journal'[i].ids
    BY <1>3 DEF Revoked, Removed
  <2>2. ~(journal[i].status = "removed" /\ k \in journal[i].ids)
    BY <1>3 DEF Revoked, Removed
  <2>3. i = id
    BY <1>3, <2>1, <2>2 DEF OperationStep
  <2> QED BY <1>3, <2>1, <2>2, <2>3 DEF OperationStep, Carried
<1> QED BY <1>1, <1>2, <1>3

LEMMA RevokedStep ==
  Typed /\ SavedInv /\ FamilyInv /\ RevokedNotStored /\ [Next]_vars => RevokedNotStored'
<1> SUFFICES ASSUME Typed, SavedInv, FamilyInv, RevokedNotStored, [Next]_vars, up', faults' = 0
             PROVE  mem'.stored \cap Revoked' = {}
  BY DEF RevokedNotStored
<1>1. faults = 0 /\ faults' # faults + 1
  BY NextFaults DEF Typed, TypeBounds
<1>2. (Revoked' \ Revoked) \cap mem'.stored = {}
  BY <1>1, NewlyRevoked
<1>3. mem'.stored \cap Revoked = {}
  <2>1. StoreStep /\ mem \in Store
    BY NextStoreStep DEF Typed, TypeCentral
  <2>2. CASE up /\ mem'.stored \subseteq mem.stored \cup (Ids \ used)
    BY <1>1, <2>2, RevokedIsUsed DEF RevokedNotStored
  <2>3. CASE Still \/ Cleared
    BY <2>2, <2>3 DEF Still, Cleared, Alike, Without
  <2>4. CASE Resumed
    BY <2>4 DEF Resumed, AfterJournal, Without
  <2>5. CASE Enrolled
    <3>1. PICK m \in Machines, id \in Ids \ used : mem' = Added(mem, id, m)
      BY <2>5 DEF Enrolled
    <3>2. mem'.stored = mem.stored \cup {id}
      BY <2>1, <3>1 DEF Added, Store
    <3> QED BY <2>2, <2>5, <3>2 DEF Enrolled
  <2>6. CASE Bound
    <3>1. mem'.stored = mem.stored
      BY <2>1, <2>6 DEF Bound, Store
    <3> QED BY <2>2, <2>6, <3>1 DEF Bound
  <2> QED BY <2>1, <2>3, <2>4, <2>5, <2>6 DEF StoreStep, Downed, Aborted
<1> QED BY <1>2, <1>3

(* A stop between the journal and state.json is made good before requests are    *)
(* served, and no registration hands the identity out again.                     *)
THEOREM RevokedIsNotStored == Spec => []RevokedNotStored
<1>1. Init => RevokedNotStored
  BY DEF Init, RevokedNotStored, Revoked, Removed, NoOp
<1>2. Typed /\ SavedInv /\ FamilyInv /\ RevokedNotStored /\ [Next]_vars => RevokedNotStored'
  BY RevokedStep
<1> QED BY <1>1, <1>2, FamilyInvariant, PTL DEF Spec

-----------------------------------------------------------------------------
(* An agent that registers gets an identity that Central stores or has just    *)
(* drawn.                                                                      *)
LEMMA NextRegistration ==
  ASSUME Typed, SavedInv, [Next]_vars, NEW n \in Machines,
         agent[n].st = "registering", agent'[n].st = "running"
  PROVE  up /\ (agent'[n].id \in mem.stored \/ agent'[n].id \notin used)
<1> DEFINE Goal == up /\ (agent'[n].id \in mem.stored \/ agent'[n].id \notin used)
<1>1. agent \in [Machines -> Agent] /\ mem \in Store
  BY DEF Typed, TypeNodes, TypeCentral
<1>2. ~UNCHANGED agent
  OBVIOUS
<1>3. CASE RegisterNext
  <2>1. ASSUME NEW m \in Machines, NEW waits \in BOOLEAN, RegisterKnown(m, waits) PROVE Goal
    <3>1. PICK owner \in KeyOwners(mem, m) : Registered(m, Canonical(mem, owner), waits)
      BY <1>2, <2>1 DEF RegisterKnown, Unanswered
    <3>2. Canonical(mem, owner) \in mem.stored
      BY <1>1 DEF KeyOwners, Canonical, SavedInv, Sound, Store
    <3>3. agent'[n].id = Canonical(mem, owner)
      BY <1>1, <1>2, <3>1 DEF Registered, Unanswered
    <3> QED BY <2>1, <3>2, <3>3 DEF RegisterKnown, Registering
  <2>2. ASSUME NEW m \in Machines, NEW waits \in BOOLEAN, RegisterNew(m, waits) PROVE Goal
    <3>1. PICK id \in Ids \ used : Registered(m, id, waits)
      BY <1>2, <2>2 DEF RegisterNew, Unanswered
    <3>2. agent'[n].id = id
      BY <1>1, <1>2, <3>1 DEF Registered, Unanswered
    <3> QED BY <2>2, <3>1, <3>2 DEF RegisterNew, Registering
  <2> QED BY <1>2, <1>3, <2>1, <2>2 DEF RegisterNext, LeaveRegistration, nodeside
<1>4. CASE CentralNext \/ TimeNext
  BY <1>2, <1>4 DEF CentralNext, Stop, Start, Flush, Expire, TimeNext, ClockSetBack, Age,
              Lapse, nodeside
<1>5. CASE MetricNext
  <2>1. ASSUME NEW r \in reqs, Receive(r) PROVE agent'[n].st # "running"
    BY <1>1, <1>2, <2>1 DEF Receive
  <2> QED BY <1>2, <1>5, <2>1 DEF MetricNext, SendMetric, GiveUp, Lookup, RecordContact,
                                  BindServerKey, nodeside
<1>6. CASE OperatorNext
  <2>1. ASSUME NEW m \in Machines, Reinstall(m) \/ Wipe(m) PROVE FALSE
    BY <1>1, <2>1 DEF Reinstall, Wipe, Agent
  <2> QED BY <1>2, <1>6, <2>1 DEF OperatorNext, FinishRemoval, RemoveFromList, RequestUninstall,
                                  RemovalStep, Merge, nodeside
<1>7. CASE HelperNext
  <2>1. ASSUME NEW m \in Machines, Cleanup(m) PROVE FALSE
    BY <1>1, <1>2, <2>1 DEF Cleanup
  <2> QED BY <1>2, <1>7, <2>1 DEF HelperNext, HelperStart, HelperTimeout, Preflight, Refuse,
              Poll,
                                  Decide, Complete, Confirm, ActionStep
<1> QED BY <1>2, <1>3, <1>4, <1>5, <1>6, <1>7 DEF Next, vars, nodeside

(* As long as no write was refused, registration hands out no revoked identity, *)
(* through stops, merges, wipes and lost replies.                               *)
THEOREM RegistrationIsUsable == Spec => SavedIdentityUsable
<1> DEFINE Usable == faults = 0 => \A m \in Machines : GivenUsable(m)
<1>1. Typed /\ SavedInv /\ FamilyInv /\ RevokedNotStored /\ [Next]_vars => [Usable]_vars
  BY NextRegistration, RevokedIsUsed DEF GivenUsable, RevokedNotStored
<1> QED BY <1>1, FamilyInvariant, RevokedIsNotStored, PTL DEF Spec, SavedIdentityUsable

-----------------------------------------------------------------------------
(* The answers on their way: only Central's handlers of metrics write one, and *)
(* "unknown node" only for an identity it has not revoked.                     *)
LEMMA NextAnswers ==
  ASSUME Typed, [Next]_vars, NEW q \in reqs' \ reqs, q.st = "401"
  PROVE  q.id \notin Revoked
<1>1. reqs \subseteq Request
  BY DEF Typed, TypeNetwork
<1>2. ASSUME NEW r \in reqs PROVE \A code : [r EXCEPT !.st = code].st = code /\ [r EXCEPT !.st = code].id = r.id
  BY <1>1, <1>2 DEF Request
<1>3. ASSUME NEW r \in reqs, NEW code, code # "401" PROVE ~Answered(r, code)
  BY <1>2, <1>3 DEF Answered, Replace
<1>4. ASSUME NEW r \in reqs, NEW st, NEW hint, st # "401" PROVE ~Moved(r, st, hint)
  <2>1. [r EXCEPT !.st = st, !.hint = hint].st = st
    BY <1>1 DEF Request
  <2> QED BY <1>4, <2>1 DEF Moved, Replace
<1>5. ASSUME NEW r \in reqs, Answered(r, "401") PROVE q.id = r.id
  BY <1>2, <1>5 DEF Answered, Replace
<1>6. ASSUME NEW m \in Machines PROVE ~Abandoned(m)
  <2>1. \A r \in reqs : r.st \in InFlight => [r EXCEPT !.live = FALSE].st # "401"
    BY <1>1 DEF Request, InFlight
  <2>2. Abandoned(m) => \E r \in reqs : r.st \in InFlight /\ q = [r EXCEPT !.live = FALSE]
    BY DEF Abandoned
  <2> QED BY <2>1, <2>2
<1>7. CASE MetricNext
  <2>1. ASSUME NEW m \in Machines, SendMetric(m) PROVE FALSE
    BY <2>1 DEF SendMetric
  <2>2. ASSUME NEW r \in reqs, GiveUp(r) PROVE FALSE
    <3>1. r.st \in InFlight => [r EXCEPT !.live = FALSE].st # "401"
      BY <1>1 DEF Request, InFlight
    <3> QED BY <2>2, <3>1 DEF GiveUp, Replace
  <2>3. ASSUME NEW r \in reqs, Lookup(r) PROVE q.id \notin Revoked
    <3>1. ~Moved(r, "known", 0) /\ ~Answered(r, "410")
      BY <1>3, <1>4
    <3> QED BY <1>5, <2>3, <3>1 DEF Lookup
  <2>4. ASSUME NEW r \in reqs, RecordContact(r) PROVE q.id \notin Revoked
    <3>1. ~Moved(r, "contacted", Hint(r.id)) /\ ~Answered(r, "410")
      BY <1>3, <1>4
    <3> QED BY <1>5, <2>4, <3>1 DEF RecordContact, Admitted
  <2>5. ASSUME NEW r \in reqs, BindServerKey(r) PROVE FALSE
    <3>1. ~Answered(r, "409") /\ ~Answered(r, "204")
      BY <1>3
    <3> QED BY <2>5, <3>1 DEF BindServerKey
  <2>6. ASSUME NEW r \in reqs, Receive(r) PROVE FALSE
    BY <2>6 DEF Receive, Replace
  <2> QED BY <1>7, <2>1, <2>2, <2>3, <2>4, <2>5, <2>6 DEF MetricNext
<1>8. ~(reqs' \subseteq reqs)
  OBVIOUS
<1>9. CASE CentralNext \/ RegisterNext \/ TimeNext
  BY <1>8, <1>9 DEF CentralNext, Stop, Stopped, Start, Flush, Expire, RegisterNext,
              LeaveRegistration, RegisterKnown,
              RegisterNew, Registering, TimeNext, ClockSetBack, Age, Lapse, network
<1>10. CASE OperatorNext
  <2>1. ASSUME NEW id \in Ids, RemoveFromList(id) PROVE FALSE
    BY <1>8, <2>1 DEF RemoveFromList, RemovalStep, SaveAndPurge, Stopped, network
  <2> QED BY <1>6, <1>8, <1>10, <2>1 DEF OperatorNext, FinishRemoval, RequestUninstall,
              Reinstall,
                                   Wipe, Merge, network
<1>11. CASE HelperNext
  <2>1. ASSUME NEW m \in Machines, Cleanup(m) PROVE FALSE
    BY <1>6, <1>8, <2>1 DEF Cleanup
  <2>2. ASSUME NEW a \in acts, Complete(a) PROVE FALSE
    BY <1>8, <2>2 DEF Complete, ActionStep, SaveAndPurge, Stopped
  <2> QED BY <1>8, <1>11, <2>1, <2>2 DEF HelperNext, HelperStart, HelperTimeout, Preflight,
              Refuse,
                                   Poll, Decide, Confirm
<1> QED BY <1>7, <1>8, <1>9, <1>10, <1>11 DEF Next, vars, network

(* An agent that runs registers again only when it reads such an answer, or when *)
(* its machine is set up from nothing.                                           *)
LEMMA NextDismissal ==
  ASSUME Typed, [Next]_vars, NEW n \in Machines,
         agent[n].st = "running", agent'[n].st = "registering", wipes' = wipes
  PROVE  \E r \in reqs \ reqs' : r.m = n /\ r.st = "401"
<1> DEFINE Goal == \E r \in reqs \ reqs' : r.m = n /\ r.st = "401"
<1>1. agent \in [Machines -> Agent] /\ reqs \subseteq Request /\ wipes \in Nat
  BY DEF Typed, TypeNodes, TypeNetwork, TypeBounds
<1>2. ~UNCHANGED agent
  OBVIOUS
<1>3. CASE RegisterNext
  BY <1>1, <1>2, <1>3 DEF RegisterNext, LeaveRegistration, RegisterKnown, RegisterNew,
              Registered,
              Unanswered, nodeside
<1>4. CASE CentralNext \/ TimeNext
  BY <1>2, <1>4 DEF CentralNext, Stop, Start, Flush, Expire, TimeNext, ClockSetBack, Age,
              Lapse, nodeside
<1>5. CASE MetricNext
  <2>1. ASSUME NEW r \in reqs, Receive(r) PROVE Goal
    <3>1. r.st = "401" /\ r \notin reqs'
      BY <1>2, <2>1 DEF Receive, Rejected, Replace
    <3>2. r.m = n
      BY <1>1, <1>2, <2>1 DEF Receive, Rejected
    <3> QED BY <3>1, <3>2
  <2> QED BY <1>2, <1>5, <2>1 DEF MetricNext, SendMetric, GiveUp, Lookup, RecordContact,
                                  BindServerKey, nodeside
<1>6. CASE OperatorNext
  <2>1. ASSUME NEW m \in Machines, Reinstall(m) PROVE FALSE
    BY <1>1, <2>1 DEF Reinstall, Agent
  <2>2. ASSUME NEW m \in Machines, Wipe(m) PROVE FALSE
    BY <1>1, <2>2 DEF Wipe
  <2> QED BY <1>2, <1>6, <2>1, <2>2 DEF OperatorNext, FinishRemoval, RemoveFromList,
                                  RequestUninstall, RemovalStep, Merge, nodeside
<1>7. CASE HelperNext
  <2>1. ASSUME NEW m \in Machines, Cleanup(m) PROVE FALSE
    BY <1>1, <1>2, <2>1 DEF Cleanup
  <2> QED BY <1>2, <1>7, <2>1 DEF HelperNext, HelperStart, HelperTimeout, Preflight, Refuse,
              Poll,
                                  Decide, Complete, Confirm, ActionStep
<1> QED BY <1>2, <1>3, <1>4, <1>5, <1>6, <1>7 DEF Next, vars, nodeside

(* No agent that was removed registers again by itself, wherever between lookup  *)
(* and second look the removal falls, however late an answer arrives.            *)
THEOREM RemovedStaysRemoved == Spec => RemovedStaysOut
<1> DEFINE Out == /\ \A r \in reqs' \ reqs : r.st = "401" => r.id \notin Revoked
                  /\ \A m \in Machines :
                       agent[m].st = "running" /\ agent'[m].st = "registering" /\ wipes' = wipes
                         => \E r \in reqs \ reqs' : r.m = m /\ r.st = "401"
<1>1. Typed /\ [Next]_vars => [Out]_vars
  BY NextAnswers, NextDismissal
<1> QED BY <1>1, SavedInvariant, PTL DEF Spec, RemovedStaysOut

-----------------------------------------------------------------------------
(* The contact of a revoked identity that is still stored becomes fresh only by *)
(* the clock or by the observation of one that had none.                        *)
LEMMA NextContacts ==
  ASSUME Typed, SavedInv, FamilyInv, [Next]_vars,
         NEW i \in Revoked \cap mem.stored \cap mem'.stored, mem'.contact[i] = "fresh"
  PROVE  mem.contact[i] \in {"fresh", "none", "future"}
<1> DEFINE Goal == mem.contact[i] \in {"fresh", "none", "future"}
<1>1. mem \in Store /\ i \in Ids /\ i \in mem.stored /\ i \in used /\ up
  BY DEF Typed, TypeCentral, Store, SavedInv, FamilyInv
<1>2. ASSUME mem'.contact[i] = mem.contact[i] PROVE Goal
  BY <1>2
<1>3. ASSUME UNCHANGED mem PROVE Goal
  BY <1>3
<1>4. \A D : i \notin D => Without(mem, D).contact[i] = mem.contact[i]
  BY <1>1 DEF Without
<1>5. ASSUME NEW D, Purge(D) PROVE Goal
  <2>1. CASE mem' = Without(mem, D)
    BY <1>2, <1>4, <2>1 DEF Without
  <2> QED BY <1>3, <1>5, <2>1 DEF Purge
<1>6. ASSUME NEW id, NEW op, SaveAndPurge(id, op) PROVE Goal
  BY <1>3, <1>5, <1>6 DEF SaveAndPurge, Stopped, EmptyStore
<1>7. CASE CentralNext
  <2>1. CASE Expire
    <3>1. PICK gone : mem' \in {Observed(mem), Without(Observed(mem), gone)}
      BY <2>1 DEF Expire, Flushed, FlushRefused, SaveOrUndo
    <3>2. Observed(mem).contact[i] = "fresh"
      BY <1>1, <3>1 DEF Without
    <3> QED BY <1>1, <3>2 DEF Observed, Store
  <2>2. CASE Stop
    BY <2>2 DEF Stop, Stopped, EmptyStore
  <2>3. CASE Start \/ Flush
    BY <1>1, <1>3, <2>3 DEF Start, Flush, Flushed, FlushRefused
  <2> QED BY <1>7, <2>1, <2>2, <2>3 DEF CentralNext
<1>8. CASE MetricNext
  <2>1. ASSUME NEW r \in reqs, RecordContact(r) PROVE Goal
    <3>1. CASE mem' = Touched(mem, r.id) /\ r.id \notin Revoked
      BY <1>1, <1>2, <3>1 DEF Touched, Store
    <3> QED BY <1>3, <2>1, <3>1 DEF RecordContact, Admitted
  <2>2. ASSUME NEW r \in reqs, BindServerKey(r) PROVE Goal
    <3>1. CASE mem' = [mem EXCEPT !.key[r.id] = r.m]
      BY <1>1, <1>2, <3>1 DEF Store
    <3> QED BY <1>3, <2>2, <3>1 DEF BindServerKey, Flushed, FlushRefused
  <2> QED BY <1>3, <1>8, <2>1, <2>2 DEF MetricNext, SendMetric, GiveUp, Lookup, Receive, central
<1>9. CASE RegisterNext
  <2>1. ASSUME NEW m \in Machines, NEW waits \in BOOLEAN, RegisterNew(m, waits) PROVE Goal
    <3>1. PICK id \in Ids \ used : mem' = Added(mem, id, m)
      BY <2>1 DEF RegisterNew, Registering, Flushed, FlushRefused
    <3> QED BY <1>1, <1>2, <3>1 DEF Added, Store
  <2> QED BY <1>3, <1>9, <2>1 DEF RegisterNext, LeaveRegistration, RegisterKnown, Flushed,
              FlushRefused,
                                  central
<1>10. CASE TimeNext
  <2>1. CASE ClockSetBack
    BY <1>1, <2>1 DEF ClockSetBack, SetBack
  <2>2. ASSUME NEW id \in Ids, Age(id) PROVE Goal
    <3>1. CASE mem' = [mem EXCEPT !.contact[id] = Older[@]]
      <4>1. mem'.contact[i] = IF i = id THEN Older[mem.contact[i]] ELSE mem.contact[i]
        BY <1>1, <3>1 DEF Store
      <4>2. mem.contact[i] \in Contact
        BY <1>1 DEF Store
      <4> QED BY <4>1, <4>2 DEF Older, Contact
    <3> QED BY <1>3, <2>2, <3>1 DEF Age
  <2> QED BY <1>3, <1>10, <2>1, <2>2 DEF TimeNext, Lapse
<1>11. CASE OperatorNext
  BY <1>3, <1>5, <1>6, <1>11 DEF OperatorNext, FinishRemoval, RemoveFromList, RequestUninstall,
              Reinstall,
                                 Wipe, Merge, central
<1>12. CASE HelperNext
  BY <1>3, <1>5, <1>6, <1>12 DEF HelperNext, HelperStart, HelperTimeout, Preflight, Cleanup,
              Refuse, Poll,
                                 Decide, Complete, Confirm, central
<1> QED BY <1>3, <1>7, <1>8, <1>9, <1>10, <1>11, <1>12 DEF Next, vars, central

(* However late it is handled, no packet makes a revoked node look alive.      *)
THEOREM RevokedIsSilent == Spec => RevokedSilent
<1> DEFINE Silent == \A i \in Revoked \cap mem.stored \cap mem'.stored :
                       mem'.contact[i] = "fresh" => mem.contact[i] \in {"fresh", "none",
              "future"}
<1>1. Typed /\ SavedInv /\ FamilyInv /\ [Next]_vars => [Silent]_vars
  BY NextContacts
<1> QED BY <1>1, FamilyInvariant, PTL DEF Spec, RevokedSilent

-----------------------------------------------------------------------------
(* What an operation under a revoked identity removes is revoked: there are no  *)
(* chains of merges, so it is the node itself or archived in it.                *)
LEMMA RevokedFamily ==
  ASSUME Typed, FamilyInv, NEW id \in Revoked
  PROVE  journal[id].ids \subseteq Revoked
<1>1. PICK j \in Ids : journal[j].status = "removed" /\ id \in journal[j].ids
  BY DEF Revoked, Removed
<1>2. id \in Ids
  BY <1>1 DEF Typed, TypeCentral, Op
<1>3. CASE id = j
  BY <1>1, <1>3 DEF Revoked, Removed
<1>4. CASE id # j
  <2>1. cfg[id] = j /\ j # NoId
    BY <1>1, <1>4, StoreAssumption DEF FamilyInv, OneGroup
  <2>2. \A k \in journal[id].ids : k = id \/ cfg[k] = id
    BY <1>2 DEF FamilyInv, OneGroup
  <2>3. journal[id].ids \subseteq Ids
    BY <1>2 DEF Typed, TypeCentral, Op
  <2>4. \A k \in Ids : cfg[k] # id
    BY <1>2, <2>1, StoreAssumption DEF FamilyInv, Flat
  <2> QED BY <2>2, <2>3, <2>4
<1> QED BY <1>3, <1>4

LEMMA NextForgets ==
  ASSUME Typed, SavedInv, JournalInv, FamilyInv, [Next]_vars, NEW i \in disk.stored \ disk'.stored
  PROVE  i \in Revoked' \/ mem.contact[Canonical(mem, i)] = "stale"
<1> DEFINE Goal == i \in Revoked' \/ mem.contact[Canonical(mem, i)] = "stale"
<1>1. mem \in Store /\ disk \in Store /\ i \in Ids /\ (up => i \in mem.stored)
  BY DEF Typed, TypeCentral, Store, SavedInv
<1>2. Revoked \subseteq Revoked'
  BY NextJournalStep, JournalInductive
<1>3. disk'.stored # disk.stored
  OBVIOUS
<1>4. ASSUME NEW s, up, mem.stored \subseteq s.stored, Flushed(s) \/ FlushRefused(s) PROVE FALSE
  BY <1>1, <1>4 DEF Flushed, FlushRefused
<1>5. ASSUME NEW D, up, Purge(D) PROVE i \in D
  BY <1>1, <1>3, <1>5 DEF Purge, Without
<1>6. ASSUME NEW id \in Ids, NEW op, up, op.status = "removed", SaveAndPurge(id, op) PROVE Goal
  <2>1. CASE Purge(op.ids) /\ journal' = [journal EXCEPT ![id] = op]
    <3>1. journal'[id] = op
      BY <2>1 DEF Typed, TypeCentral
    <3> QED BY <1>5, <1>6, <2>1, <3>1 DEF Revoked, Removed
  <2> QED BY <1>3, <1>6, <2>1 DEF SaveAndPurge
<1>7. CASE CentralNext
  <2>1. CASE Start
    <3>1. Configured.stored = disk.stored
      BY ConfiguredAliases DEF Typed, TypeCentral
    <3>2. \E D \in SUBSET Revoked : disk' = Without(Configured, D)
      <4>1. CASE disk' = AfterJournal(Configured)
        BY <4>1 DEF AfterJournal
      <4>2. ASSUME NEW done \in SUBSET Removed,
                   disk' = Without(Configured, UNION {journal[j].ids : j \in done})
            PROVE  \E D \in SUBSET Revoked : disk' = Without(Configured, D)
        BY <4>2 DEF Revoked
      <4> QED BY <1>3, <2>1, <4>1, <4>2 DEF Start
    <3> QED BY <1>2, <3>1, <3>2 DEF Without
  <2>2. CASE Expire
    <3> DEFINE seen == Observed(mem)
               gone == ExpiredFamilies(mem)
    <3>1. seen.stored = mem.stored /\ up
      BY <1>1, <2>2 DEF Observed, Store, Expire
    <3>2. ~Flushed(seen) /\ ~FlushRefused(seen)
      BY <1>4, <3>1
    <3>3. disk' = Without(seen, gone)
      BY <1>3, <2>2, <3>2 DEF Expire, SaveOrUndo
    <3>4. i \in gone
      BY <1>1, <3>1, <3>3 DEF Without
    <3>5. i \in Expired(mem) \/ mem.alias[i] \in Expired(mem)
      BY <3>4 DEF ExpiredFamilies
    <3>6. \A k \in Expired(mem) : k \in Ids /\ mem.alias[k] = NoId /\ mem.contact[k] = "stale"
      BY <1>1 DEF Expired, Listed, Store
    <3> QED BY <3>5, <3>6, StoreAssumption DEF Canonical
  <2> QED BY <1>3, <1>4, <1>7, <2>1, <2>2 DEF CentralNext, Stop, Flush
<1>8. CASE MetricNext
  <2>1. ASSUME NEW r \in reqs, BindServerKey(r) PROVE FALSE
    <3>1. [mem EXCEPT !.key[r.id] = r.m].stored = mem.stored
      BY <1>1 DEF Store
    <3> QED BY <1>3, <1>4, <2>1, <3>1 DEF BindServerKey
  <2> QED BY <1>3, <1>8, <2>1 DEF MetricNext, SendMetric, GiveUp, Lookup, RecordContact,
              Receive, central
<1>9. CASE RegisterNext
  <2>1. ASSUME NEW m \in Machines, NEW id \in Ids PROVE mem.stored \subseteq Added(mem, id, m).stored
    BY <1>1 DEF Added, Store
  <2> QED BY <1>3, <1>4, <1>9, <2>1 DEF RegisterNext, LeaveRegistration, RegisterKnown,
              RegisterNew,
                                        Registering, central
<1>10. CASE TimeNext
  BY <1>1, <1>3, <1>10 DEF TimeNext, ClockSetBack, SetBack, Age, Lapse, Store
<1>11. CASE OperatorNext
  <2>1. ASSUME NEW id \in Ids, FinishRemoval(id) PROVE Goal
    BY <1>2, <1>5, <2>1, RevokedFamily DEF FinishRemoval, RemovalStep
  <2>2. ASSUME NEW id \in Ids, RemoveFromList(id) PROVE Goal
    <3> DEFINE op == [NoOp EXCEPT !.status = "removed", !.ids = RemovalFamily(mem, id)]
    <3>1. op.status = "removed"
      BY DEF NoOp
    <3>2. SaveAndPurge(id, op) /\ up
      BY <2>2 DEF RemoveFromList, RemovalStep
    <3> HIDE DEF op
    <3> QED BY <1>6, <3>1, <3>2
  <2> QED BY <1>3, <1>11, <2>1, <2>2 DEF OperatorNext, RequestUninstall, Reinstall, Wipe,
              Merge, central
<1>12. CASE HelperNext
  <2>1. ASSUME NEW a \in acts PROVE a.id \in Ids /\ journal[a.id] \in Op
    BY DEF Typed, TypeNetwork, TypeCentral, Action
  <2>2. ASSUME NEW a \in acts, Complete(a) PROVE Goal
    <3> DEFINE op == [journal[a.id] EXCEPT !.status = "removed", !.live = FALSE]
    <3>1. op.status = "removed"
      BY <2>1 DEF Op
    <3>2. SaveAndPurge(a.id, op) /\ up
      BY <2>2 DEF Complete, ActionStep
    <3> HIDE DEF op
    <3> QED BY <1>6, <2>1, <3>1, <3>2
  <2>3. ASSUME NEW a \in acts, Confirm(a) PROVE Goal
    <3>1. journal[a.id].ids \subseteq Revoked
      BY <2>1, <2>3 DEF Confirm, Revoked, Removed
    <3> QED BY <1>2, <1>5, <2>3, <3>1 DEF Confirm, ActionStep
  <2> QED BY <1>3, <1>12, <2>2, <2>3 DEF HelperNext, HelperStart, HelperTimeout, Preflight,
              Cleanup,
                                         Refuse, Poll, Decide, central
<1> QED BY <1>3, <1>7, <1>8, <1>9, <1>10, <1>11, <1>12 DEF Next, vars, central

(* No saved identity is lost to a fault, a stop, a merge or someone else's        *)
(* removal.                                                                       *)
THEOREM NothingIsForgotten == Spec => ForgottenForAReason
<1> DEFINE Reasoned == \A i \in disk.stored \ disk'.stored :
                         i \in Revoked' \/ mem.contact[Canonical(mem, i)] = "stale"
<1>1. Typed /\ SavedInv /\ JournalInv /\ FamilyInv /\ [Next]_vars => [Reasoned]_vars
  BY NextForgets
<1> QED BY <1>1, JournalInvariant, FamilyInvariant, PTL DEF Spec, ForgottenForAReason

-----------------------------------------------------------------------------
(* A request whose helper still waits is the one exchange of that helper.     *)
Awaits(a) == /\ helper[a.m].ph = a.phase /\ helper[a.m].id = a.id
             /\ helper[a.m].nonce = a.nonce
ExchangeInv == \A a \in acts : a.live => Awaits(a)

LEMMA OneExchange ==
  ASSUME Typed, ExchangeInv, NEW a \in acts, NEW b \in acts, a.live, b.live, a.m = b.m
  PROVE  a = b
<1>1. a \in Action /\ b \in Action
  BY DEF Typed, TypeNetwork
<1>2. a.id = b.id /\ a.nonce = b.nonce /\ a.phase = b.phase
  BY DEF ExchangeInv, Awaits
<1> QED BY <1>1, <1>2 DEF Action

(* A helper that is between two exchanges begins one. *)
LEMMA ExchangeKeeps ==
  ASSUME Typed, ExchangeInv, NEW m \in Machines, helper[m].ph \notin Phase,
         NEW ph, NEW tries, NEW id, NEW nonce, Exchange(m, ph, tries, id, nonce)
  PROVE  ExchangeInv'
<1> SUFFICES ASSUME NEW a \in acts', a.live PROVE Awaits(a)'
  BY DEF ExchangeInv
<1>1. helper \in [Machines -> Helper] /\ acts \subseteq Action
  BY DEF Typed, TypeNodes, TypeNetwork
<1> DEFINE new == [m |-> m, id |-> id, nonce |-> nonce, phase |-> ph, live |-> TRUE]
<1>2. CASE a = new
  BY <1>1, <1>2 DEF Exchange, Awaits
<1>3. CASE a \in acts
  <2>1. a \in Action /\ helper[a.m].ph = a.phase /\ Awaits(a)
    BY <1>1, <1>3 DEF ExchangeInv, Awaits
  <2>2. a.m # m
    BY <2>1 DEF Action
  <2>3. helper'[a.m] = helper[a.m]
    BY <1>1, <2>1, <2>2 DEF Exchange, Action
  <2> QED BY <2>1, <2>3 DEF Awaits
<1> QED BY <1>2, <1>3 DEF Exchange

LEMMA BegunAwaits ==
  ASSUME NEW m, NEW h, NEW a \in Begun(m, h)
  PROVE  a.m = m /\ a.phase = h.ph /\ a.id = h.id /\ a.nonce = h.nonce
BY DEF Begun

(* What a helper does next is kept when the machine's other requests are dead. *)
LEMMA NextExchangeKeeps ==
  ASSUME Typed, ExchangeInv, NEW m \in Machines, NEW h \in Helper,
         helper' = [helper EXCEPT ![m] = h],
         \A a \in acts' : a.live => a \in Begun(m, h) \/ (a \in acts /\ a.m # m)
  PROVE  ExchangeInv'
<1> SUFFICES ASSUME NEW a \in acts', a.live PROVE Awaits(a)'
  BY DEF ExchangeInv
<1>1. helper \in [Machines -> Helper] /\ acts \subseteq Action
  BY DEF Typed, TypeNodes, TypeNetwork
<1>2. CASE a \in Begun(m, h)
  BY <1>1, <1>2, BegunAwaits DEF Awaits
<1>3. CASE a \in acts /\ a.m # m
  <2>1. helper'[a.m] = helper[a.m]
    BY <1>1, <1>3 DEF Action
  <2> QED BY <1>3, <2>1 DEF ExchangeInv, Awaits
<1> QED BY <1>2, <1>3

LEMMA OutcomeKeeps ==
  ASSUME Typed, ExchangeInv, NEW a \in acts, NEW ok \in BOOLEAN, Outcome(a, ok, acts \ {a})
  PROVE  ExchangeInv'
<1>1. a \in Action
  BY DEF Typed, TypeNetwork
<1>2. CASE a.live
  <2>1. a.m \in Machines /\ helper[a.m].ph \in Phase
    BY <1>1, <1>2 DEF Action, ExchangeInv, Awaits
  <2>2. Went(a.m, ok) \in Helper
    BY <2>1, WentTypes DEF Typed
  <2>3. ASSUME NEW b \in acts', b.live
        PROVE  b \in Begun(a.m, Went(a.m, ok)) \/ (b \in acts /\ b.m # a.m)
    BY <1>2, <2>3, OneExchange DEF Outcome
  <2>4. helper' = [helper EXCEPT ![a.m] = Went(a.m, ok)]
    BY <1>2 DEF Outcome
  <2> QED BY <2>1, <2>2, <2>3, <2>4, NextExchangeKeeps
<1>3. CASE ~a.live
  BY <1>3 DEF Outcome, ExchangeInv, Awaits
<1> QED BY <1>2, <1>3

LEMMA TimeoutKeeps ==
  ASSUME Typed, ExchangeInv, NEW m \in Machines, HelperTimeout(m)
  PROVE  ExchangeInv'
<1> DEFINE mine == {a \in acts : a.m = m /\ a.live}
           late == {[a EXCEPT !.live = FALSE] : a \in mine}
<1>1. /\ helper[m].ph \in Phase /\ helper' = [helper EXCEPT ![m] = Went(m, FALSE)]
      /\ \E rest \in {acts \ mine, (acts \ mine) \cup late} :
           acts' = rest \cup (IF up THEN Begun(m, Went(m, FALSE)) ELSE {})
  BY DEF HelperTimeout
<1>2. Went(m, FALSE) \in Helper
  BY <1>1, WentTypes DEF Typed
<1>3. \A a \in late : ~a.live
  BY DEF Typed, TypeNetwork, Action
<1>4. ASSUME NEW a \in acts', a.live
      PROVE  a \in Begun(m, Went(m, FALSE)) \/ (a \in acts /\ a.m # m)
  BY <1>1, <1>3, <1>4
<1> QED BY <1>1, <1>2, <1>4, NextExchangeKeeps

LEMMA ExchangeInductive == Typed /\ ExchangeInv /\ [Next]_vars => ExchangeInv'
<1> SUFFICES ASSUME Typed, ExchangeInv, [Next]_vars PROVE ExchangeInv'
  OBVIOUS
<1>1. ASSUME UNCHANGED helper, acts' \subseteq acts PROVE ExchangeInv'
  BY <1>1 DEF ExchangeInv, Awaits
<1>2. CASE CentralNext \/ MetricNext \/ RegisterNext \/ TimeNext
  BY <1>1, <1>2 DEF CentralNext, Stop, Stopped, Start, Flush, Expire, MetricNext, SendMetric,
              GiveUp,
              Lookup, RecordContact, BindServerKey, Receive, RegisterNext, LeaveRegistration, RegisterKnown, RegisterNew, Registering,
              TimeNext, ClockSetBack, Age, Lapse, network, nodeside
<1>3. CASE OperatorNext
  BY <1>1, <1>3 DEF OperatorNext, FinishRemoval, RemoveFromList, SaveAndPurge, Stopped,
              RequestUninstall,
              RemovalStep, Reinstall, Wipe, Merge, network, nodeside
<1>4. CASE HelperNext
  <2>1. ASSUME NEW m \in Machines, HelperStart(m) \/ Preflight(m) \/ Cleanup(m) PROVE ExchangeInv'
    <3>1. helper[m].ph \notin Phase
      BY <2>1 DEF HelperStart, Preflight, Cleanup, Idle, Phase
    <3> QED BY <2>1, <3>1, ExchangeKeeps DEF HelperStart, Preflight, Cleanup
  <2>2. ASSUME NEW a \in acts, Complete(a) PROVE ExchangeInv'
    <3>1. CASE up'
      BY <2>2, <3>1, OutcomeKeeps DEF Complete
    <3>2. CASE ~up'
      <4>1. acts' = {}
        BY <2>2, <3>2 DEF Complete, ActionStep, SaveAndPurge, Stopped
      <4> QED BY <4>1 DEF ExchangeInv
    <3> QED BY <3>1, <3>2
  <2>3. ASSUME NEW a \in acts, Refuse(a) \/ Poll(a) \/ Decide(a) \/ Confirm(a) PROVE ExchangeInv'
    BY <2>3, OutcomeKeeps DEF Refuse, Poll, Decide, Confirm
  <2> QED BY <1>4, <2>1, <2>2, <2>3, TimeoutKeeps DEF HelperNext
<1>5. CASE UNCHANGED vars
  BY <1>1, <1>5 DEF vars, network, nodeside
<1> QED BY <1>2, <1>3, <1>4, <1>5 DEF Next

(* The only way to the cleanup is an accepted "accept". *)
LEMMA WentCleaning ==
  ASSUME Typed, NEW m \in Machines, NEW ok \in BOOLEAN,
         Went(m, ok).ph = "cleaning", helper[m].ph # "cleaning"
  PROVE  helper[m].ph = "accept" /\ ok
<1> DEFINE h == helper[m]
<1>1. h \in Helper
  BY DEF Typed, TypeNodes
<1>2. \/ h.ph = "accept" /\ ok
      \/ Went(m, ok) \in {Idle, [h EXCEPT !.ph = "checked"], [h EXCEPT !.ph = "failed"],
                          [h EXCEPT !.tries = @ + 1]}
  BY DEF Went
<1>3. /\ Idle.ph = "idle" /\ [h EXCEPT !.ph = "checked"].ph = "checked"
      /\ [h EXCEPT !.ph = "failed"].ph = "failed" /\ [h EXCEPT !.tries = @ + 1].ph = h.ph
  BY <1>1 DEF Helper, Idle
<1> QED BY <1>2, <1>3

LEMMA NextCleaning ==
  ASSUME Typed, ExchangeInv, [Next]_vars, NEW m \in Machines,
         helper[m].ph # "cleaning", helper'[m].ph = "cleaning"
  PROVE  journal'[helper[m].id].status = "accepted" /\ journal'[helper[m].id].nonce = helper[m].nonce
<1> DEFINE Goal == /\ journal'[helper[m].id].status = "accepted"
                   /\ journal'[helper[m].id].nonce = helper[m].nonce
<1>1. helper \in [Machines -> Helper] /\ acts \subseteq Action /\ journal \in [Ids -> Op] /\ faults \in Nat
  BY DEF Typed, TypeNodes, TypeNetwork, TypeCentral, TypeBounds
<1>2. ~UNCHANGED helper
  OBVIOUS
<1>3. ASSUME NEW a \in acts, NEW ok \in BOOLEAN, Outcome(a, ok, acts \ {a})
      PROVE  /\ a.live /\ a.m = m /\ a.phase = "accept" /\ ok
             /\ a.id = helper[m].id /\ a.nonce = helper[m].nonce
  <2>1. a.live /\ helper' = [helper EXCEPT ![a.m] = Went(a.m, ok)] /\ a.m \in Machines
    BY <1>1, <1>2, <1>3 DEF Outcome, Action
  <2>2. a.m = m /\ Went(m, ok).ph = "cleaning"
    BY <1>1, <2>1
  <2> QED BY <2>1, <2>2, WentCleaning DEF ExchangeInv, Awaits
<1>4. CASE CentralNext \/ MetricNext \/ RegisterNext \/ TimeNext
  BY <1>2, <1>4 DEF CentralNext, Stop, Start, Flush, Expire, MetricNext, SendMetric, GiveUp,
              Lookup,
              RecordContact, BindServerKey, Receive, RegisterNext, LeaveRegistration, RegisterKnown, RegisterNew, Registering,
              TimeNext, ClockSetBack, Age, Lapse, nodeside
<1>5. CASE OperatorNext
  BY <1>2, <1>5 DEF OperatorNext, FinishRemoval, RemoveFromList, RequestUninstall, RemovalStep,
              Reinstall, Wipe, Merge, nodeside
<1>6. CASE HelperNext
  <2>1. ASSUME NEW n \in Machines, HelperStart(n) \/ Preflight(n) \/ Cleanup(n) PROVE FALSE
    <3>1. \E ph \in Phase : \E tries, id, nonce : Exchange(n, ph, tries, id, nonce)
      BY <2>1 DEF HelperStart, Preflight, Cleanup, Phase
    <3> QED BY <1>1, <3>1 DEF Exchange, Phase
  <2>2. ASSUME NEW n \in Machines, HelperTimeout(n) PROVE FALSE
    <3>1. helper' = [helper EXCEPT ![n] = Went(n, FALSE)]
      BY <2>2 DEF HelperTimeout
    <3>2. n = m /\ Went(m, FALSE).ph = "cleaning"
      BY <1>1, <3>1
    <3> QED BY <3>2, WentCleaning
  <2>3. ASSUME NEW a \in acts, Decide(a) PROVE Goal
    <3> DEFINE saved == faults' = faults
               op == IF a.phase = "accept"
                     THEN [journal[a.id] EXCEPT !.status = "accepted", !.live = TRUE]
                     ELSE [journal[a.id] EXCEPT !.status = "failed"]
    <3>1. /\ a.live /\ a.m = m /\ a.phase = "accept" /\ saved
          /\ a.id = helper[m].id /\ a.nonce = helper[m].nonce
      BY <1>3, <2>3 DEF Decide
    <3>2. a.id \in Ids /\ journal[a.id] \in Op /\ journal[a.id].nonce = a.nonce
      BY <1>1, <2>3 DEF Decide, Known, Action
    <3>3. op.status = "accepted" /\ op.nonce = a.nonce
      BY <3>1, <3>2 DEF Op
    <3>4. SaveOp(a.id, op)
      BY <2>3 DEF Decide
    <3> HIDE DEF op
    <3>5. journal' = [journal EXCEPT ![a.id] = op]
      BY <1>1, <3>1, <3>4 DEF SaveOp, Fault
    <3> QED BY <1>1, <3>1, <3>2, <3>3, <3>5
  <2>4. ASSUME NEW a \in acts, Refuse(a) \/ Poll(a) \/ Complete(a) \/ Confirm(a) PROVE FALSE
    <3>1. CASE Refuse(a)
      BY <1>3, <3>1 DEF Refuse
    <3>2. CASE Poll(a)
      BY <1>3, <3>2 DEF Poll
    <3>3. CASE Complete(a)
      BY <1>2, <1>3, <3>3 DEF Complete
    <3>4. CASE Confirm(a)
      BY <1>3, <3>4 DEF Confirm
    <3> QED BY <2>4, <3>1, <3>2, <3>3, <3>4
  <2> QED BY <1>6, <2>1, <2>2, <2>3, <2>4 DEF HelperNext
<1> QED BY <1>2, <1>4, <1>5, <1>6 DEF Next, vars, nodeside

(* At any time a helper waits for one exchange at most, and only with what it     *)
(* asked is that exchange answered.                                               *)
THEOREM ExchangeInvariant == Spec => [](Typed /\ ExchangeInv)
<1>1. Init => ExchangeInv
  BY DEF Init, ExchangeInv
<1> QED BY <1>1, InitTyped, NextTyped, ExchangeInductive, PTL DEF Spec

(* No machine is cleaned on an answer that was not saved first, nor under another  *)
(* operation than the one its helper was told to carry out.                        *)
THEOREM CleaningIsRecorded == Spec => CleaningIsOnRecord
<1> DEFINE Recorded ==
      \A m \in Machines :
        helper[m].ph # "cleaning" /\ helper'[m].ph = "cleaning"
          => /\ journal'[helper[m].id].status = "accepted"
             /\ journal'[helper[m].id].nonce = helper[m].nonce
<1>1. Typed /\ ExchangeInv /\ [Next]_vars => [Recorded]_vars
  BY NextCleaning
<1> QED BY <1>1, ExchangeInvariant, PTL DEF Spec, CleaningIsOnRecord

-----------------------------------------------------------------------------
(* Machine keys.  Two stored identities with one key are of one group: one is   *)
(* archived into the other.  It is this, and not KeyUnique, that survives the   *)
(* binding of a key to a node whose old identities are archived.                *)
KeyPairs(s) ==
  \A i, j \in s.stored :
    i # j /\ s.key[i] = s.key[j] /\ s.key[i] # NoKey => s.alias[i] = j \/ s.alias[j] = i

KeyInv == KeyPairs(mem) /\ KeyPairs(disk)

LEMMA AlikePairs ==
  ASSUME NEW s, NEW t, Alike(s, t), KeyPairs(t)
  PROVE  KeyPairs(s)
BY DEF Alike, KeyPairs

LEMMA WithoutPairs ==
  ASSUME NEW s \in Store, NEW D, KeyPairs(s)
  PROVE  KeyPairs(Without(s, D))
<1> DEFINE t == Without(s, D)
<1>1. /\ t.stored = s.stored \ D /\ s.stored \subseteq Ids
      /\ \A i \in Ids \ D : t.key[i] = s.key[i] /\ (s.alias[i] \notin D => t.alias[i] = s.alias[i])
  BY WithoutAliases DEF Store
<1> HIDE DEF t
<1>2. ASSUME NEW i \in t.stored, NEW j \in t.stored, i # j, t.key[i] = t.key[j],
              t.key[i] # NoKey
      PROVE  t.alias[i] = j \/ t.alias[j] = i
  <2>1. i \in s.stored \ D /\ j \in s.stored \ D /\ s.key[i] = s.key[j] /\ s.key[i] # NoKey
    BY <1>1, <1>2
  <2>2. s.alias[i] = j \/ s.alias[j] = i
    BY <1>2, <2>1 DEF KeyPairs
  <2> QED BY <1>1, <2>1, <2>2
<1>3. KeyPairs(t)
  BY <1>2 DEF KeyPairs
<1> QED BY <1>3 DEF t

(* The aliases that hold a group together are in the configuration already. *)
LEMMA ConfiguredPairs ==
  ASSUME Typed, FamilyInv, KeyPairs(disk)
  PROVE  KeyPairs(Configured)
<1>1. /\ disk \in Store /\ cfg \in Aliases /\ disk.stored \subseteq Ids
      /\ Configured.stored = disk.stored /\ Configured.key = disk.key
  BY ConfiguredAliases DEF Typed, TypeCentral, Store
<1>2. ASSUME NEW i \in disk.stored, disk.alias[i] # NoId PROVE Configured.alias[i] = disk.alias[i]
  BY <1>1, <1>2, ConfiguredAliases DEF FamilyInv, OfConfig
<1> QED BY <1>1, <1>2, StoreAssumption DEF KeyPairs

LEMMA EnrolledPairs ==
  ASSUME Typed, KeyPairs(mem), NEW m \in Machines, NEW id \in Ids, KeyOwners(mem, m) = {}
  PROVE  KeyPairs(Added(mem, id, m))
<1> DEFINE t == Added(mem, id, m)
<1>1. /\ t.stored = mem.stored \cup {id} /\ t.alias = mem.alias /\ t.key[id] = m
      /\ \A i \in Ids \ {id} : t.key[i] = mem.key[i]
      /\ mem.stored \subseteq Ids
  BY DEF Typed, TypeCentral, Added, Store
<1>2. \A i \in mem.stored : mem.key[i] # m
  BY DEF KeyOwners
<1> HIDE DEF t
<1>3. KeyPairs(t)
  BY <1>1, <1>2 DEF KeyPairs
<1> QED BY <1>3 DEF t

LEMMA BoundPairs ==
  ASSUME Typed, KeyPairs(mem), NEW m \in Machines, NEW id \in Ids,
         mem.alias[id] = NoId, mem.key[id] = NoKey,
         \A o \in KeyOwners(mem, m) : Canonical(mem, o) = id
  PROVE  KeyPairs([mem EXCEPT !.key[id] = m])
<1> DEFINE t == [mem EXCEPT !.key[id] = m]
<1>1. /\ t.stored = mem.stored /\ t.alias = mem.alias /\ t.key[id] = m
      /\ \A i \in Ids \ {id} : t.key[i] = mem.key[i]
      /\ mem.stored \subseteq Ids /\ m # NoKey
  BY LifecycleAssumption, StoreAssumption DEF Typed, TypeCentral, Store
<1> HIDE DEF t
<1>2. ASSUME NEW i \in mem.stored, i # id, t.key[i] = m PROVE t.alias[i] = id
  <2>1. i \in KeyOwners(mem, m)
    BY <1>1, <1>2 DEF KeyOwners
  <2> QED BY <1>1, <1>2, <2>1 DEF Canonical
<1>3. ASSUME NEW i \in t.stored, NEW j \in t.stored, i # j, t.key[i] = t.key[j],
              t.key[i] # NoKey
      PROVE  t.alias[i] = j \/ t.alias[j] = i
  <2>1. CASE i = id \/ j = id
    BY <1>1, <1>2, <1>3, <2>1
  <2>2. CASE i # id /\ j # id
    BY <1>1, <1>3, <2>2 DEF KeyPairs
  <2> QED BY <2>1, <2>2
<1>4. KeyPairs(t)
  BY <1>3 DEF KeyPairs
<1> QED BY <1>4 DEF t

LEMMA KeyInductive == Typed /\ FamilyInv /\ KeyInv /\ [Next]_vars => KeyInv'
<1> SUFFICES ASSUME Typed, FamilyInv, KeyInv, [Next]_vars PROVE KeyPairs(mem') /\ KeyPairs(disk')
  BY DEF KeyInv, KeyPairs
<1>1. StoreStep /\ mem \in Store /\ disk \in Store /\ Configured \in Store
  BY NextStoreStep, ConfiguredType DEF Typed, TypeCentral
<1>2. KeyPairs(mem) /\ KeyPairs(disk) /\ KeyPairs(Configured)
  BY ConfiguredPairs DEF KeyInv
<1>3. \A D : KeyPairs(Without(mem, D)) /\ KeyPairs(Without(Configured, D))
  BY <1>1, <1>2, WithoutPairs
<1>4. CASE Still
  BY <1>2, <1>4, AlikePairs DEF Still
<1>5. CASE Cleared
  BY <1>3, <1>5, AlikePairs DEF Cleared
<1>6. CASE Downed
  <2>1. KeyPairs(EmptyStore)
    BY DEF KeyPairs, EmptyStore
  <2> QED BY <1>2, <1>6, <2>1, AlikePairs DEF Downed
<1>7. CASE Resumed
  BY <1>3, <1>7 DEF Resumed, AfterJournal
<1>8. CASE Aborted
  BY <1>2, <1>3, <1>8 DEF Aborted
<1>9. CASE Enrolled
  BY <1>2, <1>9, EnrolledPairs DEF Enrolled
<1>10. CASE Bound
  BY <1>2, <1>10, BoundPairs DEF Bound
<1> QED BY <1>1, <1>4, <1>5, <1>6, <1>7, <1>8, <1>9, <1>10 DEF StoreStep

LEMMA InitKeys == Init => KeyInv
<1>1. ASSUME NEW i \in Ids, InitialStore.key[i] # NoKey
      PROVE  InitialStore.key[i] \in Machines /\ Installed[InitialStore.key[i]] = i
  <2>1. i \notin Legacy /\ \E m \in Machines : Installed[m] = i
    BY <1>1 DEF InitialStore
  <2>2. InitialStore.key[i] = CHOOSE m \in Machines : Installed[m] = i
    BY <2>1 DEF InitialStore
  <2> QED BY <2>1, <2>2
<1>2. InitialStore.stored \subseteq Ids
  BY InitialStoreType DEF Store
<1>3. KeyPairs(InitialStore)
  BY <1>1, <1>2 DEF KeyPairs
<1> QED BY <1>3 DEF Init, KeyInv

(* One machine is one listed server: registration by key, binding of keys and    *)
(* merging, in any order and over any stops, never list two nodes with one key.   *)
THEOREM KeysAreUnique == Spec => []KeyUnique
<1>1. Typed /\ KeyInv => KeyUnique
  BY StoreAssumption DEF Typed, TypeCentral, Store, KeyInv, KeyPairs, KeyUnique, Listed
<1>2. Typed /\ FamilyInv /\ KeyInv /\ [Next]_vars => KeyInv'
  BY KeyInductive
<1> QED BY <1>1, <1>2, InitKeys, FamilyInvariant, PTL DEF Spec

-----------------------------------------------------------------------------
(* Before the first merge.  A group of the initial configuration is stored and    *)
(* removed as a whole, and its aliases are those of the configuration.  A merge   *)
(* ends this: an operation that was recorded before it does not name what was     *)
(* merged since.                                                                  *)
Whole(D) == \A i \in Ids : Merged[i] # NoId => (i \in D <=> Merged[i] \in D)
Grouped(s) == /\ Whole(s.stored)
              /\ \A i \in s.stored : Merged[i] # NoId => s.alias[i] = Merged[i]

GroupInv ==
  /\ \A i \in Ids : Merged[i] # NoId => i \in used /\ Merged[i] \in used
  /\ merges = 0 => /\ cfg = Merged /\ Grouped(mem) /\ Grouped(disk)
                   /\ \A i \in Ids : Whole(journal[i].ids)

LEMMA NextMerges ==
  Typed /\ [Next]_vars
    => \/ merges' = merges /\ cfg' = cfg
       \/ merges < MaxMerges /\ merges' = merges + 1
<1> DEFINE Goal == \/ merges' = merges /\ cfg' = cfg
                   \/ merges < MaxMerges /\ merges' = merges + 1
<1> SUFFICES ASSUME Typed, [Next]_vars PROVE Goal
  OBVIOUS
<1>2. CASE CentralNext \/ MetricNext \/ RegisterNext \/ TimeNext
  BY <1>2 DEF CentralNext, Stop, Start, Flush, Expire, MetricNext, SendMetric, GiveUp, Lookup,
              RecordContact, BindServerKey, Receive, RegisterNext, LeaveRegistration,
              RegisterKnown, RegisterNew, Registering,
              TimeNext, ClockSetBack, Age, Lapse, central, bounds
<1>3. CASE OperatorNext
  <2>1. ASSUME NEW id \in Ids, FinishRemoval(id) \/ RemoveFromList(id) \/ RequestUninstall(id)
        PROVE  Goal
    <3>1. RemovalStep
      BY <2>1 DEF FinishRemoval, RemoveFromList, RequestUninstall
    <3> QED BY <3>1 DEF RemovalStep, bounds
  <2>2. ASSUME NEW m \in Machines, Reinstall(m) PROVE Goal
    BY <2>2 DEF Reinstall, central, bounds
  <2>3. ASSUME NEW m \in Machines, Wipe(m) PROVE Goal
    BY <2>3 DEF Wipe, central
  <2>4. ASSUME NEW from \in Ids, NEW to \in Ids, Merge(from, to) PROVE Goal
    BY <2>4 DEF Merge
  <2> QED BY <1>3, <2>1, <2>2, <2>3, <2>4 DEF OperatorNext
<1>4. CASE HelperNext
  BY <1>4 DEF HelperNext, HelperStart, HelperTimeout, Preflight, Cleanup, Refuse, Poll, Decide,
              Complete, Confirm, ActionStep, central, bounds
<1>5. CASE UNCHANGED vars
  BY <1>5 DEF vars, central, bounds
<1> QED BY <1>2, <1>3, <1>4, <1>5 DEF Next

LEMMA WithoutGrouped ==
  ASSUME NEW s \in Store, NEW D, Grouped(s), Whole(D)
  PROVE  Grouped(Without(s, D))
<1> DEFINE t == Without(s, D)
<1>1. /\ t.stored = s.stored \ D /\ s.stored \subseteq Ids
      /\ \A i \in Ids : i \notin D /\ s.alias[i] \notin D => t.alias[i] = s.alias[i]
  BY WithoutAliases DEF Store
<1> HIDE DEF t
<1>2. Grouped(t)
  BY <1>1 DEF Grouped, Whole
<1> QED BY <1>2 DEF t

(* The family of a listed node, and what Expire removes, are whole. *)
LEMMA RemovalIsWhole ==
  ASSUME Typed, SavedInv, Grouped(mem), \A i \in Ids : Whole(journal[i].ids),
         NEW D, Removal(D)
  PROVE  Whole(D)
<1>1. /\ mem \in Store /\ mem.stored \subseteq Ids /\ Merged \in [Ids -> Ids \cup {NoId}]
      /\ \A i \in Ids : mem.alias[i] \in Ids \cup {NoId}
  BY LifecycleAssumption DEF Typed, TypeCentral, Store
<1>2. ASSUME NEW i \in Ids, Merged[i] # NoId, i \in mem.stored \/ Merged[i] \in mem.stored
      PROVE  /\ mem.alias[i] = Merged[i] /\ mem.alias[Merged[i]] = NoId
             /\ {i, Merged[i]} \subseteq mem.stored
  BY <1>1, <1>2 DEF Grouped, Whole, SavedInv, Sound
<1>3. ASSUME NEW id \in Ids PROVE Whole(RemovalFamily(mem, id))
  <2> SUFFICES ASSUME NEW i \in Ids, Merged[i] # NoId
               PROVE  i \in RemovalFamily(mem, id) <=> Merged[i] \in RemovalFamily(mem, id)
    BY DEF Whole
  <2>1. ASSUME i \in RemovalFamily(mem, id) PROVE Merged[i] \in RemovalFamily(mem, id)
    <3>1. id \in mem.stored /\ mem.alias[id] = NoId /\ (i = id \/ mem.alias[i] = id)
      BY <2>1 DEF RemovalFamily, Listed
    <3>2. i \in mem.stored
      BY <3>1, StoreAssumption DEF SavedInv, Sound
    <3> QED BY <1>2, <2>1, <3>1, <3>2 DEF RemovalFamily
  <2>2. ASSUME Merged[i] \in RemovalFamily(mem, id) PROVE i \in RemovalFamily(mem, id)
    <3>1. id \in mem.stored /\ mem.alias[id] = NoId /\ (Merged[i] = id \/ mem.alias[Merged[i]] = id)
      BY <2>2 DEF RemovalFamily, Listed
    <3>2. Merged[i] \in mem.stored
      BY <1>1, <3>1, StoreAssumption DEF SavedInv, Sound
    <3> QED BY <1>2, <2>2, <3>1, <3>2, StoreAssumption DEF RemovalFamily
  <2> QED BY <2>1, <2>2
<1>4. Whole(ExpiredFamilies(mem))
  <2>1. \A i \in ExpiredFamilies(mem) : i \in mem.stored
    BY DEF ExpiredFamilies, Expired, Listed
  <2>2. \A i \in Expired(mem) : i \in mem.stored /\ mem.alias[i] = NoId
    BY DEF Expired, Listed
  <2> SUFFICES ASSUME NEW i \in Ids, Merged[i] # NoId
               PROVE  i \in ExpiredFamilies(mem) <=> Merged[i] \in ExpiredFamilies(mem)
    BY DEF Whole
  <2>3. ASSUME i \in ExpiredFamilies(mem) PROVE Merged[i] \in ExpiredFamilies(mem)
    BY <1>2, <2>1, <2>2, <2>3 DEF ExpiredFamilies
  <2>4. ASSUME Merged[i] \in ExpiredFamilies(mem) PROVE i \in ExpiredFamilies(mem)
    BY <1>1, <1>2, <2>1, <2>2, <2>4, StoreAssumption DEF ExpiredFamilies
  <2> QED BY <2>3, <2>4
<1> QED BY <1>3, <1>4 DEF Removal

LEMMA GroupStep ==
  ASSUME Typed, SavedInv, FamilyInv, GroupInv, StoreStep, cfg = Merged,
         Grouped(mem), Grouped(disk), \A i \in Ids : Whole(journal[i].ids)
  PROVE  Grouped(mem') /\ Grouped(disk')
<1>1. mem \in Store /\ disk \in Store /\ Loaded \in Store /\ Configured \in Store
  BY ConfiguredType DEF Typed, TypeCentral
<1>2. ASSUME NEW s, NEW t, Alike(s, t), Grouped(t) PROVE Grouped(s)
  BY <1>2 DEF Alike, Grouped
<1>3. Grouped(Configured)
  <2>1. Configured.stored = disk.stored /\ disk.stored \subseteq Ids
    BY <1>1, ConfiguredAliases DEF Typed, TypeCentral, Store
  <2>2. \A i \in disk.stored : Merged[i] # NoId => Configured.alias[i] = Merged[i]
    BY <1>1, ConfiguredAliases DEF Typed, TypeCentral
  <2> QED BY <2>1, <2>2 DEF Grouped
<1>4. \A done \in SUBSET Ids : Whole(UNION {journal[i].ids : i \in done})
  BY DEF Whole
<1>5. \A done \in SUBSET Ids : Grouped(Without(Configured, UNION {journal[i].ids : i \in done}))
  BY <1>1, <1>3, <1>4, WithoutGrouped
<1>6. CASE Still
  BY <1>2, <1>6 DEF Still
<1>7. CASE Cleared
  BY <1>1, <1>2, <1>7, RemovalIsWhole, WithoutGrouped DEF Cleared
<1>8. CASE Downed
  <2>1. Grouped(EmptyStore)
    BY DEF Grouped, Whole, EmptyStore
  <2> QED BY <1>2, <1>8, <2>1 DEF Downed
<1>9. CASE Resumed
  BY <1>5, <1>9 DEF Resumed, AfterJournal, Revoked, Removed
<1>10. CASE Aborted
  BY <1>5, <1>10 DEF Aborted, Removed
<1>11. CASE Enrolled
  <2>1. PICK m \in Machines, id \in Ids \ used : mem' = Added(mem, id, m) /\ disk' \in {disk, mem'}
    BY <1>11 DEF Enrolled
  <2>2. mem'.stored = mem.stored \cup {id} /\ mem'.alias = mem.alias
    BY <1>1, <2>1 DEF Added, Store
  <2>3. Merged[id] = NoId /\ \A i \in Ids : Merged[i] # NoId => Merged[i] # id
    BY <2>1 DEF GroupInv
  <2>4. Grouped(mem')
    BY <2>2, <2>3 DEF Grouped, Whole
  <2> QED BY <2>1, <2>4
<1>12. CASE Bound
  <2>1. mem'.stored = mem.stored /\ mem'.alias = mem.alias
    BY <1>1, <1>12 DEF Bound, Store
  <2>2. Grouped(mem')
    BY <2>1 DEF Grouped
  <2> QED BY <1>12, <2>2 DEF Bound
<1> QED BY <1>6, <1>7, <1>8, <1>9, <1>10, <1>11, <1>12 DEF StoreStep

LEMMA GroupInductive == Typed /\ SavedInv /\ FamilyInv /\ GroupInv /\ [Next]_vars => GroupInv'
<1> SUFFICES ASSUME Typed, SavedInv, FamilyInv, GroupInv, [Next]_vars PROVE GroupInv'
  OBVIOUS
<1>1. \A i \in Ids : Merged[i] # NoId => i \in used' /\ Merged[i] \in used'
  BY NextConfiguration DEF GroupInv
<1>2. ASSUME merges' = 0
      PROVE  cfg' = Merged /\ Grouped(mem') /\ Grouped(disk') /\ \A i \in Ids : Whole(journal'[i].ids)
  <2>1. merges = 0 /\ cfg' = cfg
    BY <1>2, NextMerges DEF Typed, TypeBounds
  <2>2. cfg = Merged /\ Grouped(mem) /\ Grouped(disk) /\ \A i \in Ids : Whole(journal[i].ids)
    BY <2>1 DEF GroupInv
  <2>3. \A i \in Ids : Whole(RemovalFamily(mem, i))
    BY <2>2, RemovalIsWhole DEF Removal
  <2>4. \A i \in Ids : journal'[i].ids \in {journal[i].ids, RemovalFamily(mem, i)}
    BY NextOperationStep DEF OperationStep
  <2>5. \A i \in Ids : Whole(journal'[i].ids)
    BY <2>2, <2>3, <2>4
  <2> QED BY <2>1, <2>2, <2>5, GroupStep, NextStoreStep
<1>3. merges' = 0 => Grouped(mem)' /\ Grouped(disk)' /\ \A i \in Ids : Whole(journal[i].ids)'
  BY <1>2 DEF Grouped, Whole
<1> QED BY <1>1, <1>2, <1>3 DEF GroupInv

LEMMA InitGroups == Init => GroupInv
<1> SUFFICES ASSUME Init PROVE GroupInv
  OBVIOUS
<1>1. \A i \in Ids : Merged[i] # NoId => {i, Merged[i]} \subseteq InitialStore.stored
  BY SettledAssumption DEF AliasesValid
<1>2. InitialStore.stored = InitialIds /\ InitialStore.alias = Merged
  BY DEF InitialStore
<1>3. InitialIds \subseteq Ids
  BY LifecycleAssumption DEF InitialIds
<1>4. Grouped(InitialStore)
  BY <1>1, <1>2 DEF Grouped, Whole
<1>5. \A i \in Ids : Whole(journal[i].ids)
  BY DEF Init, NoOp, Whole
<1> QED BY <1>1, <1>2, <1>4, <1>5 DEF Init, GroupInv

THEOREM GroupInvariant == Spec => [](Typed /\ SavedInv /\ FamilyInv /\ GroupInv)
<1>1. Typed /\ SavedInv /\ FamilyInv /\ GroupInv /\ [Next]_vars => GroupInv'
  BY GroupInductive
<1> QED BY <1>1, InitGroups, FamilyInvariant, PTL DEF Spec

-----------------------------------------------------------------------------
(* How long a merge lasts.  While Central runs, the aliases it works with are     *)
(* the saved ones, and a cleanup drops one only with the node it leads to.        *)
SameAliases == up => mem.alias = disk.alias

LEMMA AliasStep ==
  ASSUME Typed, SameAliases, StoreStep
  PROVE  SameAliases'
<1>1. mem \in Store
  BY DEF Typed, TypeCentral
<1>2. CASE Enrolled \/ Bound
  <2>1. mem'.alias = mem.alias /\ disk' \in {disk, mem'} /\ up
    BY <1>1, <1>2 DEF Enrolled, Bound, Added, Store
  <2> QED BY <2>1 DEF SameAliases
<1> QED BY <1>2 DEF SameAliases, StoreStep, Still, Cleared, Downed, Resumed, Aborted, Alike

LEMMA NextMergesLast ==
  ASSUME Typed, SavedInv, JournalInv, FamilyInv, SameAliases, [Next]_vars,
         NEW i \in Archived(disk), i \in disk'.stored, i \notin Archived(disk')
  PROVE  disk.alias[i] \in Revoked'
<1> DEFINE to == disk.alias[i]
<1>1. /\ mem \in Store /\ disk \in Store /\ disk'.alias[i] = NoId
      /\ i \in Ids /\ to \in Ids /\ to # NoId /\ cfg[i] = to
  BY StoreAssumption DEF Typed, TypeCentral, Store, Archived, FamilyInv, OfConfig
<1>2. StoreStep
  BY NextStoreStep
<1>3. Revoked \subseteq Revoked'
  BY NextJournalStep, JournalInductive
<1> HIDE DEF to
<1>4. CASE Cleared
  <2>1. PICK D : Removal(D) /\ Alike(disk', Without(mem, D)) /\ up
    BY <1>4 DEF Cleared
  <2>2. mem.alias[i] = to /\ i \in mem.stored \ D
    BY <2>1 DEF SameAliases, Alike, Without, to
  <2>3. to \in D
    BY <1>1, <2>1, <2>2, WithoutAliases DEF Alike
  <2>4. mem.alias[to] = NoId
    BY <1>1, <2>2 DEF SavedInv, Sound
  <2>5. D # ExpiredFamilies(mem)
    <3>1. NoId \notin Expired(mem)
      BY <1>1, StoreAssumption DEF Expired, Listed, Store
    <3> QED BY <1>1, <2>2, <2>3, <2>4, <3>1 DEF ExpiredFamilies
  <2>6. ASSUME NEW id \in Ids, D = RemovalFamily(mem, id) PROVE FALSE
    BY <1>1, <2>2, <2>3, <2>4, <2>6, StoreAssumption DEF RemovalFamily
  <2>7. ASSUME NEW id \in Ids, D = journal[id].ids, id \in Revoked PROVE to \in Revoked'
    BY <1>3, <2>3, <2>7, RevokedFamily
  <2>8. ASSUME NEW id \in Ids, journal'[id].status = "removed", journal'[id].ids = D
        PROVE  to \in Revoked'
    BY <2>3, <2>8 DEF Revoked, Removed
  <2> QED BY <2>1, <2>5, <2>6, <2>7, <2>8 DEF Removal, to
<1>5. CASE Resumed \/ Aborted
  <2>1. ASSUME NEW D \in SUBSET Revoked, disk' = Without(Configured, D) PROVE to \in Revoked'
    <3>1. i \in disk.stored /\ i \notin D
      BY <1>1, <2>1, ConfiguredAliases DEF Typed, TypeCentral, Without
    <3>2. Configured.alias[i] = to
      BY <1>1, <3>1, ConfiguredAliases DEF Typed, TypeCentral
    <3> QED BY <1>1, <1>3, <2>1, <3>1, <3>2, WithoutAliases
  <2>2. disk' # disk
    BY DEF Archived
  <2>3. \E D \in SUBSET Revoked : disk' = Without(Configured, D)
    <3>1. CASE Resumed
      BY <3>1 DEF Resumed, AfterJournal
    <3>2. ASSUME NEW done \in SUBSET Removed,
                 disk' = Without(Configured, UNION {journal[j].ids : j \in done})
          PROVE  \E D \in SUBSET Revoked : disk' = Without(Configured, D)
      BY <3>2 DEF Revoked
    <3> QED BY <1>5, <2>2, <3>1, <3>2 DEF Aborted
  <2> QED BY <2>1, <2>3 DEF to
<1>6. CASE Enrolled \/ Bound
  <2>1. mem'.alias = mem.alias /\ disk' \in {disk, mem'} /\ up
    BY <1>1, <1>6 DEF Enrolled, Bound, Added, Store
  <2> QED BY <1>1, <2>1 DEF SameAliases, to
<1>7. CASE Still \/ Downed
  BY <1>1, <1>7 DEF Still, Downed, Alike, SameAliases, to
<1> QED BY <1>2, <1>4, <1>5, <1>6, <1>7 DEF StoreStep

(* Over every stop, expiry, refused write and registration, and over any number   *)
(* of merges, an archived identity is stored only as such: it becomes a server    *)
(* again only when the node it was merged into is removed, and then by a removal  *)
(* that was recorded before the merge and does not name it.                       *)
THEOREM MergesAreLasting == Spec => MergesLast
<1> DEFINE Lasting == \A i \in Archived(disk) :
                        i \in disk'.stored \ Archived(disk') => disk.alias[i] \in Revoked'
<1>1. Init => SameAliases
  BY DEF Init, SameAliases
<1>2. Typed /\ SameAliases /\ [Next]_vars => SameAliases'
  BY NextStoreStep, AliasStep
<1>3. Typed /\ SavedInv /\ JournalInv /\ FamilyInv /\ SameAliases /\ [Next]_vars => [Lasting]_vars
  BY NextMergesLast
<1> QED BY <1>1, <1>2, <1>3, JournalInvariant, FamilyInvariant, PTL DEF Spec, MergesLast

-----------------------------------------------------------------------------
(* The next start.  ApplyAliases refuses a group whose two keys differ.  Before    *)
(* the first merge a key is bound to the listed node of a group only, and a node    *)
(* that has a key keeps it: an archived identity has the key it was found with, and *)
(* so has every node that was found with one.                                       *)
FoundKeys(s) == \A i \in s.stored : Merged[i] # NoId \/ InitialStore.key[i] # NoKey
                                   => s.key[i] = InitialStore.key[i]

FoundInv == /\ InitialIds \subseteq used
            /\ merges = 0 => FoundKeys(mem) /\ FoundKeys(disk)

LEMMA WithoutFound ==
  ASSUME NEW s \in Store, NEW D, FoundKeys(s)
  PROVE  FoundKeys(Without(s, D))
<1> DEFINE t == Without(s, D)
<1>1. /\ t.stored = s.stored \ D /\ s.stored \subseteq Ids
      /\ \A i \in Ids \ D : t.key[i] = s.key[i]
  BY WithoutAliases DEF Store
<1> HIDE DEF t
<1>2. FoundKeys(t)
  BY <1>1 DEF FoundKeys
<1> QED BY <1>2 DEF t

LEMMA FoundStep ==
  ASSUME Typed, GroupInv, StoreStep, Grouped(mem), InitialIds \subseteq used,
         FoundKeys(mem), FoundKeys(disk)
  PROVE  FoundKeys(mem') /\ FoundKeys(disk')
<1>1. mem \in Store /\ disk \in Store /\ Configured \in Store
  BY ConfiguredType DEF Typed, TypeCentral
<1>2. ASSUME NEW s, NEW t, Alike(s, t), FoundKeys(t) PROVE FoundKeys(s)
  BY <1>2 DEF Alike, FoundKeys
<1>3. FoundKeys(Configured)
  BY <1>1, ConfiguredAliases DEF Typed, TypeCentral, FoundKeys
<1>4. \A D : FoundKeys(Without(mem, D)) /\ FoundKeys(Without(Configured, D))
  BY <1>1, <1>3, WithoutFound
<1>5. CASE Still
  BY <1>2, <1>5 DEF Still
<1>6. CASE Cleared
  BY <1>2, <1>4, <1>6 DEF Cleared
<1>7. CASE Downed
  <2>1. FoundKeys(EmptyStore)
    BY DEF FoundKeys, EmptyStore
  <2> QED BY <1>2, <1>7, <2>1 DEF Downed
<1>8. CASE Resumed
  BY <1>4, <1>8 DEF Resumed, AfterJournal
<1>9. CASE Aborted
  BY <1>4, <1>9 DEF Aborted
<1>10. CASE Enrolled
  <2>1. PICK m \in Machines, id \in Ids \ used : mem' = Added(mem, id, m) /\ disk' \in {disk, mem'}
    BY <1>10 DEF Enrolled
  <2>2. /\ mem'.stored = mem.stored \cup {id} /\ mem.stored \subseteq Ids
        /\ \A i \in Ids \ {id} : mem'.key[i] = mem.key[i]
    BY <1>1, <2>1 DEF Added, Store
  <2>3. Merged[id] = NoId /\ id \notin InitialIds
    BY <2>1 DEF GroupInv
  <2>4. InitialStore.key[id] = NoKey
    <3>1. ASSUME NEW m2 \in Machines PROVE Installed[m2] # id
      BY <2>1, <2>3, <3>1, StoreAssumption DEF InitialIds
    <3> QED BY <2>1, <3>1 DEF InitialStore
  <2>5. FoundKeys(mem')
    BY <2>2, <2>3, <2>4 DEF FoundKeys
  <2> QED BY <2>1, <2>5
<1>11. CASE Bound
  <2>1. PICK m \in Machines, id \in Ids :
          /\ id \in mem.stored /\ mem.alias[id] = NoId /\ mem.key[id] = NoKey
          /\ mem' = [mem EXCEPT !.key[id] = m] /\ disk' \in {disk, mem'}
    BY <1>11 DEF Bound
  <2>2. /\ mem'.stored = mem.stored /\ mem.stored \subseteq Ids
        /\ \A i \in Ids \ {id} : mem'.key[i] = mem.key[i]
    BY <1>1, <2>1 DEF Store
  <2>3. Merged[id] = NoId /\ InitialStore.key[id] = NoKey
    BY <2>1 DEF Grouped, FoundKeys
  <2>4. FoundKeys(mem')
    BY <2>2, <2>3 DEF FoundKeys
  <2> QED BY <2>1, <2>4
<1> QED BY <1>5, <1>6, <1>7, <1>8, <1>9, <1>10, <1>11 DEF StoreStep

LEMMA FoundInductive == Typed /\ GroupInv /\ FoundInv /\ [Next]_vars => FoundInv'
<1> SUFFICES ASSUME Typed, GroupInv, FoundInv, [Next]_vars PROVE FoundInv'
  OBVIOUS
<1>1. InitialIds \subseteq used'
  BY NextConfiguration DEF FoundInv
<1>2. merges' = 0 => FoundKeys(mem') /\ FoundKeys(disk')
  <2>1. merges' = 0 => merges = 0
    BY NextMerges DEF Typed, TypeBounds
  <2> QED BY <2>1, FoundStep, NextStoreStep DEF GroupInv, FoundInv
<1>3. merges' = 0 => FoundKeys(mem)' /\ FoundKeys(disk)'
  BY <1>2 DEF FoundKeys
<1>4. InitialIds' = InitialIds
  BY DEF InitialIds
<1> QED BY <1>1, <1>3, <1>4 DEF FoundInv

LEMMA GroupsStart ==
  ASSUME Typed, FamilyInv, GroupInv, FoundInv, merges = 0, ~KeysParted
  PROVE  CanStart
<1>1. disk \in Store /\ cfg \in Aliases /\ cfg = Merged /\ Grouped(disk) /\ FoundKeys(disk)
  BY DEF Typed, TypeCentral, GroupInv, FoundInv
<1>2. ASSUME NEW i \in Ids, Merged[i] # NoId, {i, Merged[i]} \subseteq disk.stored
      PROVE  \/ NoKey \in {disk.key[i], disk.key[Merged[i]]}
             \/ disk.key[i] = disk.key[Merged[i]]
  <2>1. /\ disk.alias[i] = Merged[i] /\ i \in Archived(disk)
        /\ disk.key[i] = InitialStore.key[i]
    BY <1>1, <1>2 DEF Grouped, Archived, FoundKeys
  <2>2. CASE InitialStore.key[Merged[i]] = NoKey
    BY <2>1, <2>2 DEF KeysParted
  <2>3. CASE InitialStore.key[Merged[i]] # NoKey
    <3>1. disk.key[Merged[i]] = InitialStore.key[Merged[i]]
      BY <1>1, <1>2, <2>3 DEF FoundKeys
    <3>2. \/ NoKey \in {InitialStore.key[i], InitialStore.key[Merged[i]]}
          \/ InitialStore.key[i] = InitialStore.key[Merged[i]]
      BY <1>2, SettledAssumption DEF AliasesValid
    <3> QED BY <2>1, <3>1, <3>2
  <2> QED BY <2>2, <2>3
<1>3. ASSUME NEW al \in Aliases, \A i \in Ids : al[i] \in {NoId, cfg[i]},
             \A i \in Ids : al[i] # NoId => {i, al[i]} \cap disk.stored # {},
             NEW s, s.stored = disk.stored, s.key = disk.key
      PROVE  AliasesValid(s, al)
  <2> SUFFICES ASSUME NEW i \in Ids, al[i] # NoId
               PROVE  /\ al[i] # i /\ {i, al[i]} \subseteq s.stored /\ al[al[i]] = NoId
                      /\ NoKey \in {s.key[i], s.key[al[i]]} \/ s.key[i] = s.key[al[i]]
    BY DEF AliasesValid
  <2>1. al[i] = Merged[i] /\ al[i] \in Ids /\ al[i] # i /\ al[al[i]] = NoId
    BY <1>1, <1>3 DEF FamilyInv, Flat
  <2>2. {i, al[i]} \subseteq disk.stored
    BY <1>1, <1>3, <2>1 DEF Grouped, Whole
  <2>3. NoKey \in {disk.key[i], disk.key[al[i]]} \/ disk.key[i] = disk.key[al[i]]
    BY <1>2, <2>1, <2>2
  <2> QED BY <1>3, <2>1, <2>2, <2>3
<1>4. Loaded \in Store /\ Configured \in Store
  BY ConfiguredType DEF Typed, TypeCentral
<1>5. \A i \in Ids : disk.alias[i] \in {NoId, cfg[i]}
  BY DEF FamilyInv, OfConfig
<1>6. AliasesValid(Loaded, Loaded.alias)
  BY <1>1, <1>3, <1>4, <1>5, ConfiguredAliases DEF Store
<1>7. AliasesValid(Configured, Configured.alias)
  BY <1>1, <1>3, <1>4, <1>5, ConfiguredAliases DEF Store
<1> QED BY <1>6, <1>7 DEF CanStart

(* As long as the operator merges nothing, Central never writes a state.json that   *)
(* it refuses to start from, over stops, refused writes, expiries and removals;      *)
(* but for the key of a second machine on a node found without one, into which an    *)
(* identity with a key is archived.                                                  *)
THEOREM StartIsPossible == Spec => []CanStartAgain
<1>1. Init => FoundInv
  BY InitialStoreType DEF Init, FoundInv, FoundKeys, Store
<1>2. Typed /\ FamilyInv /\ GroupInv /\ FoundInv => CanStartAgain
  BY GroupsStart DEF CanStartAgain
<1>3. Typed /\ GroupInv /\ FoundInv /\ [Next]_vars => FoundInv'
  BY FoundInductive
<1> QED BY <1>1, <1>2, <1>3, GroupInvariant, PTL DEF Spec
=============================================================================
