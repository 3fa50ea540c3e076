---------------------------- MODULE NodeLifecycle ----------------------------
(***************************************************************************)
(* The life of a monitored node: registration of its machine, metrics that *)
(* keep it alive, expiry after an hour of silence, merging of identities   *)
(* and removal from the web panel, either from the list only or with the   *)
(* signed uninstall protocol (poll, accept, complete, failed).             *)
(*                                                                         *)
(* The actors: Central's HTTP handlers and loops (internal/central), its   *)
(* store (internal/storage) on a disk that may refuse a write, the agent   *)
(* and the root helper of each machine (internal/agent, node_remove.py),   *)
(* the operator, and a network that loses requests or delivers them after  *)
(* their sender has given up.  Central may stop at any point and restart.  *)
(***************************************************************************)
EXTENDS NodeStore

CONSTANTS
  Machines,     \* machines that run the agent; a machine's key is the machine
  Installed,    \* [Machines -> Ids \cup {NoId}]: the identities at the start
  Merged,       \* [Ids -> Ids \cup {NoId}]: aliases configured at the start
  Legacy,       \* identities saved before machine keys existed
  SameServer,   \* pairs of identities saved with one address and one hostname
  MaxOps,       \* bound: uninstall requests, one nonce each
  MaxFaults,    \* bound: disk writes of Central that fail
  MaxCrashes,   \* bound: stops of Central
  MaxLost,      \* bound: requests given up by their sender
  MaxMerges,    \* bound: runs of "merge-nodes"
  MaxSetbacks,  \* bound: times Central's wall clock is set back
  MaxWipes      \* bound: machines that lose the agent's identity file

ASSUME LifecycleAssumption ==
  /\ Machines = Keys
  /\ Installed \in [Machines -> Ids \cup {NoId}]
  /\ Merged \in [Ids -> Ids \cup {NoId}]
  /\ Legacy \subseteq Ids
  /\ SameServer \subseteq Ids \X Ids
  /\ {MaxOps, MaxFaults, MaxCrashes, MaxLost, MaxMerges,
      MaxSetbacks, MaxWipes} \subseteq Nat

VARIABLES
  up,        \* Central is running
  mem,       \* Store.nodes and Store.aliases, lost when Central stops
  dirty,     \* Store.dirty: mem differs from state.json
  disk,      \* state.json
  cfg,       \* NodeAliases of config.json
  journal,   \* node-removals.json, and its identical copy Server.removals
  capable,   \* Server.removalCap: identities whose agent announced removal
             \* support within the last 15 s
  used,      \* identities drawn so far (random tokens do not repeat)
  nonces,    \* number of uninstall nonces drawn so far
  reqs,      \* metric requests: with Central, or answered and not yet read
  acts,      \* uninstall-protocol requests that Central has not yet handled
  givenup,   \* machines with a registration given up but still with Central
  agent,     \* the agent of each machine, with its identity file
  helper,    \* the root helper of each machine
  signal,    \* remove.request of each machine: a nonce, 0 when absent
  faults, crashes, lost, merges, setbacks, wipes   \* counters of the bounds

central == <<up, mem, dirty, disk, cfg, journal, capable, used, nonces>>
network == <<reqs, acts, givenup>>
nodeside == <<agent, helper, signal>>
bounds == <<faults, crashes, lost, merges, setbacks, wipes>>
vars == <<central, network, nodeside, bounds>>

-----------------------------------------------------------------------------
Op == [status : {"none", "pending", "accepted", "failed", "removed"},
       nonce  : Nat,           \* 0: the empty nonce
       live   : BOOLEAN,       \* Expires has not passed
       ids    : SUBSET Ids]

NoOp == [status |-> "none", nonce |-> 0, live |-> FALSE, ids |-> {}]

(* Server.revoked: filled from the journal at the start and after each save. *)
Removed == {i \in Ids : journal[i].status = "removed"}
Revoked == UNION {journal[i].ids : i \in Removed}

InFlight == {"new", "known", "contacted"}       \* with Central
Replied == {"204", "401", "409", "410"}         \* on its way back

Request == [m : Machines, id : Ids, st : InFlight \cup Replied,
            live : BOOLEAN,     \* its agent still waits for the reply
            hint : Nat]         \* X-Marzwatch-Remove

Phase == {"poll", "accept", "complete", "failed"}
Action == [m : Machines, id : Ids, nonce : Nat, phase : Phase, live : BOOLEAN]

Agent == [st : {"absent", "registering", "running", "stopped"},
          id : Ids \cup {NoId}]
Helper == [ph : Phase \cup {"idle", "checked", "cleaning"},
           id : Ids \cup {NoId}, nonce : Nat, tries : 0..3]
Idle == [ph |-> "idle", id |-> NoId, nonce |-> 0, tries |-> 0]

TypeOK ==
  /\ up \in BOOLEAN /\ dirty \in BOOLEAN
  /\ mem \in Store /\ disk \in Store
  /\ cfg \in [Ids -> Ids \cup {NoId}]
  /\ journal \in [Ids -> Op]
  /\ capable \subseteq Ids /\ used \subseteq Ids /\ nonces \in Nat
  /\ reqs \subseteq Request /\ acts \subseteq Action /\ givenup \subseteq Machines
  /\ agent \in [Machines -> Agent]
  /\ helper \in [Machines -> Helper]
  /\ signal \in [Machines -> Nat]
  /\ faults \in Nat /\ crashes \in Nat /\ lost \in Nat
  /\ merges \in Nat /\ setbacks \in Nat /\ wipes \in Nat

-----------------------------------------------------------------------------
EmptyStore == [stored |-> {}, key |-> [i \in Ids |-> NoKey],
               contact |-> [i \in Ids |-> "none"], alias |-> NoAliases]

InitialIds == ({Installed[m] : m \in Machines}
               \cup {i \in Ids : Merged[i] # NoId}) \ {NoId}

(* A settled installation: every identity saved, contacted a while ago. *)
InitialStore ==
  [stored  |-> InitialIds,
   key     |-> [i \in Ids |-> IF i \notin Legacy /\ \E m \in Machines : Installed[m] = i
                              THEN CHOOSE m \in Machines : Installed[m] = i
                              ELSE NoKey],
   contact |-> [i \in Ids |-> IF i \in InitialIds THEN "quiet" ELSE "none"],
   alias   |-> Merged]

ASSUME SettledAssumption ==
  /\ AliasesValid(InitialStore, Merged)
  /\ \A m, n \in Machines : Installed[m] = Installed[n] /\ Installed[m] # NoId => m = n

Init ==
  /\ up = TRUE /\ dirty = FALSE
  /\ mem = InitialStore /\ disk = InitialStore /\ cfg = Merged
  /\ journal = [i \in Ids |-> NoOp]
  /\ capable = {} /\ used = InitialIds /\ nonces = 0
  /\ reqs = {} /\ acts = {} /\ givenup = {}
  /\ agent = [m \in Machines |->
       IF Installed[m] = NoId THEN [st |-> "registering", id |-> NoId]
       ELSE [st |-> "running", id |-> Installed[m]]]
  /\ helper = [m \in Machines |-> Idle]
  /\ signal = [m \in Machines |-> 0]
  /\ faults = 0 /\ crashes = 0 /\ lost = 0 /\ merges = 0 /\ setbacks = 0
  /\ wipes = 0

-----------------------------------------------------------------------------
(* Writing state.json.  A refused write leaves the file as it was. *)

Fault == faults < MaxFaults /\ faults' = faults + 1
NoFault == UNCHANGED faults

(* A mutant of SaveOrUndo: nothing is undone. *)
SaveOrKeep(s, undone) ==
  \/ NoFault /\ mem' = s /\ disk' = s /\ dirty' = FALSE
  \/ Fault /\ mem' = s /\ UNCHANGED disk /\ dirty' = TRUE

(* A change that is undone when its write is refused (Expire, DeleteIDs). *)
SaveOrUndo(s, undone) ==
  \/ NoFault /\ mem' = s /\ disk' = s /\ dirty' = FALSE
  \/ /\ Fault /\ mem' = undone /\ UNCHANGED disk
     /\ dirty' = (dirty \/ undone # mem)

(* flushLocked after the step that made s of mem, with nothing to undo. *)
Flushed(s) ==
  /\ NoFault /\ mem' = s /\ dirty' = FALSE
  /\ disk' = IF dirty \/ s # mem THEN s ELSE disk
FlushRefused(s) ==
  /\ dirty \/ s # mem
  /\ Fault /\ mem' = s /\ dirty' = TRUE /\ UNCHANGED disk

-----------------------------------------------------------------------------
(* Central stops: memory, the handlers and the open connections are gone. *)

Stopped ==
  /\ up' = FALSE /\ mem' = EmptyStore /\ dirty' = FALSE /\ capable' = {}
  /\ reqs' = {r \in reqs : r.st \in Replied} /\ acts' = {} /\ givenup' = {}
  /\ crashes < MaxCrashes /\ crashes' = crashes + 1

Stop ==
  /\ up /\ Stopped
  /\ UNCHANGED <<disk, cfg, journal, used, nonces, nodeside,
                 faults, lost, merges, setbacks, wipes>>

Loaded == [disk EXCEPT !.alias = AliasesWith([disk EXCEPT !.alias = NoAliases], disk.alias)]
Configured == [Loaded EXCEPT !.alias = AliasesWith(Loaded, cfg)]

CanStart == /\ AliasesValid(Loaded, Loaded.alias)
            /\ AliasesValid(Configured, Configured.alias)

(* A mutant of AfterJournal: the journal is read, but nothing is removed. *)
AfterJournalKeepingNodes(s) == s

(* initRemovals: what an unfinished removal left behind is removed now. *)
AfterJournal(s) == Without(s, Revoked)

(* Run: read state.json, apply the configured aliases, save, then remove what *)
(* the journal says is removed, one operation and one write at a time.  When a *)
(* write is refused the process exits with what it has written so far.         *)
Start ==
  /\ ~up /\ CanStart
  /\ \/ /\ NoFault /\ up' = TRUE
        /\ mem' = AfterJournal(Configured) /\ disk' = AfterJournal(Configured)
     \/ /\ Fault /\ UNCHANGED <<up, mem>>
        /\ \/ UNCHANGED disk
           \/ \E done \in SUBSET Removed :
                disk' = Without(Configured, UNION {journal[i].ids : i \in done})
  /\ UNCHANGED <<dirty, cfg, journal, capable, used, nonces, network, nodeside,
                 crashes, lost, merges, setbacks, wipes>>

(* FlushLoop, once a minute. *)
Flush ==
  /\ up /\ dirty /\ (Flushed(mem) \/ FlushRefused(mem))
  /\ UNCHANGED <<up, cfg, journal, capable, used, nonces, network, nodeside,
                 crashes, lost, merges, setbacks, wipes>>

-----------------------------------------------------------------------------
(* Time. A saved contact is never younger than the one in memory, unless the *)
(* clock was set back; so of two equal ones the saved one grows older first.  *)

Older == [c \in Contact |-> CASE c = "future" -> "fresh" [] c = "fresh" -> "quiet"
                              [] c = "quiet" -> "stale" [] OTHER -> c]

Age(id) ==
  /\ \/ /\ disk.contact[id] # Older[disk.contact[id]]
        /\ disk' = [disk EXCEPT !.contact[id] = Older[@]]
        /\ UNCHANGED <<mem, capable>>
     \/ /\ up /\ mem.contact[id] \notin {disk.contact[id], Older[mem.contact[id]]}
        /\ mem' = [mem EXCEPT !.contact[id] = Older[@]]
        /\ capable' = IF mem.contact[id] = "fresh" THEN capable \ {id} ELSE capable
        /\ UNCHANGED disk
  /\ UNCHANGED <<up, dirty, cfg, journal, used, nonces, network, nodeside, bounds>>

SetBack(s) == [s EXCEPT !.contact = [i \in Ids |->
                 IF s.contact[i] = "none" THEN "none" ELSE "future"]]

ClockSetBack ==
  /\ setbacks < MaxSetbacks /\ setbacks' = setbacks + 1
  /\ mem' = SetBack(mem) /\ disk' = SetBack(disk)
  /\ UNCHANGED <<up, dirty, cfg, journal, capable, used, nonces, network, nodeside,
                 faults, crashes, lost, merges, wipes>>

(* Expires of an unfinished removal passes. *)
Lapse(id) ==
  /\ journal[id].live
  /\ journal' = [journal EXCEPT ![id].live = FALSE]
  /\ UNCHANGED <<up, mem, dirty, disk, cfg, capable, used, nonces, network, nodeside, bounds>>

(* removeStaleNodes, once a minute. *)
Expire ==
  /\ up
  /\ LET seen == Observed(mem)
         gone == ExpiredFamilies(mem)
     IN  IF gone = {} THEN /\ dirty \/ seen # mem
                           /\ Flushed(seen) \/ FlushRefused(seen)
                      ELSE SaveOrUndo(Without(seen, gone), seen)
  /\ UNCHANGED <<up, cfg, journal, capable, used, nonces, network, nodeside,
                 crashes, lost, merges, setbacks, wipes>>

-----------------------------------------------------------------------------
(* Registration.  The handler holds removalMu for reading; the store step is *)
(* one critical section.  The reply may be lost, and an agent that has given *)
(* up after 12 s may register anew, or be removed, before Central handles    *)
(* the request it gave up.                                                   *)

LeaveRegistration(m) ==
  /\ up /\ agent[m].st = "registering" /\ m \notin givenup
  /\ lost < MaxLost /\ lost' = lost + 1
  /\ givenup' = givenup \cup {m}
  /\ UNCHANGED <<central, reqs, acts, nodeside, faults, crashes, merges, setbacks, wipes>>

(* The registration of m whose agent waits, or the one it has given up. *)
Registering(m, waits) ==
  /\ up
  /\ IF waits THEN agent[m].st = "registering" /\ UNCHANGED givenup
              ELSE m \in givenup /\ givenup' = givenup \ {m}

Unanswered == UNCHANGED <<agent, lost>>

Registered(m, id, waits) ==
  \/ /\ waits
     /\ agent' = [agent EXCEPT ![m] = [st |-> "running", id |-> id]]
     /\ UNCHANGED lost
  \/ /\ waits /\ lost < MaxLost /\ lost' = lost + 1
     /\ UNCHANGED agent
  \/ ~waits /\ Unanswered

(* A machine Central knows keeps its identity. *)
RegisterKnown(m, waits) ==
  /\ Registering(m, waits)
  /\ \E owner \in KeyOwners(mem, m) :
       \/ Flushed(mem) /\ Registered(m, Canonical(mem, owner), waits)
       \/ FlushRefused(mem) /\ Unanswered
  /\ UNCHANGED <<up, cfg, journal, capable, used, nonces, reqs, acts, helper, signal,
                 crashes, merges, setbacks, wipes>>

(* A mutant of RegisterNew: the reply does not wait for the write. *)
RegisterNewUnsaved(m, waits) ==
  /\ Registering(m, waits) /\ KeyOwners(mem, m) = {}
  /\ \E id \in Ids \ used :
       /\ used' = used \cup {id}
       /\ mem' = Added(mem, id, m) /\ dirty' = TRUE /\ UNCHANGED <<disk, faults>>
       /\ Registered(m, id, waits)
  /\ UNCHANGED <<up, cfg, journal, capable, nonces, reqs, acts, helper, signal,
                 crashes, merges, setbacks, wipes>>

(* A refused write is reported, but the new identity stays in memory. *)
RegisterNew(m, waits) ==
  /\ Registering(m, waits) /\ KeyOwners(mem, m) = {}
  /\ \E id \in Ids \ used :
       /\ used' = used \cup {id}
       /\ \/ Flushed(Added(mem, id, m)) /\ Registered(m, id, waits)
          \/ FlushRefused(Added(mem, id, m)) /\ Unanswered
  /\ UNCHANGED <<up, cfg, journal, capable, nonces, reqs, acts, helper, signal,
                 crashes, merges, setbacks, wipes>>

-----------------------------------------------------------------------------
(* Metrics: the agent sends one request at a time and gives up after 12 s,   *)
(* while Central may still be handling it.                                   *)

SendMetric(m) ==
  /\ up /\ agent[m].st = "running"
  /\ ~\E r \in reqs : r.m = m /\ r.live
  /\ reqs' = reqs \cup {[m |-> m, id |-> agent[m].id, st |-> "new",
                         live |-> TRUE, hint |-> 0]}
  /\ UNCHANGED <<central, acts, givenup, nodeside, bounds>>

Replace(r, new) == reqs' = (reqs \ {r}) \cup new
Moved(r, st, hint) == Replace(r, {[r EXCEPT !.st = st, !.hint = hint]})
Answered(r, code) ==
  Replace(r, IF r.live THEN {[r EXCEPT !.st = code]} ELSE {})

GiveUp(r) ==
  /\ r.live /\ lost < MaxLost /\ lost' = lost + 1
  /\ \/ Replace(r, {})
     \/ r.st \in InFlight /\ Replace(r, {[r EXCEPT !.live = FALSE]})
  /\ UNCHANGED <<central, acts, givenup, nodeside, faults, crashes, merges, setbacks, wipes>>

(* The identity is looked up, and its secret read, before removalMu is taken. *)
Lookup(r) ==
  /\ up /\ r.st = "new"
  /\ IF r.id \in mem.stored THEN Moved(r, "known", 0)
     ELSE Answered(r, IF r.id \in Revoked THEN "410" ELSE "401")
  /\ UNCHANGED <<central, acts, givenup, nodeside, bounds>>

Hint(id) ==
  IF journal[id].status = "pending" /\ journal[id].live THEN journal[id].nonce ELSE 0

(* A mutant of Admitted: no second look at the journal under removalMu. *)
AdmittedUnchecked(id) == TRUE

Admitted(id) == id \notin Revoked

(* Under removalMu.RLock: refuse a revoked identity, announce a pending       *)
(* removal, record the contact.                                               *)
RecordContact(r) ==
  /\ up /\ r.st = "known"
  /\ IF ~Admitted(r.id)
     THEN Answered(r, "410") /\ UNCHANGED <<mem, dirty, capable>>
     ELSE /\ capable' = capable \cup {r.id}
          /\ IF r.id \notin mem.stored
             THEN Answered(r, "401") /\ UNCHANGED <<mem, dirty>>
             ELSE /\ mem' = Touched(mem, r.id)
                  /\ dirty' = (dirty \/ mem.alias[r.id] = NoId)
                  /\ Moved(r, "contacted", Hint(r.id))
  /\ UNCHANGED <<up, disk, cfg, journal, used, nonces, acts, givenup, nodeside, bounds>>

(* A mutant of BindRefused: a key of another node is taken over. *)
BindRefusedUnlessSet(id, k) ==
  /\ mem.alias[id] = NoId
  /\ id \notin mem.stored \/ mem.key[id] \notin {NoKey, k}

(* BindServerKey: what is refused with 409. *)
BindRefused(id, k) ==
  /\ mem.alias[id] = NoId
  /\ \/ id \notin mem.stored
     \/ mem.key[id] \notin {NoKey, k}
     \/ mem.key[id] = NoKey /\ \E o \in KeyOwners(mem, k) : Canonical(mem, o) # id

(* A node saved without a machine key gets the key of its agent. *)
BindServerKey(r) ==
  /\ up /\ r.st = "contacted"
  /\ IF BindRefused(r.id, r.m)
     THEN Answered(r, "409") /\ UNCHANGED <<mem, dirty, disk, faults>>
     ELSE IF mem.alias[r.id] # NoId \/ mem.key[r.id] = r.m
     THEN Answered(r, "204") /\ UNCHANGED <<mem, dirty, disk, faults>>
     ELSE LET s == [mem EXCEPT !.key[r.id] = r.m]
          IN  \/ Flushed(s) /\ Answered(r, "204")
              \/ FlushRefused(s) /\ Answered(r, "409")
  /\ UNCHANGED <<up, cfg, journal, capable, used, nonces, acts, givenup, nodeside,
                 crashes, lost, merges, setbacks, wipes>>

(* A mutant of Rejected: "unknown node" is not told from other failures. *)
RejectedWhenRemoved(code) == code = "410"

(* errIdentityRejected: only "unknown node" makes an agent drop its identity. *)
Rejected(code) == code = "401"

(* The agent reads the reply: sendMetric, handleRemoval, resetIdentity. *)
Receive(r) ==
  /\ r.live /\ r.st \in Replied /\ agent[r.m].st = "running"
  /\ Replace(r, {})
  /\ agent' = IF Rejected(r.st)
              THEN [agent EXCEPT ![r.m] = [st |-> "registering", id |-> NoId]]
              ELSE agent
  /\ signal' = IF r.st = "204" /\ r.hint # 0 THEN [signal EXCEPT ![r.m] = r.hint]
               ELSE signal
  /\ UNCHANGED <<central, acts, givenup, helper, bounds>>

-----------------------------------------------------------------------------
(* Removal. These handlers hold removalMu for writing, so no metric request   *)
(* is between RecordContact and its answer.                                   *)

LockFree == \A r \in reqs : r.st # "contacted"

(* DeleteIDs is always written, whatever it removes. *)
Purge(ids) ==
  \/ NoFault /\ mem' = Without(mem, ids) /\ disk' = Without(mem, ids) /\ dirty' = FALSE
  \/ Fault /\ UNCHANGED <<mem, disk, dirty>>

(* A mutant of SaveAndPurge: the nodes are removed before the journal says so. *)
PurgeAndSave(id, op) ==
  \/ /\ journal' = [journal EXCEPT ![id] = op] /\ Purge(op.ids)
     /\ UNCHANGED <<up, capable, crashes>>
  \/ /\ disk' = Without(mem, op.ids) /\ Stopped /\ UNCHANGED <<journal, faults>>
  \/ Fault /\ UNCHANGED <<journal, up, mem, dirty, disk, capable, crashes>>

(* saveRemoval of a "removed" operation, then purgeRemoved.  Central may stop *)
(* between the two writes.                                                    *)
SaveAndPurge(id, op) ==
  \/ /\ journal' = [journal EXCEPT ![id] = op] /\ Purge(op.ids)
     /\ UNCHANGED <<up, capable, crashes>>
  \/ /\ journal' = [journal EXCEPT ![id] = op] /\ Stopped
     /\ UNCHANGED <<disk, faults>>
  \/ Fault /\ UNCHANGED <<journal, up, mem, dirty, disk, capable, crashes>>

(* saveRemoval of any other status. *)
SaveOp(id, op) ==
  \/ NoFault /\ journal' = [journal EXCEPT ![id] = op]
  \/ Fault /\ UNCHANGED journal

Busy(op) == op.status \in {"pending", "accepted"} /\ op.live

RemovalStep == /\ up /\ LockFree
               /\ UNCHANGED <<cfg, used, nodeside, lost, merges, setbacks, wipes>>

(* removeWebNode for an identity that is already revoked: finish the purge of *)
(* what is recorded under that very identity.                                 *)
FinishRemoval(id) ==
  /\ RemovalStep /\ id \in Revoked
  /\ Purge(journal[id].ids)
  /\ UNCHANGED <<up, journal, capable, nonces, network, crashes>>

Removable(id) == id \in Listed(mem) \ Revoked /\ ~Busy(journal[id])

(* removeWebNode, list only: always for a node Central has not heard of for   *)
(* 15 s, on request for any other.  No command reaches the machine.           *)
RemoveFromList(id) ==
  /\ RemovalStep /\ Removable(id)
  /\ SaveAndPurge(id, [NoOp EXCEPT !.status = "removed", !.ids = RemovalFamily(mem, id)])
  /\ UNCHANGED nonces
  /\ IF up' THEN UNCHANGED network ELSE TRUE

(* removeWebNode, uninstall: a new nonce for an online node whose agent       *)
(* announced support.                                                         *)
RequestUninstall(id) ==
  /\ RemovalStep /\ Removable(id)
  /\ mem.contact[id] = "fresh" /\ id \in capable
  /\ nonces < MaxOps /\ nonces' = nonces + 1
  /\ SaveOp(id, [status |-> "pending", nonce |-> nonces + 1, live |-> TRUE,
                 ids |-> RemovalFamily(mem, id)])
  /\ UNCHANGED <<up, mem, dirty, disk, capable, network, crashes>>

-----------------------------------------------------------------------------
(* The signed uninstall protocol.  A helper does one exchange at a time and   *)
(* takes no reply within 8 s for an error; the request may still be handled.  *)

Exchange(m, ph, tries, id, nonce) ==
  /\ helper' = [helper EXCEPT ![m] = [ph |-> ph, id |-> id, nonce |-> nonce, tries |-> tries]]
  /\ acts' = IF up THEN acts \cup {[m |-> m, id |-> id, nonce |-> nonce, phase |-> ph,
                                    live |-> TRUE]}
             ELSE acts    \* connection refused

(* A mutant of Went: one attempt too many. *)
WentOnceMore(m, ok) ==
  LET h == helper[m] IN
  CASE h.ph = "poll" /\ ok -> [h EXCEPT !.ph = "checked"]
    [] h.ph = "accept" /\ ok -> [h EXCEPT !.ph = "cleaning"]
    [] h.ph \in {"poll", "accept"} /\ ~ok -> [h EXCEPT !.ph = "failed"]
    [] h.ph = "complete" /\ ~ok /\ h.tries <= 3 -> [h EXCEPT !.tries = @ + 1]
    [] OTHER -> Idle

(* A mutant of Went: "complete" is repeated until Central takes it. *)
WentAgain(m, ok) ==
  LET h == helper[m] IN
  CASE h.ph = "poll" /\ ok -> [h EXCEPT !.ph = "checked"]
    [] h.ph = "accept" /\ ok -> [h EXCEPT !.ph = "cleaning"]
    [] h.ph \in {"poll", "accept"} /\ ~ok -> [h EXCEPT !.ph = "failed"]
    [] h.ph = "complete" /\ ~ok -> h
    [] OTHER -> Idle

(* What follows an exchange of phase ph that went well, or did not. *)
Went(m, ok) ==
  LET h == helper[m] IN
  CASE h.ph = "poll" /\ ok -> [h EXCEPT !.ph = "checked"]
    [] h.ph = "accept" /\ ok -> [h EXCEPT !.ph = "cleaning"]
    [] h.ph \in {"poll", "accept"} /\ ~ok -> [h EXCEPT !.ph = "failed"]
    [] h.ph = "complete" /\ ~ok /\ h.tries < 3 -> [h EXCEPT !.tries = @ + 1]
    [] OTHER -> Idle

(* The exchange a helper begins when it is left in phase h.ph. *)
Begun(m, h) ==
  IF h.ph \in {"failed", "complete"}
  THEN {[m |-> m, id |-> h.id, nonce |-> h.nonce, phase |-> h.ph, live |-> TRUE]}
  ELSE {}

(* After "failed" the signal is erased, unless a newer one has arrived. *)
SignalAfter(m) ==
  IF helper[m].ph = "failed" /\ signal[m] = helper[m].nonce
  THEN [signal EXCEPT ![m] = 0] ELSE signal

(* The outcome of request a reaches the helper that waits for it; others are  *)
(* left in `rest`.                                                            *)
Outcome(a, ok, rest) ==
  IF a.live
  THEN /\ helper' = [helper EXCEPT ![a.m] = Went(a.m, ok)]
       /\ signal' = SignalAfter(a.m)
       /\ acts' = rest \cup Begun(a.m, Went(a.m, ok))
  ELSE acts' = rest /\ UNCHANGED <<helper, signal>>

HelperStart(m) ==
  /\ helper[m] = Idle /\ signal[m] # 0 /\ agent[m].st = "running"
  /\ Exchange(m, "poll", 0, agent[m].id, signal[m])
  /\ UNCHANGED <<central, reqs, givenup, agent, signal, bounds>>

(* The exchange is given up: its request is lost, or handled late. *)
HelperTimeout(m) ==
  LET mine == {a \in acts : a.m = m /\ a.live}
      late == {[a EXCEPT !.live = FALSE] : a \in mine}
  IN  /\ helper[m].ph \in Phase
      /\ IF mine = {} THEN UNCHANGED lost ELSE lost < MaxLost /\ lost' = lost + 1
      /\ \E rest \in {acts \ mine, (acts \ mine) \cup late} :
           acts' = rest \cup (IF up THEN Begun(m, Went(m, FALSE)) ELSE {})
      /\ helper' = [helper EXCEPT ![m] = Went(m, FALSE)]
      /\ signal' = SignalAfter(m)
      /\ UNCHANGED <<central, reqs, givenup, agent, faults, crashes, merges, setbacks, wipes>>

(* The cleanup scope is checked before the removal is accepted. *)
Preflight(m) ==
  /\ helper[m].ph = "checked"
  /\ \E ph \in {"accept", "failed"} : Exchange(m, ph, 0, helper[m].id, helper[m].nonce)
  /\ UNCHANGED <<central, reqs, givenup, agent, signal, bounds>>

(* The agent is gone: nobody reads its replies any more. *)
Abandoned(m) ==
  reqs' = {r \in reqs : r.m # m}
          \cup {[r EXCEPT !.live = FALSE] : r \in {q \in reqs : q.m = m /\ q.st \in InFlight}}

(* Services stopped and files deleted; or an error, before the agent stopped   *)
(* or half way, with or without the identity file.                            *)
Cleanup(m) ==
  /\ helper[m].ph = "cleaning"
  /\ \/ /\ agent' = [agent EXCEPT ![m] = [st |-> "absent", id |-> NoId]]
        /\ signal' = [signal EXCEPT ![m] = 0] /\ Abandoned(m)
        /\ Exchange(m, "complete", 1, helper[m].id, helper[m].nonce)
     \/ /\ \/ UNCHANGED <<agent, reqs>>
           \/ /\ \E id \in {agent[m].id, NoId} :
                   agent' = [agent EXCEPT ![m] = [st |-> "stopped", id |-> id]]
              /\ Abandoned(m)
        /\ Exchange(m, "failed", 0, helper[m].id, helper[m].nonce)
        /\ UNCHANGED signal
  /\ UNCHANGED <<central, givenup, bounds>>

(* The operator installs the agent again. *)
Reinstall(m) ==
  /\ agent[m].st \in {"absent", "stopped"} /\ helper[m] = Idle
  /\ agent' = [agent EXCEPT ![m].st = IF agent[m].id = NoId THEN "registering" ELSE "running"]
  /\ UNCHANGED <<central, network, helper, signal, bounds>>

(* The identity file is lost: the machine is set up from nothing. *)
Wipe(m) ==
  /\ wipes < MaxWipes /\ wipes' = wipes + 1
  /\ agent[m].st \in {"running", "stopped"} /\ helper[m] = Idle /\ Abandoned(m)
  /\ agent' = [agent EXCEPT ![m] = [st |-> "registering", id |-> NoId]]
  /\ signal' = [signal EXCEPT ![m] = 0]
  /\ UNCHANGED <<central, acts, givenup, helper, faults, crashes, lost, merges, setbacks>>

-----------------------------------------------------------------------------
(* removeNodeAction *)

ActionStep(a) == /\ up /\ LockFree
                 /\ UNCHANGED <<cfg, used, nonces, agent, lost, merges, setbacks, wipes>>

Known(a) == journal[a.id].nonce # 0 /\ journal[a.id].nonce = a.nonce

(* A mutant of Acceptable: the status is not looked at. *)
AcceptableAgain(op) == op.live

Acceptable(op) == op.status = "pending" /\ op.live

(* An accepted removal may be completed after it has expired. *)
Completable(op) == op.status = "accepted"

(* A mutant of Failable: whatever is reported as failed has failed. *)
FailableAlways(op) == TRUE

Failable(op) == op.status \in {"pending", "accepted"}

(* No such operation, or not in a state for this phase: 404 or 409. *)
Refuse(a) ==
  /\ ActionStep(a)
  /\ LET op == journal[a.id] IN
     \/ ~Known(a)
     \/ /\ op.status # "removed"
        /\ \/ a.phase \in {"poll", "accept"} /\ ~Acceptable(op)
           \/ a.phase = "complete" /\ ~Completable(op)
           \/ a.phase = "failed" /\ ~Failable(op)
  /\ Outcome(a, FALSE, acts \ {a})
  /\ UNCHANGED <<up, mem, dirty, disk, journal, capable, reqs, givenup, faults, crashes>>

Poll(a) ==
  /\ ActionStep(a) /\ a.phase = "poll" /\ Known(a) /\ Acceptable(journal[a.id])
  /\ Outcome(a, TRUE, acts \ {a})
  /\ UNCHANGED <<up, mem, dirty, disk, journal, capable, reqs, givenup, faults, crashes>>

(* A mutant of Decide: acknowledged whether or not it was saved. *)
DecideUnsaved(a) ==
  /\ ActionStep(a) /\ Known(a)
  /\ \/ a.phase = "accept" /\ Acceptable(journal[a.id])
     \/ a.phase = "failed" /\ Failable(journal[a.id])
  /\ SaveOp(a.id, IF a.phase = "accept"
                  THEN [journal[a.id] EXCEPT !.status = "accepted", !.live = TRUE]
                  ELSE [journal[a.id] EXCEPT !.status = "failed"])
  /\ Outcome(a, TRUE, acts \ {a})
  /\ UNCHANGED <<up, mem, dirty, disk, capable, reqs, givenup, crashes>>

(* accept and failed: the new status is saved before it is acknowledged. *)
Decide(a) ==
  /\ ActionStep(a) /\ Known(a)
  /\ \/ a.phase = "accept" /\ Acceptable(journal[a.id])
     \/ a.phase = "failed" /\ Failable(journal[a.id])
  /\ SaveOp(a.id, IF a.phase = "accept"
                  THEN [journal[a.id] EXCEPT !.status = "accepted", !.live = TRUE]
                  ELSE [journal[a.id] EXCEPT !.status = "failed"])
  /\ Outcome(a, faults' = faults, acts \ {a})
  /\ UNCHANGED <<up, mem, dirty, disk, capable, reqs, givenup, crashes>>

Complete(a) ==
  /\ ActionStep(a) /\ a.phase = "complete" /\ Known(a) /\ Completable(journal[a.id])
  /\ SaveAndPurge(a.id, [journal[a.id] EXCEPT !.status = "removed", !.live = FALSE])
  /\ IF up' THEN Outcome(a, faults' = faults, acts \ {a}) /\ UNCHANGED <<reqs, givenup>>
            ELSE UNCHANGED <<helper, signal>>

(* A removal that is already recorded: finish the purge; 410 tells a helper   *)
(* that completes that its work is known.                                     *)
Confirm(a) ==
  /\ ActionStep(a) /\ Known(a) /\ journal[a.id].status = "removed"
  /\ Purge(journal[a.id].ids)
  /\ Outcome(a, a.phase = "complete" /\ faults' = faults, acts \ {a})
  /\ UNCHANGED <<up, journal, capable, reqs, givenup, crashes>>

-----------------------------------------------------------------------------
(* "marzwatchctl merge-nodes": reads state.json, writes config.json only; the *)
(* running Central applies the merge when it is started again.  Only nodes    *)
(* saved with one address and one hostname are merged.                        *)
Merge(from, to) ==
  /\ merges < MaxMerges /\ merges' = merges + 1
  /\ <<from, to>> \in SameServer
  /\ cfg[from] = NoId /\ {from, to} \subseteq disk.stored
  /\ LET new == [cfg EXCEPT ![from] = to]
     IN  /\ AliasesValid(Loaded, Loaded.alias)
         /\ AliasesValid(Loaded, AliasesWith(Loaded, new))
         /\ cfg' = new
  /\ UNCHANGED <<up, mem, dirty, disk, journal, capable, used, nonces, network,
                 nodeside, faults, crashes, lost, setbacks, wipes>>

-----------------------------------------------------------------------------
CentralNext == Stop \/ Start \/ Flush \/ Expire

MetricNext ==
  \/ \E m \in Machines : SendMetric(m)
  \/ \E r \in reqs : \/ GiveUp(r) \/ Lookup(r) \/ RecordContact(r)
                     \/ BindServerKey(r) \/ Receive(r)

RegisterNext ==
  \E m \in Machines :
    \/ LeaveRegistration(m)
    \/ \E waits \in BOOLEAN : RegisterKnown(m, waits) \/ RegisterNew(m, waits)

TimeNext == ClockSetBack \/ \E id \in Ids : Age(id) \/ Lapse(id)

OperatorNext ==
  \/ \E id \in Ids : FinishRemoval(id) \/ RemoveFromList(id) \/ RequestUninstall(id)
  \/ \E m \in Machines : Reinstall(m) \/ Wipe(m)
  \/ \E from, to \in Ids : Merge(from, to)

HelperNext ==
  \/ \E m \in Machines : HelperStart(m) \/ HelperTimeout(m) \/ Preflight(m) \/ Cleanup(m)
  \/ \E a \in acts : Refuse(a) \/ Poll(a) \/ Decide(a) \/ Complete(a) \/ Confirm(a)

Next == CentralNext \/ MetricNext \/ RegisterNext \/ TimeNext \/ OperatorNext \/ HelperNext

Spec == Init /\ [][Next]_vars

(* Fairness: systemd restarts Central and keeps the agent and the helper      *)
(* running, every handler ends, and a helper gives up waiting for an answer.  *)
(* A waiting writer of a Go RWMutex holds back new readers, so the uninstall  *)
(* handlers get removalMu however often metrics take it (strong fairness).    *)
Fairness ==
  /\ WF_vars(Start)
  /\ \A m \in Machines :
       /\ WF_vars(SendMetric(m))
       /\ WF_vars(RegisterKnown(m, TRUE) \/ RegisterNew(m, TRUE))
       /\ WF_vars(Preflight(m) \/ Cleanup(m) \/ HelperTimeout(m))
       /\ \A live \in BOOLEAN :
            WF_vars(\E r \in reqs : r.m = m /\ r.live = live /\
                      (Lookup(r) \/ RecordContact(r) \/ BindServerKey(r) \/ Receive(r)))
       /\ SF_vars(\E a \in acts : a.m = m /\
                      (Refuse(a) \/ Poll(a) \/ Decide(a) \/ Complete(a) \/ Confirm(a)))

FairSpec == Spec /\ Fairness

-----------------------------------------------------------------------------
(* Invariants *)

(* Registration by machine key, binding of keys and merging never leave two  *)
(* listed nodes with one machine key (Register, BindServerKey, ApplyAliases). *)
KeyUnique ==
  \A i, j \in Listed(mem) : mem.key[i] = mem.key[j] /\ mem.key[i] # NoKey => i = j

(* Both ends of every alias are stored and no alias points to an archived     *)
(* identity: UpdateMetric dereferences the target without looking.            *)
AliasesSound ==
  \A i \in Archived(mem) : {i, mem.alias[i]} \subseteq mem.stored \ (Archived(mem) \ {i})

(* An identity an agent works with is on disk: no stop of Central makes it    *)
(* unknown ("Register is atomic with persistence").                           *)
AckedSaved ==
  up => \A m \in Machines : agent[m].id \in mem.stored => agent[m].id \in disk.stored

(* What Central has deleted, expired or removed, is deleted on disk: a stop   *)
(* brings no node back, a refused write deletes nothing.                      *)
DeletedStaysDeleted == up => disk.stored \subseteq mem.stored

(* A revoked identity is not stored while Central runs and no write has been  *)
(* refused: a stop between the journal and state.json is made good before     *)
(* requests are served.                                                       *)
RevokedNotStored == up /\ faults = 0 => mem.stored \cap Revoked = {}

(* Machine keys that keep Central from starting: an archived identity had one *)
(* in the initial store, the node it is archived into had none, and that node *)
(* was since given the key of another machine.                                *)
KeysParted ==
  \E i \in Archived(disk) :
    /\ disk.alias[i] = Merged[i] /\ disk.key[i] = InitialStore.key[i]
    /\ InitialStore.key[Merged[i]] = NoKey
    /\ NoKey \notin {disk.key[i], disk.key[Merged[i]]} /\ disk.key[i] # disk.key[Merged[i]]

(* As long as the operator has merged nothing, the state and configuration a  *)
(* stopped Central finds let it start; only a second machine that reports     *)
(* under a merged node can prevent it.                                        *)
CanStartAgain == ~up /\ merges = 0 => CanStart \/ KeysParted

(* And after a merge that "merge-nodes" has accepted.                         *)
CanStartMerged == ~up => CanStart

(* Action properties *)

(* Once revoked, always revoked.                                              *)
RevokedForever == [][Revoked \subseteq Revoked']_vars

(* No packet of a revoked identity counts as a contact, however late it is.   *)
RevokedSilent ==
  [][\A i \in Revoked \cap mem.stored \cap mem'.stored :
       mem'.contact[i] = "fresh" => mem.contact[i] \in {"fresh", "none", "future"}]_vars

(* A removed node stays out: an agent drops its identity, to register again by *)
(* itself, only on the answer "unknown node", and Central gives that answer to *)
(* no identity it has revoked, even when the removal comes between the lookup  *)
(* and the second look under removalMu (handleRemoval, errIdentityRejected).   *)
RemovedStaysOut ==
  [][/\ \A r \in reqs' \ reqs : r.st = "401" => r.id \notin Revoked
     /\ \A m \in Machines :
          agent[m].st = "running" /\ agent'[m].st = "registering" /\ wipes' = wipes
            => \E r \in reqs \ reqs' : r.m = m /\ r.st = "401"]_vars

(* Central forgets a saved identity only when it is revoked or when its       *)
(* canonical node has been silent for more than an hour.                      *)
ForgottenForAReason ==
  [][\A i \in disk.stored \ disk'.stored :
       i \in Revoked' \/ mem.contact[Canonical(mem, i)] = "stale"]_vars

(* A machine is cleaned only under an uninstall that the operator asked for    *)
(* and Central's journal holds as accepted with that nonce: a removal from the *)
(* list, or an answer given before the write, cleans no machine.               *)
CleaningIsOnRecord ==
  [][\A m \in Machines :
       helper[m].ph # "cleaning" /\ helper'[m].ph = "cleaning"
         => /\ journal'[helper[m].id].status = "accepted"
            /\ journal'[helper[m].id].nonce = helper[m].nonce]_vars

(* What the operator was told has failed stays failed under its nonce: an      *)
(* "accept" that is delivered after its helper gave up does not revive it.     *)
FailedIsFinal ==
  [][\A i \in Ids :
       journal[i].status = "failed" /\ journal'[i].nonce = journal[i].nonce
         => journal'[i].status = "failed"]_vars

(* Registration hands out an identity its machine can use.                    *)
GivenUsable(m) ==
  agent[m].st = "registering" /\ agent'[m].st = "running"
    => agent'[m].id \notin Revoked

NewIdentityUsable == [][\A m \in Machines : GivenUsable(m)]_vars

(* And it does as long as no write is refused, through stops, merges and wipes. *)
SavedIdentityUsable == [][faults = 0 => \A m \in Machines : GivenUsable(m)]_vars

(* A merge lasts: through expiries, refused writes, stops and registrations   *)
(* an archived identity is stored only as such; nothing but the removal of    *)
(* the node it was merged into brings it back into the list.                  *)
MergesLast ==
  [][\A i \in Archived(disk) :
       i \in disk'.stored \ Archived(disk') => disk.alias[i] \in Revoked']_vars

(* What ApplyAliases says: an archived identity is never listed as an         *)
(* additional server.                                                         *)
ArchivedStaysHidden ==
  [][\A i \in Archived(disk) : i \in disk'.stored => i \in Archived(disk')]_vars

(* Liveness *)

(* An agent that Central does not know, after an expiry, a restart or a lost   *)
(* reply, becomes known again by itself, unless it was removed or is gone.     *)
(* The model has only so many identities to hand out.                          *)
AgentReturns ==
  \A m \in Machines :
    agent[m].st \in {"registering", "running"}
      ~> \/ agent[m].id \in mem.stored \cup Revoked
         \/ agent[m].st \notin {"registering", "running"}
         \/ used = Ids

(* An uninstall comes to an end on its machine, whatever Central answers and   *)
(* whether or not it answers, and nothing is left that would start it again.   *)
UninstallEnds ==
  \A m \in Machines : helper[m] # Idle ~> helper[m] = Idle
=============================================================================
