------------------------------ MODULE Presence ------------------------------
(***************************************************************************)
(* Online accounts, from the sources of the nodes to the registry in       *)
(* Central's memory (internal/presence, agent/presence.go,                 *)
(* central/presence.go).  A sender numbers its packets within an epoch and *)
(* sends changes against the sample that was acknowledged last, or the     *)
(* whole set when it is not sure.  Requests and replies may be lost, late  *)
(* or repeated; agents and Central may be started again.                   *)
(***************************************************************************)
EXTENDS Naturals, Sequences, FiniteSets, FiniteSetsExt

CONSTANTS
  Nodes,
  Central,      \* the node whose source Central reads itself ("central")
  Users,        \* pseudonyms of accounts
  Retained,     \* retired epochs an entry keeps (8 in the code)
  Capacity,     \* accounts in the registry (250000)
  NodeLimit,    \* entries in the registry (256)
  MaxEpochs,    \* bound: epochs drawn, for each node
  MaxSamples,   \* bound: samples taken, for each node
  MaxLost,      \* bound: exchanges given up by an agent
  MaxRepeats,   \* bound: packets delivered once more
  MaxRestarts,  \* bound: starts of Central
  MaxLeft       \* bound: nodes that are archived, removed or not counted

ASSUME PresenceAssumption ==
  /\ Central \in Nodes
  /\ IsFiniteSet(Nodes) /\ IsFiniteSet(Users)
  /\ Retained \in Nat \ {0}
  /\ {Capacity, NodeLimit, MaxLost, MaxRepeats, MaxRestarts, MaxLeft} \subseteq Nat
  /\ MaxEpochs \in [Nodes -> Nat] /\ MaxSamples \in [Nodes -> Nat]

VARIABLES
  sender,     \* presence.Sender of each node
  pending,    \* the packet the agent of a node waits for
  reply,      \* the answer on its way to it
  net,        \* packets with Central, as requests whose handler has not ended
  registry,   \* presence.Registry
  active,     \* Store.IsActiveNode
  scope,      \* presenceScope: the nodes whose accounts are counted
  taken,      \* every sample taken: for each node and epoch, in order
  lost, repeats, restarts   \* counters of the bounds

agents == <<sender, pending, taken>>
bounds == <<lost, repeats, restarts>>
vars == <<agents, reply, net, registry, active, scope, bounds>>

-----------------------------------------------------------------------------
Status == {"ok", "down"}   \* "down": unavailable, source_changed, unsupported, ...
Sample == [status : Status, users : SUBSET Users, sent : BOOLEAN]
Sender == [epoch : Nat, seq : Nat, previous : SUBSET Users, force : BOOLEAN,
           status : Status \cup {"none"},
           aged : BOOLEAN]    \* the last full packet is more than a minute old
Packet == [node : Nodes, epoch : Nat, seq : Nat, full : BOOLEAN, status : Status,
           add : SUBSET Users, remove : SUBSET Users, users : SUBSET Users,
           checked : BOOLEAN,    \* its handler has passed IsActiveNode
           old : BOOLEAN]        \* sent before the entry of its node was last seen
Entry == [epoch : Nat, seq : Nat, users : SUBSET Users, status : Status \cup {"none"},
          age : {"fresh", "stale", "old"},   \* seen up to 6 s, 5 min, longer ago
          retired : Seq(Nat),
          past : Seq(Nat)]       \* every epoch this entry has replaced, in order

NoEntry == [epoch |-> 0, seq |-> 0, users |-> {}, status |-> "none", age |-> "old",
            retired |-> <<>>, past |-> <<>>]
NoPacket == [epoch |-> 0]
NewSender(e) == [epoch |-> e, seq |-> 0, previous |-> {}, force |-> TRUE,
                 status |-> "none", aged |-> FALSE]

Known(n) == registry[n].epoch # 0

TypeOK ==
  /\ sender \in [Nodes -> Sender]
  /\ pending \in [Nodes -> Packet \cup {NoPacket}]
  /\ reply \in [Nodes -> {"none", "204", "409"}]
  /\ \A n \in Nodes : reply[n] # "none" => pending[n] # NoPacket
  /\ net \subseteq Packet
  /\ registry \in [Nodes -> Entry]
  /\ \A n \in Nodes : Len(registry[n].retired) <= Retained
  /\ active \subseteq Nodes /\ scope \subseteq Nodes
  /\ taken \in [Nodes -> Seq(Seq(Sample))]
  /\ lost \in Nat /\ repeats \in Nat /\ restarts \in Nat

Init ==
  /\ sender = [n \in Nodes |-> NewSender(1)]
  /\ pending = [n \in Nodes |-> NoPacket]
  /\ reply = [n \in Nodes |-> "none"]
  /\ net = {} /\ registry = [n \in Nodes |-> NoEntry]
  /\ active = Nodes /\ scope = Nodes
  /\ taken = [n \in Nodes |-> <<<<>>>>]
  /\ lost = 0 /\ repeats = 0 /\ restarts = 0

-----------------------------------------------------------------------------
(* The registry: what Apply makes of packet p. *)

(* A packet of the epoch that is not newer: the last one again is confirmed. *)
Repeated(p) == LET e == registry[p.node] IN e.epoch = p.epoch /\ p.seq = e.seq

(* A mutant of Unusable: a whole set is taken whatever its number. *)
UnusableUnlessFull(p) ==
  LET e == registry[p.node] IN
  /\ ~Repeated(p)
  /\ \/ \E i \in DOMAIN e.retired : e.retired[i] = p.epoch
     \/ ~p.full /\ (e.epoch # p.epoch \/ p.seq # e.seq + 1 \/ e.status # "ok")
     \/ ~p.full /\ ~(p.remove \subseteq e.users)
     \/ ~p.full /\ p.add \cap (e.users \ p.remove) # {}

(* ErrResync: older, of a retired epoch, or changes to what is not held. *)
Unusable(p) ==
  LET e == registry[p.node] IN
  /\ ~Repeated(p)
  /\ \/ e.epoch = p.epoch /\ p.seq < e.seq
     \/ \E i \in DOMAIN e.retired : e.retired[i] = p.epoch
     \/ ~p.full /\ (e.epoch # p.epoch \/ p.seq # e.seq + 1 \/ e.status # "ok")
     \/ ~p.full /\ ~(p.remove \subseteq e.users)
     \/ ~p.full /\ p.add \cap (e.users \ p.remove) # {}

(* "Nothing has changed". *)
Heartbeat(p) == ~p.full /\ p.add = {} /\ p.remove = {}

UsersAfter(p) ==
  IF p.full THEN p.add ELSE (registry[p.node].users \ p.remove) \cup p.add

(* Entries of other nodes that have been silent for five minutes are dropped. *)
Collected(n) ==
  [m \in Nodes |-> IF m # n /\ registry[m].age = "old" THEN NoEntry ELSE registry[m]]

(* The entries the limits are counted over: every other one that is kept. *)
Others(n) == {m \in Nodes \ {n} : Known(m) /\ registry[m].age # "old"}

(* The accounts these nodes hold, each of them once for every node.        *)
AccountsOf(ms) == {a \in Nodes \X Users : a[1] \in ms /\ a[2] \in registry[a[1]].users}

(* A mutant of Fits: one entry too many. *)
FitsOneMore(p) ==
  /\ Cardinality(UsersAfter(p)) + Cardinality(AccountsOf(Others(p.node))) <= Capacity
  /\ Known(p.node) \/ Cardinality(Others(p.node)) <= NodeLimit

Fits(p) ==
  /\ Cardinality(UsersAfter(p)) + Cardinality(AccountsOf(Others(p.node))) <= Capacity
  /\ Known(p.node) \/ Cardinality(Others(p.node)) < NodeLimit

(* A mutant of KeepLast: one epoch too few. *)
KeepLastButOne(s) == IF Len(s) >= Retained THEN Tail(s) ELSE s

KeepLast(s) == IF Len(s) > Retained THEN Tail(s) ELSE s

(* Retired: the epochs this entry has replaced, the last ones of them. *)
Retired(p) ==
  LET e == registry[p.node]
  IN  IF e.epoch \in {0, p.epoch} THEN e.retired ELSE KeepLast(Append(e.retired, e.epoch))

NewEntry(p) ==
  LET e == registry[p.node]
  IN  [epoch |-> p.epoch, seq |-> p.seq, users |-> UsersAfter(p), status |-> p.status,
       age |-> "fresh", retired |-> Retired(p),
       past |-> IF e.epoch \in {0, p.epoch} THEN e.past ELSE Append(e.past, e.epoch)]

Accepted(p) == ~Unusable(p) /\ (Repeated(p) \/ Heartbeat(p) \/ Fits(p))
Renewed(p) == Accepted(p) /\ ~Repeated(p)

Applied(p) ==
  CASE Unusable(p) \/ Repeated(p) -> registry
    [] ~Unusable(p) /\ ~Repeated(p) /\ Heartbeat(p) ->
         [registry EXCEPT ![p.node].seq = p.seq, ![p.node].age = "fresh"]
    [] ~Unusable(p) /\ ~Repeated(p) /\ ~Heartbeat(p) /\ Fits(p) -> [Collected(p.node) EXCEPT ![p.node] = NewEntry(p)]
    [] OTHER -> Collected(p.node)

-----------------------------------------------------------------------------
(* The sender. *)

PacketOf(n, s, status, users) ==
  LET full == s.force \/ s.status # status \/ status # "ok" \/ s.aged
  IN  [node |-> n, epoch |-> s.epoch, seq |-> s.seq + 1, full |-> full, status |-> status,
       add |-> IF full THEN users ELSE users \ s.previous,
       remove |-> IF full THEN {} ELSE s.previous \ users,
       users |-> users, checked |-> FALSE, old |-> FALSE]

Ack(s, p) ==
  [s EXCEPT !.seq = p.seq, !.status = p.status, !.previous = p.users, !.force = FALSE,
            !.aged = @ /\ ~p.full]

(* A mutant of Resync: after a lost reply the sender goes on as before. *)
ResyncOff(s) == s

Resync(s) == [s EXCEPT !.force = TRUE]

Taken(n, sample, fresh) ==
  taken' = IF fresh THEN [taken EXCEPT ![n] = Append(@, <<sample>>)]
           ELSE [taken EXCEPT ![n][Len(taken[n])] = Append(@, sample)]

SamplesLeft(n) ==
  MapThenSumSet(LAMBDA e : Len(taken[n][e]), DOMAIN taken[n]) < MaxSamples[n]

(* One turn of presenceLoop: a new generation of the source gets a new epoch.  *)
(* Without a readable identity the packet is not sent.                         *)
Send(n) ==
  /\ n # Central /\ pending[n] = NoPacket /\ SamplesLeft(n)
  /\ \E status \in Status, users \in SUBSET Users, sent, fresh \in BOOLEAN :
       LET s == IF fresh THEN NewSender(Len(taken[n]) + 1) ELSE sender[n]
           p == PacketOf(n, s, status, users)
       IN  /\ status = "down" => users = {}
           /\ fresh => Len(taken[n]) < MaxEpochs[n]
           /\ sender' = [sender EXCEPT ![n] = [s EXCEPT !.seq = @ + 1]]
           /\ Taken(n, [status |-> status, users |-> users, sent |-> sent], fresh)
           /\ IF sent THEN pending' = [pending EXCEPT ![n] = p] /\ net' = net \cup {p}
                      ELSE UNCHANGED <<pending, net>>
  /\ UNCHANGED <<reply, registry, active, scope, bounds>>

(* The reply is read: Ack or Resync. *)
Read(n) ==
  /\ reply[n] # "none"
  /\ sender' = [sender EXCEPT ![n] = IF reply[n] = "204" THEN Ack(@, pending[n])
                                     ELSE Resync(@)]
  /\ pending' = [pending EXCEPT ![n] = NoPacket]
  /\ reply' = [reply EXCEPT ![n] = "none"]
  /\ UNCHANGED <<net, registry, active, scope, taken, bounds>>

Awaited(p) == pending[p.node] # NoPacket /\ pending[p.node].epoch = p.epoch
              /\ pending[p.node].seq = p.seq

(* No answer within two seconds; the request, if it is still under way, is     *)
(* handled late or not at all.                                                 *)
Timeout(n) ==
  /\ pending[n] # NoPacket
  /\ LET mine == {p \in net : p.node = n /\ Awaited(p)}
     IN  /\ IF mine = {} /\ reply[n] = "none" THEN UNCHANGED lost
            ELSE lost < MaxLost /\ lost' = lost + 1
         /\ net' \in {net, net \ mine}
  /\ sender' = [sender EXCEPT ![n] = Resync(@)]
  /\ pending' = [pending EXCEPT ![n] = NoPacket]
  /\ reply' = [reply EXCEPT ![n] = "none"]
  /\ UNCHANGED <<registry, active, scope, taken, repeats, restarts>>

AgentRestart(n) ==
  /\ n # Central /\ Len(taken[n]) < MaxEpochs[n]
  /\ sender' = [sender EXCEPT ![n] = NewSender(Len(taken[n]) + 1)]
  /\ taken' = [taken EXCEPT ![n] = Append(@, <<>>)]
  /\ pending' = [pending EXCEPT ![n] = NoPacket]
  /\ reply' = [reply EXCEPT ![n] = "none"]
  /\ UNCHANGED <<net, registry, active, scope, bounds>>

(* A minute since the last full packet. *)
Minute(n) ==
  /\ ~sender[n].force /\ ~sender[n].aged
  /\ sender' = [sender EXCEPT ![n].aged = TRUE]
  /\ UNCHANGED <<pending, reply, net, registry, active, scope, taken, bounds>>

-----------------------------------------------------------------------------
(* Central: receivePresence. *)

(* A mutant of Answer: the agent takes a late answer for the one it waits for. *)
AnswerAnyway(p, code) == reply' = [reply EXCEPT ![p.node] = code]

Answer(p, code) ==
  reply' = IF Awaited(p) THEN [reply EXCEPT ![p.node] = code] ELSE reply

(* A request is over, or is delivered once more. *)
Done(p, rest) ==
  \/ net' = rest /\ UNCHANGED repeats
  \/ /\ repeats < MaxRepeats /\ repeats' = repeats + 1
     /\ net' = rest \cup {[p EXCEPT !.checked = FALSE]}

(* GetNode, IsActiveNode: a source that was archived or removed is refused. *)
Check(p) ==
  /\ ~p.checked
  /\ IF p.node \in active
     THEN /\ net' = (net \ {p}) \cup {[p EXCEPT !.checked = TRUE]}
          /\ UNCHANGED <<reply, repeats>>
     ELSE Answer(p, "409") /\ Done(p, net \ {p})
  /\ UNCHANGED <<agents, registry, active, scope, lost, restarts>>

(* Once its entry has been seen, what the node sent before is older than that. *)
Seen(n, packets) ==
  {IF p.node = n THEN [p EXCEPT !.old = TRUE] ELSE p : p \in packets}

Apply(p) ==
  /\ p.checked
  /\ registry' = Applied(p)
  /\ Answer(p, IF Accepted(p) THEN "204" ELSE "409")
  /\ LET rest == IF Renewed(p) THEN Seen(p.node, net \ {p}) ELSE net \ {p}
     IN  Done([p EXCEPT !.old = @ \/ Renewed(p)], rest)
  /\ UNCHANGED <<agents, active, scope, lost, restarts>>

(* localPresence: Central's own source, without a network in between. *)
Local ==
  /\ SamplesLeft(Central)
  /\ \E status \in Status, users \in SUBSET Users, changed \in BOOLEAN :
       LET s == IF changed THEN Resync(sender[Central]) ELSE sender[Central]
           p == PacketOf(Central, s, status, users)
           next == [s EXCEPT !.seq = @ + 1]
       IN  /\ status = "down" => users = {}
           /\ registry' = Applied(p)
           /\ sender' = [sender EXCEPT ![Central] =
                IF Accepted(p) THEN Ack(next, p) ELSE Resync(next)]
           /\ Taken(Central, [status |-> status, users |-> users, sent |-> TRUE], FALSE)
  /\ UNCHANGED <<pending, reply, net, active, scope, bounds>>

(* A mutant of Forgettable: only silent nodes are forgotten. *)
ForgettableWhenOld(n) == Known(n) /\ registry[n].age = "old"

(* SnapshotWithQuality, once a second: forgotten nodes keep no accounts. *)
Forgettable(n) == Known(n) /\ (n \notin active \cap scope \/ registry[n].age = "old")

Snapshot ==
  /\ \E n \in Nodes : Forgettable(n)
  /\ registry' = [n \in Nodes |-> IF Forgettable(n) THEN NoEntry ELSE registry[n]]
  /\ UNCHANGED <<agents, reply, net, active, scope, bounds>>

(* Time passes for an entry.  After five minutes nothing that was sent before  *)
(* its last packet is accepted: a request is refused when it is older than     *)
(* thirty seconds.                                                             *)
Age(n) ==
  /\ Known(n)
  /\ \/ /\ registry[n].age = "fresh"
        /\ registry' = [registry EXCEPT ![n].age = "stale"] /\ UNCHANGED net
     \/ /\ registry[n].age = "stale"
        /\ registry' = [registry EXCEPT ![n].age = "old"]
        /\ net' = {p \in net : ~(p.node = n /\ p.old)}
  /\ UNCHANGED <<agents, reply, active, scope, bounds>>

(* Central is started again: its memory and the open requests are gone. *)
Restart ==
  /\ restarts < MaxRestarts /\ restarts' = restarts + 1
  /\ registry' = [n \in Nodes |-> NoEntry] /\ net' = {}
  /\ sender' = [sender EXCEPT ![Central] = NewSender(Len(taken[Central]) + 1)]
  /\ taken' = [taken EXCEPT ![Central] = Append(@, <<>>)]
  /\ UNCHANGED <<pending, reply, active, scope, lost, repeats>>

(* The node is archived, expired or removed. *)
Retire(n) ==
  /\ n \in active \ {Central} /\ active' = active \ {n}
  /\ Cardinality(Nodes \ (active' \cap scope)) <= MaxLeft
  /\ UNCHANGED <<agents, reply, net, registry, scope, bounds>>

(* The operator's configuration or the reconciler's scope file changes. *)
Rescope(n) ==
  /\ scope' = IF n \in scope THEN scope \ {n} ELSE scope \cup {n}
  /\ Cardinality(Nodes \ (active \cap scope')) <= MaxLeft
  /\ UNCHANGED <<agents, reply, net, registry, active, bounds>>

-----------------------------------------------------------------------------
Next ==
  \/ \E n \in Nodes : \/ Send(n) \/ Read(n) \/ Timeout(n) \/ AgentRestart(n)
                      \/ Minute(n) \/ Age(n) \/ Retire(n) \/ Rescope(n)
  \/ \E p \in net : Check(p) \/ Apply(p)
  \/ Local \/ Snapshot \/ Restart

Spec == Init /\ [][Next]_vars

(* The web panel takes its snapshots every second. *)
FairSpec == Spec /\ WF_vars(Snapshot)

-----------------------------------------------------------------------------
(* Invariants *)

(* Changes are applied only to the very sample they were computed against:    *)
(* whatever was lost, late or repeated, the accounts Central holds of a node  *)
(* are the ones of the sample whose number it holds, never a mixture.         *)
ExactUsers ==
  \A n \in Nodes : Known(n) =>
    LET e == registry[n] IN /\ e.epoch \in DOMAIN taken[n]
                            /\ e.seq \in DOMAIN taken[n][e.epoch]
                            /\ e.users = taken[n][e.epoch][e.seq].users
                            /\ e.status = taken[n][e.epoch][e.seq].status

(* A sender that was replaced does not come back ("accepted retired epoch"),  *)
(* however late its packets arrive, as long as the entry of its node is kept   *)
(* and until more others have been replaced after it than an entry keeps.     *)
StaysOut(e) ==
  \A i \in DOMAIN e.past : e.past[i] = e.epoch => Len(e.past) - i > Retained

RetiredStaysOut == \A n \in Nodes : StaysOut(registry[n])

(* The registry stays within its limits, whoever grows first.                 *)
CapacityKept ==
  LET known == {n \in Nodes : Known(n)}
  IN  /\ Cardinality(AccountsOf(known)) <= Capacity
      /\ Cardinality(known) <= NodeLimit

(* Action properties *)

(* What Central holds of a node is never replaced by an older sample           *)
(* ("a lost acknowledgment cannot leave phantom users").                       *)
NoPhantoms ==
  [][\A n \in Nodes :
       Known(n) /\ registry'[n].epoch # 0 => registry'[n].epoch >= registry[n].epoch]_vars

(* Liveness *)

(* Of a node that was archived or removed nothing is kept, even when a packet  *)
(* had passed IsActiveNode before and is applied afterwards.                   *)
RetiredForgotten == <>[](\A n \in Nodes : Known(n) => n \in active)

(* What a reader of the registry is promised. *)
View == INSTANCE PresenceView WITH
  at <- [n \in Nodes |-> <<registry[n].epoch, registry[n].seq>>],
  shown <- [n \in Nodes |-> IF registry[n].age = "fresh" /\ registry[n].status = "ok"
                            THEN <<registry[n].users>> ELSE <<>>]

(* The registry implements its abstract view: a reader sees a sample as it was *)
(* taken or nothing, never an earlier one of the same sender after a later     *)
(* one, and a repeated or late packet makes no entry look alive ("replay       *)
(* refreshed sample").                                                         *)
ViewSpec == View!Spec
=============================================================================
