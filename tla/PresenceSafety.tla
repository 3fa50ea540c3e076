--------------------------- MODULE PresenceSafety ---------------------------
(***************************************************************************)
(* The accounts Central holds of a node are exactly one of its samples:    *)
(* proved from the type invariant of PresenceProofs.                       *)
(***************************************************************************)
EXTENDS PresenceProofs, FiniteSetTheorems

(* Sample k of life e of node n is in the history t. *)
Recorded(t, n, e, k) == e \in DOMAIN t[n] /\ k \in DOMAIN t[n][e]

(* It was sent, with these accounts and this status. *)
IsSample(t, n, e, k, users, status) ==
  /\ Recorded(t, n, e, k) /\ t[n][e][k].sent
  /\ t[n][e][k].users = users /\ t[n][e][k].status = status

(* None of the samples between the two was sent. *)
Unsent(t, n, e, j, k) == \A i \in DOMAIN t[n][e] : j < i /\ i < k => ~t[n][e][i].sent

(* A packet stands for its sample: it holds all of it, or the changes against  *)
(* an earlier sample after which nothing else was sent.                        *)
Change(t, p) ==
  \E j \in DOMAIN t[p.node][p.epoch] :
    /\ j < p.seq /\ Unsent(t, p.node, p.epoch, j, p.seq)
    /\ p.add = p.users \ t[p.node][p.epoch][j].users
    /\ p.remove = t[p.node][p.epoch][j].users \ p.users

Faithful(t, p) ==
  /\ IsSample(t, p.node, p.epoch, p.seq, p.users, p.status)
  /\ p.full => p.add = p.users
  /\ ~p.full => p.status = "ok" /\ Change(t, p)

Exact(t, n, e) == e.epoch # 0 => IsSample(t, n, e.epoch, e.seq, e.users, e.status)

(* The sender knows its place in the history, and unless it sends the whole     *)
(* set next, which sample its changes are against.                             *)
Base(t, n, s, waiting) ==
  \E j \in DOMAIN t[n][s.epoch] :
    /\ s.previous = t[n][s.epoch][j].users
    /\ \A i \in DOMAIN t[n][s.epoch] :
         j < i /\ t[n][s.epoch][i].sent => waiting /\ i = s.seq

Placed(t, n, s, waiting) ==
  /\ s.epoch = Len(t[n]) /\ s.epoch # 0
  /\ s.seq = Len(t[n][s.epoch])
  /\ ~s.force => Base(t, n, s, waiting)

RegistryInv == \A n \in Nodes : Exact(taken, n, registry[n])
NetInv == \A p \in net : Faithful(taken, p)
PendingInv ==
  \A n \in Nodes : pending[n] # NoPacket =>
    /\ n # Central /\ pending[n].node = n /\ pending[n].epoch = sender[n].epoch
    /\ pending[n].seq = sender[n].seq /\ Faithful(taken, pending[n])
SenderInv == \A n \in Nodes : Placed(taken, n, sender[n], pending[n] # NoPacket)

ExactInv == Typed /\ RegistryInv /\ NetInv /\ PendingInv /\ SenderInv

-----------------------------------------------------------------------------
(* The history only grows. *)
Grows(t, u) ==
  \A n \in Nodes : \A e \in DOMAIN t[n] :
    /\ e \in DOMAIN u[n]
    /\ \A k \in DOMAIN t[n][e] : k \in DOMAIN u[n][e] /\ u[n][e][k] = t[n][e][k]

LEMMA LifeDomain ==
  ASSUME NEW t \in [Nodes -> Lives], NEW n \in Nodes
  PROVE  /\ Len(t[n]) \in Nat /\ DOMAIN t[n] = 1 .. Len(t[n])
         /\ \A e \in DOMAIN t[n] : /\ t[n][e] \in Seq(Sample) /\ Len(t[n][e]) \in Nat
                                   /\ DOMAIN t[n][e] = 1 .. Len(t[n][e])
<1>1. t[n] \in Seq(Seq(Sample))
  BY DEF Lives
<1>2. Len(t[n]) \in Nat /\ DOMAIN t[n] = 1 .. Len(t[n])
  BY <1>1, LenProperties
<1>3. \A e \in DOMAIN t[n] : t[n][e] \in Seq(Sample)
  BY <1>1, <1>2, ElementOfSeq
<1> QED BY <1>2, <1>3, LenProperties

LEMMA SampleKept ==
  ASSUME NEW t, NEW u, Grows(t, u), NEW n \in Nodes, NEW e, NEW k, NEW users, NEW status,
         IsSample(t, n, e, k, users, status)
  PROVE  IsSample(u, n, e, k, users, status)
BY DEF Grows, IsSample, Recorded

LEMMA FaithfulKept ==
  ASSUME NEW t \in [Nodes -> Lives], NEW u \in [Nodes -> Lives], Grows(t, u),
         NEW p \in Packet, Faithful(t, p)
  PROVE  Faithful(u, p)
<1>1. p.node \in Nodes
  BY DEF Packet
<1>2. IsSample(u, p.node, p.epoch, p.seq, p.users, p.status)
  BY <1>1, SampleKept DEF Faithful
<1>3. ASSUME ~p.full PROVE Change(u, p)
  <2>1. PICK j \in DOMAIN t[p.node][p.epoch] :
          /\ j < p.seq /\ Unsent(t, p.node, p.epoch, j, p.seq)
          /\ p.add = p.users \ t[p.node][p.epoch][j].users
          /\ p.remove = t[p.node][p.epoch][j].users \ p.users
    BY <1>3 DEF Faithful, Change
  <2>2. p.epoch \in DOMAIN t[p.node] /\ p.seq \in DOMAIN t[p.node][p.epoch]
    BY DEF Faithful, IsSample, Recorded
  <2>3. j \in DOMAIN u[p.node][p.epoch] /\ u[p.node][p.epoch][j] = t[p.node][p.epoch][j]
    BY <1>1, <2>2 DEF Grows
  <2>4. ASSUME NEW i \in DOMAIN u[p.node][p.epoch], j < i, i < p.seq
        PROVE  ~u[p.node][p.epoch][i].sent
    <3>1. i \in DOMAIN t[p.node][p.epoch]
      <4>1. p.epoch \in DOMAIN u[p.node]
        BY <1>1, <2>2 DEF Grows
      <4>2. i \in Nat /\ i >= 1
        BY <1>1, <4>1, LifeDomain
      <4> QED BY <1>1, <2>2, <2>4, <4>2, LifeDomain
    <3>2. ~t[p.node][p.epoch][i].sent
      BY <2>1, <2>4, <3>1 DEF Unsent
    <3> QED BY <1>1, <2>2, <3>1, <3>2 DEF Grows
  <2> QED BY <2>1, <2>3, <2>4 DEF Change, Unsent
<1> QED BY <1>2, <1>3 DEF Faithful

-----------------------------------------------------------------------------
(* The registry. *)

LEMMA ChangesMatch ==
  ASSUME registry \in [Nodes -> Entries], NEW t \in [Nodes -> Lives], NEW p \in Packet,
         Exact(t, p.node, registry[p.node]), Faithful(t, p), ~Unusable(p), ~Repeated(p), ~p.full
  PROVE  /\ registry[p.node].epoch = p.epoch /\ registry[p.node].status = p.status
         /\ p.add = p.users \ registry[p.node].users
         /\ p.remove = registry[p.node].users \ p.users
<1> DEFINE e == registry[p.node]
           life == t[p.node][p.epoch]
<1>1. e.epoch = p.epoch /\ p.seq = e.seq + 1 /\ e.status = "ok"
  BY DEF Unusable
<1>2. p.epoch \in DOMAIN t[p.node] /\ p.seq \in DOMAIN life /\ p.node \in Nodes
  BY DEF Faithful, IsSample, Recorded, Packet
<1>3. p.epoch # 0
  BY <1>2, LifeDomain
<1>4. e.seq \in DOMAIN life /\ life[e.seq].sent /\ life[e.seq].users = e.users
  BY <1>1, <1>3 DEF Exact, IsSample, Recorded
<1>5. PICK j \in DOMAIN life :
        /\ j < p.seq /\ Unsent(t, p.node, p.epoch, j, p.seq)
        /\ p.add = p.users \ life[j].users /\ p.remove = life[j].users \ p.users
  BY DEF Faithful, Change
<1>6. j \in Nat /\ e.seq \in Nat
  BY <1>2, <1>4, LifeDomain
<1>7. ~(j < e.seq)
  <2>1. e.seq < p.seq
    BY <1>1, <1>6
  <2> QED BY <1>4, <1>5, <2>1, Zenon DEF Unsent
<1>8. j = e.seq
  BY <1>1, <1>5, <1>6, <1>7
<1> QED BY <1>1, <1>4, <1>5, <1>8 DEF Faithful

LEMMA UsersAfterExact ==
  ASSUME registry \in [Nodes -> Entries], NEW t \in [Nodes -> Lives], NEW p \in Packet,
         Exact(t, p.node, registry[p.node]), Faithful(t, p), ~Unusable(p), ~Repeated(p)
  PROVE  UsersAfter(p) = p.users
<1>1. CASE p.full
  BY <1>1 DEF UsersAfter, Faithful
<1>2. CASE ~p.full
  BY <1>2, ChangesMatch DEF UsersAfter
<1> QED BY <1>1, <1>2

LEMMA AppliedExact ==
  ASSUME registry \in [Nodes -> Entries], NEW t \in [Nodes -> Lives], NEW p \in Packet,
         \A n \in Nodes : Exact(t, n, registry[n]), Faithful(t, p)
  PROVE  \A n \in Nodes : Exact(t, n, Applied(p)[n])
<1>1. p.node \in Nodes /\ Exact(t, p.node, registry[p.node])
  BY DEF Packet
<1>2. \A n \in Nodes : Exact(t, n, Collected(p.node)[n])
  BY DEF Collected, NoEntry, Exact
<1>3. Collected(p.node) \in [Nodes -> Entries]
  BY NoEntryType DEF Collected
<1>4. CASE Unusable(p) \/ Repeated(p)
  BY <1>4 DEF Applied
<1>5. CASE ~Unusable(p) /\ ~Repeated(p) /\ Heartbeat(p)
  <2> DEFINE e == [registry[p.node] EXCEPT !.seq = p.seq, !.age = "fresh"]
  <2>1. Applied(p) = [registry EXCEPT ![p.node].seq = p.seq, ![p.node].age = "fresh"]
    BY <1>5 DEF Applied
  <2>2. Applied(p) = [registry EXCEPT ![p.node] = e]
    BY <2>1
  <2>3. /\ registry[p.node].epoch = p.epoch /\ registry[p.node].status = p.status
        /\ registry[p.node].users = p.users
    <3>1. ~p.full /\ p.add = {} /\ p.remove = {}
      BY <1>5 DEF Heartbeat
    <3>2. /\ registry[p.node].epoch = p.epoch /\ registry[p.node].status = p.status
          /\ p.users \ registry[p.node].users = {} /\ registry[p.node].users \ p.users = {}
      BY <1>1, <1>5, <3>1, ChangesMatch
    <3>3. registry[p.node].users = p.users
      BY <3>2
    <3> QED BY <3>2, <3>3
  <2>4. registry[p.node] \in Entry
    BY <1>1 DEF Entries
  <2>5. e.epoch = p.epoch /\ e.seq = p.seq /\ e.users = p.users /\ e.status = p.status
    BY <2>3, <2>4 DEF Entry
  <2> HIDE DEF e
  <2>6. Exact(t, p.node, e)
    BY <2>5 DEF Exact, Faithful
  <2> QED BY <1>1, <2>2, <2>6
<1>6. CASE ~Unusable(p) /\ ~Repeated(p) /\ ~Heartbeat(p) /\ Fits(p)
  <2>1. Applied(p) = [Collected(p.node) EXCEPT ![p.node] = NewEntry(p)]
    BY <1>6 DEF Applied
  <2>2. /\ NewEntry(p).epoch = p.epoch /\ NewEntry(p).seq = p.seq
        /\ NewEntry(p).users = UsersAfter(p) /\ NewEntry(p).status = p.status
    BY DEF NewEntry
  <2>3. UsersAfter(p) = p.users
    BY <1>1, <1>6, UsersAfterExact
  <2>4. Exact(t, p.node, NewEntry(p))
    BY <2>2, <2>3 DEF Exact, Faithful
  <2> QED BY <1>1, <1>2, <1>3, <2>1, <2>4
<1>7. CASE ~Unusable(p) /\ ~Repeated(p) /\ ~Heartbeat(p) /\ ~Fits(p)
  BY <1>2, <1>7 DEF Applied
<1> QED BY <1>4, <1>5, <1>6, <1>7

-----------------------------------------------------------------------------
(* The history and the sender. *)

LEMMA NewLife ==
  ASSUME taken \in [Nodes -> Lives], NEW n \in Nodes, NEW life \in Seq(Sample),
         taken' = [taken EXCEPT ![n] = Append(@, life)]
  PROVE  /\ Grows(taken, taken')
         /\ Len(taken'[n]) = Len(taken[n]) + 1
         /\ taken'[n][Len(taken[n]) + 1] = life
         /\ \A m \in Nodes \ {n} : taken'[m] = taken[m]
<1>1. taken[n] \in Seq(Seq(Sample)) /\ taken'[n] = Append(taken[n], life)
  BY DEF Lives
<1>2. /\ Len(taken'[n]) = Len(taken[n]) + 1 /\ taken'[n][Len(taken[n]) + 1] = life
      /\ DOMAIN taken'[n] = 1 .. Len(taken[n]) + 1
      /\ \A i \in 1 .. Len(taken[n]) : taken'[n][i] = taken[n][i]
  <2>1. taken'[n] \in Seq(Seq(Sample))
    BY <1>1, AppendProperties
  <2> QED BY <1>1, <2>1, AppendProperties, LenProperties
<1>3. \A e \in DOMAIN taken[n] : e \in DOMAIN taken'[n] /\ taken'[n][e] = taken[n][e]
  BY <1>2, LifeDomain
<1> QED BY <1>2, <1>3 DEF Grows

LEMMA NewSample ==
  ASSUME taken \in [Nodes -> Lives], NEW n \in Nodes, taken[n] # <<>>,
         NEW sample \in Sample, Taken(n, sample, FALSE)
  PROVE  LET last == Len(taken[n])
             k == Len(taken[n][last]) + 1
         IN  /\ Grows(taken, taken')
             /\ last \in DOMAIN taken[n] /\ Len(taken'[n]) = last
             /\ Len(taken'[n][last]) = k /\ taken'[n][last][k] = sample
             /\ \A i \in DOMAIN taken'[n][last] : i # k => i \in DOMAIN taken[n][last]
             /\ \A m \in Nodes \ {n} : taken'[m] = taken[m]
<1> DEFINE last == Len(taken[n])
           life == taken[n][last]
           k == Len(life) + 1
<1>1. taken[n] \in Seq(Seq(Sample)) /\ last \in Nat /\ DOMAIN taken[n] = 1 .. last
  BY LifeDomain DEF Lives
<1>2. last \in DOMAIN taken[n]
  BY <1>1, EmptySeq
<1>3. life \in Seq(Sample) /\ Len(life) \in Nat /\ DOMAIN life = 1 .. Len(life)
  BY <1>2, LifeDomain
<1>4. taken' = [taken EXCEPT ![n] = [taken[n] EXCEPT ![last] = Append(life, sample)]]
  BY DEF Taken
<1>5. taken'[n] = [taken[n] EXCEPT ![last] = Append(life, sample)]
  BY <1>4
<1>6. /\ DOMAIN taken'[n] = DOMAIN taken[n] /\ taken'[n][last] = Append(life, sample)
      /\ \A e \in DOMAIN taken[n] : e # last => taken'[n][e] = taken[n][e]
  BY <1>2, <1>5
<1>7. /\ Append(life, sample) \in Seq(Sample) /\ Len(Append(life, sample)) = k
      /\ Append(life, sample)[k] = sample
      /\ \A i \in 1 .. Len(life) : Append(life, sample)[i] = life[i]
  BY <1>3, AppendProperties
<1>8. DOMAIN Append(life, sample) = 1 .. k
  BY <1>7, LenProperties
<1>9. taken'[n] \in Seq(Seq(Sample))
  BY <1>1, <1>2, <1>5, <1>7, ExceptSeq
<1>10. Len(taken'[n]) = last
  BY <1>1, <1>6, <1>9, LenProperties
<1>11. \A m \in Nodes \ {n} : taken'[m] = taken[m]
  BY <1>4
<1>12. \A i \in DOMAIN life : i \in DOMAIN taken'[n][last] /\ taken'[n][last][i] = life[i]
  BY <1>3, <1>6, <1>7, <1>8
<1>13. Grows(taken, taken')
  BY <1>6, <1>11, <1>12 DEF Grows
<1>14. \A i \in DOMAIN taken'[n][last] : i # k => i \in DOMAIN life
  BY <1>3, <1>6, <1>8
<1> QED BY <1>2, <1>6, <1>7, <1>10, <1>11, <1>13, <1>14

(* Sender s, about to take the sample: a new one, or the node's own. *)
Ready(n, s, fresh) ==
  \/ fresh /\ s = NewSender(Len(taken[n]) + 1)
  \/ ~fresh /\ Placed(taken, n, s, FALSE)

(* What s knows of the history t with the new sample in it. *)
Extended(t, n, s, sample) ==
  /\ s.epoch # 0 /\ s.epoch = Len(t[n]) /\ s.epoch \in DOMAIN t[n]
  /\ s.seq + 1 = Len(t[n][s.epoch]) /\ s.seq + 1 \in DOMAIN t[n][s.epoch]
  /\ t[n][s.epoch][s.seq + 1] = sample
  /\ ~s.force => \E j \in DOMAIN t[n][s.epoch] :
       /\ j < s.seq + 1 /\ s.previous = t[n][s.epoch][j].users
       /\ \A i \in DOMAIN t[n][s.epoch] :
            j < i /\ i # s.seq + 1 => ~t[n][s.epoch][i].sent

LEMMA SampleTaken ==
  ASSUME taken \in [Nodes -> Lives], NEW n \in Nodes, taken[n] # <<>>, NEW s \in Sender,
         NEW sample \in Sample, NEW fresh \in BOOLEAN, Ready(n, s, fresh),
         Taken(n, sample, fresh)
  PROVE  /\ Grows(taken, taken') /\ Extended(taken', n, s, sample)
         /\ \A m \in Nodes \ {n} : taken'[m] = taken[m]
<1>0. taken' \in [Nodes -> Lives]
  BY TakenType
<1>1. CASE fresh
  <2> DEFINE e == Len(taken[n]) + 1
             life == <<sample>>
  <2>1. life \in Seq(Sample) /\ Len(life) = 1 /\ life[1] = sample
    OBVIOUS
  <2>2. taken' = [taken EXCEPT ![n] = Append(@, life)]
    BY <1>1 DEF Taken
  <2> HIDE DEF life
  <2>3. /\ Grows(taken, taken') /\ Len(taken'[n]) = e /\ taken'[n][e] = life
        /\ \A m \in Nodes \ {n} : taken'[m] = taken[m]
    BY <2>1, <2>2, NewLife
  <2>4. s.epoch = e /\ s.seq = 0 /\ s.force
    BY <1>1 DEF Ready, NewSender
  <2>5. Len(taken[n]) \in Nat
    BY LifeDomain
  <2>6. e # 0 /\ e \in DOMAIN taken'[n] /\ 1 \in DOMAIN taken'[n][e]
    BY <1>0, <2>1, <2>3, <2>5, LifeDomain
  <2> QED BY <2>1, <2>3, <2>4, <2>6 DEF Extended
<1>2. CASE ~fresh
  <2> DEFINE e == Len(taken[n])
             k == Len(taken[n][e]) + 1
  <2>1. /\ Grows(taken, taken') /\ e \in DOMAIN taken[n] /\ Len(taken'[n]) = e
        /\ Len(taken'[n][e]) = k /\ taken'[n][e][k] = sample
        /\ \A i \in DOMAIN taken'[n][e] : i # k => i \in DOMAIN taken[n][e]
        /\ \A m \in Nodes \ {n} : taken'[m] = taken[m]
    BY <1>2, NewSample
  <2>2. s.epoch = e /\ s.epoch # 0 /\ s.seq + 1 = k /\ (~s.force => Base(taken, n, s, FALSE))
    BY <1>2 DEF Ready, Placed
  <2>3. e \in DOMAIN taken'[n] /\ k \in DOMAIN taken'[n][e]
    BY <1>0, <2>1, LifeDomain
  <2>4. ASSUME ~s.force
        PROVE  \E j \in DOMAIN taken'[n][e] :
                 /\ j < k /\ s.previous = taken'[n][e][j].users
                 /\ \A i \in DOMAIN taken'[n][e] : j < i /\ i # k => ~taken'[n][e][i].sent
    <3>1. PICK j \in DOMAIN taken[n][e] :
            /\ s.previous = taken[n][e][j].users
            /\ \A i \in DOMAIN taken[n][e] : ~(j < i /\ taken[n][e][i].sent)
      BY <2>2, <2>4 DEF Base
    <3>2. j < k
      BY <2>1, LifeDomain
    <3>3. \A i \in DOMAIN taken[n][e] :
            i \in DOMAIN taken'[n][e] /\ taken'[n][e][i] = taken[n][e][i]
      BY <2>1 DEF Grows
    <3>4. \A i \in DOMAIN taken'[n][e] : j < i /\ i # k => ~taken'[n][e][i].sent
      BY <2>1, <3>1, <3>3
    <3> QED BY <3>1, <3>2, <3>3, <3>4
  <2> QED BY <2>1, <2>2, <2>3, <2>4 DEF Extended
<1> QED BY <1>1, <1>2

LEMMA PacketFaithful ==
  ASSUME NEW t \in [Nodes -> Lives], NEW n \in Nodes, NEW s \in Sender,
         NEW status \in Status, NEW users \in SUBSET Users,
         Extended(t, n, s, [status |-> status, users |-> users, sent |-> TRUE])
  PROVE  Faithful(t, PacketOf(n, s, status, users))
<1> DEFINE p == PacketOf(n, s, status, users)
           k == s.seq + 1
           sample == [status |-> status, users |-> users, sent |-> TRUE]
<1>1. /\ p.node = n /\ p.epoch = s.epoch /\ p.seq = k /\ p.users = users /\ p.status = status
      /\ p.full => p.add = users
      /\ ~p.full => /\ status = "ok" /\ ~s.force
                    /\ p.add = users \ s.previous /\ p.remove = s.previous \ users
  BY DEF PacketOf
<1> HIDE DEF p
<1>2. sample.sent /\ sample.users = users /\ sample.status = status
  OBVIOUS
<1>3. IsSample(t, n, s.epoch, k, users, status)
  <2> HIDE DEF sample
  <2>1. Extended(t, n, s, sample)
    BY DEF sample
  <2> QED BY <1>2, <2>1 DEF Extended, IsSample, Recorded
<1>4. ASSUME ~p.full PROVE Change(t, p)
  <2>1. PICK j \in DOMAIN t[n][s.epoch] :
          /\ j < k /\ s.previous = t[n][s.epoch][j].users
          /\ \A i \in DOMAIN t[n][s.epoch] : j < i /\ i # k => ~t[n][s.epoch][i].sent
    BY <1>1, <1>4 DEF Extended
  <2>2. Unsent(t, n, s.epoch, j, k)
    <3> SUFFICES ASSUME NEW i \in DOMAIN t[n][s.epoch], j < i, i < k
                 PROVE  ~t[n][s.epoch][i].sent
      BY DEF Unsent
    <3>1. i \in Nat /\ k \in Nat
      BY LifeDomain DEF Extended, Sender
    <3>2. i # k
      BY <3>1
    <3> QED BY <2>1, <3>2
  <2> QED BY <1>1, <1>4, <2>1, <2>2 DEF Change
<1> QED BY <1>1, <1>3, <1>4 DEF Faithful, p

-----------------------------------------------------------------------------
(* What a longer history leaves as it is. *)

LEMMA HistoryKept ==
  ASSUME ExactInv, taken' \in [Nodes -> Lives], Grows(taken, taken')
  PROVE  /\ \A n \in Nodes : Exact(taken', n, registry[n])
         /\ \A p \in net : Faithful(taken', p)
         /\ \A n \in Nodes : pending[n] # NoPacket => Faithful(taken', pending[n])
<1>1. taken \in [Nodes -> Lives] /\ net \subseteq Packet
      /\ \A n \in Nodes : pending[n] # NoPacket => pending[n] \in Packet
  BY DEF ExactInv, Typed, TypeAgents, TypeCentral
<1>2. \A n \in Nodes : Exact(taken', n, registry[n])
  BY SampleKept DEF ExactInv, RegistryInv, Exact
<1>3. \A p \in net : Faithful(taken', p)
  BY <1>1, FaithfulKept DEF ExactInv, NetInv
<1>4. \A n \in Nodes : pending[n] # NoPacket => Faithful(taken', pending[n])
  BY <1>1, FaithfulKept DEF ExactInv, PendingInv
<1> QED BY <1>2, <1>3, <1>4

LEMMA PlacedSame ==
  ASSUME NEW t, NEW u, NEW n \in Nodes, t[n] = u[n], NEW s, NEW w \in BOOLEAN, Placed(t, n, s, w)
  PROVE  Placed(u, n, s, w)
BY DEF Placed, Base

LEMMA HasLife == ASSUME SenderInv, NEW n \in Nodes, Typed PROVE taken[n] # <<>>
<1>1. Len(taken[n]) # 0
  BY DEF SenderInv, Placed
<1> QED BY <1>1

LEMMA SendExact ==
  ASSUME ExactInv, NEW n \in Nodes, Send(n)
  PROVE  ExactInv' /\ Grows(taken, taken')
<1>1. PICK status \in Status, users \in SUBSET Users, sent \in BOOLEAN, fresh \in BOOLEAN :
        LET s == IF fresh THEN NewSender(Len(taken[n]) + 1) ELSE sender[n]
            p == PacketOf(n, s, status, users)
        IN  /\ sender' = [sender EXCEPT ![n] = [s EXCEPT !.seq = @ + 1]]
            /\ Taken(n, [status |-> status, users |-> users, sent |-> sent], fresh)
            /\ IF sent THEN pending' = [pending EXCEPT ![n] = p] /\ net' = net \cup {p}
                       ELSE UNCHANGED <<pending, net>>
  BY DEF Send
<1> DEFINE s == IF fresh THEN NewSender(Len(taken[n]) + 1) ELSE sender[n]
           p == PacketOf(n, s, status, users)
           sample == [status |-> status, users |-> users, sent |-> sent]
           after == [s EXCEPT !.seq = @ + 1]
<1>2. Typed /\ Typed' /\ taken \in [Nodes -> Lives] /\ taken' \in [Nodes -> Lives]
  BY SendTyped DEF ExactInv, Typed, TypeAgents
<1>3. n # Central /\ pending[n] = NoPacket /\ registry' = registry /\ reply' = reply
  BY DEF Send
<1>4. s \in Sender
  <2>1. Len(taken[n]) + 1 \in Nat
    BY <1>2, LifeDomain
  <2> QED BY <1>2, <2>1, NewSenderType DEF Typed, TypeAgents
<1>5. Ready(n, s, fresh)
  <2>1. CASE fresh
    BY <2>1 DEF Ready
  <2>2. CASE ~fresh
    BY <1>3, <2>2 DEF Ready, ExactInv, SenderInv
  <2> QED BY <2>1, <2>2
<1>6. sample \in Sample /\ sample.sent = sent
  BY DEF Sample
<1>7. /\ after.epoch = s.epoch /\ after.seq = s.seq + 1 /\ after.force = s.force
      /\ after.previous = s.previous
  BY <1>4 DEF Sender
<1>8. p.epoch = s.epoch /\ p.seq = s.seq + 1 /\ p.node = n
  BY DEF PacketOf
<1>9. sender' = [sender EXCEPT ![n] = after] /\ Taken(n, sample, fresh)
  BY <1>1
<1>10. /\ sent => pending' = [pending EXCEPT ![n] = p] /\ net' = net \cup {p}
       /\ ~sent => pending' = pending /\ net' = net
  BY <1>1
<1>11. Extended(taken', n, s, [status |-> status, users |-> users, sent |-> TRUE])
         => Faithful(taken', p)
  BY <1>2, <1>4, PacketFaithful
<1>12. sent => sample = [status |-> status, users |-> users, sent |-> TRUE]
  OBVIOUS
<1> HIDE DEF s, p, sample, after
<1>13. /\ Grows(taken, taken') /\ Extended(taken', n, s, sample)
       /\ \A m \in Nodes \ {n} : taken'[m] = taken[m]
  BY <1>2, <1>4, <1>5, <1>6, <1>9, HasLife, SampleTaken DEF ExactInv
<1>14. sent => Faithful(taken', p)
  BY <1>11, <1>12, <1>13
<1>15. RegistryInv' /\ NetInv'
  BY <1>2, <1>3, <1>10, <1>13, <1>14, HistoryKept DEF RegistryInv, NetInv
<1>16. sender'[n] = after /\ \A m \in Nodes \ {n} : sender'[m] = sender[m]
  BY <1>2, <1>9 DEF Typed, TypeAgents
<1>17. /\ \A m \in Nodes \ {n} : pending'[m] = pending[m]
       /\ sent => pending'[n] = p
       /\ ~sent => pending'[n] = NoPacket
  BY <1>2, <1>3, <1>10 DEF Typed, TypeAgents
<1>18. PendingInv'
  BY <1>2, <1>3, <1>7, <1>8, <1>13, <1>14, <1>16, <1>17, HistoryKept DEF PendingInv, ExactInv
<1>19. Placed(taken', n, after, sent)
  <2>1. /\ after.epoch = Len(taken'[n]) /\ after.epoch # 0
        /\ after.seq = Len(taken'[n][after.epoch])
    BY <1>7, <1>13 DEF Extended
  <2>2. ASSUME ~after.force PROVE Base(taken', n, after, sent)
    BY <1>6, <1>7, <1>13, <2>2 DEF Extended, Base
  <2> QED BY <2>1, <2>2 DEF Placed
<1>20. sent => p # NoPacket
  BY <1>8, <1>13 DEF Extended, NoPacket
<1>21. \A m \in Nodes \ {n} : Placed(taken', m, sender'[m], pending'[m] # NoPacket)
  BY <1>13, <1>16, <1>17, PlacedSame DEF ExactInv, SenderInv
<1>22. SenderInv'
  BY <1>16, <1>17, <1>19, <1>20, <1>21 DEF SenderInv
<1> QED BY <1>2, <1>13, <1>15, <1>18, <1>22 DEF ExactInv

LEMMA LocalExact ==
  ASSUME ExactInv, Local
  PROVE  /\ ExactInv' /\ Grows(taken, taken')
         /\ \E p \in Packet : registry' = Applied(p) /\ Faithful(taken', p)
<1>1. PICK status \in Status, users \in SUBSET Users, changed \in BOOLEAN :
        LET s == IF changed THEN Resync(sender[Central]) ELSE sender[Central]
            p == PacketOf(Central, s, status, users)
            next == [s EXCEPT !.seq = @ + 1]
        IN  /\ registry' = Applied(p)
            /\ sender' = [sender EXCEPT ![Central] =
                 IF Accepted(p) THEN Ack(next, p) ELSE Resync(next)]
            /\ Taken(Central, [status |-> status, users |-> users, sent |-> TRUE], FALSE)
  BY DEF Local
<1> DEFINE s == IF changed THEN Resync(sender[Central]) ELSE sender[Central]
           p == PacketOf(Central, s, status, users)
           next == [s EXCEPT !.seq = @ + 1]
           sample == [status |-> status, users |-> users, sent |-> TRUE]
           after == IF Accepted(p) THEN Ack(next, p) ELSE Resync(next)
<1>2. Typed /\ Typed' /\ taken \in [Nodes -> Lives] /\ taken' \in [Nodes -> Lives]
  BY LocalTyped DEF ExactInv, Typed, TypeAgents
<1>3. Central \in Nodes /\ pending' = pending /\ net' = net
  BY PresenceAssumption DEF Local
<1>4. s \in Sender /\ s.epoch = sender[Central].epoch /\ s.seq = sender[Central].seq
      /\ s.previous = sender[Central].previous /\ (~s.force => ~sender[Central].force)
  <2>1. sender[Central] \in Sender
    BY <1>2, <1>3 DEF Typed, TypeAgents
  <2>2. /\ Resync(sender[Central]) \in Sender
        /\ Resync(sender[Central]).epoch = sender[Central].epoch
        /\ Resync(sender[Central]).seq = sender[Central].seq
        /\ Resync(sender[Central]).previous = sender[Central].previous
        /\ Resync(sender[Central]).force
    BY <2>1 DEF Resync, Sender
  <2>3. CASE changed
    BY <2>2, <2>3
  <2>4. CASE ~changed
    BY <2>1, <2>4
  <2> QED BY <2>3, <2>4
<1>5. p \in Packet /\ p.epoch = s.epoch /\ p.seq = s.seq + 1 /\ p.users = users
  BY <1>3, <1>4, PacketOfType DEF PacketOf
<1>6. sample \in Sample /\ sample.users = users
  BY DEF Sample
<1>7. /\ after.epoch = s.epoch /\ after.seq = s.seq + 1
      /\ ~after.force => after.previous = users
  BY <1>4, <1>5 DEF Ack, Resync, Sender
<1>8. /\ sender' = [sender EXCEPT ![Central] = after] /\ registry' = Applied(p)
      /\ Taken(Central, sample, FALSE)
  BY <1>1
<1>9. Extended(taken', Central, s, sample) => Faithful(taken', p)
  BY <1>2, <1>3, <1>4, PacketFaithful
<1> HIDE DEF s, p, next, sample, after
<1>10. pending[Central] = NoPacket
  BY <1>3 DEF ExactInv, PendingInv
<1>11. Ready(Central, s, FALSE)
  <2>1. Placed(taken, Central, sender[Central], FALSE)
    BY <1>3, <1>10 DEF ExactInv, SenderInv
  <2> QED BY <1>4, <2>1 DEF Ready, Placed, Base
<1>12. /\ Grows(taken, taken') /\ Extended(taken', Central, s, sample)
       /\ \A m \in Nodes \ {Central} : taken'[m] = taken[m]
  BY <1>2, <1>3, <1>4, <1>6, <1>8, <1>11, HasLife, SampleTaken DEF ExactInv
<1>13. RegistryInv'
  <2>1. \A m \in Nodes : Exact(taken', m, registry[m])
    BY <1>2, <1>12, HistoryKept
  <2> QED BY <1>2, <1>5, <1>8, <1>9, <1>12, <2>1, AppliedExact
          DEF RegistryInv, Typed, TypeCentral
<1>14. NetInv'
  BY <1>2, <1>3, <1>12, HistoryKept DEF NetInv
<1>15. sender'[Central] = after /\ \A m \in Nodes \ {Central} : sender'[m] = sender[m]
  BY <1>2, <1>3, <1>8 DEF Typed, TypeAgents
<1>16. PendingInv'
  BY <1>2, <1>3, <1>10, <1>12, <1>15, HistoryKept DEF PendingInv, ExactInv
<1>17. Placed(taken', Central, after, FALSE)
  <2>1. /\ after.epoch = Len(taken'[Central]) /\ after.epoch # 0
        /\ after.seq = Len(taken'[Central][after.epoch])
    BY <1>7, <1>12 DEF Extended
  <2>2. ASSUME ~after.force PROVE Base(taken', Central, after, FALSE)
    <3> DEFINE life == taken'[Central][after.epoch]
    <3>1. after.seq \in DOMAIN life /\ life[after.seq].users = after.previous
      BY <1>6, <1>7, <1>12, <2>2 DEF Extended
    <3>2. \A i \in DOMAIN life : ~(after.seq < i)
      BY <1>2, <1>3, <1>7, <1>12, <2>1, LifeDomain DEF Extended
    <3> QED BY <3>1, <3>2 DEF Base
  <2> QED BY <2>1, <2>2 DEF Placed
<1>18. \A m \in Nodes \ {Central} : Placed(taken', m, sender'[m], pending'[m] # NoPacket)
  BY <1>3, <1>12, <1>15, PlacedSame DEF ExactInv, SenderInv
<1>19. SenderInv'
  BY <1>3, <1>10, <1>15, <1>17, <1>18 DEF SenderInv
<1>20. \E q \in Packet : registry' = Applied(q) /\ Faithful(taken', q)
  BY <1>5, <1>8, <1>9, <1>12
<1> QED BY <1>2, <1>12, <1>13, <1>14, <1>16, <1>19, <1>20 DEF ExactInv

LEMMA ForcedPlaced ==
  ASSUME NEW t, NEW n \in Nodes, NEW s, NEW u, NEW w, NEW x, Placed(t, n, s, w),
         u.epoch = s.epoch, u.seq = s.seq, u.force
  PROVE  Placed(t, n, u, x)
BY DEF Placed

(* The agent starts to wait, stops waiting, or is started again. *)
LEMMA AgentExact ==
  ASSUME ExactInv, NEW n \in Nodes, Read(n) \/ Timeout(n) \/ AgentRestart(n) \/ Minute(n)
  PROVE  ExactInv'
<1>1. Typed /\ Typed' /\ taken \in [Nodes -> Lives] /\ taken' \in [Nodes -> Lives]
      /\ sender \in [Nodes -> Sender] /\ Placed(taken, n, sender[n], pending[n] # NoPacket)
  BY AgentTyped DEF ExactInv, Typed, TypeAgents, SenderInv
<1>2. Resync(sender[n]).epoch = sender[n].epoch /\ Resync(sender[n]).seq = sender[n].seq
      /\ Resync(sender[n]).force
  BY <1>1 DEF Resync, Sender
<1>3. Placed(taken, n, Resync(sender[n]), FALSE)
  BY <1>1, <1>2, ForcedPlaced
<1>4. ASSUME taken' = taken, registry' = registry, net' \subseteq net,
             pending' = [pending EXCEPT ![n] = NoPacket],
             NEW s, sender' = [sender EXCEPT ![n] = s], Placed(taken, n, s, FALSE)
      PROVE  ExactInv'
  <2>1. RegistryInv' /\ NetInv'
    BY <1>4 DEF ExactInv, RegistryInv, NetInv
  <2>2. /\ pending'[n] = NoPacket /\ sender'[n] = s
        /\ \A m \in Nodes \ {n} : pending'[m] = pending[m] /\ sender'[m] = sender[m]
    BY <1>1, <1>4 DEF Typed, TypeAgents
  <2>3. PendingInv' /\ SenderInv'
    BY <1>4, <2>2 DEF ExactInv, PendingInv, SenderInv
  <2> QED BY <1>1, <2>1, <2>3 DEF ExactInv
<1>5. CASE Read(n)
  <2>1. pending[n] # NoPacket /\ pending[n] \in Packet
    BY <1>1, <1>5 DEF Read, Typed, TypeAgents
  <2> DEFINE p == pending[n]
             s == Ack(sender[n], p)
  <2>2. s.epoch = sender[n].epoch /\ s.seq = p.seq /\ s.previous = p.users
    BY <1>1 DEF Ack, Sender
  <2>3. p.node = n /\ p.epoch = sender[n].epoch /\ p.seq = sender[n].seq /\ Faithful(taken, p)
    BY <2>1 DEF ExactInv, PendingInv
  <2> HIDE DEF s, p
  <2>4. Base(taken, n, s, FALSE)
    <3> DEFINE life == taken[n][s.epoch]
    <3>1. s.epoch \in DOMAIN taken[n] /\ s.seq \in DOMAIN life /\ life[s.seq].users = s.previous
      BY <2>2, <2>3 DEF Faithful, IsSample, Recorded
    <3>2. s.seq = Len(life)
      BY <1>1, <2>2, <2>3 DEF Placed
    <3>3. \A i \in DOMAIN life : ~(s.seq < i)
      BY <1>1, <3>1, <3>2, LifeDomain
    <3> QED BY <3>1, <3>3 DEF Base
  <2>5. Placed(taken, n, s, FALSE)
    BY <1>1, <2>2, <2>3, <2>4 DEF Placed
  <2>6. sender' = [sender EXCEPT ![n] = s] \/ sender' = [sender EXCEPT ![n] = Resync(sender[n])]
    BY <1>5 DEF Read, s, p
  <2> QED BY <1>3, <1>4, <1>5, <2>5, <2>6 DEF Read
<1>6. CASE Timeout(n)
  <2>1. sender' = [sender EXCEPT ![n] = Resync(sender[n])] /\ net' \subseteq net
    BY <1>6 DEF Timeout
  <2> QED BY <1>3, <1>4, <1>6, <2>1 DEF Timeout
<1>7. CASE AgentRestart(n)
  <2> DEFINE e == Len(taken[n]) + 1
             none == <<>>
  <2>1. none \in Seq(Sample) /\ Len(none) = 0
    OBVIOUS
  <2>2. taken' = [taken EXCEPT ![n] = Append(@, none)]
    BY <1>7 DEF AgentRestart
  <2> HIDE DEF none
  <2>3. /\ Grows(taken, taken') /\ Len(taken'[n]) = e /\ taken'[n][e] = none
        /\ \A m \in Nodes \ {n} : taken'[m] = taken[m]
    BY <1>1, <2>1, <2>2, NewLife
  <2>4. e # 0
    BY <1>1, LifeDomain
  <2>5. /\ sender'[n] = NewSender(e) /\ pending'[n] = NoPacket
        /\ \A m \in Nodes \ {n} : sender'[m] = sender[m] /\ pending'[m] = pending[m]
        /\ registry' = registry /\ net' = net
    BY <1>1, <1>7 DEF AgentRestart, Typed, TypeAgents
  <2>6. Placed(taken', n, NewSender(e), FALSE)
    BY <2>1, <2>3, <2>4 DEF Placed, NewSender
  <2>7. RegistryInv' /\ NetInv'
    BY <1>1, <2>3, <2>5, HistoryKept DEF RegistryInv, NetInv
  <2>8. PendingInv'
    BY <1>1, <2>3, <2>5, HistoryKept DEF PendingInv, ExactInv
  <2>9. \A m \in Nodes \ {n} : Placed(taken', m, sender'[m], pending'[m] # NoPacket)
    BY <2>3, <2>5, PlacedSame DEF ExactInv, SenderInv
  <2>10. SenderInv'
    BY <2>5, <2>6, <2>9 DEF SenderInv
  <2> QED BY <1>1, <2>7, <2>8, <2>10 DEF ExactInv
<1>8. CASE Minute(n)
  <2> DEFINE s == [sender[n] EXCEPT !.aged = TRUE]
  <2>1. s.epoch = sender[n].epoch /\ s.seq = sender[n].seq /\ s.force = sender[n].force
        /\ s.previous = sender[n].previous
    BY <1>1 DEF Sender
  <2>2. sender' = [sender EXCEPT ![n] = s] /\ UNCHANGED <<pending, net, registry, taken>>
    BY <1>8 DEF Minute
  <2> HIDE DEF s
  <2>3. sender'[n] = s /\ \A m \in Nodes \ {n} : sender'[m] = sender[m]
    BY <1>1, <2>2
  <2>4. Placed(taken, n, s, pending[n] # NoPacket)
    BY <1>1, <2>1 DEF Placed, Base
  <2>5. SenderInv'
    BY <2>2, <2>3, <2>4 DEF ExactInv, SenderInv
  <2>6. RegistryInv' /\ NetInv' /\ PendingInv'
    BY <2>1, <2>2, <2>3 DEF ExactInv, RegistryInv, NetInv, PendingInv
  <2> QED BY <1>1, <2>5, <2>6 DEF ExactInv
<1> QED BY <1>5, <1>6, <1>7, <1>8

-----------------------------------------------------------------------------
(* The handlers.  Their marks do not change what a packet stands for. *)
SamePacket(p, q) ==
  /\ q.node = p.node /\ q.epoch = p.epoch /\ q.seq = p.seq /\ q.full = p.full
  /\ q.status = p.status /\ q.add = p.add /\ q.remove = p.remove /\ q.users = p.users

LEMMA SameFaithful ==
  ASSUME NEW t, NEW p, NEW q, SamePacket(p, q), Faithful(t, p)
  PROVE  Faithful(t, q)
BY DEF SamePacket, Faithful, Change

LEMMA MarkedSame ==
  ASSUME NEW p \in Packet, NEW b
  PROVE  /\ SamePacket(p, [p EXCEPT !.checked = b]) /\ SamePacket(p, [p EXCEPT !.old = b])
BY DEF SamePacket, Packet

LEMMA DoneFaithful ==
  ASSUME NEW p \in Packet, NEW rest, Done(p, rest), Faithful(taken, p),
         \A q \in rest : Faithful(taken, q)
  PROVE  \A q \in net' : Faithful(taken, q)
<1> DEFINE again == [p EXCEPT !.checked = FALSE]
<1>1. Faithful(taken, again)
  BY MarkedSame, SameFaithful
<1>2. net' = rest \/ net' = rest \cup {again}
  BY DEF Done
<1> HIDE DEF again
<1> QED BY <1>1, <1>2

LEMMA HandlerExact ==
  ASSUME ExactInv, NEW p \in net, Check(p) \/ Apply(p)
  PROVE  ExactInv'
<1>1. Typed /\ Typed' /\ p \in Packet /\ net \subseteq Packet /\ Faithful(taken, p)
      /\ registry \in [Nodes -> Entries] /\ taken \in [Nodes -> Lives]
  BY HandlerTyped DEF ExactInv, Typed, TypeAgents, TypeCentral, NetInv
<1>2. UNCHANGED agents
  BY DEF Check, Apply
<1>3. PendingInv' /\ SenderInv'
  BY <1>2 DEF agents, ExactInv, PendingInv, SenderInv
<1>4. CASE Check(p)
  <2>1. NetInv'
    <3>1. CASE p.node \in active
      <4> DEFINE passed == [p EXCEPT !.checked = TRUE]
      <4>1. Faithful(taken, passed)
        BY <1>1, MarkedSame, SameFaithful
      <4>2. net' = (net \ {p}) \cup {passed}
        BY <1>4, <3>1 DEF Check
      <4> HIDE DEF passed
      <4> QED BY <1>2, <4>1, <4>2 DEF agents, ExactInv, NetInv
    <3>2. CASE p.node \notin active
      <4>1. Done(p, net \ {p})
        BY <1>4, <3>2 DEF Check
      <4> QED BY <1>1, <1>2, <4>1, DoneFaithful DEF agents, ExactInv, NetInv
    <3> QED BY <3>1, <3>2
  <2>2. RegistryInv'
    BY <1>2, <1>4 DEF Check, agents, ExactInv, RegistryInv
  <2> QED BY <1>1, <1>3, <2>1, <2>2 DEF ExactInv
<1>5. CASE Apply(p)
  <2> DEFINE rest == IF Renewed(p) THEN Seen(p.node, net \ {p}) ELSE net \ {p}
             seen == [p EXCEPT !.old = @ \/ Renewed(p)]
  <2>1. seen \in Packet
    BY <1>1 DEF Packet
  <2>2. Faithful(taken, seen)
    BY <1>1, MarkedSame, SameFaithful
  <2>3. \A q \in rest : Faithful(taken, q)
    <3>1. \A q \in net \ {p} : Faithful(taken, q) /\ Faithful(taken, [q EXCEPT !.old = TRUE])
      BY <1>1, MarkedSame, SameFaithful DEF ExactInv, NetInv
    <3>2. \A q \in Seen(p.node, net \ {p}) : Faithful(taken, q)
      BY <3>1 DEF Seen
    <3> QED BY <3>1, <3>2
  <2>4. Done(seen, rest)
    BY <1>5 DEF Apply
  <2> HIDE DEF seen, rest
  <2>5. NetInv'
    BY <1>2, <2>1, <2>2, <2>3, <2>4, DoneFaithful DEF agents, NetInv
  <2>6. RegistryInv'
    BY <1>1, <1>2, <1>5, AppliedExact DEF Apply, agents, ExactInv, RegistryInv
  <2> QED BY <1>1, <1>3, <2>5, <2>6 DEF ExactInv
<1> QED BY <1>4, <1>5

-----------------------------------------------------------------------------
(* Time, readers and operators. *)

LEMMA RegistryExact ==
  ASSUME ExactInv, NEW n \in Nodes, Age(n) \/ Snapshot \/ Restart \/ Retire(n) \/ Rescope(n)
  PROVE  ExactInv'
<1>1. Typed /\ Typed' /\ registry \in [Nodes -> Entries] /\ sender \in [Nodes -> Sender]
      /\ taken \in [Nodes -> Lives] /\ taken' \in [Nodes -> Lives]
  BY RegistryTyped DEF ExactInv, Typed, TypeAgents, TypeCentral
<1>2. ASSUME UNCHANGED agents PROVE PendingInv' /\ SenderInv'
  BY <1>2 DEF agents, ExactInv, PendingInv, SenderInv
<1>3. CASE Age(n)
  <2>1. PICK age \in {"stale", "old"} : registry' = [registry EXCEPT ![n].age = age]
    BY <1>3 DEF Age
  <2> DEFINE e == [registry[n] EXCEPT !.age = age]
  <2>2. registry[n] \in Entry
    BY <1>1 DEF Entries
  <2>3. e.epoch = registry[n].epoch /\ e.seq = registry[n].seq /\ e.users = registry[n].users
        /\ e.status = registry[n].status
    BY <2>2 DEF Entry
  <2>4. registry' = [registry EXCEPT ![n] = e]
    BY <2>1
  <2> HIDE DEF e
  <2>5. registry'[n] = e /\ \A m \in Nodes \ {n} : registry'[m] = registry[m]
    BY <1>1, <2>4
  <2>6. UNCHANGED agents /\ taken' = taken /\ net' \subseteq net
    BY <1>3 DEF Age, agents
  <2>7. RegistryInv'
    BY <2>3, <2>5, <2>6 DEF ExactInv, RegistryInv, Exact
  <2>8. NetInv'
    BY <2>6 DEF ExactInv, NetInv
  <2> QED BY <1>1, <1>2, <2>6, <2>7, <2>8 DEF ExactInv
<1>4. CASE Snapshot
  <2>1. UNCHANGED agents /\ taken' = taken /\ net' = net
    BY <1>4 DEF Snapshot, agents
  <2>2. RegistryInv'
    BY <1>4, <2>1 DEF Snapshot, ExactInv, RegistryInv, Exact, NoEntry
  <2>3. NetInv'
    BY <2>1 DEF ExactInv, NetInv
  <2> QED BY <1>1, <1>2, <2>1, <2>2, <2>3 DEF ExactInv
<1>5. CASE Restart
  <2> DEFINE e == Len(taken[Central]) + 1
             none == <<>>
  <2>1. none \in Seq(Sample) /\ Len(none) = 0 /\ Central \in Nodes
    BY PresenceAssumption
  <2>2. taken' = [taken EXCEPT ![Central] = Append(@, none)]
    BY <1>5 DEF Restart
  <2> HIDE DEF none
  <2>3. /\ Grows(taken, taken') /\ Len(taken'[Central]) = e /\ taken'[Central][e] = none
        /\ \A m \in Nodes \ {Central} : taken'[m] = taken[m]
    BY <1>1, <2>1, <2>2, NewLife
  <2>4. e # 0
    BY <1>1, <2>1, LifeDomain
  <2>5. /\ sender'[Central] = NewSender(e) /\ pending' = pending
        /\ \A m \in Nodes \ {Central} : sender'[m] = sender[m]
        /\ net' = {} /\ \A m \in Nodes : registry'[m] = NoEntry
    BY <1>1, <1>5, <2>1 DEF Restart
  <2>6. RegistryInv' /\ NetInv'
    BY <2>5 DEF RegistryInv, NetInv, Exact, NoEntry
  <2>7. PendingInv'
    BY <1>1, <2>3, <2>5, HistoryKept DEF PendingInv, ExactInv
  <2>8. pending[Central] = NoPacket
    BY <2>1 DEF ExactInv, PendingInv
  <2>9. Placed(taken', Central, NewSender(e), FALSE)
    BY <2>1, <2>3, <2>4 DEF Placed, NewSender
  <2>10. \A m \in Nodes \ {Central} : Placed(taken', m, sender'[m], pending'[m] # NoPacket)
    BY <2>3, <2>5, PlacedSame DEF ExactInv, SenderInv
  <2>11. SenderInv'
    BY <2>5, <2>8, <2>9, <2>10 DEF SenderInv
  <2> QED BY <1>1, <2>6, <2>7, <2>11 DEF ExactInv
<1>6. CASE Retire(n) \/ Rescope(n)
  <2>1. UNCHANGED agents /\ taken' = taken /\ net' = net /\ registry' = registry
    BY <1>6 DEF Retire, Rescope, agents
  <2>2. RegistryInv' /\ NetInv'
    BY <2>1 DEF ExactInv, RegistryInv, NetInv
  <2> QED BY <1>1, <1>2, <2>1, <2>2 DEF ExactInv
<1> QED BY <1>3, <1>4, <1>5, <1>6

-----------------------------------------------------------------------------
LEMMA InitExact == Init => ExactInv
<1> SUFFICES ASSUME Init PROVE ExactInv
  OBVIOUS
<1>1. Typed
  BY InitTyped
<1>2. RegistryInv /\ NetInv /\ PendingInv
  BY DEF Init, RegistryInv, Exact, NoEntry, NetInv, PendingInv
<1>3. SenderInv
  <2> SUFFICES ASSUME NEW n \in Nodes PROVE Placed(taken, n, sender[n], pending[n] # NoPacket)
    BY DEF SenderInv
  <2>1. sender[n] = NewSender(1) /\ taken[n] = <<<<>>>>
    BY DEF Init
  <2>2. Len(taken[n]) = 1 /\ Len(taken[n][1]) = 0
    BY <2>1
  <2> QED BY <2>1, <2>2 DEF Placed, NewSender
<1> QED BY <1>1, <1>2, <1>3 DEF ExactInv

LEMMA NextExact == ExactInv /\ [Next]_vars => ExactInv'
<1> SUFFICES ASSUME ExactInv, [Next]_vars PROVE ExactInv'
  OBVIOUS
<1>1. CASE UNCHANGED vars
  <2>1. Typed'
    BY <1>1, NextTyped DEF ExactInv
  <2>2. UNCHANGED <<sender, pending, taken, net, registry>>
    BY <1>1 DEF vars, agents
  <2> QED BY <2>1, <2>2 DEF ExactInv, RegistryInv, NetInv, PendingInv, SenderInv
<1>2. CASE Next
  <2>1. Central \in Nodes
    BY PresenceAssumption
  <2> QED BY <1>2, <2>1, SendExact, LocalExact, AgentExact, HandlerExact, RegistryExact DEF Next
<1> QED BY <1>1, <1>2

(* For every schedule of lost, late and repeated packets and of restarts, the  *)
(* accounts and the status Central holds of a node are the ones of the sample  *)
(* whose epoch and number it holds (Registry.Apply, Sender.Packet).            *)
THEOREM RegistryIsExact == Spec => []ExactUsers
<1>1. ExactInv => ExactUsers
  BY DEF ExactInv, RegistryInv, Exact, IsSample, Recorded, ExactUsers, Known
<1>2. Spec => []ExactInv
  BY InitExact, NextExact, PTL DEF Spec
<1> QED BY <1>1, <1>2, PTL

-----------------------------------------------------------------------------
(* The abstract view: what a step from entry e of node n to entry f may do     *)
(* with the history u.                                                         *)
Held(e) == <<e.epoch, e.seq>>
Shown(e) == IF e.age = "fresh" /\ e.status = "ok" THEN <<e.users>> ELSE <<>>

Later(n, e, f, u) ==
  \E x \in DOMAIN u[n] : \E k \in DOMAIN u[n][x] :
    /\ x = Held(e)[1] => k > Held(e)[2]
    /\ Held(f) = <<x, k>>
    /\ Shown(f) = IF u[n][x][k].status = "ok" THEN <<u[n][x][k].users>> ELSE <<>>

ViewStep(n, e, f, u) ==
  \/ Held(f) = Held(e) /\ Shown(f) = Shown(e)
  \/ Shown(f) = <<>> /\ Held(f) \in {Held(e), <<0, 0>>}
  \/ Later(n, e, f, u)

LEMMA ForgetStep == ASSUME NEW n, NEW e, NEW u PROVE ViewStep(n, e, NoEntry, u)
BY DEF ViewStep, Held, Shown, NoEntry

LEMMA CollectedStep ==
  ASSUME NEW c \in Nodes, NEW u, NEW n \in Nodes
  PROVE  ViewStep(n, registry[n], Collected(c)[n], u)
<1>1. Collected(c)[n] = NoEntry \/ Collected(c)[n] = registry[n]
  BY DEF Collected
<1> QED BY <1>1, ForgetStep DEF ViewStep

(* A packet that is accepted and not a repetition brings a later sample. *)
LEMMA AppliedStep ==
  ASSUME registry \in [Nodes -> Entries], NEW t \in [Nodes -> Lives], NEW p \in Packet,
         \A n \in Nodes : Exact(t, n, registry[n]), Faithful(t, p), NEW n \in Nodes
  PROVE  ViewStep(n, registry[n], Applied(p)[n], t)
<1>1. /\ p.node \in Nodes /\ p.epoch \in DOMAIN t[p.node]
      /\ p.seq \in DOMAIN t[p.node][p.epoch] /\ p.seq \in Nat
      /\ registry[p.node] \in Entry
  BY DEF Packet, Entries, Faithful, IsSample, Recorded
<1>2. Collected(p.node) \in [Nodes -> Entries]
  BY NoEntryType DEF Collected
<1>3. CASE Unusable(p) \/ Repeated(p)
  BY <1>3 DEF Applied, ViewStep
<1>4. ASSUME ~Unusable(p), ~Repeated(p), NEW f, f.epoch = p.epoch, f.seq = p.seq,
             f.age = "fresh", f.users = p.users, f.status = p.status
      PROVE  ViewStep(p.node, registry[p.node], f, t)
  <2> DEFINE sample == t[p.node][p.epoch][p.seq]
  <2>1. Held(f) = <<p.epoch, p.seq>>
    BY <1>4 DEF Held
  <2>2. sample.status = p.status /\ sample.users = p.users
    BY DEF Faithful, IsSample
  <2>3. Shown(f) = IF sample.status = "ok" THEN <<sample.users>> ELSE <<>>
    BY <1>4, <2>2 DEF Shown
  <2>4. p.epoch = registry[p.node].epoch => p.seq > registry[p.node].seq
    <3>1. registry[p.node].seq \in Nat
      BY <1>1 DEF Entry
    <3> QED BY <1>1, <1>4, <3>1 DEF Unusable, Repeated
  <2>5. p.epoch = Held(registry[p.node])[1] => p.seq > Held(registry[p.node])[2]
    BY <2>4 DEF Held
  <2> HIDE DEF sample
  <2>6. Later(p.node, registry[p.node], f, t)
    BY <1>1, <2>1, <2>3, <2>5 DEF Later, sample
  <2> QED BY <2>6 DEF ViewStep
<1>5. CASE ~Unusable(p) /\ ~Repeated(p) /\ Heartbeat(p)
  <2> DEFINE f == [registry[p.node] EXCEPT !.seq = p.seq, !.age = "fresh"]
  <2>1. Applied(p) = [registry EXCEPT ![p.node] = f]
    BY <1>5 DEF Applied
  <2>2. ~p.full /\ p.add = {} /\ p.remove = {}
    BY <1>5 DEF Heartbeat
  <2>3. /\ registry[p.node].epoch = p.epoch /\ registry[p.node].status = p.status
        /\ registry[p.node].users = p.users
    <3>1. Exact(t, p.node, registry[p.node])
      BY <1>1
    <3>2. /\ registry[p.node].epoch = p.epoch /\ registry[p.node].status = p.status
          /\ p.add = p.users \ registry[p.node].users
          /\ p.remove = registry[p.node].users \ p.users
      BY <1>5, <2>2, <3>1, ChangesMatch
    <3> QED BY <2>2, <3>2
  <2>4. /\ f.epoch = p.epoch /\ f.seq = p.seq /\ f.age = "fresh" /\ f.users = p.users
        /\ f.status = p.status
    BY <1>1, <2>3 DEF Entry
  <2> HIDE DEF f
  <2>5. ViewStep(p.node, registry[p.node], f, t)
    BY <1>4, <1>5, <2>4
  <2>6. Applied(p)[p.node] = f /\ \A m \in Nodes \ {p.node} : Applied(p)[m] = registry[m]
    BY <1>1, <2>1
  <2> QED BY <2>5, <2>6 DEF ViewStep
<1>6. CASE ~Unusable(p) /\ ~Repeated(p) /\ ~Heartbeat(p) /\ Fits(p)
  <2>1. Applied(p) = [Collected(p.node) EXCEPT ![p.node] = NewEntry(p)]
    BY <1>6 DEF Applied
  <2>2. /\ NewEntry(p).epoch = p.epoch /\ NewEntry(p).seq = p.seq
        /\ NewEntry(p).age = "fresh" /\ NewEntry(p).users = p.users
        /\ NewEntry(p).status = p.status
    BY <1>1, <1>6, UsersAfterExact DEF NewEntry
  <2>3. ViewStep(p.node, registry[p.node], NewEntry(p), t)
    BY <1>4, <1>6, <2>2
  <2>4. /\ Applied(p)[p.node] = NewEntry(p)
        /\ \A m \in Nodes \ {p.node} : Applied(p)[m] = Collected(p.node)[m]
    BY <1>1, <1>2, <2>1
  <2> QED BY <1>1, <2>3, <2>4, CollectedStep
<1>7. CASE ~Unusable(p) /\ ~Repeated(p) /\ ~Heartbeat(p) /\ ~Fits(p)
  <2>1. Applied(p) = Collected(p.node)
    BY <1>7 DEF Applied
  <2> QED BY <1>1, <2>1, CollectedStep
<1> QED BY <1>3, <1>5, <1>6, <1>7

LEMMA ViewedSame ==
  ASSUME taken' = taken, registry' = registry
  PROVE  Grows(taken, taken') /\ \A n \in Nodes : ViewStep(n, registry[n], registry'[n], taken')
BY DEF Grows, ViewStep

LEMMA NextViewed ==
  ASSUME ExactInv, [Next]_vars
  PROVE  Grows(taken, taken') /\ \A n \in Nodes : ViewStep(n, registry[n], registry'[n], taken')
<1> DEFINE Viewed == /\ Grows(taken, taken')
                     /\ \A n \in Nodes : ViewStep(n, registry[n], registry'[n], taken')
<1>1. registry \in [Nodes -> Entries] /\ taken \in [Nodes -> Lives] /\ taken' \in [Nodes -> Lives]
      /\ Central \in Nodes /\ net \subseteq Packet
      /\ \A n \in Nodes : Exact(taken, n, registry[n])
      /\ \A p \in net : Faithful(taken, p)
  BY PresenceAssumption, NextTyped
     DEF ExactInv, RegistryInv, NetInv, Typed, TypeAgents, TypeCentral
<1>2. ASSUME NEW n \in Nodes, Send(n) PROVE Viewed
  <2>1. registry' = registry
    BY <1>2 DEF Send
  <2> QED BY <1>2, <2>1, SendExact DEF ViewStep
<1>3. ASSUME NEW n \in Nodes, Read(n) \/ Timeout(n) \/ Minute(n) \/ Retire(n) \/ Rescope(n)
      PROVE  Viewed
  <2>1. taken' = taken /\ registry' = registry
    BY <1>3 DEF Read, Timeout, Minute, Retire, Rescope, agents
  <2> QED BY <2>1, ViewedSame
<1>4. ASSUME NEW n \in Nodes, AgentRestart(n) PROVE Viewed
  <2>1. Grows(taken, taken')
    BY <1>1, <1>4, NewLife, EmptySeq DEF AgentRestart
  <2>2. registry' = registry
    BY <1>4 DEF AgentRestart
  <2> QED BY <2>1, <2>2 DEF ViewStep
<1>5. ASSUME NEW n \in Nodes, Age(n) PROVE Viewed
  <2>1. PICK age \in {"stale", "old"} : registry' = [registry EXCEPT ![n].age = age]
    BY <1>5 DEF Age
  <2> DEFINE e == [registry[n] EXCEPT !.age = age]
  <2>2. e.age # "fresh" /\ e.epoch = registry[n].epoch /\ e.seq = registry[n].seq
    BY <1>1, <2>1 DEF Entries, Entry
  <2>3. registry' = [registry EXCEPT ![n] = e]
    BY <2>1
  <2> HIDE DEF e
  <2>4. registry'[n] = e /\ \A m \in Nodes \ {n} : registry'[m] = registry[m]
    BY <1>1, <2>3
  <2>5. \A m \in Nodes : ViewStep(m, registry[m], registry'[m], taken')
    BY <2>2, <2>4 DEF ViewStep, Held, Shown
  <2>6. taken' = taken
    BY <1>5 DEF Age, agents
  <2> QED BY <2>5, <2>6 DEF Grows
<1>6. ASSUME NEW p \in net, Check(p) PROVE Viewed
  <2>1. taken' = taken /\ registry' = registry
    BY <1>6 DEF Check, agents
  <2> QED BY <2>1, ViewedSame
<1>7. ASSUME NEW p \in net, Apply(p) PROVE Viewed
  <2>1. taken' = taken /\ registry' = Applied(p)
    BY <1>7 DEF Apply, agents
  <2>2. \A n \in Nodes : ViewStep(n, registry[n], Applied(p)[n], taken)
    BY <1>1, AppliedStep
  <2> QED BY <2>1, <2>2 DEF Grows
<1>8. ASSUME Local PROVE Viewed
  <2>1. PICK p \in Packet : registry' = Applied(p) /\ Faithful(taken', p)
    BY <1>8, LocalExact
  <2>2. Grows(taken, taken')
    BY <1>8, LocalExact
  <2>3. \A n \in Nodes : Exact(taken', n, registry[n])
    BY <1>1, <2>2, HistoryKept
  <2>4. \A n \in Nodes : ViewStep(n, registry[n], Applied(p)[n], taken')
    BY <1>1, <2>1, <2>3, AppliedStep
  <2> QED BY <2>1, <2>2, <2>4
<1>9. ASSUME Snapshot PROVE Viewed
  <2>1. \A n \in Nodes : registry'[n] = NoEntry \/ registry'[n] = registry[n]
    BY <1>9 DEF Snapshot
  <2>2. taken' = taken
    BY <1>9 DEF Snapshot, agents
  <2>3. \A n \in Nodes : ViewStep(n, registry[n], registry'[n], taken')
    BY <2>1, ForgetStep DEF ViewStep
  <2> QED BY <2>2, <2>3 DEF Grows
<1>10. ASSUME Restart PROVE Viewed
  <2>1. Grows(taken, taken')
    BY <1>1, <1>10, NewLife, EmptySeq DEF Restart
  <2>2. \A n \in Nodes : registry'[n] = NoEntry
    BY <1>10 DEF Restart
  <2> QED BY <2>1, <2>2, ForgetStep
<1>11. ASSUME UNCHANGED vars PROVE Viewed
  <2>1. taken' = taken /\ registry' = registry
    BY <1>11 DEF vars, agents
  <2> QED BY <2>1, ViewedSame
<1> HIDE DEF Viewed
<1>12. Viewed
  BY <1>2, <1>3, <1>4, <1>5, <1>6, <1>7, <1>8, <1>9, <1>10, <1>11 DEF Next
<1> QED BY <1>12 DEF Viewed

LEMMA InitViewed == Init => View!Init
<1> SUFFICES ASSUME Init PROVE View!Init
  OBVIOUS
<1>1. \A n \in Nodes : registry[n] = NoEntry
  BY DEF Init
<1>2. taken = [n \in Nodes |-> <<<<>>>>]
  BY DEF Init
<1> QED BY <1>1, <1>2 DEF View!Init, NoEntry

LEMMA StepViewed == ExactInv /\ [Next]_vars => [View!Next]_(View!vars)
<1> SUFFICES ASSUME ExactInv, [Next]_vars, NEW n \in Nodes
             PROVE  View!Extended(n) /\ (View!Keep(n) \/ View!Hide(n) \/ View!Show(n))
  BY DEF View!Next
<1>1. Grows(taken, taken') /\ ViewStep(n, registry[n], registry'[n], taken')
  BY NextViewed
<1>2. View!Extended(n)
  BY <1>1 DEF Grows, View!Extended
<1>3. CASE Held(registry'[n]) = Held(registry[n]) /\ Shown(registry'[n]) = Shown(registry[n])
  BY <1>2, <1>3 DEF Held, Shown, View!Keep
<1>4. CASE Shown(registry'[n]) = <<>> /\ Held(registry'[n]) \in {Held(registry[n]), <<0, 0>>}
  BY <1>2, <1>4 DEF Held, Shown, View!Hide
<1>5. CASE Later(n, registry[n], registry'[n], taken')
  BY <1>2, <1>5 DEF Held, Shown, Later, View!Show
<1> QED BY <1>1, <1>2, <1>3, <1>4, <1>5 DEF ViewStep

(* For every number of nodes, accounts, restarts and lost or repeated packets, *)
(* Central's registry implements what its readers are promised (PresenceView): *)
(* a node shows one of its samples as it was taken, or nothing, and a sample   *)
(* of the same sender that is older, late or repeated is never shown again.    *)
THEOREM PresenceImplementsView == Spec => ViewSpec
<1>1. Spec => []ExactInv
  BY InitExact, NextExact, PTL DEF Spec
<1> QED BY <1>1, InitViewed, StepViewed, PTL DEF Spec, ViewSpec, View!Spec

-----------------------------------------------------------------------------
(* The limits.  What an entry holds is counted as pairs of a node and an account. *)

LEMMA RowsOfOne ==
  ASSUME NEW n, NEW S, IsFiniteSet(S)
  PROVE  IsFiniteSet({n} \X S) /\ Cardinality({n} \X S) = Cardinality(S)
<1> DEFINE f == [u \in S |-> <<n, u>>]
<1>1. f \in Bijection(S, {n} \X S)
  BY DEF Bijection, Injection, Surjection, IsInjective
<1> QED BY <1>1, FS_Bijection DEF ExistsBijection

LEMMA FiniteRows ==
  ASSUME NEW A \in SUBSET (Nodes \X Users)
  PROVE  IsFiniteSet(A) /\ Cardinality(A) \in Nat
BY PresenceAssumption, FS_Product, FS_Subset, FS_CardinalityType

LEMMA FewerRows ==
  ASSUME NEW A \in SUBSET (Nodes \X Users), NEW B \in SUBSET A
  PROVE  Cardinality(B) <= Cardinality(A)
BY FiniteRows, FS_Subset

(* Entries that vanish or stay make room. *)
LEMMA SmallerFits ==
  ASSUME Typed, Typed', CapacityKept,
         \A m \in Nodes : registry'[m].epoch # 0
           => registry[m].epoch # 0 /\ registry'[m].users \subseteq registry[m].users
  PROVE  CapacityKept'
<1> DEFINE known == {m \in Nodes : Known(m)}
<1>1. known' \subseteq known /\ known \subseteq Nodes
  BY DEF Known
<1>2. AccountsOf(known)' \subseteq AccountsOf(known)
  BY DEF AccountsOf, Known
<1>3. AccountsOf(known) \in SUBSET (Nodes \X Users)
  BY DEF AccountsOf
<1>4. Cardinality(AccountsOf(known)') <= Cardinality(AccountsOf(known))
  BY <1>2, <1>3, FewerRows
<1>5. /\ IsFiniteSet(known) /\ Cardinality(known) \in Nat
      /\ Cardinality(known') <= Cardinality(known) /\ Cardinality(known') \in Nat
  BY <1>1, PresenceAssumption, FS_Subset, FS_CardinalityType
<1>6. Cardinality(AccountsOf(known)) \in Nat /\ Cardinality(AccountsOf(known)') \in Nat
  BY <1>2, <1>3, FiniteRows
<1>7. Cardinality(AccountsOf(known)) <= Capacity /\ Cardinality(known) <= NodeLimit
  BY DEF CapacityKept
<1> HIDE DEF known
<1>8. Cardinality(AccountsOf(known)') <= Capacity /\ Cardinality(known') <= NodeLimit
  BY <1>4, <1>5, <1>6, <1>7, PresenceAssumption
<1> QED BY <1>8 DEF CapacityKept, known

(* An entry that is written is counted together with all that remain. *)
LEMMA WrittenFits ==
  ASSUME Typed, CapacityKept, NEW p \in Packet, Fits(p), Typed',
         registry' = [Collected(p.node) EXCEPT ![p.node] = NewEntry(p)]
  PROVE  CapacityKept'
<1> DEFINE n == p.node
           known == {m \in Nodes : Known(m)}
           own == {n} \X UsersAfter(p)
           rest == AccountsOf(Others(n))
<1>1. n \in Nodes /\ registry \in [Nodes -> Entries] /\ UsersAfter(p) \subseteq Users
  BY DEF Typed, TypeCentral, Packet, UsersAfter, Entries, Entry
<1>2. registry' = [m \in Nodes |-> IF m = n THEN NewEntry(p)
                                   ELSE IF registry[m].age = "old" THEN NoEntry ELSE registry[m]]
  BY <1>1 DEF Collected
<1>3. known' \subseteq Others(n) \cup {n} /\ Others(n) \subseteq known /\ known \subseteq Nodes
  BY <1>1, <1>2 DEF Known, Others, NoEntry
<1>4. AccountsOf(known)' \subseteq own \cup rest
  <2> SUFFICES ASSUME NEW a \in Nodes \X Users, Known(a[1])', a[2] \in registry'[a[1]].users
               PROVE  a \in own \cup rest
    BY DEF AccountsOf
  <2>1. CASE a[1] = n
    BY <1>2, <2>1 DEF NewEntry
  <2>2. CASE a[1] # n
    <3>1. a[1] \in Others(n) /\ registry'[a[1]] = registry[a[1]]
      BY <1>2, <2>2 DEF Known, Others, NoEntry
    <3> QED BY <3>1 DEF AccountsOf
  <2> QED BY <2>1, <2>2
<1>5. own \in SUBSET (Nodes \X Users) /\ rest \in SUBSET (Nodes \X Users)
  BY <1>1 DEF AccountsOf
<1>6. own \cap rest = {}
  BY DEF AccountsOf, Others
<1>7. IsFiniteSet(own) /\ IsFiniteSet(rest)
  BY <1>5, FiniteRows
<1>8. Cardinality(own) = Cardinality(UsersAfter(p)) /\ Cardinality(own) \in Nat
  BY <1>1, <1>5, FiniteRows, RowsOfOne, PresenceAssumption, FS_Subset
<1>9. Cardinality(own \cup rest) = Cardinality(own) + Cardinality(rest)
  <2>1. /\ Cardinality(own) \in Nat /\ Cardinality(rest) \in Nat
        /\ Cardinality(own \cap rest) = 0
    BY <1>5, <1>6, FiniteRows, FS_EmptySet
  <2>2. Cardinality(own \cup rest)
          = Cardinality(own) + Cardinality(rest) - Cardinality(own \cap rest)
    BY <1>7, FS_Union
  <2> HIDE DEF own, rest
  <2> QED BY <2>1, <2>2
<1>10. Cardinality(AccountsOf(known)') <= Cardinality(own \cup rest)
  BY <1>4, <1>5, FewerRows
<1>11. /\ Cardinality(rest) \in Nat /\ Cardinality(AccountsOf(known)') \in Nat
       /\ Cardinality(own \cup rest) \in Nat
  BY <1>4, <1>5, FiniteRows
<1>12. Cardinality(UsersAfter(p)) + Cardinality(rest) <= Capacity
  BY DEF Fits
<1>13. Cardinality(AccountsOf(known)') <= Capacity
  <2> HIDE DEF own, rest, known
  <2> QED BY <1>8, <1>9, <1>10, <1>11, <1>12, PresenceAssumption
<1>14. Cardinality(known') <= NodeLimit
  <2>1. IsFiniteSet(known) /\ IsFiniteSet(Others(n)) /\ IsFiniteSet(known')
    BY <1>1, <1>3, PresenceAssumption, FS_Subset
  <2>2. Cardinality(known) \in Nat /\ Cardinality(Others(n)) \in Nat /\ Cardinality(known') \in Nat
    BY <2>1, FS_CardinalityType
  <2>3. CASE Known(n)
    <3>1. known' \subseteq known
      BY <1>1, <1>3, <2>3
    <3>2. Cardinality(known') <= Cardinality(known)
      BY <2>1, <3>1, FS_Subset
    <3>3. Cardinality(known) <= NodeLimit
      BY DEF CapacityKept
    <3> HIDE DEF known
    <3> QED BY <2>2, <3>2, <3>3, PresenceAssumption
  <2>4. CASE ~Known(n)
    <3>1. Cardinality(Others(n)) < NodeLimit
      BY <2>4 DEF Fits
    <3>2. n \notin Others(n)
      BY DEF Others
    <3>3. /\ IsFiniteSet(Others(n) \cup {n})
          /\ Cardinality(Others(n) \cup {n}) = Cardinality(Others(n)) + 1
      BY <2>1, <3>2, FS_AddElement
    <3>4. Cardinality(known') <= Cardinality(Others(n) \cup {n})
      BY <1>3, <3>3, FS_Subset
    <3> HIDE DEF known
    <3> QED BY <2>2, <3>1, <3>3, <3>4, PresenceAssumption
  <2> QED BY <2>3, <2>4
<1> QED BY <1>13, <1>14 DEF CapacityKept

LEMMA AppliedFits ==
  ASSUME Typed, Typed', CapacityKept, NEW p \in Packet, registry' = Applied(p)
  PROVE  CapacityKept'
<1>1. p.node \in Nodes /\ registry \in [Nodes -> Entries]
  BY DEF Typed, TypeCentral, Packet
<1>2. CASE ~Unusable(p) /\ ~Repeated(p) /\ ~Heartbeat(p) /\ Fits(p)
  BY <1>2, WrittenFits DEF Applied
<1>3. CASE Unusable(p) \/ Repeated(p)
  BY <1>3, SmallerFits DEF Applied
<1>4. CASE ~Unusable(p) /\ ~Repeated(p) /\ Heartbeat(p)
  <2>1. registry' = [registry EXCEPT ![p.node].seq = p.seq, ![p.node].age = "fresh"]
    BY <1>4 DEF Applied
  <2>2. \A m \in Nodes : /\ registry'[m].epoch = registry[m].epoch
                         /\ registry'[m].users = registry[m].users
    BY <1>1, <2>1 DEF Entries, Entry
  <2> QED BY <2>2, SmallerFits
<1>5. CASE ~Unusable(p) /\ ~Repeated(p) /\ ~Heartbeat(p) /\ ~Fits(p)
  <2>1. registry' = Collected(p.node)
    BY <1>5 DEF Applied
  <2> QED BY <2>1, SmallerFits DEF Collected, NoEntry
<1> QED BY <1>2, <1>3, <1>4, <1>5

LEMMA NextFits == Typed /\ Typed' /\ CapacityKept /\ [Next]_vars => CapacityKept'
<1> SUFFICES ASSUME Typed, Typed', CapacityKept, [Next]_vars PROVE CapacityKept'
  OBVIOUS
<1>1. CASE UNCHANGED registry
  BY <1>1, SmallerFits
<1>2. ASSUME NEW n \in Nodes,
             Send(n) \/ Read(n) \/ Timeout(n) \/ AgentRestart(n) \/ Minute(n) \/ Retire(n) \/ Rescope(n)
      PROVE  UNCHANGED registry
  BY <1>2 DEF Send, Read, Timeout, AgentRestart, Minute, Retire, Rescope
<1>3. ASSUME NEW n \in Nodes, Age(n) PROVE CapacityKept'
  <2>1. \A m \in Nodes : /\ registry'[m].epoch = registry[m].epoch
                         /\ registry'[m].users = registry[m].users
    <3>1. PICK age : registry' = [registry EXCEPT ![n].age = age]
      BY <1>3 DEF Age
    <3> QED BY <3>1 DEF Typed, TypeCentral, Entries, Entry
  <2> QED BY <2>1, SmallerFits
<1>4. ASSUME NEW p \in net, Check(p) PROVE UNCHANGED registry
  BY <1>4 DEF Check
<1>5. ASSUME NEW p \in net, Apply(p) PROVE CapacityKept'
  BY <1>5, AppliedFits DEF Apply, Typed, TypeCentral
<1>6. CASE Local
  <2>1. PICK status \in Status, users \in SUBSET Users, s \in Sender :
          registry' = Applied(PacketOf(Central, s, status, users))
    <3>1. sender[Central] \in Sender /\ \A s \in Sender : Resync(s) \in Sender
      BY PresenceAssumption DEF Typed, TypeAgents, Resync, Sender
    <3> QED BY <1>6, <3>1 DEF Local
  <2>2. PacketOf(Central, s, status, users) \in Packet
    BY PacketOfType, PresenceAssumption
  <2> QED BY <2>1, <2>2, AppliedFits
<1>7. CASE Snapshot
  BY <1>7, SmallerFits DEF Snapshot, NoEntry
<1>8. CASE Restart
  BY <1>8, SmallerFits DEF Restart, NoEntry
<1>9. CASE UNCHANGED vars
  BY <1>1, <1>9 DEF vars
<1> QED BY <1>1, <1>2, <1>3, <1>4, <1>5, <1>6, <1>7, <1>8, <1>9 DEF Next

LEMMA InitFits == Init => CapacityKept
<1> SUFFICES ASSUME Init PROVE CapacityKept
  OBVIOUS
<1>1. {n \in Nodes : Known(n)} = {} /\ AccountsOf({}) = {}
  BY DEF Init, Known, NoEntry, AccountsOf
<1> QED BY <1>1, FS_EmptySet, PresenceAssumption DEF CapacityKept

(* Whoever grows first, and whatever is dropped on the way: the registry never    *)
(* holds more accounts, nor more entries, than it may.                            *)
THEOREM RegistryFits == Spec => []CapacityKept
<1>1. Typed /\ Typed' /\ CapacityKept /\ [Next]_vars => CapacityKept'
  BY NextFits
<1> QED BY <1>1, InitTyped, NextTyped, InitFits, PTL DEF Spec

-----------------------------------------------------------------------------
(* Replaced senders.  The epochs an entry keeps are the last ones of those it has *)
(* replaced, so one of them can only be accepted again when it is none of these.  *)
Remembered(e) ==
  \A k \in 0 .. Retained - 1 : k < Len(e.past) =>
    /\ k < Len(e.retired)
    /\ e.retired[Len(e.retired) - k] = e.past[Len(e.past) - k]

Orderly(e) == (e.epoch = 0 => e.past = <<>>) /\ StaysOut(e) /\ Remembered(e)

OrderlyInv == \A n \in Nodes : Orderly(registry[n])

LEMMA NoEntryOrderly == Orderly(NoEntry)
<1>1. Len(<<>>) = 0 /\ DOMAIN <<>> = {}
  OBVIOUS
<1> QED BY <1>1 DEF NoEntry, Orderly, StaysOut, Remembered

(* What KeepLast leaves out is the oldest. *)
LEMMA LastKept ==
  ASSUME NEW s \in Seq(Nat), NEW x \in Nat, Len(s) <= Retained, NEW k \in 0 .. Retained - 1
  PROVE  LET t == Append(s, x)
             r == KeepLast(t)
         IN  k < Len(t) => k < Len(r) /\ r[Len(r) - k] = t[Len(t) - k]
<1> DEFINE t == Append(s, x)
           r == KeepLast(t)
<1>1. Len(s) \in Nat /\ Retained \in Nat /\ k \in Nat /\ k < Retained
  BY LenProperties, PresenceAssumption
<1>2. t \in Seq(Nat) /\ Len(t) = Len(s) + 1 /\ t # <<>>
  BY AppendProperties
<1>3. r = IF Len(t) > Retained THEN Tail(t) ELSE t
  BY DEF KeepLast
<1>4. Tail(t) \in Seq(Nat) /\ Len(Tail(t)) = Len(t) - 1
      /\ \A i \in 1 .. Len(Tail(t)) : Tail(t)[i] = t[i + 1]
  BY <1>2, HeadTailProperties
<1> HIDE DEF t, r
<1>5. CASE Len(t) > Retained
  <2>1. Len(t) = Retained + 1 /\ r = Tail(t) /\ Len(r) = Retained
    BY <1>1, <1>2, <1>3, <1>4, <1>5
  <2>2. /\ k < Retained /\ Retained - k \in 1 .. Retained
        /\ (Retained - k) + 1 = (Retained + 1) - k
    BY <1>1
  <2>3. r[Retained - k] = t[(Retained - k) + 1]
    BY <1>4, <2>1, <2>2
  <2>4. k < Len(r) /\ r[Len(r) - k] = t[Len(t) - k]
    BY <2>1, <2>2, <2>3
  <2> QED BY <2>4 DEF t, r
<1>6. CASE ~(Len(t) > Retained)
  BY <1>3, <1>6 DEF t, r
<1> QED BY <1>5, <1>6

LEMMA NewOrderly ==
  ASSUME Typed, NEW p \in Packet, p.epoch # 0, Orderly(registry[p.node]),
         ~Unusable(p), ~Repeated(p)
  PROVE  Orderly(NewEntry(p))
<1> DEFINE e == registry[p.node]
           new == NewEntry(p)
           t == Append(e.retired, e.epoch)
           q == Append(e.past, e.epoch)
<1>1. /\ e.retired \in Seq(Nat) /\ e.past \in Seq(Nat) /\ e.epoch \in Nat
      /\ Len(e.retired) <= Retained /\ Retained \in Nat /\ Retained > 0
  BY PresenceAssumption DEF Typed, TypeCentral, Packet, Entries, Entry, Short
<1>2. \A i \in DOMAIN e.retired : e.retired[i] # p.epoch
  BY DEF Unusable
<1>3. new.epoch = p.epoch /\ new.retired = Retired(p)
      /\ new.past = IF e.epoch \in {0, p.epoch} THEN e.past ELSE q
  BY DEF NewEntry
<1>4. Len(e.past) \in Nat /\ Len(e.retired) \in Nat
      /\ DOMAIN e.past = 1 .. Len(e.past) /\ DOMAIN e.retired = 1 .. Len(e.retired)
  BY <1>1, LenProperties
<1>5. CASE e.epoch \in {0, p.epoch}
  <2>1. new.retired = e.retired /\ new.past = e.past
    BY <1>3, <1>5 DEF Retired
  <2>2. Remembered(new)
    BY <2>1 DEF Orderly, Remembered
  <2>3. StaysOut(new)
    <3>1. CASE e.epoch = 0
      BY <1>4, <2>1, <3>1 DEF Orderly, StaysOut
    <3>2. CASE e.epoch = p.epoch
      BY <1>3, <2>1, <3>2 DEF Orderly, StaysOut
    <3> QED BY <1>5, <3>1, <3>2
  <2> QED BY <1>3, <2>2, <2>3 DEF Orderly
<1>6. CASE e.epoch \notin {0, p.epoch}
  <2>1. new.retired = KeepLast(t) /\ new.past = q
    BY <1>3, <1>6 DEF Retired
  <2>2. /\ Len(t) = Len(e.retired) + 1 /\ t[Len(e.retired) + 1] = e.epoch
        /\ \A i \in 1 .. Len(e.retired) : t[i] = e.retired[i]
        /\ Len(q) = Len(e.past) + 1 /\ q[Len(e.past) + 1] = e.epoch
        /\ \A i \in 1 .. Len(e.past) : q[i] = e.past[i]
        /\ DOMAIN q = 1 .. Len(e.past) + 1
    <3>1. /\ t \in Seq(Nat) /\ Len(t) = Len(e.retired) + 1 /\ t[Len(e.retired) + 1] = e.epoch
          /\ \A i \in 1 .. Len(e.retired) : t[i] = e.retired[i]
      BY <1>1, AppendProperties
    <3>2. /\ q \in Seq(Nat) /\ Len(q) = Len(e.past) + 1 /\ q[Len(e.past) + 1] = e.epoch
          /\ \A i \in 1 .. Len(e.past) : q[i] = e.past[i]
      BY <1>1, AppendProperties
    <3>3. DOMAIN q = 1 .. Len(q)
      BY <3>2, LenProperties
    <3> HIDE DEF t, q, e
    <3> QED BY <3>1, <3>2, <3>3
  <2>3. \A k \in 0 .. Retained - 1 : k < Len(e.past) =>
          /\ k < Len(e.retired)
          /\ e.retired[Len(e.retired) - k] = e.past[Len(e.past) - k]
    BY DEF Orderly, Remembered
  <2>4. Remembered(new)
    <3>1. ASSUME NEW k \in 0 .. Retained - 1, k < Len(new.past)
          PROVE  /\ k < Len(new.retired)
                 /\ new.retired[Len(new.retired) - k] = new.past[Len(new.past) - k]
      <4>1. k < Len(t) => /\ k < Len(new.retired)
                          /\ new.retired[Len(new.retired) - k] = t[Len(t) - k]
        BY <1>1, <2>1, LastKept
      <4> HIDE DEF new, t, q, e
      <4>2. CASE k = 0
        BY <1>4, <2>1, <2>2, <4>1, <4>2
      <4>3. CASE k # 0
        <5>1. k - 1 \in 0 .. Retained - 1 /\ k - 1 < Len(e.past)
          BY <1>1, <1>4, <2>1, <2>2, <3>1, <4>3
        <5>2. /\ k - 1 < Len(e.retired)
              /\ e.retired[Len(e.retired) - (k - 1)] = e.past[Len(e.past) - (k - 1)]
          BY <2>3, <5>1
        <5>3. /\ Len(e.retired) - (k - 1) \in 1 .. Len(e.retired)
              /\ Len(e.past) - (k - 1) \in 1 .. Len(e.past)
              /\ Len(t) - k = Len(e.retired) - (k - 1) /\ Len(q) - k = Len(e.past) - (k - 1)
          BY <1>4, <2>2, <4>3, <5>1, <5>2
        <5>4. t[Len(t) - k] = e.retired[Len(e.retired) - (k - 1)]
          BY <2>2, <5>3
        <5>5. q[Len(q) - k] = e.past[Len(e.past) - (k - 1)]
          BY <2>2, <5>3
        <5>6. k < Len(t)
          BY <1>4, <2>2, <5>2, <4>3
        <5> QED BY <2>1, <4>1, <5>2, <5>4, <5>5, <5>6
      <4> QED BY <4>2, <4>3
    <3> QED BY <3>1 DEF Remembered
  <2>5. StaysOut(new)
    <3>1. ASSUME NEW i \in DOMAIN new.past, new.past[i] = new.epoch
          PROVE  Len(new.past) - i > Retained
      <4> HIDE DEF new, t, q, e
      <4>1. i \in 1 .. Len(e.past) /\ e.past[i] = p.epoch
        BY <1>3, <1>4, <1>6, <2>1, <2>2, <3>1
      <4>2. SUFFICES ASSUME ~(Len(new.past) - i > Retained) PROVE FALSE
        OBVIOUS
      <4> DEFINE k == Len(e.past) - i
      <4>3. k \in 0 .. Retained - 1 /\ k < Len(e.past) /\ Len(e.past) - k = i
        <5>1. Len(new.past) = Len(e.past) + 1 /\ i \in Nat /\ 1 <= i /\ i <= Len(e.past)
          BY <1>4, <2>1, <2>2, <4>1
        <5>2. Len(e.past) \in Nat /\ Retained \in Nat
          BY <1>1, <1>4
        <5> QED BY <4>2, <5>1, <5>2
      <4>4. k < Len(e.retired) /\ e.retired[Len(e.retired) - k] = p.epoch
        BY <2>3, <4>1, <4>3
      <4> HIDE DEF k
      <4>5. Len(e.retired) - k \in DOMAIN e.retired
        BY <1>4, <4>3, <4>4
      <4> QED BY <1>2, <4>4, <4>5
    <3> QED BY <3>1 DEF StaysOut
  <2> QED BY <1>3, <2>4, <2>5 DEF Orderly
<1> QED BY <1>5, <1>6

LEMMA AppliedOrderly ==
  ASSUME Typed, NEW p \in Packet, p.epoch # 0, OrderlyInv
  PROVE  \A n \in Nodes : Orderly(Applied(p)[n])
<1>1. p.node \in Nodes /\ registry \in [Nodes -> Entries] /\ Collected(p.node) \in [Nodes -> Entries]
  BY NoEntryType DEF Typed, TypeCentral, Packet, Collected
<1>2. \A n \in Nodes : Orderly(Collected(p.node)[n])
  BY NoEntryOrderly DEF Collected, OrderlyInv
<1>3. CASE Unusable(p) \/ Repeated(p)
  BY <1>3 DEF Applied, OrderlyInv
<1>4. CASE ~Unusable(p) /\ ~Repeated(p) /\ Heartbeat(p)
  <2>1. Applied(p) = [registry EXCEPT ![p.node].seq = p.seq, ![p.node].age = "fresh"]
    BY <1>4 DEF Applied
  <2>2. \A n \in Nodes : /\ Applied(p)[n].epoch = registry[n].epoch
                         /\ Applied(p)[n].past = registry[n].past
                         /\ Applied(p)[n].retired = registry[n].retired
    BY <1>1, <2>1 DEF Entries, Entry
  <2> QED BY <2>2 DEF OrderlyInv, Orderly, StaysOut, Remembered
<1>5. CASE ~Unusable(p) /\ ~Repeated(p) /\ ~Heartbeat(p) /\ Fits(p)
  <2>1. Orderly(NewEntry(p))
    BY <1>1, <1>5, NewOrderly DEF OrderlyInv
  <2>2. Applied(p) = [Collected(p.node) EXCEPT ![p.node] = NewEntry(p)]
    BY <1>5 DEF Applied
  <2> QED BY <1>1, <1>2, <2>1, <2>2
<1>6. CASE ~Unusable(p) /\ ~Repeated(p) /\ ~Heartbeat(p) /\ ~Fits(p)
  BY <1>2, <1>6 DEF Applied
<1> QED BY <1>3, <1>4, <1>5, <1>6

LEMMA NextOrderly ==
  ASSUME ExactInv, OrderlyInv, [Next]_vars
  PROVE  OrderlyInv'
<1>1. /\ registry \in [Nodes -> Entries] /\ taken \in [Nodes -> Lives]
      /\ Central \in Nodes /\ net \subseteq Packet /\ Typed
  BY PresenceAssumption DEF ExactInv, Typed, TypeAgents, TypeCentral
<1>2. \A p \in net : p.epoch # 0
  <2>1. ASSUME NEW p \in net PROVE p.epoch # 0
    <3>1. p.node \in Nodes /\ p.epoch \in DOMAIN taken[p.node]
      BY <1>1, <2>1 DEF ExactInv, NetInv, Faithful, IsSample, Recorded, Packet
    <3>2. DOMAIN taken[p.node] = 1 .. Len(taken[p.node]) /\ Len(taken[p.node]) \in Nat
      BY <1>1, <3>1, LifeDomain
    <3> QED BY <3>1, <3>2
  <2> QED BY <2>1
<1>3. CASE UNCHANGED registry
  BY <1>3 DEF OrderlyInv
<1>4. ASSUME NEW n \in Nodes,
             \/ Send(n) \/ Read(n) \/ Timeout(n) \/ AgentRestart(n)
             \/ Minute(n) \/ Retire(n) \/ Rescope(n)
      PROVE  UNCHANGED registry
  BY <1>4 DEF Send, Read, Timeout, AgentRestart, Minute, Retire, Rescope
<1>5. ASSUME NEW n \in Nodes, Age(n) PROVE OrderlyInv'
  <2>1. PICK age : registry' = [registry EXCEPT ![n].age = age]
    BY <1>5 DEF Age
  <2>2. \A m \in Nodes : /\ registry'[m].epoch = registry[m].epoch
                         /\ registry'[m].past = registry[m].past
                         /\ registry'[m].retired = registry[m].retired
    BY <1>1, <2>1 DEF Entries, Entry
  <2> QED BY <2>2 DEF OrderlyInv, Orderly, StaysOut, Remembered
<1>6. ASSUME NEW p \in net, Check(p) PROVE UNCHANGED registry
  BY <1>6 DEF Check
<1>7. ASSUME NEW p \in net, Apply(p) PROVE OrderlyInv'
  <2>1. \A n \in Nodes : Orderly(Applied(p)[n])
    BY <1>1, <1>2, AppliedOrderly
  <2> QED BY <1>7, <2>1 DEF Apply, OrderlyInv
<1>8. CASE Local
  <2>1. PICK status \in Status, users \in SUBSET Users, s \in Sender :
          /\ registry' = Applied(PacketOf(Central, s, status, users))
          /\ s.epoch = sender[Central].epoch
    <3>1. sender[Central] \in Sender
      BY <1>1 DEF Typed, TypeAgents
    <3>2. Resync(sender[Central]) \in Sender /\ Resync(sender[Central]).epoch = sender[Central].epoch
      BY <3>1 DEF Resync, Sender
    <3> QED BY <1>8, <3>1, <3>2 DEF Local
  <2> DEFINE p == PacketOf(Central, s, status, users)
  <2>2. p \in Packet /\ p.epoch = Len(taken[Central]) /\ taken[Central] # <<>>
    BY <1>1, <2>1, PacketOfType, HasLife DEF PacketOf, ExactInv, SenderInv, Placed
  <2>3. p.epoch # 0
    BY <1>1, <2>2, EmptySeq
  <2> HIDE DEF p
  <2>4. \A n \in Nodes : Orderly(Applied(p)[n])
    BY <1>1, <2>2, <2>3, AppliedOrderly
  <2> QED BY <2>1, <2>4 DEF OrderlyInv, p
<1>9. CASE Snapshot
  BY <1>9, NoEntryOrderly DEF Snapshot, OrderlyInv
<1>10. CASE Restart
  BY <1>10, NoEntryOrderly DEF Restart, OrderlyInv
<1>11. CASE UNCHANGED vars
  BY <1>3, <1>11 DEF vars
<1> QED BY <1>3, <1>4, <1>5, <1>6, <1>7, <1>8, <1>9, <1>10, <1>11 DEF Next

LEMMA InitOrderly == Init => OrderlyInv
BY NoEntryOrderly DEF Init, OrderlyInv

(* A sender that was replaced does not come back to its entry, whatever is lost,   *)
(* late or repeated, however often agents and Central are started and however      *)
(* many epochs there are, until more others have been replaced after it than an    *)
(* entry keeps.                                                                    *)
THEOREM ReplacedNeverReturns == Spec => []RetiredStaysOut
<1>1. OrderlyInv => RetiredStaysOut
  BY DEF OrderlyInv, Orderly, RetiredStaysOut
<1>2. ExactInv /\ OrderlyInv /\ [Next]_vars => OrderlyInv'
  BY NextOrderly
<1> QED BY <1>1, <1>2, InitExact, NextExact, InitOrderly, PTL DEF Spec
=============================================================================
