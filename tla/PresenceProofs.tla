--------------------------- MODULE PresenceProofs ---------------------------
(***************************************************************************)
(* Theorems about Presence, for any number of nodes, accounts, epochs,     *)
(* samples, lost, late and repeated packets, and starts of Central.        *)
(***************************************************************************)
EXTENDS Presence, SequenceTheorems, TLAPS

Lives == Seq(Seq(Sample))

(* The entry keeps no more retired epochs than it may. *)
Short(e) == Len(e.retired) <= Retained
Entries == {e \in Entry : Short(e)}

-----------------------------------------------------------------------------
(* Types of what the operators make. *)

LEMMA NoEntryType == NoEntry \in Entries
<1>1. <<>> \in Seq(Nat) /\ Len(<<>>) = 0
  OBVIOUS
<1> QED BY <1>1, PresenceAssumption DEF NoEntry, Entries, Entry, Short

LEMMA NewSenderType == ASSUME NEW e \in Nat PROVE NewSender(e) \in Sender
BY DEF NewSender, Sender

LEMMA PacketOfType ==
  ASSUME NEW n \in Nodes, NEW s \in Sender, NEW status \in Status, NEW users \in SUBSET Users
  PROVE  PacketOf(n, s, status, users) \in Packet
BY DEF PacketOf, Packet, Sender

LEMMA AckType ==
  ASSUME NEW s \in Sender, NEW p \in Packet
  PROVE  Ack(s, p) \in Sender /\ Resync(s) \in Sender
BY DEF Ack, Resync, Sender, Packet

LEMMA RetiredType ==
  ASSUME registry \in [Nodes -> Entries], NEW p \in Packet
  PROVE  Retired(p) \in Seq(Nat) /\ Len(Retired(p)) <= Retained
<1> DEFINE e == registry[p.node]
<1>1. e.retired \in Seq(Nat) /\ Len(e.retired) <= Retained /\ e.epoch \in Nat
  BY DEF Packet, Entries, Entry, Short
<1>2. CASE e.epoch \in {0, p.epoch}
  BY <1>1, <1>2 DEF Retired
<1>3. CASE e.epoch \notin {0, p.epoch}
  <2> DEFINE s == Append(e.retired, e.epoch)
  <2>1. s \in Seq(Nat) /\ Len(s) = Len(e.retired) + 1 /\ s # <<>>
    BY <1>1, AppendProperties
  <2>2. Tail(s) \in Seq(Nat) /\ Len(Tail(s)) = Len(s) - 1
    BY <2>1, HeadTailProperties
  <2>3. Retired(p) = IF Len(s) > Retained THEN Tail(s) ELSE s
    BY <1>3 DEF Retired, KeepLast
  <2>4. Len(e.retired) \in Nat /\ Retained \in Nat
    BY <1>1, PresenceAssumption
  <2> QED BY <1>1, <2>1, <2>2, <2>3, <2>4
<1> QED BY <1>2, <1>3

LEMMA NewEntryType ==
  ASSUME registry \in [Nodes -> Entries], NEW p \in Packet
  PROVE  NewEntry(p) \in Entries
<1>1. registry[p.node] \in Entry
  BY DEF Packet, Entries
<1>2. UsersAfter(p) \subseteq Users
  BY <1>1 DEF UsersAfter, Packet, Entry
<1>3. p.epoch \in Nat /\ p.seq \in Nat /\ p.status \in Status
  BY DEF Packet
<1>4. registry[p.node].past \in Seq(Nat) /\ registry[p.node].epoch \in Nat
  BY <1>1 DEF Entry
<1>5. (IF registry[p.node].epoch \in {0, p.epoch} THEN registry[p.node].past
       ELSE Append(registry[p.node].past, registry[p.node].epoch)) \in Seq(Nat)
  BY <1>4, AppendProperties
<1> QED BY <1>2, <1>3, <1>5, RetiredType DEF NewEntry, Entries, Entry, Short

LEMMA AppliedType ==
  ASSUME registry \in [Nodes -> Entries], NEW p \in Packet
  PROVE  Applied(p) \in [Nodes -> Entries]
<1>1. p.node \in Nodes /\ p.seq \in Nat
  BY DEF Packet
<1>2. Collected(p.node) \in [Nodes -> Entries]
  BY NoEntryType DEF Collected
<1>3. [registry EXCEPT ![p.node].seq = p.seq, ![p.node].age = "fresh"] \in [Nodes -> Entries]
  <2>1. [registry[p.node] EXCEPT !.seq = p.seq, !.age = "fresh"] \in Entries
    BY <1>1 DEF Entries, Entry, Short
  <2> QED BY <1>1, <2>1
<1>4. [Collected(p.node) EXCEPT ![p.node] = NewEntry(p)] \in [Nodes -> Entries]
  BY <1>1, <1>2, NewEntryType
<1> QED BY <1>2, <1>3, <1>4 DEF Applied

LEMMA TakenType ==
  ASSUME taken \in [Nodes -> Lives], NEW n \in Nodes, NEW sample \in Sample,
         NEW fresh \in BOOLEAN, Taken(n, sample, fresh)
  PROVE  taken' \in [Nodes -> Lives]
<1> DEFINE t == taken[n]
<1>1. t \in Lives
  OBVIOUS
<1>2. Append(t, <<sample>>) \in Lives
  <2>1. <<sample>> \in Seq(Sample)
    OBVIOUS
  <2> QED BY <1>1, <2>1, AppendProperties DEF Lives
<1>3. [t EXCEPT ![Len(t)] = Append(t[Len(t)], sample)] \in Lives
  <2>1. CASE Len(t) \in 1 .. Len(t)
    <3>1. t[Len(t)] \in Seq(Sample)
      BY <1>1, <2>1, ElementOfSeq DEF Lives
    <3>2. Append(t[Len(t)], sample) \in Seq(Sample)
      BY <3>1, AppendProperties
    <3> QED BY <1>1, <2>1, <3>2, ExceptSeq DEF Lives
  <2>2. CASE Len(t) \notin 1 .. Len(t)
    <3>1. DOMAIN t = 1 .. Len(t) /\ t = [i \in 1 .. Len(t) |-> t[i]]
      BY <1>1, LenProperties, IsASeq DEF Lives
    <3>2. [t EXCEPT ![Len(t)] = Append(t[Len(t)], sample)] = t
      BY <2>2, <3>1
    <3> QED BY <1>1, <3>2
  <2> QED BY <2>1, <2>2
<1> QED BY <1>1, <1>2, <1>3 DEF Taken

-----------------------------------------------------------------------------
(* Types of the variables. *)

TypeAgents ==
  /\ sender \in [Nodes -> Sender]
  /\ pending \in [Nodes -> Packet \cup {NoPacket}]
  /\ reply \in [Nodes -> {"none", "204", "409"}]
  /\ \A n \in Nodes : reply[n] # "none" => pending[n] # NoPacket
  /\ taken \in [Nodes -> Lives]

TypeCentral ==
  /\ net \subseteq Packet /\ registry \in [Nodes -> Entries]
  /\ active \subseteq Nodes /\ scope \subseteq Nodes

TypeBounds == lost \in Nat /\ repeats \in Nat /\ restarts \in Nat

Typed == TypeAgents /\ TypeCentral /\ TypeBounds

LEMMA InitTyped == Init => Typed
<1> SUFFICES ASSUME Init PROVE Typed
  OBVIOUS
<1>1. <<<<>>>> \in Lives
  <2>1. <<>> \in Seq(Sample)
    OBVIOUS
  <2> QED BY <2>1 DEF Lives
<1>2. TypeAgents
  BY <1>1, NewSenderType DEF Init, TypeAgents
<1>3. TypeCentral
  BY NoEntryType DEF Init, TypeCentral
<1> QED BY <1>2, <1>3 DEF Init, Typed, TypeBounds

LEMMA AnswerType ==
  ASSUME TypeAgents, NEW p \in Packet, NEW code \in {"204", "409"}, Answer(p, code),
         UNCHANGED agents
  PROVE  TypeAgents'
<1>1. p.node \in Nodes
  BY DEF Packet
<1>2. reply' \in [Nodes -> {"none", "204", "409"}]
  BY <1>1 DEF Answer, TypeAgents
<1>3. \A n \in Nodes : reply'[n] # "none" => pending[n] # NoPacket
  BY <1>1 DEF Answer, Awaited, TypeAgents
<1> QED BY <1>2, <1>3 DEF TypeAgents, agents

LEMMA DoneType ==
  ASSUME TypeBounds, NEW p \in Packet, NEW rest \in SUBSET Packet, Done(p, rest)
  PROVE  net' \subseteq Packet /\ repeats' \in Nat
<1> DEFINE again == [p EXCEPT !.checked = FALSE]
<1>1. again \in Packet
  BY DEF Packet
<1>2. net' = rest \/ net' = rest \cup {again}
  BY DEF Done
<1>3. net' \subseteq Packet
  <2> HIDE DEF again
  <2> QED BY <1>1, <1>2
<1>4. repeats' \in Nat
  BY DEF Done, TypeBounds
<1> QED BY <1>3, <1>4

LEMMA SendTyped == ASSUME Typed, NEW n \in Nodes, Send(n) PROVE Typed'
<1>1. PICK status \in Status, users \in SUBSET Users, sent \in BOOLEAN, fresh \in BOOLEAN :
        LET s == IF fresh THEN NewSender(Len(taken[n]) + 1) ELSE sender[n]
            p == PacketOf(n, s, status, users)
        IN  /\ sender' = [sender EXCEPT ![n] = [s EXCEPT !.seq = @ + 1]]
            /\ Taken(n, [status |-> status, users |-> users, sent |-> sent], fresh)
            /\ IF sent THEN pending' = [pending EXCEPT ![n] = p] /\ net' = net \cup {p}
                       ELSE UNCHANGED <<pending, net>>
  BY DEF Send
<1> DEFINE s == IF fresh THEN NewSender(Len(taken[n]) + 1) ELSE sender[n]
           p == PacketOf(n, s, status, users)
           sample == [status |-> status, users |-> users, sent |-> sent]
<1>2. Len(taken[n]) \in Nat
  BY LenProperties DEF Typed, TypeAgents, Lives
<1>3. s \in Sender
  BY <1>2, NewSenderType DEF Typed, TypeAgents
<1>4. p \in Packet
  BY <1>3, PacketOfType
<1>5. [s EXCEPT !.seq = @ + 1] \in Sender
  BY <1>3 DEF Sender
<1>6. sample \in Sample
  BY DEF Sample
<1> HIDE DEF s, p, sample
<1>7. taken' \in [Nodes -> Lives]
  BY <1>1, <1>6, TakenType DEF Typed, TypeAgents, sample
<1>8. sender' \in [Nodes -> Sender]
  BY <1>1, <1>5 DEF Typed, TypeAgents, s
<1>9. /\ pending' \in [Nodes -> Packet \cup {NoPacket}] /\ net' \subseteq Packet
      /\ \A m \in Nodes \ {n} : pending'[m] = pending[m]
  BY <1>1, <1>4 DEF Typed, TypeAgents, TypeCentral, s, p
<1>10. reply' = reply /\ reply[n] = "none"
  BY DEF Send, Typed, TypeAgents
<1>11. TypeAgents'
  BY <1>7, <1>8, <1>9, <1>10 DEF Typed, TypeAgents
<1>12. TypeCentral' /\ TypeBounds'
  BY <1>9 DEF Send, Typed, TypeCentral, TypeBounds, bounds
<1> QED BY <1>11, <1>12 DEF Typed

LEMMA LocalTyped == ASSUME Typed, Local PROVE Typed'
<1>1. PICK status \in Status, users \in SUBSET Users, changed \in BOOLEAN :
        LET s == IF changed THEN Resync(sender[Central]) ELSE sender[Central]
            p == PacketOf(Central, s, status, users)
            next == [s EXCEPT !.seq = @ + 1]
        IN  /\ registry' = Applied(p)
            /\ sender' = [sender EXCEPT ![Central] =
                 IF Accepted(p) THEN Ack(next, p) ELSE Resync(next)]
            /\ Taken(Central, [status |-> status, users |-> users, sent |-> TRUE], FALSE)
  BY DEF Local
<1> DEFINE s == IF changed THEN Resync(sender[Central]) ELSE sender[Central]
           p == PacketOf(Central, s, status, users)
           next == [s EXCEPT !.seq = @ + 1]
           sample == [status |-> status, users |-> users, sent |-> TRUE]
<1>2. s \in Sender /\ Central \in Nodes
  <2>1. Central \in Nodes
    BY PresenceAssumption
  <2>2. sender[Central] \in Sender
    BY <2>1 DEF Typed, TypeAgents
  <2>3. Resync(sender[Central]) \in Sender
    BY <2>2 DEF Resync, Sender
  <2> QED BY <2>1, <2>2, <2>3
<1>3. p \in Packet
  BY <1>2, PacketOfType
<1>4. next \in Sender
  BY <1>2 DEF Sender
<1>5. sample \in Sample
  BY DEF Sample
<1> HIDE DEF s, p, next, sample
<1>6. taken' \in [Nodes -> Lives]
  BY <1>1, <1>2, <1>5, TakenType DEF Typed, TypeAgents, sample
<1>7. Ack(next, p) \in Sender /\ Resync(next) \in Sender
  BY <1>3, <1>4, AckType
<1>8. sender' \in [Nodes -> Sender]
  BY <1>1, <1>7 DEF Typed, TypeAgents, s, p, next
<1>9. registry' \in [Nodes -> Entries]
  BY <1>1, <1>3, AppliedType DEF Typed, TypeCentral, s, p
<1>10. TypeAgents'
  BY <1>6, <1>8 DEF Local, Typed, TypeAgents
<1>11. TypeCentral' /\ TypeBounds'
  BY <1>9 DEF Local, Typed, TypeCentral, TypeBounds, bounds
<1> QED BY <1>10, <1>11 DEF Typed

LEMMA AgentTyped ==
  ASSUME Typed, NEW n \in Nodes, Read(n) \/ Timeout(n) \/ AgentRestart(n) \/ Minute(n)
  PROVE  Typed'
<1>1. CASE Read(n)
  <2>1. pending[n] \in Packet
    BY <1>1 DEF Read, Typed, TypeAgents
  <2>2. Ack(sender[n], pending[n]) \in Sender /\ Resync(sender[n]) \in Sender
    BY <2>1, AckType DEF Typed, TypeAgents
  <2>3. sender' \in [Nodes -> Sender]
    BY <1>1, <2>2 DEF Read, Typed, TypeAgents
  <2> QED BY <1>1, <2>3 DEF Read, Typed, TypeAgents, TypeCentral, TypeBounds, bounds
<1>2. CASE Timeout(n)
  <2>1. sender' \in [Nodes -> Sender]
    <3>1. sender' = [sender EXCEPT ![n] = Resync(sender[n])]
      BY <1>2 DEF Timeout
    <3>2. Resync(sender[n]) \in Sender
      BY DEF Resync, Sender, Typed, TypeAgents
    <3> QED BY <3>1, <3>2 DEF Typed, TypeAgents
  <2>2. lost' \in Nat /\ net' \subseteq Packet
    BY <1>2 DEF Timeout, Typed, TypeBounds, TypeCentral
  <2> QED BY <1>2, <2>1, <2>2 DEF Timeout, Typed, TypeAgents, TypeCentral, TypeBounds
<1>3. CASE AgentRestart(n)
  <2>1. Len(taken[n]) \in Nat /\ <<>> \in Seq(Sample)
    BY LenProperties DEF Typed, TypeAgents, Lives
  <2>2. Append(taken[n], <<>>) \in Lives
    BY <2>1, AppendProperties DEF Typed, TypeAgents, Lives
  <2>3. sender' \in [Nodes -> Sender] /\ taken' \in [Nodes -> Lives]
    BY <1>3, <2>1, <2>2, NewSenderType DEF AgentRestart, Typed, TypeAgents
  <2> QED BY <1>3, <2>3 DEF AgentRestart, Typed, TypeAgents, TypeCentral, TypeBounds, bounds
<1>4. CASE Minute(n)
  <2>1. sender' \in [Nodes -> Sender]
    <3>1. sender' = [sender EXCEPT ![n] = [sender[n] EXCEPT !.aged = TRUE]]
      BY <1>4 DEF Minute
    <3>2. [sender[n] EXCEPT !.aged = TRUE] \in Sender
      BY DEF Sender, Typed, TypeAgents
    <3> QED BY <3>1, <3>2 DEF Typed, TypeAgents
  <2> QED BY <1>4, <2>1 DEF Minute, Typed, TypeAgents, TypeCentral, TypeBounds, bounds
<1> QED BY <1>1, <1>2, <1>3, <1>4

LEMMA HandlerTyped ==
  ASSUME Typed, NEW p \in net, Check(p) \/ Apply(p)
  PROVE  Typed'
<1>1. p \in Packet /\ net \ {p} \in SUBSET Packet
  BY DEF Typed, TypeCentral
<1>2. CASE Check(p)
  <2> DEFINE passed == [p EXCEPT !.checked = TRUE]
  <2>1. passed \in Packet
    BY <1>1 DEF Packet
  <2>2. CASE p.node \in active
    <3>1. net' = (net \ {p}) \cup {passed} /\ UNCHANGED <<reply, repeats>>
      BY <1>2, <2>2 DEF Check
    <3> HIDE DEF passed
    <3>2. net' \subseteq Packet
      BY <1>1, <2>1, <3>1
    <3> QED BY <1>2, <3>1, <3>2 DEF Check, agents, Typed, TypeAgents, TypeCentral, TypeBounds
  <2>3. CASE p.node \notin active
    <3>1. Answer(p, "409") /\ Done(p, net \ {p})
      BY <1>2, <2>3 DEF Check
    <3>2. TypeAgents'
      BY <1>1, <1>2, <3>1, AnswerType DEF Check, Typed
    <3>3. net' \subseteq Packet /\ repeats' \in Nat
      BY <1>1, <3>1, DoneType DEF Typed
    <3> QED BY <1>2, <3>2, <3>3 DEF Check, Typed, TypeCentral, TypeBounds
  <2> QED BY <2>2, <2>3
<1>3. CASE Apply(p)
  <2> DEFINE rest == IF Renewed(p) THEN Seen(p.node, net \ {p}) ELSE net \ {p}
             seen == [p EXCEPT !.old = @ \/ Renewed(p)]
  <2>1. seen \in Packet
    BY <1>1 DEF Packet
  <2>2. rest \in SUBSET Packet
    <3>1. \A q \in Packet : [q EXCEPT !.old = TRUE] \in Packet
      BY DEF Packet
    <3>2. Seen(p.node, net \ {p}) \in SUBSET Packet
      BY <1>1, <3>1 DEF Seen
    <3> QED BY <1>1, <3>2
  <2>3. Done(seen, rest)
    BY <1>3 DEF Apply
  <2> HIDE DEF seen, rest
  <2>4. net' \subseteq Packet /\ repeats' \in Nat
    BY <2>1, <2>2, <2>3, DoneType DEF Typed
  <2>5. registry' \in [Nodes -> Entries]
    BY <1>1, <1>3, AppliedType DEF Apply, Typed, TypeCentral
  <2>6. TypeAgents'
    BY <1>1, <1>3, AnswerType DEF Apply, Typed
  <2> QED BY <1>3, <2>4, <2>5, <2>6 DEF Apply, Typed, TypeCentral, TypeBounds
<1> QED BY <1>2, <1>3

LEMMA RegistryTyped ==
  ASSUME Typed, NEW n \in Nodes, Age(n) \/ Snapshot \/ Restart \/ Retire(n) \/ Rescope(n)
  PROVE  Typed'
<1>1. CASE Age(n)
  <2>1. registry' \in [Nodes -> Entries] /\ net' \subseteq Packet
    <3>1. /\ [registry[n] EXCEPT !.age = "stale"] \in Entries
          /\ [registry[n] EXCEPT !.age = "old"] \in Entries
      BY DEF Typed, TypeCentral, Entries, Entry, Short
    <3>2. \/ registry' = [registry EXCEPT ![n] = [@ EXCEPT !.age = "stale"]]
          \/ registry' = [registry EXCEPT ![n] = [@ EXCEPT !.age = "old"]]
      BY <1>1 DEF Age
    <3>3. registry' \in [Nodes -> Entries]
      BY <3>1, <3>2 DEF Typed, TypeCentral
    <3> QED BY <1>1, <3>3 DEF Age, Typed, TypeCentral
  <2> QED BY <1>1, <2>1 DEF Age, agents, bounds, Typed, TypeAgents, TypeCentral, TypeBounds
<1>2. CASE Snapshot
  BY <1>2, NoEntryType DEF Snapshot, agents, bounds, Typed, TypeAgents, TypeCentral, TypeBounds
<1>3. CASE Restart
  <2>1. Len(taken[Central]) \in Nat /\ Central \in Nodes
    BY LenProperties, PresenceAssumption DEF Typed, TypeAgents, Lives
  <2>2. Append(taken[Central], <<>>) \in Lives
    <3>1. <<>> \in Seq(Sample)
      OBVIOUS
    <3> QED BY <2>1, <3>1, AppendProperties DEF Typed, TypeAgents, Lives
  <2>3. sender' \in [Nodes -> Sender] /\ taken' \in [Nodes -> Lives]
    BY <1>3, <2>1, <2>2, NewSenderType DEF Restart, Typed, TypeAgents
  <2>4. TypeCentral'
    BY <1>3, NoEntryType DEF Restart, Typed, TypeCentral
  <2> QED BY <1>3, <2>3, <2>4 DEF Restart, Typed, TypeAgents, TypeBounds
<1>4. CASE Retire(n) \/ Rescope(n)
  BY <1>4 DEF Retire, Rescope, agents, bounds, Typed, TypeAgents, TypeCentral, TypeBounds
<1> QED BY <1>1, <1>2, <1>3, <1>4

LEMMA NextTyped == Typed /\ [Next]_vars => Typed'
<1>1. Typed /\ UNCHANGED vars => Typed'
  BY DEF vars, agents, bounds, Typed, TypeAgents, TypeCentral, TypeBounds
<1>2. Central \in Nodes
  BY PresenceAssumption
<1> QED BY <1>1, <1>2, SendTyped, LocalTyped, AgentTyped, HandlerTyped, RegistryTyped DEF Next

(* Every variable keeps its type, an entry no more retired epochs than it may, *)
(* and an answer always finds the agent waiting for it.                        *)
THEOREM PresenceTypeCorrect == Spec => []TypeOK
<1>1. Typed => TypeOK
  BY DEF Typed, TypeAgents, TypeCentral, TypeBounds, Lives, Entries, Short, TypeOK
<1>2. Spec => []Typed
  BY InitTyped, NextTyped, PTL DEF Spec
<1> QED BY <1>1, <1>2, PTL
=============================================================================
