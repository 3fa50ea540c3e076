-------------------------- MODULE LiveCardsProofs --------------------------
(***************************************************************************)
(* Theorems about LiveCards, for any number of nodes, reports, failed      *)
(* calls, refused writes, stops and deletions by people.                   *)
(***************************************************************************)
EXTENDS LiveCards, FiniteSetTheorems, SequenceTheorems, TLAPS

Records == [topic : Nat, topicPending : BOOLEAN, checked : BOOLEAN,
            message : Nat, sendPending : BOOLEAN, last : Nat]
Places == [step : Steps, todo : Seq(Cards), first : BOOLEAN, got : Nat,
           text : Nat, keep : SUBSET Cards]

New(c) == c \in Nodes /\ phase[c] = "new"
Gone(c) == c \in Nodes /\ phase[c] = "gone"

(* A record accounts for what the group holds of a card, and the topic it  *)
(* names was made for the card.                                            *)
Held(r, ts, ms) ==
  /\ \A t \in ts : r.topic = t \/ r.topicPending
  /\ \A m \in ms : r.message = m \/ r.sendPending \/ r.topicPending

Covers(r, c) == Held(r, AliveTopics(c), AliveMessages(c))

Own(r, c) == r.topic # 0 => r.topic \in DOMAIN topics /\ topics[r.topic] = c

Types ==
  /\ phase \in [Nodes -> {"new", "listed", "gone"}]
  /\ version \in [Nodes -> Nat] /\ reports \in Nat
  /\ mem \in [Cards -> Records] /\ disk \in [Cards -> Records]
  /\ at \in Places
  /\ topics \in Seq(Cards) /\ messages \in Seq([topic : Nat, text : Nat])

(* The group: messages are in topics, and no card has two of either.       *)
GroupInv ==
  /\ \A m \in DOMAIN messages : messages[m].topic \in DOMAIN topics
  /\ OneCard

(* The records: what is on disk accounts for every card but those of nodes *)
(* that have left, and what is in memory for these too while the round has *)
(* not passed them.                                                        *)
RecordsInv ==
  /\ \A c \in Cards : Own(mem[c], c) /\ Own(disk[c], c)
  /\ \A c \in Cards : New(c) => mem[c] = NoRecord /\ disk[c] = NoRecord /\ AliveTopics(c) = {}
  /\ \A c \in Cards : Gone(c) \/ Covers(disk[c], c)
  /\ at.step # "down" =>
       \A c \in Cards : (Gone(c) /\ c \notin Range(at.todo)) \/ Covers(mem[c], c)

(* The step under way: nothing is created that may exist already, and the  *)
(* intent is on disk before anything is.                                   *)
StepInv ==
  /\ at.step \in {"probe", "card", "edit", "edited", "replace", "reserve", "send", "sent", "missing"}
       => ~Record.topicPending
  /\ at.step = "probe" => Record.topic # 0
  /\ at.step \in {"intend", "create", "created"} => Record.topic = 0
  /\ at.step \in {"intend", "create"} => AliveTopics(Card) = {}
  /\ at.step \in {"create", "created"} => Record.topicPending /\ disk[Card].topicPending
  /\ at.step = "created" =>
       /\ at.got \in DOMAIN topics /\ topics[at.got] = Card
       /\ AliveTopics(Card) \subseteq {at.got} /\ AliveMessages(Card) = {}
  /\ at.step \in {"edit", "replace", "reserve"} => ~Record.sendPending
  /\ at.step \in {"reserve", "send"} => AliveMessages(Card) = {}
  /\ at.step \in {"send", "sent"} => Record.sendPending /\ disk[Card].sendPending
  /\ at.step = "sent" => AliveMessages(Card) \subseteq {at.got}
  /\ at.step = "refused" =>
       \/ Record.topicPending /\ AliveTopics(Card) = {}
       \/ /\ ~Record.topicPending /\ AliveMessages(Card) = {}
          /\ at.got = 1 => ~TopicAlive(Record.topic)
  /\ at.step = "missing" => ~TopicAlive(Record.topic)

RoundInv ==
  /\ \A c \in Range(at.todo) : ~New(c)
  /\ at.step \in {"idle", "down", "orphans"} => at.todo = <<>>
  /\ at.step \notin {"idle", "down", "orphans", "next"} => at.todo # <<>> /\ StepInv
  /\ at.step = "orphans" =>
       \A c \in Cards \ at.keep : c # Overview /\ (Gone(c) \/ mem[c] = NoRecord)

Inv == Types /\ GroupInv /\ RecordsInv /\ RoundInv

-----------------------------------------------------------------------------
(* A round.                                                                *)

(* The index of a node of a round is one of the listed nodes.              *)
LEMMA RoundIndex ==
  ASSUME NEW n \in Nat \ {0}, NEW e \in Nat \ {0}, NEW j \in 0 .. n + (n - 1) \div e,
         j % (e + 1) # 0
  PROVE  j - j \div (e + 1) \in 1 .. n
<1> DEFINE q == j \div (e + 1)
           r == j % (e + 1)
           p == (n - 1) \div e
<1>1. j = q * (e + 1) + r /\ r \in 1 .. e /\ q \in Nat
  OBVIOUS
<1>2. p \in Nat /\ p * e <= n - 1
  OBVIOUS
<1>3. j - q = q * e + r
  BY <1>1
<1>4. q * e \in Nat
  BY <1>1
<1>5. j - q >= 1
  BY <1>1, <1>3, <1>4
<1>6. CASE q >= p
  BY <1>1, <1>2, <1>6
<1>7. CASE q < p
  <2>1. q + 1 <= p
    BY <1>1, <1>2, <1>7
  <2>2. (q + 1) * e <= p * e
    BY <2>1, <1>1, <1>2
  <2>3. (q + 1) * e = q * e + e
    BY <1>1
  <2>4. q * e + e <= n - 1
    BY <2>2, <2>3, <1>2, <1>4
  <2> QED BY <2>4, <1>1, <1>3, <1>4, <1>5
<1> QED BY <1>1, <1>5, <1>6, <1>7

(* A round visits the overview and listed nodes only.                      *)
LEMMA RoundOfListed ==
  ASSUME NEW S \in SUBSET Nodes, NEW s \in Sorted(S)
  PROVE  Round(s) \in Seq(Cards) /\ Range(Round(s)) \subseteq S \cup {Overview}
<1> USE LiveCardsAssumption
<1>1. Cardinality(S) \in Nat /\ s \in Seq(S) /\ Len(s) = Cardinality(S)
      /\ \A k \in 1 .. Len(s) : s[k] \in S
  <2>1. IsFiniteSet(S)
    BY FS_Subset
  <2>2. Cardinality(S) \in Nat
    BY <2>1, FS_CardinalityType
  <2>3. s \in [1 .. Cardinality(S) -> S]
    BY DEF Sorted
  <2> QED BY <2>2, <2>3
<1> DEFINE n == Len(s)
           overviews == IF n = 0 THEN 1 ELSE 1 + (n - 1) \div Every
           pick(i) == IF (i - 1) % (Every + 1) = 0 THEN Overview
                      ELSE s[i - 1 - (i - 1) \div (Every + 1)]
<1>2. overviews \in Nat
  BY <1>1
<1>3. \A i \in 1 .. n + overviews : pick(i) \in S \cup {Overview}
  <2> SUFFICES ASSUME NEW i \in 1 .. n + overviews, (i - 1) % (Every + 1) # 0
               PROVE  s[i - 1 - (i - 1) \div (Every + 1)] \in S
    OBVIOUS
  <2>1. CASE n = 0
    <3>1. i - 1 = 0
      BY <2>1
    <3>2. (i - 1) % (Every + 1) = 0
      BY <3>1
    <3> QED BY <3>2
  <2>2. CASE n # 0
    <3>1. i - 1 \in 0 .. n + (n - 1) \div Every
      BY <1>1, <2>2
    <3>2. i - 1 - (i - 1) \div (Every + 1) \in 1 .. n
      BY <1>1, <2>2, <3>1, RoundIndex
    <3> QED BY <1>1, <3>2
  <2> QED BY <2>1, <2>2
<1>4. Round(s) = [i \in 1 .. n + overviews |-> pick(i)]
  BY DEF Round
<1>5. n + overviews \in Nat
  BY <1>1, <1>2
<1> HIDE DEF overviews, pick
<1>6. Round(s) \in [1 .. n + overviews -> S \cup {Overview}]
  BY <1>3, <1>4
<1> QED BY <1>5, <1>6 DEF Range, Cards

-----------------------------------------------------------------------------
(* What a card of the round and the places after it are.                   *)
LEMMA CardOfRound ==
  ASSUME Types, at.todo # <<>>
  PROVE  /\ Card \in Cards /\ Card \in Range(at.todo)
         /\ Tail(at.todo) \in Seq(Cards)
         /\ Range(Tail(at.todo)) \subseteq Range(at.todo)
         /\ Record \in Records
<1>1. at.todo \in Seq(Cards) /\ mem \in [Cards -> Records]
  BY DEF Types, Places
<1>2. Len(at.todo) \in Nat \ {0} /\ Card = at.todo[1]
  BY <1>1 DEF Card
<1>3. Tail(at.todo) \in Seq(Cards) /\ Len(Tail(at.todo)) = Len(at.todo) - 1
      /\ \A i \in 1 .. Len(Tail(at.todo)) : Tail(at.todo)[i] = at.todo[i + 1]
  BY <1>1
<1>4. Card \in Cards /\ Card \in Range(at.todo)
  BY <1>1, <1>2 DEF Range
<1>5. Range(Tail(at.todo)) \subseteq Range(at.todo)
  <2> SUFFICES ASSUME NEW i \in 1 .. Len(Tail(at.todo))
               PROVE  Tail(at.todo)[i] \in Range(at.todo)
    BY <1>3 DEF Range
  <2>1. i + 1 \in 1 .. Len(at.todo) /\ Tail(at.todo)[i] = at.todo[i + 1]
    BY <1>2, <1>3
  <2> QED BY <2>1, <1>1 DEF Range
<1> QED BY <1>1, <1>3, <1>4, <1>5 DEF Record

(* The places the loop goes to when it leaves a card.                      *)
Leaving == {Advance, PassedOver, TopicFailed, Idle}

LEMMA LeavingPlaces ==
  ASSUME Types, at.todo # <<>>, NEW a \in Leaving
  PROVE  /\ a \in Places /\ Range(a.todo) \subseteq Range(at.todo)
         /\ a.step \in {"next", "idle"} /\ (a.step = "idle" => a.todo = <<>>)
<1> DEFINE rest == Tail(at.todo)
<1>1. rest \in Seq(Cards) /\ Range(rest) \subseteq Range(at.todo)
  BY CardOfRound
<1>2. rest # <<>> => Tail(rest) \in Seq(Cards) /\ Range(Tail(rest)) \subseteq Range(rest)
  <2> SUFFICES ASSUME rest # <<>>
               PROVE  Tail(rest) \in Seq(Cards) /\ Range(Tail(rest)) \subseteq Range(rest)
    OBVIOUS
  <2> HIDE DEF rest
  <2>1. Tail(rest) \in Seq(Cards) /\ Len(Tail(rest)) = Len(rest) - 1 /\ Len(rest) \in Nat
        /\ \A i \in 1 .. Len(Tail(rest)) : Tail(rest)[i] = rest[i + 1]
    BY <1>1
  <2> SUFFICES ASSUME NEW i \in 1 .. Len(Tail(rest))
               PROVE  Tail(rest)[i] \in Range(rest)
    BY <2>1 DEF Range
  <2>2. i + 1 \in 1 .. Len(rest) /\ Tail(rest)[i] = rest[i + 1]
    BY <2>1
  <2> QED BY <2>2, <1>1 DEF Range
<1> HIDE DEF rest
<1>3. Idle \in Places /\ Idle.todo = <<>> /\ Idle.step = "idle" /\ Range(<<>>) = {}
  BY DEF Idle, Places, Steps, NoText, Range
<1>4. /\ Advance = [Idle EXCEPT !.step = "next", !.todo = rest]
      /\ Advance \in Places /\ Advance.todo = rest /\ Advance.step = "next"
  BY <1>1 DEF Advance, rest, Idle, Places, Steps, NoText
<1>5. PassedOver \in Places /\ PassedOver.step = "next"
      /\ (PassedOver.todo = rest \/ (rest # <<>> /\ PassedOver.todo = Tail(rest)))
  <2>1. PassedOver = [Advance EXCEPT !.todo =
            IF Card # Overview /\ rest # <<>> /\ Head(rest) = Overview THEN Tail(rest) ELSE rest]
    BY DEF PassedOver, rest
  <2>2. Advance \in Places /\ Advance.step = "next"
    BY <1>4
  <2> QED BY <2>1, <2>2, <1>1, <1>2 DEF Places
<1>6. TopicFailed \in {Idle, PassedOver}
  BY DEF TopicFailed
<1> QED BY <1>1, <1>2, <1>3, <1>4, <1>5, <1>6 DEF Leaving

(* A place at another step of the same card.                               *)
LEMMA NextStep ==
  ASSUME Types, NEW s \in Steps
  PROVE  /\ To(s) \in Places /\ To(s).todo = at.todo /\ To(s).step = s /\ To(s).got = 0
         /\ \A g \in Nat : [To(s) EXCEPT !.got = g] \in Places
BY DEF To, Types, Places

-----------------------------------------------------------------------------
(* The group.                                                              *)
LEMMA MessagesInTopics ==
  ASSUME GroupInv, NEW c, AliveTopics(c) = {}
  PROVE  AliveMessages(c) = {}
BY DEF GroupInv, AliveTopics, AliveMessages, MessageAlive

LEMMA QuietGroup ==
  ASSUME UNCHANGED telegram
  PROVE  /\ \A c : AliveTopics(c)' = AliveTopics(c) /\ AliveMessages(c)' = AliveMessages(c)
         /\ \A t : TopicAlive(t)' = TopicAlive(t)
BY DEF telegram, AliveTopics, AliveMessages, MessageAlive, TopicAlive

LEMMA DeletedMore ==
  ASSUME topics' = topics, messages' = messages, deleted \subseteq deleted'
  PROVE  /\ \A c : /\ AliveTopics(c)' \subseteq AliveTopics(c)
                   /\ AliveMessages(c)' \subseteq AliveMessages(c)
         /\ \A t : TopicAlive(t)' => TopicAlive(t)
BY DEF AliveTopics, AliveMessages, MessageAlive, TopicAlive

LEMMA GroupKept ==
  ASSUME Types, GroupInv, topics' = topics, deleted \subseteq deleted',
         messages' \in Seq([topic : Nat, text : Nat]), DOMAIN messages' = DOMAIN messages,
         \A m \in DOMAIN messages : messages'[m].topic = messages[m].topic
  PROVE  /\ GroupInv'
         /\ \A c : /\ AliveTopics(c)' \subseteq AliveTopics(c)
                   /\ AliveMessages(c)' \subseteq AliveMessages(c)
         /\ \A t : TopicAlive(t)' => TopicAlive(t)
<1>1. /\ \A c : /\ AliveTopics(c)' \subseteq AliveTopics(c)
                /\ AliveMessages(c)' \subseteq AliveMessages(c)
      /\ \A t : TopicAlive(t)' => TopicAlive(t)
  BY DEF AliveTopics, AliveMessages, MessageAlive, TopicAlive
<1>2. GroupInv'
  BY <1>1 DEF GroupInv, OneCard
<1> QED BY <1>1, <1>2

-----------------------------------------------------------------------------
(* A step of the loop that changes one record keeps the records sound, if  *)
(* the new record, and the one on disk, account for what there is then.    *)
LEMMA OneRecord ==
  ASSUME Types, RecordsInv, phase' = phase,
         at'.step # "down" => at.step # "down", at'.step = "down" => disk' = disk,
         NEW k \in Cards, NEW r \in Records, ~New(k),
         mem' = [mem EXCEPT ![k] = r], disk' \in {disk, mem'},
         \A c \in Range(at'.todo) : c \in Range(at.todo) \/ ~Gone(c),
         \A c \in Cards : c # k => /\ AliveTopics(c)' \subseteq AliveTopics(c)
                                  /\ AliveMessages(c)' \subseteq AliveMessages(c),
         \A t \in DOMAIN topics : t \in DOMAIN topics' /\ topics'[t] = topics[t],
         r.topic # 0 => r.topic \in DOMAIN topics' /\ topics'[r.topic] = k,
         at'.step # "down" => \/ Gone(k) /\ k \notin Range(at'.todo)
                             \/ Held(r, AliveTopics(k)', AliveMessages(k)'),
         Gone(k) \/ Held(disk[k], AliveTopics(k)', AliveMessages(k)')
  PROVE  RecordsInv'
<1>1. mem \in [Cards -> Records] /\ disk \in [Cards -> Records]
  BY DEF Types
<1>2. mem'[k] = r /\ \A c \in Cards : c # k => mem'[c] = mem[c]
  BY <1>1
<1>3. disk' = disk \/ disk' = mem'
  OBVIOUS
<1>4. \A c : New(c)' = New(c) /\ Gone(c)' = Gone(c)
  BY DEF New, Gone
<1>5. ASSUME NEW c \in Cards
      PROVE  Own(mem[c], c)' /\ Own(disk[c], c)'
  <2>1. Own(mem[c], c) /\ Own(disk[c], c) /\ Own(mem[k], k) /\ Own(disk[k], k)
    BY DEF RecordsInv
  <2>2. Own(mem[c], c)'
    BY <2>1, <1>2 DEF Own
  <2>3. CASE disk' = disk
    BY <2>1, <2>2, <2>3 DEF Own
  <2>4. CASE disk' = mem'
    BY <2>2, <2>4 DEF Own
  <2> QED BY <2>2, <2>3, <2>4, <1>3
<1>6. ASSUME NEW c \in Cards, New(c)'
      PROVE  mem'[c] = NoRecord /\ disk'[c] = NoRecord /\ AliveTopics(c)' = {}
  <2>1. New(c) /\ c # k
    BY <1>4, <1>6
  <2>2. mem[c] = NoRecord /\ disk[c] = NoRecord /\ AliveTopics(c) = {}
    BY <2>1 DEF RecordsInv
  <2> QED BY <2>1, <2>2, <1>2, <1>3
<1>7. ASSUME NEW c \in Cards, c # k
      PROVE  /\ Covers(mem[c], c) => Held(mem'[c], AliveTopics(c)', AliveMessages(c)')
             /\ Covers(disk[c], c) => Held(disk[c], AliveTopics(c)', AliveMessages(c)')
  <2>1. mem'[c] = mem[c]
    BY <1>2, <1>7
  <2>2. AliveTopics(c)' \subseteq AliveTopics(c) /\ AliveMessages(c)' \subseteq AliveMessages(c)
    BY <1>7
  <2> QED BY <2>1, <2>2 DEF Covers, Held
<1>8. ASSUME NEW c \in Cards, at'.step # "down"
      PROVE  (Gone(c)' /\ c \notin Range(at'.todo)) \/ Covers(mem[c], c)'
  <2>1. (Gone(c) /\ c \notin Range(at.todo)) \/ Covers(mem[c], c)
    BY <1>8 DEF RecordsInv
  <2>2. (Gone(c) /\ c \notin Range(at'.todo)) \/ Held(mem'[c], AliveTopics(c)', AliveMessages(c)')
    BY <2>1, <1>2, <1>7, <1>8
  <2> QED BY <2>2, <1>4 DEF Covers
<1>9. ASSUME NEW c \in Cards
      PROVE  Gone(c)' \/ Covers(disk[c], c)'
  <2>1. Gone(c) \/ Covers(disk[c], c)
    BY DEF RecordsInv
  <2>2. at'.step # "down" => Gone(c) \/ Covers(mem[c], c)'
    BY <1>8, <1>4
  <2>3. CASE disk' = disk
    <3>1. Gone(c) \/ Held(disk[c], AliveTopics(c)', AliveMessages(c)')
      BY <2>1, <1>7
    <3> QED BY <3>1, <2>3, <1>4 DEF Covers
  <2>4. CASE disk' = mem' /\ at'.step # "down"
    <3>1. Gone(c) \/ Held(mem'[c], AliveTopics(c)', AliveMessages(c)')
      BY <2>2, <2>4 DEF Covers
    <3> QED BY <3>1, <2>4, <1>4 DEF Covers
  <2> QED BY <2>3, <2>4, <1>3
<1> QED BY <1>5, <1>6, <1>8, <1>9 DEF RecordsInv

(* The loop goes on without a change of a record or of the group.          *)
LEMMA GoingOn ==
  ASSUME Inv, at.step # "down", NEW a \in Places, at' = a, UNCHANGED <<inside, telegram>>,
         \A c \in Range(a.todo) : c \in Range(at.todo) \/ ~Gone(c)
  PROVE  Types' /\ GroupInv' /\ RecordsInv'
<1>1. phase' = phase /\ version' = version /\ reports' = reports /\ mem' = mem /\ disk' = disk
      /\ topics' = topics /\ messages' = messages /\ deleted' = deleted
  BY DEF inside, telegram
<1>2. Types'
  BY <1>1 DEF Inv, Types
<1>3. \A c : AliveTopics(c)' = AliveTopics(c) /\ AliveMessages(c)' = AliveMessages(c)
  BY QuietGroup
<1>4. GroupInv'
  BY <1>1, <1>3 DEF Inv, GroupInv, OneCard
<1>5. \A c : New(c)' = New(c) /\ Gone(c)' = Gone(c) /\ Own(mem[c], c)' = Own(mem[c], c)
          /\ Own(disk[c], c)' = Own(disk[c], c) /\ Covers(mem[c], c)' = Covers(mem[c], c)
          /\ Covers(disk[c], c)' = Covers(disk[c], c)
  BY <1>1, <1>3 DEF New, Gone, Own, Covers
<1>6. RecordsInv
  BY DEF Inv
<1>7. RecordsInv'
  BY <1>1, <1>3, <1>5, <1>6 DEF RecordsInv
<1> QED BY <1>2, <1>4, <1>7

(* A record is saved, or changed in memory alone.                          *)
LEMMA Saving ==
  ASSUME Inv, at.step # "down", at.todo # <<>>,
         NEW r \in Records, NEW a \in Places, NEW b \in Places, Save(r, a, b),
         Own(r, Card), Held(r, AliveTopics(Card), AliveMessages(Card)),
         Range(a.todo) \subseteq Range(at.todo), Range(b.todo) \subseteq Range(at.todo),
         a.step # "down", b.step # "down"
  PROVE  /\ Types' /\ GroupInv' /\ RecordsInv'
         /\ phase' = phase /\ UNCHANGED telegram
         /\ mem'[Card] = r /\ (at' = b \/ (at' = a /\ disk'[Card] = r))
<1>0. PICK k : k = Card
  OBVIOUS
<1>1. Types /\ GroupInv /\ RecordsInv /\ RoundInv
  BY DEF Inv
<1>2. k \in Cards /\ k \in Range(at.todo)
  BY <1>0, <1>1, CardOfRound
<1>3. ~New(k)
  BY <1>1, <1>2 DEF RoundInv
<1>4. /\ mem' = [mem EXCEPT ![k] = r]
      /\ (disk' = mem' /\ at' = a) \/ (disk' = disk /\ at' = b)
      /\ phase' = phase /\ version' = version /\ reports' = reports
      /\ UNCHANGED telegram
  BY <1>0 DEF Save
<1>5. topics' = topics /\ messages' = messages /\ deleted' = deleted
  BY <1>4 DEF telegram
<1>6. mem \in [Cards -> Records] /\ disk \in [Cards -> Records]
  BY <1>1 DEF Types
<1>7. mem' \in [Cards -> Records] /\ mem'[k] = r
  BY <1>2, <1>4, <1>6
<1>8. disk' \in [Cards -> Records] /\ at' \in Places
  BY <1>4, <1>6, <1>7
<1>9. Types'
  BY <1>1, <1>4, <1>5, <1>7, <1>8 DEF Types
<1>10. \A c : AliveTopics(c)' = AliveTopics(c) /\ AliveMessages(c)' = AliveMessages(c)
  BY <1>4, QuietGroup
<1>11. GroupInv'
  BY <1>1, <1>5, <1>10 DEF GroupInv, OneCard
<1>12. Own(r, k) /\ Held(r, AliveTopics(k), AliveMessages(k))
  BY <1>0
<1>13. Gone(k) \/ Held(disk[k], AliveTopics(k), AliveMessages(k))
  BY <1>1, <1>2 DEF RecordsInv, Covers
<1>14. RecordsInv'
  <2>1. r.topic # 0 => r.topic \in DOMAIN topics' /\ topics'[r.topic] = k
    BY <1>5, <1>12 DEF Own
  <2>2. /\ Held(r, AliveTopics(k)', AliveMessages(k)')
        /\ Gone(k) \/ Held(disk[k], AliveTopics(k)', AliveMessages(k)')
    BY <1>10, <1>12, <1>13
  <2>3. \A c \in Range(at'.todo) : c \in Range(at.todo)
    BY <1>4
  <2>4. disk' \in {disk, mem'} /\ at'.step # "down"
    BY <1>4
  <2> QED BY <1>1, <1>2, <1>3, <1>4, <1>5, <1>10, <2>1, <2>2, <2>3, <2>4, OneRecord
<1> QED BY <1>4, <1>7, <1>9, <1>11, <1>14, <1>0

(* When the loop leaves a card, nothing is under way.                      *)
LEMMA LeavesCard ==
  ASSUME Types, RoundInv, at.todo # <<>>, phase' = phase, at' \in Leaving
  PROVE  RoundInv'
<1>1. /\ Range(at'.todo) \subseteq Range(at.todo)
      /\ at'.step \in {"next", "idle"} /\ (at'.step = "idle" => at'.todo = <<>>)
  BY LeavingPlaces
<1>2. \A c : New(c)' = New(c)
  BY DEF New
<1> QED BY <1>1, <1>2 DEF RoundInv

LEMMA StaysAtCard ==
  ASSUME RoundInv, at.todo # <<>>, phase' = phase, at'.todo = at.todo, StepInv',
         at'.step \notin {"idle", "down", "next", "orphans"}
  PROVE  RoundInv'
<1>1. \A c : New(c)' = New(c)
  BY DEF New
<1> QED BY <1>1 DEF RoundInv

(* Where the loop stands, in the words of the invariant.                   *)
LEMMA AtCard ==
  ASSUME Inv, at.todo # <<>>, at.step # "down"
  PROVE  /\ Types /\ GroupInv /\ RecordsInv /\ RoundInv
         /\ Card \in Cards /\ Card \in Range(at.todo) /\ ~New(Card)
         /\ Record \in Records /\ Record = mem[Card]
         /\ Own(Record, Card) /\ Held(Record, AliveTopics(Card), AliveMessages(Card))
         /\ Gone(Card) \/ Held(disk[Card], AliveTopics(Card), AliveMessages(Card))
<1>1. Types /\ GroupInv /\ RecordsInv /\ RoundInv
  BY DEF Inv
<1>2. Card \in Cards /\ Card \in Range(at.todo) /\ Record \in Records
  BY <1>1, CardOfRound
<1>3. ~New(Card)
  BY <1>1, <1>2 DEF RoundInv
<1>4. Own(mem[Card], Card) /\ Covers(mem[Card], Card) /\ (Gone(Card) \/ Covers(disk[Card], Card))
  BY <1>1, <1>2 DEF RecordsInv
<1> QED BY <1>1, <1>2, <1>3, <1>4 DEF Covers, Record

LEMMA AtStep ==
  ASSUME Inv, at.step \notin {"idle", "down", "orphans", "next"}
  PROVE  at.todo # <<>> /\ StepInv
BY DEF Inv, RoundInv

LEMMA SameCard ==
  ASSUME at'.todo = at.todo
  PROVE  Card' = Card /\ Record' = mem'[Card]
BY DEF Card, Record

(* A record without an unresolved creation, whose topic is gone, stands    *)
(* for nothing in the group.                                               *)
LEMMA NoTopicNothing ==
  ASSUME GroupInv, NEW c, NEW r, Held(r, AliveTopics(c), AliveMessages(c)),
         ~r.topicPending, ~TopicAlive(r.topic)
  PROVE  AliveTopics(c) = {} /\ AliveMessages(c) = {}
<1>1. AliveTopics(c) = {}
  BY DEF Held, AliveTopics
<1> QED BY <1>1, MessagesInTopics

(* A step that leaves a card.                                              *)
LEMMA Leaves ==
  ASSUME Inv, at.todo # <<>>, at.step # "down", at' \in Leaving, UNCHANGED <<inside, telegram>>
  PROVE  Inv'
<1>1. PICK a \in Leaving : at' = a
  OBVIOUS
<1>2. a \in Places /\ Range(a.todo) \subseteq Range(at.todo)
  BY LeavingPlaces DEF Inv
<1>3. Types' /\ GroupInv' /\ RecordsInv'
  BY <1>1, <1>2, GoingOn
<1>4. RoundInv'
  BY LeavesCard DEF Inv, inside
<1> QED BY <1>3, <1>4 DEF Inv

(* A step that goes on with the same card.                                 *)
Within == Steps \ {"idle", "down", "next", "orphans"}

LEMMA GoesOn ==
  ASSUME Inv, at.todo # <<>>, at.step # "down", NEW a \in Places, at' = a,
         a.todo = at.todo, a.step \in Within, UNCHANGED <<inside, telegram>>
  PROVE  /\ Card' = Card /\ Record' = Record
         /\ AliveTopics(Card)' = AliveTopics(Card) /\ AliveMessages(Card)' = AliveMessages(Card)
         /\ StepInv' => Inv'
<1>1. Types' /\ GroupInv' /\ RecordsInv'
  BY GoingOn
<1>2. Card' = Card /\ Record' = Record
  BY SameCard DEF Record, inside
<1>3. AliveTopics(Card)' = AliveTopics(Card) /\ AliveMessages(Card)' = AliveMessages(Card)
  BY <1>2, QuietGroup
<1>4. StepInv' => RoundInv'
  BY StaysAtCard DEF Inv, Within, inside
<1> QED BY <1>1, <1>2, <1>3, <1>4 DEF Inv

(* A save after which the loop leaves the card whether or not it succeeds, *)
(* and one after which it leaves the card when it does not.                *)
LEMMA SaveLeaves ==
  ASSUME Inv, at.todo # <<>>, at.step # "down",
         NEW r \in Records, NEW a \in Leaving, NEW b \in Leaving, Save(r, a, b),
         Own(r, Card), Held(r, AliveTopics(Card), AliveMessages(Card))
  PROVE  Inv'
<1>1. \A l \in {a, b} : l \in Places /\ Range(l.todo) \subseteq Range(at.todo) /\ l.step # "down"
  BY LeavingPlaces DEF Inv
<1>2. Types' /\ GroupInv' /\ RecordsInv' /\ phase' = phase /\ (at' = b \/ at' = a)
  BY <1>1, Saving
<1>3. RoundInv'
  BY <1>2, LeavesCard DEF Inv
<1> QED BY <1>2, <1>3 DEF Inv

LEMMA SaveGoesOn ==
  ASSUME Inv, at.todo # <<>>, at.step # "down",
         NEW r \in Records, NEW s \in Within, NEW b \in Leaving, Save(r, To(s), b),
         Own(r, Card), Held(r, AliveTopics(Card), AliveMessages(Card))
  PROVE  \/ Inv'
         \/ /\ at' = To(s) /\ at'.step = s /\ at'.got = 0
            /\ Card' = Card /\ Record' = r /\ disk'[Card] = r
            /\ AliveTopics(Card)' = AliveTopics(Card) /\ AliveMessages(Card)' = AliveMessages(Card)
            /\ \A t : TopicAlive(t)' = TopicAlive(t)
            /\ StepInv' => Inv'
<1>1. b \in Places /\ Range(b.todo) \subseteq Range(at.todo) /\ b.step # "down"
  BY LeavingPlaces DEF Inv
<1>2. To(s) \in Places /\ To(s).todo = at.todo /\ To(s).step = s /\ To(s).got = 0
  BY NextStep DEF Inv, Within
<1>3. /\ Types' /\ GroupInv' /\ RecordsInv' /\ phase' = phase /\ UNCHANGED telegram
      /\ mem'[Card] = r /\ (at' = b \/ (at' = To(s) /\ disk'[Card] = r))
  BY <1>1, <1>2, Saving DEF Within
<1>4. CASE at' = b
  <2>1. RoundInv'
    BY <1>3, <1>4, LeavesCard DEF Inv
  <2> QED BY <1>3, <2>1 DEF Inv
<1>5. CASE at' = To(s) /\ disk'[Card] = r
  <2>1. Card' = Card /\ Record' = r
    BY <1>2, <1>3, <1>5, SameCard
  <2>2. /\ AliveTopics(Card)' = AliveTopics(Card) /\ AliveMessages(Card)' = AliveMessages(Card)
        /\ \A t : TopicAlive(t)' = TopicAlive(t)
    BY <1>3, <2>1, QuietGroup
  <2>3. StepInv' => RoundInv'
    BY <1>2, <1>3, <1>5, StaysAtCard DEF Inv, Within
  <2> QED BY <1>2, <1>3, <1>5, <2>1, <2>2, <2>3 DEF Inv
<1> QED BY <1>3, <1>4, <1>5

(* A call that changes the group and no record.                            *)
LEMMA Calling ==
  ASSUME Inv, at.todo # <<>>, at.step # "down", UNCHANGED inside, GroupInv',
         NEW a \in Places, at' = a, Range(a.todo) \subseteq Range(at.todo), a.step # "down",
         topics' \in Seq(Cards), messages' \in Seq([topic : Nat, text : Nat]),
         \A t \in DOMAIN topics : t \in DOMAIN topics' /\ topics'[t] = topics[t],
         NEW k, k = Card,
         \A c \in Cards : c # k => /\ AliveTopics(c)' \subseteq AliveTopics(c)
                                  /\ AliveMessages(c)' \subseteq AliveMessages(c),
         Held(Record, AliveTopics(k)', AliveMessages(k)'),
         Gone(k) \/ Held(disk[k], AliveTopics(k)', AliveMessages(k)')
  PROVE  /\ Types' /\ RecordsInv' /\ phase' = phase
         /\ at' \in Leaving => Inv'
         /\ at'.todo = at.todo /\ at'.step \in Within =>
              Card' = Card /\ Record' = Record /\ disk'[Card] = disk[Card] /\ (StepInv' => Inv')
<1>1. Types /\ RecordsInv /\ RoundInv /\ k \in Cards /\ ~New(k)
      /\ Record \in Records /\ Record = mem[k] /\ Own(Record, k)
  BY AtCard
<1>2. phase' = phase /\ version' = version /\ reports' = reports /\ mem' = mem /\ disk' = disk
  BY DEF inside
<1>3. Types'
  BY <1>1, <1>2 DEF Types
<1>4. mem' = [mem EXCEPT ![k] = Record]
  BY <1>1, <1>2 DEF Types
<1>5. Record.topic # 0 => Record.topic \in DOMAIN topics' /\ topics'[Record.topic] = k
  BY <1>1 DEF Own
<1>6. RecordsInv'
  BY <1>1, <1>2, <1>4, <1>5, OneRecord
<1>7. at' \in Leaving => RoundInv'
  BY <1>1, <1>2, LeavesCard
<1>8. at'.todo = at.todo => Card' = Card /\ Record' = Record /\ disk'[Card] = disk[Card]
  BY <1>2, SameCard DEF Record
<1>9. at'.todo = at.todo /\ at'.step \in Within /\ StepInv' => RoundInv'
  BY <1>1, <1>2, StaysAtCard DEF Within
<1> QED BY <1>2, <1>3, <1>6, <1>7, <1>8, <1>9 DEF Inv

(* A call that may delete, or change texts, and creates nothing.           *)
LEMMA CallingKeeps ==
  ASSUME Inv, at.todo # <<>>, at.step # "down", UNCHANGED inside,
         NEW a \in Places, at' = a, Range(a.todo) \subseteq Range(at.todo), a.step # "down",
         topics' = topics, deleted \subseteq deleted',
         messages' \in Seq([topic : Nat, text : Nat]), DOMAIN messages' = DOMAIN messages,
         \A m \in DOMAIN messages : messages'[m].topic = messages[m].topic
  PROVE  /\ at' \in Leaving => Inv'
         /\ at'.todo = at.todo /\ at'.step \in Within =>
              /\ Card' = Card /\ Record' = Record /\ disk'[Card] = disk[Card]
              /\ AliveTopics(Card)' \subseteq AliveTopics(Card)
              /\ AliveMessages(Card)' \subseteq AliveMessages(Card)
              /\ \A t : TopicAlive(t)' => TopicAlive(t)
              /\ StepInv' => Inv'
<1>1. PICK k : k = Card
  OBVIOUS
<1>2. /\ Types /\ GroupInv /\ Held(Record, AliveTopics(k), AliveMessages(k))
      /\ Gone(k) \/ Held(disk[k], AliveTopics(k), AliveMessages(k))
  BY <1>1, AtCard
<1>3. /\ GroupInv'
      /\ \A c : /\ AliveTopics(c)' \subseteq AliveTopics(c)
                /\ AliveMessages(c)' \subseteq AliveMessages(c)
      /\ \A t : TopicAlive(t)' => TopicAlive(t)
  BY <1>2, GroupKept
<1>4. /\ Held(Record, AliveTopics(k)', AliveMessages(k)')
      /\ Gone(k) \/ Held(disk[k], AliveTopics(k)', AliveMessages(k)')
  BY <1>2, <1>3 DEF Held
<1>5. topics' \in Seq(Cards) /\ \A t \in DOMAIN topics : t \in DOMAIN topics' /\ topics'[t] = topics[t]
  BY <1>2 DEF Types
<1>6. /\ at' \in Leaving => Inv'
      /\ at'.todo = at.todo /\ at'.step \in Within =>
           Card' = Card /\ Record' = Record /\ disk'[Card] = disk[Card] /\ (StepInv' => Inv')
  BY <1>1, <1>3, <1>4, <1>5, Calling
<1> QED BY <1>3, <1>6

-----------------------------------------------------------------------------
(* The actions of the loop, one by one.                                    *)
LEMMA StartRoundKeeps ==
  ASSUME Inv, StartRound
  PROVE  Inv'
<1>1. PICK s \in Sorted(Listed) :
        Goes([Idle EXCEPT !.step = "next", !.todo = Round(s), !.first = TRUE])
  BY DEF StartRound
<1> DEFINE a == [Idle EXCEPT !.step = "next", !.todo = Round(s), !.first = TRUE]
<1>2. Listed \subseteq Nodes
  BY DEF Listed
<1>3. Round(s) \in Seq(Cards) /\ Range(Round(s)) \subseteq Listed \cup {Overview}
  BY <1>2, RoundOfListed
<1>4. a \in Places /\ a.todo = Round(s) /\ a.step = "next"
  BY <1>3 DEF Idle, Places, Steps, NoText
<1> HIDE DEF a
<1>5. at' = a /\ UNCHANGED <<inside, telegram>>
  BY <1>1 DEF Goes, a
<1>6. \A c \in Range(a.todo) : ~Gone(c) /\ ~New(c)
  BY <1>3, <1>4, LiveCardsAssumption DEF Gone, New, Listed
<1>7. Types' /\ GroupInv' /\ RecordsInv'
  BY <1>4, <1>5, <1>6, GoingOn DEF StartRound
<1>8. phase' = phase
  BY <1>5 DEF inside
<1>9. RoundInv'
  <2>1. \A c : New(c)' = New(c)
    BY <1>8 DEF New
  <2> QED BY <2>1, <1>4, <1>5, <1>6 DEF RoundInv
<1> QED BY <1>7, <1>9 DEF Inv

LEMMA NextCardKeeps ==
  ASSUME Inv, NextCard
  PROVE  Inv'
<1>1. at.step = "next" /\ Types /\ RecordsInv /\ RoundInv
  BY DEF NextCard, Inv
<1>2. CASE at.todo = <<>>
  <2> DEFINE a == [To("orphans") EXCEPT !.keep = Listed \cup {Overview}]
  <2>1. Goes(a)
    BY <1>2 DEF NextCard
  <2>2. a \in Places /\ a.todo = <<>> /\ a.step = "orphans" /\ a.keep = Listed \cup {Overview}
    <3>1. To("orphans") \in Places /\ To("orphans").todo = at.todo /\ To("orphans").step = "orphans"
      BY <1>1, NextStep DEF Steps
    <3>2. Listed \cup {Overview} \subseteq Cards
      BY DEF Listed, Cards
    <3> QED BY <3>1, <3>2, <1>2 DEF Places
  <2> HIDE DEF a
  <2>3. at' = a /\ UNCHANGED <<inside, telegram>> /\ phase' = phase /\ mem' = mem
    BY <2>1 DEF Goes, inside
  <2>4. Range(a.todo) = {}
    BY <2>2 DEF Range
  <2>5. Types' /\ GroupInv' /\ RecordsInv'
    BY <1>1, <2>2, <2>3, <2>4, GoingOn
  <2>6. \A c \in Cards \ (Listed \cup {Overview}) : c # Overview /\ (Gone(c) \/ mem[c] = NoRecord)
    <3> SUFFICES ASSUME NEW c \in Cards \ (Listed \cup {Overview})
                 PROVE  c # Overview /\ (Gone(c) \/ New(c))
      BY <1>1 DEF RecordsInv
    <3> QED BY <1>1 DEF Cards, Listed, Gone, New, Types
  <2>7. \A c : Gone(c)' = Gone(c)
    BY <2>3 DEF Gone
  <2>8. RoundInv'
    BY <2>2, <2>3, <2>4, <2>6, <2>7 DEF RoundInv
  <2> QED BY <2>5, <2>8 DEF Inv
<1>3. CASE at.todo # <<>>
  <2>1. CASE Goes(PassedOver) \/ Goes(TopicFailed)
    BY <1>1, <1>3, <2>1, Leaves DEF Goes, Leaving
  <2>2. CASE /\ ~Record.topicPending
             /\ Goes(To(IF Record.topic = 0 THEN "intend"
                        ELSE IF Record.checked THEN "card" ELSE "probe"))
    <3> DEFINE st == IF Record.topic = 0 THEN "intend"
                     ELSE IF Record.checked THEN "card" ELSE "probe"
    <3>1. st \in {"intend", "card", "probe"} /\ (st = "intend" <=> Record.topic = 0)
      OBVIOUS
    <3>2. at' = To(st) /\ UNCHANGED <<inside, telegram>>
      BY <2>2 DEF Goes
    <3> HIDE DEF st
    <3>3. To(st) \in Places /\ To(st).todo = at.todo /\ To(st).step = st /\ st \in Within
      BY <1>1, <3>1, NextStep DEF Steps, Within
    <3>4. /\ Card' = Card /\ Record' = Record /\ AliveTopics(Card)' = AliveTopics(Card)
          /\ StepInv' => Inv'
      BY <1>1, <1>3, <3>2, <3>3, GoesOn
    <3>5. st = "intend" => AliveTopics(Card) = {}
      <4> SUFFICES ASSUME st = "intend" PROVE AliveTopics(Card) = {}
        OBVIOUS
      <4>1. ~TopicAlive(Record.topic)
        BY <3>1 DEF TopicAlive
      <4> QED BY <1>1, <1>3, <2>2, <4>1, AtCard, NoTopicNothing
    <3> QED BY <3>1, <3>2, <3>3, <3>4, <3>5, <2>2 DEF StepInv
  <2> QED BY <1>3, <2>1, <2>2 DEF NextCard
<1> QED BY <1>2, <1>3

LEMMA ProbeKeeps ==
  ASSUME Inv, Probe
  PROVE  Inv'
<1>1. at.step = "probe" /\ at.todo # <<>> /\ ~Record.topicPending
  BY AtStep DEF Probe, StepInv
<1>2. GroupInv /\ Record \in Records
      /\ Own(Record, Card) /\ Held(Record, AliveTopics(Card), AliveMessages(Card))
  BY <1>1, AtCard
<1>3. TopicFailed \in Leaving
  BY DEF Leaving
<1>4. CASE TopicAlive(Record.topic) /\ Save([Record EXCEPT !.checked = TRUE], To("card"), TopicFailed)
  <2> DEFINE r == [Record EXCEPT !.checked = TRUE]
  <2>1. r \in Records /\ r.topic = Record.topic /\ r.topicPending = Record.topicPending
        /\ r.message = Record.message /\ r.sendPending = Record.sendPending
    BY <1>2 DEF Records
  <2>2. Save(r, To("card"), TopicFailed)
    BY <1>4
  <2> HIDE DEF r
  <2>3. Own(r, Card) /\ Held(r, AliveTopics(Card), AliveMessages(Card))
    BY <1>2, <2>1 DEF Own, Held
  <2>4. \/ Inv'
        \/ /\ at'.step = "card" /\ Record' = r
           /\ StepInv' => Inv'
    BY <1>1, <1>3, <2>1, <2>2, <2>3, SaveGoesOn DEF Within, Steps
  <2> QED BY <1>1, <2>1, <2>4 DEF StepInv
<1>5. CASE /\ ~TopicAlive(Record.topic)
           /\ Save([Blank(Record) EXCEPT !.topic = 0, !.checked = FALSE], To("intend"), TopicFailed)
  <2> DEFINE r == [Blank(Record) EXCEPT !.topic = 0, !.checked = FALSE]
  <2>1. r \in Records /\ r.topic = 0 /\ r.topicPending = Record.topicPending
    <3>1. Blank(Record) \in Records /\ Blank(Record).topicPending = Record.topicPending
      BY <1>2 DEF Records, Blank, NoText
    <3> QED BY <3>1 DEF Records
  <2>2. Save(r, To("intend"), TopicFailed)
    BY <1>5
  <2> HIDE DEF r
  <2>3. AliveTopics(Card) = {} /\ AliveMessages(Card) = {}
    BY <1>1, <1>2, <1>5, NoTopicNothing
  <2>4. Own(r, Card) /\ Held(r, AliveTopics(Card), AliveMessages(Card))
    BY <2>1, <2>3 DEF Own, Held
  <2>5. \/ Inv'
        \/ /\ at'.step = "intend" /\ Record' = r /\ AliveTopics(Card)' = {}
           /\ StepInv' => Inv'
    BY <1>1, <1>3, <2>1, <2>2, <2>3, <2>4, SaveGoesOn DEF Within, Steps
  <2> QED BY <1>1, <2>1, <2>5 DEF StepInv
<1>6. CASE Fails(TopicFailed) /\ UNCHANGED telegram
  BY <1>1, <1>3, <1>6, Leaves DEF Fails
<1> QED BY <1>4, <1>5, <1>6 DEF Probe

LEMMA IntendTopicKeeps ==
  ASSUME Inv, IntendTopic
  PROVE  Inv'
<1>1. at.step = "intend" /\ at.todo # <<>> /\ Record.topic = 0 /\ AliveTopics(Card) = {}
  BY AtStep DEF IntendTopic, StepInv
<1>2. Record \in Records
  BY <1>1, AtCard
<1> DEFINE r == [Record EXCEPT !.topicPending = TRUE]
<1>3. r \in Records /\ r.topic = 0 /\ r.topicPending
  BY <1>1, <1>2 DEF Records
<1>4. Save(r, To("create"), TopicFailed)
  BY DEF IntendTopic
<1> HIDE DEF r
<1>5. Own(r, Card) /\ Held(r, AliveTopics(Card), AliveMessages(Card))
  BY <1>3 DEF Own, Held
<1>6. \/ Inv'
      \/ /\ at'.step = "create" /\ Card' = Card /\ Record' = r /\ disk'[Card] = r
         /\ AliveTopics(Card)' = {}
         /\ StepInv' => Inv'
  BY <1>1, <1>3, <1>4, <1>5, SaveGoesOn DEF Within, Steps, Leaving
<1> QED BY <1>3, <1>6 DEF StepInv

LEMMA CreatedMore ==
  ASSUME Types, GroupInv, NEW k \in Cards, AliveTopics(k) = {},
         topics' = Append(topics, k), messages' = messages, deleted' = deleted
  PROVE  /\ topics' \in Seq(Cards) /\ GroupInv'
         /\ \A t \in DOMAIN topics : t \in DOMAIN topics' /\ topics'[t] = topics[t]
         /\ Len(topics') \in DOMAIN topics' /\ topics'[Len(topics')] = k
         /\ \A c \in Cards : /\ c # k => AliveTopics(c)' \subseteq AliveTopics(c)
                            /\ AliveMessages(c)' \subseteq AliveMessages(c)
         /\ AliveTopics(k)' \subseteq {Len(topics')} /\ AliveMessages(k)' = {}
<1>1. topics \in Seq(Cards)
  BY DEF Types
<1>2. /\ topics' \in Seq(Cards) /\ Len(topics') = Len(topics) + 1 /\ Len(topics) \in Nat
      /\ \A t \in DOMAIN topics : t \in DOMAIN topics' /\ topics'[t] = topics[t]
      /\ Len(topics') \in DOMAIN topics' /\ topics'[Len(topics')] = k
      /\ \A t \in DOMAIN topics' : t # Len(topics') => t \in DOMAIN topics
  BY <1>1
<1>3. \A t : TopicAlive(t)' = TopicAlive(t)
  BY DEF TopicAlive
<1>4. \A c \in Cards : c # k => AliveTopics(c)' \subseteq AliveTopics(c)
  BY <1>2, <1>3 DEF AliveTopics
<1>5. AliveTopics(k)' \subseteq {Len(topics')}
  BY <1>2, <1>3 DEF AliveTopics
<1>6. \A c \in Cards : AliveMessages(c)' \subseteq AliveMessages(c)
  <2>1. \A m \in DOMAIN messages : topics'[messages[m].topic] = topics[messages[m].topic]
    BY <1>2 DEF GroupInv
  <2> QED BY <2>1, <1>3 DEF AliveMessages, MessageAlive
<1>7. AliveMessages(k)' = {}
  BY <1>6, MessagesInTopics
<1>8. GroupInv'
  <2>1. \A m \in DOMAIN messages' : messages'[m].topic \in DOMAIN topics'
    BY <1>2 DEF GroupInv
  <2>2. \A c \in Cards : /\ \A x, y \in AliveTopics(c) : x = y
                       /\ \A x, y \in AliveMessages(c) : x = y
    BY DEF GroupInv, OneCard
  <2>3. \A c \in Cards : /\ \A x, y \in AliveTopics(c)' : x = y
                       /\ \A x, y \in AliveMessages(c)' : x = y
    BY <2>2, <1>4, <1>5, <1>6
  <2> QED BY <2>1, <2>3 DEF GroupInv, OneCard
<1> QED BY <1>2, <1>4, <1>5, <1>6, <1>7, <1>8

LEMMA CreateKeeps ==
  ASSUME Inv, Create
  PROVE  Inv'
<1>1. /\ at.step = "create" /\ at.todo # <<>> /\ Record.topic = 0 /\ AliveTopics(Card) = {}
      /\ Record.topicPending /\ disk[Card].topicPending
  BY AtStep DEF Create, StepInv
<1>2. Types /\ GroupInv /\ Card \in Cards
  BY <1>1, AtCard
<1>3. messages' = messages /\ deleted' = deleted /\ UNCHANGED inside
  BY DEF Create, Answers, Fails
<1>4. /\ TopicFailed \in Leaving /\ TopicFailed \in Places /\ TopicFailed.step # "down"
      /\ Range(TopicFailed.todo) \subseteq Range(at.todo)
  BY <1>1, <1>2, LeavingPlaces DEF Leaving
<1>5. CASE topics' = Append(topics, Card) /\ at' \in {[To("created") EXCEPT !.got = Len(topics')], TopicFailed}
  <2>1. PICK k : k = Card
    OBVIOUS
  <2>2. /\ topics' \in Seq(Cards) /\ GroupInv'
        /\ \A t \in DOMAIN topics : t \in DOMAIN topics' /\ topics'[t] = topics[t]
        /\ Len(topics') \in DOMAIN topics' /\ topics'[Len(topics')] = k
        /\ \A c \in Cards : /\ c # k => AliveTopics(c)' \subseteq AliveTopics(c)
                           /\ AliveMessages(c)' \subseteq AliveMessages(c)
        /\ AliveTopics(k)' \subseteq {Len(topics')} /\ AliveMessages(k)' = {}
    BY <1>1, <1>2, <1>3, <1>5, <2>1, CreatedMore
  <2>3. /\ Held(Record, AliveTopics(k)', AliveMessages(k)')
        /\ Held(disk[k], AliveTopics(k)', AliveMessages(k)')
    BY <1>1, <2>1 DEF Held
  <2> DEFINE a == [To("created") EXCEPT !.got = Len(topics')]
  <2>4. Len(topics') \in Nat /\ messages' \in Seq([topic : Nat, text : Nat])
    BY <1>2, <1>3, <2>2 DEF Types
  <2>5. To("created") \in Places /\ To("created").todo = at.todo /\ To("created").step = "created"
    BY <1>2, NextStep DEF Steps
  <2>6. a \in Places /\ a.todo = at.todo /\ a.step = "created" /\ a.got = Len(topics')
    BY <2>4, <2>5 DEF Places
  <2> HIDE DEF a
  <2>7. CASE at' = TopicFailed
    BY <1>1, <1>3, <1>4, <2>1, <2>2, <2>3, <2>4, <2>7, Calling
  <2>8. CASE at' = a
    <3>1. Card' = Card /\ Record' = Record /\ disk'[Card] = disk[Card] /\ (StepInv' => Inv')
      BY <1>1, <1>3, <2>1, <2>2, <2>3, <2>4, <2>6, <2>8, Calling DEF Within, Steps
    <3>2. /\ AliveTopics(Card)' \subseteq {Len(topics')} /\ AliveMessages(Card)' = {}
          /\ at'.got \in DOMAIN topics' /\ topics'[at'.got] = Card'
      BY <2>1, <2>2, <2>6, <2>8, <3>1
    <3> QED BY <1>1, <2>6, <2>8, <3>1, <3>2 DEF StepInv
  <2> QED BY <1>5, <2>7, <2>8 DEF a
<1>6. CASE topics' = topics /\ at' = TopicFailed
  BY <1>1, <1>3, <1>4, <1>6, Leaves DEF telegram
<1>7. CASE topics' = topics /\ at' = To("refused")
  <2>1. To("refused") \in Places /\ To("refused").todo = at.todo /\ To("refused").step = "refused"
    BY <1>2, NextStep DEF Steps
  <2>2. Card' = Card /\ Record' = Record /\ AliveTopics(Card)' = {} /\ (StepInv' => Inv')
    BY <1>1, <1>3, <1>7, <2>1, GoesOn DEF telegram, Within, Steps
  <2> QED BY <1>1, <1>7, <2>1, <2>2 DEF StepInv
<1>8. \/ topics' = Append(topics, Card) /\ at' = [To("created") EXCEPT !.got = Len(topics')]
      \/ topics' \in {topics, Append(topics, Card)} /\ at' = TopicFailed
      \/ topics' = topics /\ at' = To("refused")
  BY DEF Create, Answers, Fails
<1> QED BY <1>5, <1>6, <1>7, <1>8

LEMMA CreatedKeeps ==
  ASSUME Inv, Created
  PROVE  Inv'
<1>1. /\ at.step = "created" /\ at.todo # <<>>
      /\ at.got \in DOMAIN topics /\ topics[at.got] = Card
      /\ AliveTopics(Card) \subseteq {at.got} /\ AliveMessages(Card) = {}
  BY AtStep DEF Created, StepInv
<1>2. Record \in Records /\ at.got \in Nat
  BY <1>1, AtCard DEF Types, Places
<1> DEFINE r == [Blank(Record) EXCEPT !.topic = at.got, !.topicPending = FALSE, !.checked = TRUE]
<1>3. r \in Records /\ r.topic = at.got /\ ~r.topicPending
  <2>1. Blank(Record) \in Records
    BY <1>2 DEF Records, Blank, NoText
  <2> QED BY <1>2, <2>1 DEF Records
<1>4. Save(r, To("card"), TopicFailed)
  BY DEF Created
<1> HIDE DEF r
<1>5. Own(r, Card) /\ Held(r, AliveTopics(Card), AliveMessages(Card))
  BY <1>1, <1>3 DEF Own, Held
<1>6. \/ Inv'
      \/ at'.step = "card" /\ Record' = r /\ (StepInv' => Inv')
  BY <1>1, <1>3, <1>4, <1>5, SaveGoesOn DEF Within, Steps, Leaving
<1> QED BY <1>3, <1>6 DEF StepInv

LEMMA RefusedKeeps ==
  ASSUME Inv, Refused
  PROVE  Inv'
<1>1. /\ at.step = "refused" /\ at.todo # <<>>
      /\ \/ Record.topicPending /\ AliveTopics(Card) = {}
         \/ /\ ~Record.topicPending /\ AliveMessages(Card) = {}
            /\ at.got = 1 => ~TopicAlive(Record.topic)
  BY AtStep DEF Refused, StepInv
<1>2. Record \in Records /\ GroupInv
      /\ Own(Record, Card) /\ Held(Record, AliveTopics(Card), AliveMessages(Card))
  BY <1>1, AtCard
<1>3. CASE Record.topicPending
  <2> DEFINE r == [Record EXCEPT !.topicPending = FALSE]
  <2>1. r \in Records /\ r.topic = Record.topic
    BY <1>2 DEF Records
  <2>2. Save(r, TopicFailed, TopicFailed)
    BY <1>1, <1>3 DEF Refused
  <2> HIDE DEF r
  <2>3. Own(r, Card)
    BY <1>2, <2>1 DEF Own
  <2>4. AliveTopics(Card) = {} /\ AliveMessages(Card) = {}
    BY <1>1, <1>2, <1>3, MessagesInTopics
  <2>5. Held(r, AliveTopics(Card), AliveMessages(Card))
    BY <2>4 DEF Held
  <2> QED BY <1>1, <2>1, <2>2, <2>3, <2>5, SaveLeaves DEF Leaving
<1>4. CASE ~Record.topicPending
  <2> DEFINE r == [Record EXCEPT !.sendPending = FALSE]
             a == IF at.got = 1 THEN To("missing") ELSE Advance
  <2>1. r \in Records /\ r.topic = Record.topic /\ ~r.topicPending
    BY <1>2, <1>4 DEF Records
  <2>2. Save(r, a, Advance)
    BY <1>1, <1>4 DEF Refused
  <2>3. a \in {To("missing"), Advance} /\ (a = To("missing") /\ a # Advance => at.got = 1)
    OBVIOUS
  <2> HIDE DEF r, a
  <2>4. Own(r, Card) /\ Held(r, AliveTopics(Card), AliveMessages(Card))
    BY <1>1, <1>2, <1>4, <2>1 DEF Own, Held
  <2>5. CASE a = Advance
    BY <1>1, <2>1, <2>2, <2>4, <2>5, SaveLeaves DEF Leaving
  <2>6. CASE a = To("missing") /\ at.got = 1
    <3>1. Save(r, To("missing"), Advance)
      BY <2>2, <2>6
    <3>2. \/ Inv'
          \/ /\ at'.step = "missing" /\ Record' = r
             /\ \A t : TopicAlive(t)' = TopicAlive(t)
             /\ StepInv' => Inv'
      BY <1>1, <2>1, <3>1, <2>4, SaveGoesOn DEF Within, Steps, Leaving
    <3> SUFFICES ASSUME at'.step = "missing", Record' = r, \A t : TopicAlive(t)' = TopicAlive(t)
                 PROVE  StepInv'
      BY <3>2
    <3>3. ~TopicAlive(Record.topic)'
      <4>1. PICK t : t = r.topic
        OBVIOUS
      <4>2. ~TopicAlive(t)'
        BY <1>1, <1>4, <2>1, <2>6, <4>1
      <4> QED BY <4>1, <4>2
    <3> QED BY <2>1, <3>3 DEF StepInv
  <2> QED BY <2>3, <2>5, <2>6
<1> QED BY <1>3, <1>4

LEMMA CardStartKeeps ==
  ASSUME Inv, CardStart
  PROVE  Inv'
<1>1. at.step = "card" /\ at.todo # <<>> /\ ~Record.topicPending
  BY AtStep DEF CardStart, StepInv
<1>2. Types /\ Held(Record, AliveTopics(Card), AliveMessages(Card))
  BY <1>1, AtCard
<1>3. CASE Goes(Advance)
  BY <1>1, <1>3, Leaves DEF Goes, Leaving
<1>4. CASE ~Record.sendPending /\ Goes(To(IF Record.message = 0 THEN "reserve" ELSE "edit"))
  <2> DEFINE st == IF Record.message = 0 THEN "reserve" ELSE "edit"
  <2>1. st \in {"reserve", "edit"} /\ (st = "reserve" => Record.message = 0)
    OBVIOUS
  <2>2. at' = To(st) /\ UNCHANGED <<inside, telegram>>
    BY <1>4 DEF Goes
  <2> HIDE DEF st
  <2>3. To(st) \in Places /\ To(st).todo = at.todo /\ To(st).step = st /\ st \in Within
    BY <1>2, <2>1, NextStep DEF Steps, Within
  <2>4. /\ Card' = Card /\ Record' = Record /\ AliveMessages(Card)' = AliveMessages(Card)
        /\ StepInv' => Inv'
    BY <1>1, <2>2, <2>3, GoesOn
  <2>5. st = "reserve" => AliveMessages(Card) = {}
    BY <1>1, <1>2, <1>4, <2>1 DEF Held, AliveMessages, MessageAlive
  <2> QED BY <1>1, <1>4, <2>1, <2>2, <2>3, <2>4, <2>5 DEF StepInv
<1> QED BY <1>3, <1>4 DEF CardStart

LEMMA ForgetTopicKeeps ==
  ASSUME Inv, ForgetTopic
  PROVE  Inv'
<1>1. at.step = "missing" /\ at.todo # <<>> /\ ~Record.topicPending /\ ~TopicAlive(Record.topic)
  BY AtStep DEF ForgetTopic, StepInv
<1>2. AliveTopics(Card) = {} /\ AliveMessages(Card) = {}
  BY <1>1, AtCard, NoTopicNothing
<1>3. Own(NoRecord, Card) /\ Held(NoRecord, AliveTopics(Card), AliveMessages(Card))
  BY <1>2 DEF Own, Held, NoRecord
<1>4. NoRecord \in Records
  BY DEF NoRecord, Records, NoText
<1>5. PICK b \in Leaving : Save(NoRecord, Advance, b)
  BY DEF ForgetTopic, Leaving
<1> QED BY <1>1, <1>3, <1>4, <1>5, SaveLeaves DEF Leaving

(* The number of a text.                                                   *)
LEMMA TextNumber ==
  ASSUME Types, NEW c \in Cards
  PROVE  Text(c) \in Nat
<1>1. \A S \in SUBSET Nodes : Cardinality(S) \in Nat
  BY LiveCardsAssumption, FS_Subset, FS_CardinalityType
<1>2. Changes \in Nat
  <2>1. /\ Cardinality({n \in Nodes : phase[n] # "new"}) \in Nat
        /\ Cardinality({n \in Nodes : phase[n] = "gone"}) \in Nat
    BY <1>1
  <2>2. reports \in Nat
    BY DEF Types
  <2> QED BY <2>1, <2>2 DEF Changes
<1>3. c # Overview => version[c] \in Nat
  BY DEF Cards, Types
<1> QED BY <1>2, <1>3 DEF Text

(* Another text of a message.                                              *)
LEMMA NewText ==
  ASSUME NEW s \in Seq([topic : Nat, text : Nat]), NEW i \in Nat, NEW x \in Nat
  PROVE  /\ [s EXCEPT ![i].text = x] \in Seq([topic : Nat, text : Nat])
         /\ DOMAIN [s EXCEPT ![i].text = x] = DOMAIN s
         /\ \A m \in DOMAIN s : [s EXCEPT ![i].text = x][m].topic = s[m].topic
<1> DEFINE T == [topic : Nat, text : Nat]
           new == [s EXCEPT ![i].text = x]
<1>1. Len(s) \in Nat /\ DOMAIN s = 1 .. Len(s)
  OBVIOUS
<1>2. \A m \in 1 .. Len(s) : s[m] \in T
  BY ElementOfSeq
<1>3. \A e \in T : [e EXCEPT !.text = x] \in T /\ [e EXCEPT !.text = x].topic = e.topic
  OBVIOUS
<1>4. new = [m \in 1 .. Len(s) |-> IF m = i THEN [s[m] EXCEPT !.text = x] ELSE s[m]]
  BY <1>1
<1> HIDE DEF T, new
<1>5. new \in [1 .. Len(s) -> T]
  BY <1>2, <1>3, <1>4
<1>6. \A m \in 1 .. Len(s) : new[m].topic = s[m].topic
  BY <1>2, <1>3, <1>4
<1>7. new \in Seq(T) /\ DOMAIN new = 1 .. Len(s)
  BY <1>1, <1>5, SeqDef
<1> QED BY <1>1, <1>6, <1>7 DEF T, new

LEMMA EditKeeps ==
  ASSUME Inv, Edit
  PROVE  Inv'
<1>1. /\ at.step = "edit" /\ at.todo # <<>> /\ ~Record.topicPending /\ ~Record.sendPending
      /\ topics' = topics /\ deleted' = deleted
  BY AtStep DEF Edit, StepInv
<1>2. Types /\ Card \in Cards /\ Record \in Records
      /\ Held(Record, AliveTopics(Card), AliveMessages(Card))
  BY <1>1, AtCard
<1>3. Text(Card) \in Nat
  BY <1>2, TextNumber
<1> DEFINE new == [messages EXCEPT ![Record.message].text = Text(Card)]
           done == [To("edited") EXCEPT !.text = Text(Card)]
<1>4. /\ new \in Seq([topic : Nat, text : Nat]) /\ DOMAIN new = DOMAIN messages
      /\ \A m \in DOMAIN messages : new[m].topic = messages[m].topic
  <2>1. messages \in Seq([topic : Nat, text : Nat]) /\ Record.message \in Nat
    BY <1>2 DEF Types, Records
  <2> QED BY <2>1, <1>3, NewText
<1>5. /\ To("edited") \in Places /\ To("edited").todo = at.todo /\ To("edited").step = "edited"
      /\ To("replace") \in Places /\ To("replace").todo = at.todo /\ To("replace").step = "replace"
      /\ To("reserve") \in Places /\ To("reserve").todo = at.todo /\ To("reserve").step = "reserve"
      /\ To("missing") \in Places /\ To("missing").todo = at.todo /\ To("missing").step = "missing"
  BY <1>2, NextStep DEF Steps
<1>6. done \in Places /\ done.todo = at.todo /\ done.step = "edited"
  BY <1>3, <1>5 DEF Places
<1> HIDE DEF new, done
<1>7. CASE at' = Advance /\ UNCHANGED messages /\ UNCHANGED inside
  BY <1>1, <1>7, Leaves DEF telegram, Leaving
<1>8. CASE /\ MessageAlive(Record.message) /\ messages' \in {messages, new} /\ UNCHANGED inside
           /\ at' \in {done, To("replace"), Advance}
  <2>1. /\ messages' \in Seq([topic : Nat, text : Nat]) /\ DOMAIN messages' = DOMAIN messages
        /\ \A m \in DOMAIN messages : messages'[m].topic = messages[m].topic
    BY <1>2, <1>4, <1>8 DEF Types
  <2>2. Advance \in Leaving /\ Advance \in Places /\ Range(Advance.todo) \subseteq Range(at.todo)
        /\ Advance.step # "down"
    BY <1>1, <1>2, LeavingPlaces DEF Leaving
  <2>3. CASE at' = Advance
    BY <1>1, <1>8, <2>1, <2>2, <2>3, CallingKeeps
  <2>4. CASE at' = done \/ at' = To("replace")
    <3>1. at' \in Places /\ at'.todo = at.todo /\ at'.step \in {"edited", "replace"}
      BY <1>5, <1>6, <2>4
    <3>2. Card' = Card /\ Record' = Record /\ (StepInv' => Inv')
      BY <1>1, <1>5, <1>6, <1>8, <2>1, <2>4, CallingKeeps DEF Within, Steps
    <3> QED BY <1>1, <3>1, <3>2 DEF StepInv
  <2> QED BY <1>8, <2>3, <2>4
<1>9. CASE /\ ~MessageAlive(Record.message) /\ UNCHANGED messages /\ UNCHANGED inside
           /\ \/ at' = To("reserve")
              \/ ~TopicAlive(Record.topic) /\ at' = To("missing")
  <2>1. UNCHANGED <<inside, telegram>>
    BY <1>1, <1>9 DEF telegram
  <2>2. AliveMessages(Card) = {}
    BY <1>1, <1>2, <1>9 DEF Held, AliveMessages
  <2>3. at' \in Places /\ at'.todo = at.todo /\ at'.step \in {"reserve", "missing"}
    BY <1>5, <1>9
  <2>4. /\ Card' = Card /\ Record' = Record /\ AliveMessages(Card)' = AliveMessages(Card)
        /\ StepInv' => Inv'
    BY <1>1, <1>5, <1>9, <2>1, GoesOn DEF Within, Steps
  <2>5. at'.step = "missing" => ~TopicAlive(Record.topic)'
    <3> SUFFICES ASSUME at'.step = "missing" PROVE ~TopicAlive(Record.topic)'
      OBVIOUS
    <3>1. PICK t : t = Record.topic
      OBVIOUS
    <3>2. ~TopicAlive(t)
      BY <1>5, <1>9, <3>1
    <3>3. ~TopicAlive(t)'
      BY <2>1, <3>2, QuietGroup
    <3> QED BY <2>4, <3>1, <3>3
  <2> QED BY <1>1, <2>2, <2>3, <2>4, <2>5 DEF StepInv
<1> QED BY <1>1, <1>7, <1>8, <1>9 DEF Edit, Attempt, Answers, Fails, Goes, telegram, new, done

LEMMA EditedKeeps ==
  ASSUME Inv, Edited
  PROVE  Inv'
<1>1. at.step = "edited" /\ at.todo # <<>>
  BY AtStep DEF Edited
<1>2. Types /\ Record \in Records /\ at.text \in Nat
      /\ Own(Record, Card) /\ Held(Record, AliveTopics(Card), AliveMessages(Card))
  BY <1>1, AtCard DEF Types, Places
<1> DEFINE r == [Record EXCEPT !.last = at.text, !.checked = TRUE]
<1>3. r \in Records /\ r.topic = Record.topic /\ r.topicPending = Record.topicPending
      /\ r.message = Record.message /\ r.sendPending = Record.sendPending
  BY <1>2 DEF Records
<1>4. Save(r, Advance, Advance)
  BY DEF Edited
<1> HIDE DEF r
<1>5. Own(r, Card) /\ Held(r, AliveTopics(Card), AliveMessages(Card))
  BY <1>2, <1>3 DEF Own, Held
<1> QED BY <1>1, <1>3, <1>4, <1>5, SaveLeaves DEF Leaving

LEMMA ReplaceKeeps ==
  ASSUME Inv, Replace
  PROVE  Inv'
<1>1. /\ at.step = "replace" /\ at.todo # <<>> /\ ~Record.topicPending /\ ~Record.sendPending
      /\ topics' = topics /\ messages' = messages
  BY AtStep DEF Replace, StepInv
<1>2. Types /\ Held(Record, AliveTopics(Card), AliveMessages(Card))
  BY <1>1, AtCard
<1>3. messages' \in Seq([topic : Nat, text : Nat])
  BY <1>1, <1>2 DEF Types
<1>4. deleted \subseteq deleted' /\ UNCHANGED inside /\ at' \in {To("reserve"), Advance}
      /\ (at' = Advance \/ deleted' = deleted \cup {<<"message", Record.message>>})
  BY DEF Replace, Answers, Fails
<1>5. CASE at' = Advance
  <2>1. Advance \in Leaving /\ Advance \in Places /\ Range(Advance.todo) \subseteq Range(at.todo)
        /\ Advance.step # "down"
    BY <1>1, <1>2, LeavingPlaces DEF Leaving
  <2> QED BY <1>1, <1>3, <1>4, <1>5, <2>1, CallingKeeps
<1>6. CASE at' = To("reserve") /\ deleted' = deleted \cup {<<"message", Record.message>>}
  <2>1. To("reserve") \in Places /\ To("reserve").todo = at.todo /\ To("reserve").step = "reserve"
    BY <1>2, NextStep DEF Steps
  <2>2. /\ Card' = Card /\ Record' = Record
        /\ AliveMessages(Card)' \subseteq AliveMessages(Card)
        /\ StepInv' => Inv'
    BY <1>1, <1>3, <1>4, <1>6, <2>1, CallingKeeps DEF Within, Steps
  <2>3. AliveMessages(Card)' = {}
    <3>1. \A m \in AliveMessages(Card)' : m = Record.message
      BY <1>1, <1>2, <2>2 DEF Held
    <3>2. \A m \in AliveMessages(Card)' : <<"message", m>> \notin deleted'
      BY DEF AliveMessages, MessageAlive
    <3> QED BY <1>6, <3>1, <3>2
  <2> QED BY <1>1, <1>6, <2>1, <2>2, <2>3 DEF StepInv
<1> QED BY <1>4, <1>5, <1>6

LEMMA IntendSendKeeps ==
  ASSUME Inv, IntendSend
  PROVE  Inv'
<1>1. /\ at.step = "reserve" /\ at.todo # <<>> /\ ~Record.topicPending /\ AliveMessages(Card) = {}
  BY AtStep DEF IntendSend, StepInv
<1>2. Record \in Records /\ Own(Record, Card) /\ Held(Record, AliveTopics(Card), AliveMessages(Card))
  BY <1>1, AtCard
<1> DEFINE r == [Blank(Record) EXCEPT !.sendPending = TRUE]
<1>3. r \in Records /\ r.topic = Record.topic /\ r.topicPending = Record.topicPending /\ r.sendPending
  <2>1. /\ Blank(Record) \in Records /\ Blank(Record).topic = Record.topic
        /\ Blank(Record).topicPending = Record.topicPending
    BY <1>2 DEF Records, Blank, NoText
  <2> QED BY <2>1 DEF Records
<1>4. Save(r, To("send"), Advance)
  BY DEF IntendSend
<1> HIDE DEF r
<1>5. Own(r, Card) /\ Held(r, AliveTopics(Card), AliveMessages(Card))
  BY <1>2, <1>3 DEF Own, Held
<1>6. \/ Inv'
      \/ /\ at'.step = "send" /\ Card' = Card /\ Record' = r /\ disk'[Card] = r
         /\ AliveMessages(Card)' = AliveMessages(Card)
         /\ StepInv' => Inv'
  BY <1>1, <1>3, <1>4, <1>5, SaveGoesOn DEF Within, Steps, Leaving
<1> QED BY <1>1, <1>3, <1>6 DEF StepInv

LEMMA SentMore ==
  ASSUME Types, GroupInv, NEW k \in Cards, NEW t \in DOMAIN topics, NEW x \in Nat,
         topics[t] = k, AliveMessages(k) = {},
         messages' = Append(messages, [topic |-> t, text |-> x]), topics' = topics, deleted' = deleted
  PROVE  /\ messages' \in Seq([topic : Nat, text : Nat]) /\ GroupInv' /\ Len(messages') \in Nat
         /\ \A c : AliveTopics(c)' = AliveTopics(c)
         /\ \A c \in Cards : c # k => AliveMessages(c)' \subseteq AliveMessages(c)
         /\ AliveMessages(k)' \subseteq {Len(messages')}
<1>1. messages \in Seq([topic : Nat, text : Nat]) /\ t \in Nat
  BY DEF Types
<1> DEFINE e == [topic |-> t, text |-> x]
           T == [topic : Nat, text : Nat]
<1>2. e \in T /\ e.topic = t
  BY <1>1
<1> HIDE DEF e, T
<1>3. messages \in Seq(T) /\ messages' = Append(messages, e)
  BY <1>1 DEF e, T
<1>4. /\ messages' \in Seq(T) /\ Len(messages') = Len(messages) + 1 /\ Len(messages) \in Nat
      /\ \A m \in DOMAIN messages : m \in DOMAIN messages' /\ messages'[m] = messages[m]
      /\ messages'[Len(messages')] = e
      /\ \A m \in DOMAIN messages' : m # Len(messages') => m \in DOMAIN messages
  BY <1>2, <1>3
<1>5. \A u : TopicAlive(u)' = TopicAlive(u)
  BY DEF TopicAlive
<1>6. \A c : AliveTopics(c)' = AliveTopics(c)
  BY <1>5 DEF AliveTopics
<1>7. ASSUME NEW m \in DOMAIN messages
      PROVE  MessageAlive(m)' = MessageAlive(m)
  BY <1>4, <1>5, <1>7 DEF MessageAlive
<1>8. ASSUME NEW c \in Cards, NEW m \in AliveMessages(c)', m # Len(messages')
      PROVE  m \in AliveMessages(c)
  <2>1. m \in DOMAIN messages' /\ topics[messages'[m].topic] = c /\ MessageAlive(m)'
    BY <1>8 DEF AliveMessages
  <2>2. m \in DOMAIN messages /\ messages'[m] = messages[m]
    BY <1>4, <1>8, <2>1
  <2> QED BY <1>7, <2>1, <2>2 DEF AliveMessages
<1>9. ASSUME NEW c \in Cards, c # k, NEW m \in AliveMessages(c)'
      PROVE  m # Len(messages')
  <2>1. topics[messages'[m].topic] = c
    BY <1>9 DEF AliveMessages
  <2> QED BY <1>2, <1>4, <1>9, <2>1
<1>10. AliveMessages(k)' \subseteq {Len(messages')}
  BY <1>8
<1>11. \A c \in Cards : c # k => AliveMessages(c)' \subseteq AliveMessages(c)
  BY <1>8, <1>9
<1>12. GroupInv'
  <2>1. \A m \in DOMAIN messages' : messages'[m].topic \in DOMAIN topics'
    BY <1>2, <1>4 DEF GroupInv
  <2>2. \A c \in Cards : /\ \A y, z \in AliveTopics(c) : y = z
                       /\ \A y, z \in AliveMessages(c) : y = z
    BY DEF GroupInv, OneCard
  <2>3. \A c \in Cards : /\ \A y, z \in AliveTopics(c)' : y = z
                       /\ \A y, z \in AliveMessages(c)' : y = z
    BY <2>2, <1>6, <1>10, <1>11
  <2> QED BY <2>1, <2>3 DEF GroupInv, OneCard
<1> QED BY <1>4, <1>6, <1>10, <1>11, <1>12 DEF T

LEMMA SendKeeps ==
  ASSUME Inv, Send
  PROVE  Inv'
<1>1. /\ at.step = "send" /\ at.todo # <<>> /\ ~Record.topicPending /\ AliveMessages(Card) = {}
      /\ Record.sendPending /\ disk[Card].sendPending
  BY AtStep DEF Send, StepInv
<1>2. /\ Types /\ GroupInv /\ Card \in Cards /\ Record \in Records /\ Own(Record, Card)
      /\ Held(Record, AliveTopics(Card), AliveMessages(Card))
      /\ Gone(Card) \/ Held(disk[Card], AliveTopics(Card), AliveMessages(Card))
  BY <1>1, AtCard
<1>3. topics' = topics /\ deleted' = deleted /\ UNCHANGED inside
  BY DEF Send, Goes, Answers, Fails
<1>4. Text(Card) \in Nat
  BY <1>2, TextNumber
<1> DEFINE sent == Append(messages, [topic |-> Record.topic, text |-> Text(Card)])
           done == [To("sent") EXCEPT !.got = Len(sent), !.text = Text(Card)]
           missed == [To("refused") EXCEPT !.got = 1]
<1>5. /\ To("sent") \in Places /\ To("sent").todo = at.todo /\ To("sent").step = "sent"
      /\ To("refused") \in Places /\ To("refused").todo = at.todo
      /\ To("refused").step = "refused" /\ To("refused").got = 0
  BY <1>2, NextStep DEF Steps
<1>6. missed \in Places /\ missed.todo = at.todo /\ missed.step = "refused" /\ missed.got = 1
  BY <1>5 DEF Places
<1>7. \/ UNCHANGED messages /\ at' = To("refused")
      \/ UNCHANGED messages /\ at' = Advance
      \/ ~TopicAlive(Record.topic) /\ UNCHANGED messages /\ at' = missed
      \/ TopicAlive(Record.topic) /\ messages' = sent /\ at' \in {done, Advance}
  BY DEF Send, Goes, Answers, Fails, telegram
<1> HIDE DEF sent, done, missed
<1>8. CASE UNCHANGED messages /\ at' = Advance
  BY <1>1, <1>3, <1>8, Leaves DEF telegram, Leaving
<1>9. CASE UNCHANGED messages
           /\ (at' = To("refused") \/ (~TopicAlive(Record.topic) /\ at' = missed))
  <2>1. UNCHANGED <<inside, telegram>>
    BY <1>3, <1>9 DEF telegram
  <2>2. at' \in Places /\ at'.todo = at.todo /\ at'.step = "refused"
        /\ (at'.got = 1 => ~TopicAlive(Record.topic))
    BY <1>5, <1>6, <1>9
  <2>3. /\ Card' = Card /\ Record' = Record /\ AliveMessages(Card)' = AliveMessages(Card)
        /\ StepInv' => Inv'
    BY <1>1, <1>5, <1>6, <1>9, <2>1, GoesOn DEF Within, Steps
  <2>4. at'.got = 1 => ~TopicAlive(Record.topic)'
    <3> SUFFICES ASSUME at'.got = 1 PROVE ~TopicAlive(Record.topic)'
      OBVIOUS
    <3>1. PICK t : t = Record.topic
      OBVIOUS
    <3>2. ~TopicAlive(t)'
      BY <2>1, <2>2, <3>1, QuietGroup
    <3> QED BY <2>3, <3>1, <3>2
  <2> QED BY <1>1, <2>2, <2>3, <2>4 DEF StepInv
<1>10. CASE TopicAlive(Record.topic) /\ messages' = sent /\ at' \in {done, Advance}
  <2>1. PICK k : k = Card
    OBVIOUS
  <2>2. Record.topic \in DOMAIN topics /\ topics[Record.topic] = k
    BY <1>2, <1>10, <2>1 DEF Own, TopicAlive
  <2>3. /\ messages' \in Seq([topic : Nat, text : Nat]) /\ GroupInv' /\ Len(messages') \in Nat
        /\ \A c : AliveTopics(c)' = AliveTopics(c)
        /\ \A c \in Cards : c # k => AliveMessages(c)' \subseteq AliveMessages(c)
        /\ AliveMessages(k)' \subseteq {Len(messages')}
    BY <1>1, <1>2, <1>3, <1>4, <1>10, <2>1, <2>2, SentMore DEF sent
  <2>4. /\ Held(Record, AliveTopics(k)', AliveMessages(k)')
        /\ Gone(k) \/ Held(disk[k], AliveTopics(k)', AliveMessages(k)')
    <3>1. /\ k \in Cards /\ Held(Record, AliveTopics(k), AliveMessages(k))
          /\ Gone(k) \/ Held(disk[k], AliveTopics(k), AliveMessages(k))
      BY <1>2, <2>1
    <3>2. Record.sendPending /\ disk[k].sendPending
      BY <1>1, <2>1
    <3>3. AliveTopics(k)' = AliveTopics(k)
      BY <2>3
    <3>4. ASSUME NEW r, r.sendPending, Held(r, AliveTopics(k), AliveMessages(k))
          PROVE  Held(r, AliveTopics(k)', AliveMessages(k)')
      BY <3>3, <3>4 DEF Held
    <3> QED BY <3>1, <3>2, <3>4
  <2>5. topics' \in Seq(Cards) /\ \A t \in DOMAIN topics : t \in DOMAIN topics' /\ topics'[t] = topics[t]
    BY <1>2, <1>3 DEF Types
  <2>6. CASE at' = Advance
    <3>1. Advance \in Leaving /\ Advance \in Places /\ Range(Advance.todo) \subseteq Range(at.todo)
          /\ Advance.step # "down"
      BY <1>1, <1>2, LeavingPlaces DEF Leaving
    <3> QED BY <1>1, <1>3, <2>1, <2>3, <2>4, <2>5, <2>6, <3>1, Calling
  <2>7. CASE at' = done
    <3>1. done \in Places /\ done.todo = at.todo /\ done.step = "sent" /\ done.got = Len(messages')
      <4>1. Len(sent) \in Nat /\ Len(sent) = Len(messages')
        BY <2>3, <1>10
      <4> QED BY <4>1, <1>4, <1>5 DEF done, Places
    <3>2. Card' = Card /\ Record' = Record /\ disk'[Card] = disk[Card] /\ (StepInv' => Inv')
      BY <1>1, <1>3, <2>1, <2>3, <2>4, <2>5, <2>7, <3>1, Calling DEF Within, Steps
    <3>3. AliveMessages(Card)' \subseteq {at'.got}
      BY <2>1, <2>3, <2>7, <3>1, <3>2
    <3> QED BY <1>1, <2>7, <3>1, <3>2, <3>3 DEF StepInv
  <2> QED BY <1>10, <2>6, <2>7
<1> QED BY <1>7, <1>8, <1>9, <1>10

LEMMA SentKeeps ==
  ASSUME Inv, Sent
  PROVE  Inv'
<1>1. /\ at.step = "sent" /\ at.todo # <<>> /\ ~Record.topicPending
      /\ AliveMessages(Card) \subseteq {at.got}
  BY AtStep DEF Sent, StepInv
<1>2. Record \in Records /\ at.text \in Nat /\ at.got \in Nat
      /\ Own(Record, Card) /\ Held(Record, AliveTopics(Card), AliveMessages(Card))
  BY <1>1, AtCard DEF Types, Places
<1> DEFINE r == [Record EXCEPT !.message = at.got, !.last = at.text, !.sendPending = FALSE,
                               !.checked = TRUE]
<1>3. r \in Records /\ r.topic = Record.topic /\ r.topicPending = Record.topicPending
      /\ r.message = at.got
  BY <1>2 DEF Records
<1>4. Save(r, Advance, Advance)
  BY DEF Sent
<1> HIDE DEF r
<1>5. Own(r, Card) /\ Held(r, AliveTopics(Card), AliveMessages(Card))
  BY <1>1, <1>2, <1>3 DEF Own, Held
<1> QED BY <1>1, <1>3, <1>4, <1>5, SaveLeaves DEF Leaving

LEMMA DropOrphanKeeps ==
  ASSUME Inv, NEW c \in Nodes, DropOrphan(c)
  PROVE  Inv'
<1>1. Types /\ GroupInv /\ RecordsInv /\ RoundInv
  BY DEF Inv
<1>2. /\ at.step = "orphans" /\ c \in Cards /\ c \notin at.keep /\ mem[c] # NoRecord
      /\ UNCHANGED <<phase, version, reports, disk, topics, messages>>
  BY DEF DropOrphan, Orphans
<1>3. at.todo = <<>> /\ Gone(c) /\ ~New(c)
  BY <1>1, <1>2 DEF RoundInv, RecordsInv
<1>4. mem \in [Cards -> Records] /\ disk \in [Cards -> Records] /\ at \in Places
  BY <1>1 DEF Types
<1>5. /\ deleted \subseteq deleted'
      /\ at' = [at EXCEPT !.got = 1] \/ at' = [at EXCEPT !.keep = @ \cup {c}]
      /\ mem' = [mem EXCEPT ![c] = NoRecord] \/ mem' = mem
  BY DEF DropOrphan, Without
<1>6. /\ at' \in Places /\ at'.step = "orphans" /\ at'.todo = <<>> /\ at.keep \subseteq at'.keep
  BY <1>2, <1>3, <1>4, <1>5 DEF Places
<1>7. PICK r \in Records : mem' = [mem EXCEPT ![c] = r] /\ r \in {NoRecord, mem[c]}
  <2>1. NoRecord \in Records
    BY DEF NoRecord, Records, NoText
  <2>2. mem = [mem EXCEPT ![c] = mem[c]]
    BY <1>4
  <2> QED BY <1>2, <1>4, <1>5, <2>1, <2>2
<1>8. Types'
  BY <1>1, <1>2, <1>4, <1>6, <1>7 DEF Types
<1>9. /\ GroupInv'
      /\ \A d : /\ AliveTopics(d)' \subseteq AliveTopics(d)
                /\ AliveMessages(d)' \subseteq AliveMessages(d)
  BY <1>1, <1>2, <1>5, GroupKept DEF Types
<1>10. RecordsInv'
  <2>1. r.topic # 0 => r.topic \in DOMAIN topics' /\ topics'[r.topic] = c
    BY <1>1, <1>2, <1>7 DEF RecordsInv, Own, NoRecord
  <2>2. Range(at'.todo) = {}
    BY <1>6 DEF Range
  <2>3. \A t \in DOMAIN topics : t \in DOMAIN topics' /\ topics'[t] = topics[t]
    BY <1>2
  <2> QED BY <1>1, <1>2, <1>3, <1>6, <1>7, <1>9, <2>1, <2>2, <2>3, OneRecord
<1>11. RoundInv'
  <2>1. \A d : Gone(d)' = Gone(d)
    BY <1>2 DEF Gone
  <2>2. \A d \in Cards : mem'[d] = mem[d] \/ mem'[d] = NoRecord
    BY <1>4, <1>7
  <2>3. \A d \in Cards \ at'.keep : d # Overview /\ (Gone(d) \/ mem'[d] = NoRecord)
    BY <1>1, <1>2, <1>6, <2>2 DEF RoundInv
  <2>4. Range(at'.todo) = {}
    BY <1>6 DEF Range
  <2> QED BY <1>6, <2>1, <2>3, <2>4 DEF RoundInv
<1> QED BY <1>8, <1>9, <1>10, <1>11 DEF Inv

LEMMA EndRoundKeeps ==
  ASSUME Inv, EndRound
  PROVE  Inv'
<1>1. Types /\ GroupInv /\ RecordsInv /\ RoundInv
  BY DEF Inv
<1>2. /\ at.step = "orphans" /\ at' = Idle /\ disk' \in {disk, mem}
      /\ UNCHANGED <<phase, version, reports, mem, telegram>>
  BY DEF EndRound
<1>3. topics' = topics /\ messages' = messages /\ deleted' = deleted
  BY <1>2 DEF telegram
<1>4. mem \in [Cards -> Records] /\ Overview \in Cards /\ ~New(Overview) /\ ~Gone(Overview)
  BY <1>1, LiveCardsAssumption DEF Types, Cards, New, Gone
<1>5. Idle \in Places /\ Idle.todo = <<>> /\ Idle.step = "idle" /\ Range(<<>>) = {}
  BY DEF Idle, Places, Steps, NoText, Range
<1>6. Types'
  BY <1>1, <1>2, <1>3, <1>5 DEF Types
<1>7. \A c : AliveTopics(c)' = AliveTopics(c) /\ AliveMessages(c)' = AliveMessages(c)
  BY <1>2, QuietGroup
<1>8. GroupInv'
  BY <1>1, <1>3, <1>7 DEF GroupInv, OneCard
<1>9. RecordsInv'
  <2>1. PICK r \in Records : r = mem[Overview]
    BY <1>4
  <2>2. mem' = [mem EXCEPT ![Overview] = r]
    BY <1>2, <1>4, <2>1
  <2>3. /\ Own(r, Overview)
        /\ Held(r, AliveTopics(Overview), AliveMessages(Overview))
        /\ Held(disk[Overview], AliveTopics(Overview), AliveMessages(Overview))
    BY <1>1, <1>2, <1>4, <2>1 DEF RecordsInv, Covers
  <2>4. /\ r.topic # 0 => r.topic \in DOMAIN topics' /\ topics'[r.topic] = Overview
        /\ Held(r, AliveTopics(Overview)', AliveMessages(Overview)')
        /\ Held(disk[Overview], AliveTopics(Overview)', AliveMessages(Overview)')
    BY <1>3, <1>7, <2>3, LiveCardsAssumption DEF Own, Held
  <2>5. disk' \in {disk, mem'} /\ phase' = phase /\ at'.step # "down" /\ at.step # "down"
        /\ Range(at'.todo) = {}
    BY <1>2, <1>5
  <2> QED BY <1>1, <1>3, <1>4, <1>7, <2>2, <2>4, <2>5, OneRecord
<1>10. RoundInv'
  <2>1. at'.todo = <<>> /\ at'.step = "idle"
    BY <1>2, <1>5
  <2>2. Range(at'.todo) = {}
    BY <1>5, <2>1
  <2> QED BY <2>1, <2>2 DEF RoundInv
<1> QED BY <1>6, <1>8, <1>9, <1>10 DEF Inv

LEMMA ForumLoopKeeps ==
  ASSUME Inv, ForumLoop
  PROVE  Inv'
BY StartRoundKeeps, NextCardKeeps, ProbeKeeps, IntendTopicKeeps, CreateKeeps, CreatedKeeps,
   CardStartKeeps, EditKeeps, EditedKeeps, ReplaceKeeps, IntendSendKeeps, SendKeeps, SentKeeps,
   RefusedKeeps, ForgetTopicKeeps, EndRoundKeeps, DropOrphanKeeps DEF ForumLoop

-----------------------------------------------------------------------------
(* Stops, nodes and people.                                                *)
LEMMA StopKeeps ==
  ASSUME Inv, Stop
  PROVE  Inv'
<1>1. Types /\ GroupInv /\ RecordsInv /\ RoundInv
  BY DEF Inv
<1> DEFINE none == [Idle EXCEPT !.step = "down"]
<1>2. /\ at' = none /\ mem' = [c \in Cards |-> NoRecord]
      /\ UNCHANGED <<phase, version, reports, disk, telegram>>
  BY DEF Stop
<1>3. none \in Places /\ none.todo = <<>> /\ none.step = "down" /\ Range(<<>>) = {}
  <2>1. Idle \in Places /\ Idle.todo = <<>>
    BY DEF Idle, Places, Steps, NoText
  <2>2. none \in Places /\ none.todo = <<>> /\ none.step = "down"
    BY <2>1 DEF Places, Steps
  <2> QED BY <2>2 DEF Range
<1> HIDE DEF none
<1>4. NoRecord \in Records /\ NoRecord.topic = 0
  BY DEF NoRecord, Records, NoText
<1>5. topics' = topics /\ messages' = messages /\ deleted' = deleted
  BY <1>2 DEF telegram
<1>6. Types'
  BY <1>1, <1>2, <1>3, <1>4, <1>5 DEF Types
<1>7. \A c : AliveTopics(c)' = AliveTopics(c) /\ AliveMessages(c)' = AliveMessages(c)
  BY <1>2, QuietGroup
<1>8. GroupInv'
  BY <1>1, <1>5, <1>7 DEF GroupInv, OneCard
<1>9. \A c \in Cards : /\ mem'[c] = NoRecord /\ disk'[c] = disk[c]
                      /\ New(c)' = New(c) /\ Gone(c)' = Gone(c)
                      /\ Own(mem[c], c)' /\ Own(disk[c], c)' = Own(disk[c], c)
                      /\ Covers(disk[c], c)' = Covers(disk[c], c)
  BY <1>2, <1>4, <1>5, <1>7 DEF New, Gone, Own, Covers
<1>10. RecordsInv'
  BY <1>1, <1>2, <1>3, <1>7, <1>9 DEF RecordsInv
<1>11. RoundInv'
  BY <1>2, <1>3 DEF RoundInv
<1> QED BY <1>6, <1>8, <1>10, <1>11 DEF Inv

LEMMA StartKeeps ==
  ASSUME Inv, Start
  PROVE  Inv'
<1>1. Types /\ GroupInv /\ RecordsInv /\ RoundInv
  BY DEF Inv
<1>2. /\ at' = Idle /\ mem' = disk /\ UNCHANGED <<phase, version, reports, disk, telegram>>
  BY DEF Start
<1>3. Idle \in Places /\ Idle.todo = <<>> /\ Idle.step = "idle" /\ Range(<<>>) = {}
  BY DEF Idle, Places, Steps, NoText, Range
<1>4. topics' = topics /\ messages' = messages /\ deleted' = deleted
  BY <1>2 DEF telegram
<1>5. Types'
  BY <1>1, <1>2, <1>3, <1>4 DEF Types
<1>6. \A c : AliveTopics(c)' = AliveTopics(c) /\ AliveMessages(c)' = AliveMessages(c)
  BY <1>2, QuietGroup
<1>7. GroupInv'
  BY <1>1, <1>4, <1>6 DEF GroupInv, OneCard
<1>8. \A c \in Cards : /\ mem'[c] = disk[c] /\ disk'[c] = disk[c]
                      /\ New(c)' = New(c) /\ Gone(c)' = Gone(c)
                      /\ Own(mem[c], c)' = Own(disk[c], c) /\ Own(disk[c], c)' = Own(disk[c], c)
                      /\ Covers(mem[c], c)' = Covers(disk[c], c)
                      /\ Covers(disk[c], c)' = Covers(disk[c], c)
  BY <1>2, <1>4, <1>6 DEF New, Gone, Own, Covers
<1>9. RecordsInv'
  BY <1>1, <1>2, <1>3, <1>6, <1>8 DEF RecordsInv
<1>10. RoundInv'
  BY <1>2, <1>3 DEF RoundInv
<1> QED BY <1>5, <1>7, <1>9, <1>10 DEF Inv

(* Nodes that register, report or leave change no record and nothing in    *)
(* the group, and none becomes new again.                                  *)
LEMMA NodesKeep ==
  ASSUME Inv, UNCHANGED <<mem, disk, at, telegram>>, Types',
         \A c : New(c)' => New(c), \A c : Gone(c) => Gone(c)'
  PROVE  Inv'
<1>1. GroupInv /\ RecordsInv /\ RoundInv
  BY DEF Inv
<1>2. topics' = topics /\ messages' = messages /\ deleted' = deleted
  BY DEF telegram
<1>3. /\ \A c : AliveTopics(c)' = AliveTopics(c) /\ AliveMessages(c)' = AliveMessages(c)
      /\ \A t : TopicAlive(t)' = TopicAlive(t)
  BY QuietGroup
<1>4. GroupInv'
  BY <1>1, <1>2, <1>3 DEF GroupInv, OneCard
<1>5. \A c : /\ Own(mem[c], c)' = Own(mem[c], c) /\ Own(disk[c], c)' = Own(disk[c], c)
            /\ Covers(mem[c], c)' = Covers(mem[c], c) /\ Covers(disk[c], c)' = Covers(disk[c], c)
  BY <1>2, <1>3 DEF Own, Covers
<1>6. RecordsInv'
  BY <1>1, <1>3, <1>5 DEF RecordsInv
<1>7. StepInv => StepInv'
  <2>1. Card' = Card /\ Record' = Record
    BY SameCard DEF Record
  <2>2. /\ AliveTopics(Card)' = AliveTopics(Card) /\ AliveMessages(Card)' = AliveMessages(Card)
        /\ TopicAlive(Record.topic)' = TopicAlive(Record.topic)
    BY <1>2, <2>1 DEF AliveTopics, AliveMessages, MessageAlive, TopicAlive
  <2> QED BY <1>2, <2>1, <2>2 DEF StepInv
<1>8. RoundInv'
  BY <1>1, <1>7 DEF RoundInv
<1> QED BY <1>4, <1>6, <1>8 DEF Inv

LEMMA NodesComeAndGo ==
  ASSUME Inv, NEW n \in Nodes, Join(n) \/ Report(n) \/ Leave(n)
  PROVE  Inv'
<1>1. Types
  BY DEF Inv
<1>2. CASE Join(n)
  <2>1. phase[n] = "new" /\ phase' = [phase EXCEPT ![n] = "listed"]
        /\ UNCHANGED <<version, reports, mem, disk, at, telegram>>
    BY <1>2 DEF Join
  <2>2. Types'
    BY <1>1, <2>1 DEF Types, telegram
  <2>3. \A c : (New(c)' => New(c)) /\ (Gone(c) => Gone(c)')
    BY <1>1, <2>1 DEF New, Gone, Types
  <2> QED BY <2>1, <2>2, <2>3, NodesKeep
<1>3. CASE Report(n)
  <2>1. /\ reports' = reports + 1 /\ version' = [version EXCEPT ![n] = version[n] + 1]
        /\ UNCHANGED <<phase, mem, disk, at, telegram>>
    BY <1>3 DEF Report
  <2>2. reports' \in Nat /\ version' \in [Nodes -> Nat]
    BY <1>1, <2>1 DEF Types
  <2>3. Types'
    BY <1>1, <2>1, <2>2 DEF Types, telegram
  <2>4. \A c : (New(c)' => New(c)) /\ (Gone(c) => Gone(c)')
    BY <2>1 DEF New, Gone
  <2> QED BY <2>1, <2>3, <2>4, NodesKeep
<1>4. CASE Leave(n)
  <2>1. phase[n] = "listed" /\ phase' = [phase EXCEPT ![n] = "gone"]
        /\ UNCHANGED <<version, reports, mem, disk, at, telegram>>
    BY <1>4 DEF Leave
  <2>2. Types'
    BY <1>1, <2>1 DEF Types, telegram
  <2>3. \A c : (New(c)' => New(c)) /\ (Gone(c) => Gone(c)')
    BY <1>1, <2>1 DEF New, Gone, Types
  <2> QED BY <2>1, <2>2, <2>3, NodesKeep
<1> QED BY <1>2, <1>3, <1>4

LEMMA LapseKeeps ==
  ASSUME Inv, NEW k \in Cards, Lapse(k)
  PROVE  Inv'
<1>1. Types /\ GroupInv /\ RecordsInv /\ RoundInv
  BY DEF Inv
<1>2. /\ mem[k].checked /\ UNCHANGED <<phase, version, reports, at, telegram>>
      /\ mem' = [mem EXCEPT ![k].checked = FALSE] /\ disk' = [disk EXCEPT ![k].checked = FALSE]
  BY DEF Lapse
<1>3. topics' = topics /\ messages' = messages /\ deleted' = deleted
  BY <1>2 DEF telegram
<1>4. mem \in [Cards -> Records] /\ disk \in [Cards -> Records]
  BY <1>1 DEF Types
<1>5. /\ mem' \in [Cards -> Records] /\ disk' \in [Cards -> Records]
      /\ \A c \in Cards : c # k => mem'[c] = mem[c] /\ disk'[c] = disk[c]
      /\ mem'[k] = [mem[k] EXCEPT !.checked = FALSE] /\ disk'[k] = [disk[k] EXCEPT !.checked = FALSE]
  BY <1>2, <1>4 DEF Records
<1>6. \A r \in Records :
        LET x == [r EXCEPT !.checked = FALSE]
        IN /\ x.topic = r.topic /\ x.topicPending = r.topicPending
           /\ x.message = r.message /\ x.sendPending = r.sendPending
  BY DEF Records
<1>7. \A c \in Cards :
        /\ mem'[c].topic = mem[c].topic /\ mem'[c].topicPending = mem[c].topicPending
        /\ mem'[c].message = mem[c].message /\ mem'[c].sendPending = mem[c].sendPending
        /\ disk'[c].topic = disk[c].topic /\ disk'[c].topicPending = disk[c].topicPending
        /\ disk'[c].message = disk[c].message /\ disk'[c].sendPending = disk[c].sendPending
  <2> SUFFICES ASSUME NEW c \in Cards
               PROVE  /\ mem'[c].topic = mem[c].topic /\ mem'[c].topicPending = mem[c].topicPending
                      /\ mem'[c].message = mem[c].message /\ mem'[c].sendPending = mem[c].sendPending
                      /\ disk'[c].topic = disk[c].topic /\ disk'[c].topicPending = disk[c].topicPending
                      /\ disk'[c].message = disk[c].message /\ disk'[c].sendPending = disk[c].sendPending
    OBVIOUS
  <2>1. CASE c = k
    <3>1. mem[c] \in Records /\ disk[c] \in Records
      BY <1>4
    <3>2. mem'[c] = [mem[c] EXCEPT !.checked = FALSE] /\ disk'[c] = [disk[c] EXCEPT !.checked = FALSE]
      BY <1>5, <2>1
    <3> QED BY <1>6, <3>1, <3>2
  <2>2. CASE c # k
    BY <1>5, <2>2
  <2> QED BY <2>1, <2>2
<1>8. mem[k] # NoRecord /\ ~New(k)
  <2>1. mem[k] # NoRecord
    BY <1>2 DEF NoRecord
  <2> QED BY <1>1, <2>1 DEF RecordsInv
<1>9. Types'
  BY <1>1, <1>2, <1>3, <1>5 DEF Types
<1>10. /\ \A c : AliveTopics(c)' = AliveTopics(c) /\ AliveMessages(c)' = AliveMessages(c)
       /\ \A t : TopicAlive(t)' = TopicAlive(t)
  BY <1>2, QuietGroup
<1>11. GroupInv'
  BY <1>1, <1>3, <1>10 DEF GroupInv, OneCard
<1>12. RecordsInv'
  <2>1. \A c \in Cards : New(c) => c # k /\ mem[c] = NoRecord /\ disk[c] = NoRecord /\ AliveTopics(c) = {}
    BY <1>1, <1>8 DEF RecordsInv
  <2>2. \A c \in Cards : Own(mem[c], c) /\ Own(disk[c], c)
    BY <1>1 DEF RecordsInv
  <2>3. \A c \in Cards : Gone(c) \/ Covers(disk[c], c)
    BY <1>1 DEF RecordsInv
  <2>4. at.step # "down" => \A c \in Cards : (Gone(c) /\ c \notin Range(at.todo)) \/ Covers(mem[c], c)
    BY <1>1 DEF RecordsInv
  <2>5. at' = at
    BY <1>2
  <2>6. ASSUME NEW c \in Cards
        PROVE  /\ New(c)' => mem'[c] = NoRecord /\ disk'[c] = NoRecord /\ AliveTopics(c)' = {}
               /\ Own(mem[c], c)' /\ Own(disk[c], c)'
               /\ (Gone(c) \/ Covers(disk[c], c))'
               /\ at.step # "down" => ((Gone(c) /\ c \notin Range(at.todo)) \/ Covers(mem[c], c))'
    <3>1. (New(c)' => New(c)) /\ (Gone(c) => Gone(c)')
      BY <1>2 DEF New, Gone
    <3>2. New(c)' => mem'[c] = NoRecord /\ disk'[c] = NoRecord /\ AliveTopics(c)' = {}
      <4>1. New(c) => mem'[c] = mem[c] /\ disk'[c] = disk[c]
        BY <1>5, <2>1
      <4> QED BY <1>10, <2>1, <3>1, <4>1
    <3>3. Own(mem[c], c)' /\ Own(disk[c], c)'
      BY <1>3, <1>7, <2>2 DEF Own
    <3>4. (Gone(c) \/ Covers(disk[c], c))'
      <4>1. Covers(disk[c], c) => Covers(disk[c], c)'
        BY <1>7, <1>10 DEF Covers, Held
      <4> QED BY <2>3, <3>1, <4>1
    <3>5. at.step # "down" => ((Gone(c) /\ c \notin Range(at.todo)) \/ Covers(mem[c], c))'
      <4>1. Covers(mem[c], c) => Covers(mem[c], c)'
        BY <1>7, <1>10 DEF Covers, Held
      <4> QED BY <2>4, <2>5, <3>1, <4>1
    <3> QED BY <3>2, <3>3, <3>4, <3>5
  <2> QED BY <2>5, <2>6 DEF RecordsInv
<1>13. RoundInv'
  <2>1. at' = at /\ \A c : New(c)' = New(c) /\ Gone(c)' = Gone(c)
    BY <1>2 DEF New, Gone
  <2>2. at.todo # <<>> /\ StepInv => StepInv'
    <3> SUFFICES ASSUME at.todo # <<>>, StepInv PROVE StepInv'
      OBVIOUS
    <3>1. PICK c \in Cards : c = Card
      BY <1>1, CardOfRound
    <3>2. Card' = c /\ Record' = mem'[c] /\ Record = mem[c]
      BY <2>1, <3>1, SameCard DEF Record
    <3>3. /\ Record'.topic = Record.topic /\ Record'.topicPending = Record.topicPending
          /\ Record'.sendPending = Record.sendPending
          /\ disk'[Card'].topicPending = disk[Card].topicPending
          /\ disk'[Card'].sendPending = disk[Card].sendPending
      BY <1>7, <3>1, <3>2
    <3>4. /\ AliveTopics(Card)' = AliveTopics(Card) /\ AliveMessages(Card)' = AliveMessages(Card)
          /\ TopicAlive(Record.topic)' = TopicAlive(Record.topic)
      BY <1>3, <3>1, <3>2, <3>3 DEF AliveTopics, AliveMessages, MessageAlive, TopicAlive
    <3> QED BY <1>3, <2>1, <3>1, <3>2, <3>3, <3>4 DEF StepInv
  <2>3. \A c \in Cards : mem[c] = NoRecord => mem'[c] = NoRecord
    BY <1>5, <1>8
  <2> QED BY <1>1, <2>1, <2>2, <2>3 DEF RoundInv
<1> QED BY <1>9, <1>11, <1>12, <1>13 DEF Inv

LEMMA DeleteKeeps ==
  ASSUME Inv, Delete
  PROVE  Inv'
<1>1. Types /\ GroupInv /\ RecordsInv /\ RoundInv
  BY DEF Inv
<1>2. /\ UNCHANGED <<inside, at, topics, messages>> /\ deleted \subseteq deleted'
      /\ phase' = phase /\ version' = version /\ reports' = reports /\ mem' = mem /\ disk' = disk
  BY DEF Delete, inside
<1>3. Types'
  BY <1>1, <1>2 DEF Types
<1>4. /\ GroupInv'
      /\ \A c : /\ AliveTopics(c)' \subseteq AliveTopics(c)
                /\ AliveMessages(c)' \subseteq AliveMessages(c)
      /\ \A t : TopicAlive(t)' => TopicAlive(t)
  BY <1>1, <1>2, GroupKept DEF Types
<1>5. mem \in [Cards -> Records] /\ Overview \in Cards /\ ~New(Overview) /\ ~Gone(Overview)
  BY <1>1, LiveCardsAssumption DEF Types, Cards, New, Gone
<1>6. RecordsInv'
  <2>1. PICK r \in Records : r = mem[Overview]
    BY <1>5
  <2>2. mem' = [mem EXCEPT ![Overview] = r]
    BY <1>2, <1>5, <2>1
  <2>3. /\ Own(r, Overview)
        /\ at.step # "down" => Held(r, AliveTopics(Overview), AliveMessages(Overview))
        /\ Held(disk[Overview], AliveTopics(Overview), AliveMessages(Overview))
    BY <1>1, <1>5, <2>1 DEF RecordsInv, Covers
  <2>4. /\ r.topic # 0 => r.topic \in DOMAIN topics' /\ topics'[r.topic] = Overview
        /\ at.step # "down" => Held(r, AliveTopics(Overview)', AliveMessages(Overview)')
        /\ Held(disk[Overview], AliveTopics(Overview)', AliveMessages(Overview)')
    BY <1>2, <1>4, <2>3, LiveCardsAssumption DEF Own, Held
  <2>5. disk' \in {disk, mem'} /\ disk' = disk /\ at' = at
    BY <1>2
  <2> QED BY <1>1, <1>2, <1>4, <1>5, <2>2, <2>4, <2>5, OneRecord
<1>7. RoundInv'
  <2>1. \A c : New(c)' = New(c) /\ Gone(c)' = Gone(c)
    BY <1>2 DEF New, Gone
  <2>2. StepInv => StepInv'
    <3>1. Card' = Card /\ Record' = Record
      BY <1>2, SameCard DEF Record
    <3>2. PICK c, t : c = Card /\ t = Record.topic
      OBVIOUS
    <3>3. /\ AliveTopics(c)' \subseteq AliveTopics(c) /\ AliveMessages(c)' \subseteq AliveMessages(c)
          /\ TopicAlive(t)' => TopicAlive(t)
      BY <1>4
    <3>4. /\ AliveTopics(Card)' \subseteq AliveTopics(Card)
          /\ AliveMessages(Card)' \subseteq AliveMessages(Card)
          /\ TopicAlive(Record.topic)' => TopicAlive(Record.topic)
      BY <3>1, <3>2, <3>3
    <3> QED BY <1>2, <3>1, <3>4 DEF StepInv
  <2> QED BY <1>1, <1>2, <2>1, <2>2 DEF RoundInv
<1> QED BY <1>3, <1>4, <1>6, <1>7 DEF Inv

-----------------------------------------------------------------------------
LEMMA Initially ==
  ASSUME Init
  PROVE  Inv
<1>1. /\ phase = [n \in Nodes |-> "new"] /\ version = [n \in Nodes |-> 0] /\ reports = 0
      /\ mem = [c \in Cards |-> NoRecord] /\ disk = [c \in Cards |-> NoRecord]
      /\ at = Idle /\ topics = <<>> /\ messages = <<>> /\ deleted = {}
  BY DEF Init
<1>2. NoRecord \in Records /\ NoRecord.topic = 0
  BY DEF NoRecord, Records, NoText
<1>3. Idle \in Places /\ Idle.todo = <<>> /\ Idle.step = "idle" /\ Range(<<>>) = {}
  BY DEF Idle, Places, Steps, NoText, Range
<1>4. \A c : AliveTopics(c) = {} /\ AliveMessages(c) = {}
  BY <1>1 DEF AliveTopics, AliveMessages
<1>5. Types
  BY <1>1, <1>2, <1>3 DEF Types
<1>6. GroupInv
  BY <1>1, <1>4 DEF GroupInv, OneCard
<1>7. \A c \in Cards : Own(NoRecord, c) /\ Covers(NoRecord, c)
  BY <1>2, <1>4 DEF Own, Covers, Held
<1>8. \A c \in Cards : mem[c] = NoRecord /\ disk[c] = NoRecord
  BY <1>1
<1>9. RecordsInv
  BY <1>4, <1>7, <1>8 DEF RecordsInv
<1>10. RoundInv
  BY <1>1, <1>3 DEF RoundInv
<1> QED BY <1>5, <1>6, <1>9, <1>10 DEF Inv

LEMMA StepKeeps ==
  ASSUME Inv, [Next]_vars
  PROVE  Inv'
<1>1. CASE Next
  BY <1>1, ForumLoopKeeps, StopKeeps, StartKeeps, DeleteKeeps, NodesComeAndGo, LapseKeeps DEF Next
<1>2. CASE UNCHANGED vars
  <2>1. UNCHANGED <<mem, disk, at, telegram>> /\ phase' = phase /\ version' = version
        /\ reports' = reports
    BY <1>2 DEF vars
  <2>2. Types'
    BY <2>1 DEF Types, Inv, telegram
  <2> QED BY <2>1, <2>2, NodesKeep DEF New, Gone
<1> QED BY <1>1, <1>2

LEMMA InvAlways == Spec => []Inv
<1>1. Init => Inv
  BY Initially
<1>2. Inv /\ [Next]_vars => Inv'
  BY StepKeeps
<1> QED BY <1>1, <1>2, PTL DEF Spec

(* A card never has two topics or two messages, for any number of nodes,   *)
(* failures, stops and deletions (EnsureLiveTopic, SyncLiveCardLatest).    *)
THEOREM OneOfEach == Spec => []OneCard
<1>1. Inv => OneCard
  BY DEF Inv, GroupInv
<1> QED BY <1>1, InvAlways, PTL

(* What exists in the group for a listed card is on disk, or saved as      *)
(* unresolved, at every moment Central may stop (saveForumState).          *)
THEOREM NothingUnaccounted == Spec => []Accounted
<1>1. Inv => Accounted
  <2> SUFFICES ASSUME Inv, NEW c \in {Overview} \cup Listed
               PROVE  OnRecord(c)
    BY DEF Accounted
  <2>1. c \in Cards /\ ~Gone(c)
    BY LiveCardsAssumption DEF Cards, Listed, Gone
  <2>2. Covers(disk[c], c)
    BY <2>1 DEF Inv, RecordsInv
  <2> QED BY <2>2 DEF OnRecord, Covers, Held
<1> QED BY <1>1, InvAlways, PTL

-----------------------------------------------------------------------------
(* Topics that are let go.                                                 *)
Kept(c) ==
  mem[c].topic # 0 /\ mem'[c].topic # mem[c].topic => <<"topic", mem[c].topic>> \in deleted'

(* A save keeps the topic of the card, or had none that exists to keep.    *)
LEMMA SaveLetsGo ==
  ASSUME Inv, at.todo # <<>>, NEW r, NEW a, NEW b, Save(r, a, b),
         r.topic = Record.topic \/ ~TopicAlive(Record.topic)
  PROVE  \A c \in Cards : Kept(c)
<1>1. /\ mem' = [mem EXCEPT ![Card] = r] /\ deleted' = deleted
  BY DEF Save, telegram
<1>2. mem \in [Cards -> Records]
  BY DEF Inv, Types
<1> SUFFICES ASSUME NEW c \in Cards PROVE Kept(c)
  OBVIOUS
<1>3. CASE c = Card
  <2>1. mem'[c].topic = r.topic /\ mem[c].topic = Record.topic
    BY <1>1, <1>2, <1>3 DEF Record
  <2> QED BY <1>1, <2>1 DEF Kept, TopicAlive
<1>4. CASE c # Card
  BY <1>1, <1>2, <1>4 DEF Kept
<1> QED BY <1>3, <1>4

LEMMA ForumLoopLetsGo ==
  ASSUME Inv, ForumLoop
  PROVE  \A c \in Cards : Kept(c)
<1>1. mem' = mem => \A c \in Cards : Kept(c)
  BY DEF Kept
<1>2. CASE StartRound \/ NextCard \/ Create \/ CardStart \/ Edit \/ Replace \/ Send \/ EndRound
  BY <1>1, <1>2 DEF StartRound, NextCard, Create, CardStart, Edit, Replace, Send, EndRound,
                    Goes, Answers, Fails, Attempt, inside
<1>3. ASSUME Probe \/ IntendTopic \/ Created \/ Edited \/ IntendSend \/ Sent \/ Refused \/ ForgetTopic
      PROVE  at.todo # <<>> /\ StepInv /\ Record \in Records
  <2>1. at.todo # <<>> /\ StepInv /\ at.step # "down"
    BY <1>3, AtStep DEF Probe, IntendTopic, Created, Edited, IntendSend, Sent, Refused, ForgetTopic
  <2> QED BY <2>1, AtCard
<1>4. CASE Probe
  <2>1. CASE Save([Record EXCEPT !.checked = TRUE], To("card"), TopicFailed)
    <3> DEFINE r == [Record EXCEPT !.checked = TRUE]
    <3>1. r.topic = Record.topic
      BY <1>3, <1>4 DEF Records
    <3> HIDE DEF r
    <3>2. Save(r, To("card"), TopicFailed)
      BY <2>1 DEF r
    <3> QED BY <1>3, <1>4, <3>1, <3>2, SaveLetsGo
  <2>2. CASE /\ ~TopicAlive(Record.topic)
             /\ Save([Blank(Record) EXCEPT !.topic = 0, !.checked = FALSE], To("intend"), TopicFailed)
    BY <1>3, <1>4, <2>2, SaveLetsGo
  <2>3. CASE Fails(TopicFailed)
    BY <1>1, <2>3 DEF Fails, inside
  <2> QED BY <1>4, <2>1, <2>2, <2>3 DEF Probe
<1>5. CASE IntendTopic \/ Created \/ ForgetTopic
  <2>1. ~TopicAlive(Record.topic)
    BY <1>3, <1>5 DEF IntendTopic, Created, ForgetTopic, StepInv, TopicAlive
  <2>2. \E r, a, b : Save(r, a, b)
    BY <1>5 DEF IntendTopic, Created, ForgetTopic
  <2> QED BY <1>3, <1>5, <2>1, <2>2, SaveLetsGo
<1>6. CASE Edited
  <2> DEFINE r == [Record EXCEPT !.last = at.text, !.checked = TRUE]
  <2>1. r.topic = Record.topic
    BY <1>3, <1>6 DEF Records
  <2>2. Save(r, Advance, Advance)
    BY <1>6 DEF Edited
  <2> HIDE DEF r
  <2> QED BY <1>3, <1>6, <2>1, <2>2, SaveLetsGo
<1>7. CASE IntendSend
  <2> DEFINE r == [Blank(Record) EXCEPT !.sendPending = TRUE]
  <2>1. r.topic = Record.topic
    <3>1. Blank(Record) \in Records /\ Blank(Record).topic = Record.topic
      BY <1>3, <1>7 DEF Records, Blank, NoText
    <3> QED BY <3>1 DEF Records
  <2>2. Save(r, To("send"), Advance)
    BY <1>7 DEF IntendSend
  <2> HIDE DEF r
  <2> QED BY <1>3, <1>7, <2>1, <2>2, SaveLetsGo
<1>8. CASE Sent
  <2> DEFINE r == [Record EXCEPT !.message = at.got, !.last = at.text, !.sendPending = FALSE,
                                 !.checked = TRUE]
  <2>1. r.topic = Record.topic
    BY <1>3, <1>8 DEF Records
  <2>2. Save(r, Advance, Advance)
    BY <1>8 DEF Sent
  <2> HIDE DEF r
  <2> QED BY <1>3, <1>8, <2>1, <2>2, SaveLetsGo
<1>9. CASE Refused
  <2>1. \A r \in {[Record EXCEPT !.topicPending = FALSE], [Record EXCEPT !.sendPending = FALSE]} :
          r.topic = Record.topic
    BY <1>3, <1>9 DEF Records
  <2>2. \E r \in {[Record EXCEPT !.topicPending = FALSE], [Record EXCEPT !.sendPending = FALSE]} :
          \E a, b : Save(r, a, b)
    BY <1>9 DEF Refused
  <2> QED BY <1>3, <1>9, <2>1, <2>2, SaveLetsGo
<1>10. ASSUME NEW d \in Nodes, DropOrphan(d)
       PROVE  \A c \in Cards : Kept(c)
  <2>1. CASE mem' = mem
    BY <1>1, <2>1
  <2>2. CASE /\ deleted' = (IF mem[d].topic = 0 THEN deleted ELSE Without(mem[d].topic))
             /\ mem' = [mem EXCEPT ![d] = NoRecord]
    <3>1. mem \in [Cards -> Records]
      BY DEF Inv, Types
    <3>2. mem[d].topic # 0 => <<"topic", mem[d].topic>> \in deleted'
      BY <2>2 DEF Without
    <3>3. \A c \in Cards : c # d => mem'[c] = mem[c]
      BY <2>2, <3>1
    <3> QED BY <3>2, <3>3 DEF Kept
  <2> QED BY <1>10, <2>1, <2>2 DEF DropOrphan
<1> QED BY <1>2, <1>4, <1>5, <1>6, <1>7, <1>8, <1>9, <1>10 DEF ForumLoop

(* The record of a topic is given up only for a topic that no longer       *)
(* exists, but when Central stops (EnsureLiveTopic, syncForum).    *)
THEOREM TopicsAreKept == Spec => NoTopicLetGo
<1> DEFINE A == at.step # "down" /\ at'.step # "down" =>
                  \A c \in Cards : mem[c].topic # 0 /\ mem'[c].topic # mem[c].topic
                    => <<"topic", mem[c].topic>> \in deleted'
<1>1. Inv /\ [Next]_vars => A
  <2> SUFFICES ASSUME Inv, [Next]_vars, at.step # "down", at'.step # "down"
               PROVE  \A c \in Cards : Kept(c)
    BY DEF Kept
  <2>1. CASE ForumLoop
    BY <2>1, ForumLoopLetsGo
  <2>2. CASE Stop \/ Start
    BY <2>2 DEF Stop, Start, Idle
  <2>3. CASE Delete \/ (\E n \in Nodes : Join(n) \/ Report(n) \/ Leave(n)) \/ UNCHANGED vars
    BY <2>3 DEF Delete, Join, Report, Leave, vars, inside, Kept
  <2>4. ASSUME NEW d \in Cards, Lapse(d)
        PROVE  \A c \in Cards : Kept(c)
    <3>1. mem \in [Cards -> Records] /\ mem' = [mem EXCEPT ![d].checked = FALSE]
      BY <2>4 DEF Inv, Types, Lapse
    <3>2. \A r \in Records : [r EXCEPT !.checked = FALSE].topic = r.topic
      BY DEF Records
    <3>3. \A c \in Cards : mem'[c] = mem[c] \/ mem'[c] = [mem[c] EXCEPT !.checked = FALSE]
      BY <3>1
    <3>4. \A c \in Cards : mem'[c].topic = mem[c].topic
      BY <3>1, <3>2, <3>3
    <3> QED BY <3>4 DEF Kept
  <2> QED BY <2>1, <2>2, <2>3, <2>4 DEF Next
<1> QED BY <1>1, InvAlways, PTL DEF Spec, NoTopicLetGo

-----------------------------------------------------------------------------
(* Types and bounds.  A record names no message that was never sent, and what is  *)
(* deleted was there: the loop only asks to delete the message it could not edit,  *)
(* and the topic that a record names.                                             *)
Spelled == {"topic", "message"} \X (Nat \ {0})
Sane(r, ms) == r.message <= Len(ms)

BoundsInv ==
  /\ \A n \in Nodes : version[n] <= reports
  /\ reports <= MaxReports /\ troubles \in 0 .. MaxTroubles /\ deleted \subseteq Spelled
  /\ \A c \in Cards : Sane(mem[c], messages) /\ Sane(disk[c], messages)
  /\ at.step = "sent" => at.got <= Len(messages)
  /\ at.step = "replace" => Record.message # 0

LEMMA CountedTrouble ==
  ASSUME troubles \in 0 .. MaxTroubles, Trouble \/ UNCHANGED troubles
  PROVE  troubles' \in 0 .. MaxTroubles
BY LiveCardsAssumption DEF Trouble

(* The loop moves on: only the steps that send or replace promise anything.       *)
LEMMA PlaceBounds ==
  ASSUME BoundsInv, UNCHANGED <<inside, telegram>>, Trouble \/ UNCHANGED troubles,
         at'.step \notin {"sent", "replace"}
  PROVE  BoundsInv'
<1>1. troubles' \in 0 .. MaxTroubles
  BY CountedTrouble DEF BoundsInv
<1> QED BY <1>1 DEF BoundsInv, inside, telegram, Sane

LEMMA SaveBounds ==
  ASSUME Inv, BoundsInv, at.todo # <<>>, at.step # "down", NEW r, NEW a, NEW b, Save(r, a, b),
         r.message <= Len(messages), a.step \notin {"sent", "replace"},
         b.step \notin {"sent", "replace"}
  PROVE  BoundsInv'
<1>1. /\ mem' = [mem EXCEPT ![Card] = r] /\ disk' \in {disk, mem'} /\ at' \in {a, b}
      /\ UNCHANGED <<phase, version, reports, telegram>> /\ (Trouble \/ UNCHANGED troubles)
  BY DEF Save, NoTrouble
<1>2. mem \in [Cards -> Records] /\ disk \in [Cards -> Records]
  BY DEF Inv, Types
<1>3. troubles' \in 0 .. MaxTroubles
  BY <1>1, CountedTrouble DEF BoundsInv
<1>4. \A c \in Cards : Sane(mem'[c], messages) /\ Sane(disk'[c], messages)
  BY <1>1, <1>2 DEF BoundsInv, Sane
<1> QED BY <1>1, <1>3, <1>4 DEF BoundsInv, telegram

(* A call changes the group, never a record.                                      *)
LEMMA CallBounds ==
  ASSUME Inv, BoundsInv, UNCHANGED inside, Trouble \/ UNCHANGED troubles,
         deleted' \subseteq Spelled, Len(messages') \in Nat, Len(messages) <= Len(messages'),
         at'.step = "sent" => at'.got <= Len(messages'),
         at'.step = "replace" => Record'.message # 0
  PROVE  BoundsInv'
<1>1. troubles' \in 0 .. MaxTroubles
  BY CountedTrouble DEF BoundsInv
<1>2. mem \in [Cards -> Records] /\ disk \in [Cards -> Records] /\ mem' = mem /\ disk' = disk
  BY DEF Inv, Types, inside
<1>3. Len(messages) \in Nat /\ \A c \in Cards : mem[c].message \in Nat /\ disk[c].message \in Nat
  BY <1>2 DEF Inv, Types, Records
<1>4. \A c \in Cards : Sane(mem'[c], messages') /\ Sane(disk'[c], messages')
  BY <1>2, <1>3 DEF BoundsInv, Sane
<1> QED BY <1>1, <1>4 DEF BoundsInv, inside

LEMMA LoopSaves ==
  ASSUME Inv, BoundsInv,
         Probe \/ IntendTopic \/ Created \/ Edited \/ IntendSend \/ Sent \/ Refused \/ ForgetTopic
  PROVE  BoundsInv'
<1>1. /\ at.todo # <<>> /\ StepInv /\ at.step # "down" /\ Record \in Records /\ Types
      /\ Record.message \in Nat /\ Record.message <= Len(messages) /\ Len(messages) \in Nat
  <2>1. at.todo # <<>> /\ StepInv /\ at.step # "down"
    BY AtStep DEF Probe, IntendTopic, Created, Edited, IntendSend, Sent, Refused, ForgetTopic
  <2>2. Record \in Records /\ Record = mem[Card] /\ Card \in Cards /\ Types
    BY <2>1, AtCard
  <2> QED BY <2>1, <2>2 DEF BoundsInv, Sane, Types, Records
<1>2. \A s \in Steps : To(s).step = s
  BY <1>1, NextStep
<1>3. \A a \in Leaving : a.step \notin {"sent", "replace"}
  BY <1>1, LeavingPlaces
<1>4. ASSUME NEW r, NEW a, NEW b, Save(r, a, b), r.message \in {0, Record.message},
             a \in Leaving \cup {To("card"), To("intend"), To("create"), To("send"), To("missing")},
             b \in Leaving
      PROVE  BoundsInv'
  <2>1. a.step \notin {"sent", "replace"} /\ b.step \notin {"sent", "replace"}
    BY <1>2, <1>3, <1>4 DEF Steps
  <2> QED BY <1>1, <1>4, <2>1, SaveBounds
<1>5. Blank(Record) \in Records /\ Blank(Record).message = 0
  BY <1>1 DEF Blank, Records, NoText
<1>6. {Advance, PassedOver, TopicFailed, Idle} \subseteq Leaving
  BY DEF Leaving
<1>7. CASE Probe
  <2>1. /\ [Record EXCEPT !.checked = TRUE].message = Record.message
        /\ [Blank(Record) EXCEPT !.topic = 0, !.checked = FALSE].message = 0
    BY <1>1, <1>5 DEF Records
  <2>2. \A t : Fails(t) /\ UNCHANGED telegram => Trouble /\ at' = t /\ UNCHANGED <<inside, telegram>>
    BY DEF Fails
  <2>3. CASE Fails(TopicFailed) /\ UNCHANGED telegram
    BY <1>3, <1>6, <2>2, <2>3, PlaceBounds
  <2> QED BY <1>4, <1>6, <1>7, <2>1, <2>3 DEF Probe
<1>8. CASE IntendTopic
  <2>1. [Record EXCEPT !.topicPending = TRUE].message = Record.message
    BY <1>1 DEF Records
  <2> QED BY <1>4, <1>6, <1>8, <2>1 DEF IntendTopic
<1>9. CASE Created
  <2>1. [Blank(Record) EXCEPT !.topic = at.got, !.topicPending = FALSE, !.checked = TRUE].message = 0
    BY <1>5 DEF Records
  <2> QED BY <1>4, <1>6, <1>9, <2>1 DEF Created
<1>10. CASE Edited
  <2>1. [Record EXCEPT !.last = at.text, !.checked = TRUE].message = Record.message
    BY <1>1 DEF Records
  <2> QED BY <1>4, <1>6, <1>10, <2>1 DEF Edited
<1>11. CASE IntendSend
  <2>1. [Blank(Record) EXCEPT !.sendPending = TRUE].message = 0
    BY <1>5 DEF Records
  <2> QED BY <1>4, <1>6, <1>11, <2>1 DEF IntendSend
<1>12. CASE Refused
  <2>1. \A r \in {[Record EXCEPT !.topicPending = FALSE], [Record EXCEPT !.sendPending = FALSE]} :
          r.message = Record.message
    BY <1>1 DEF Records
  <2>2. \E r \in {[Record EXCEPT !.topicPending = FALSE], [Record EXCEPT !.sendPending = FALSE]} :
          \E a \in Leaving \cup {To("missing")}, b \in Leaving : Save(r, a, b)
    BY <1>6, <1>12 DEF Refused
  <2> QED BY <1>4, <2>1, <2>2
<1>13. CASE ForgetTopic
  <2>1. NoRecord.message = 0
    BY DEF NoRecord
  <2>2. \E b \in Leaving : Save(NoRecord, Advance, b)
    BY <1>6, <1>13 DEF ForgetTopic
  <2> QED BY <1>4, <1>6, <2>1, <2>2
<1>14. CASE Sent
  <2> DEFINE r == [Record EXCEPT !.message = at.got, !.last = at.text, !.sendPending = FALSE,
                                 !.checked = TRUE]
  <2>1. r.message = at.got /\ at.got <= Len(messages)
    BY <1>1, <1>14 DEF Records, Sent, BoundsInv
  <2>2. Save(r, Advance, Advance)
    BY <1>14 DEF Sent
  <2> HIDE DEF r
  <2> QED BY <1>1, <1>3, <1>6, <2>1, <2>2, SaveBounds
<1> QED BY <1>7, <1>8, <1>9, <1>10, <1>11, <1>12, <1>13, <1>14

LEMMA LoopGoes ==
  ASSUME Inv, BoundsInv, StartRound \/ NextCard \/ CardStart
  PROVE  BoundsInv'
<1>1. Types /\ (CardStart => at.todo # <<>>)
  BY AtStep DEF Inv, CardStart
<1>2. \A s \in Steps : To(s).step = s
  BY <1>1, NextStep
<1>3. ASSUME NEW a, Goes(a), a.step \notin {"sent", "replace"} PROVE BoundsInv'
  <2>1. /\ at'.step \notin {"sent", "replace"} /\ UNCHANGED <<inside, telegram>>
        /\ UNCHANGED troubles
    BY <1>3 DEF Goes, NoTrouble
  <2> QED BY <2>1, PlaceBounds
<1>4. CASE StartRound
  <2>1. PICK s \in Sorted(Listed) :
          Goes([Idle EXCEPT !.step = "next", !.todo = Round(s), !.first = TRUE])
    BY <1>4 DEF StartRound
  <2>2. [Idle EXCEPT !.step = "next", !.todo = Round(s), !.first = TRUE].step = "next"
    BY DEF Idle
  <2> QED BY <1>3, <2>1, <2>2
<1>5. CASE NextCard
  <2>1. CASE at.todo = <<>>
    <3>1. Goes([To("orphans") EXCEPT !.keep = Listed \cup {Overview}])
      BY <1>5, <2>1 DEF NextCard
    <3>2. [To("orphans") EXCEPT !.keep = Listed \cup {Overview}].step = "orphans"
      BY <1>1, NextStep DEF Steps, Places
    <3> QED BY <1>3, <3>1, <3>2
  <2>2. CASE at.todo # <<>>
    <3>1. \E a \in {PassedOver, TopicFailed, To("intend"), To("card"), To("probe")} : Goes(a)
      BY <1>5, <2>2 DEF NextCard
    <3>2. PassedOver.step \in {"next", "idle"} /\ TopicFailed.step \in {"next", "idle"}
      BY <1>1, <2>2, LeavingPlaces DEF Leaving
    <3> QED BY <1>2, <1>3, <3>1, <3>2 DEF Steps
  <2> QED BY <2>1, <2>2
<1>6. CASE CardStart
  <2>1. \E a \in {Advance, To("reserve"), To("edit")} : Goes(a)
    BY <1>6 DEF CardStart
  <2>2. Advance.step \in {"next", "idle"}
    BY <1>1, <1>6, LeavingPlaces DEF Leaving
  <2> QED BY <1>2, <1>3, <2>1, <2>2 DEF Steps
<1> QED BY <1>4, <1>5, <1>6

LEMMA LoopCalls ==
  ASSUME Inv, BoundsInv, Create \/ Edit \/ Replace \/ Send
  PROVE  BoundsInv'
<1>1. /\ at.todo # <<>> /\ Types /\ Record \in Records /\ Record = mem[Card] /\ Card \in Cards
      /\ Record.message \in Nat /\ deleted \subseteq Spelled
      /\ messages \in Seq([topic : Nat, text : Nat]) /\ Len(messages) \in Nat
  <2>1. at.todo # <<>> /\ at.step # "down"
    BY AtStep DEF Create, Edit, Replace, Send
  <2>2. Record \in Records /\ Record = mem[Card] /\ Card \in Cards /\ Types
    BY <2>1, AtCard
  <2> QED BY <2>1, <2>2 DEF BoundsInv, Types, Records
<1>2. \A s \in Steps : To(s).step = s /\ To(s).todo = at.todo
  BY <1>1, NextStep
<1>3. Advance.step \in {"next", "idle"} /\ TopicFailed.step \in {"next", "idle"}
  BY <1>1, LeavingPlaces DEF Leaving
<1>4. Text(Card) \in Nat
  BY <1>1, TextNumber
<1>5. UNCHANGED inside /\ (Trouble \/ UNCHANGED troubles)
  BY DEF Create, Edit, Replace, Send, Attempt, Answers, Fails, Goes, NoTrouble
<1>6. CASE Create
  <2> DEFINE done == [To("created") EXCEPT !.got = Len(Append(topics, Card))]
  <2>1. at' \in {done, TopicFailed, To("refused")} /\ messages' = messages /\ deleted' = deleted
    BY <1>6 DEF Create, Answers, Fails
  <2>2. done.step = "created"
    BY <1>1, NextStep DEF Places, Steps
  <2> HIDE DEF done
  <2>3. at'.step \notin {"sent", "replace"}
    BY <1>2, <1>3, <2>1, <2>2 DEF Steps
  <2> QED BY <1>1, <1>5, <2>1, <2>3, CallBounds
<1>7. CASE Edit
  <2> DEFINE new == [messages EXCEPT ![Record.message].text = Text(Card)]
             done == [To("edited") EXCEPT !.text = Text(Card)]
  <2>1. /\ messages' \in {messages, new} /\ deleted' = deleted
        /\ at' \in {done, Advance, To("replace"), To("reserve"), To("missing")}
        /\ at' = To("replace") => MessageAlive(Record.message)
    <3>1. at' = To("replace") => MessageAlive(Record.message)
      <4> SUFFICES ASSUME at' = To("replace"), ~MessageAlive(Record.message) PROVE FALSE
        OBVIOUS
      <4>1. at' \in {Advance, To("reserve"), To("missing")}
        BY <1>7 DEF Edit, Answers, Fails, Goes
      <4> QED BY <1>2, <1>3, <4>1 DEF Steps
    <3>2. CASE ~Rendered(Card) /\ Goes(Advance)
      BY <1>7, <3>1, <3>2 DEF Edit, Goes, telegram
    <3>3. CASE Attempt(new)
      BY <1>7, <3>1, <3>3 DEF Edit, Attempt, Answers, Fails
    <3>4. CASE UNCHANGED messages /\ ~MessageAlive(Record.message)
      BY <1>7, <3>1, <3>4 DEF Edit, Answers, Fails, Goes
    <3> QED BY <1>7, <3>2, <3>3, <3>4 DEF Edit
  <2>2. done.step = "edited"
    BY <1>1, NextStep DEF Places, Steps
  <2>3. new \in Seq([topic : Nat, text : Nat]) /\ DOMAIN new = DOMAIN messages
    BY <1>1, <1>4, NewText
  <2> HIDE DEF new, done
  <2>4. Len(messages') = Len(messages)
    BY <1>1, <2>1, <2>3, LenProperties
  <2>5. at'.step # "sent" /\ (at'.step = "replace" => at' = To("replace"))
    BY <1>2, <1>3, <2>1, <2>2 DEF Steps
  <2>6. at'.step = "replace" => Record'.message # 0
    <3> SUFFICES ASSUME at'.step = "replace" PROVE Record'.message # 0
      OBVIOUS
    <3>1. at'.todo = at.todo /\ MessageAlive(Record.message)
      BY <1>2, <2>1, <2>5 DEF Steps
    <3>2. Record' = Record
      BY <1>1, <1>5, <3>1, SameCard DEF inside
    <3> QED BY <3>1, <3>2 DEF MessageAlive
  <2> QED BY <1>1, <1>5, <2>1, <2>4, <2>5, <2>6, CallBounds
<1>8. CASE Replace
  <2>1. /\ at' \in {To("reserve"), Advance} /\ messages' = messages
        /\ deleted' \in {deleted, deleted \cup {<<"message", Record.message>>}}
    BY <1>8 DEF Replace, Answers, Fails
  <2>2. Record.message # 0
    BY <1>8 DEF Replace, BoundsInv
  <2>3. deleted' \subseteq Spelled
    BY <1>1, <2>1, <2>2 DEF Spelled
  <2>4. at'.step \notin {"sent", "replace"}
    BY <1>2, <1>3, <2>1 DEF Steps
  <2> QED BY <1>1, <1>5, <2>1, <2>3, <2>4, CallBounds
<1>9. CASE Send
  <2> DEFINE sent == Append(messages, [topic |-> Record.topic, text |-> Text(Card)])
             done == [To("sent") EXCEPT !.got = Len(sent), !.text = Text(Card)]
             missed == [To("refused") EXCEPT !.got = 1]
  <2>1. \/ messages' = messages /\ at' = To("refused")
        \/ messages' = messages /\ at' = Advance
        \/ messages' = messages /\ at' = missed
        \/ messages' = sent /\ at' \in {done, Advance}
    BY <1>9 DEF Send, Goes, Answers, Fails, telegram
  <2>2. deleted' = deleted
    BY <1>9 DEF Send, Goes, Answers, Fails, telegram
  <2>3. Len(sent) \in Nat /\ Len(sent) = Len(messages) + 1
    BY <1>1
  <2> HIDE DEF sent
  <2>4. /\ To("sent") \in Places /\ To("sent").step = "sent"
        /\ To("refused") \in Places /\ To("refused").step = "refused"
    BY <1>1, NextStep DEF Steps
  <2>5. done.got = Len(sent) /\ missed.step = "refused"
    BY <2>4 DEF Places
  <2> HIDE DEF done, missed
  <2>6. Len(messages') \in Nat /\ Len(messages) <= Len(messages')
    BY <1>1, <2>1, <2>3
  <2>7. CASE messages' = sent /\ at' = done
    <3>1. at'.step = "sent" => at'.got <= Len(messages')
      BY <2>3, <2>5, <2>7
    <3>2. at'.step # "replace"
      <4>1. done.step = To("sent").step
        BY <2>4 DEF done, Places
      <4> QED BY <2>4, <2>7, <4>1
    <3> QED BY <1>1, <1>5, <2>2, <2>6, <3>1, <3>2, CallBounds
  <2>8. CASE at' = To("refused") \/ at' = Advance \/ at' = missed
    <3>1. at'.step \notin {"sent", "replace"}
      BY <1>3, <2>4, <2>5, <2>8
    <3> QED BY <1>1, <1>5, <2>2, <2>6, <3>1, CallBounds
  <2> QED BY <2>1, <2>7, <2>8
<1> QED BY <1>6, <1>7, <1>8, <1>9

LEMMA LoopEnds ==
  ASSUME Inv, BoundsInv, EndRound \/ \E c \in Nodes : DropOrphan(c)
  PROVE  BoundsInv'
<1>1. Types /\ NoRecord.message = 0 /\ Len(messages) \in Nat
  BY DEF Inv, Types, NoRecord
<1>2. CASE EndRound
  <2>1. /\ at' = Idle /\ disk' \in {disk, mem} /\ (Trouble \/ UNCHANGED troubles)
        /\ UNCHANGED <<phase, version, reports, mem, telegram>>
    BY <1>2 DEF EndRound, NoTrouble
  <2>2. troubles' \in 0 .. MaxTroubles
    BY <2>1, CountedTrouble DEF BoundsInv
  <2>3. Idle.step = "idle"
    BY DEF Idle
  <2> QED BY <2>1, <2>2, <2>3 DEF BoundsInv, telegram, Sane
<1>3. ASSUME NEW c \in Nodes, DropOrphan(c) PROVE BoundsInv'
  <2>1. /\ mem' \in {mem, [mem EXCEPT ![c] = NoRecord]} /\ (Trouble \/ UNCHANGED troubles)
        /\ deleted' \in {deleted, Without(mem[c].topic)}
        /\ mem[c].topic = 0 => deleted' = deleted
        /\ UNCHANGED <<version, reports, disk, topics, messages>> /\ at'.step = at.step
        /\ at.step = "orphans"
    <3>1. at \in Places
      BY <1>1 DEF Types
    <3>2. \A g \in Nat : \A k : [at EXCEPT !.got = g].step = at.step /\ [at EXCEPT !.keep = k].step = at.step
      BY <3>1 DEF Places
    <3> QED BY <1>3, <3>2 DEF DropOrphan, NoTrouble
  <2>2. troubles' \in 0 .. MaxTroubles
    BY <2>1, CountedTrouble DEF BoundsInv
  <2>3. c \in Cards /\ mem \in [Cards -> Records] /\ mem[c].topic \in Nat
    BY <1>1 DEF Cards, Types, Records
  <2>4. deleted' \subseteq Spelled
    BY <2>1, <2>3 DEF BoundsInv, Without, Spelled
  <2>5. \A d \in Cards : Sane(mem'[d], messages) /\ Sane(disk[d], messages)
    BY <1>1, <2>1, <2>3 DEF BoundsInv, Sane
  <2> QED BY <2>1, <2>2, <2>4, <2>5 DEF BoundsInv
<1> QED BY <1>2, <1>3

LEMMA OthersBounds ==
  ASSUME Inv, BoundsInv,
         \/ Stop \/ Start \/ Delete
         \/ \E n \in Nodes : Join(n) \/ Report(n) \/ Leave(n)
         \/ \E c \in Cards : Lapse(c)
  PROVE  BoundsInv'
<1>1. /\ Types /\ NoRecord.message = 0 /\ Len(messages) \in Nat
      /\ mem \in [Cards -> Records] /\ disk \in [Cards -> Records]
  BY DEF Inv, Types, NoRecord
<1>2. Trouble => troubles' \in 0 .. MaxTroubles
  BY CountedTrouble DEF BoundsInv
<1>3. CASE Stop
  <2>1. at'.step = "down"
    BY <1>3 DEF Stop, Idle
  <2> QED BY <1>1, <1>2, <1>3, <2>1 DEF Stop, BoundsInv, telegram, Sane
<1>4. CASE Start
  <2>1. at'.step = "idle"
    BY <1>4 DEF Start, Idle
  <2> QED BY <1>4, <2>1 DEF Start, BoundsInv, telegram, Sane
<1>5. CASE Delete
  <2>1. /\ UNCHANGED <<version, reports, mem, disk, at, messages>> /\ Trouble
        /\ \/ \E t \in DOMAIN topics : deleted' = deleted \cup {<<"topic", t>>}
           \/ \E m \in DOMAIN messages : deleted' = deleted \cup {<<"message", m>>}
    BY <1>5 DEF Delete, inside
  <2>2. DOMAIN topics \subseteq Nat \ {0} /\ DOMAIN messages \subseteq Nat \ {0}
    BY <1>1, LenProperties DEF Types
  <2>3. deleted' \subseteq Spelled
    BY <2>1, <2>2 DEF BoundsInv, Spelled
  <2>4. Record' = Record
    BY <2>1 DEF Record, Card
  <2> QED BY <1>2, <2>1, <2>3, <2>4 DEF BoundsInv, Sane
<1>6. ASSUME NEW n \in Nodes, Join(n) \/ Leave(n) PROVE BoundsInv'
  <2>1. UNCHANGED <<version, reports, mem, disk, at, telegram, troubles>>
    BY <1>6 DEF Join, Leave
  <2>2. Record' = Record
    BY <2>1 DEF Record, Card
  <2> QED BY <2>1, <2>2 DEF BoundsInv, telegram, Sane
<1>7. ASSUME NEW n \in Nodes, Report(n) PROVE BoundsInv'
  <2>1. /\ reports < MaxReports /\ reports' = reports + 1
        /\ version' = [version EXCEPT ![n] = version[n] + 1]
        /\ UNCHANGED <<mem, disk, at, telegram, troubles>>
    BY <1>7 DEF Report
  <2>2. version \in [Nodes -> Nat] /\ reports \in Nat
    BY <1>1 DEF Types
  <2>3. \A m \in Nodes : version'[m] <= reports'
    BY <2>1, <2>2 DEF BoundsInv
  <2>4. reports' <= MaxReports
    BY <2>1, <2>2, LiveCardsAssumption
  <2>5. Record' = Record
    BY <2>1 DEF Record, Card
  <2> QED BY <2>1, <2>3, <2>4, <2>5 DEF BoundsInv, telegram, Sane
<1>8. ASSUME NEW d \in Cards, Lapse(d) PROVE BoundsInv'
  <2>1. /\ Trouble /\ UNCHANGED <<version, reports, at, telegram>>
        /\ mem' = [mem EXCEPT ![d].checked = FALSE] /\ disk' = [disk EXCEPT ![d].checked = FALSE]
    BY <1>8 DEF Lapse
  <2>2. \A r \in Records : [r EXCEPT !.checked = FALSE].message = r.message
    BY DEF Records
  <2>3. \A c \in Cards : /\ mem'[c].message = mem[c].message
                         /\ disk'[c].message = disk[c].message
    BY <1>1, <2>1, <2>2
  <2>4. at.step = "replace" => Record'.message = Record.message
    <3> SUFFICES ASSUME at.step = "replace" PROVE Record'.message = Record.message
      OBVIOUS
    <3>1. Card \in Cards /\ Record = mem[Card]
      BY AtStep, AtCard
    <3>2. Record' = mem'[Card]
      BY <2>1, SameCard
    <3> QED BY <2>3, <3>1, <3>2
  <2> QED BY <1>2, <2>1, <2>3, <2>4 DEF BoundsInv, telegram, Sane
<1> QED BY <1>3, <1>4, <1>5, <1>6, <1>7, <1>8

LEMMA NextBounds == Inv /\ BoundsInv /\ [Next]_vars => BoundsInv'
<1> SUFFICES ASSUME Inv, BoundsInv, [Next]_vars PROVE BoundsInv'
  OBVIOUS
<1>1. CASE ForumLoop
  BY <1>1, LoopSaves, LoopGoes, LoopCalls, LoopEnds DEF ForumLoop
<1>2. CASE UNCHANGED vars
  <2>1. UNCHANGED <<version, reports, mem, disk, at, telegram, troubles>>
    BY <1>2 DEF vars
  <2>2. Record' = Record
    BY <2>1 DEF Record, Card
  <2> QED BY <2>1, <2>2 DEF BoundsInv, telegram, Sane
<1> QED BY <1>1, <1>2, OthersBounds DEF Next

LEMMA InitBounds == Init => BoundsInv
<1> SUFFICES ASSUME Init PROVE BoundsInv
  OBVIOUS
<1>1. Idle.step = "idle" /\ NoRecord.message = 0
  BY DEF Idle, NoRecord
<1> QED BY <1>1, LiveCardsAssumption DEF Init, BoundsInv, Sane

(* Every variable keeps its type: no record names a topic or a message that was    *)
(* never created, and what is deleted did exist.                                  *)
THEOREM CardsTypeCorrect == Spec => []TypeOK
<1>1. Inv /\ BoundsInv => TypeOK
  <2> SUFFICES ASSUME Inv, BoundsInv PROVE TypeOK
    OBVIOUS
  <2>1. /\ Types /\ \A c \in Cards : Own(mem[c], c) /\ Own(disk[c], c)
        /\ \A m \in DOMAIN messages : messages[m].topic \in DOMAIN topics
    BY DEF Inv, RecordsInv, GroupInv
  <2>2. Len(topics) \in Nat /\ DOMAIN topics = 1 .. Len(topics) /\ Len(messages) \in Nat
    BY <2>1, LenProperties DEF Types
  <2> DEFINE R == [topic : 0..Len(topics), topicPending : BOOLEAN, checked : BOOLEAN,
                   message : 0..Len(messages), sendPending : BOOLEAN, last : Nat]
  <2>3. ASSUME NEW r \in Records, NEW c, Own(r, c), Sane(r, messages) PROVE r \in R
    BY <2>2, <2>3 DEF Records, Own, Sane
  <2>4. mem \in [Cards -> R] /\ disk \in [Cards -> R]
    BY <2>1, <2>3 DEF Types, BoundsInv
  <2>5. version \in [Nodes -> 0 .. MaxReports] /\ reports \in 0 .. MaxReports
    <3>1. version \in [Nodes -> Nat] /\ reports \in Nat /\ reports <= MaxReports /\ MaxReports \in Nat
      BY <2>1, LiveCardsAssumption DEF Types, BoundsInv
    <3>2. \A n \in Nodes : version[n] \in 0 .. MaxReports
      BY <3>1 DEF BoundsInv
    <3> QED BY <3>1, <3>2
  <2>6. at.step \in Steps /\ Range(at.todo) \subseteq Cards /\ at.keep \subseteq Cards
    <3>1. at.todo \in Seq(Cards) /\ at.step \in Steps /\ at.keep \subseteq Cards
      BY <2>1 DEF Types, Places
    <3> QED BY <3>1, ElementOfSeq, LenProperties DEF Range
  <2> QED BY <2>1, <2>4, <2>5, <2>6 DEF TypeOK, Types, BoundsInv, Spelled
<1>2. Inv /\ BoundsInv /\ [Next]_vars => BoundsInv'
  BY NextBounds
<1> QED BY <1>1, <1>2, InitBounds, InvAlways, PTL DEF Spec
=============================================================================
