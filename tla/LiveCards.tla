------------------------------ MODULE LiveCards ------------------------------
(***************************************************************************)
(* The forum of live cards: one Telegram topic with one message for the    *)
(* overview and for every listed node, kept current by forumLoop.          *)
(*                                                                         *)
(* Telegram's createForumTopic and sendMessage have no idempotency key, so *)
(* Central saves an intent before it calls and clears it when it knows the *)
(* outcome; a card whose outcome it does not know is left to the operator. *)
(* Writing forum.json may fail, Central may stop between any two steps,    *)
(* people may delete messages and topics, and nodes come and go meanwhile. *)
(***************************************************************************)
EXTENDS Integers, FiniteSets, Sequences, Functions

CONSTANTS
  Nodes,        \* the nodes that may register
  Overview,     \* the overview's card
  Every,        \* nodes between two refreshes of the overview in one round
  MaxReports,   \* bound: changes of the nodes' texts
  MaxTroubles   \* bound: failed calls and writes, stops, deletions by people,
                \* and times a topic's last check grows old, all together

Cards == Nodes \cup {Overview}

ASSUME LiveCardsAssumption ==
  /\ IsFiniteSet(Nodes) /\ Overview \notin Nodes /\ Every \in Nat \ {0}
  /\ MaxReports \in Nat /\ MaxTroubles \in Nat

VARIABLES
  phase,     \* each node is "new" (not registered yet), "listed" or "gone"
  version,   \* number of the text a node's card is rendered to
  mem,       \* forumState in memory
  disk,      \* forum.json
  at,        \* where forumLoop stands in its round
  topics,    \* Telegram: the card each topic was created for, by topic ID
  messages,  \* Telegram: topic and text of each message, by message ID
  deleted,   \* Telegram: topics and messages that no longer exist
  reports,   \* counter of the bound MaxReports
  troubles   \* counter of the bound MaxTroubles

telegram == <<topics, messages, deleted>>
vars == <<phase, version, mem, disk, at, telegram, reports, troubles>>

-----------------------------------------------------------------------------
Listed == {n \in Nodes : phase[n] = "listed"}

(* What a card shows, as the number of its rendering: a node's card carries    *)
(* the time of its last report and the overview the time of day, so neither    *)
(* goes back to an earlier text.  A node that is no longer stored has no text,  *)
(* which cancels the work on its card.                                         *)
NoText == 0
Changes == reports + Cardinality({n \in Nodes : phase[n] # "new"})
                   + Cardinality({n \in Nodes : phase[n] = "gone"})
Text(c) == 1 + IF c = Overview THEN Changes ELSE version[c]
Rendered(c) == c = Overview \/ c \in Listed

(* forumNodeState; a card without a record has the zero record.               *)
NoRecord == [topic |-> 0, topicPending |-> FALSE, checked |-> FALSE,
             message |-> 0, sendPending |-> FALSE, last |-> NoText]
Blank(r) == [r EXCEPT !.message = 0, !.sendPending = FALSE, !.last = NoText]

TopicAlive(t) == t # 0 /\ <<"topic", t>> \notin deleted
MessageAlive(m) == m # 0 /\ <<"message", m>> \notin deleted /\ TopicAlive(messages[m].topic)

(* One pass over the cards: the overview, then the nodes, with the overview   *)
(* again after every third node but the last.  The nodes are sorted by country *)
(* and name, which change: any order may be the next one.                      *)
Sorted(nodes) == {s \in [1 .. Cardinality(nodes) -> nodes] : IsInjective(s)}

Round(s) ==
  LET n == Len(s)
      overviews == IF n = 0 THEN 1 ELSE 1 + (n - 1) \div Every
  IN [i \in 1 .. n + overviews |->
        IF (i - 1) % (Every + 1) = 0 THEN Overview ELSE s[i - 1 - (i - 1) \div (Every + 1)]]

Steps == {"idle", "down", "next", "probe", "intend", "create", "created", "card",
          "edit", "edited", "replace", "reserve", "send", "sent", "refused",
          "missing", "orphans"}
Idle == [step |-> "idle", todo |-> <<>>, first |-> FALSE, got |-> 0,
         text |-> NoText, keep |-> {}]

Card == Head(at.todo)
Record == mem[Card]
To(step) == [at EXCEPT !.step = step, !.got = 0]
Advance == [Idle EXCEPT !.step = "next", !.todo = Tail(at.todo)]

(* A node without its topic is passed over together with the overview that    *)
(* was to follow it; an overview without one at the head of the round ends it. *)
PassedOver ==
  LET rest == Tail(at.todo)
  IN [Advance EXCEPT !.todo = IF Card # Overview /\ rest # <<>> /\ Head(rest) = Overview
                              THEN Tail(rest) ELSE rest]
TopicFailed == IF at.first THEN Idle ELSE PassedOver

TypeOK ==
  LET Records == [topic : 0..Len(topics), topicPending : BOOLEAN, checked : BOOLEAN,
                  message : 0..Len(messages), sendPending : BOOLEAN,
                  last : Nat]
  IN /\ phase \in [Nodes -> {"new", "listed", "gone"}]
     /\ version \in [Nodes -> 0..MaxReports]
     /\ mem \in [Cards -> Records] /\ disk \in [Cards -> Records]
     /\ at.step \in Steps /\ Range(at.todo) \subseteq Cards /\ at.keep \subseteq Cards
     /\ topics \in Seq(Cards) /\ deleted \subseteq {"topic", "message"} \X (Nat \ {0})
     /\ \A m \in DOMAIN messages : messages[m].topic \in DOMAIN topics
     /\ reports \in 0..MaxReports /\ troubles \in 0..MaxTroubles

Init ==
  /\ phase = [n \in Nodes |-> "new"] /\ version = [n \in Nodes |-> 0]
  /\ mem = [c \in Cards |-> NoRecord] /\ disk = [c \in Cards |-> NoRecord]
  /\ at = Idle /\ topics = <<>> /\ messages = <<>> /\ deleted = {}
  /\ reports = 0 /\ troubles = 0

-----------------------------------------------------------------------------
Trouble == troubles < MaxTroubles /\ troubles' = troubles + 1
NoTrouble == UNCHANGED troubles
inside == <<phase, version, reports, mem, disk>>

(* saveForumState: the whole state, in a new file that replaces the old one.  *)
(* The record changes in memory whether or not it is saved.                   *)
Save(r, saved, refused) ==
  LET st == [mem EXCEPT ![Card] = r]
  IN /\ mem' = st
     /\ \/ disk' = st /\ at' = saved /\ NoTrouble
        \/ UNCHANGED disk /\ at' = refused /\ Trouble
     /\ UNCHANGED <<phase, version, reports, telegram>>

(* A call of the Bot API answers, or fails: flood control, no permission,      *)
(* transport.                                                                  *)
Answers(next) == at' = next /\ NoTrouble /\ UNCHANGED inside
Fails(next) == at' = next /\ Trouble /\ UNCHANGED inside

Goes(next) == at' = next /\ NoTrouble /\ UNCHANGED <<inside, telegram>>

(* syncForum, at the start and every two seconds. *)
StartRound ==
  /\ at.step = "idle"
  /\ \E s \in Sorted(Listed) :
       Goes([Idle EXCEPT !.step = "next", !.todo = Round(s), !.first = TRUE])

(* EnsureLiveTopic: an unresolved creation is not repeated, a topic that was   *)
(* checked within five minutes and has the right name is taken as it is.       *)
NextCard ==
  /\ at.step = "next"
  /\ IF at.todo = <<>> THEN Goes([To("orphans") EXCEPT !.keep = Listed \cup {Overview}])
     ELSE IF ~Rendered(Card) THEN Goes(PassedOver)
     ELSE IF Record.topicPending THEN Goes(TopicFailed)
     ELSE Goes(To(IF Record.topic = 0 THEN "intend"
                  ELSE IF Record.checked THEN "card" ELSE "probe"))

(* editForumTopic: only the answer that the topic is missing lets it be made   *)
(* anew.                                                                       *)
Probe ==
  /\ at.step = "probe"
  /\ \/ /\ TopicAlive(Record.topic)
        /\ Save([Record EXCEPT !.checked = TRUE], To("card"), TopicFailed)
     \/ /\ ~TopicAlive(Record.topic)
        /\ Save([Blank(Record) EXCEPT !.topic = 0, !.checked = FALSE],
                To("intend"), TopicFailed)
     \/ Fails(TopicFailed) /\ UNCHANGED telegram

IntendTopic ==
  /\ at.step = "intend"
  /\ Save([Record EXCEPT !.topicPending = TRUE], To("create"), TopicFailed)

(* createForumTopic: made and answered, made or not made without an answer,    *)
(* or refused with a 4xx status.                                               *)
Create ==
  /\ at.step = "create" /\ UNCHANGED <<messages, deleted>>
  /\ LET made == Append(topics, Card)
     IN \/ topics' = made /\ Answers([To("created") EXCEPT !.got = Len(made)])
        \/ topics' \in {topics, made} /\ Fails(TopicFailed)
        \/ UNCHANGED topics /\ Fails(To("refused"))

Created ==
  /\ at.step = "created"
  /\ Save([Blank(Record) EXCEPT !.topic = at.got, !.topicPending = FALSE, !.checked = TRUE],
          To("card"), TopicFailed)

(* What was refused did not happen, and its intent is taken back.              *)
Refused ==
  /\ at.step = "refused"
  /\ IF Record.topicPending
     THEN Save([Record EXCEPT !.topicPending = FALSE], TopicFailed, TopicFailed)
     ELSE Save([Record EXCEPT !.sendPending = FALSE],
               IF at.got = 1 THEN To("missing") ELSE Advance, Advance)

(* A mutant of CardStart: an unresolved send is repeated. *)
CardStartAgain ==
  /\ at.step = "card"
  /\ IF ~Rendered(Card) \/ (Record.message # 0 /\ Record.last = Text(Card))
     THEN Goes(Advance)
     ELSE Goes(To(IF Record.message = 0 THEN "reserve" ELSE "edit"))

(* SyncLiveCardLatest *)
CardStart ==
  /\ at.step = "card"
  /\ IF ~Rendered(Card) \/ Record.sendPending \/ (Record.message # 0 /\ Record.last = Text(Card))
     THEN Goes(Advance)
     ELSE Goes(To(IF Record.message = 0 THEN "reserve" ELSE "edit"))

(* The error of a topic that no longer exists makes syncForum forget the topic *)
(* with its message; a refused write ends the round.                           *)
ForgetTopic ==
  /\ at.step = "missing"
  /\ Save(NoRecord, Advance, IF Card = Overview /\ ~at.first THEN Advance ELSE Idle)

(* A mutant of Attempt: any failure is taken for "not modified". *)
AttemptAssumed(new) ==
  LET done == [To("edited") EXCEPT !.text = Text(Card)]
  IN \/ messages' = new /\ Answers(done)
     \/ UNCHANGED messages /\ Fails(To("replace"))
     \/ messages' \in {messages, new} /\ Fails(done)

(* editMessageText, rendered after the wait for the group's turn.  A failure    *)
(* other than "can't be edited" leaves the card as it is.                      *)
Attempt(new) ==
  \/ messages' = new /\ Answers([To("edited") EXCEPT !.text = Text(Card)])
  \/ UNCHANGED messages /\ Fails(To("replace"))
  \/ messages' \in {messages, new} /\ Fails(Advance)

Edit ==
  /\ at.step = "edit" /\ UNCHANGED <<topics, deleted>>
  /\ \/ ~Rendered(Card) /\ Goes(Advance)
     \/ /\ Rendered(Card) /\ MessageAlive(Record.message)
        /\ Attempt([messages EXCEPT ![Record.message].text = Text(Card)])
     \/ /\ Rendered(Card) /\ ~MessageAlive(Record.message) /\ UNCHANGED messages
        /\ \/ Answers(To("reserve"))
           \/ ~TopicAlive(Record.topic) /\ Answers(To("missing"))
           \/ Fails(Advance)

Edited ==
  /\ at.step = "edited"
  /\ Save([Record EXCEPT !.last = at.text, !.checked = TRUE], Advance, Advance)

(* A message that can no longer be edited is replaced once it is deleted, and  *)
(* kept when that is refused or uncertain.                                     *)
Replace ==
  /\ at.step = "replace" /\ UNCHANGED <<topics, messages>>
  /\ LET without == deleted \cup {<<"message", Record.message>>}
     IN \/ deleted' = without /\ Answers(To("reserve"))
        \/ deleted' \in {deleted, without} /\ Fails(Advance)

(* A mutant of IntendSend: the intent is not saved before the call. *)
IntendSendUnsaved ==
  /\ at.step = "reserve" /\ Goes(To("send"))

IntendSend ==
  /\ at.step = "reserve"
  /\ Save([Blank(Record) EXCEPT !.sendPending = TRUE], To("send"), Advance)

(* sendMessage, rendered after the wait.                                       *)
Send ==
  /\ at.step = "send" /\ UNCHANGED <<topics, deleted>>
  /\ LET sent == Append(messages, [topic |-> Record.topic, text |-> Text(Card)])
     IN \/ ~Rendered(Card) /\ Goes(To("refused"))
        \/ /\ Rendered(Card) /\ TopicAlive(Record.topic)
           /\ \/ /\ messages' = sent
                 /\ Answers([To("sent") EXCEPT !.got = Len(sent), !.text = Text(Card)])
              \/ messages' \in {messages, sent} /\ Fails(Advance)
              \/ UNCHANGED messages /\ Fails(To("refused"))
        \/ /\ Rendered(Card) /\ ~TopicAlive(Record.topic) /\ UNCHANGED messages
           /\ \/ Answers([To("refused") EXCEPT !.got = 1])
              \/ Fails(Advance)

Sent ==
  /\ at.step = "sent"
  /\ Save([Record EXCEPT !.message = at.got, !.last = at.text, !.sendPending = FALSE,
                         !.checked = TRUE], Advance, Advance)

Orphans == {c \in Cards \ at.keep : mem[c] # NoRecord}
Without(t) == deleted \cup {<<"topic", t>>}

(* A mutant of DropOrphan: a record without a topic is not told apart. *)
DropOrphanUnasked(c) ==
  /\ at.step = "orphans" /\ c \in Orphans
  /\ deleted' = Without(mem[c].topic) /\ mem' = [mem EXCEPT ![c] = NoRecord]
  /\ at' = [at EXCEPT !.got = 1]
  /\ NoTrouble /\ UNCHANGED <<phase, version, reports, disk, topics, messages>>

(* A mutant of DropOrphan: the record does not wait for the deletion. *)
DropOrphanAnyway(c) ==
  /\ at.step = "orphans" /\ c \in Orphans
  /\ UNCHANGED <<phase, version, reports, disk, topics, messages>>
  /\ deleted' \in {deleted} \cup IF mem[c].topic = 0 THEN {} ELSE {Without(mem[c].topic)}
  /\ mem' = [mem EXCEPT ![c] = NoRecord] /\ at' = [at EXCEPT !.got = 1] /\ NoTrouble

(* The records of nodes that are no longer stored: the topic is deleted, with  *)
(* its messages, and the record dropped; a topic that cannot be deleted keeps  *)
(* its record for the next round.                                              *)
DropOrphan(c) ==
  /\ at.step = "orphans" /\ c \in Orphans
  /\ UNCHANGED <<phase, version, reports, disk, topics, messages>>
  /\ \/ /\ deleted' = IF mem[c].topic = 0 THEN deleted ELSE Without(mem[c].topic)
        /\ mem' = [mem EXCEPT ![c] = NoRecord]
        /\ at' = [at EXCEPT !.got = 1] /\ NoTrouble
     \/ /\ mem[c].topic # 0 /\ deleted' \in {deleted, Without(mem[c].topic)}
        /\ at' = [at EXCEPT !.keep = @ \cup {c}] /\ Trouble /\ UNCHANGED mem

EndRound ==
  /\ at.step = "orphans" /\ Orphans = {} /\ at' = Idle
  /\ \/ at.got = 0 /\ UNCHANGED disk /\ NoTrouble
     \/ at.got = 1 /\ disk' = mem /\ NoTrouble
     \/ at.got = 1 /\ UNCHANGED disk /\ Trouble
  /\ UNCHANGED <<phase, version, reports, mem, telegram>>

ForumLoop ==
  \/ StartRound \/ NextCard \/ Probe \/ IntendTopic \/ Create \/ Created \/ CardStart
  \/ Edit \/ Edited \/ Replace \/ IntendSend \/ Send \/ Sent
  \/ Refused \/ ForgetTopic
  \/ EndRound \/ \E c \in Nodes : DropOrphan(c)

-----------------------------------------------------------------------------
(* Central stops; at the next start it reads forum.json, and does not take an  *)
(* unreadable one for an empty one (readForumState).                           *)
Stop ==
  /\ at.step # "down" /\ Trouble
  /\ at' = [Idle EXCEPT !.step = "down"] /\ mem' = [c \in Cards |-> NoRecord]
  /\ UNCHANGED <<phase, version, reports, disk, telegram>>

Start ==
  /\ at.step = "down" /\ mem' = disk /\ at' = Idle
  /\ UNCHANGED <<phase, version, reports, disk, telegram, troubles>>

(* Registration, metrics, and removal or expiry of a node.                     *)
Join(n) ==
  /\ phase[n] = "new" /\ phase' = [phase EXCEPT ![n] = "listed"]
  /\ UNCHANGED <<version, reports, mem, disk, at, telegram, troubles>>

Report(n) ==
  /\ phase[n] = "listed" /\ reports < MaxReports /\ reports' = reports + 1
  /\ version' = [version EXCEPT ![n] = @ + 1]
  /\ UNCHANGED <<phase, mem, disk, at, telegram, troubles>>

Leave(n) ==
  /\ phase[n] = "listed" /\ phase' = [phase EXCEPT ![n] = "gone"]
  /\ UNCHANGED <<version, reports, mem, disk, at, telegram, troubles>>

(* Five minutes since a topic was checked, or a new name for it.               *)
Lapse(c) ==
  /\ Trouble /\ mem[c].checked
  /\ mem' = [mem EXCEPT ![c].checked = FALSE] /\ disk' = [disk EXCEPT ![c].checked = FALSE]
  /\ UNCHANGED <<phase, version, reports, at, telegram>>

(* People in the group delete a topic or a message.                            *)
Delete ==
  /\ Trouble
  /\ \/ \E t \in DOMAIN topics : TopicAlive(t) /\ deleted' = deleted \cup {<<"topic", t>>}
     \/ \E m \in DOMAIN messages : MessageAlive(m) /\ deleted' = deleted \cup {<<"message", m>>}
  /\ UNCHANGED <<inside, at, topics, messages>>

Next ==
  \/ ForumLoop \/ Stop \/ Start \/ Delete
  \/ \E n \in Nodes : Join(n) \/ Report(n) \/ Leave(n)
  \/ \E c \in Cards : Lapse(c)

Spec == Init /\ [][Next]_vars

(* systemd restarts Central, the loop runs on its ticker and every call of the  *)
(* Bot API ends (the client gives up after ten seconds).                        *)
FairSpec == Spec /\ WF_vars(ForumLoop) /\ WF_vars(Start)
-----------------------------------------------------------------------------
AliveTopics(c) == {t \in DOMAIN topics : topics[t] = c /\ TopicAlive(t)}
AliveMessages(c) == {m \in DOMAIN messages : topics[messages[m].topic] = c /\ MessageAlive(m)}

(* A card never has two topics or two messages, although neither call of the   *)
(* Bot API can be repeated safely: not after a lost answer, a stop, a refused   *)
(* write or a deletion by people (EnsureLiveTopic, SyncLiveCardLatest).         *)
OneCard ==
  \A c \in Cards : /\ \A s, t \in AliveTopics(c) : s = t
                  /\ \A l, m \in AliveMessages(c) : l = m

(* What exists in the group for a listed card is on disk, or the card is saved  *)
(* as unresolved: no stop makes Central forget that it may have created it.     *)
OnRecord(c) ==
  /\ \A t \in AliveTopics(c) : disk[c].topic = t \/ disk[c].topicPending
  /\ \A m \in AliveMessages(c) : disk[c].message = m \/ disk[c].sendPending \/ disk[c].topicPending

Accounted == \A c \in {Overview} \cup Listed : OnRecord(c)

(* The record of a topic is given up only for a topic that no longer exists:    *)
(* orphan cleanup keeps what it could not delete.                               *)
NoTopicLetGo ==
  [][at.step # "down" /\ at'.step # "down" =>
       \A c \in Cards : mem[c].topic # 0 /\ mem'[c].topic # mem[c].topic
         => <<"topic", mem[c].topic>> \in deleted']_vars

(* Every card ends up showing its latest text, and a node that left ends up      *)
(* without a record, once the failures are over, unless the outcome of a         *)
(* creation or of a send is unresolved.  An unresolved topic of the overview     *)
(* ends every round before the first node.  A message that people deleted is     *)
(* missed as long as its text stays the same.                                    *)
Shown(c) == /\ mem[c].last = Text(c)
            /\ MessageAlive(mem[c].message) => messages[mem[c].message].text = Text(c)
Unresolved(c) == mem[c].topicPending \/ mem[c].sendPending

CardsSettle ==
  <>[](\/ mem[Overview].topicPending
       \/ \A c \in Cards : IF Rendered(c) THEN Shown(c) \/ Unresolved(c) ELSE mem[c] = NoRecord)

(* "Forum's existing orphan cleanup owns Telegram deletion and retries failures":*)
(* when a node has left, nothing of it stays in the group unrecorded.             *)
NothingLeftBehind == \A c \in Cards : OnRecord(c)
=============================================================================
