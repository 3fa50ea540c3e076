------------------------------- MODULE Alerts -------------------------------
(***************************************************************************)
(* Central's alerts (central/server.go): evaluate, called by the handler   *)
(* of each accepted metric, offlineLoop, which looks at all nodes every 30 *)
(* seconds, and the removal of nodes, over one map of trackers.            *)
(*                                                                         *)
(* offlineLoop takes its snapshot of the nodes first and sends its         *)
(* messages between two nodes, so a node may report, or be removed, after  *)
(* the snapshot and before the decision about it.  Whether a message gets  *)
(* through makes no difference to Central, which ignores the error; but    *)
(* while the handler of a metric sends one, the agent may give up waiting  *)
(* and send its next metric, which another handler takes.                  *)
(***************************************************************************)
EXTENDS Integers, SequencesExt

CONSTANTS
  Watched,    \* the nodes
  Calls,      \* handlers that may be at work for one node at a time
  Silence,    \* age of the last metric, in units, from which a node is off
  WarnCount,  \* warnN: samples before a warning
  CritCount,  \* critN: samples before a critical alert
  Calm,       \* samples before a recovery
  Loads       \* the loads each node may report: levels of one resource

(* Below the recovery threshold, between it and the warning threshold,     *)
(* above this one, above the critical one.                                 *)
Low == 0
Middle == 1
High == 2
Critical == 3

ASSUME AlertsAssumption ==
  /\ {Silence, WarnCount, CritCount, Calm} \subseteq Nat \ {0}
  /\ IsFiniteSet(Watched) /\ Loads \in [Watched -> SUBSET (Low .. Critical)]

VARIABLES
  age,        \* units since the stored metric of a node, up to Silence
  listed,     \* nodes in the store
  tracker,    \* the trackers: whether offline, level and counters
  handler,    \* where each handler of a node's metrics stands, and its load
  withdrawn,  \* nodes out of the store whose tracker is still there
  scan        \* where offlineLoop stands

alertVars == <<age, listed, tracker, handler, withdrawn, scan>>

NoTracker == [offline |-> FALSE, level |-> 0, high |-> 0, critical |-> 0, calm |-> 0]
Resting == [todo |-> <<>>, off |-> {}, sending |-> FALSE]
Quiet == [step |-> "none", load |-> Low]

AlertsInit ==
  /\ age = [n \in Watched |-> 0]
  /\ listed = Watched
  /\ tracker = [n \in Watched |-> NoTracker]
  /\ handler = [call \in Watched \X Calls |-> Quiet] /\ withdrawn = {}
  /\ scan = Resting

-----------------------------------------------------------------------------
(* A unit passes.                                                          *)
Age ==
  /\ age' = [n \in Watched |-> IF age[n] < Silence THEN age[n] + 1 ELSE age[n]]
  /\ UNCHANGED <<listed, tracker, handler, withdrawn, scan>>

(* A handler has stored a metric: UpdateMetric accepted it.  An earlier    *)
(* one of the node is only still at work when the agent gave it up, which  *)
(* takes a message to Telegram.                                            *)
Accept(n, c, load) ==
  /\ n \in listed /\ handler[<<n, c>>].step = "none"
  /\ \A d \in Calls : handler[<<n, d>>].step \in {"none", "tell"}
  /\ age' = [age EXCEPT ![n] = 0]
  /\ handler' = [handler EXCEPT ![<<n, c>>] = [step |-> "evaluate", load |-> load]]
  /\ UNCHANGED <<listed, tracker, withdrawn, scan>>

(* A mutant of Evaluate: the node stays marked offline. *)
EvaluateLevelsOnly(n, c) ==
  /\ handler[<<n, c>>].step = "evaluate"
  /\ handler' = [handler EXCEPT ![<<n, c>>].step = IF tracker[n].offline THEN "tell" ELSE "levels"]
  /\ UNCHANGED <<age, listed, tracker, withdrawn, scan>>

(* evaluate, first part: the node is back.  Its message is sent before the *)
(* levels are looked at.                                                   *)
Evaluate(n, c) ==
  /\ handler[<<n, c>>].step = "evaluate"
  /\ tracker' = [tracker EXCEPT ![n].offline = FALSE]
  /\ handler' = [handler EXCEPT ![<<n, c>>].step = IF tracker[n].offline THEN "tell" ELSE "levels"]
  /\ UNCHANGED <<age, listed, withdrawn, scan>>

Tell(n, c) ==
  /\ handler[<<n, c>>].step = "tell"
  /\ handler' = [handler EXCEPT ![<<n, c>>].step = "levels"]
  /\ UNCHANGED <<age, listed, tracker, withdrawn, scan>>

(* evalMetric: the counters first, then the level.                         *)
Counted(t, load) ==
  [t EXCEPT !.high = IF load >= High THEN @ + 1 ELSE 0,
            !.critical = IF load = Critical THEN @ + 1 ELSE 0,
            !.calm = IF load = Low THEN @ + 1 ELSE 0]

Levelled(t) ==
  [t EXCEPT !.level =
     IF t.level < 2 /\ t.critical >= CritCount THEN 2
     ELSE IF t.level = 0 /\ t.high >= WarnCount THEN 1
     ELSE IF t.level > 0 /\ t.calm >= Calm THEN 0
     ELSE t.level]

(* The counters only matter up to the largest count they are compared to.  *)
Longest == CHOOSE m \in {WarnCount, CritCount, Calm} :
             \A k \in {WarnCount, CritCount, Calm} : k <= m
Cap(k) == IF k < Longest THEN k ELSE Longest
Capped(t) == [t EXCEPT !.high = Cap(@), !.critical = Cap(@), !.calm = Cap(@)]

EvalMetric(n, c) ==
  /\ handler[<<n, c>>].step = "levels"
  /\ tracker' = [tracker EXCEPT ![n] = Capped(Levelled(Counted(@, handler[<<n, c>>].load)))]
  /\ handler' = [handler EXCEPT ![<<n, c>>] = Quiet]
  /\ UNCHANGED <<age, listed, withdrawn, scan>>

-----------------------------------------------------------------------------
(* offlineLoop: the snapshot says which nodes are off.  Nodes() sorts them *)
(* by name; names change and may be equal, so the order is any.            *)
Look ==
  /\ scan.todo = <<>> /\ listed # {}
  /\ \E nodes \in SetToSeqs(listed) :
       scan' = [todo |-> nodes, off |-> {n \in listed : age[n] >= Silence},
                sending |-> FALSE]
  /\ UNCHANGED <<age, listed, tracker, handler, withdrawn>>

(* The decision about the next node, under the lock of the trackers.       *)
Here == Head(scan.todo)
Announces == Here \in scan.off /\ ~tracker[Here].offline

Decide ==
  /\ scan.todo # <<>> /\ ~scan.sending
  /\ tracker' = [tracker EXCEPT ![Here].offline = @ \/ Here \in scan.off]
  /\ scan' = IF Announces THEN [scan EXCEPT !.sending = TRUE]
             ELSE [scan EXCEPT !.todo = Tail(@)]
  /\ UNCHANGED <<age, listed, handler, withdrawn>>

(* The message is out, or refused.                                         *)
Sent ==
  /\ scan.sending
  /\ scan' = [scan EXCEPT !.sending = FALSE, !.todo = Tail(@)]
  /\ UNCHANGED <<age, listed, tracker, handler, withdrawn>>

(* removeStaleNodes and purgeRemoved: the store first, then the tracker.   *)
(* The handlers of the node's metrics are excluded by removalMu, or by the *)
(* contact they have recorded.                                             *)
Withdraw(n) ==
  /\ n \in listed /\ \A c \in Calls : handler[<<n, c>>].step = "none"
  /\ listed' = listed \ {n} /\ withdrawn' = withdrawn \cup {n}
  /\ UNCHANGED <<age, tracker, handler, scan>>

Purge(n) ==
  /\ n \in withdrawn /\ withdrawn' = withdrawn \ {n}
  /\ tracker' = [tracker EXCEPT ![n] = NoTracker]
  /\ UNCHANGED <<age, listed, handler, scan>>

Handling(n, c) == Evaluate(n, c) \/ Tell(n, c) \/ EvalMetric(n, c)
OfflineLoop == Look \/ Decide \/ Sent

AlertsNext ==
  \/ Age \/ OfflineLoop
  \/ \E n \in Watched : Withdraw(n) \/ Purge(n)
  \/ \E n \in Watched, c \in Calls : Handling(n, c) \/ \E load \in Loads[n] : Accept(n, c, load)

AlertsFairness ==
  /\ WF_alertVars(Age) /\ WF_alertVars(OfflineLoop)
  /\ \A n \in Watched, c \in Calls : WF_alertVars(Handling(n, c))

AlertsSpec == AlertsInit /\ [][AlertsNext]_alertVars /\ AlertsFairness

-----------------------------------------------------------------------------
AlertsTypeOK ==
  /\ age \in [Watched -> 0 .. Silence]
  /\ listed \subseteq Watched
  /\ tracker \in [Watched -> [offline : BOOLEAN, level : 0 .. 2, high : 0 .. Longest,
                              critical : 0 .. Longest, calm : 0 .. Longest]]
  /\ handler \in [Watched \X Calls -> [step : {"none", "evaluate", "tell", "levels"},
                                      load : Low .. Critical]]
  /\ withdrawn \subseteq Watched
  /\ ToSet(scan.todo) \subseteq Watched /\ scan.off \subseteq Watched

(* Alerts follow the nodes whatever snapshot offlineLoop works on: a node  *)
(* that stays silent ends up announced, one that goes on reporting ends up *)
(* online, even when a stale snapshot took it for silent, and the level of *)
(* one whose load stays low or critical ends up at this level.             *)
AlertsSettle ==
  \A n \in Watched :
    LET Busy(c) == handler[<<n, c>>].step # "none"
        Stays(load) == /\ []<>(\E c \in Calls : Busy(c))
                       /\ <>[](/\ n \in listed /\ age[n] < Silence
                               /\ \A c \in Calls : Busy(c) => handler[<<n, c>>].load = load)
    IN  /\ <>[](n \in listed /\ age[n] = Silence) => <>[]tracker[n].offline
        /\ <>[](n \in listed /\ age[n] < Silence) => <>[]~tracker[n].offline
        /\ Stays(Low) => <>[](tracker[n].level = 0)
        /\ Stays(Critical) => <>[](tracker[n].level = 2)
=============================================================================
