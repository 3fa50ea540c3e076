------------------------------ MODULE WebFeed -------------------------------
(***************************************************************************)
(* The feed of the web panel (webHub, central/web_panel.go): a frame is    *)
(* published each second, kept with the last ones, and the channel the     *)
(* viewers wait on is closed and replaced.  A viewer copies the kept       *)
(* frames, then reads the newest one, sends it, which may take long, and   *)
(* waits.  A channel is named by the frame it was made for.                *)
(***************************************************************************)
EXTENDS Integers, Sequences, FiniteSets

CONSTANTS
  Viewers,    \* requests to /api/stream
  Slots,      \* how many are served at a time
  History,    \* frames kept
  MaxFrames   \* frames published

ASSUME FeedAssumption == Slots \in Nat /\ {History, MaxFrames} \subseteq Nat \ {0}

VARIABLES
  frame,    \* webHub.latest, and the name of webHub.changed
  recentFrames,  \* webHub.history
  viewer    \* where each viewer stands

feedVars == <<frame, recentFrames, viewer>>

Absent == [step |-> "absent", past |-> <<>>, read |-> 0, channel |-> 0, shown |-> 0]

(* startWebPanel publishes a first frame before it serves.                 *)
FeedInit ==
  /\ frame = 1 /\ recentFrames = <<1>>
  /\ viewer = [v \in Viewers |-> Absent]

Publish ==
  /\ frame < MaxFrames
  /\ frame' = frame + 1
  /\ recentFrames' = Append(IF Len(recentFrames) >= History THEN Tail(recentFrames) ELSE recentFrames, frame')
  /\ UNCHANGED viewer

Served == {v \in Viewers : viewer[v].step # "absent"}

(* A viewer takes a slot, or is refused, and copies the kept frames.       *)
Join(v) ==
  /\ v \notin Served /\ Cardinality(Served) < Slots
  /\ viewer' = [viewer EXCEPT ![v].step = "history", ![v].past = recentFrames]
  /\ UNCHANGED <<frame, recentFrames>>

ShowHistory(v) ==
  /\ viewer[v].step = "history"
  /\ viewer' = [viewer EXCEPT ![v].step = "read", ![v].past = <<>>,
                              ![v].shown = viewer[v].past[Len(viewer[v].past)]]
  /\ UNCHANGED <<frame, recentFrames>>

(* The newest frame and the channel are read under one lock.               *)
Read(v) ==
  /\ viewer[v].step = "read"
  /\ viewer' = [viewer EXCEPT ![v].step = "send", ![v].read = frame, ![v].channel = frame]
  /\ UNCHANGED <<frame, recentFrames>>

(* A mutant of Show: the channel is looked up once the frame is out. *)
ShowThenLook(v) ==
  /\ viewer[v].step = "send"
  /\ viewer' = [viewer EXCEPT ![v].step = "wait", ![v].shown = viewer[v].read,
                              ![v].channel = frame]
  /\ UNCHANGED <<frame, recentFrames>>

Show(v) ==
  /\ viewer[v].step = "send"
  /\ viewer' = [viewer EXCEPT ![v].step = "wait", ![v].shown = viewer[v].read]
  /\ UNCHANGED <<frame, recentFrames>>

Wake(v) ==
  /\ viewer[v].step = "wait" /\ viewer[v].channel # frame
  /\ viewer' = [viewer EXCEPT ![v].step = "read"]
  /\ UNCHANGED <<frame, recentFrames>>

(* A frame could not be sent, or the viewer is gone: its slot is free.     *)
Leave(v) ==
  /\ v \in Served /\ viewer[v].step # "read"
  /\ viewer' = [viewer EXCEPT ![v] = Absent]
  /\ UNCHANGED <<frame, recentFrames>>

FeedNext ==
  \/ Publish
  \/ \E v \in Viewers : Join(v) \/ ShowHistory(v) \/ Read(v) \/ Show(v) \/ Wake(v) \/ Leave(v)

FeedSpec == FeedInit /\ [][FeedNext]_feedVars

-----------------------------------------------------------------------------
FeedTypeOK ==
  /\ frame \in 1 .. MaxFrames
  /\ recentFrames \in Seq(1 .. MaxFrames) /\ Len(recentFrames) \in 1 .. History
  /\ viewer \in [Viewers -> [step : {"absent", "history", "read", "send", "wait"},
                             past : Seq(1 .. MaxFrames), read : 0 .. MaxFrames,
                             channel : 0 .. MaxFrames, shown : 0 .. MaxFrames]]

(* A viewer that waits on a channel nobody has closed yet has been shown   *)
(* the newest frame: publishing while a frame is being sent wakes it up    *)
(* nevertheless.  And the viewers that are served fit the slots.           *)
NoLostWakeup ==
  /\ \A v \in Viewers :
       viewer[v].step = "wait" /\ viewer[v].channel = frame => viewer[v].shown = frame
  /\ Cardinality(Served) <= Slots
=============================================================================
