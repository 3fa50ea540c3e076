--------------------------- MODULE ServicesProofs ---------------------------
(***************************************************************************)
(* Theorems about the smaller parts of the system, for every value of      *)
(* their constants: any number of viewers and frames, any spacings, any    *)
(* stream of updates, any interval, addresses and releases.                *)
(***************************************************************************)
EXTENDS MCServices, FiniteSetTheorems, SequenceTheorems, WellFoundedInduction, TLAPS

-----------------------------------------------------------------------------
(* The feed of the web panel.                                              *)

Viewing == [step : {"absent", "history", "read", "send", "wait"}, past : Seq(Nat),
            read : Nat, channel : Nat, shown : Nat]

(* The channel a viewer has read belongs to the frame it has read.         *)
Follows(v) ==
  /\ v.step = "history" => v.past # <<>>
  /\ v.step \in {"send", "wait"} => v.channel <= frame
  /\ v.step = "send" => v.read = v.channel
  /\ v.step = "wait" => v.shown = v.channel

FeedInv ==
  /\ frame \in Nat
  /\ recentFrames \in Seq(Nat) /\ recentFrames # <<>>
  /\ viewer \in [Viewers -> Viewing]
  /\ \A v \in Viewers : Follows(viewer[v])
  /\ IsFiniteSet(Served) /\ Cardinality(Served) <= Slots

(* A step of one viewer: what it leaves is a state of a viewer, and the    *)
(* slots are not exceeded.                                                 *)
LEMMA ViewerStep ==
  ASSUME FeedInv, NEW v \in Viewers, NEW w \in Viewing, Follows(w),
         viewer' = [viewer EXCEPT ![v] = w], UNCHANGED <<frame, recentFrames>>,
         v \in Served \/ Cardinality(Served) < Slots
  PROVE  FeedInv'
<1>1. CASE w.step = "absent"
  <2>1. Served' = Served \ {v}
    BY <1>1 DEF Served, FeedInv
  <2>2. /\ IsFiniteSet(Served) /\ Cardinality(Served) \in Nat
        /\ Cardinality(Served) <= Slots /\ Slots \in Nat
    BY FS_CardinalityType, FeedAssumption DEF FeedInv
  <2>3. /\ IsFiniteSet(Served')
        /\ Cardinality(Served') \in {Cardinality(Served), Cardinality(Served) - 1}
    BY <2>1, <2>2, FS_RemoveElement
  <2>4. IsFiniteSet(Served') /\ Cardinality(Served') <= Slots
    BY <2>2, <2>3
  <2> QED BY <2>4 DEF FeedInv, Follows
<1>2. CASE w.step # "absent"
  <2>1. Served' = Served \cup {v}
    BY <1>2 DEF Served, FeedInv
  <2>2. /\ IsFiniteSet(Served) /\ Cardinality(Served) \in Nat
        /\ Cardinality(Served) <= Slots /\ Slots \in Nat
    BY FS_CardinalityType, FeedAssumption DEF FeedInv
  <2>3. /\ IsFiniteSet(Served')
        /\ Cardinality(Served') = IF v \in Served THEN Cardinality(Served)
                                  ELSE Cardinality(Served) + 1
    BY <2>1, <2>2, FS_AddElement
  <2>4. IsFiniteSet(Served') /\ Cardinality(Served') <= Slots
    BY <2>2, <2>3
  <2> QED BY <2>4 DEF FeedInv, Follows
<1> QED BY <1>1, <1>2

LEMMA FeedStart == FeedInit => FeedInv
<1> SUFFICES ASSUME FeedInit PROVE FeedInv
  OBVIOUS
<1>1. Served = {}
  BY DEF FeedInit, Served, Absent
<1>2. IsFiniteSet(Served) /\ Cardinality(Served) <= Slots
  BY <1>1, FS_EmptySet, FeedAssumption
<1>3. recentFrames \in Seq(Nat) /\ recentFrames # <<>>
  BY DEF FeedInit
<1>4. viewer \in [Viewers -> Viewing] /\ \A v \in Viewers : Follows(viewer[v])
  BY DEF FeedInit, Viewing, Follows, Absent
<1> QED BY <1>2, <1>3, <1>4 DEF FeedInit, FeedInv

LEMMA FeedHolds == FeedInv /\ [FeedNext]_feedVars => FeedInv'
<1> SUFFICES ASSUME FeedInv, [FeedNext]_feedVars PROVE FeedInv'
  OBVIOUS
<1>1. CASE Publish
  <2>1. Served' = Served
    BY <1>1 DEF Publish, Served
  <2>2. recentFrames' \in Seq(Nat) /\ recentFrames' # <<>>
    <3> DEFINE last == IF Len(recentFrames) >= History THEN Tail(recentFrames) ELSE recentFrames
    <3>1. last \in Seq(Nat)
      BY HeadTailProperties DEF FeedInv
    <3>2. Append(last, frame') \in Seq(Nat) /\ Append(last, frame') # <<>>
      BY <3>1, <1>1, AppendProperties DEF Publish, FeedInv
    <3> QED BY <3>2, <1>1 DEF Publish
  <2>3. \A v \in Viewers : Follows(viewer[v])'
    BY <1>1 DEF Publish, FeedInv, Follows, Viewing
  <2> QED BY <1>1, <2>1, <2>2, <2>3 DEF FeedInv, Publish
<1>2. ASSUME NEW v \in Viewers, Join(v) PROVE FeedInv'
  <2> DEFINE w == [viewer[v] EXCEPT !.step = "history", !.past = recentFrames]
  <2>1. viewer[v] \in Viewing /\ recentFrames \in Seq(Nat) /\ recentFrames # <<>>
    BY DEF FeedInv
  <2>2. w \in Viewing
    BY <2>1 DEF Viewing
  <2>3. w.step = "history" /\ w.past # <<>>
    BY <2>1 DEF Viewing
  <2>4. Follows(w)
    BY <2>3 DEF Follows
  <2> QED BY <1>2, <2>2, <2>4, ViewerStep DEF Join
<1>3. ASSUME NEW v \in Viewers, ShowHistory(v) PROVE FeedInv'
  <2> DEFINE past == viewer[v].past
             w == [viewer[v] EXCEPT !.step = "read", !.past = <<>>, !.shown = past[Len(past)]]
  <2>1. past \in Seq(Nat) /\ past # <<>>
    BY <1>3 DEF ShowHistory, FeedInv, Viewing, Follows
  <2>2. past[Len(past)] \in Nat
    BY <2>1, LenProperties, ElementOfSeq, EmptySeq
  <2>3. viewer[v] \in Viewing /\ <<>> \in Seq(Nat)
    BY DEF FeedInv
  <2>4. w \in Viewing /\ w.step = "read"
    BY <2>2, <2>3 DEF Viewing
  <2>5. Follows(w)
    BY <2>4 DEF Follows
  <2> QED BY <1>3, <2>4, <2>5, ViewerStep DEF ShowHistory, Served
<1>4. ASSUME NEW v \in Viewers, Read(v) PROVE FeedInv'
  <2> DEFINE w == [viewer[v] EXCEPT !.step = "send", !.read = frame, !.channel = frame]
  <2>1. viewer[v] \in Viewing /\ frame \in Nat
    BY DEF FeedInv
  <2>2. w \in Viewing
    BY <2>1 DEF Viewing
  <2>3. w.step = "send" /\ w.read = frame /\ w.channel = frame
    BY <2>1 DEF Viewing
  <2>4. Follows(w)
    BY <2>1, <2>3 DEF Follows
  <2> QED BY <1>4, <2>2, <2>4, ViewerStep DEF Read, Served
<1>5. ASSUME NEW v \in Viewers, Show(v) PROVE FeedInv'
  <2> DEFINE w == [viewer[v] EXCEPT !.step = "wait", !.shown = viewer[v].read]
  <2>1. w \in Viewing /\ Follows(w)
    BY <1>5 DEF Show, FeedInv, Viewing, Follows
  <2> QED BY <1>5, <2>1, ViewerStep DEF Show, Served
<1>6. ASSUME NEW v \in Viewers, Wake(v) PROVE FeedInv'
  <2> DEFINE w == [viewer[v] EXCEPT !.step = "read"]
  <2>1. w \in Viewing /\ Follows(w)
    BY <1>6 DEF Wake, FeedInv, Viewing, Follows
  <2> QED BY <1>6, <2>1, ViewerStep DEF Wake, Served
<1>7. ASSUME NEW v \in Viewers, Leave(v) PROVE FeedInv'
  <2>1. Absent \in Viewing /\ Follows(Absent)
    BY DEF Absent, Viewing, Follows
  <2> QED BY <1>7, <2>1, ViewerStep DEF Leave
<1>8. CASE UNCHANGED feedVars
  <2>1. Served' = Served
    BY <1>8 DEF feedVars, Served
  <2> QED BY <1>8, <2>1 DEF FeedInv, feedVars, Follows
<1> QED BY <1>1, <1>2, <1>3, <1>4, <1>5, <1>6, <1>7, <1>8 DEF FeedNext

(* A viewer that waits has been shown the newest frame or is woken up, and *)
(* the viewers that are served fit the slots (webHub).                     *)
THEOREM FeedWakes == FeedSpec => []NoLostWakeup
<1>1. FeedInv => NoLostWakeup
  BY DEF FeedInv, NoLostWakeup, Follows
<1> QED BY FeedStart, FeedHolds, <1>1, PTL DEF FeedSpec

-----------------------------------------------------------------------------
(* The writes to a group.                                                  *)

(* A cooldown is over no later than the group is free again; the last      *)
(* request's spacing no later than the next one, or it is running out      *)
(* while the request is.                                                   *)
PacingInv ==
  /\ {nextIn, blockedIn, editSpacing, running, cooling, spaced} \subseteq Nat
  /\ request \in {"none", "write", "edit"}
  /\ cooling <= blockedIn
  /\ request = "none" => spaced <= nextIn
  /\ request # "none" => spaced + running <= Spacing \/ spaced = 0

LEMMA SlowedIsNatural == \A s \in Nat : Slowed(s) \in Nat
BY PacingAssumption DEF Slowed, Longer, Min

LEMMA PacingStart == PacingInit => PacingInv
<1> USE PacingAssumption
<1> QED BY DEF PacingInit, PacingInv

LEMMA PacingHolds == PacingInv /\ [PacingNext]_pacingVars => PacingInv'
<1> USE PacingAssumption
<1> SUFFICES ASSUME PacingInv, [PacingNext]_pacingVars PROVE PacingInv'
  OBVIOUS
<1>1. CASE Elapse
  BY <1>1 DEF PacingInv, Elapse, Less, Spacing
<1>2. CASE Answered
  BY <1>2 DEF PacingInv, Answered, Longer, Spacing
<1>3. ASSUME NEW kind \in {"write", "edit"}, Begin(kind) PROVE PacingInv'
  BY <1>3 DEF PacingInv, Begin, Spacing
<1>4. ASSUME NEW retry \in Retries, Flooded(retry) PROVE PacingInv'
  BY <1>4, SlowedIsNatural DEF PacingInv, Flooded, Cooldown, Longer, Spacing
<1>5. CASE UNCHANGED pacingVars
  BY <1>5 DEF pacingVars, PacingInv, Spacing
<1> QED BY <1>1, <1>2, <1>3, <1>4, <1>5 DEF PacingNext

(* No request is started during a cooldown or before the last request's    *)
(* spacing has passed, whatever the calls and answers were (withGroupWrite *)
(* and withGroupEdit).                                                     *)
THEOREM CooldownIsKept == PacingSpec => CooldownKept
<1>1. PacingInv /\ [PacingNext]_pacingVars =>
        (request = "none" /\ request' # "none" => cooling = 0 /\ spaced = 0)
  BY DEF PacingInv, PacingNext, Elapse, Answered, Begin, Flooded, pacingVars
<1> QED BY PacingStart, PacingHolds, <1>1, PTL DEF PacingSpec, CooldownKept

-----------------------------------------------------------------------------
(* The agent's samples.                                                    *)

(* A collection is due between three and seven quarters of an interval     *)
(* after the last one, and the mailbox that was drained stays empty.       *)
SamplingInv ==
  /\ phase \in Nat /\ offset \in Nat /\ since \in Nat /\ wake \in Nat
  /\ collector \in {"sleep", "offer", "drain", "put", "rest"}
  /\ collector = "put" => ~full
  /\ collector # "sleep" => since = 0
  /\ collector = "sleep" => /\ 3 * Interval <= 4 * (since + wake)
                            /\ 4 * (since + wake) < 7 * Interval

LEMMA NextSlot == \A wall \in Nat : ToSlot(wall) \in 1 .. Interval
BY SamplingAssumption DEF ToSlot

LEMMA SamplingStart == SamplingInit => SamplingInv
<1> USE SamplingAssumption
<1> QED BY DEF SamplingInit, SamplingInv

LEMMA SamplingHolds == SamplingInv /\ [SamplingNext]_samplingVars => SamplingInv'
<1> USE SamplingAssumption
<1> SUFFICES ASSUME SamplingInv, [SamplingNext]_samplingVars PROVE SamplingInv'
  OBVIOUS
<1>1. CASE Collect
  BY <1>1 DEF SamplingInv, Collect
<1>2. CASE Offer \/ Drain \/ Put
  BY <1>2 DEF SamplingInv, Offer, Drain, Put
<1>3. CASE Rest
  <2>1. PICK slot \in 1 .. Interval : slot = ToSlot(phase + offset)
    BY NextSlot DEF SamplingInv
  <2>2. wake' = slot + IF 4 * slot < 3 * Interval THEN Interval ELSE 0
    BY <1>3, <2>1 DEF Rest, SampleDelay, SamplingInv
  <2>3. wake' \in Nat /\ 3 * Interval <= 4 * wake' /\ 4 * wake' < 7 * Interval
    BY <2>2
  <2> QED BY <1>3, <2>3 DEF SamplingInv, Rest
<1>4. CASE Pass
  <2>1. collector = "sleep" /\ wake > 0 /\ since < 2 * Interval
    BY <1>4 DEF Pass, SamplingInv
  <2>2. phase' \in Nat
    BY <1>4 DEF Pass, SamplingInv
  <2>3. since' = since + 1 /\ wake' = wake - 1
    BY <1>4, <2>1 DEF Pass
  <2> QED BY <1>4, <2>1, <2>2, <2>3 DEF SamplingInv, Pass
<1>5. CASE Receive \/ Answer \/ Resume
  BY <1>5 DEF SamplingInv, Receive, Answer, Resume, Phases
<1>6. CASE UNCHANGED samplingVars
  BY <1>6 DEF samplingVars, SamplingInv
<1> QED BY <1>1, <1>2, <1>3, <1>4, <1>5, <1>6 DEF SamplingNext

(* A correction of the clock neither repeats a slot nor skips more than    *)
(* one, and the collector never waits (cadence.DelayAfter, offerLatest).   *)
THEOREM SlotsAreKept == SamplingSpec => SlotsKept
<1>1. SamplingInv /\ [SamplingNext]_samplingVars =>
        (collector = "sleep" /\ collector' = "offer" =>
           3 * Interval <= 4 * since /\ 4 * since < 7 * Interval)
  BY DEF SamplingInv, SamplingNext, Collect, Offer, Drain, Put, Rest, Pass, Receive,
         Answer, Resume, samplingVars
<1> QED BY SamplingStart, SamplingHolds, <1>1, PTL DEF SamplingSpec, SlotsKept

-----------------------------------------------------------------------------
(* The cleanup of topics.                                                  *)

Gone(e) == e \in messages => e \in Permanent \cup disowned

(* The batch holds successive updates, and every update before the batch,  *)
(* the saved offset or what Telegram keeps is dealt with.                  *)
BatchInv ==
  /\ batch \in Seq(Nat)
  /\ \A i \in DOMAIN batch : batch[i] = batch[1] + i - 1 /\ batch[i] <= arrived
  /\ batch # <<>> => \A e \in Nat : e < batch[1] => Gone(e)
  /\ cleaner = "save" => batch # <<>> /\ Gone(batch[1])
  /\ cleaner \in {"start", "poll"} => batch = <<>>

CleanupInv ==
  /\ arrived \in Nat /\ kept \in Nat /\ file \in Nat /\ position \in Nat
  /\ messages \subseteq OwnRenames
  /\ cleaner \in {"start", "poll", "work", "save", "ended"}
  /\ kept <= arrived + 1 /\ file <= arrived + 1
  /\ position <= file
  /\ \A e \in Nat : e < kept \/ e < file => Gone(e)
  /\ BatchInv

(* The rest of a batch.                                                    *)
LEMMA RestOfBatch ==
  ASSUME NEW b \in Seq(Nat), b # <<>>, \A i \in DOMAIN b : b[i] = b[1] + i - 1 /\ b[i] <= arrived
  PROVE  /\ Head(b) = b[1] /\ b[1] \in Nat /\ b[1] <= arrived
         /\ Tail(b) \in Seq(Nat)
         /\ Tail(b) # <<>> => Tail(b)[1] = b[1] + 1
         /\ \A i \in DOMAIN Tail(b) : Tail(b)[i] = Tail(b)[1] + i - 1 /\ Tail(b)[i] <= arrived
<1>1. Len(b) \in Nat \ {0} /\ DOMAIN b = 1 .. Len(b) /\ b[1] \in Nat
  BY EmptySeq, LenProperties, ElementOfSeq
<1>2. Tail(b) \in Seq(Nat) /\ Len(Tail(b)) = Len(b) - 1
  BY HeadTailProperties
<1>3. DOMAIN Tail(b) = 1 .. Len(b) - 1
  BY <1>2, LenProperties
<1>4. \A i \in 1 .. Len(b) - 1 : Tail(b)[i] = b[i + 1]
  BY <1>1
<1>5. \A i \in 1 .. Len(b) - 1 : Tail(b)[i] = b[1] + i /\ Tail(b)[i] <= arrived
  BY <1>1, <1>4
<1>6. Tail(b) # <<>> => Len(b) - 1 >= 1
  BY <1>1, <1>2, EmptySeq
<1> QED BY <1>1, <1>2, <1>3, <1>5, <1>6

LEMMA CleanupParts ==
  Len(Updates) \in Nat /\ DOMAIN Updates = 1 .. Len(Updates) /\ OwnRenames \subseteq Nat
BY CleanupAssumption, LenProperties DEF OwnRenames, Numbers

LEMMA CleanupStart == CleanupInit => CleanupInv
<1>1. <<>> \in Seq(Nat) /\ DOMAIN <<>> = {}
  BY EmptySeq
<1> QED BY <1>1 DEF CleanupInit, CleanupInv, BatchInv, Gone

LEMMA CleanupHolds == CleanupInv /\ [CleanupNext]_cleanupVars => CleanupInv'
<1> SUFFICES ASSUME CleanupInv, [CleanupNext]_cleanupVars PROVE CleanupInv'
  OBVIOUS
<1>0. <<>> \in Seq(Nat) /\ DOMAIN <<>> = {}
  BY EmptySeq
<1>b. batch # <<>> =>
        /\ Head(batch) = batch[1] /\ batch[1] \in Nat /\ batch[1] <= arrived
        /\ Tail(batch) \in Seq(Nat)
        /\ Tail(batch) # <<>> => Tail(batch)[1] = batch[1] + 1
        /\ \A i \in DOMAIN Tail(batch) :
             Tail(batch)[i] = Tail(batch)[1] + i - 1 /\ Tail(batch)[i] <= arrived
  BY RestOfBatch DEF CleanupInv, BatchInv
<1>1. CASE Arrive
  <2>1. \A e \in Nat : e <= arrived /\ Gone(e) => Gone(e)'
    BY <1>1 DEF Arrive, Gone, CleanupInv
  <2>2. BatchInv'
    BY <1>1, <1>b, <2>1 DEF Arrive, CleanupInv, BatchInv
  <2>3. messages' \subseteq OwnRenames
    BY <1>1, CleanupParts DEF Arrive, CleanupInv, OwnRenames, Numbers
  <2> QED BY <1>1, <2>1, <2>2, <2>3 DEF Arrive, CleanupInv
<1>2. CASE Open
  BY <1>2 DEF Open, CleanupInv, BatchInv, Gone
<1>3. CASE Poll
  <2>1. CASE cleaner' = "work"
    <3>1. kept' = (IF position > kept THEN position ELSE kept)
          /\ batch' = [i \in 1 .. arrived - kept' + 1 |-> kept' + i - 1]
      BY <1>3, <2>1 DEF Poll, CleanupInv
    <3>2. kept' \in Nat /\ kept' <= arrived + 1
      BY <3>1 DEF CleanupInv
    <3>3. arrived - kept' + 1 \in Nat
      <4>1. arrived \in Nat
        BY DEF CleanupInv
      <4>2. \A a, k \in Nat : k <= a + 1 => a - k + 1 \in Nat
        OBVIOUS
      <4> QED BY <4>1, <4>2, <3>2
    <3>4. batch' \in Seq(Nat) /\ DOMAIN batch' = 1 .. arrived - kept' + 1
      BY <3>1, <3>2, <3>3 DEF CleanupInv
    <3>5. \A i \in DOMAIN batch' : batch'[i] = batch'[1] + i - 1 /\ batch'[i] <= arrived
      BY <3>1, <3>2, <3>4 DEF CleanupInv
    <3>6. batch' # <<>> => batch'[1] = kept'
      BY <3>1, <3>2, <3>4, EmptySeq DEF CleanupInv
    <3>7. \A e \in Nat : e < kept' => Gone(e)
      BY <3>1, <1>3 DEF CleanupInv
    <3> QED BY <1>3, <2>1, <3>2, <3>4, <3>5, <3>6, <3>7 DEF Poll, CleanupInv, BatchInv, Gone
  <2>2. CASE cleaner' = "ended"
    BY <1>3, <2>2 DEF Poll, CleanupInv, BatchInv, Gone
  <2> QED BY <1>3, <2>1, <2>2 DEF Poll
<1>4. CASE Delete
  <2>1. \A e \in Nat : Gone(e) => Gone(e)'
    BY <1>4 DEF Delete, Gone
  <2>2. Gone(batch[1])'
    BY <1>4, <1>b DEF Delete, Gone, CleanupInv
  <2> QED BY <1>4, <1>b, <2>1, <2>2 DEF Delete, CleanupInv, BatchInv
<1>p. CASE PassBy
  <2>1. \A e \in Nat : Gone(e) => Gone(e)'
    BY <1>p DEF PassBy, Gone
  <2>2. Gone(batch[1])'
    BY <1>p, <1>b DEF PassBy, Gone
  <2> QED BY <1>p, <1>b, <2>1, <2>2 DEF PassBy, CleanupInv, BatchInv
<1>5. CASE Refused
  <2>1. \A e \in Nat : Gone(e) => Gone(e)'
    BY <1>5 DEF Refused, Gone
  <2> QED BY <1>5, <1>0, <2>1 DEF Refused, CleanupInv, BatchInv
<1>6. CASE Worked
  BY <1>6 DEF Worked, CleanupInv, BatchInv, Gone
<1>7. CASE SaveOffset
  <2>1. CASE cleaner' = "work"
    <3>1. /\ file' = batch[1] + 1 /\ position' = batch[1] + 1 /\ batch' = Tail(batch)
          /\ batch # <<>>
      BY <1>7, <2>1, <1>b DEF SaveOffset, CleanupInv, BatchInv
    <3>2. \A e \in Nat : e < batch[1] + 1 => Gone(e)
      BY <1>7, <1>b, <3>1 DEF SaveOffset, CleanupInv, BatchInv
    <3>3. \A e \in Nat : Gone(e) <=> Gone(e)'
      BY <1>7 DEF SaveOffset, Gone
    <3>4. BatchInv'
      BY <2>1, <1>7, <1>b, <3>1, <3>2, <3>3 DEF SaveOffset, BatchInv, CleanupInv
    <3>5. file' \in Nat /\ file' <= arrived + 1 /\ position' = file'
      BY <1>b, <3>1 DEF CleanupInv
    <3>6. \A e \in Nat : e < kept \/ e < file' => Gone(e)'
      BY <3>1, <3>2, <3>3 DEF CleanupInv
    <3> QED BY <1>7, <2>1, <3>4, <3>5, <3>6 DEF SaveOffset, CleanupInv
  <2>2. CASE cleaner' = "ended"
    BY <1>7, <2>2 DEF SaveOffset, CleanupInv, BatchInv, Gone
  <2> QED BY <1>7, <2>1, <2>2 DEF SaveOffset
<1>8. CASE StopCleanup
  BY <1>8, <1>0 DEF StopCleanup, CleanupInv, BatchInv, Gone
<1>9. CASE UNCHANGED cleanupVars
  BY <1>9 DEF cleanupVars, CleanupInv, BatchInv, Gone
<1> QED BY <1>1, <1>2, <1>3, <1>4, <1>p, <1>5, <1>6, <1>7, <1>8, <1>9 DEF CleanupNext

(* No own rename is passed over: what Telegram has forgotten or the saved  *)
(* offset has left behind is deleted or cannot be (CleanTopicRenames).     *)
THEOREM RenamesAreCleaned == CleanupSpec => []NonePassedOver
<1>1. CleanupInv => NonePassedOver
  BY CleanupParts DEF CleanupInv, NonePassedOver, Gone
<1> QED BY CleanupStart, CleanupHolds, <1>1, PTL DEF CleanupSpec

-----------------------------------------------------------------------------
(* The address and the place of a node.                                    *)

(* Whoever works on an address and a place knows that the store has one.   *)
LocationInv ==
  /\ stored = [ip |-> stored.ip, place |-> stored.place]
  /\ stored.ip = observed
  /\ stored.ip \in Addresses \cup {None}
  /\ stored.place \in {stored.ip, Unknown, Override}
  /\ stored.ip = None => stored.place \in {Unknown, Override}
  /\ stored.place = Override => overridden
  /\ DOMAIN report = Handlers
  /\ \A h \in Handlers :
       /\ report[h] = [step |-> report[h].step, ip |-> report[h].ip, peer |-> report[h].peer]
       /\ report[h].ip \in Addresses \cup {None} /\ report[h].peer \in Addresses \cup {None}
       /\ report[h].step \in {"set", "override"} => report[h].ip # None
       /\ report[h].step = "override" => overridden /\ stored.ip # None
  /\ loop = [step |-> loop.step, ip |-> loop.ip]
  /\ loop.step \in {"wait", "override", "resolve"}
  /\ loop.step = "override" => overridden
  /\ loop.step = "resolve" => loop.ip # None
  /\ loop.step # "wait" => loop.ip \in Addresses \cup {None}
  /\ loop.step # "wait" /\ loop.ip # None => stored.ip # None

(* A place for an address the store has, or for the address it has by now, *)
(* leaves the store with an address and a place of it.                     *)
LEMMA PlaceIsSet ==
  ASSUME LocationInv, NEW ip \in Addresses \cup {None}, NEW place,
         ip # None => stored.ip # None,
         place \in {ip, Unknown, Override}, place = Override => overridden,
         ip = None => place = Override,
         SetLocation([ip |-> ip, place |-> place])
  PROVE  /\ stored' = [ip |-> stored.ip, place |-> stored'.place]
         /\ stored'.place \in {stored.ip, Unknown, Override}
         /\ stored.ip = None => stored'.place \in {Unknown, Override}
         /\ stored'.place = Override => overridden
BY LocationAssumption DEF SetLocation, LocationInv

LEMMA LocationStart == LocationInit => LocationInv
<1> USE LocationAssumption
<1> QED BY DEF LocationInit, LocationInv, NoReport, Idle

LEMMA LocationHolds == LocationInv /\ [LocationNext]_locationVars => LocationInv'
<1> USE LocationAssumption
<1> SUFFICES ASSUME LocationInv, [LocationNext]_locationVars PROVE LocationInv'
  OBVIOUS
<1>1. CASE LookAt
  BY <1>1 DEF LookAt, LocationInv
<1>2. CASE ApplyOverride
  <2>1. /\ stored' = [ip |-> stored.ip, place |-> stored'.place]
        /\ stored'.place \in {stored.ip, Unknown, Override}
        /\ stored.ip = None => stored'.place \in {Unknown, Override}
        /\ stored'.place = Override => overridden
    <3>1. /\ loop.ip \in Addresses \cup {None} /\ overridden
          /\ loop.ip # None => stored.ip # None
      BY <1>2 DEF ApplyOverride, LocationInv
    <3>2. SetLocation([ip |-> loop.ip, place |-> Override])
      BY <1>2 DEF ApplyOverride
    <3> QED BY <3>1, <3>2, PlaceIsSet
  <2> QED BY <1>2, <2>1 DEF ApplyOverride, LocationInv, Idle
<1>3. CASE Resolve
  <2>1. /\ stored' = [ip |-> stored.ip, place |-> stored'.place]
        /\ stored'.place \in {stored.ip, Unknown, Override}
        /\ stored.ip = None => stored'.place \in {Unknown, Override}
        /\ stored'.place = Override => overridden
    BY <1>3, PlaceIsSet DEF Resolve, LocationInv
  <2> QED BY <1>3, <2>1 DEF Resolve, LocationInv, Idle
<1>4. CASE ComeDue
  BY <1>4 DEF ComeDue, LocationInv
<1>5. ASSUME NEW h \in Handlers, SetPublicIP(h) PROVE LocationInv'
  BY <1>5 DEF SetPublicIP, LocationInv
<1>6. ASSUME NEW h \in Handlers, SetOverride(h) PROVE LocationInv'
  <2>1. /\ stored' = [ip |-> stored.ip, place |-> stored'.place]
        /\ stored'.place \in {stored.ip, Unknown, Override}
        /\ stored.ip = None => stored'.place \in {Unknown, Override}
        /\ stored'.place = Override => overridden
    <3>1. /\ report[h].ip \in Addresses \cup {None} /\ overridden /\ stored.ip # None
      BY <1>6 DEF SetOverride, LocationInv
    <3>2. SetLocation([ip |-> report[h].ip, place |-> Override])
      BY <1>6 DEF SetOverride
    <3> QED BY <3>1, <3>2, PlaceIsSet
  <2> QED BY <1>6, <2>1 DEF SetOverride, LocationInv
<1>7. ASSUME NEW h \in Handlers, Fill(h) PROVE LocationInv'
  <2> DEFINE peer == report[h].peer
  <2>1. report' = [report EXCEPT ![h] = NoReport] /\ DOMAIN report' = Handlers
    BY <1>7 DEF Fill, LocationInv
  <2>2. /\ stored' = [ip |-> stored'.ip, place |-> stored'.place] /\ stored'.ip = observed'
        /\ stored'.ip \in Addresses \cup {None} /\ (stored.ip # None => stored'.ip # None)
        /\ stored'.place \in {stored'.ip, Unknown, Override}
        /\ stored'.ip = None => stored'.place \in {Unknown, Override}
        /\ stored'.place = Override => overridden
    <3>1. CASE stored.ip = None /\ peer # None
      <4>1. stored' = [stored EXCEPT !.ip = peer] /\ observed' = peer
        BY <1>7, <3>1 DEF Fill
      <4>2. peer \in Addresses \cup {None}
        BY DEF LocationInv
      <4>3. stored' = [ip |-> peer, place |-> stored.place]
        BY <4>1 DEF LocationInv
      <4>4. stored.place \in {Unknown, Override}
        BY <3>1 DEF LocationInv
      <4> QED BY <3>1, <4>1, <4>2, <4>3, <4>4 DEF LocationInv
    <3>2. CASE ~(stored.ip = None /\ peer # None)
      BY <1>7, <3>2 DEF Fill, LocationInv
    <3> QED BY <3>1, <3>2
  <2> QED BY <1>7, <2>1, <2>2 DEF Fill, LocationInv, NoReport
<1>8. ASSUME NEW h \in Handlers, NEW ip \in Addresses \cup {None},
             NEW peer \in Addresses \cup {None}, Observe(h, ip, peer)
      PROVE  LocationInv'
  BY <1>8 DEF Observe, LocationInv
<1>9. CASE UNCHANGED locationVars
  BY <1>9 DEF locationVars, LocationInv
<1> QED BY <1>1, <1>2, <1>3, <1>4, <1>5, <1>6, <1>7, <1>8, <1>9 DEF LocationNext

(* The store keeps the newest address, and the place beside it is of this  *)
(* address (observePublicIP, locationLoop, SetLocation).                   *)
THEOREM PlaceFollowsAddress == LocationSpec => []PlaceOfAddress
<1>1. LocationInv => PlaceOfAddress
  BY DEF LocationInv, PlaceOfAddress
<1> QED BY LocationStart, LocationHolds, <1>1, PTL DEF LocationSpec

-----------------------------------------------------------------------------
(* A release.                                                              *)

Fetched(f) == staged[f] = Contents[manifest][f]
Renamed(f) == destination.files[f] = Contents[manifest][f]

(* What is staged and what is renamed is of the manifest's release, file   *)
(* by file.                                                                *)
ReleaseInv ==
  /\ current \in Releases
  /\ fetch \in [step : {"manifest", "file", "rename", "done", "failed"}, file : Nat \ {0}]
  /\ fetch.file <= Len(Parts) + 1
  /\ fetch.step = "manifest" => fetch.file = 1
  /\ fetch.step = "file" => fetch.file <= Len(Parts)
  /\ DOMAIN staged = Files
  /\ destination = [files |-> destination.files, manifest |-> destination.manifest]
  /\ DOMAIN destination.files = Files
  /\ fetch.step \in {"file", "rename"} => manifest \in Releases
  /\ fetch.step = "file" => \A i \in DOMAIN Parts : i < fetch.file => Fetched(Parts[i])
  /\ fetch.step = "rename" =>
       /\ \A i \in DOMAIN Parts : Fetched(Parts[i])
       /\ \A i \in DOMAIN Parts : i < fetch.file => Renamed(Parts[i])
  /\ OneRelease

LEMMA ReleaseParts ==
  /\ Len(Parts) = 2 /\ DOMAIN Parts = {1, 2} /\ Parts[1] # Parts[2]
  /\ Files = {Parts[1], Parts[2]}
BY DEF Parts, Files

LEMMA ReleaseStart == ReleaseInit => ReleaseInv
<1> SUFFICES ASSUME ReleaseInit PROVE ReleaseInv
  OBVIOUS
<1>1. DOMAIN staged = Files
  BY DEF ReleaseInit, NothingStaged
<1>2. PICK r \in Releases \cup {Missing} :
        destination = [files |-> [f \in Files |-> IF r = Missing THEN Missing ELSE Contents[r][f]],
                       manifest |-> Missing]
  BY DEF ReleaseInit
<1> QED BY ReleaseParts, <1>1, <1>2 DEF ReleaseInit, ReleaseInv, OneRelease

LEMMA ReleaseHolds == ReleaseInv /\ [ReleaseNext]_releaseVars => ReleaseInv'
<1> SUFFICES ASSUME ReleaseInv, [ReleaseNext]_releaseVars PROVE ReleaseInv'
  OBVIOUS
<1>1. ASSUME NEW r \in Releases, Switch(r) PROVE ReleaseInv'
  BY <1>1 DEF Switch, ReleaseInv, OneRelease, Fetched, Renamed
<1>2. CASE Fail /\ UNCHANGED <<current, manifest, destination>>
  BY <1>2, ReleaseParts DEF Fail, NothingStaged, ReleaseInv, OneRelease
<1>3. CASE GetManifest
  <2>1. CASE Fail
    BY <1>2, <1>3, <2>1 DEF GetManifest, Fail
  <2>2. CASE ~Fail
    <3>1. /\ manifest' = current /\ UNCHANGED <<staged, current, destination>>
          /\ fetch' = [step |-> "file", file |-> 1]
      BY <1>3, <2>2 DEF GetManifest, ReleaseInv
    <3> QED BY <3>1, ReleaseParts DEF ReleaseInv, OneRelease
  <2> QED BY <2>1, <2>2
<1>4. CASE GetFile
  <2>1. CASE Fail
    BY <1>2, <1>4, <2>1 DEF GetFile
  <2>2. CASE ~Fail
    <3> DEFINE f == Parts[fetch.file]
    <3>1. /\ f \in Files /\ staged' = [staged EXCEPT ![f] = Contents[manifest][f]]
          /\ fetch' = IF fetch.file = Len(Parts) THEN [step |-> "rename", file |-> 1]
                      ELSE [fetch EXCEPT !.file = @ + 1]
          /\ fetch.step = "file" /\ fetch.file \in {1, 2}
      BY <1>4, <2>2, ReleaseParts DEF GetFile, Verified, ReleaseInv
    <3>2. \A i \in DOMAIN Parts : i <= fetch.file => Fetched(Parts[i])'
      BY <1>4, <3>1, ReleaseParts DEF GetFile, ReleaseInv, Fetched
    <3> QED BY <1>4, <3>1, <3>2, ReleaseParts DEF GetFile, ReleaseInv, OneRelease, Renamed, Fetched
  <2> QED BY <2>1, <2>2
<1>5. CASE Rename
  <2>1. CASE Fail /\ UNCHANGED destination
    BY <1>2, <1>5, <2>1 DEF Rename
  <2>2. ASSUME fetch.file <= Len(Parts), UNCHANGED staged,
               destination' = [destination EXCEPT !.files[Parts[fetch.file]] = staged[Parts[fetch.file]]],
               fetch' = [fetch EXCEPT !.file = @ + 1]
        PROVE  ReleaseInv'
    <3>1. fetch.step = "rename" /\ fetch.file \in {1, 2} /\ Parts[fetch.file] \in Files
      BY <1>5, <2>2, ReleaseParts DEF Rename, ReleaseInv
    <3>2. /\ destination'.files = [destination.files EXCEPT ![Parts[fetch.file]] = staged[Parts[fetch.file]]]
          /\ destination' = [files |-> destination'.files, manifest |-> destination.manifest]
      BY <2>2 DEF ReleaseInv
    <3>3. \A i \in DOMAIN Parts : i <= fetch.file => Renamed(Parts[i])'
      BY <1>5, <3>1, <3>2, ReleaseParts DEF Rename, ReleaseInv, Fetched, Renamed
    <3> QED BY <1>5, <2>2, <3>1, <3>2, <3>3, ReleaseParts DEF Rename, ReleaseInv, OneRelease, Fetched
  <2>3. ASSUME fetch.file = Len(Parts) + 1, fetch' = [step |-> "done", file |-> 1],
               staged' = NothingStaged,
               destination' = [destination EXCEPT !.manifest = manifest]
        PROVE  ReleaseInv'
    <3>1. fetch.step = "rename" /\ manifest \in Releases /\ \A g \in Files : Renamed(g)
      BY <1>5, <2>3, ReleaseParts DEF Rename, ReleaseInv
    <3>2. destination' = [files |-> destination.files, manifest |-> manifest]
      BY <2>3 DEF ReleaseInv
    <3> QED BY <1>5, <2>3, <3>1, <3>2, ReleaseParts
           DEF Rename, ReleaseInv, OneRelease, Renamed, NothingStaged
  <2> QED BY <1>5, <2>1, <2>2, <2>3 DEF Rename
<1>6. CASE StartOver
  BY <1>6, ReleaseParts DEF StartOver, NothingStaged, ReleaseInv, OneRelease
<1>7. CASE UNCHANGED releaseVars
  BY <1>7 DEF releaseVars, ReleaseInv, OneRelease, Fetched, Renamed
<1> QED BY <1>1, <1>3, <1>4, <1>5, <1>6, <1>7 DEF ReleaseNext

(* A fetch that succeeds leaves one release, whatever Central publishes    *)
(* meanwhile (fetchReleaseBundle, serveRelease).                           *)
THEOREM ReleaseIsWhole == ReleaseSpec => []OneRelease
<1>1. ReleaseInv => OneRelease
  BY DEF ReleaseInv
<1> QED BY ReleaseStart, ReleaseHolds, <1>1, PTL DEF ReleaseSpec
-----------------------------------------------------------------------------
(* The types of the parts.                                                 *)
LEMMA LeastOf ==
  ASSUME NEW T, T \subseteq Nat, T # {}
  PROVE  \E x \in T : \A y \in T : x <= y
<1>1. PICK x \in T : \A y \in T : ~ (<<y, x>> \in OpToRel(<, Nat))
  <2>1. \E x \in T : \A y \in T : ~ (<<y, x>> \in OpToRel(<, Nat))
    BY NatLessThanWellFounded, WFMin
  <2> QED BY <2>1
<1>2. \A y \in T : ~ (y < x)
  BY <1>1 DEF OpToRel
<1> QED BY <1>2

LEMMA LargestOf ==
  ASSUME NEW S, S \subseteq Nat, S # {}, IsFiniteSet(S)
  PROVE  Max(S) \in S /\ \A y \in S : y <= Max(S)
<1> DEFINE Bad(T) == T # {} /\ ~ \E x \in T : \A y \in T : y <= x
           Sizes == {Cardinality(T) : T \in {U \in SUBSET S : Bad(U)}}
<1>1. Sizes = {}
  <2> SUFFICES ASSUME Sizes # {} PROVE FALSE
    OBVIOUS
  <2>1. Sizes \subseteq Nat
    <3>1. \A T \in SUBSET S : Cardinality(T) \in Nat
      BY FS_Subset, FS_CardinalityType
    <3> QED BY <3>1
  <2>2. PICK n \in Sizes : \A k \in Sizes : n <= k
    <3> HIDE DEF Sizes
    <3> QED BY <2>1, LeastOf
  <2>3. PICK T \in SUBSET S : Bad(T) /\ n = Cardinality(T)
    BY <2>2
  <2>4. PICK x \in T : TRUE
    BY <2>3
  <2>5. /\ Cardinality(T \ {x}) = Cardinality(T) - 1 /\ Cardinality(T) \in Nat
        /\ T \ {x} \in SUBSET S
    BY FS_Subset, FS_CardinalityType, FS_RemoveElement
  <2>6. ~ Bad(T \ {x})
    <3> SUFFICES ASSUME Bad(T \ {x}) PROVE FALSE
      OBVIOUS
    <3>1. Cardinality(T \ {x}) \in Sizes
      BY <2>5
    <3> HIDE DEF Sizes
    <3>2. n <= Cardinality(T \ {x})
      BY <2>2, <3>1
    <3> QED BY <2>3, <2>5, <3>2
  <2>7. \A y \in T : y \in Nat
    OBVIOUS
  <2>8. CASE T \ {x} = {}
    <3>1. \A y \in T : y = x /\ y <= x
      BY <2>7, <2>8
    <3> QED BY <2>3, <3>1
  <2>9. CASE T \ {x} # {}
    <3>1. PICK z \in T \ {x} : \A y \in T \ {x} : y <= z
      BY <2>6, <2>9
    <3>2. x \in Nat /\ z \in Nat /\ z \in T
      BY <2>7, <3>1
    <3>3. CASE x <= z
      <4>1. \A y \in T : y <= z
        BY <3>1, <3>3
      <4> QED BY <2>3, <3>2, <4>1
    <3>4. CASE z <= x
      <4>1. \A y \in T : y <= x
        BY <2>7, <3>1, <3>2, <3>4
      <4> QED BY <2>3, <4>1
    <3> QED BY <3>2, <3>3, <3>4
  <2> QED BY <2>8, <2>9
<1>2. \E x \in S : \A y \in S : y <= x
  <2>1. ~ Bad(S)
    BY <1>1
  <2> QED BY <2>1
<1>3. PICK x \in S : \A y \in S : y <= x
  BY <1>2
<1>4. \A z \in S : (\A y \in S : z >= y) <=> z = x
  BY <1>3
<1> QED BY <1>3, <1>4 DEF Max

(* The waits and spacings of a group are bounded.                          *)
LEMMA PacingTypes ==
  /\ PacingInit => PacingTypeOK
  /\ PacingInv /\ PacingTypeOK /\ [PacingNext]_pacingVars => PacingTypeOK'
<1> DEFINE R == Retries \cup {0}
           B == {LongestWait, WriteSpacing, SlowestEdit, EditSpacing}
<1>1. /\ {WriteSpacing, EditSpacing, SlowestEdit, Margin, LongestCall} \subseteq Nat
      /\ Retries \subseteq Nat
  BY PacingAssumption
<1>2. Max(R) \in Nat /\ \A retry \in Retries : retry <= Max(R)
  <2>1. R \subseteq Nat /\ R # {} /\ IsFiniteSet(R)
    BY <1>1, RetriesAssumption, FS_AddElement
  <2> HIDE DEF R
  <2>2. Max(R) \in R /\ \A y \in R : y <= Max(R)
    BY <2>1, LargestOf
  <2> QED BY <2>1, <2>2 DEF R
<1> HIDE DEF R
<1>3. LongestWait \in Nat /\ \A retry \in Retries : retry + Margin <= LongestWait
  BY <1>1, <1>2 DEF LongestWait, R
<1>4. Max(B) \in Nat /\ \A y \in B : y <= Max(B)
  <2>1. B \subseteq Nat /\ B # {} /\ IsFiniteSet(B)
    <3>1. IsFiniteSet({LongestWait})
      BY FS_Singleton
    <3>2. IsFiniteSet({LongestWait} \cup {WriteSpacing})
      BY <3>1, FS_AddElement
    <3>3. IsFiniteSet(({LongestWait} \cup {WriteSpacing}) \cup {SlowestEdit})
      BY <3>2, FS_AddElement
    <3>4. IsFiniteSet((({LongestWait} \cup {WriteSpacing}) \cup {SlowestEdit}) \cup {EditSpacing})
      BY <3>3, FS_AddElement
    <3>5. B = (({LongestWait} \cup {WriteSpacing}) \cup {SlowestEdit}) \cup {EditSpacing}
      OBVIOUS
    <3>6. IsFiniteSet(B)
      BY <3>4, <3>5
    <3>7. B \subseteq Nat /\ B # {}
      BY <1>1, <1>3
    <3> QED BY <3>6, <3>7
  <2> HIDE DEF B
  <2> QED BY <2>1, LargestOf
<1> DEFINE b == Max(B)
           w == LongestWait
<1>5. /\ w <= b /\ WriteSpacing <= b /\ SlowestEdit <= b /\ EditSpacing <= b
      /\ b \in Nat /\ w \in Nat /\ \A retry \in Retries : retry + Margin <= w
  BY <1>3, <1>4
<1>6. PacingTypeOK <=> /\ nextIn \in 0 .. b /\ blockedIn \in 0 .. w /\ cooling \in 0 .. w
                       /\ editSpacing \in {0, EditSpacing} \cup (0 .. SlowestEdit)
                       /\ request \in {"none", "write", "edit"} /\ running \in 0 .. LongestCall
  BY DEF PacingTypeOK
<1>7. PacingTypeOK' <=> /\ nextIn' \in 0 .. b /\ blockedIn' \in 0 .. w /\ cooling' \in 0 .. w
                        /\ editSpacing' \in {0, EditSpacing} \cup (0 .. SlowestEdit)
                        /\ request' \in {"none", "write", "edit"} /\ running' \in 0 .. LongestCall
  BY DEF PacingTypeOK, LongestWait
<1> HIDE DEF b, w, B
<1>8. PacingInit => PacingTypeOK
  BY <1>1, <1>5, <1>6 DEF PacingInit
<1>9. PacingInv /\ PacingTypeOK /\ [PacingNext]_pacingVars => PacingTypeOK'
  <2> SUFFICES ASSUME PacingInv, PacingTypeOK, [PacingNext]_pacingVars PROVE PacingTypeOK'
    OBVIOUS
  <2>1. /\ nextIn \in 0 .. b /\ blockedIn \in 0 .. w /\ cooling \in 0 .. w
        /\ editSpacing \in {0, EditSpacing} \cup (0 .. SlowestEdit)
        /\ request \in {"none", "write", "edit"} /\ running \in 0 .. LongestCall
    BY <1>6
  <2>2. Spacing \in Nat /\ Spacing <= b
    BY <1>1, <1>5, <2>1 DEF Spacing
  <2>3. CASE Elapse
    BY <1>1, <1>5, <1>7, <2>1, <2>3 DEF Elapse, Less
  <2>4. CASE Answered
    BY <1>1, <1>5, <1>7, <2>1, <2>2, <2>4 DEF Answered, Longer
  <2>5. ASSUME NEW kind \in {"write", "edit"}, Begin(kind) PROVE PacingTypeOK'
    BY <1>1, <1>5, <1>7, <2>1, <2>5 DEF Begin
  <2>6. ASSUME NEW retry \in Retries, Flooded(retry) PROVE PacingTypeOK'
    <3>1. retry + Margin \in Nat /\ retry + Margin <= w
      BY <1>1, <1>5
    <3>2. Slowed(editSpacing) \in 0 .. SlowestEdit
      <4>1. editSpacing \in Nat
        BY <1>1, <2>1
      <4> QED BY <1>1, <4>1 DEF Slowed, Longer, Min
    <3> QED BY <1>1, <1>5, <1>7, <2>1, <2>2, <2>6, <3>1, <3>2 DEF Flooded, Cooldown, Longer
  <2>7. CASE UNCHANGED pacingVars
    BY <1>7, <2>1, <2>7 DEF pacingVars
  <2> QED BY <2>3, <2>4, <2>5, <2>6, <2>7 DEF PacingNext
<1> QED BY <1>8, <1>9

(* The phases stay within an interval, the times within two.               *)
LEMMA SamplingTypes ==
  /\ SamplingInit => SamplingTypeOK
  /\ SamplingInv /\ SamplingTypeOK /\ [SamplingNext]_samplingVars => SamplingTypeOK'
<1> USE SamplingAssumption
<1>1. SamplingInit => SamplingTypeOK
  <2>1. 0 \in Phases /\ 0 \in 0 .. 2 * Interval
    BY DEF Phases
  <2> QED BY <2>1 DEF SamplingInit, SamplingTypeOK
<1>2. ASSUME SamplingInv, SamplingTypeOK, [SamplingNext]_samplingVars PROVE SamplingTypeOK'
  <2>1. CASE Collect \/ Offer \/ Drain \/ Put
    BY <1>2, <2>1 DEF SamplingTypeOK, Collect, Offer, Drain, Put
  <2>2. CASE Rest
    <3>1. SamplingInv'
      BY <1>2, SamplingHolds
    <3>2. wake' \in 0 .. 2 * Interval
      BY <2>2, <3>1 DEF SamplingInv, Rest
    <3> QED BY <1>2, <2>2, <3>2 DEF SamplingTypeOK, Rest
  <2>3. CASE Pass
    <3>1. phase' \in Phases
      BY <1>2, <2>3 DEF SamplingTypeOK, Pass, Phases
    <3>2. since' \in 0 .. 2 * Interval /\ wake' \in 0 .. 2 * Interval
      BY <1>2, <2>3 DEF SamplingTypeOK, SamplingInv, Pass
    <3> QED BY <1>2, <2>3, <3>1, <3>2 DEF SamplingTypeOK, Pass
  <2>4. CASE Receive \/ Answer \/ Resume
    BY <1>2, <2>4 DEF SamplingTypeOK, Receive, Answer, Resume
  <2>5. CASE UNCHANGED samplingVars
    BY <1>2, <2>5 DEF SamplingTypeOK, samplingVars
  <2> QED BY <1>2, <2>1, <2>2, <2>3, <2>4, <2>5 DEF SamplingNext
<1> QED BY <1>1, <1>2

(* No more frames are kept than History, and all are frames published.     *)
Views == [step : {"absent", "history", "read", "send", "wait"}, past : Seq(1 .. MaxFrames),
          read : 0 .. MaxFrames, channel : 0 .. MaxFrames, shown : 0 .. MaxFrames]

LEMMA FeedTypes ==
  /\ FeedInit => FeedTypeOK
  /\ FeedInv /\ FeedTypeOK /\ [FeedNext]_feedVars => FeedTypeOK'
<1>0. History \in Nat \ {0} /\ MaxFrames \in Nat \ {0}
  BY FeedAssumption
<1>a. FeedTypeOK <=> /\ frame \in 1 .. MaxFrames
                     /\ recentFrames \in Seq(1 .. MaxFrames) /\ Len(recentFrames) \in 1 .. History
                     /\ viewer \in [Viewers -> Views]
  BY DEF FeedTypeOK, Views
<1>b. FeedTypeOK' <=> /\ frame' \in 1 .. MaxFrames
                      /\ recentFrames' \in Seq(1 .. MaxFrames) /\ Len(recentFrames') \in 1 .. History
                      /\ viewer' \in [Viewers -> Views]
  BY DEF FeedTypeOK, Views
<1>1. FeedInit => FeedTypeOK
  <2> SUFFICES ASSUME FeedInit PROVE FeedTypeOK
    OBVIOUS
  <2>1. 1 \in 1 .. MaxFrames /\ 1 \in 1 .. History /\ 0 \in 0 .. MaxFrames
    BY <1>0
  <2>2. recentFrames \in Seq(1 .. MaxFrames) /\ Len(recentFrames) = 1
    BY <2>1 DEF FeedInit
  <2>3. Absent \in Views
    <3>1. <<>> \in Seq(1 .. MaxFrames)
      OBVIOUS
    <3> QED BY <2>1, <3>1 DEF Absent, Views
  <2> QED BY <1>a, <2>1, <2>2, <2>3 DEF FeedInit
<1>2. ASSUME FeedInv, FeedTypeOK, [FeedNext]_feedVars PROVE FeedTypeOK'
  <2>1. /\ frame \in 1 .. MaxFrames
        /\ recentFrames \in Seq(1 .. MaxFrames) /\ Len(recentFrames) \in 1 .. History
        /\ viewer \in [Viewers -> Views]
    BY <1>2, <1>a
  <2>2. ASSUME NEW v \in Viewers, NEW w \in Views, viewer' = [viewer EXCEPT ![v] = w],
               UNCHANGED <<frame, recentFrames>>
        PROVE  FeedTypeOK'
    <3>1. viewer' \in [Viewers -> Views]
      BY <2>1, <2>2
    <3> QED BY <1>b, <2>1, <2>2, <3>1
  <2>3. CASE Publish
    <3> DEFINE last == IF Len(recentFrames) >= History THEN Tail(recentFrames) ELSE recentFrames
    <3>1. frame' \in 1 .. MaxFrames /\ viewer' = viewer /\ recentFrames' = Append(last, frame')
      BY <1>0, <2>1, <2>3 DEF Publish
    <3>2. last \in Seq(1 .. MaxFrames) /\ Len(last) + 1 \in 1 .. History
      <4>1. recentFrames # <<>>
        BY <2>1
      <4>2. Tail(recentFrames) \in Seq(1 .. MaxFrames) /\ Len(Tail(recentFrames)) = Len(recentFrames) - 1
        BY <2>1, <4>1
      <4>3. Len(recentFrames) \in Nat /\ History \in Nat /\ Len(recentFrames) <= History
        BY <1>0, <2>1
      <4>4. CASE Len(recentFrames) >= History
        <5>1. last = Tail(recentFrames)
          BY <4>4
        <5> HIDE DEF last
        <5> QED BY <1>0, <4>2, <4>3, <4>4, <5>1
      <4>5. CASE ~ (Len(recentFrames) >= History)
        <5>1. last = recentFrames
          BY <4>5
        <5> HIDE DEF last
        <5> QED BY <1>0, <2>1, <4>3, <4>5, <5>1
      <4> QED BY <4>4, <4>5
    <3> HIDE DEF last
    <3>3. Append(last, frame') \in Seq(1 .. MaxFrames) /\ Len(Append(last, frame')) = Len(last) + 1
      BY <3>1, <3>2
    <3> QED BY <1>b, <2>1, <3>1, <3>2, <3>3
  <2>4. ASSUME NEW v \in Viewers, Join(v) PROVE FeedTypeOK'
    <3> DEFINE w == [viewer[v] EXCEPT !.step = "history", !.past = recentFrames]
    <3>1. viewer[v] \in Views
      BY <2>1
    <3>2. w \in Views
      BY <2>1, <3>1 DEF Views
    <3> QED BY <2>2, <2>4, <3>2 DEF Join
  <2>5. ASSUME NEW v \in Viewers, ShowHistory(v) PROVE FeedTypeOK'
    <3> DEFINE past == viewer[v].past
               x == past[Len(past)]
               w == [viewer[v] EXCEPT !.step = "read", !.past = <<>>, !.shown = x]
    <3>1. viewer[v] \in Views /\ past # <<>>
      BY <1>2, <2>1, <2>5 DEF ShowHistory, FeedInv, Follows
    <3>2. past \in Seq(1 .. MaxFrames)
      BY <3>1 DEF Views
    <3>3. x \in 0 .. MaxFrames
      <4>1. x = past[Len(past)]
        OBVIOUS
      <4> HIDE DEF x, past
      <4>2. Len(past) \in 1 .. Len(past)
        BY <3>1, <3>2
      <4>3. past[Len(past)] \in 1 .. MaxFrames
        BY <3>2, <4>2, ElementOfSeq
      <4>4. x \in 1 .. MaxFrames
        BY <4>1, <4>3
      <4> QED BY <1>0, <4>4
    <3>4. viewer' = [viewer EXCEPT ![v] = w]
      BY <2>5 DEF ShowHistory
    <3>5. UNCHANGED <<frame, recentFrames>>
      BY <2>5 DEF ShowHistory
    <3> HIDE DEF x
    <3>6. w \in Views
      <4>1. <<>> \in Seq(1 .. MaxFrames)
        OBVIOUS
      <4> QED BY <3>1, <3>3, <4>1 DEF Views
    <3> QED BY <2>2, <3>4, <3>5, <3>6
  <2>6. ASSUME NEW v \in Viewers, Read(v) PROVE FeedTypeOK'
    <3> DEFINE w == [viewer[v] EXCEPT !.step = "send", !.read = frame, !.channel = frame]
    <3>1. viewer[v] \in Views /\ frame \in 0 .. MaxFrames
      BY <1>0, <2>1
    <3>2. w \in Views
      BY <3>1 DEF Views
    <3>3. viewer' = [viewer EXCEPT ![v] = w]
      BY <2>6 DEF Read
    <3>4. UNCHANGED <<frame, recentFrames>>
      BY <2>6 DEF Read
    <3> HIDE DEF w
    <3> QED BY <2>2, <3>2, <3>3, <3>4
  <2>7. ASSUME NEW v \in Viewers, Show(v) PROVE FeedTypeOK'
    <3> DEFINE w == [viewer[v] EXCEPT !.step = "wait", !.shown = viewer[v].read]
    <3>1. viewer[v] \in Views
      BY <2>1
    <3>2. w \in Views
      BY <3>1 DEF Views
    <3> QED BY <2>2, <2>7, <3>2 DEF Show
  <2>8. ASSUME NEW v \in Viewers, Wake(v) PROVE FeedTypeOK'
    <3> DEFINE w == [viewer[v] EXCEPT !.step = "read"]
    <3>1. viewer[v] \in Views
      BY <2>1
    <3>2. w \in Views
      BY <3>1 DEF Views
    <3> QED BY <2>2, <2>8, <3>2 DEF Wake
  <2>9. ASSUME NEW v \in Viewers, Leave(v) PROVE FeedTypeOK'
    <3>1. Absent \in Views
      <4>1. <<>> \in Seq(1 .. MaxFrames) /\ 0 \in 0 .. MaxFrames
        BY <1>0
      <4> QED BY <4>1 DEF Absent, Views
    <3> QED BY <2>2, <2>9, <3>1 DEF Leave
  <2>10. CASE UNCHANGED feedVars
    BY <1>b, <2>1, <2>10 DEF feedVars
  <2> QED BY <1>2, <2>3, <2>4, <2>5, <2>6, <2>7, <2>8, <2>9, <2>10 DEF FeedNext
<1> QED BY <1>1, <1>2

(* A batch numbers the updates from the first kept to the last arrived.    *)
LEMMA BatchNumbers ==
  ASSUME NEW n \in Nat, NEW last \in 0 .. n, NEW first \in 1 .. n + 1, first <= last + 1
  PROVE  [i \in 1 .. last - first + 1 |-> first + i - 1] \in Seq(1 .. n)
<1> DEFINE m == last - first + 1
<1>1. m \in Nat
  OBVIOUS
<1>2. ASSUME NEW i \in 1 .. m PROVE first + i - 1 \in 1 .. n
  OBVIOUS
<1> HIDE DEF m
<1> QED BY <1>1, <1>2

(* Offsets lie between zero and one after the last update.                 *)
LEMMA CleanupTypes ==
  /\ CleanupInit => CleanupTypeOK
  /\ CleanupInv /\ CleanupTypeOK /\ [CleanupNext]_cleanupVars => CleanupTypeOK'
<1>0. Len(Updates) \in Nat /\ Numbers = 1 .. Len(Updates) /\ MaxStops \in Nat
  BY CleanupParts, CleanupAssumption DEF Numbers
<1>1. CleanupInit => CleanupTypeOK
  <2>1. <<>> \in Seq(Numbers)
    OBVIOUS
  <2> QED BY <1>0, <2>1 DEF CleanupInit, CleanupTypeOK
<1>2. ASSUME CleanupInv, CleanupTypeOK, [CleanupNext]_cleanupVars PROVE CleanupTypeOK'
  <2>0. /\ arrived \in 0 .. Len(Updates) /\ kept \in 1 .. Len(Updates) + 1
        /\ messages \subseteq OwnRenames
        /\ file \in 0 .. Len(Updates) + 1 /\ position \in 0 .. Len(Updates) + 1
        /\ cleaner \in {"start", "poll", "work", "save", "ended"}
        /\ batch \in Seq(Numbers) /\ stops \in 0 .. MaxStops /\ kept <= arrived + 1
        /\ disowned \subseteq OwnRenames
    BY <1>2 DEF CleanupTypeOK, CleanupInv
  <2>b. /\ <<>> \in Seq(Numbers)
        /\ batch # <<>> => Head(batch) \in Numbers /\ Tail(batch) \in Seq(Numbers)
    BY <2>0
  <2>1. CASE Arrive
    <3>1. arrived' \in 0 .. Len(Updates) /\ arrived + 1 \in Numbers
      BY <1>0, <2>0, <2>1 DEF Arrive
    <3>2. messages' \subseteq OwnRenames
      BY <2>0, <2>1, <3>1 DEF Arrive, OwnRenames
    <3> QED BY <2>0, <2>1, <3>1, <3>2 DEF Arrive, CleanupTypeOK
  <2>2. CASE Open
    BY <2>0, <2>2 DEF Open, CleanupTypeOK
  <2>3. CASE Poll
    <3>1. CASE cleaner' = "work"
      <4>1. kept' = (IF position > kept THEN position ELSE kept)
            /\ batch' = [i \in 1 .. arrived - kept' + 1 |-> kept' + i - 1]
        BY <2>3, <3>1 DEF Poll
      <4>2. kept' \in 1 .. Len(Updates) + 1
        BY <1>0, <2>0, <4>1
      <4>3. kept' <= arrived + 1
        BY <1>0, <1>2, <2>0, <4>1 DEF CleanupInv
      <4>4. batch' \in Seq(Numbers)
        <5>1. arrived \in 0 .. Len(Updates)
          BY <2>0
        <5> QED BY <1>0, <4>1, <4>2, <4>3, <5>1, BatchNumbers
      <4> QED BY <2>0, <2>3, <3>1, <4>2, <4>4 DEF Poll, CleanupTypeOK
    <3>2. CASE cleaner' = "ended"
      BY <2>0, <2>3, <3>2 DEF Poll, CleanupTypeOK
    <3> QED BY <2>3, <3>1, <3>2 DEF Poll
  <2>4. CASE Delete
    BY <2>0, <2>4 DEF Delete, CleanupTypeOK
  <2>p. CASE PassBy
    BY <2>0, <2>p DEF PassBy, CleanupTypeOK
  <2>5. CASE Refused
    BY <2>0, <2>b, <2>5 DEF Refused, CleanupTypeOK
  <2>6. CASE Worked
    BY <2>0, <2>6 DEF Worked, CleanupTypeOK
  <2>7. CASE SaveOffset
    <3>1. batch # <<>>
      BY <1>2, <2>7 DEF SaveOffset, CleanupInv, BatchInv
    <3>2. Head(batch) + 1 \in 0 .. Len(Updates) + 1
      BY <1>0, <2>b, <3>1
    <3> QED BY <2>0, <2>b, <2>7, <3>1, <3>2 DEF SaveOffset, CleanupTypeOK
  <2>8. CASE StopCleanup
    BY <1>0, <2>0, <2>b, <2>8 DEF StopCleanup, CleanupTypeOK
  <2>9. CASE UNCHANGED cleanupVars
    BY <2>0, <2>9 DEF cleanupVars, CleanupTypeOK
  <2> QED BY <1>2, <2>1, <2>2, <2>3, <2>4, <2>p, <2>5, <2>6, <2>7, <2>8, <2>9 DEF CleanupNext
<1> QED BY <1>1, <1>2

(* Addresses are addresses, places are places.                             *)
LEMMA LocationTypes ==
  /\ LocationInit => LocationTypeOK
  /\ LocationInv /\ LocationTypeOK /\ [LocationNext]_locationVars => LocationTypeOK'
<1> DEFINE A == Addresses \cup {None}
           Reports == [step : {"none", "set", "override", "fill"}, ip : A, peer : A]
           Loops == [step : {"wait", "override", "resolve"}, ip : A]
<1>a. LocationTypeOK <=>
        /\ overridden \in BOOLEAN /\ due \in BOOLEAN
        /\ stored \in [ip : A, place : Addresses \cup {Unknown, Override}]
        /\ report \in [Handlers -> Reports] /\ loop \in Loops /\ lastIP \in A
  BY DEF LocationTypeOK
<1>b. LocationTypeOK' <=>
        /\ overridden' \in BOOLEAN /\ due' \in BOOLEAN
        /\ stored' \in [ip : A, place : Addresses \cup {Unknown, Override}]
        /\ report' \in [Handlers -> Reports] /\ loop' \in Loops /\ lastIP' \in A
  BY DEF LocationTypeOK
<1>1. LocationInv => stored \in [ip : A, place : Addresses \cup {Unknown, Override}]
  BY DEF LocationInv
<1>2. LocationInv' => stored' \in [ip : A, place : Addresses \cup {Unknown, Override}]
  BY DEF LocationInv
<1>3. LocationInit => LocationTypeOK
  <2> SUFFICES ASSUME LocationInit PROVE LocationTypeOK
    OBVIOUS
  <2>1. NoReport \in Reports /\ Idle \in Loops /\ None \in A
    BY DEF NoReport, Idle
  <2> HIDE DEF A, Reports, Loops
  <2> QED BY <1>a, <1>1, <2>1, LocationStart DEF LocationInit
<1>4. ASSUME LocationInv, LocationTypeOK, [LocationNext]_locationVars PROVE LocationTypeOK'
  <2>1. stored' \in [ip : A, place : Addresses \cup {Unknown, Override}]
    BY <1>2, <1>4, LocationHolds
  <2>2. /\ overridden \in BOOLEAN /\ due \in BOOLEAN
        /\ report \in [Handlers -> Reports] /\ loop \in Loops /\ lastIP \in A
    BY <1>4, <1>a
  <2>3. stored.ip \in A /\ Idle \in Loops /\ NoReport \in Reports
    BY <1>4 DEF LocationInv, Idle, NoReport
  <2>4. ASSUME NEW h \in Handlers, NEW r \in Reports, report' = [report EXCEPT ![h] = r],
               UNCHANGED <<overridden, due, loop, lastIP>>
        PROVE  LocationTypeOK'
    <3> HIDE DEF A, Reports, Loops
    <3> QED BY <1>b, <2>1, <2>2, <2>4
  <2>5. ASSUME loop' \in Loops, lastIP' \in A, due' \in BOOLEAN, UNCHANGED <<overridden, report>>
        PROVE  LocationTypeOK'
    <3> HIDE DEF A, Reports, Loops
    <3> QED BY <1>b, <2>1, <2>2, <2>5
  <2>6. CASE LookAt
    <3>1. loop' \in Loops /\ lastIP' \in A /\ due' \in BOOLEAN /\ UNCHANGED <<overridden, report>>
      BY <2>3, <2>6 DEF LookAt
    <3> QED BY <2>5, <3>1
  <2>7. CASE ApplyOverride
    <3>1. loop' \in Loops /\ lastIP' \in A /\ due' \in BOOLEAN /\ UNCHANGED <<overridden, report>>
      BY <2>2, <2>3, <2>7 DEF ApplyOverride
    <3> QED BY <2>5, <3>1
  <2>8. CASE Resolve
    <3>1. loop' \in Loops /\ lastIP' \in A /\ due' \in BOOLEAN /\ UNCHANGED <<overridden, report>>
      BY <2>2, <2>3, <2>8 DEF Resolve
    <3> QED BY <2>5, <3>1
  <2>9. CASE ComeDue
    <3>1. loop' \in Loops /\ lastIP' \in A /\ due' \in BOOLEAN /\ UNCHANGED <<overridden, report>>
      BY <2>2, <2>3, <2>9 DEF ComeDue
    <3> QED BY <2>5, <3>1
  <2>10. ASSUME NEW h \in Handlers, NEW step \in {"none", "set", "override", "fill"},
                report' = [report EXCEPT ![h].step = step],
                UNCHANGED <<overridden, due, loop, lastIP>>
         PROVE  LocationTypeOK'
    <3> DEFINE r == [report[h] EXCEPT !.step = step]
    <3>1. r \in Reports
      <4>1. report[h] \in Reports
        BY <2>2
      <4> QED BY <4>1
    <3>2. report' = [report EXCEPT ![h] = r]
      BY <2>10
    <3> HIDE DEF r
    <3> QED BY <2>4, <2>10, <3>1, <3>2
  <2>11. ASSUME NEW h \in Handlers, SetPublicIP(h) \/ SetOverride(h) PROVE LocationTypeOK'
    <3>1. CASE SetPublicIP(h)
      BY <2>10, <3>1 DEF SetPublicIP
    <3>2. CASE SetOverride(h)
      BY <2>10, <3>2 DEF SetOverride
    <3> QED BY <2>11, <3>1, <3>2
  <2>12. ASSUME NEW h \in Handlers, Fill(h) PROVE LocationTypeOK'
    BY <2>3, <2>4, <2>12 DEF Fill
  <2>13. ASSUME NEW h \in Handlers, NEW ip \in A, NEW peer \in A, Observe(h, ip, peer)
         PROVE  LocationTypeOK'
    <3> DEFINE r == [step |-> IF ip \in {None, stored.ip} THEN "fill" ELSE "set",
                     ip |-> ip, peer |-> peer]
    <3>1. r \in Reports
      OBVIOUS
    <3>2. report' = [report EXCEPT ![h] = r]
      BY <2>13 DEF Observe
    <3>3. UNCHANGED <<overridden, due, loop, lastIP>>
      BY <2>13 DEF Observe
    <3> HIDE DEF r
    <3> QED BY <2>4, <3>1, <3>2, <3>3
  <2>14. CASE UNCHANGED locationVars
    <3>1. UNCHANGED <<overridden, due, loop, lastIP, report>>
      BY <2>14 DEF locationVars
    <3> HIDE DEF A, Reports, Loops
    <3> QED BY <1>b, <2>1, <2>2, <3>1
  <2> QED BY <1>4, <2>6, <2>7, <2>8, <2>9, <2>11, <2>12, <2>13, <2>14 DEF LocationNext
<1> QED BY <1>3, <1>4

(* What is staged and what is in the destination are files of releases.    *)
LEMMA ReleaseTypes ==
  /\ ReleaseInit => ReleaseTypeOK
  /\ ReleaseInv /\ ReleaseTypeOK /\ [ReleaseNext]_releaseVars => ReleaseTypeOK'
<1> DEFINE F == [Files -> FileContents]
           M == Releases \cup {Missing}
<1>a. ReleaseTypeOK <=>
        /\ current \in Releases /\ manifest \in M
        /\ fetch \in [step : {"manifest", "file", "rename", "done", "failed"},
                      file : 1 .. Len(Parts) + 1]
        /\ staged \in F /\ destination \in [files : F, manifest : M]
  BY DEF ReleaseTypeOK
<1>b. ReleaseTypeOK' <=>
        /\ current' \in Releases /\ manifest' \in M
        /\ fetch' \in [step : {"manifest", "file", "rename", "done", "failed"},
                       file : 1 .. Len(Parts) + 1]
        /\ staged' \in F /\ destination' \in [files : F, manifest : M]
  BY DEF ReleaseTypeOK, FileContents
<1>1. ReleaseInv =>
        /\ current \in Releases
        /\ fetch \in [step : {"manifest", "file", "rename", "done", "failed"},
                      file : 1 .. Len(Parts) + 1]
  BY ReleaseParts DEF ReleaseInv
<1>2. ReleaseInv' =>
        /\ current' \in Releases
        /\ fetch' \in [step : {"manifest", "file", "rename", "done", "failed"},
                       file : 1 .. Len(Parts) + 1]
  BY ReleaseParts DEF ReleaseInv
<1>3. NothingStaged \in F
  BY DEF NothingStaged, FileContents
<1>4. \A r \in Releases, f \in Files : Contents[r][f] \in FileContents
  BY DEF FileContents
<1>5. ReleaseInit => ReleaseTypeOK
  <2> SUFFICES ASSUME ReleaseInit PROVE ReleaseTypeOK
    OBVIOUS
  <2>1. PICK r \in M :
          destination = [files |-> [f \in Files |-> IF r = Missing THEN Missing ELSE Contents[r][f]],
                         manifest |-> Missing]
    BY DEF ReleaseInit
  <2>2. [f \in Files |-> IF r = Missing THEN Missing ELSE Contents[r][f]] \in F
    BY <1>4 DEF FileContents
  <2>3. destination \in [files : F, manifest : M]
    <3> DEFINE files == [f \in Files |-> IF r = Missing THEN Missing ELSE Contents[r][f]]
    <3>1. files \in F /\ destination = [files |-> files, manifest |-> Missing]
      BY <2>1, <2>2
    <3> HIDE DEF files, F
    <3> QED BY <3>1
  <2>4. manifest \in M /\ staged = NothingStaged
    BY DEF ReleaseInit
  <2> HIDE DEF F, M
  <2> QED BY <1>a, <1>1, <1>3, <2>3, <2>4, ReleaseStart
<1>6. ASSUME ReleaseInv, ReleaseTypeOK, [ReleaseNext]_releaseVars PROVE ReleaseTypeOK'
  <2>1. ASSUME manifest' \in M, staged' \in F, destination' \in [files : F, manifest : M]
        PROVE  ReleaseTypeOK'
    <3> HIDE DEF F, M
    <3> QED BY <1>b, <1>2, <1>6, <2>1, ReleaseHolds
  <2>2. manifest \in M /\ staged \in F /\ destination \in [files : F, manifest : M]
    BY <1>6, <1>a
  <2>3. CASE GetManifest
    <3>1. manifest' \in M /\ staged' \in F /\ destination' = destination
      BY <1>3, <1>1, <1>6, <2>2, <2>3 DEF GetManifest, Fail
    <3> QED BY <2>1, <2>2, <3>1
  <2>4. CASE GetFile
    <3>1. manifest' = manifest /\ destination' = destination
      BY <2>4 DEF GetFile
    <3>2. staged' \in F
      <4>1. CASE staged' = NothingStaged
        BY <1>3, <4>1
      <4>2. CASE ~ (staged' = NothingStaged)
        <5> DEFINE g == Parts[fetch.file]
                   data == BundleFile(g)
        <5>1. staged' = [staged EXCEPT ![g] = data] /\ fetch.step = "file"
          BY <2>4, <4>2 DEF GetFile, Fail
        <5>2. g \in Files
          <6>1. fetch.file \in {1, 2}
            BY <1>6, <5>1, ReleaseParts DEF ReleaseInv
          <6> QED BY <6>1, ReleaseParts
        <5>3. data \in FileContents
          BY <1>1, <1>4, <1>6, <5>2 DEF BundleFile
        <5> HIDE DEF g, data
        <5> QED BY <2>2, <5>1, <5>2, <5>3
      <4> QED BY <4>1, <4>2
    <3> QED BY <2>1, <2>2, <3>1, <3>2
  <2>5. CASE Rename
    <3>1. manifest' = manifest /\ staged' \in F
      BY <1>3, <2>2, <2>5 DEF Rename, Fail
    <3>2. CASE fetch.file <= Len(Parts) /\ destination' # destination
      <4> DEFINE g == Parts[fetch.file]
                 c == staged[g]
      <4>1. destination' = [destination EXCEPT !.files[g] = c]
        BY <1>1, <1>6, <2>5, <3>2, ReleaseParts DEF Rename
      <4>2. g \in Files
        <5>1. fetch.file \in {1, 2}
          BY <1>1, <1>6, <3>2, ReleaseParts
        <5> QED BY <5>1, ReleaseParts
      <4>3. c \in FileContents
        BY <2>2, <4>2
      <4> HIDE DEF g, c
      <4>4. destination' \in [files : F, manifest : M]
        BY <2>2, <4>1, <4>2, <4>3
      <4> QED BY <2>1, <2>2, <3>1, <4>4
    <3>3. CASE ~ (fetch.file <= Len(Parts)) /\ destination' # destination
      <4>1. destination' = [destination EXCEPT !.manifest = manifest]
        BY <2>5, <3>3 DEF Rename
      <4>2. destination' \in [files : F, manifest : M]
        BY <2>2, <4>1
      <4> QED BY <2>1, <2>2, <3>1, <4>2
    <3>4. CASE destination' = destination
      BY <2>1, <2>2, <3>1, <3>4
    <3> QED BY <3>2, <3>3, <3>4
  <2>6. CASE StartOver
    <3>1. /\ manifest' = manifest /\ staged' = staged
          /\ destination' = [files |-> NothingStaged, manifest |-> Missing]
      BY <2>6 DEF StartOver
    <3>2. destination' \in [files : F, manifest : M]
      BY <1>3, <3>1
    <3> QED BY <2>1, <2>2, <3>1, <3>2
  <2>7. CASE UNCHANGED <<manifest, staged, destination>>
    BY <2>1, <2>2, <2>7
  <2>8. UNCHANGED releaseVars => UNCHANGED <<manifest, staged, destination>>
    BY DEF releaseVars
  <2>9. \A r \in Releases : Switch(r) => UNCHANGED <<manifest, staged, destination>>
    BY DEF Switch
  <2> QED BY <1>6, <2>3, <2>4, <2>5, <2>6, <2>7, <2>8, <2>9 DEF ReleaseNext
<1> QED BY <1>5, <1>6

(* The counters of a tracker stay within the longest count, what is left   *)
(* of a round of offlineLoop are nodes.                                    *)
Trackers == [offline : BOOLEAN, level : 0 .. 2, high : 0 .. Longest,
             critical : 0 .. Longest, calm : 0 .. Longest]

Reports == [step : {"none", "evaluate", "tell", "levels"}, load : Low .. Critical]

ScanInv ==
  /\ scan \in [todo : Seq(Watched), off : SUBSET Watched, sending : BOOLEAN]
  /\ scan.sending => scan.todo # <<>>

LEMMA LongestCount == Longest \in Nat \ {0}
<1> DEFINE S == {WarnCount, CritCount, Calm}
<1>1. S \subseteq Nat \ {0}
  BY AlertsAssumption
<1>2. \E m \in S : \A k \in S : k <= m
  BY <1>1
<1>3. Longest \in S
  BY <1>2 DEF Longest
<1> QED BY <1>1, <1>3

LEMMA EvaluatedTracker ==
  ASSUME NEW t \in Trackers, NEW load
  PROVE  Capped(Levelled(Counted(t, load))) \in Trackers
<1> DEFINE c == Counted(t, load)
           l == Levelled(c)
<1>1. Longest \in Nat
  BY LongestCount
<1>2. \A k \in Nat : Cap(k) \in 0 .. Longest
  BY <1>1 DEF Cap
<1>3. c \in [offline : BOOLEAN, level : 0 .. 2, high : Nat, critical : Nat, calm : Nat]
  <2> DEFINE high == IF load >= High THEN t.high + 1 ELSE 0
             critical == IF load = Critical THEN t.critical + 1 ELSE 0
             calm == IF load = Low THEN t.calm + 1 ELSE 0
  <2>1. t.high \in Nat /\ t.critical \in Nat /\ t.calm \in Nat
    BY <1>1 DEF Trackers
  <2>2. high \in Nat
    BY <2>1
  <2>3. critical \in Nat
    BY <2>1
  <2>4. calm \in Nat
    BY <2>1
  <2>5. c = [t EXCEPT !.high = high, !.critical = critical, !.calm = calm]
    BY DEF Counted
  <2> HIDE DEF high, critical, calm
  <2>6. t \in [offline : BOOLEAN, level : 0 .. 2, high : Nat, critical : Nat, calm : Nat]
    BY <1>1 DEF Trackers
  <2> QED BY <2>2, <2>3, <2>4, <2>5, <2>6
<1> HIDE DEF c
<1>4. l \in [offline : BOOLEAN, level : 0 .. 2, high : Nat, critical : Nat, calm : Nat]
  <2> DEFINE level == IF c.level < 2 /\ c.critical >= CritCount THEN 2
                      ELSE IF c.level = 0 /\ c.high >= WarnCount THEN 1
                      ELSE IF c.level > 0 /\ c.calm >= Calm THEN 0
                      ELSE c.level
  <2>1. level \in 0 .. 2
    BY <1>3
  <2>2. l = [c EXCEPT !.level = level]
    BY DEF Levelled
  <2> HIDE DEF level
  <2> QED BY <1>3, <2>1, <2>2
<1> HIDE DEF l
<1>5. Cap(l.high) \in 0 .. Longest /\ Cap(l.critical) \in 0 .. Longest /\ Cap(l.calm) \in 0 .. Longest
  BY <1>2, <1>4
<1>6. Capped(l) = [l EXCEPT !.high = Cap(l.high), !.critical = Cap(l.critical), !.calm = Cap(l.calm)]
  BY DEF Capped
<1>7. Capped(l) \in Trackers
  BY <1>4, <1>5, <1>6 DEF Trackers
<1> QED BY <1>7 DEF l, c

LEMMA AlertsTypes ==
  /\ AlertsInit => AlertsTypeOK /\ ScanInv
  /\ AlertsTypeOK /\ ScanInv /\ [AlertsNext]_alertVars => AlertsTypeOK' /\ ScanInv'
<1> DEFINE Round == {r \in [todo : Seq(Watched), off : SUBSET Watched, sending : BOOLEAN] :
                     r.sending => r.todo # <<>>}
<1>0. Silence \in Nat \ {0} /\ IsFiniteSet(Watched) /\ Loads \in [Watched -> SUBSET (Low .. Critical)]
  BY AlertsAssumption
<1>a. AlertsTypeOK /\ ScanInv =>
        /\ age \in [Watched -> 0 .. Silence] /\ listed \subseteq Watched
        /\ tracker \in [Watched -> Trackers] /\ handler \in [Watched \X Calls -> Reports] /\ scan \in Round
        /\ withdrawn \subseteq Watched
  BY DEF AlertsTypeOK, ScanInv, Trackers, Reports
<1>b. ASSUME age \in [Watched -> 0 .. Silence], listed \subseteq Watched,
             tracker \in [Watched -> Trackers], handler \in [Watched \X Calls -> Reports], scan \in Round,
             withdrawn \subseteq Watched
      PROVE  AlertsTypeOK /\ ScanInv
  <2>1. ToSet(scan.todo) \subseteq Watched
    <3>1. scan.todo \in Seq(Watched)
      BY <1>b
    <3> QED BY <3>1 DEF ToSet
  <2> QED BY <1>b, <2>1 DEF AlertsTypeOK, ScanInv, Trackers, Reports
<1>c. ASSUME age' \in [Watched -> 0 .. Silence], listed' \subseteq Watched,
             tracker' \in [Watched -> Trackers], handler' \in [Watched \X Calls -> Reports], scan' \in Round,
             withdrawn' \subseteq Watched
      PROVE  AlertsTypeOK' /\ ScanInv'
  <2>1. ToSet(scan'.todo) \subseteq Watched
    <3>1. scan'.todo \in Seq(Watched)
      BY <1>c
    <3> QED BY <3>1 DEF ToSet
  <2> QED BY <1>c, <2>1 DEF AlertsTypeOK, ScanInv, Trackers, Reports
<1>1. NoTracker \in Trackers
  BY LongestCount DEF NoTracker, Trackers
<1>q. Quiet \in Reports
  BY DEF Quiet, Reports, Low, Critical
<1>2. AlertsInit => AlertsTypeOK /\ ScanInv
  <2> SUFFICES ASSUME AlertsInit PROVE AlertsTypeOK /\ ScanInv
    OBVIOUS
  <2>2. Resting \in Round
    BY DEF Resting
  <2>3. age \in [Watched -> 0 .. Silence]
    BY <1>0 DEF AlertsInit
  <2> HIDE DEF Round
  <2> QED BY <1>b, <1>1, <1>q, <2>2, <2>3 DEF AlertsInit
<1>3. ASSUME AlertsTypeOK, ScanInv, [AlertsNext]_alertVars PROVE AlertsTypeOK' /\ ScanInv'
  <2>0. /\ age \in [Watched -> 0 .. Silence] /\ listed \subseteq Watched
        /\ tracker \in [Watched -> Trackers] /\ handler \in [Watched \X Calls -> Reports] /\ scan \in Round
        /\ withdrawn \subseteq Watched
    BY <1>3, <1>a
  <2>1. ASSUME NEW n \in Watched, NEW c \in Calls, NEW step \in {"none", "evaluate", "tell", "levels"}
        PROVE  [handler EXCEPT ![<<n, c>>].step = step] \in [Watched \X Calls -> Reports]
    <3>1. handler[<<n, c>>] \in Reports
      BY <2>0
    <3>2. [handler[<<n, c>>] EXCEPT !.step = step] \in Reports
      BY <3>1 DEF Reports
    <3> QED BY <2>0, <3>2
  <2>2. ASSUME NEW n \in Watched, NEW b \in BOOLEAN
        PROVE  [tracker EXCEPT ![n].offline = b] \in [Watched -> Trackers]
    <3>1. tracker[n] \in Trackers
      BY <2>0
    <3>2. [tracker[n] EXCEPT !.offline = b] \in Trackers
      BY <3>1 DEF Trackers
    <3> QED BY <2>0, <3>2
  <2>3. CASE Age
    <3>1. age' \in [Watched -> 0 .. Silence]
      BY <1>0, <2>0, <2>3 DEF Age
    <3> QED BY <1>c, <2>0, <2>3, <3>1 DEF Age
  <2>4. ASSUME NEW n \in Watched, NEW c \in Calls, NEW load \in Loads[n], Accept(n, c, load)
        PROVE  AlertsTypeOK' /\ ScanInv'
    <3>1. age' \in [Watched -> 0 .. Silence]
      BY <1>0, <2>0, <2>4 DEF Accept
    <3>2. load \in Low .. Critical
      BY <1>0
    <3>3. [step |-> "evaluate", load |-> load] \in Reports
      BY <3>2 DEF Reports
    <3>4. handler' \in [Watched \X Calls -> Reports]
      BY <2>0, <2>4, <3>3 DEF Accept
    <3> QED BY <1>c, <2>0, <2>4, <3>1, <3>4 DEF Accept
  <2>5. ASSUME NEW n \in Watched, NEW c \in Calls, Evaluate(n, c) PROVE AlertsTypeOK' /\ ScanInv'
    <3>1. tracker' \in [Watched -> Trackers]
      BY <2>2, <2>5 DEF Evaluate
    <3>2. CASE tracker[n].offline
      <4>1. handler' \in [Watched \X Calls -> Reports]
        BY <2>1, <2>5, <3>2 DEF Evaluate
      <4> QED BY <1>c, <2>0, <2>5, <3>1, <4>1 DEF Evaluate
    <3>3. CASE ~ tracker[n].offline
      <4>1. handler' \in [Watched \X Calls -> Reports]
        BY <2>1, <2>5, <3>3 DEF Evaluate
      <4> QED BY <1>c, <2>0, <2>5, <3>1, <4>1 DEF Evaluate
    <3> QED BY <3>2, <3>3
  <2>6. ASSUME NEW n \in Watched, NEW c \in Calls, Tell(n, c) PROVE AlertsTypeOK' /\ ScanInv'
    <3>1. handler' \in [Watched \X Calls -> Reports]
      BY <2>1, <2>6 DEF Tell
    <3> QED BY <1>c, <2>0, <2>6, <3>1 DEF Tell
  <2>7. ASSUME NEW n \in Watched, NEW c \in Calls, EvalMetric(n, c) PROVE AlertsTypeOK' /\ ScanInv'
    <3>1. Capped(Levelled(Counted(tracker[n], handler[<<n, c>>].load))) \in Trackers
      BY <2>0, EvaluatedTracker
    <3>2. tracker' \in [Watched -> Trackers]
      BY <2>0, <2>7, <3>1 DEF EvalMetric
    <3>3. handler' \in [Watched \X Calls -> Reports]
      BY <1>q, <2>0, <2>7 DEF EvalMetric
    <3> QED BY <1>c, <2>0, <2>7, <3>2, <3>3 DEF EvalMetric
  <2>8. ASSUME NEW n \in Watched, Withdraw(n) PROVE AlertsTypeOK' /\ ScanInv'
    <3>1. listed' \subseteq Watched /\ withdrawn' \subseteq Watched
      BY <2>0, <2>8 DEF Withdraw
    <3> QED BY <1>c, <2>0, <2>8, <3>1 DEF Withdraw
  <2>9. ASSUME NEW n \in Watched, Purge(n) PROVE AlertsTypeOK' /\ ScanInv'
    <3>1. withdrawn' \subseteq Watched
      BY <2>0, <2>9 DEF Purge
    <3>2. tracker' \in [Watched -> Trackers]
      BY <1>1, <2>0, <2>9 DEF Purge
    <3> QED BY <1>c, <2>0, <2>9, <3>1, <3>2 DEF Purge
  <2>10. CASE Look
    <3>1. PICK nodes \in SetToSeqs(listed) :
            scan' = [todo |-> nodes, off |-> {n \in listed : age[n] >= Silence}, sending |-> FALSE]
      BY <2>10 DEF Look
    <3>2. Cardinality(listed) \in Nat
      BY <1>0, <2>0, FS_Subset, FS_CardinalityType
    <3>3. nodes \in [1 .. Cardinality(listed) -> Watched]
      BY <2>0, <3>1 DEF SetToSeqs
    <3>4. nodes \in Seq(Watched)
      BY <3>2, <3>3
    <3>5. scan' \in Round
      BY <2>0, <3>1, <3>4
    <3> QED BY <1>c, <2>0, <2>10, <3>5 DEF Look
  <2>11. Tail(scan.todo) \in Seq(Watched) \/ scan.todo = <<>>
    BY <2>0
  <2>12. CASE Decide
    <3> DEFINE b == tracker[Here].offline \/ Here \in scan.off
    <3>1. Here \in Watched
      BY <2>0, <2>12 DEF Decide, Here
    <3>2. tracker' \in [Watched -> Trackers]
      <4>1. b \in BOOLEAN /\ tracker' = [tracker EXCEPT ![Here].offline = b]
        BY <2>12 DEF Decide
      <4> HIDE DEF b
      <4> QED BY <2>2, <3>1, <4>1
    <3>3. scan' \in Round
      <4>1. CASE Announces
        BY <2>0, <2>12, <4>1 DEF Decide
      <4>2. CASE ~ Announces
        BY <2>0, <2>11, <2>12, <4>2 DEF Decide
      <4> QED BY <4>1, <4>2
    <3> QED BY <1>c, <2>0, <2>12, <3>2, <3>3 DEF Decide
  <2>13. CASE Sent
    <3>1. scan.todo # <<>>
      BY <2>0, <2>13 DEF Sent
    <3>2. scan' = [scan EXCEPT !.sending = FALSE, !.todo = Tail(scan.todo)]
      BY <2>13 DEF Sent
    <3>3. scan' \in Round
      BY <2>0, <2>11, <3>1, <3>2
    <3> QED BY <1>c, <2>0, <2>13, <3>3 DEF Sent
  <2>14. CASE UNCHANGED alertVars
    BY <1>c, <2>0, <2>14 DEF alertVars
  <2> QED BY <1>3, <2>3, <2>4, <2>5, <2>6, <2>7, <2>8, <2>9, <2>10, <2>12, <2>13, <2>14
          DEF AlertsNext, OfflineLoop, Handling
<1> QED BY <1>2, <1>3
-----------------------------------------------------------------------------
(* All parts.                                                              *)

(* What the types of the parts rest on.                                    *)
EveryPartInv ==
  /\ AlertsTypeOK /\ ScanInv
  /\ SamplingTypeOK /\ SamplingInv
  /\ PacingTypeOK /\ PacingInv
  /\ CleanupTypeOK /\ CleanupInv
  /\ FeedTypeOK /\ FeedInv
  /\ LocationTypeOK /\ LocationInv
  /\ ReleaseTypeOK /\ ReleaseInv

(* A step of one part is none of the others.                               *)
LEMMA OnePartMoves ==
  [ServicesNext]_serviceVars =>
    /\ [AlertsNext]_alertVars /\ [SamplingNext]_samplingVars /\ [PacingNext]_pacingVars
    /\ [CleanupNext]_cleanupVars /\ [FeedNext]_feedVars /\ [LocationNext]_locationVars
    /\ [ReleaseNext]_releaseVars
BY DEF ServicesNext, serviceVars, AlertsStep, SamplingStep, PacingStep, CleanupStep, FeedStep,
       LocationStep, ReleaseStep

(* Whichever part a behaviour follows, every variable of every part keeps  *)
(* its type: no counter or time leaves its range, no list of a viewer or   *)
(* of a batch holds anything but frames or updates, and what Alerts goes   *)
(* through are nodes (ServicesTypeOK).                                     *)
THEOREM EveryPartTyped == ServicesSpec => []ServicesTypeOK
<1>1. ServicesInit => EveryPartInv
  BY AlertsTypes, SamplingStart, SamplingTypes, PacingStart, PacingTypes, CleanupStart,
     CleanupTypes, FeedStart, FeedTypes, LocationStart, LocationTypes, ReleaseStart, ReleaseTypes
  DEF ServicesInit, EveryPartInv
<1>2. EveryPartInv /\ [ServicesNext]_serviceVars => EveryPartInv'
  BY OnePartMoves, AlertsTypes, SamplingHolds, SamplingTypes, PacingHolds, PacingTypes,
     CleanupHolds, CleanupTypes, FeedHolds, FeedTypes, LocationHolds, LocationTypes,
     ReleaseHolds, ReleaseTypes
  DEF EveryPartInv
<1>3. EveryPartInv => ServicesTypeOK
  BY DEF EveryPartInv, ServicesTypeOK
<1> QED BY <1>1, <1>2, <1>3, PTL DEF ServicesSpec
=============================================================================
