------------------------------ MODULE Sampling ------------------------------
(***************************************************************************)
(* The agent's samples: the collector (collectLoop, once a second on       *)
(* slots it shares with the other agents), the mailbox of one sample       *)
(* (offerLatest) and the sender (sendLoop, sendMetric), whose answers      *)
(* correct the estimate of Central's clock the slots are computed from.    *)
(* Time passes in units; only its phase within an interval matters.        *)
(*                                                                         *)
(* A collection takes no time and a sleep ends on time: what remains is    *)
(* what the code decides.  A collector that panics starts over and is left *)
(* out, as is the length of the sender's pauses.                           *)
(***************************************************************************)
EXTENDS Integers

CONSTANT Interval  \* cadence.Interval, in units

ASSUME SamplingAssumption == Interval \in Nat \ {0} /\ Interval % 4 = 0

VARIABLES
  phase,      \* the agent's clock, modulo Interval
  offset,     \* Clock.offset, modulo Interval
  since,      \* units since the last collection, up to 2 * Interval
  wake,       \* units the collector still sleeps
  collector,  \* where it stands
  full,       \* whether a sample is in the mailbox
  sender      \* where the sender stands

samplingVars == <<phase, offset, since, wake, collector, full, sender>>

Phases == 0 .. Interval - 1

SamplingInit ==
  /\ phase = 0 /\ offset = 0 /\ since = 0 /\ wake = 0
  /\ collector = "offer" /\ full = FALSE /\ sender = "receive"

(* cadence.Next is strictly later than its argument.                       *)
ToSlot(wall) == Interval - (wall % Interval)

(* A mutant of SampleDelay: always the next slot. *)
NextSlotDelay(last, wall) == ToSlot(wall)

(* sampleDelay: the next slot, or the one after it when that comes sooner  *)
(* than three quarters of an interval after the last collection.           *)
SampleDelay(last, wall) ==
  ToSlot(wall) + IF 4 * (last + ToSlot(wall)) < 3 * Interval THEN Interval ELSE 0

-----------------------------------------------------------------------------
Collect ==
  /\ collector = "sleep" /\ wake = 0
  /\ since' = 0 /\ collector' = "offer"
  /\ UNCHANGED <<phase, offset, wake, full, sender>>

(* offerLatest: put the sample, or take the old one out and put it then.   *)
Offer ==
  /\ collector = "offer"
  /\ collector' = IF full THEN "drain" ELSE "rest"
  /\ full' = TRUE
  /\ UNCHANGED <<phase, offset, since, wake, sender>>

Drain ==
  /\ collector = "drain"
  /\ full' = FALSE /\ collector' = "put"
  /\ UNCHANGED <<phase, offset, since, wake, sender>>

Put ==
  /\ collector = "put" /\ ~full
  /\ full' = TRUE /\ collector' = "rest"
  /\ UNCHANGED <<phase, offset, since, wake, sender>>

(* DelayAfter, with the offset of this moment.                             *)
Rest ==
  /\ collector = "rest"
  /\ wake' = SampleDelay(since, phase + offset)
  /\ collector' = "sleep"
  /\ UNCHANGED <<phase, offset, since, full, sender>>

(* Time stands still only while the collector has something to do.         *)
Pass ==
  /\ \/ collector = "sleep" /\ wake > 0
     \/ collector = "put" /\ full
  /\ phase' = (phase + 1) % Interval
  /\ since' = IF since < 2 * Interval THEN since + 1 ELSE since
  /\ wake' = IF collector = "sleep" THEN wake - 1 ELSE wake
  /\ UNCHANGED <<offset, collector, full, sender>>

-----------------------------------------------------------------------------
Receive ==
  /\ sender = "receive" /\ full
  /\ full' = FALSE /\ sender' = "send"
  /\ UNCHANGED <<phase, offset, since, wake, collector>>

(* An answer, of whatever status, is observed when it came soon enough.    *)
(* After an accepted sample the sender takes the next one, after any other *)
(* outcome it pauses or registers first.                                   *)
Answer ==
  /\ sender = "send"
  /\ offset' \in Phases
  /\ sender' \in {"receive", "pause"}
  /\ UNCHANGED <<phase, since, wake, collector, full>>

Resume ==
  /\ sender = "pause"
  /\ sender' = "receive"
  /\ UNCHANGED <<phase, offset, since, wake, collector, full>>

SamplingNext ==
  Collect \/ Offer \/ Drain \/ Put \/ Rest \/ Pass \/ Receive \/ Answer \/ Resume

SamplingSpec == SamplingInit /\ [][SamplingNext]_samplingVars

-----------------------------------------------------------------------------
SamplingTypeOK ==
  /\ phase \in Phases /\ offset \in Phases
  /\ since \in 0 .. 2 * Interval /\ wake \in 0 .. 2 * Interval
  /\ collector \in {"sleep", "offer", "drain", "put", "rest"}
  /\ full \in BOOLEAN /\ sender \in {"receive", "send", "pause"}

(* However the clock is corrected meanwhile and however slow the sender    *)
(* is, two collections are at least three quarters and less than seven     *)
(* quarters of an interval apart: no slot is taken twice, and the          *)
(* collector never waits for the sender (cadence/clock.go,                 *)
(* agent/telemetry.go).                                                    *)
SlotsKept ==
  [][collector = "sleep" /\ collector' = "offer" =>
       3 * Interval <= 4 * since /\ 4 * since < 7 * Interval]_samplingVars
=============================================================================
