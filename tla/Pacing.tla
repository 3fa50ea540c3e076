------------------------------- MODULE Pacing -------------------------------
(***************************************************************************)
(* The writes to one Telegram group: withGroupWrite (telegram/bot.go, as   *)
(* scripts/apply_telegram_rate_limit.py leaves it) and withGroupEdit       *)
(* (telegram/fast_edit.go).  A mutex lets one caller at a time wait for    *)
(* the group and send its request; the callers are the forum loop, the     *)
(* alerts and the cleanup of topics, in any order.                         *)
(***************************************************************************)
EXTENDS Integers, FiniteSetsExt

CONSTANTS
  WriteSpacing,  \* forumWriteSpacing, in units
  EditSpacing,   \* initialEditSpacing
  SlowestEdit,   \* the edit spacing grows no further
  Margin,        \* added to the cooldown Telegram asks for
  Retries,       \* the cooldowns it may ask for
  LongestCall    \* the client's timeout

ASSUME PacingAssumption ==
  /\ {WriteSpacing, EditSpacing, SlowestEdit, Margin, LongestCall} \subseteq Nat \ {0}
  /\ Retries \subseteq Nat \ {0}

(* The cooldown is an int in the code.                                     *)
ASSUME RetriesAssumption == IsFiniteSet(Retries)

VARIABLES
  nextIn,       \* units until groupNext
  blockedIn,    \* units until groupBlockedUntil
  editSpacing,  \* Bot.editSpacing, 0 before the first edit
  request,      \* "none", or the kind of the request under way
  running,      \* units since it was started
  cooling,      \* history: units for which the group is to be left alone
  spaced        \* history: units the next start owes to the last one

pacingVars == <<nextIn, blockedIn, editSpacing, request, running, cooling, spaced>>

PacingInit ==
  /\ nextIn = 0 /\ blockedIn = 0 /\ editSpacing = 0
  /\ request = "none" /\ running = 0 /\ cooling = 0 /\ spaced = 0

Less(k) == IF k > 0 THEN k - 1 ELSE 0
Longer(j, k) == IF j > k THEN j ELSE k

(* A unit passes; a request ends with the client's timeout at the latest.  *)
Elapse ==
  /\ running < LongestCall
  /\ nextIn' = Less(nextIn) /\ blockedIn' = Less(blockedIn)
  /\ running' = IF request = "none" THEN 0 ELSE running + 1
  /\ cooling' = Less(cooling) /\ spaced' = Less(spaced)
  /\ UNCHANGED <<editSpacing, request>>

(* The caller holds the mutex and has slept until both times have passed.  *)
Begin(kind) ==
  /\ request = "none" /\ nextIn = 0 /\ blockedIn = 0
  /\ request' = kind /\ running' = 0
  /\ editSpacing' = IF kind = "edit" /\ editSpacing = 0 THEN EditSpacing ELSE editSpacing
  /\ spaced' = IF kind = "edit" THEN editSpacing' ELSE WriteSpacing
  /\ UNCHANGED <<nextIn, blockedIn, cooling>>

Spacing == IF request = "edit" THEN editSpacing ELSE WriteSpacing

(* The request is answered, or given up: groupNext is counted from its     *)
(* start.                                                                  *)
Answered ==
  /\ request # "none"
  /\ nextIn' = Longer(Spacing - running, 0)
  /\ request' = "none" /\ running' = 0
  /\ UNCHANGED <<blockedIn, editSpacing, cooling, spaced>>

(* A mutant of Cooldown: counted from the start of the request. *)
CooldownFromStart(retry) == Longer(retry + Margin - running, 0)

Cooldown(retry) == retry + Margin

(* A mutant of Slowed: without a limit. *)
SlowedForever(spacing) == Longer(2 * spacing, WriteSpacing)

(* A refused edit slows all later edits of the process.                    *)
Slowed(spacing) == Min({SlowestEdit, Longer(2 * spacing, WriteSpacing)})

(* Telegram refuses the request and asks for a cooldown (429).             *)
Flooded(retry) ==
  /\ request # "none"
  /\ blockedIn' = Cooldown(retry)
  /\ nextIn' = Longer(Spacing - running, Cooldown(retry))
  /\ editSpacing' = IF request = "edit" THEN Slowed(editSpacing) ELSE editSpacing
  /\ cooling' = retry + Margin
  /\ request' = "none" /\ running' = 0
  /\ UNCHANGED spaced

PacingNext ==
  \/ Elapse \/ Answered
  \/ \E kind \in {"write", "edit"} : Begin(kind)
  \/ \E retry \in Retries : Flooded(retry)

PacingSpec == PacingInit /\ [][PacingNext]_pacingVars

-----------------------------------------------------------------------------
LongestWait == Max(Retries \cup {0}) + Margin

PacingTypeOK ==
  /\ nextIn \in 0 .. Max({LongestWait, WriteSpacing, SlowestEdit, EditSpacing})
  /\ blockedIn \in 0 .. LongestWait /\ cooling \in 0 .. LongestWait
  /\ editSpacing \in {0, EditSpacing} \cup (0 .. SlowestEdit)
  /\ request \in {"none", "write", "edit"} /\ running \in 0 .. LongestCall

(* No request is started before the cooldown Telegram has asked for is     *)
(* over, with the margin to spare, counted from the answer that asked for  *)
(* it; nor before the spacing the last request calls for has passed,       *)
(* whatever its kind was and whatever the kind of this one.                *)
CooldownKept ==
  [][request = "none" /\ request' # "none" => cooling = 0 /\ spaced = 0]_pacingVars
=============================================================================
