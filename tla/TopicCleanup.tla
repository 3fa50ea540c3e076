---------------------------- MODULE TopicCleanup ----------------------------
(***************************************************************************)
(* Central's cleanup of the messages Telegram writes when a topic is       *)
(* renamed (CleanTopicRenames, telegram/topic_cleanup.go): it polls the    *)
(* bot's updates, deletes the renames of its own topics and keeps, in a    *)
(* file, the number of the first update it has not dealt with.  Which      *)
(* topics are its own it reads from forum.json for each update anew.       *)
(***************************************************************************)
EXTENDS Integers, Sequences

CONSTANTS
  Updates,    \* the updates, in order: whether each is an own rename
  Permanent,  \* own renames Telegram does not let the bot delete
  MaxStops    \* stops of Central

ASSUME CleanupAssumption ==
  /\ Updates \in Seq(BOOLEAN)
  /\ Permanent \subseteq {e \in DOMAIN Updates : Updates[e]}
  /\ MaxStops \in Nat

VARIABLES
  arrived,   \* updates Telegram has
  kept,      \* first update Telegram still keeps
  messages,  \* own renames to be seen in the group
  file,      \* the saved offset
  cleaner,   \* where the loop stands
  position,  \* its offset
  batch,     \* updates polled and not dealt with
  disowned,  \* own renames that forum.json did not show to be any when it was read
  stops      \* stops of Central so far

cleanupVars == <<arrived, kept, messages, file, cleaner, position, batch, disowned, stops>>

Numbers == DOMAIN Updates
OwnRenames == {e \in Numbers : Updates[e]}

CleanupInit ==
  /\ arrived = 0 /\ kept = 1 /\ messages = {}
  /\ file = 0 /\ cleaner = "start" /\ position = 0 /\ batch = <<>>
  /\ disowned = {} /\ stops = 0

Arrive ==
  /\ arrived < Len(Updates)
  /\ arrived' = arrived + 1
  /\ messages' = IF Updates[arrived + 1] THEN messages \cup {arrived + 1} ELSE messages
  /\ UNCHANGED <<kept, file, cleaner, position, batch, disowned, stops>>

(* getMe is repeated until it answers; a webhook, or an unreadable file,   *)
(* ends the cleanup until Central starts again.                            *)
Open ==
  /\ cleaner = "start"
  /\ \/ cleaner' = "poll" /\ position' = file
     \/ cleaner' = "ended" /\ UNCHANGED position
  /\ UNCHANGED <<arrived, kept, messages, file, batch, disowned, stops>>

(* getUpdates: Telegram forgets what comes before the offset.  A conflict  *)
(* with another consumer ends the cleanup, another failure is repeated.    *)
Poll ==
  /\ cleaner = "poll"
  /\ \/ /\ kept' = IF position > kept THEN position ELSE kept
        /\ batch' = [i \in 1 .. arrived - kept' + 1 |-> kept' + i - 1]
        /\ cleaner' = "work"
     \/ cleaner' = "ended" /\ UNCHANGED <<kept, batch>>
  /\ UNCHANGED <<arrived, messages, file, position, disowned, stops>>

(* An own rename is deleted; a message that is gone, or is not to be       *)
(* deleted, counts as dealt with.  What is not an own rename is left.      *)
Delete ==
  /\ cleaner = "work" /\ batch # <<>>
  /\ messages' = IF Head(batch) \in OwnRenames \ Permanent
                 THEN messages \ {Head(batch)} ELSE messages
  /\ cleaner' = "save"
  /\ UNCHANGED <<arrived, kept, file, position, batch, disowned, stops>>

(* forum.json cannot be read, or does not name the topic of an own rename  *)
(* any more: the update is passed by like one that is none.                *)
PassBy ==
  /\ cleaner = "work" /\ batch # <<>> /\ Head(batch) \in OwnRenames
  /\ disowned' = disowned \cup {Head(batch)}
  /\ cleaner' = "save"
  /\ UNCHANGED <<arrived, kept, messages, file, position, batch, stops>>

(* A mutant of Refused: the loop goes on with the rest of the batch. *)
RefusedGoesOn ==
  /\ cleaner = "work" /\ batch # <<>>
  /\ Head(batch) \in OwnRenames
  /\ batch' = Tail(batch)
  /\ UNCHANGED <<arrived, kept, messages, file, cleaner, position, disowned, stops>>

(* Another failure: the batch is abandoned and polled again after a pause. *)
(* The message may be gone all the same.                                   *)
Refused ==
  /\ cleaner = "work" /\ batch # <<>>
  /\ Head(batch) \in OwnRenames
  /\ messages' \in {messages, messages \ ({Head(batch)} \ Permanent)}
  /\ batch' = <<>> /\ cleaner' = "poll"
  /\ UNCHANGED <<arrived, kept, file, position, disowned, stops>>

Worked ==
  /\ cleaner = "work" /\ batch = <<>>
  /\ cleaner' = "poll"
  /\ UNCHANGED <<arrived, kept, messages, file, position, batch, disowned, stops>>

(* The offset is saved before it is used; a refused save ends the cleanup. *)
SaveOffset ==
  /\ cleaner = "save"
  /\ \/ /\ file' = Head(batch) + 1 /\ position' = Head(batch) + 1
        /\ batch' = Tail(batch) /\ cleaner' = "work"
     \/ cleaner' = "ended" /\ UNCHANGED <<file, position, batch>>
  /\ UNCHANGED <<arrived, kept, messages, disowned, stops>>

(* Central stops and starts again.                                         *)
StopCleanup ==
  /\ stops < MaxStops
  /\ stops' = stops + 1 /\ cleaner' = "start" /\ position' = 0 /\ batch' = <<>>
  /\ UNCHANGED <<arrived, kept, messages, file, disowned>>

CleanupNext ==
  Arrive \/ Open \/ Poll \/ Delete \/ PassBy \/ Refused \/ Worked \/ SaveOffset \/ StopCleanup

CleanupSpec == CleanupInit /\ [][CleanupNext]_cleanupVars

-----------------------------------------------------------------------------
CleanupTypeOK ==
  /\ arrived \in 0 .. Len(Updates) /\ kept \in 1 .. Len(Updates) + 1
  /\ messages \subseteq OwnRenames
  /\ file \in 0 .. Len(Updates) + 1 /\ position \in 0 .. Len(Updates) + 1
  /\ cleaner \in {"start", "poll", "work", "save", "ended"}
  /\ batch \in Seq(Numbers) /\ disowned \subseteq OwnRenames /\ stops \in 0 .. MaxStops

(* No own rename is passed over: one that Telegram has forgotten, or that  *)
(* comes before the saved offset, has been deleted or cannot be deleted,   *)
(* or forum.json did not show it to be one: whichever calls failed and     *)
(* wherever Central stopped.                                               *)
NonePassedOver ==
  \A e \in messages : e < kept \/ e < file => e \in Permanent \cup disowned
=============================================================================
