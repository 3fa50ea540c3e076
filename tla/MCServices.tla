----------------------------- MODULE MCServices -----------------------------
(***************************************************************************)
(* The smaller parts of the system, checked by one run.  They share no     *)
(* state, so each behaviour follows one of them, chosen at the start, and  *)
(* leaves the others where they begin.                                     *)
(***************************************************************************)
EXTENDS Alerts, Sampling, Pacing, TopicCleanup, WebFeed, Location, ReleaseFetch, TLC

CONSTANTS n1, n2, c1, c2, v1, v2, v3, a1, a2, h1, h2, r1, r2

VARIABLE part  \* the part this behaviour follows

SomeLoads == n1 :> {Low, High, Critical} @@ n2 :> {}

(* The updater is the same in both releases, the binary is not.            *)
TwoReleases ==
  r1 :> [binary |-> "first", updater |-> "same"] @@ r2 :> [binary |-> "second", updater |-> "same"]

(* An own rename, another message, two own renames.                        *)
FourUpdates == <<TRUE, FALSE, TRUE, TRUE>>

serviceVars == <<part, alertVars, samplingVars, pacingVars, cleanupVars, feedVars,
                 locationVars, releaseVars>>

ServicesInit ==
  /\ part \in {"alerts", "sampling", "pacing", "cleanup", "feed", "location", "release"}
  /\ AlertsInit /\ SamplingInit /\ PacingInit /\ CleanupInit /\ FeedInit
  /\ LocationInit /\ ReleaseInit
  /\ part # "location" => overridden = FALSE /\ stored = [ip |-> None, place |-> Unknown]
  /\ part # "release" => current = r1 /\ destination.files = NothingStaged

AlertsStep ==
  /\ part = "alerts" /\ AlertsNext
  /\ UNCHANGED <<part, samplingVars, pacingVars, cleanupVars, feedVars, locationVars, releaseVars>>

SamplingStep ==
  /\ part = "sampling" /\ SamplingNext
  /\ UNCHANGED <<part, alertVars, pacingVars, cleanupVars, feedVars, locationVars, releaseVars>>

PacingStep ==
  /\ part = "pacing" /\ PacingNext
  /\ UNCHANGED <<part, alertVars, samplingVars, cleanupVars, feedVars, locationVars, releaseVars>>

CleanupStep ==
  /\ part = "cleanup" /\ CleanupNext
  /\ UNCHANGED <<part, alertVars, samplingVars, pacingVars, feedVars, locationVars, releaseVars>>

FeedStep ==
  /\ part = "feed" /\ FeedNext
  /\ UNCHANGED <<part, alertVars, samplingVars, pacingVars, cleanupVars, locationVars, releaseVars>>

LocationStep ==
  /\ part = "location" /\ LocationNext
  /\ UNCHANGED <<part, alertVars, samplingVars, pacingVars, cleanupVars, feedVars, releaseVars>>

ReleaseStep ==
  /\ part = "release" /\ ReleaseNext
  /\ UNCHANGED <<part, alertVars, samplingVars, pacingVars, cleanupVars, feedVars, locationVars>>

ServicesNext ==
  \/ AlertsStep \/ SamplingStep \/ PacingStep \/ CleanupStep
  \/ FeedStep \/ LocationStep \/ ReleaseStep

ServicesSpec == ServicesInit /\ [][ServicesNext]_serviceVars /\ (part = "alerts" => AlertsFairness)

(* Every variable of every part has its type (AlertsTypeOK and the         *)
(* others): counters stay within their limits, positions are known ones.   *)
ServicesTypeOK ==
  /\ AlertsTypeOK /\ SamplingTypeOK /\ PacingTypeOK /\ CleanupTypeOK
  /\ FeedTypeOK /\ LocationTypeOK /\ ReleaseTypeOK
=============================================================================
