----------------------------- MODULE MCMetering -----------------------------
(* Instances of Metering for TLC. *)
EXTENDS Metering

CONSTANTS e1, e2

Plan(bursts, restarts, lost, late, stops, refused) ==
  [bursts |-> bursts, restarts |-> restarts, lost |-> lost, late |-> late,
   stops |-> stops, refused |-> refused]

(* What may happen in one behaviour, side by side: bursts of traffic with    *)
(* lost, late or restarted reports, and a stop of Central with a lost        *)
(* report, a refused write, a second burst or a restarted counter.           *)
SidePlans ==
  {Plan(1, 0, 2, 1, 0, 0), Plan(2, 0, 1, 0, 0, 0), Plan(1, 1, 1, 0, 0, 0),
   Plan(2, 1, 0, 0, 0, 0), Plan(1, 0, 1, 0, 1, 0), Plan(1, 0, 0, 0, 1, 1),
   Plan(2, 0, 0, 0, 1, 0), Plan(1, 1, 0, 0, 1, 0)}
=============================================================================
