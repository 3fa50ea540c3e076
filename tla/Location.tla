------------------------------ MODULE Location ------------------------------
(***************************************************************************)
(* The address and the place of a node in Central's store: the handlers of *)
(* metrics (observePublicIP, FillPublicIP), which may run side by side,    *)
(* and locationLoop (central/location.go), which asks two databases for    *)
(* the place of an address while the address may change.  A place is named *)
(* by the address it was found for.  config.json may name a place of its   *)
(* own for the node.  Nodes do not influence each other.                   *)
(***************************************************************************)
EXTENDS Integers

CONSTANTS
  Addresses,  \* public addresses of the node
  None,       \* no public address known
  Handlers,   \* handlers of /api/v1/metrics
  Unknown,    \* no place
  Override    \* the place in config.json

ASSUME LocationAssumption ==
  /\ None \notin Addresses
  /\ {Unknown, Override} \cap Addresses = {} /\ Unknown # Override

VARIABLES
  overridden,  \* whether config.json names a place
  stored,      \* address and place in the store
  observed,    \* history: the address observed last
  report,      \* per handler, where it stands
  loop,        \* where locationLoop stands and the address it works on
  lastIP,      \* the address it looked at last
  due          \* whether the time it set has come

locationVars == <<overridden, stored, observed, report, loop, lastIP, due>>

NoReport == [step |-> "none", ip |-> None, peer |-> None]
Idle == [step |-> "wait", ip |-> None]

(* The node has registered; config.json is read at the start of Central.   *)
LocationInit ==
  /\ overridden \in BOOLEAN
  /\ stored \in {[ip |-> a, place |-> p] : a \in Addresses, p \in Addresses \cup {Unknown}}
                \cup {[ip |-> None, place |-> Unknown]}
  /\ stored.place \in {stored.ip, Unknown}
  /\ observed = stored.ip
  /\ report = [h \in Handlers |-> NoReport]
  /\ loop = Idle /\ lastIP = None /\ due = TRUE

(* A mutant of SetLocation: the address of the store is not compared. *)
SetLocationAnyway(loc) ==
  stored' = [loc EXCEPT !.ip = IF loc.ip = None THEN stored.ip ELSE loc.ip]

(* Store.SetLocation refuses a place of another address.                   *)
SetLocation(loc) ==
  stored' = IF loc.ip # None /\ stored.ip # None /\ loc.ip # stored.ip THEN stored
            ELSE [loc EXCEPT !.ip = IF loc.ip = None THEN stored.ip ELSE loc.ip]

-----------------------------------------------------------------------------
(* A metric with the address the agent has detected, if any, from a peer   *)
(* whose address is public or not.  observePublicIP compares the address   *)
(* with the store first.                                                   *)
Observe(h, ip, peer) ==
  /\ report[h].step = "none"
  /\ report' = [report EXCEPT ![h] =
       [step |-> IF ip \in {None, stored.ip} THEN "fill" ELSE "set", ip |-> ip, peer |-> peer]]
  /\ UNCHANGED <<overridden, stored, observed, loop, lastIP, due>>

(* Store.SetPublicIP: a new address has no place.                          *)
SetPublicIP(h) ==
  /\ report[h].step = "set"
  /\ LET ip == report[h].ip IN
     /\ stored' = IF stored.ip = ip THEN stored ELSE [ip |-> ip, place |-> Unknown]
     /\ observed' = ip
  /\ report' = [report EXCEPT ![h].step = IF overridden THEN "override" ELSE "fill"]
  /\ UNCHANGED <<overridden, loop, lastIP, due>>

SetOverride(h) ==
  /\ report[h].step = "override"
  /\ SetLocation([ip |-> report[h].ip, place |-> Override])
  /\ report' = [report EXCEPT ![h].step = "fill"]
  /\ UNCHANGED <<overridden, observed, loop, lastIP, due>>

(* Store.FillPublicIP, with the address of the peer.                       *)
Fill(h) ==
  /\ report[h].step = "fill"
  /\ LET peer == report[h].peer IN
     IF stored.ip = None /\ peer # None
     THEN stored' = [stored EXCEPT !.ip = peer] /\ observed' = peer
     ELSE UNCHANGED <<stored, observed>>
  /\ report' = [report EXCEPT ![h] = NoReport]
  /\ UNCHANGED <<overridden, loop, lastIP, due>>

-----------------------------------------------------------------------------
(* A round of locationLoop reads the node when its time has come or its    *)
(* address is another one.                                                 *)
LookAt ==
  /\ loop.step = "wait" /\ (due \/ lastIP # stored.ip)
  /\ lastIP' = stored.ip /\ due' = FALSE
  /\ loop' = [step |-> IF overridden THEN "override"
                       ELSE IF stored.ip = None THEN "wait" ELSE "resolve",
              ip |-> stored.ip]
  /\ UNCHANGED <<overridden, stored, observed, report>>

ApplyOverride ==
  /\ loop.step = "override"
  /\ SetLocation([ip |-> loop.ip, place |-> Override])
  /\ loop' = Idle
  /\ UNCHANGED <<overridden, observed, report, lastIP, due>>

(* geo.Resolve: one database, or both, give the place; or they contradict  *)
(* each other, and there is none; or neither answers.                      *)
Resolve ==
  /\ loop.step = "resolve"
  /\ \/ \E place \in {loop.ip, Unknown} : SetLocation([ip |-> loop.ip, place |-> place])
     \/ UNCHANGED stored
  /\ loop' = Idle
  /\ UNCHANGED <<overridden, observed, report, lastIP, due>>

(* The time the loop has set comes: minutes to a day, by the outcome.      *)
ComeDue ==
  /\ ~due
  /\ due' = TRUE
  /\ UNCHANGED <<overridden, stored, observed, report, loop, lastIP>>

LocationNext ==
  \/ LookAt \/ ApplyOverride \/ Resolve \/ ComeDue
  \/ \E h \in Handlers :
       \/ SetPublicIP(h) \/ SetOverride(h) \/ Fill(h)
       \/ \E ip, peer \in Addresses \cup {None} : Observe(h, ip, peer)

LocationSpec == LocationInit /\ [][LocationNext]_locationVars

-----------------------------------------------------------------------------
LocationTypeOK ==
  /\ overridden \in BOOLEAN /\ due \in BOOLEAN
  /\ stored \in [ip : Addresses \cup {None}, place : Addresses \cup {Unknown, Override}]
  /\ report \in [Handlers -> [step : {"none", "set", "override", "fill"},
                              ip : Addresses \cup {None}, peer : Addresses \cup {None}]]
  /\ loop \in [step : {"wait", "override", "resolve"}, ip : Addresses \cup {None}]
  /\ lastIP \in Addresses \cup {None}

(* The store keeps the address that was observed last, and the place shown *)
(* is the place of this address: an answer of the databases, or a place of *)
(* config.json, that arrives after the address has changed neither brings  *)
(* the old address back nor puts the old place beside the new one.         *)
PlaceOfAddress ==
  /\ stored.ip = observed
  /\ stored.place \in {stored.ip, Unknown, Override}
  /\ stored.place = Override => overridden
=============================================================================
