------------------------------ MODULE Metering ------------------------------
(***************************************************************************)
(* Traffic accounting: from the byte counters of a server's network cards  *)
(* to the two figures Central shows of it, the bytes of each calendar day  *)
(* (storage: UpdateMetric, addDailyTraffic) and the bytes of the last 24   *)
(* hours (central/host_traffic.go).                                        *)
(*                                                                         *)
(* The node reports its counters once per unit of time; a report may be    *)
(* lost or handled a unit late.  Central stores the newest one, samples    *)
(* it, and saves the two histories in two files of their own at different  *)
(* times.  Counters restart when the machine reboots or a card is          *)
(* replaced; Central may stop at any moment.                               *)
(*                                                                         *)
(* One unit stands for 30 seconds, the bound of freshness in the code.     *)
(* Only one of the two directions is counted: the code treats them alike.  *)
(* Central's figures are fractions; they are kept as multiples of 1/Scale. *)
(***************************************************************************)
EXTENDS Integers, Sequences, FiniteSets, FiniteSetsExt, SequencesExt

CONSTANTS
  Cards,        \* network cards of the node
  Packet,       \* bytes of one burst of traffic
  Window,       \* hostWindow: what "24 hours" stands for
  Extra,        \* how much longer a silent node and long gaps are kept
  Bucket,       \* length of a minute bucket
  Fresh,        \* age of a contact, and silence, that still counts as live
  Lag,          \* silence that is forgiven once after a restart
  SaveEvery,    \* time between two saves of the 24-hour history
  FlushEvery,   \* time between two saves of the store
  Day,          \* length of a calendar day
  Retain,       \* days kept by pruneDaily
  Scale,        \* denominator of Central's figures
  Nothing,      \* no metric, no history
  Horizon,      \* bound: the end of the modelled time
  Plans         \* bound: how often each thing may happen in one behaviour

ASSUME MeteringAssumption ==
  /\ {Packet, Window, Bucket, Fresh, SaveEvery, FlushEvery, Day, Retain, Scale, Horizon}
       \subseteq Nat \ {0}
  /\ {Extra, Lag} \subseteq Nat
  /\ \A plan \in Plans : plan \in
       [{"bursts", "restarts", "lost", "late", "stops", "refused"} -> Nat]
  /\ Fresh <= Lag /\ IsFiniteSet(Cards)

(* A silence that is forgiven is short enough to be spread whole, and      *)
(* Scale fine enough for what each minute gets of it: Central's figures    *)
(* are floating point.                                                     *)
ASSUME FigureAssumption ==
  /\ Lag <= Window + Extra
  /\ \A n \in 1 .. Lag : (Scale \div n) * n = Scale

VARIABLES
  now,        \* the time, in units
  moved,      \* moved[t]: bytes the node had moved in all at time t
  node,       \* boot, network source and counters of the node; whole (history):
              \* no counter was restarted so far
  sent,       \* when the node last reported
  wire,       \* metrics on their way to Central
  running,    \* whether Central runs
  store,      \* the node in Central's memory: latest, contact, daily
  storeFile,  \* the same in state.json
  lastFlush,  \* when it was last saved
  host,       \* its 24-hour history in memory
  hostFile,   \* the same in host-traffic.json
  resuming,   \* h.resume: loaded, and not sampled since
  lastSave,   \* when the history was last saved, or tried to
  looked,     \* hostTrafficLoop has seen the present state of the store
  left        \* how often each thing may still happen

nodeVars == <<moved, node, sent>>
storeVars == <<running, store, storeFile, lastFlush>>
hostVars == <<host, hostFile, resuming, lastSave>>
meterVars == <<now, nodeVars, wire, storeVars, hostVars, looked, left>>

-----------------------------------------------------------------------------
(* What a metric says of the traffic.                                      *)

PhysicalNIC == "physical-nic-v2"   \* model.NetworkSource
Legacy == ""                       \* an agent that sends totals only

Total(counters) == MapThenSumSet(LAMBDA c : counters[c].bytes, Cards)

NewMetric == [at |-> now, source |-> node.source, boot |-> node.boot,
              counters |-> node.counters]

(* NetworkDelta: every card must be the one it was and have gone on.       *)
DeltaValid(old, new) ==
  \A c \in Cards : /\ new[c].index = old[c].index
                   /\ new[c].bytes >= old[c].bytes

Delta(old, new) == Total(new) - Total(old)

-----------------------------------------------------------------------------
(* The bytes of a calendar day.                                            *)

DateOf(t) == t \div Day

(* What addDailyTraffic attributes to the interval between two metrics.    *)
DailyBytes(prev, next) ==
  IF Legacy = prev.source /\ Legacy = next.source
    THEN IF Total(next.counters) >= Total(prev.counters)
           THEN Delta(prev.counters, next.counters) ELSE 0
  ELSE IF /\ PhysicalNIC = next.source /\ prev.source = next.source
          /\ prev.boot = next.boot
          /\ DeltaValid(prev.counters, next.counters)
    THEN Delta(prev.counters, next.counters)
    ELSE 0

(* The part of v bytes moved in [from, to] that falls before t.            *)
Share(v, from, to, t) == (v * (t - from)) \div (to - from)

(* The dates an interval is spread over, the retained ones at most.        *)
DatesBetween(prev, next) ==
  Max({DateOf(prev.at), DateOf(next.at) - (Retain - 1)}) .. DateOf(next.at - 1)

(* A mutant of OfDay: each day's part is rounded by itself. *)
OfDayRounded(d, v, prev, next) ==
  (v * (Min({(d + 1) * Day, next.at}) - Max({d * Day, prev.at})))
    \div (next.at - prev.at)

OfDay(d, v, prev, next) ==
  Share(v, prev.at, next.at, Min({(d + 1) * Day, next.at}))
    - Share(v, prev.at, next.at, Max({d * Day, prev.at}))

OnDate(daily, d) == IF d \in DOMAIN daily THEN daily[d] ELSE 0

AddDailyTraffic(daily, prev, next) ==
  IF prev = Nothing \/ DailyBytes(prev, next) = 0 THEN daily
  ELSE LET v == DailyBytes(prev, next)
           dates == DatesBetween(prev, next)
       IN [d \in DOMAIN daily \cup dates |->
             OnDate(daily, d) + IF d \in dates THEN OfDay(d, v, prev, next) ELSE 0]

(* A mutant of PruneDaily: one day too many is kept. *)
PruneDailyLate(daily) ==
  [d \in {e \in DOMAIN daily : Cardinality({f \in DOMAIN daily : f > e}) <= Retain}
     |-> daily[d]]

PruneDaily(daily) ==
  [d \in {e \in DOMAIN daily : Cardinality({f \in DOMAIN daily : f > e}) < Retain}
     |-> daily[d]]

(* UpdateMetric: only what is newer than the latest metric counts.         *)
Newer(m, s) == s.latest # Nothing => m.at > s.latest.at

UpdateMetric(s, m) ==
  IF ~Newer(m, s) THEN s
  ELSE [s EXCEPT
          !.latest = m,
          !.daily = PruneDaily(AddDailyTraffic(
                      [d \in DOMAIN s.daily \cup {DateOf(m.at)} |-> OnDate(s.daily, d)],
                      s.latest, m)),
          !.known = @ \cup {m.at}]      \* history: the metrics counted

-----------------------------------------------------------------------------
(* The bytes of the last 24 hours: hostTraffic.sample.                     *)

Usable(m, contact) ==
  m # Nothing /\ m.source = PhysicalNIC /\ contact # Nothing /\ now - contact <= Fresh

NewHistory(m) ==
  [first |-> now, last |-> now, gap |-> now, boot |-> m.boot,
   counters |-> m.counters, metric |-> m.at, buckets |-> <<>>,
   since |-> m.at]                       \* history: its first metric

WasReset(p, m) == m.boot # p.boot \/ ~DeltaValid(p.counters, m.counters)

(* The interval since the last sample, cut at the minutes.                 *)
SpreadFrom(p) == Max({p.last, now - Window - Extra})

(* A mutant of Pieces: the bytes are not divided between the minutes. *)
PiecesUndivided(p, m) ==
  LET from == SpreadFrom(p)
      first == from \div Bucket
      last == (now - 1) \div Bucket
  IN [i \in 1 .. (last - first + 1) |->
        [start |-> Max({from, (first + i - 1) * Bucket}),
         end |-> Min({now, (first + i) * Bucket}),
         bytes |-> Scale * Delta(p.counters, m.counters)]]

Pieces(p, m) ==
  LET v == Scale * Delta(p.counters, m.counters)
      from == SpreadFrom(p)
      first == from \div Bucket
      last == (now - 1) \div Bucket
      start(k) == Max({from, k * Bucket})
      end(k) == Min({now, (k + 1) * Bucket})
  IN [i \in 1 .. (last - first + 1) |->
        [start |-> start(first + i - 1), end |-> end(first + i - 1),
         bytes |-> (v * (end(first + i - 1) - start(first + i - 1)))
                     \div (now - p.last)]]

(* The first piece goes on with the last bucket when it is of its minute.  *)
Continues(buckets, piece) ==
  /\ buckets # <<>>
  /\ Last(buckets).start \div Bucket = piece.start \div Bucket
  /\ Last(buckets).end = piece.start

Extended(buckets, pieces) ==
  IF pieces = <<>> THEN buckets
  ELSE IF Continues(buckets, pieces[1])
    THEN Front(buckets)
           \o <<[Last(buckets) EXCEPT !.end = pieces[1].end, !.bytes = @ + pieces[1].bytes]>>
           \o Tail(pieces)
    ELSE buckets \o pieces

(* A silence makes a gap, except the one of a restart.                     *)
Interrupted(p) == now - p.last > Fresh /\ ~(resuming /\ now - p.last <= Lag)

(* A mutant of Advanced: a restarted counter leaves no gap. *)
AdvancedQuietly(p, m) ==
  [p EXCEPT !.gap = IF Interrupted(p) THEN now ELSE @,
            !.buckets = IF WasReset(p, m) THEN @ ELSE Extended(@, Pieces(p, m)),
            !.boot = m.boot, !.counters = m.counters,
            !.last = now, !.metric = m.at]

Advanced(p, m) ==
  [p EXCEPT !.gap = IF WasReset(p, m) \/ Interrupted(p) THEN now ELSE @,
            !.buckets = IF WasReset(p, m) THEN @ ELSE Extended(@, Pieces(p, m)),
            !.boot = m.boot, !.counters = m.counters,
            !.last = now, !.metric = m.at]

Advances(p, m) == p # Nothing /\ m.at > p.metric /\ now > p.last

Sampled(p, m, contact) ==
  IF ~Usable(m, contact) THEN p
  ELSE IF p = Nothing THEN NewHistory(m)
  ELSE IF Advances(p, m) THEN Advanced(p, m) ELSE p

(* A history that ended is dropped, and buckets that left the window.      *)
Collected(p) ==
  IF p = Nothing \/ now - p.last > Window + Extra THEN Nothing
  ELSE [p EXCEPT !.buckets =
          LET keep == {i \in DOMAIN @ : @[i].end >= now - Window - Bucket}
          IN IF keep = {} THEN <<>> ELSE SubSeq(@, Min(keep), Len(@))]

-----------------------------------------------------------------------------
(* hostBreakdown: the figure shown and whether it is complete.             *)

Cut == now - Window

InWindow(b) ==
  IF b.end <= Cut \/ b.start >= now THEN 0
  ELSE (b.bytes * (Min({b.end, now}) - Max({b.start, Cut}))) \div (b.end - b.start)

Figure(p) == FoldLeft(LAMBDA sum, b : sum + InWindow(b), 0, p.buckets)

Complete(p) == p.first <= Cut /\ p.gap <= Cut /\ now - p.last <= Fresh

-----------------------------------------------------------------------------
NoCounters == [c \in Cards |-> [index |-> 1, bytes |-> 0]]
NewStore == [latest |-> Nothing, contact |-> Nothing, daily |-> <<>>, known |-> {}]

MeterInit ==
  /\ now = 0 /\ moved = <<0>> /\ sent = Nothing
  /\ node \in {[boot |-> 0, source |-> s, counters |-> NoCounters, whole |-> TRUE] :
                s \in {PhysicalNIC, Legacy}}
  /\ wire = {}
  /\ running = TRUE /\ looked = FALSE
  /\ store = NewStore /\ storeFile = NewStore /\ lastFlush = 0
  /\ host = Nothing /\ hostFile = Nothing /\ resuming = FALSE
  /\ lastSave = Nothing
  /\ left \in Plans

Moved(t) == moved[Min({Max({t, 0}), now}) + 1]

Spend(what) == /\ \A w \in what : left[w] > 0
               /\ left' = [w \in DOMAIN left |-> left[w] - IF w \in what THEN 1 ELSE 0]

(* A file is read again only after a stop: without one left, its content   *)
(* is of no consequence.                                                   *)
FilesMatter == left.stops > 0
FlushDue == FilesMatter /\ now - lastFlush >= FlushEvery

(* Every unit's request is handled before Central's rounds, unless late.   *)
Arrived == sent = now /\ \A m \in wire : m.at = now => left.late > 0

-----------------------------------------------------------------------------
(* The node.                                                               *)

Carry(card) ==
  /\ node' = [node EXCEPT !.counters[card].bytes = @ + Packet]
  /\ moved' = Append(moved, Moved(now) + Packet)

Idle == node' = node /\ moved' = Append(moved, Moved(now))

(* A unit passes: the node has reported in it, and Central has done what   *)
(* is due, its rounds are six to a unit.  A request that is neither        *)
(* handled nor lost is handled late, within the server's time limits.      *)
PassUnit ==
  /\ now < Horizon /\ sent = now /\ (running => looked /\ ~FlushDue)
  /\ now' = now + 1
  /\ wire' = IF running THEN {m \in wire : m.at = now} ELSE {}
  /\ LET late == IF wire' = {} THEN {} ELSE {"late"} IN
       \/ Idle /\ Spend(late)
       \/ \E card \in Cards : Carry(card) /\ Spend(late \cup {"bursts"})
  /\ looked' = FALSE
  /\ UNCHANGED <<sent, storeVars, hostVars>>

(* The machine reboots, a card is replaced, or the agent is brought up to  *)
(* date and reads the cards from now on.                                   *)
Reboot == node' = [node EXCEPT !.boot = @ + 1, !.whole = FALSE,
                               !.counters = [c \in Cards |-> [@[c] EXCEPT !.bytes = 0]]]
Replace(card) == node' = [node EXCEPT !.whole = FALSE,
                            !.counters[card] = [index |-> @.index + 1, bytes |-> 0]]
Upgrade == /\ node.source = Legacy
           /\ node' = [node EXCEPT !.source = PhysicalNIC, !.whole = FALSE]

RestartCounters ==
  /\ sent # now /\ Spend({"restarts"})
  /\ Reboot \/ Upgrade \/ \E card \in Cards : Replace(card)
  /\ UNCHANGED <<now, moved, sent, wire, storeVars, hostVars, looked>>

(* sendMetric: the newest sample goes out, and may be lost.                *)
Report ==
  /\ sent # now /\ sent' = now
  /\ \/ wire' = wire \cup {NewMetric} /\ left' = left
     \/ wire' = wire /\ Spend({"lost"})
  /\ UNCHANGED <<now, moved, node, storeVars, hostVars, looked>>

-----------------------------------------------------------------------------
(* Central.                                                                *)

(* The metric handler: RecordContact, then UpdateMetric.                   *)
HandleMetric(m) ==
  /\ running /\ m \in wire
  /\ wire' = wire \ {m}
  /\ store' = UpdateMetric([store EXCEPT !.contact = now], m)
  /\ looked' = FALSE
  /\ UNCHANGED <<now, nodeVars, running, storeFile, lastFlush, hostVars, left>>

(* One round of hostTrafficLoop; a save is due at the first one.           *)
SaveDue == lastSave # Nothing => now - lastSave >= SaveEvery

HostRound ==
  LET p == Collected(Sampled(host, store.latest, store.contact)) IN
  /\ running /\ Arrived /\ ~looked /\ looked' = TRUE
  /\ host' = p
  /\ resuming' = /\ resuming /\ p # Nothing
                 /\ ~(Usable(store.latest, store.contact) /\ Advances(host, store.latest))
  /\ lastSave' = IF SaveDue THEN now ELSE lastSave
  /\ \/ hostFile' = (IF SaveDue /\ FilesMatter THEN p ELSE hostFile) /\ left' = left
     \/ SaveDue /\ FilesMatter /\ Spend({"refused"}) /\ hostFile' = hostFile
  /\ UNCHANGED <<now, nodeVars, wire, storeVars>>

(* FlushLoop.                                                              *)
FlushStore ==
  /\ running /\ Arrived /\ FlushDue
  /\ lastFlush' = now /\ storeFile' = store
  /\ UNCHANGED <<now, nodeVars, wire, running, store, hostVars, looked, left>>

Stop ==
  /\ running /\ Spend({"stops"})
  /\ running' = FALSE /\ looked' = FALSE
  /\ store' = NewStore /\ host' = Nothing /\ resuming' = FALSE /\ lastSave' = Nothing
  /\ lastFlush' = now
  /\ UNCHANGED <<now, nodeVars, wire, storeFile, hostFile>>

(* storage.Open and openHostTraffic.                                       *)
Start ==
  /\ ~running /\ running' = TRUE
  /\ store' = storeFile /\ host' = hostFile /\ resuming' = (hostFile # Nothing)
  /\ lastFlush' = now
  /\ UNCHANGED <<now, nodeVars, wire, storeFile, hostFile, lastSave, looked, left>>

MeterNext ==
  \/ PassUnit \/ RestartCounters \/ Report
  \/ \E m \in wire : HandleMetric(m)
  \/ HostRound \/ FlushStore \/ Stop \/ Start

MeterSpec == MeterInit /\ [][MeterNext]_meterVars

-----------------------------------------------------------------------------
(* Metrics, stored nodes and histories have their types; a history's       *)
(* buckets follow one another and end with its last sample.                *)
Metrics ==
  [at : 0 .. Horizon, source : {PhysicalNIC, Legacy}, boot : Nat,
   counters : [Cards -> [index : Nat, bytes : Nat]]]

(* "No metric" is not a metric: a nil pointer in the code.                  *)
ASSUME NothingAssumption == Nothing \notin Metrics

StoreOK(s) ==
  /\ s.latest \in Metrics \cup {Nothing}
  /\ s.contact \in (0 .. now) \cup {Nothing}
  /\ \A d \in DOMAIN s.daily : d \in Nat /\ s.daily[d] \in Nat
  /\ Cardinality(DOMAIN s.daily) <= Retain

HistoryOK(p) ==
  p = Nothing \/
  /\ p.first <= p.gap /\ p.gap <= p.last /\ p.last <= now
  /\ \A i \in DOMAIN p.buckets :
       /\ p.buckets[i].start < p.buckets[i].end /\ p.buckets[i].end <= p.last
       /\ i > 1 => p.buckets[i - 1].end <= p.buckets[i].start

MeterTypeOK ==
  /\ wire \subseteq Metrics
  /\ StoreOK(store) /\ StoreOK(storeFile)
  /\ HistoryOK(host) /\ HistoryOK(hostFile)

(* No byte is counted twice: whatever was lost, repeated after a stop or   *)
(* restarted, the buckets of a history hold at most what the node moved    *)
(* between the first and the last metric of it.                            *)
NeverOvercounts ==
  host # Nothing =>
    FoldLeft(LAMBDA sum, b : sum + b.bytes, 0, host.buckets)
      <= Scale * (Moved(host.metric) - Moved(host.since))

(* A figure shown without the mark of an incomplete one is the node's      *)
(* traffic of about 24 hours: nothing moved later than After units from    *)
(* their beginning is missing, whatever silences, stops and restarted      *)
(* counters there were, and nothing moved earlier than Before units from   *)
(* there is counted, unless a silence ended in the minute they begin in.   *)
Before == Bucket + Lag + Fresh - 1
After == Bucket + Lag - 2

CompleteIsTrue ==
  running /\ host # Nothing /\ Complete(host) =>
    /\ host.gap <= Bucket * (Cut \div Bucket) =>
         Figure(host) <= Scale * (Moved(host.metric) - Moved(Cut - Before))
    /\ Figure(host) >= Scale * (Moved(host.metric) - Moved(Cut + After))

(* The days add up: they hold every byte between the first and the latest  *)
(* metric unless a counter was restarted or a day was dropped, never more, *)
(* and no day holds bytes moved outside the metrics around it.             *)
DailySum == MapThenSumSet(LAMBDA d : store.daily[d], DOMAIN store.daily)
Around(d) ==
  LET before == {t \in store.known : t <= d * Day}
      after == {t \in store.known : t >= (d + 1) * Day}
  IN [from |-> IF before = {} THEN Min(store.known) ELSE Max(before),
      to |-> IF after = {} THEN Max(store.known) ELSE Min(after)]

DailyExact ==
  store.latest # Nothing =>
    LET all == Moved(store.latest.at) - Moved(Min(store.known)) IN
    /\ DailySum <= all
    /\ node.whole /\ DateOf(store.latest.at) - DateOf(Min(store.known)) < Retain
         => DailySum = all
    /\ \A d \in DOMAIN store.daily :
         store.daily[d] <= Moved(Around(d).to) - Moved(Around(d).from)
=============================================================================
