# A verification project for MarzWatch

TLA+ models, model-checking runs and machine-checked proofs for MarzWatch, the
monitor of Marzban/Xray node fleets in `src/`. The project follows the code that
is *built*: `scripts/apply_*.py` rewrite some of the Go sources before they are
compiled, and where a rewrite changes a modelled handler the models follow the
rewritten one and `PROJECT.json` maps the definition to the script's lines.

Contents: 1 the system, 2 the plan, 3 modules and code, 4 runs, 5 bounds,
6 fairness and stopping, 7 proofs, 8 disagreements found, 9 what is not modelled.

## 1. The system

One **Central** server and any number of **nodes**. On a node run the agent
(`internal/agent`) and, as root, the removal helper (`scripts/node_remove.py`).
Agents talk to Central over HTTPS with HMAC-signed requests; Central shows the
fleet in a web panel and in Telegram. Central keeps `state.json` (nodes, machine
keys, telemetry), `node-removals.json` (the removal journal), `forum.json` (the
Telegram topics and messages it owns), the history of the last 24 hours of
traffic, and reads `config.json` (aliases, written by the `merge-nodes` command).

| component | state | operations | what is hard | what makes it correct | modelled by |
|---|---|---|---|---|---|
| Identity store `storage/` | nodes with secret, machine key, last contact; aliases; `state.json` | Open, Register, RecordContact, BindServerKey, Expire, DeleteIDs, ApplyAliases, Flush | every write may be refused; stops between memory and disk; several goroutines | what was promised is on disk; nobody is forgotten without a reason; one listed node per machine; aliases sound | `NodeStore`, `NodeLifecycle` |
| Central handlers and removal journal `central/server.go`, `node_removal.go`, `stale.go` | journal, revoked set, capability hints, `removalMu` | register, metrics, remove from the list, request an uninstall, node action, start-up | the lookup before the lock; requests that outlive their sender; two files written one after the other | revoked stays revoked, removed stays out, decided stays decided | `NodeLifecycle` |
| Agent `agent/agent.go`, `removal.go`, `machine.go` | identity file, registering or sending, the removal signal | register, sendLoop, resetIdentity, signal | lost replies, reinstallation, cloned machines | an unknown agent finds back; an identity is kept unless Central disowns it | `NodeLifecycle` |
| Removal helper `scripts/node_remove.py` | the request file, the phase, the remaining attempts | start, poll, preflight, accept, cleanup, complete, failed | unknown outcomes, failure half way, Central stopping in any phase | a machine is cleaned only on record; an uninstall ends | `NodeLifecycle` |
| Merge command `cmd/marzwatch/merge.go` | `config.json` | validate, write | runs beside Central on a file that changes | Central can start with what it accepted | `NodeLifecycle` |
| Presence registry, sender, receiver `presence/registry.go`, `agent/presence.go`, `central/presence.go` | epoch, number, accounts and retired epochs of each node; the sender's last acknowledged sample | Packet, Ack, Resync, Apply, Snapshot | changes against a sample the other side may not hold; late, lost and repeated packets; limits | what is shown is exactly one sample; it is never older; nothing is kept of a node that left | `Presence` |
| Presence collector and binding `presence/collector.go`, `binding.go` | generation, connections | Sample | a core restarts during a sample | no sample against an old attestation | as an input of `Presence` |
| Presence enrollment and reconciler `presence_auto.go`, `presence_enrollment.go`, `scripts/presence_*.py` | enrollment reports, the scope file, the reconciler's journal | report, plan, restart a core once, publish the scope | side effects at the panel between two journal writes; stale plans | no second restart; the denominator never shrinks silently | section 9 |
| Telemetry mailbox and cadence `agent/telemetry.go`, `cadence/` | one newest sample; an estimate of Central's clock; the next slot | offer, drain, put, receive, observe, delay | drain and refill in two steps while the sender receives; the estimate jumps during a sleep | no slot sampled twice, none waited for | `Sampling` |
| Alerts `central/server.go` | a tracker per node with hysteresis counters | evaluate, offlineLoop, purge | snapshot before the lock; a tracker kept over an unlock | alerts follow the nodes | `Alerts` |
| Live cards and topics `telegram/live_*.go`, `central/forum*.go` | topic, message and pending intents of every card; `forum.json` | create a topic, send, edit, replace, forget, clean up orphans | outcome of a call unknown; a stop between intent and result; people delete things | no duplicate card, none forgotten, all current in the end | `LiveCards` |
| Group pacing `telegram/bot.go`, `fast_edit.go` | next turn, cooldown, edit spacing | write, edit, answer | two kinds of requests share one state | Telegram's cooldown is kept | `Pacing` |
| Rename cleanup `telegram/topic_cleanup.go` | polling offset, its file | poll, delete, save | a failed deletion in a batch; a refused write; a stop | no own rename passed over | `TopicCleanup` |
| Host and daily traffic `central/host_traffic.go`, `storage/traffic_day.go` | last counters, buckets, days; two files | observe, split at midnight, sample, save | counter resets, cards replaced, late reports, files saved at different times | nothing counted twice; what is not marked incomplete is exact | `Metering` |
| PasarGuard meter `central/pg_traffic.go`, `scripts/pg_meter.py` | durable baseline, rolling window | sample, save, read | repeated and out-of-order samples | counted once; incomplete is marked | section 9 |
| Web panel `central/web_panel.go` | latest frame, kept frames, wake-up channel, slots | publish, join, send, wait | a frame published while one is sent | no lost wake-up | `WebFeed` |
| Location and address `central/location.go`, `ip_refresh.go` | address and place of a node | observe, fill, look up, set | an answer that arrives after the address changed | a place belongs to its address | `Location` |
| Release cache and download `central/release_cache.go`, `agent/release.go` | cached bundle, staging directory, destination | manifest, file, rename | the bundle is switched between two requests | never two releases mixed | `ReleaseFetch` |
| Fleet update, updater, installers `scripts/` | request and seen markers | request, apply, roll back | a stop between two markers | an update is applied at most once | section 9 |
| Metric collector, configuration, commands, formatting | settings | parsing, printing | little | | section 9 |

**Interactions.** The agent's `register` fills the store; `metrics` reads the
store, takes `removalMu` for reading, checks for a revocation, records the contact
and, if the node has none, binds the machine key; it then stores the metric
(`UpdateMetric`: daily traffic, latest counters), observes the address and
evaluates the alerts. The web panel's removal takes `removalMu` for writing,
writes the journal, then purges `state.json`. The answer to a metric packet tells
the agent Central's time and of a pending uninstall; the agent leaves a signal
file that starts the helper, which drives the operation by `poll`, `accept`,
`complete` and `failed` requests. `offlineLoop` announces silent nodes and expires
nodes silent for an hour. `hostTrafficLoop`, `forumLoop`, `locationLoop` and the
web panel's ticker read the store. `receivePresence` authenticates against the
store and feeds the presence registry, which the web panel reads once a second and
thereby cleans. `forumLoop`, the alerts and the rename cleanup share the bot's
pacing of group writes.

`PROJECT.json` lists every component with its status, and under `hazards` each of
the places in this code where a test hardly reaches, with the properties that
cover it or the reason why none does.

## 2. Plan

The order was by what a mistake costs, and all of these are done:

1. `NodeStore`, `NodeLifecycle`: identities from registration to removal. This is
   where a mistake loses a server, doubles it, or cleans the wrong machine.
2. `Presence` with its abstract specification `PresenceView`.
3. `LiveCards`: topics and messages with pending intents over stops and unknown
   outcomes.
4. `Metering`: counters to days and to the last 24 hours, against a reference.
5. The smaller parts, each in a module of its own: `Alerts`, `Sampling`,
   `Pacing`, `TopicCleanup`, `WebFeed`, `Location`, `ReleaseFetch`.
6. The theorems of section 7 on these.

What is left, in this order:

7. The safety properties of removal and merging, the limits of the registry, the
   retired epochs and the types of the cards as theorems (done, section 7).
8. The types of `Metering`, `NeverOvercounts`, `DailyExact` and `CompleteIsTrue` as
   theorems (done, section 7).
9. The reconciler's journal, once the panel's side effects are described in the
   repository, and the fleet update's two markers.

## 3. Modules and code

| module | what it is |
|---|---|
| `NodeStore` | the store's value (`stored`, `key`, `contact`, `alias`) and pure operators for each store operation: `RemovalFamily`, `Without` (DeleteIDs), `ExpiredFamilies`, `Expired`, `AliasesWith`/`AliasesValid` (ApplyAliases), `KeyOwners` |
| `NodeLifecycle` | Central, agents, helpers, network and files as one state machine |
| `NodeLifecycleProofs` | lemmas on the store operators; the type invariant; what is decided and saved stays so |
| `NodeLifecycleRemoval` | what holds of groups of merged identities, machine keys, removals and the helper's exchange |
| `PresenceView` | what a reader of the registry of online accounts may rely on |
| `Presence` | senders, network and registry |
| `PresenceProofs`, `PresenceSafety` | the type invariant; what Central holds is exact, fits the limits, and never comes from a replaced sender; `Presence` implements `PresenceView` |
| `LiveCards` | forum loop, `forum.json`, the Telegram group and the people in it |
| `LiveCardsProofs` | one topic and one message for a card; what exists is on record; no topic is let go; the type invariant |
| `Metering` | a node's counters, its reports, the store's days, the 24-hour history, both files |
| `MeteringProofs` | lemmas on sums, pieces and days; the type invariant; nothing is counted twice; the days add up |
| `MeteringFigures` | what the buckets of a history tell of any moment; a complete figure is true |
| `Alerts`, `Sampling`, `Pacing`, `TopicCleanup`, `WebFeed`, `Location`, `ReleaseFetch` | one of the smaller parts each |
| `ServicesProofs` | theorems about the last six, and the types of all seven |
| `MCNodeLifecycle`, `MCPresence`, `MCLiveCards`, `MCMetering`, `MCServices` | instances for TLC; `MCServices` holds the seven smaller parts |

### NodeLifecycle

| variable | code |
|---|---|
| `up` | the process; `Start` is `Run` up to serving, with `Open`, `ApplyAliases` and `initRemovals`, which may purge again |
| `mem`, `dirty`, `disk` | `Store` in memory, `Store.dirty`, `state.json` |
| `cfg` | `NodeAliases` in `config.json` |
| `journal` | `node-removals.json` and `Server.removals` |
| `capable` | `removalCap`: who announced removal support in the last 15 s |
| `reqs` | metric requests, with the point their handler has reached |
| `acts` | helper requests that Central has not yet handled, their sender waiting or not |
| `givenup` | registrations their agent gave up after 12 s and Central has not yet handled |
| `agent`, `helper`, `signal` | the agent and its identity file, the helper's phase, `remove.request` |

Actions are the code's atomic sections. A registration is handled in one
(`RegisterKnown`, `RegisterNew`), while its agent waits or, after
`LeaveRegistration`, when it has gone on: then Central has an identity nobody was told
of. `metrics` is three steps, because the
removal may run in between: `Lookup` (GetNode, before `removalMu`),
`RecordContact` (under it) and `BindServerKey` (its own lock, its own write). The
operator's part of a removal is `RemoveFromList` and `RequestUninstall`; the
helper's requests are handled by `Poll`, `Decide`, `Complete`, `Confirm` and
`Refuse`, one for each answer of `removeNodeAction`. Every write of Central may be refused (`MaxFaults`); each
handler then does what its error path does: register leaves the new identity in
memory without an answer, Expire undoes, `saveRemoval` keeps the old record, and
`DeleteIDs` puts back the memory it had before a purge that could not be saved. `Stop` may happen at any
step and loses memory and open requests. A sender may give up on any request, and
the request is then handled late or never. `Merge` is the `merge-nodes` command with
its tests, that both nodes were saved with one address and hostname among them
(`SameServer`, any relation between identities). Times are reduced to what the code
compares: a contact is `fresh`, `stale` (silent for an hour), `future` (after the
clock was set back) or `none`; an operation is live or expired.

Abstracted: secrets and signatures (a request is by the identity it names),
telemetry, names and addresses, Telegram messages sent by these handlers.

### Presence

`sender[n]` is `presence.Sender`; `pending` and `reply` are the agent's exchange;
`net` holds the requests whose handler has not ended, `checked` after
`IsActiveNode`; `registry[n]` is `presence.State`. `taken` is a history of every
sample, so that "exactly the sample of that number" can be said. `past` is the
sequence of all epochs an entry has replaced, while `retired` is the code's list,
cut to `Retained` (8 in the code). `RetiredStaysOut` compares the two: an epoch of `past`
that is accepted again has at least `Retained` others behind it.

`Send` is one turn of `presenceLoop`: sample, perhaps a new generation with a new
epoch, the packet, and the request unless the identity file cannot be read (then
the number is drawn, nothing is sent, and the sender is not told). `Timeout`
covers a lost request, a lost reply, a late one, and a request Central turns away
because four are being handled: for the sender these are one case. Full or change,
additions and removals are computed as in `Packet`. `Apply` is `Registry.Apply`
in the order of its tests: repeated, older, retired, not the next, heartbeat,
inconsistent, collection of silent entries, limits, replacement. `Local` is
Central's own source, called without a network. `Snapshot` drops what
`SnapshotWithQuality` drops. An entry's age is `fresh` (shown), `stale` or `old`
(five minutes, collected); a request older than thirty seconds is refused, so
when an entry becomes old, what was sent before its last packet is gone.

Abstracted: how a sample is made (any status, any accounts), the union over the
nodes and the quality blocks (computed from a snapshot, no state), back-off times.
`PresenceView` sees `<<epoch, number>>` as `at` and the accounts, when the entry is
fresh and its source healthy, as `shown`; everything else maps to stuttering. It
promises no order between epochs, and within one only as long as the entry remembers it.

### LiveCards

`mem` and `disk` are `forumState` and `forum.json`, one record for each card: its
topic, its message, the two pending intents, the rendering last shown, and whether
the topic was checked in the last five minutes. `at` is where `forumLoop` stands:
what is left of its round, whether the overview comes first, and the result of the
last call. `topics`, `messages` and `deleted` are the group as Telegram has it.

A round is `StartRound`, then for each card `NextCard`, the steps of
`EnsureLiveTopic` (`Probe`, `IntendTopic`, `Create`, `Created`), those of
`SyncLiveCardLatest` (`CardStart`, `Edit`, `Edited`, `Replace`, `IntendSend`,
`Send`, `Sent`, `Refused`) and `ForgetTopic`, and at its end `DropOrphan` and
`EndRound`. Every call of the Bot API and every write of `forum.json` is a step of
its own, so Central may stop between any two, and each has the outcomes of the
code: answered, refused, failed without an answer with or without effect; saved or
not saved with memory already changed. A text is the number of its rendering,
taken when it is sent. The nodes are visited in any order, for their names and
countries change. `Delete` is what people do in the group, `Lapse` the five minutes or a
new name of a topic.

### Metering

`moved` is the reference: the bytes a node had moved at each time. `node` holds
its boot, cards and counters, `wire` the reports on their way. `store` and
`storeFile` are the part of `state.json` that counts (latest metric, bytes of each
day), `host` and `hostFile` the history of the last 24 hours, saved at times of its
own. `AddDailyTraffic`, `PruneDaily` and `UpdateMetric` are the store's functions;
`Sampled` is `hostTraffic.sample` with its error paths (unusable metric, a new
history, a reset, an interruption, an extension over minute buckets), `Figure` and
`Complete` what `hostBreakdown` shows. `CompleteIsTrue` compares the two: a figure that
is not marked incomplete misses nothing moved since `After` units after the beginning
of the 24 hours and counts nothing moved more than `Before` units ahead of it. These
are the length of a minute, for bytes are spread evenly over the part of a minute they
are counted in, of the silence that is forgiven, and (before only) of the age a
report may have. The upper bound has a condition: `hostBreakdown` asks for `gap <= cut`,
and when a silence ended in the very minute the window begins in, that minute's bucket
holds its share of what was moved during the whole silence, however long it was.
Fractions are kept as multiples of
`1/Scale`. `Report`, `HandleMetric`, `HostRound`, `FlushStore`, `Stop` and `Start`
are the actions of the two programs, the others what befalls the node.

### The smaller parts

* `Alerts`: a tracker of each node; `Accept`, `Evaluate`, `Tell` and `EvalMetric`
  are a handler with its unlocks in between. A node may have as many handlers as
  `Calls` at work, for a message to Telegram may take longer than the 12 s its agent
  waits; `Withdraw` and `Purge` take a node from the store and then its tracker. `Look`,
  `Decide` and `Sent` are `offlineLoop` on its snapshot, in any order of the nodes: `Nodes()` sorts them
  by names, which may change and be equal. Of the resources one is modelled, with the
  four ranges its thresholds tell apart.
* `Sampling`: `Collect`, `Offer`, `Drain`, `Put`, `Rest` are `collectLoop` with
  the steps of `offerLatest`; `Receive`, `Answer`, `Resume` the sender. Times are
  eighths of an interval, and only the phases of the clocks matter.
* `Pacing`: `Begin` of a write or an edit, and its answers, over `groupNext`,
  `groupBlockedUntil` and `editSpacing`; `cooling` and `spaced` are histories of
  what is owed to Telegram.
* `TopicCleanup`: updates arrive, `getUpdates` confirms what is before the
  offset, deletions fail for good or for the moment, the offset is saved or not. Whether
  a topic is Central's own is read from `forum.json` for each update; an unreadable file
  counts as an empty one, and a topic may have been forgotten: `PassBy` goes on as with an
  update that is none of Central's, and `NonePassedOver` leaves these out.
* `WebFeed`: `Publish`, and a viewer's `Join`, copying, reading, sending, waiting.
  A channel is named by the frame it was made for.
* `Location`: metric handlers in two steps beside `locationLoop` in its own; a
  place is named by the address it was looked up for.
* `ReleaseFetch`: one request after the other, each answered from the bundle that
  is current by then.

## 4. Runs

Passing runs check the properties named; for each property `PROJECT.json` names a
mutant, a plausible mistake in one definition, that makes it fail in the same run.

| run | question | properties |
|---|---|---|
| `safety` | identities under removal, uninstallation, reinstallation and merge, with stops, lost requests, refused writes and a clock set back | `TypeOK`, `RevokedNotStored`, `AckedSaved`, `DeletedStaysDeleted`, `KeyUnique`, `AliasesSound`, `RevokedForever`, `RemovedStaysOut`, `FailedIsFinal`, `RevokedSilent`, `ForgottenForAReason`, `CleaningIsOnRecord`, `SavedIdentityUsable`, `CanStartAgain`, `MergesLast` |
| `endings` | does an agent Central does not know find back, and does a started uninstall end on its machine? | `AgentReturns`, `UninstallEnds` (both liveness) |
| `delivery` | presence over a lossy network with three senders in a row | `TypeOK`, `ExactUsers`, `RetiredStaysOut`, `ViewSpec` |
| `registry` | presence at the registry's limits, with nodes leaving and Central restarting | `CapacityKept`, `RetiredForgotten` (liveness) |
| `livecards` | the group's cards over failed calls, refused writes, stops and deletions by people | `TypeOK`, `OneCard`, `Accounted`, `NoTopicLetGo`, `CardsSettle` (liveness) |
| `metering` | traffic over lost and late reports, restarted counters, refused writes and stops | `MeterTypeOK`, `NeverOvercounts`, `CompleteIsTrue`, `DailyExact` |
| `services` | the seven smaller parts | `ServicesTypeOK`, `AlertsSettle` (liveness), `SlotsKept`, `CooldownKept`, `NonePassedOver`, `NoLostWakeup`, `PlaceOfAddress`, `OneRelease` |

`ViewSpec` is the refinement: `Presence` implements `PresenceView!Spec`.
The violation runs `lockedout`, `mergestart`, `relisted`, `phantoms` and `forgotten`
belong to section 8.

On an ordinary machine with two workers a passing run takes between a few seconds
and three minutes; the largest, `delivery`, has 3.1 million states.

## 5. Bounds

Bounds are constants named `Max...` (or `Horizon`, `Plans` in `Metering`), and each
is a guard of the action that counts. They are chosen so that the interesting case
happens at least once and once more than a single-fault argument would need:

* `NodeLifecycle`: one machine and three identities are enough for a node, its
  archived alias and the identity of a reinstallation. One operation in the journal
  (`MaxOps`) suffices for the protocol, as a second one for the same node needs the first to be decided; the proofs cover
  any number. One refused write, one stop and one lost request fall at every point
  of every handler, but not all in one behaviour, for their product is out of
  reach: `SafetyBudgets` lists what may go wrong together, and the action
  constraint `StaysAffordable` keeps a behaviour within one of these budgets, from a
  removal under a stop and a lost request to a wiped machine whose new identity is merged
  before or after a removal or an uninstall is recorded, with a stop. The last one
  is `Prompt`: one request is under way at a time and no node is silent for an hour.
  `LivenessBudgets` does the same for `endings`. Of the steps that fairness speaks of, it
  bounds only the registration of a new identity: where the budget has none left, nothing is
  claimed, as where `AgentReturns` finds that `Ids` has none left.
  The theorems of section 7 hold for all budgets together.
* `Presence`: three epochs of one sender with one retained, so that the list
  overflows; two accounts, so that
  an addition and a removal may meet in one change, in three samples; one exchange
  given up and one packet delivered twice, late in any order. Accounts are
  symmetric in `delivery`. After two replacements the list has forgotten the first
  epoch, and a packet of it is taken for a new sender's: `RetiredStaysOut` says that this
  does not happen earlier. The code keeps eight, and thirty seconds of validity and the
  drawing of one epoch per start or generation make the ninth unreachable in practice.
* `registry` has two places and one account for three sources, so both limits are
  met with one sample of each, while entries age, one node leaves the set that is
  counted and Central restarts once. `MaxLeft` bounds the nodes that are out at
  the same time.
* `LiveCards`: a trouble is a failed call, a refused write, a stop, a deletion by
  people or an aged check. Three troubles with the overview and one node (an
  unanswered creation, a stop and a deletion meet in one behaviour), one trouble
  with two nodes (`BudgetSpec`); a card is independent of the others except for
  the order of the round. One report changes a text after it was sent. `Every = 1`
  shows the overview between two nodes, as the code does after every third.
* `Metering`: nine units of time with days of four and a window of three, so that two
  midnights are passed and traffic can be older than the beginning of the window by more
  than `Before`; bursts of five bytes over gaps of
  several units do not divide evenly. `SidePlans` lists what may happen together.
* `services`: two nodes with two handlers each and thresholds of two samples, so that
  one handler counts between the two samples of another; eight units of an
  interval, so that three quarters of it is exact; spacings and cooldowns that
  overtake each other; four updates, one undeletable, with two stops; three viewers
  for two slots and five frames of which two are kept; two addresses, two handlers;
  two releases that differ in one file. The parts share no state, so each behaviour
  follows one of them (`part`); the theorems of section 7 are about each part's own
  specification.

## 6. Fairness and stopping

`NodeLifecycle!Fairness` assumes: systemd starts Central again (`Start`); agents
keep sending and registering, helpers go on or time out (their loops are timed);
a metric handler ends (weak); a handler of a helper's request gets `removalMu` if
it can infinitely often (strong, because readers come and go; Go's `RWMutex` stops
new readers once a writer waits, so a writer is not passed for ever). Nothing is
assumed about losses, stops, refused writes, the operator or the clock. Agents are
not assumed to be reinstalled and requests given up are not assumed to be handled.

`Presence!FairSpec` assumes only that snapshots are taken: the web panel's ticker
takes one each second. This presumes that a web address is configured
(`WebListen`); without it entries of nodes that left go when a full packet of
another source finds them old.

`LiveCards!FairSpec` assumes that `forumLoop` goes on: it runs on a ticker and each
of its calls ends with the client's timeout of ten seconds. And that systemd starts
Central again. Failures are bounded, so the cards settle after the last one.

`AlertsFairness` assumes that time passes, `offlineLoop` (a ticker) goes on and a
handler that has begun ends. Reports are not assumed: the properties speak of nodes
that stay silent or go on reporting.

The runs set `CHECK_DEADLOCK FALSE` since the modelled systems may rest: when
every machine is uninstalled, the fetch has ended, or a bound of the model is used up.

## 7. Proofs

Checked by TLAPS for every value of the constants.

**NodeLifecycle**: for any number of machines, identities, operations, stops, lost
requests and refused writes. The assumptions:
`StoreAssumption` ("no identity" is not an identity), `LifecycleAssumption` (types
of the constants, `SameServer` among them) and `SettledAssumption` (the system starts from aliases that
`ApplyAliases` accepts, and no two machines share an identity). TLC evaluates them
in the runs. `Next` is split into `CentralNext`, `MetricNext`, ... so each proof has
one step for each action and, below it, one for each part it can disturb.

* `TypeCorrect` (`NodeLifecycleProofs`): `Spec => []TypeOK`. `TypeOK` is inductive
  when split by component (`Typed`): store values are closed under the operators
  (lemmas at the head of the module), then one lemma for each group of actions.
* `RevocationIsPermanent`, `FailureIsFinal` (`NodeLifecycleProofs`): the action
  properties `RevokedForever` and `FailedIsFinal`. They are not inductive by
  themselves: that a decided record is not overwritten relies on its nonce being
  old, that a removal covers its own identity, and that a removed node is not
  `Removable`. `JournalInv` says so, and `JournalStep` abstracts every action to
  what it may write under one identity; both theorems follow from it.
* `AcknowledgedIsSaved`, `DeletionIsSaved`, `AliasesAreSound`: `AckedSaved`,
  `DeletedStaysDeleted`, `AliasesSound`. Their invariant `SavedInv` relates memory,
  disk, configuration and every reply still on its way: disk is a subset of
  memory while Central runs; they hold the same identities when nothing is unsaved;
  an identity that only memory knows was never told to an agent; aliases are sound
  in both.

The theorems of `NodeLifecycleRemoval` need to know how merged identities hang
together, for a removal is about a whole family while registrations, merges and
starts see single identities. `FamilyInv` (`FamilyInvariant`): aliases in memory and
on disk are those of `config.json`, which has no chains; an operation names drawn
identities of one group; a stopped Central has nothing in memory.

* `RevokedIsNotStored`: `RevokedNotStored`. A stop between the journal and
  `state.json` is made good by `initRemovals` before requests are served, and a deleted
  identity is not drawn again (it is in `used`).
* `RegistrationIsUsable`: `SavedIdentityUsable`, from it: what `Register` finds by the
  machine key is stored, hence not revoked. Both speak of behaviours without a
  refused write; `lockedout` shows that the second is false with one.
* `RemovedStaysRemoved`: `RemovedStaysOut`, by the second look `metrics` takes before it
  says that a node is unknown.
* `RevokedIsSilent`: `RevokedSilent`, by the place of that second look: before the
  contact.
* `NothingIsForgotten`: `ForgottenForAReason`, from `FamilyInv` and `JournalInv`: what a
  revoked identity's operation covers is revoked too, as there are no chains.
* `CleaningIsRecorded`: `CleaningIsOnRecord`, from `ExchangeInvariant` (`ExchangeInv`): a
  request whose sender still waits carries the phase, identity and nonce of its
  helper, so an answer is never an answer to something else.
* `KeysAreUnique`: `KeyUnique`. It is not inductive: a removal of an operation
  recorded before a merge takes away an alias, and `BindServerKey` binds a key to the
  listed node of a group whose archived identity may have it. `KeyInv` is what
  survives: two stored identities with one key are archived one into the other.
* `MergesAreLasting`: `MergesLast`, for any number of merges, removals and stops. A removal
  acts on the family recorded when it was requested, so an identity merged since is
  listed again when its node goes (`relisted`, section 8); the theorem says that there is
  no other way. While Central runs, memory and disk have the same aliases
  (`SameAliases`); expiry takes whole families, a start only adds aliases, and a removal
  takes only those with an end it revokes.
* `StartIsPossible`: `CanStartAgain`, for any initial store. One case has to be excepted, and
  `KeysParted` says which: an archived identity came with the key of a machine, the node
  it is archived into without one, and a metric under that node bound the key of
  another machine to it; `ApplyAliases` refuses the group at the next start (section 8).
  `GroupInv` (`GroupInvariant`): before the first merge, groups of the initial
  configuration are stored, recorded and removed as a whole. `FoundInv`: an identity
  found at the beginning keeps its key if it had one or is archived, so the keys of a
  group at a start are those it was found with but for the one of its node.

**Presence**: for any number of nodes, accounts, epochs, samples, losses,
repetitions and restarts. `PresenceAssumption`: the types of the constants, at
least one retired epoch is kept, and nodes and accounts are finitely many (the
limits count them).

* `PresenceTypeCorrect` (`PresenceProofs`): `Spec => []TypeOK`, again
  split by component (`Typed`). `TypeOK` bounds the list of retired epochs for all
  entries at once; `Entries` puts that bound into the set an entry belongs to.
* `RegistryIsExact` (`PresenceSafety`): `ExactUsers`. Nothing in the registry alone
  says why a change may be applied, so `ExactInv` follows a sample from the sender
  to the registry: an entry is a sample that was sent (`RegistryInv`); a packet in
  flight or awaited is its sample, whole or as changes (`Faithful`, in `NetInv` and
  `PendingInv`); and the sender's base, unless it will send the whole set, is a
  sample after which nothing else was sent (`Placed` and `Base`, in `SenderInv`).
  The last part is the argument: an entry whose number directly precedes the
  number of a change was sent, so it is that very base, and the changes meet the
  accounts they were computed against.
* `PresenceImplementsView` (`PresenceSafety`): `Spec => ViewSpec`. Under `ExactInv`
  every step only extends the history (`Grows`) and moves each node by a `ViewStep`:
  the same, hidden, or a later sample (`AppliedStep`).
* `RegistryFits` (`PresenceSafety`): `CapacityKept`, which is inductive. `Apply` counts
  what it keeps and drops what it does not count in the same step, and the packets that
  pass without being counted, heartbeats, keep the accounts they find.
* `ReplacedNeverReturns` (`PresenceSafety`): `RetiredStaysOut`, for any number of epochs.
  `OrderlyInv`: the list of retired epochs holds the last `Retained` ones of `past`
  (`Remembered`), so an accepted epoch, which is not in it, is followed in `past` by at
  least that many.

**LiveCards**: for any number of nodes, rounds, failures, refused writes, stops and
deletions by people. `LiveCardsAssumption`: the nodes are finitely many, the overview is
none of them, and the overview comes back after at least one node.

* `OneOfEach`, `NothingUnaccounted`, `TopicsAreKept` (`LiveCardsProofs`): `OneCard`,
  `Accounted`, `NoTopicLetGo`. That a card has one topic is not inductive: it
  depends on what the loop knows when it creates one. The inductive `Inv` has four
  parts. `Types`. `GroupInv`: messages are in topics that exist, and `OneCard`.
  `RecordsInv`: a record accounts for what the group holds of its card (`Held`: its topic
  is that one, or a creation is unresolved; likewise its message) and names a topic that was
  made for this card (`Own`); this holds on disk for every card but those of nodes
  that left, and in memory for these too as long as the round has not passed them.
  `StepInv`, in `RoundInv`, says what each point of the round has established: before a call
  that creates something nothing of the kind exists and the intent is on disk.
  The actions reduce to few kinds (`Leaves`, `GoesOn`, `SaveLeaves`, `SaveGoesOn`,
  `Calling`), and `OneRecord` shows what a change of one record may do.
* `CardsTypeCorrect`: `TypeOK`, from `Inv` and `BoundsInv`: a record names no message that
  was never sent, and the loop asks to delete only what a record names.

**Metering**: for any number of cards, any lengths of windows, buckets and days, any
losses, delays, stops, refused writes and restarts of counters.
`MeteringAssumption`: the types of the constants, a silence forgiven after a restart
is not shorter than one that counts as live, and the cards are finitely many.
`NothingAssumption`: "no metric" is not a metric. `FigureAssumption`, which only
`CompleteFiguresAreTrue` uses: a silence that is forgiven is no longer than what
`sample` spreads (in the code two minutes against more than a day), and `Scale` is
divisible by every length up to it, for the code's fractions are floating point and
lose nothing that counts when an interval is divided between its minutes.

* `MeterTypeCorrect` (`MeteringProofs`): `MeterTypeOK`. `MeterTyped` gives the types of
  every part and says that a history's buckets follow one another and end no later
  than its last sample (`Follow`), which `Extended` keeps because the pieces of an
  interval follow one another from the last sample on (`PiecesFollow`), and that
  `PruneDaily` leaves at most `Retain` days.
* `NothingCountedTwice` (`MeteringProofs`): `NeverOvercounts`. It is not inductive: the bytes of
  an interval come from two readings of the counters, and nothing in a history says that
  the later one was taken later. `MeterSound` orders the readings: any two that are on
  the wire, in a store or in a history, in memory or on disk, `Followed` one
  another, so the counters differ by what the node moved between them unless the boot
  or the index of a card changed (`ReadingsOrdered`); and every history, on disk too,
  holds at most what was moved up to its metric (`HistoryHolds`). The pieces of an
  interval are rounded down one by one and so hold at most its bytes; dropping
  buckets only takes bytes away.
* `DaysAddUp` (`MeteringProofs`): `DailyExact`, in its three parts. `DaysSound` says it of a store in
  memory and of the one on disk: the days lie between the dates of its first and
  latest metric and hold at most what was moved between these two, exactly that while
  no counter was restarted and no day was dropped, and each day at most what was moved
  between any two known metrics around it (`DaysHold`); and while no counter was
  restarted every metric still to be counted has the source, boot and indices of the
  node (`OfNode`), so that `DailyBytes` is the difference of the totals. The shares of
  an interval add up because each is the difference of two rounded fractions and the
  next one starts where it ended (`Telescoped`, `DaysShare`); `PruneDaily` drops nothing
  while the days span fewer than `Retain` dates.
* `CompleteFiguresAreTrue` (`MeteringFigures`): `CompleteIsTrue`. The figure is about one moment,
  the beginning of the window, which moves on with time, so the invariant
  (`FiguresSound`) must say of a history what its buckets tell of every moment at once.
  `Bounded`: from any bucket after the last gap to the end, the buckets hold at least
  what was moved from `Lag` after that bucket's start to the last metric, and at most
  what was moved since `Lag + Fresh` before it. `Minutely`: a bucket stays within a
  minute, also after it has been continued. `Joined`: between a gap and the last sample
  no time is missing but what was dropped at the beginning. And a sample is at most
  `Fresh + 1` older than its time, because reports that are handled late are at most one
  unit late and those in a store were new when their contact was (`StoreRecent`).
  An extension keeps this since the pieces of an uninterrupted interval divide its bytes
  without remainder (`PiecesDivide`, where `Scale` matters), and one after an
  interruption leaves only the buckets after the new gap to speak of. The figure itself
  is a running total beside that of the bytes (`FigureSteps`): equal from the first bucket
  that begins in the window, zero up to the last that ended before it (`FigureAbove`,
  `FigureBelow`), and `Minutely` bounds where the one in between begins.
* Sums are recursive functions, over a sequence (running totals) or a finite set. What
  is needed of them (a sum does not depend on the order, grows with its terms, is that
  of its parts) is proved by taking a smallest counterexample (`SmallestNat`, from
  `NatLessThanWellFounded`), where no induction theorem has to be instantiated.

**The smaller parts** (`ServicesProofs`): one theorem each, about each part's own
specification and with its own assumption on the constants (`FeedAssumption`,
`PacingAssumption`, `SamplingAssumption`, `CleanupAssumption`,
`LocationAssumption`, `ReleaseAssumption`), and one about the types of all seven.

* `FeedWakes`: `NoLostWakeup`, for any number of viewers and any slots. A viewer waits on the
  channel of the frame it read before it looked for newer ones; if a newer frame
  exists that channel is closed.
* `CooldownIsKept`: `CooldownKept`. The turn that was reserved is after the end of every
  cooldown, whichever kind of request received it.
* `SlotsAreKept`: `SlotsKept`. The distance of two collections is bounded on both sides whatever
  the estimate of Central's clock does during a rest.
* `RenamesAreCleaned`: `NonePassedOver`. The saved offset never passes the one in
  memory, and that one never passes an own rename message that can still be deleted
  and that `forum.json` showed to be one.
* `PlaceFollowsAddress`: `PlaceOfAddress`. An answer is stored only under the lock under which
  the address was compared.
* `ReleaseIsWhole`: `OneRelease`. What is in staging belongs to the manifest the
  fetch began with, or the fetch fails.
* `EveryPartTyped`: `ServicesTypeOK`, about the composition `ServicesSpec`. Each part's
  types are inductive together with its invariant above (`EveryPartInv`): the batch of
  the rename cleanup consists of updates because the offset never passes the newest by
  more than one, the frames a viewer is shown are frames because it has been given some.
  `Alerts` needs an invariant of `offlineLoop` (`ScanInv`): while a message is out, the
  node it is about is still the first of the list. `AlertsAssumption` and
  `RetriesAssumption` say that the nodes and the cooldowns Telegram may ask for (an `int`
  in the code) are finitely many; `LargestOf` gives the largest of them, proved from a
  smallest counterexample as there is no induction over a set here.

Only model-checked: liveness (`AgentReturns`, `UninstallEnds`, `RetiredForgotten`,
`CardsSettle`, `AlertsSettle`), for fairness and ENABLED are out of the provers' reach.
Every other property of a passing run is stated by a theorem, and none of these has a
hypothesis beyond the assumptions on the constants.

## 8. Disagreements found

Each is a run that must end in a violation; `PROJECT.json` quotes the lines.

* `lockedout`: the journal is saved before `state.json` is purged. If the purge is
  refused and the machine is set up from nothing, `Register` finds its machine
  key and hands it the revoked identity; it is refused with 410 for ever
  (`README.md:157-158` promises a new identity).
* `mergestart`: `merge-nodes` validates against a file Central goes on changing.
  What it accepted may be refused by `ApplyAliases` at the restart it asks for, and
  at every later one.
* `relisted`: an operation acts on the family recorded when it was requested. An
  uninstall of a node is requested, another identity of its machine is merged into it,
  Central is restarted and the uninstall completes: the node goes, its alias with it, and
  the archived identity is a server in the list again, although a comment says archived
  nodes "never appear as additional servers" (`storage/identity.go:10-12`).
* `phantoms`: the registry refuses only epochs it has replaced itself. A first
  packet of an epoch it never saw, handled after the first packet of the following
  epoch, replaces the newer sample and retires the sender that is alive, until the
  entry is collected or the agent draws another epoch
  (`docs/online-presence-investigation.md:91-92`).
* `forgotten`: the creation of a node's topic goes unanswered and the node leaves
  before its outcome is resolved. The record names no topic, so orphan cleanup has
  nothing to delete and drops it; if the topic was made, it stays in the group and nothing
  remembers it, although a comment says the cleanup owns the deletion and retries
  its failures.

Two behaviours were met on the way and have no run, as no text of the repository
speaks of them. When all three completions of a cleaned machine go unanswered and
the machine is installed again, it gets its old identity back by its key, and a
late completion then removes it. And the proof of `StartIsPossible` met a way to the failed start of
`mergestart` without a new merge: with an archived identity that has a machine key and
a listed node without one, `BindServerKey` gives the node the key of whichever
machine reports under it; if that is another machine, the two keys of the group differ
and the next start is refused. `CanStartAgain` excepts this case, `KeysParted`, and no other.
One machine cannot part the keys, so in the run `safety` the exception never applies; the
theorem covers it for any number of machines.

## 9. Not modelled

* presence enrollment and the reconciler: the restarts of cores happen inside the
  panel, whose behaviour the repository does not describe;
* the PasarGuard meter: it reads counters of PasarGuard's database and keeps its
  journal in SQLite;
* the fleet update, the updater and the installers: shell around systemd and the
  file system. The updater removes the request at its end, so what happens after a stop
  depends on when systemd starts the script; the hazard is listed;
* the collector of `/proc` and `/sys`, configuration, TLS, the command line, the
  periodic reports: input and output without protocol state;
* formatting, emoji and the texts of messages;
* the patch for Xray: another program;
* the cryptography: a signed request is taken to be from the holder of the secret;
* in `NodeLifecycle` the telemetry stored with a node and the Telegram message that
  `register` sends while it holds `removalMu`;
* in `Metering` the archive of a version 1 history, Central's own entry, the test of the uptime
  beside the boot identifier, the second direction, the sum over the nodes and the
  save at an orderly stop;
* in `LiveCards` the splitting of long private messages and the check of permissions
  before the first round.
