# Mind-Runtime: TLA+ models, model checking and proofs

Mind-Runtime keeps the durable state of a companion agent: facts, affect, intents, memories and
outbound requests, written by turns a Host drives, by a cognitive tick, by a delivery
daemon and by a loop over source rows. Each part keeps its own SQLite tables (or a file), each
write is a transaction of its own, and a process may die between any two. This directory models
the parts whose correctness depends on that, checks them with TLC and proves the central
properties of most of them with TLAPS.

All paths below are relative to `src/src/mind_runtime/` of the repository.

## The system

| Part | State | Operations | What makes it correct |
|---|---|---|---|
| Delivery plane (`delivery/`) | `delivery_requests`, `delivery_receipts`, `delivery_attempts` | `DaemonPass.run`, backend writes, reconcile | bounded attempts, bounded duplication, labels that tell the truth, nothing left behind |
| Kill switch (`delivery/kill_switch.py`) | label, channel and target blocks | set, block, unblock, decide | no carrier call for a route that is off |
| Turn admission and commit (`pipeline/orchestrator.py`, `runtime_admission.py`, `state/persistence.py`) | `states`, `commit_markers`, the admission lease, canonical memory | begin, ingest, run, commit, abort | no lost update, admitted once, lease freed, nothing told and lost |
| Host adapter (`host/runtime_adapter.py`) | terminal records, open turn, proactive admissions | begin/guard/commit/abort, also for proactive turns, consume_wake | at-least-once calls from a Host are safe |
| Checkpoints (`pipeline/checkpoints.py`) | stage per interaction | checkpoint, drop, recover | a restart tells committed from uncommitted turns |
| Cognitive ticker (`cognition/tick.py`) | wakes in memory, `states`, `intents` | tick | one wake per decision, no stale overwrite |
| Intents (`intents/`) | versioned intents and transitions | admit, transition, expire | one life per intent, replays are idempotent |
| Settled-action projection (`projection/`) | markers, frozen plans, counter facts | project | each settled delivery counted once and exactly |
| Facts and reality (`facts/`, `reality/`) | evidence, observations, provenance | admit, arbitrate, repair | replay classification across crashes and writers |
| Inspiration material (`integrations/lce_inspiration.py`) | reservations, consumption | reserve, release, consume | no material used twice, none lost |
| Pending overlay (`memory/pending.py`) | deferred admissions of a turn | park, accept, reject, end of turn, clear | nothing deferred is lost while the process lives |
| Slow plasticity (`slow_plasticity/`, `state/persistence.py`) | window rows, slow states, in-memory windows | accept, stage, flush, discard, reload | the state is that of the window, for every writer |
| Factual state (`state/reconciler.py`, `state/validity.py`) | states, transitions | reconcile, supersede, expire, terminate | no observation rolls a dimension back |
| Acquisition (`shadow/sync.py`, `shadow/backfill.py`) | cursor, `shadow_events`, `shadow_affect` | sync, backfill, label | the cursor never passes a message that is not recorded |
| Source loop (`shadow/`) | source rows, blocked rows, commit markers | pass, process, retry | every row felt once, none shown before its fact |
| Surface handoff (`delivery/surface_handoff.py` and the orchestrator) | the handoff's request, attempts and receipt | hand off, guard, acknowledge | what is acknowledged was guarded |
| Memory (`memory/`) | admission jobs, memories, projection queue, index, threads | register, freeze, complete, project, rebuild, compile, retire | the first frozen draft is the memory; the index follows the store |
| Binding registry (`binding_registry.py`, `persona_publication.py`) | registry file under a lock, persona artifacts | register, set default, pin, publish | it always loads; what was acknowledged stays |
| Emotional transition (`emotional_transition/`, `dynamics/ports.py`) | derived journal of acceptances, projections, supersessions; application receipts | route, accept, materialize, replay, gate, commit, supersede | each accepted candidate evaluated and applied once, by the commit of its interaction |
| Dynamics, homeostasis, expression, surface, decision | mostly pure | advance, judge, compile | numeric and textual, mostly out of reach |
| Observation window (`src/src/observation_window/`) | none of its own but a trace journal | read, render | never changes the runtime |

How they interact. A Host calls its adapter, the adapter its orchestrator. Orchestrators
(one per Host stack, each on its own thread) share one storage namespace; a turn holds
the namespace's admission lease from begin to commit or abort. The ticker writes the
same `states` rows from its own connection without the lease and decides intents of the
same store. A turn with an allowed intent records a delivery request carrying a surface
handoff, which the Host guards and acknowledges; all other requests are driven by the
delivery daemon, which talks to a carrier and a reconciler the repository only knows as
protocols. A settled receipt is projected into counter facts meant for the ticker's policy
(no module under `src/` calls the projector yet).

The hard behaviours are these: crashes between two transactions everywhere; a retry that
meets what the first attempt already wrote; a copy of a message still in transit when
someone asks for it; reads that precede a lock; writers that do not take the lock. They
are listed, line by line, under `hazards` in `PROJECT.json`.

## The modules

* `DeliveryContract` is the abstract specification of the delivery plane: what a
  request goes through, whatever the daemon, the carrier and crashes do.
* `DeliveryDaemon` is the daemon, transaction by transaction. `state`, `attempts`, `evidence` and
  `attemptLog` are the tables; `pc`, `todo`, `seen`, `cur`, `verdict` are the pass: a
  snapshot read once by `run`, then `_drive_one` for each row in `request_id` order.
  Each backend write (`Rearm`, `Launch`, `IncrementAttempt`, `LogAttempt`, `RecordReceipt`, `Conclude`,
  `CloseAttempt`, `RecordProviderReceiptRef`, `Resolve`) is a step and `Crash` may fall between any two.
  An illegal lifecycle transition raises, ends the pass and sets `aborted`.
  The carrier is external: a call puts a copy in `transit`, which lands or is dropped at any later
  time. SENT and UNSENT answers are truthful, UNKNOWN and exceptions may happen at
  any time. A reconciler's negative answer is truthful about the past, but
  a copy may still be on its way; `premature` counts the copies such an answer overlooked.
* `DeliverySafety` states the properties, the inductive invariant and the refinement mapping.
  `DeliveryProofs` proves them. `MCDelivery` holds small instances.
* `KillSwitch` is the switch with all its operations; `GatedDelivery` runs it beside the daemon.
* `TurnAdmission` models turns of several Host stacks over one namespace. `rows` is the
  `states` table of one affect dimension in insertion order, each row with the set of turns whose
  effect it contains; `mem` is each orchestrator's canonical memory; `thread` is where
  each stack's turn is. `Begin`/`Replay` are the adapter's replay guard, `Acquire` the lease and
  the reload, `Run`, `RunRefused`, `Policy`, `Handoff` the writes of `run`, `GuardProse`, `Acknowledge`,
  `CommitUnguarded`, `Prepare`, `CommitReplay`, `NoMarker`, `Commit`, `CommitFails`, `Publish` the path of
  `commit_turn`, `PrepareFault` a storage error the adapter does not catch, `TickRead` and
  `TickWrite` the ticker, `Crash` a restart of the process.
* `TurnSafety` states its properties, `TurnProofs` proves them, `MCTurn` holds small instances.
* `ProactivePlane` follows an intent from the pass that admits it to the prose. `intentHistory`
  is the versioned intent table; Host turns, the ticker of the daemon and the ticker of a turn admit,
  decide, supersede and expire, each from the versions it read (`pass`), with restarts between.
  `exec` and `reserved` are the wakes and the inspiration material they reserve, `admission`,
  `verdicts`, `result` what the Host adapter keeps of a proactive turn.
  The Body (external) treats one wake at a time; it may begin again the wake it is treating,
  but not one whose prose it has sent; a restart of the process may replay wakes. `retried` is a
  ghost: the wakes whose preparation failed. An idempotency key is represented by what it is a key of: the transition and who asked for it
  (`Tag`, `Goal`). `ProactiveSafety` states the properties and the invariant they rest on, `ProactiveProofs` proves them.
* `IntentContract` is the abstract specification of an intent: it appears, waits, is dropped or allowed and then closed, and prose for
  it goes out once at most, while it is not complete. `ProactiveSafety` maps the plane to it: `life` is the status in the last version of
  the intent, `granted` the intents with an ALLOWED version, `told` the deliveries; passes, wakes, maps and admissions disappear.
* `FactAdmission` is `FactAdmissionService` in several services over one file: `known`
  and `seen` are the caches, `evidenceRow`, `observationRow`, `realityRow` the tables, `call` where
  each admission is between its transactions (evidence, observation, provenance), with writes that
  raise and restarts. A typed request (`admit_reality`) carries its evidence with it: it is compared with the cache,
  and with the table only when the cache has nothing (`FoundBytes`), then with the typed row; `RealityRefused` and `RealityLost` are its conflicts.
  The bytes of a typed row stand for what was extracted from them. Ghosts note services
  with a raised write (`failedIn`), with bytes that lost to the table (`lostIn`), and refusals of what the tables agree with
  (`refusedIn`, `typedRefusedIn`), each since the service started. `FactSafety` states the properties and `FactInv`; `FactProofs` proves them;
  `MCFacts` is the admissions alone.
* `SourceLoop` drives source rows through turns over `FactAdmission`: the pass, its selection, the bridge
  with its one `try` block, the commit and its marker, exceptions and deaths at each stage.
  `SourceSafety` states the properties and `SourceInv`, `FactProofs` proves them; `MCSource` is the loop alone.
* `PendingOverlay` is the overlay of a turn over `FactAdmission`: deferral, acceptance, rejection,
  the three ends of a turn, restart; its property is proved in `FactProofs`.
* `FactualState` is the reconciliation of one scope and dimension: `stateRows` and `links` are the tables,
  `writing` the writes a turn has still to make, each a step of its own. `Applied` is the validity pass and
  up to two intents of the turn, `Writes` the effective state and then, per transition, its two rows and itself.
  The module also states its invariant, `StateInv`; `StateProofs` proves it.
* `SlowPlasticity` is one window of one dimension with several writers: `slowWindow` on disk, `pendingSlow`
  of a turn, the version counter each writer rebuilds. The mean of a window is represented by the window it is
  the mean of. `StateProofs` proves that state and window agree; `MCSlow` is the instance of its finding.
* `BindingRegistry` is the registry file: `lockHolder`, `tmpFile`, `registryFile` and where each administrator
  is between lock, load, temporary file, replace and answer; `Publish` the create-once artifacts of personas.
  `RegistryProofs` proves its properties.
* `AtomicCalls` is the abstract specification of a shared store under calls of several callers: each call takes effect at one
  instant, on the store as it then is, or never. `BindingRegistry` maps to it with the replacement of the file as the effect:
  calls before it are `Begun`, calls after it and before their answer `Effective`; lock and temporary file disappear. `answers` are
  those of registrations and pins; a publication writes another file.
* `MemoryPlane` is the admission hook (register, look, freeze, complete, by two runners over one store),
  the projection queue and the index worker with rebuilds. One memory stands for those of one evidence; the
  index has a single owner process. `MemoryProofs` proves its properties.
* `MemoryThread` is a question from opening to compilation: events, support, closing,
  the LCE handoff (external), the apply step that breaks between threads. `MemoryProofs` proves its property as well.
* `AppraisalPlane` is the accepted appraisals of interactions, in two files: `evaluations`, `projections`,
  `supersessions` are the journal, `applications` and `admitted` the receipts and markers of the canonical database,
  `appraising` the turn that holds the lease. `BeginTransition` reads the cache or routes; each candidate is then
  replayed (`ReplayProjection`), resumed (`ResumeAcceptance`), asked of the model (`AcceptAppraisal`) or dropped, with the two
  transactions of `materialize` apart (`PersistAcceptance`, `MaterializeProjection`); `InvokeGate` judges the
  slow proposals, `CommitAppraisal` writes receipts and marker, `AbandonTransition` ends an attempt anywhere. `Supersede` may
  come from any connection at any time: its checks are read before its first write, but the keys of the table of
  supersessions refuse a second successor or predecessor, so the model takes it as one step.
  An acceptance is identified by interaction, candidate and what the model understood; a projection by acceptance and
  history. `StateProofs` proves its properties.
* `ShadowSync` is the acquisition of the chat source: `cursor` and `shadowEvents` in the shadow store, `labelled` in the
  affect database, `syncer` each process between its transactions (`StartSync`, `Fetch`, `Insert`, `WriteCursor`,
  `ReadCorpus`, `Label`). The daemon's sync, one started by hand and a backfill may overlap, and each may die anywhere.
  A message is its number, its timestamp and what the filters make of it. `FactProofs` proves its property.
* `SurfaceHandoff` is the handoff of one interaction in more detail than `TurnAdmission` has it: three transactions
  of the guard (`LaunchHandoff`, `CountDraft`, `LogDraft`), two of the acknowledgement (`SaveReceipt`, `AcceptHandoff`), the commit, and
  between any two a storage call that raises, an abort or a death, after which the interaction may be begun again.
  `TurnProofs` proves its property.
* `MCPlanes` puts small instances of these thirteen planes side by side. They share no state, except that source
  loop and overlay each work on fact tables, so one behaviour moves one plane and the state spaces add up.
* `SettledProjection` models `SettledActionProjector.project` for one scope. `plan` and
  `completed` are the frozen plans, `marker` the idempotency rows, `evidence`, `fact` and
  `cooldown` what `admit_operational_fact` writes, each a transaction of its own (`Freeze`,
  `SaveEvidence`, `AdmitCadence`, `AdmitCooldown`, `Record`, `MarkPlanCompleted`). `position` is the
  order of the observations in memory: appended as they are admitted, reloaded by
  `Restart` in the order of timestamp and id. `WriteFails` is an exception that leaves
  `project`, the process going on. `Replay` is a call that finds an incomplete plan. The caller
  (external: only tests call the projector) projects receipts in any order and as often as it likes;
  the fast path on a marker, a receipt that is not SENT and an unknown action type change nothing.
* `SettledSafety` states its properties and inductive invariants, `SettledProofs` proves them,
  `MCSettled` is the instance of its finding.

Operators whose names end in `_Something` next to an action (`Acquire_NoRefresh`, ...) are seeded
faults: plausible mistakes in that action, each of which breaks a property. No
specification uses them.

## What the runs check

| Run | Instance | Shows |
|---|---|---|
| `delivery` | 1 generic and 1 surface request, budget 3, 2 crashes | the safety of the delivery plane, its refinement of `DeliveryContract`, and that every generic request finishes |
| `delivery_attempt` | 1 request | finding: attempts never get their outcome |
| `kill_switch` | 1 request, 1 route | finding: nothing consults the switch |
| `turn` | 2 stacks, 2 interactions (one may act), 2 clock readings, 1 crash or fault | lost updates, double admission, leaked lease, told and lost |
| `turn_stale` | 1 stack, a tick | finding: a stale projection is promoted |
| `turn_retry` | 1 stack, 1 interaction | finding: a retried turn is refused |
| `turn_recovery` | 1 stack, 1 crash | finding: AWAITING_COMMIT of a committed turn |
| `planes` | thirteen planes, see below | proactive life of an intent, facts, source rows, overlay, slow state, factual state, settled actions, registry, memory and threads, accepted appraisals, chat acquisition, surface handoff |
| `facts_arbiter` | 2 services, 1 evidence in 2 versions, no fault | finding: typed reality is refused from a stale cache |
| `settled_count` | 2 texts and 1 photo | finding: a text projected in another's crash window is not counted |
| `source_exception` | 3 rows, 1 loop, storage faults | finding: a row that raises blocks the next one of its own pass |
| `slow_restart` | a window of two, five contributions, a reload | finding: versions repeat after a reload |

Delivery properties. `BudgetAccounting` ties three counters written at different times:
carrier calls, the durable attempt count and the budget, with crashes as the only slack.
`DuplicatesNeedPrematureAnswers` is the strongest thing true of duplicates: one copy, plus
those the reconciler overlooked. `LabelsAreTrue` says what each lifecycle label implies
about the world at every instant. `PassNeverAborts` says that the plan made from a snapshot
always fits the transition table. `ImplementsContract` is the refinement.
`EveryRequestFinishes` is liveness.

Turn properties. `CommittedTurnsSurvive` is the absence of lost updates: the newest row
contains every committed turn, except where someone wrote without the lease while that
turn was open. `AdmittedOnceWithMarker` is row and marker together, once, under
concurrent attempts. `LeaseNeverLeaked` and `ToldIsDurable` cover failure and crash.

Projection properties. `OneValuePerReceipt` is the replay contract: four stores written at
different times agree, although the counter moved in between. `MarkerMeansFacts` and
`NeverInconsistent` are the order of the writes, seen from every interruption. `CounterCounts`
relates the counter to the receipts it stands for; it needs two conditions, both of which the
code leaves to its caller: receipts come in the order of their timestamps, and an interrupted one is
replayed before another is projected. Without the second it fails (`settled_count`); without
the first, or with equal timestamps, the counter depends on the order of insertion,
which a restart changes.

Proactive properties. `ImplementsIntentContract` says that passes acting on old versions, replayed wakes and half-done commits come to
the plain life of each intent, with prose only after it was allowed and never after it is complete; it implies `HistoryLegal`, which is
proved and which no run repeats;
`SentOnce` that an intent's prose goes out once although wakes are replayed; `CompletedAfterAccept` that completion
rests on a verdict given after the last begin; `MaterialHeld` that prose in preparation keeps its
material; `OneActivePerKind` is the dedupe of persistent conditions for ticks that do not overlap.

Fact and source properties. `ConsumedOnce` ties what turns were told to the observation table, over all services
and restarts; `BoundToFirstAdmission` is the identity of evidence; `RefusedForCause` says what a stale cache
may cost: `admit` refuses what the table holds, or what no row contradicts, only in a service one of whose writes raised, because it asks the table
about a mismatch; `admit_reality` does not, so it may also refuse what the tables agree with in a service
whose bytes lost to the table, and in no other. What the code says of its caches would be `TableArbitratesReality`, which fails (`facts_arbiter`). `CommittedFactsShow` and `FeltOnce` relate the commit marker of a row to its fact
and to the turns that felt it. `DeferredIsKept` follows a deferred item through every end of its turn.

State, memory and registry properties. `SlowStateIsWindow` is restart equivalence of the slow state;
`TransitionsResolve` and `NoRollback` hold at every prefix of a reconciliation's writes. `MemoryIsFrozenDraft`
and `IndexedWhenSucceeded` relate jobs, memories, queue and index;
`CompiledBeforeRetired` the working set of threads to what the LCE accepted.
`RegistryValid` and `AckedCallsLast` are about the file and the answers callers were given.

Appraisal properties. `AppliedOnce` relates receipts to markers over all attempts of an interaction: the receipts are keyed by
acceptance, so after a correction the marker alone prevents a second application. `EvaluatedOnce` is the
replay contract of the journal, `OneInForce` what keeps an interaction from being refused as ambiguous or asking the model again,
`CommitCoversAccepted` (about the commit step) that nothing an earlier attempt accepted is forgotten.

Acquisition and handoff. `NothingSkipped` relates cursor, store and source at every instant, for syncs that overlap: the position a
sync reached is compared with the one it started from (`sync.py:88`), so the cursor may go back, and the property says that this
costs a repetition and never a message. `AcknowledgedWasGuarded` is the chain commit, ACCEPTED, receipt, accepted draft,
whatever attempt of the interaction made each of them. A consequence of the immutable rows shows in the same model: once
a receipt or an ACCEPTED state has survived the turn that wrote it, a later turn of the interaction cannot commit its
handoff (`SURFACE_GUARD_REQUEST_NOT_IN_FLIGHT`, or the bytes of the receipt collide).

The inductive invariants the proofs use (`DeliveryInv`, `SettledInv`, `CounterInv`, `TurnInv`, ...) and the type invariant of
each plane were checked with TLC before they were proved; they are theorems and not properties of a run.

Bounds. Three receipts give a text before a photo, after it, and two in a row on either side
of an interruption; the state space is finite without a bound on interruptions. In `delivery` a pass reads a generic request and a surface handoff in one snapshot, drives the one and leaves the other; a budget of three has a
first, a middle and a last attempt and a refused one; two crashes fall at every point, also on the recovery from each other. Several
generic requests in one pass are covered by the proofs, which hold for any number of them. Two stacks are
needed for a race, two interactions for one turn overtaking another; two clock readings
separate a retry at the same instant from a later one. `MaxFailures` counts crashes
and storage faults together, `MaxTime` and `MaxCrashes` cap the counters in the guards of their actions.
Stacks are interchangeable, so `MCTurn.cfg` uses their permutations as symmetry (no liveness is checked there).
Deliveries and turns may come to rest, so deadlock is not checked there.
In `planes` two services admit one piece of evidence for two interactions in two versions of its bytes
(conflict, replay and repair need no more); the source loop has three rows, one for the agent, one typed; the
overlay two pieces of evidence and two turns; three clock instants with a kind that expires after one
cover due, expired and superseded intents; a window of two with five contributions rolls over more than once;
two administrators, bindings and identities of one environment give every conflict of the registry;
two sources, two possible extractions and two runners give two drafts of one source; the appraisal plane has two interactions,
three candidates (fast with slow, joint, without a rule), two histories, and a second content for the first candidate only (`AppraisalBound`); chat
acquisition has two processes and five messages with a page of two, so that a page ends inside a group of equal timestamps and
on a message that is not recorded; the handoff has three drafts and three instants. `MaxFaults`,
`MaxFactFaults`, `MaxSlowFaults`, `MaxStateFaults`, `MaxMemoryFaults`, `MaxThreadFaults`
count raised calls and deaths together, `MaxNow`, `MaxInstant`, `MaxAccepted`, `MaxRows`, `MaxCalls`,
`MaxSupport`, `MaxThreadTurns`, `MaxDrafts`, `MaxClock` cap what grows. Deadlock is not checked: the source loop really stops
when it waits for its own lease (`source_exception`), and the bounded clocks run out.

Fairness. `FairSpec` assumes weak fairness of the daemon: passes are run again and again, and
a pass that runs takes its next step. It assumes strong fairness of `Reconcile(r)`: a
reconciler asked again and again does not answer "unknown" forever. With the repository's own
`NoopDeliveryReconciler`, which always answers unknown, an UNKNOWN row does wait
forever, by design; the property is about a deployment with a lookup.

Assumptions. One daemon process drives the file. Rows with equal version come back from
SQLite in insertion order. A Host begins a turn on a stack only when that stack has
none open (a second begin would wait for its own lease). `SURFACE_V1` is the compiler mode.
Interactions are not instants (`TurnAssumption`): the row of a tick carries the instant that the row of
a turn carries the interaction for. One process owns the memory index and applies threads.
Hermes stores messages with ids and timestamps in one order (`SyncAssumption`); a message stored later under an earlier timestamp
would lie behind the cursor and never be read.

## What is proved

`DeliveryProofs` proves for every number of requests, every budget and every number of crashes:

| Theorem | Property |
|---|---|
| `TypeCorrect` | `TypeOK` |
| `DeliveryInvariant` | `DeliveryInv` |
| `BudgetIsKept` | `BudgetAccounting` |
| `AtMostOncePerAnswer` | `DuplicatesNeedPrematureAnswers` |
| `LabelsStayTrue` | `LabelsAreTrue` |
| `PassesComplete` | `PassNeverAborts` |
| `DaemonImplementsContract` | `ImplementsContract` |

The only assumption of `DeliveryProofs` is `DeliveryAssumption`, the types of the constants. The invariant has
three layers, each inductive given the ones before. `ControlInv` says where the pass is and what
that implies of the row it drives, and that rows not yet driven are still as the
snapshot has them; `PassNeverAborts` follows because every write is then a legal transition.
`BudgetInv` adds that the budget, tested three transactions before the attempt is counted,
still has room when it is. `CopiesInv` adds what the pass knows about the copies of its row
at each step, without which the labels are not inductive. The refinement uses
`ControlInv` and `BudgetInv`: each step of the daemon maps to one step of the contract or to none.

`SettledProofs` proves, for any number of receipts in any mix of photos and texts, any timestamps
and any number of interruptions, from `ProjectionAssumption` (the types of the constants):

| Theorem | Property |
|---|---|
| `SettledTypeCorrect` | `TypeOK` (no run repeats it) |
| `SettledInvariant` | `SettledInv` |
| `ReplayIsVerbatim` | `OneValuePerReceipt` |
| `MarkerIsHonest` | `MarkerMeansFacts` |
| `NeverRefused` | `NeverInconsistent` |
| `CounterInvariant` | `CounterInv` |
| `CounterExact` | `CounterCounts` |

`SettledInv` ties the step `project` is about to take to what is stored for the receipt, and
the memory to the store; without the first a marker could not be known to have its facts, without the
second a replay could admit a fact twice. `CounterInv` holds over it: while an admitted plan
is missing, that plan is the only open one, the latest, and still what a derivation would
give (`OpenPlanIsCurrent`). A restart keeps it because receipts projected in order have
distinct timestamps (`DistinctTimes`), so reloading cannot change which one is the latest.

`TurnProofs` proves, for any number of stacks, interactions, clock readings, faults and crashes:

| Theorem | Property |
|---|---|
| `TurnTypeCorrect` | `TypeOK` (no run repeats it) |
| `TurnInvariant` | `TurnInv` |
| `CommittedTurnsAreKept` | `CommittedTurnsSurvive` |
| `AdmittedOnce` | `AdmittedOnceWithMarker` |
| `LeaseIsReleased` | `LeaseNeverLeaked` |
| `ToldSurvivesCrashes` | `ToldIsDurable` |
| `HandoffChain` | `AcknowledgedWasGuarded`, of `SurfaceHandoff`, for any number of drafts, attempts and deaths |

`TurnInv` says that a base, once read, is the canonical row or an older one (`Bases`), that the base of the
lease's holder is canonical until someone without the lease writes (`LeaseIsFresh`), and that rows and markers
go together, an attempt about to commit under the lease being the first (`Markers`). Without `Bases` a
late commit could not be told from a lost update; without `LeaseIsFresh` the fresh base would not survive the other stacks' steps.

The other planes, each from the types of its constants:

| Module | Theorem | Property |
|---|---|---|
| `FactProofs` | `FactInvariant` | `FactInv` |
| | `EvidenceConsumedOnce` | `ConsumedOnce` |
| | `FirstAdmissionBinds` | `BoundToFirstAdmission` |
| | `RefusalsHaveCause` | `RefusedForCause` |
| | `DeferredStays` | `DeferredIsKept`, for the overlay over the admissions |
| | `NoMessageSkipped` | `NothingSkipped`, for any messages, page limit and syncs |
| | `SourceInvariant` | `SourceInv` |
| | `TypedFactsCommitted` | `CommittedFactsShow`, for any rows, bytes, interactions and faults |
| | `RowsFeltOnce` | `FeltOnce` |
| `ProactiveProofs` | `ProactiveInvariant` | `ProactiveInv` |
| | `HistoriesLegal` | `HistoryLegal` (no run repeats it) |
| | `ProseSentOnce` | `SentOnce` |
| | `AcceptedBeforeCommit` | `CompletedAfterAccept` |
| | `MaterialStaysHeld` | `MaterialHeld` |
| | `OneActive` | `OneActivePerKind` |
| | `IntentInvariant` | `IntentInv` |
| | `IntentsKeepContract` | `ImplementsIntentContract` |
| `StateProofs` | `WindowIsExact` | `SlowStateIsWindow` |
| | `StateInvariant` | `StateInv` |
| | `TransitionsHaveRows` | `TransitionsResolve` |
| | `NeverRollsBack` | `NoRollback` |
| | `AppraisalInvariant` | `AppraisalInv` |
| | `AppliesOnce` | `AppliedOnce` |
| | `EvaluatesOnce` | `EvaluatedOnce` |
| | `KeepsOneInForce` | `OneInForce` |
| | `CommitsCover` | `CommitCoversAccepted` |
| `MemoryProofs` | `MemoryInvariant` | `MemoryInv` |
| | `FrozenDraftsBecomeMemories` | `MemoryIsFrozenDraft` |
| | `SucceededIsIndexed` | `IndexedWhenSucceeded` |
| | `CompiledFirst` | `CompiledBeforeRetired` |
| `RegistryProofs` | `RegistryInvariant` | `RegistryInv` |
| | `RegistryAlwaysLoads` | `RegistryValid` |
| | `AcknowledgedStays` | `AckedCallsLast` |
| | `CallsAreAtomic` | `ImplementsAtomicCalls` (in no run, see below) |

`FactInv` states what an admission knows of the tables at each of its steps (`CallKnows`), how far a cache may
lag (`CachesFollow`), and that it holds other bytes than the table only while the admission that brought them is under way, or after a raised or lost
write of its service (`StraysHaveCause`). A row is never overwritten, so the writes of other services turn no agreeing cache into a straying one (`StraysElsewhere`); without this
part the refusals of `admit_reality`, which trusts the cache, would have no cause to point to. `SlowInv` adds that a staged contribution is later than all committed ones; the lemma
`KeepIsStable` then says that trimming at each commit loses nothing a trim of the whole history would keep.
`MemoryInv` has two layers: jobs and drafts (`AdmissionInv`), then queue and index (`IndexInv`: nothing has succeeded while the
index is about to be wiped). `RegistryInv` says that only the holder of the lock is inside a call, that the temporary
file is what its request makes of the file as it is, and that every answer given holds of the file. `ThreadInv`
says that a thread about to be retired is still as it was compiled. `AppraisalInv` says what an open turn knows of the
journal: its cache was accepted for its interaction, what it holds is stored and has no projection yet (`HeldInv`), a first attempt has
accepted nothing it still has to route (`TodoInv`), and whatever is accepted and no longer routed has its one effect (`EffectsInv`).
`SyncInv` says that every position a sync holds was reached by the source and is covered by what is recorded, or will be by what the sync
holds; `SurfaceInv` adds what the turn knows of the rows at each step (`TurnKnows`), above all that an accepted answer is about the last attempt.

`SourceInv` stands on `FactInv`: the loop's steps through admission are steps of `FactNext`, so what the tables promise carries over.
It adds what the pass knows at each of its stages (`StageKnows`) and that an observation which is neither felt nor left half way belongs to
the row in hand (`FeltFollowsFacts`); without the last a row driven again could be felt twice. `StateInv` reads the writes still to be made as a
continuation of the table: versions and observations stay in order over stored and pending rows together (`ObservedInOrder`), and a
transition is written after both its rows (`LinksFollowRows`), so every prefix is as good as the whole.

`ProactiveInv` is what the two processes and their maps know of a wake. `HistoryKept` says that a version records what its key asked for and
that an intent is never a candidate again after it was allowed; a stale pass can then only repeat or be refused, and no intent gets a second
wake (`WakesDistinct`, `PassesApart`, `PassUnwoken`: each tick has its own instant, so its wakes share neither instant nor intent with
another's). `KeptOfWakes` and `SentIsMarked` relate the maps of ticker and adapter to the wakes: whatever is kept of an intent whose
prose was delivered is marked as sent, which is why a replayed wake does not send again. `AdmissionIsVerdict` ties an admission to the last verdict of the Guard.
`MaterialKept` is stronger than `MaterialHeld`: it speaks of every context of a wake that can still be begun, not of the prose
alone, because the prose inherits its material from them. `OneAtATime` counts, while nothing overlapped, at most one pass under way, which is why its
admissions see every active intent. None of these parts mentions a bound: the bounds only end the clocks.

The refinement of `IntentContract` needs three facts more (`IntentInv`). `AllowedOnce`: a second ALLOWED version would be no step of the
contract. `WokenByTick`: a wake is of an intent that a tick allowed, so prose is for a granted intent and the receipt of
a turn cannot complete it behind the adapter. `Uncompleted`: what the adapter holds without a result is not complete, unless its own commit
is half way; without it prose could go out for a completed intent. The refinement of `AtomicCalls` needs `RegistryInv` alone: one call is in
progress at a time, and its temporary file is what its request makes of the file it is about to replace.

Every invariant, action property and refinement the passing runs check is proved. `ImplementsAtomicCalls` is proved
and in no run: as a further PROPERTY of `MCPlanes.cfg` it holds there, but TLC would try the contract's next-state relation on every step of
all thirteen planes. Only model-checked are
`EveryRequestFinishes` (liveness under fairness is out of the prover's reach) and the nine findings, which are counterexamples.

## Not modelled, and what could follow

Simplifications of the present models. One affect dimension stands for all; one intent
per turn in `TurnAdmission`; the legacy expression path is left out of it, and appraisal receipts are a plane of their own;
`record_reconcile` only writes a timestamp and is left out of `DeliveryDaemon`. `FactualState` has one kind of
validity (a time to live) and one scope and dimension: others differ in the instant a state ends. In `MemoryPlane` the
`unassigned` intents, attempt counts, the existence of the collection and `queue.wipe` are left out; its draft
texts are two values. `MemoryThread` applies threads in one process. The weights of the slow window are left
out, as are the text handed to the intent policy and its scores, the detection of facts in text, retrieval and ranking.
Known behaviours the models have or leave out on purpose, and which no run is about: a service whose
cache kept the losing bytes answers a retry of those as a replay, once it has been handed the stored ones, since neither the mismatch test nor the
observation cache looks at the table then (`facts/service.py:365`, 386); evidence retained alone may be repaired with
other bytes by a service that cached them (the exemption in `BoundToFirstAdmission`), although `service.py:261` speaks of bytes as immutable; an
extraction that answers differently the second time conflicts with the typed row it wrote the first time; a tracked event of a resolved
question raises and drops the rest of its turn's events; a compile that raises stops the threads after it;
`_select_pending_rows` takes the oldest rows of the shadow store whether they are done or not, so with more rows than its limit
the later ones are never driven (`shadow/runtime_loop.py:831`, although line 22 there says "implicitly retried on later passes"; the instance of `SourceLoop` is below the limit);
`backfill.main` prints the gate and does not ask it before it writes (line 5 says "gate must be ON"); `rotate_expired`, which no module calls, is left out;
an intent admitted by the daemon's tick as DEFERRED never becomes due; the replay of `consume_wake` answers
eligible without looking again.

In `AppraisalPlane` amounts and targets of effects are left out, the verdict of the gate is a choice, and the route without an
appraisal producer writes no journal and is left out.

Not modelled at all. The engine of dynamics and the homeostasis policy are functions over reals;
expression, surface cognition and decision compile text or call a language model; the observation window reads what the others
wrote and renders it; validation and lab are the repository's own harnesses; contracts and providers are immutable records
and protocols; replication is a stub.

What could follow: several affect dimensions in one
turn; the composition of the slow window with the commit of the turn in one module; deployments with two daemons on one file.

## Findings

Nine runs end in a counterexample on purpose; `PROJECT.json` quotes the text each contradicts.

1. `kill_switch`: no code path consults `DeliveryKillSwitch.decide` (`delivery/daemon.py:204`).
2. `delivery_attempt`: the closing `record_attempt` is ignored (`delivery/persistence.py:910`).
3. `turn_stale`: the staleness test compares memory with itself (`pipeline/orchestrator.py:1692`).
4. `turn_retry`: a turn whose first attempt admitted an intent cannot be begun again later (`intents/persistence.py:406`).
5. `turn_recovery`: AWAITING_COMMIT may belong to a committed turn (`pipeline/orchestrator.py:1973`).
6. `settled_count`: two texts raise the counter by one when the second is projected before the
   interrupted first is replayed (`projection/projector.py:472`).
7. `source_exception`: an exception before the bridge's `try` block leaves the lease held, and the pass waits for itself
   (`shadow/source_bridge.py:303`).
8. `slow_restart`: a writer restores its version counter as the number of retained rows, so the canonical read keeps the
   older of two equal versions (`slow_plasticity/writer.py:550`).
9. `facts_arbiter`: `admit_reality` compares with the cache, so a service whose bytes lost to the table refuses, until it restarts, the
   typed reality of evidence whose admission it has just answered as a replay (`facts/service.py:483`).
