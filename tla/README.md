# Verification of resonance-signal

TLA+ modules, TLC configurations and TLAPS proofs about the Rust workspace in
`src/`: a Windows provider that captures what a playback endpoint plays (WASAPI
loopback) and streams it to local consumers over HTTP and WebSocket.

Run a model with `tlc -config X.cfg M`, check the proofs with `tlapm M.tla`.

## 1. The system

| Component | Source (`src/crates/`) | State | Operations | Hard behaviour |
| --- | --- | --- | --- | --- |
| Capture owner and handoff | `resonance-agent/src/windows.rs` | start flag, stop token, completion; handoff and recycle channels; end signal | `start`, `request_stop`, `shutdown`, `wait_for_completion`, `Drop`; worker loop; WASAPI loop; notifications | three threads and the system's notification threads, bounded channels, panics, failing device calls |
| Retry state | `resonance-agent/src/retry_state.rs` | intent generation, revision, attempt, episode, failure history and totals, cooldown, phase | 14 transitions and `snapshot` | stale and replayed decisions, evidence in any order, counters at their limit |
| Capture supervisor | `resonance-agent/src/supervisor.rs` | its state, the owner, the observation shared with the callback, completion, recorded evaluation | `start`, `wait_for_completion`, `stop` | runs concurrently with the owner's threads, waits time out, `expect`s every retry transition |
| Recovery configuration | `recovery_config.rs` | none (validated values) | `validate`, `identity` | interacting refusals; an identity that must tell definitions apart |
| Recovery policy | `recovery.rs` | none (pure functions) | `evaluate_recovery_policy`, the evaluation snapshot | many interacting vetoes; decided on a snapshot, used later |
| Stream contract | `resonance-api/src/contract.rs` | none (event types) | - | order and meaning of the events |
| Consumer transport | `transport.rs` | session count, per-session event queue and flags, service state | upgrade, socket loop, capture task, the holder's start, shutdown and drop | tasks and threads, queue limit, ignored time-outs |
| Protocol encoding | `protocol.rs` | encoder sequence, the session's scheduler | `encode` | numbers without holes |
| Identity registry | `identity.rs` | namespace, revision, sequence, entries; three files | `load_or_init`, `apply_observations`, `advance_revision`, `reset_namespace`, `persist`, `resolve` | crash between file steps, failing persist, two processes |
| Playback discovery | `discovery.rs`, `windows_discovery.rs` | registry and last snapshot | `refresh`, resolve and revalidate | stale bindings, ambiguous continuity |
| Frame builder | `capture.rs` | expected device position and time | `push` | gaps, backward time, integer width |
| Window scheduling | `resonance-core/src/scheduling.rs` | active and invalid stream, buffer, expected timestamp | `push`, `push_batch` | rounding, discontinuity, identity reuse, overflow half-way |
| Signal types, processing | `signal.rs`, `processing.rs` | none | arithmetic on one frame | floating point only |
| Tray, startup, diagnostics, CLI | `tray.rs`, `startup.rs`, `diagnostics.rs`, `cli.rs` | window, registry key, log file | input and output | - |

How they interact: a transport session owns one supervisor. The supervisor
owns one retry state and one capture owner, and wraps the session's callback to
record what it was told. The owner spawns a worker, which spawns the WASAPI
thread; packets flow WASAPI thread → handoff channel → worker → callback →
event queue → socket, and the empty buffers flow back through the recycle
channel. The WASAPI thread refreshes discovery, which updates the identity
registry, before it opens the endpoint. Stop flows the other way: socket or
service flag → `supervisor.stop` → `owner.request_stop` → stop token → WASAPI
loop → `Ended` message → `Ended` event. Each data packet becomes a frame in the
frame builder and windows in the session's encoder, inside the callback.

What makes each component correct:

* owner: the consumer gets one well-formed stream; no packet is skipped; a
  completion means both threads are gone; a stop always completes;
* retry state: a decision is applied only to the state it was made in; a failed
  attempt is offered to the policy exactly when its evidence is complete; no
  two attempts overlap; exhaustion is final within an episode;
* supervisor: its evidence is what the consumer saw, its evaluation is current,
  released means quiet, no call panics;
* recovery policy: a replacement is permitted only on evidence, within its budget
  and after its cooldown, and a decision of another configuration is never used;
* transport: sessions stay within their limit, what a client reads is its stream's
  events in order with true reasons, a joined service is quiet, calls return;
* frame builder: a frame is numbered and timed by the samples before it;
* registry: an identity never names two endpoints, survives crashes, and what
  was persisted can be loaded;
* scheduling: windows are contiguous, disjoint and of one stream, and a device
  that counts its frames is never called discontinuous.

`PROJECT.json` lists the components with their status and, under `hazards`,
each thing in the code that is hard to test, with the properties that cover it
or the reason none does yet.

## 2. Modules

### RetryState

One action per public method of `RetryState`, returning `Ok`. A method that
returns `Err` changes nothing, so it is a disabled action; in particular every
`checked_add` that would overflow is a guard `< CounterMax`, and because each
method computes all of them before it writes, the guards come before the
updates. The fields keep their names. `Evaluators` are callers of `snapshot`:
each keeps the last snapshot it took and may present it at any later time, so
stale and replayed decisions are ordinary behaviours. `AttemptIds` and
`Generations` let callers present every identity ever issued.

Abstracted: `RetryFailureCause` is a class of a set the failure totals are
indexed by; configuration identities and cooldown markers are opaque values.
`RecoveryAuthorization` is the projection of a snapshot, checked by the same
fields (`IsCurrentSnapshot`); the policy may have permitted a replacement for
any snapshot, so the model does not restrict which snapshots carry permission.

### StreamContract

The abstract specification of what a consumer callback is told: `Started`,
then data packets with none left out, then at most one `Error`, then an `Ended`
whose reason belongs to that error. Nothing behind the callback is visible.

### CaptureHandoff

One `CaptureOwner` with its threads. Three program counters: `owner` (the
holder), `worker` (`run_capture` and `process_capture`), `capture`
(`capture_thread`, `capture_thread_inner`, `capture_loop`). The step is one
interaction with something shared: a channel operation, a look at the stop
token or at `end_signal`, one callback, one join. A channel is its queue and
the liveness of its ends, which follow from the program counters
(`ProcessingAlive`, `CaptureSenderAlive`, `RecycleReceiverAlive`): a send
without a receiver fails, a receive drains a senderless channel and then fails.
`pending` holds the events of one message so that each callback is a step of
its own, which may panic. `stop` is the stop token; it remembers who raised it,
the code only whether anyone did.

Nondeterministic: every WASAPI and discovery call may fail with each kind the
code maps errors to; the frame builder accepts or rejects any packet; a
notification may come at any time between registration and release; thread
creation may fail; callback and WASAPI thread may panic (`PanicsPossible`). The
deadline may elapse at any poll (`HasDeadline`): it belongs to the diagnostic
entry point, which calls `run_capture` without an owner, so the instance with
both is a superset of the two programs.

Not in the model: the capture report's statistics and their overflow error
(2^64 packets), buffer bytes, diagnostics. Opening and revalidating the source
is one call that may fail here; PlaybackDiscovery has what it does. Two protocol
errors for message orders the WASAPI thread never sends have no step.

`Contract` maps the delivered events to `StreamContract`;
`ImplementsStreamContract` is the refinement. `EventSequences` has the few operators on
sequences of messages and events (where those of a kind are, which is the last) that this
module and the transport share.

### CaptureSupervisor

`Retry == INSTANCE RetryState` and `Owner == INSTANCE CaptureHandoff` on shared
variables. A public method takes `&mut self`, so calls do not overlap, but the
owner's threads run between any two steps of a call: each step makes one retry
transition or one owner call. The callback wrapper (`DeliverAndObserve`) gives
the event to the consumer and then records it. The code `expect`s each retry
transition; in the model a refused one leaves the call without a step, so a
panic is a call that does not return. `evaluate_recovery` runs `RecoveryPolicy`
on the evidence gathered, so the recorded evaluation has its decision
(`DecisionFollowsTheStream`). A timed-out wait is a step that leaves
the owner alone. `RETRY_HISTORY_CAPACITY` is 16 as in the source; recovery is
disabled and one supervisor runs one intent, as the source constructs it. `NoneAssumption` says
that the `None` of the model is no failure, end or attempt.

### RecoveryConfiguration

`RecoveryConfigurationInput::validate` as the operator `IsValid`, one operator per
group of its refusals, and `Fingerprint`, the encoding of a definition field by
field, tags included. The two 64-bit lanes that compress it are taken to be free of
collisions: then the identity is the encoding, and what can be wrong is a field left
out or two fields that run into each other. `ConfigurationInputs` is the type of
what may be validated: any numbers, any sequence of classes with any dispositions.

### RecoveryPolicy

`evaluate_recovery_policy` and the functions it calls, each an operator
of the same name; the early returns keep their order, because the first that applies
names the reason. `Option<bool>` is `"Yes"`, `"No"` or `None`.

### RecoveryEvaluation

Extends RetryState with a validated configuration per intent (`DefinitionsAssumption`: the
definitions are inputs, and what validates has its identity in `Configurations`) and evaluators that
observe (snapshot and evidence), decide by the policy and recover by the
authorization a permit gives, each at any later time, while every other method of
the retry state goes on. `EvaluationImplementsRetryState` (section 4) says that
this composition only takes steps of RetryState. The supervisor of the source runs
this loop up to the decision, with recovery disabled; the types are public and made
for the rest of it.

### RegistryStorage

The three files of `identity.rs` (`current`, `backup`, `candidate`) as records:
whether the file exists, whether it was synced, and the image it holds, `None`
when it does not parse. Each file call of `persist` is an action, in the code's
order; `CallFails` is the `?` after any of them, with the partial file a failing
copy may leave. `Crash` ends the process between any two calls. With
`PowerLossPossible` a file that was not synced may come back unparsable; renames
and removals keep their order, as a journaling file system gives them. `Loaded`
is what `load_or_init` reads: current, else backup, never the candidate.
`LoadOutcomes` adds the loads in which a file cannot be read for the moment: the
code treats every error of `load_registry` alike.

### IdentityRegistry

The registry as a value and its operations as operators on it: `ApplyObservations`
is `apply_observations` (mark absent, then each observation in turn: recognise,
retire for ambiguity or native key reuse, allocate), `FromPersisted` and `Loadable` are
`from_persisted`. `ObserveAll` is the loop over the observations as a recursive function, and
`Registries` the type of its results. A source id is its namespace and sequence number, which is all
that its text is made of. Retired entries stay, as tombstones. `saturating_add` is `+ 1`:
the bound of 2^64 refreshes is far beyond the model's.

### PlaybackDiscovery

Composes the two. A session is one holding of `DISCOVERY_ACCESS`:
`discover_playback_sources`, or the first part of `capture_thread_inner`. It loads or
creates the registry, refreshes it, and a capture then opens the device and
refreshes again to revalidate its binding. `Refresh` goes from the enumeration
to the one persist it may have: `advance_revision` persists only when
`apply_observations` did not, so both never happen in one refresh; `draft` is the
snapshot that is returned when that persist is done. The enumeration may fail
(`EnumerationFails`), two endpoints may claim the default role
(`ClaimsConflict`), the device may not open (`OpenDeviceFails`): any error ends the
session and drops the open registry. Between two refreshes the endpoints may
become anything in `Enumerations`. Sessions of one process do not overlap, because of the
lock, and the documentation requires one logical writer
(`docs/architecture.md:83`), so the model has one process.

`published` is the snapshot some consumer still holds, with the registry it was
made from, and `enumerated` the endpoints the last refresh was given; no action
reads `published` except that an explicit intent names a source from it.

### ConsumerSession

The stream sessions of the transport. A session is three activities around one
bounded queue and three flags: the socket task of `stream_session` (`task`), the blocking
`run_capture_session` (`capture`), and the callback on the owner's worker (`stage`). `try_acquire`
is its load and its compare-exchange, which may fail. The two stores of a client's stop
request are two steps, and the callback reads the flags between them. A dropped
receiver empties the queue and makes every later `try_send` fail. The owner is what
CaptureSupervisor and CaptureHandoff show of it: it tells a contract stream,
ends as `ProviderShutdown` only once asked, and completes at any time. A panic of the
worker and a failure with the stream begun are one case: a session finishes either
way. `ErrorKinds` are the codes an owner's error can have.

A call of the callback encodes its event into messages (`OnStarted`, `OnData`, `OnError`, `OnEnded`) and
then sends them one `try_send` at a time (`SendNext`). A refused `try_send` ends the call (`SendRefused`), and
the store of `unhealthy` is a step of its own (`StoreUnhealthy`), as it is after an event that
`encode` refuses (`OnDataRefused`): a diagnostics call lies between the two, and the socket task
may drain the queue, pass its check and wait in `select!` meanwhile. `encoded` is what the call has still
to send, `refused` that it failed and has not said so.

### ConsumerService

Extends ConsumerSession with `ManagedConsumerService`: the worker thread (bind, serve, drain, the
dropped runtime, the state it publishes, the stopped message), and the holder's `start`,
`shutdown` and `drop`, each with its bounded wait, which may run out at any time. A
dropped runtime cancels a socket task at an `await`, drops a blocking task that has not begun,
and waits for one that has. `lingering` is a client with a plain HTTP request open, for which
graceful shutdown waits without a deadline. The tower of handlers is external, as are axum, tokio
and the socket: any send may fail or time out.

### FrameBuilder, WindowScheduler, WaveformPath

`AudioFrameBuilder::push`, `WindowScheduler::push` and `SessionEncoder::encode`. A
push is a function from a state to a result, with its refusals in the order of the code.
A sample frame is the place it came from, its stream and device position, so that a
sample lost, repeated or moved shows. Integers keep their width: a sum or product that
`checked_*` refuses is one that does not fit into `WordMax`, and the builder's conversion, which
goes through `u128`, only has to fit at the end. `WaveformPath` feeds the three: the capture
device (one stream, any packet lengths, positions that may jump, clocks that may go
back) or a user of the library (two streams, any order, rate and time).

### MC and proof modules

`MCRetryState`, `MCRecoveryEvaluation`, `MCCaptureHandoff`, `MCCaptureSupervisor`,
`MCPlaybackDiscovery`, `MCConsumerService` and `MCWaveformPath` extend their
module; the constants are in the `.cfg` files. Definitions named `X_Defect`, for
any word after the underscore, state a plausible bug of `X`; they appear in no
behaviour and serve to show that the property they are listed with can fail. A
module `XProofs` holds the theorems about `X` (`ConsumerServiceProofs` those of both transport
modules, `PlaybackDiscoveryProofs` those of the registry and its files too). `EventSequenceProofs`
has the lemmas that several of them cite: counting and locating messages in a sequence that grows or
loses its head, least and greatest numbers, induction stated for sets of numbers, and functions defined
step by step.

## 3. What is checked

| Run | Bounds | States | Shows |
| --- | --- | --- | --- |
| `retry_lifecycle` | history 2, counters 10, 2 generations, 2 failure classes, 2 markers, 1 evaluator | 345k | phase, attempt, history, cooldown, budget and exhaustion stay consistent in every order of the methods; a snapshot accepted as current is the state, a stale one never is again |
| `recovery_policy` | 8 definitions (some invalid), 4 failure causes, 4 sets of evidence, 2 intents, history 1, 1 marker, 1 evaluator | 521k | budget, evidence and cooldown of every automatic attempt; policy and retry state agree; identities tell definitions apart |
| `handoff` | 2 slots, 4 packets, deadline, panics | 100k | the stream contract, buffer conservation, release before completion, eventual completion |
| `handoff_unended` | 2 slots, 4 packets, no panics | violation | a started stream may end without `Error` or `Ended` |
| `handoff_exhaustion` | 2 slots, 4 packets, no panics | violation | a packet lost to a full handoff may be reported under another end |
| `supervisor` | 1 slot, 1 packet, panics | 49k | evidence, decision, evaluation, release, and that no call panics |
| `discovery` | 2 continuities sharing a backend key, 2 endpoints, 2 namespaces, revisions up to 4 and 2, power loss | 1.9M | ids keep their meaning, revisions identify snapshots, nothing is shown uncommitted, captures start on the intended source, replacement is atomic |
| `discovery_reload` | 1 endpoint, 1 namespace, revisions up to 4, no power loss | violation | a committed registry may be refused as corrupt by the next load |
| `discovery_survival` | as `discovery_reload` | violation | two crashes may leave no registry to load |
| `session` | 2 clients, limit 1, queue of 2, 2 windows per packet and in all, one client that captures | 409k | the stream event by event with at most one behind a lost one, true reasons, `Finished` after everything, slots, a quiet joined service, sessions end and calls return |
| `session_sequence` | 1 client, limit 1, queue of 2, 2 windows per packet and 3 in all, one kind of error | violation | a client may receive a window whose number skips one |
| `windows` | second of 10 ticks, words up to 85, windows of 7 ticks, rates 3 and 4, packets of 0 to 7 frames, streams of 10 frames, 4 pushes of a library user | 63k | windows hold the right samples under the right number, index and time; what the builder accepts is not refused for its timing |

Why the bounds are enough. History 2 is the least at which an eviction leaves
an older and a newer record. Counters of 10 allow two failed attempts with all
their evidence, a recovery between them and the refusal of a full counter, and
two generations are what an old snapshot needs to meet a restarted revision. One
evaluator suffices because evaluators do not interact; the theorem is for any number.
`recovery_policy` cuts revisions by a constraint (`RevisionBound`): before the first
automatic attempt 8 revisions reach every way to fail and to be charged, up to 12 follow
it for the second failure at a spent budget, and a second intent only has to
begin, with what evaluators hold from the first. The definitions differ from a base
in one field each: no cooldown and no backoff, an exponential backoff that never grows,
a stable run that is no evidence, a missing field, a disposition validation refuses or
requires, so that each validation step has a definition that only it refuses.

Two slots give every case of the handoff (a packet queued before `Ended`, a full
channel, an empty pool, `Started` and a packet), and four packets let a slot be
used, recycled and used again; the code has four slots (`HANDOFF_CAPACITY`).
The supervisor distinguishes only whether a stream started, erred and ended
and how the owner completed, all of which happen with one packet.

Two continuities with one backend key and two endpoints give every branch of
`apply_observations`: new, known, absent and returned, native key reuse, and, by
listing one endpoint twice or one that could be either, ambiguity. Three refreshes in the first namespace (the bound of
4 counts the initial revision) are a source, the one that takes its key and its
return, or a publication and the two refreshes of a capture. One more namespace
suffices to ask for ids of a lost one. Display names do not vary; a change of
name is only another way to change a record. `MCView` leaves out the contents of a candidate
that an earlier persist left behind: the next persist truncates that file and
nothing else reads it, so states that differ in it only have the same behaviours.

One session and two clients are the least at which a slot is contended for and
handed over. The second client's capture never starts, which is one of the cases;
sessions share nothing but the count and the shutdown flag, so two that capture would
only interleave. A queue of two overflows by one event and by a packet of two windows in
its middle; the code has 16 entries (`EVENT_QUEUE_CAPACITY`). The third window of `session_sequence` is the
one that arrives behind the lost one. An idle client may connect again, so runs do
not end with the bounds.

For the windows, periods of 3 and 4 frames in ten ticks are no whole number of
ticks, as 44.1 and 48 kHz are no whole number of nanoseconds, so every conversion rounds;
words up to 85 are within reach of the last frames, where the scheduler's product overflows and
the builder's does not. Packets are shorter than, as long as and longer than a window, and too long.

Deadlock is not checked where the system stops: a dropped or completed owner, a
completed supervisor, a retry state whose counters are full, a registry at the
bounds of the model, a service that was shut down, a stream at its bound. That nothing
stops too early is what the liveness properties say.

Only RetryState keeps a type invariant in a run, and as a theorem. What the other
modules' variables may hold is part of the inductive invariants of section 4.

Fairness. `CaptureHandoff` assumes weak fairness of the worker, of the WASAPI
thread and of the join in `Drop`: the operating system schedules threads, and
the callback and the device calls return (the code documents both as required).
`SF(DeviceDrained)`: the device does not offer packets faster than they are
read for ever; the inner loop of `capture_loop` looks at neither the stop token nor
`end_signal` until the device is empty, so without it a stop could be ignored.
With the packet bound of the model this only matters up to the bound. Nothing
is assumed of the holder, of notifications or of panics. `CaptureSupervisor`
assumes only that a call that has begun goes on (`WF(Continue)`); waits are
bounded, so calls return even if the owner never does.

`ConsumerService` assumes weak fairness of the handler and socket task of a session and of its
capture task, because tokio runs tasks that are ready; of the service worker; and of the
holder's calls that can return. `SF(Receive)`: `tokio::select!` polls its branches in
random order, so a client that keeps the socket readable does not keep an event from
being received for ever. The owner is fair only while it must go on (`MustGoOn`): in a call of the callback, which
does not block, and once it was asked to stop or its stream
has erred or ended, which is what `ReleasedEventually` of CaptureHandoff gives. The conjuncts on `task` and
`capture` in front of the fair actions follow from the actions' own guards. Nothing is
assumed of clients, of time-outs, or of a plain request that stays open:
`SessionsEndAndCallsReturn` leaves out exactly the call that waits for one.

### Disagreements found

1. `handoff_unended`: the WASAPI thread sends `Ended` and returns, closing the
   recycle channel, while a packet is still queued before `Ended`. The worker
   then fails to recycle that packet's buffer and returns
   `Protocol("capture buffer recycle failed")`: the tail of the stream is lost and the
   consumer gets neither `Error` nor `Ended`, against ADR 0007
   (`docs/decisions/0007-capture-supervisor-boundary.md:110`).
2. `handoff_exhaustion`: `docs/api.md:161` says handoff exhaustion ends the
   stream with `ResourceExhausted`. If `stop_stream` fails after the overflow its
   error replaces that end.
3. `session_sequence`: the callback drops a window that `try_send` refuses (`transport.rs:618`) and stores
   `unhealthy` only after a diagnostics call (`:620`). If the socket task drains the queue and passes
   its check (`:522`) in between, the next packet's window finds room and is sent:
   the client receives a sequence number that skips one before the session ends as `consumer_too_slow`,
   against `docs/consumer-protocol.md:132`. `LossEndsTheStream` says that this is all that can happen: one
   event behind the lost one, and it is the last.
4. `discovery_reload`: a continuity that was retired and is observed again gets a
   second record. The image that is committed then names it twice, and
   `from_persisted` refuses it as corrupt on every later load, against ADR 0015
   (`docs/decisions/0015-consumer-discovery-and-identity-registry.md:228`). With
   the Windows source, whose continuity token is constant, it takes an endpoint
   listed twice in one enumeration.
5. `discovery_survival`: after a crash between removing the current file and
   renaming the candidate, the backup is the only image. The next persist
   removes it before it has copied another, and the candidate is never read:
   a second crash there loses the namespace, against ADR 0015 (`:148`).

Further observations, in which code and documents differ or a caller may be surprised, and
which no run of their own states:

* `docs/consumer-protocol.md:162` says an error is followed by `stream_stopped`
  when a stream had started. The errors `consumer_too_slow`, `invalid_request` and
  the provider's shutdown leave the session's loop with the queue undrained: nothing
  but a close follows. `LossEndsTheStream` therefore lets a session's events stop anywhere.
* `Finished(end)` is a normal completion for every end (`supervisor.rs:702`), so an interrupted stream is
  evaluated with cause `NormalShutdown` (`:641`), against ADR 0008
  (`docs/decisions/0008-recovery-policy-boundary.md:92`, `:97`).
* `WindowScheduler` forbids the identity of an invalidated stream (`scheduling.rs:207-209`) only
  until another stream was pushed: it remembers one identity.
* The scheduler multiplies frames elapsed by 10^9 in 64 bits. At 48 kHz that product
  overflows after some 4.4 days, at which a session ends as `consumer_too_slow`, although the
  builder, which goes through 128 bits, accepts the packet. A library user who pushes on
  after such an overflow gets windows with wrong labels, since samples were drained and
  the identity was not invalidated; `WindowsAreExact` excepts these streams (`overflowed`) and
  `DeviceFramesAreAccepted` says that the overflow is the only such disagreement.
* A first packet that is refused as too long has begun the stream in the builder, so the
  times of later windows may differ by a nanosecond from their own index; `WindowsAreExact`
  asks for exact times, and for the number, only of a device of which nothing was refused.
* `recovery_snapshot` takes the cause of a normal completion from the last failure, which may
  be an earlier attempt's.
* A valid enabled configuration whose only permitted class is `UnsupportedFormat`
  can never permit a replacement: the policy's row for that cause always stays stopped.

## 4. What is proved

The theorems hold for every value of the constants that satisfies the
assumptions named. Each rests on an inductive invariant, because no property
is inductive by itself, proved with one step per action. The invariants
were checked by TLC on the instances of the runs before they were proved.

**Retry state.** From `CapacityAssumption` (capacity at least 1, which
`RetryState::new` checks), `CounterAssumption` and `NoneAssumption` (the `None`
of the model is none of the values). Every property that `retry_lifecycle` checks is proved.

* `TypeCorrect`: TypeOK is inductive; it is split into groups
  of variables (`TypeOKParts`) so that each method argues about what it writes.
* `SnapshotBinding`, `StalenessIsPermanent`: a snapshot that is behind says nothing
  about the state, so `SnapshotsNotAhead` says that no held snapshot is of a later generation, none
  of this generation has a later revision, and one with this generation and
  revision is the state. It is preserved because every method advances the
  clock of generation and revision (`EveryMethodAdvancesClock`), and the clock never
  returns to a snapshot it has passed.
* `EvaluableExactly`, `StoppedExactly`, `CooldownBelongs`, `AttemptsNeverOverlap`,
  `ExhaustionIsFinal`: from `LifecycleInv`, in which they need each other. When a
  failed attempt is evaluable decides which methods a cooldown or an exhausted episode can
  meet; that the attempt is the latest of its generation decides what late evidence may touch.
* `FailuresAccount`: from `AccountingInv`; the charges of an episode may be one ahead of its
  failures, but no longer once its attempt has failed.
* `HistoryIsLatest`: pushing onto a full history keeps exactly the latest failures (`PushKeepsLatest`).

**Recovery.** From `DefinitionsAssumption` and `EvidenceAssumption` besides. `EvaluationImplementsRetryState`
maps each step of the composition to a step or
a stutter of RetryState, so everything above holds in it. `RecoveryInv` says that the configuration
in force is valid and its identity the intent's, that what evaluators hold are snapshots and evidence of some attempt
under a valid configuration, and that a permit has its support (`PermitsAreSupported`): the decision
table's evidence (`LimitsNeedEvidence`), remaining budget and elapsed cooldown as of the snapshot. Then
`PermitsHaveEvidence`; `CurrentPermitsAreAccepted`, since a current snapshot is the state; and
`CooldownBeforeRecovery`, since a positive budget requires a delay (`BudgetRequiresDelay`).

`IdentitiesDistinguish`: an identity held by an evaluator that is the identity in force is of the same definition.
The encoding is a prefix code, field by field: of two definitions
with one encoding the first fields end in the same place and are equal, so the rest have
one encoding too. For the list of classifications this is an induction over its length, stated as
an induction over a set of numbers (`NumberInduction`). `BudgetHolds` follows without a condition: a permit that
was decided under an earlier definition cannot pass for one of the present budget. Both are of the model's identity, in which
the two lanes that compress the encoding do not collide.

**Capture owner.** For every capacity, number of packets, with and without panics and deadline, from
`HandoffAssumption`.

* `ReleasedFirst` and `ShutdownWasAsked` from `HandoffInv`. `LifetimeInv`: the WASAPI thread lives
  within the worker that joins it, the worker within the holder's start and its completion. `StopInv`:
  the worker raises the holder's own stop token, but only after it has given up receiving (`GivenUp`); until then
  any end by request, wherever it is on its way (the WASAPI thread, the channel, the events waiting, those
  delivered), is the holder's. The queue is a sequence over the messages fair in that sense.
* `OwnerImplementsContract`, `FinishedWasSeen` and `BuffersStay` from `StreamInv`, which adds how far each
  thread is. `TellInv`: what the worker is about to tell continues what it has told. `QueueInv`: a message's place in the channel
  says which packet it is (`Placed`, counted from those the worker has taken), an end is last and says how
  much is missing, and what was read and not yet sent is in the thread's hands (`CountInv`). `ReportInv`: the completion
  the worker computes agrees with the event it tells or has told. `PoolInv`: free buffers, queued packets and the one
  in hand are the capacity, while both threads are in their loops. No count over
  the queue is needed: places and lengths say it.

**Capture supervisor.** From `SupervisorAssumption` and `NoneAssumption`.

* `SupervisorImplementsRetryState`: every step calls the retry
  state once or not at all (`CallsOfSteps`), with a generation and an attempt it was given and a failure the code can
  classify (`UseInv`), so what is proved of RetryState holds of it. `OwnerIsUsed` maps its steps to
  steps and stutters of the owner in the same way, so that `StreamInv` holds in it (`OwnerInv`).
* `ReleasedIsQuiet`: with `ReleaseInv`, an owner is started only by the start that found the supervisor
  idle and counts as released only without a worker.
* `EvaluationStaysCurrent` from `LifeInv`: what an evaluation is of changes only within a call, and every call
  that returns after completion has evaluated last.
* `EvidenceWasSeen` from `SeenInv` and `RecordInv`: what the callback wrapper has written is what was delivered, unless
  the worker panicked, and then no more than that; each recording step of a completion brings one fact of
  the attempt up to it, and the steps come in an order that RetryState accepts.
* `DecisionFollows` from these, by computing what the policy says of that evidence with recovery disabled
  (`DecisionOfStream`): no row of its table is reached that permits.

**Consumer service.** For every number of clients, every limit, queue and packet size, from `SessionAssumption`.

* `SlotsAccounted` and `JoinedIsQuiet` from `SlotInv`: the count is the cardinality of the connections, a slot is freed by the
  step that ends the connection it was taken for (`SlotTaken`, `SlotFreed`), and what is left when the worker reports
  is nothing (`ServiceInv`).
* `StoppedForAReason` from `ReasonInv`: a stop request sets `client_stop` before `stop`, so
  the callback never sees `stop` without the flag that explains it (`FlagInv`), and queue and wire hold only messages
  the flags justify (`TruthInv`); flags of a session are only taken back when both are empty.
* `LossEndsSession` from `PlaceInv`, for which the events of a stream are numbered (`StreamLength`, `IsEvent`). `Pending`: what a call has
  still to send are the last events of the stream so far. `InPlace`: until `unhealthy` is stored, the events
  in the queue go on where the wire ends, also after a refusal, because the refused call sends no more and
  the next one comes after the store. From then on an event in the queue is in its place or later (`Ahead`). So a socket task that passed its check before
  the store may receive one event that is out of its place, and its next check ends the session: `WireInv`
  says that such an event is the last of the wire and that the task is not in `select!` any more.
* `FinishedWasDelivered` from `Counted`: while nothing was refused no event that was sent is missing from wire and
  queue. `MessageInv` and `JoinInv`: `Finished` is sent only after the owner has completed, unless the wait for
  it timed out, and then nothing follows.

**Waveform path.** For every clock scale, window length and set of rates, from `PathAssumption`, `RefusalAssumption`,
`WordAssumption`, `SchedulerAssumption` and `RangeAssumption` (no packet of hours, no stream of centuries).

* `DeviceFramesPass`: two floors of a sum differ from the floor of the sum by at most one
  (`QuotientOfSum`), so one prediction is within the tolerance (`TimesAgree`). The roundings do not add up over the packets: the
  scheduler's expectation is computed from the frame it has just accepted, whose time the builder computed from
  the origin. `InStep` says that while nothing was refused the scheduler expects the frame the builder numbers
  next, at its time or one nanosecond before, and retains the frames up to it; `CutsAreTimed`, that the
  windows start after a cut at times computed from the origin.
* `WindowsExact` from `WindowsInv`, with the two exceptions that section 3 names: it says nothing of a stream that
  lost windows to a timestamp overflow, and gives number and time only of a device of which
  nothing was refused. Windows and rest are described by where they are, not by flattening them:
  the windows delivered of the active stream are one after another from its origin, and the rest goes on where
  they end (`Laid`, in `LaidInv`), each frame an offset ahead of its index. The offset is 0 for a user of the library; for a
  device it is fixed by the first packet of the stream, and the builder keeps to it until it refuses one
  (`Placed`). A push appends frames that go on, and the cut takes whole windows from their front (`CutsLay`); a stream that was refused, or replaced, begins anew or is not looked at (`Intact`). That windows
  so laid flatten to consecutive frames is proved once, by induction over their number. `NumberedInv`: of a device of
  which nothing was refused the windows are numbered in a row and bear their frames' times (`Timed`, from `CutsAreTimed`).

**Storage and discovery.** `StorageReplacesAtomically`: only removing, renaming and syncing the current file
can change what a load returns while that file is intact. For these the invariant `StorageInv` says
what the files hold by then: from its writing to its rename the candidate is a
copy of the image, from the removal of the current file on so is the backup,
and whatever is current was synced as a candidate, so that no power loss takes
it. `DiscoveryImplementsStorage` shows that every step of a session is a step of the
storage or leaves the files alone, for every set of observations and all bounds, and
`DiscoveryReplacesAtomically` follows. These three need no assumption.

What the registry holds is from `DiscoveryAssumption` and `NoneAssumption`. The loop over the observations is a recursive function;
that it is defined at every length (`IterationIsDefined`) and preserves what one observation preserves is an
induction over the number of observations. What is observed *continues* a registry (`Continued`): namespace and revision stay,
an id keeps its continuity and, once retired, stays retired (`Extends`), and at most one id that is not
retired stands for a continuity (`WellKept`); the revision is advanced last. `DiscoveryInv` carries this through the files.
`ImagesInv`: whatever a load may find, current or backup, is `Good`, that is, continues the published registry or is of another
namespace; this holds because a snapshot is published only when both files that a load reads have its registry (`CommitInv`). `AheadInv`: a
session that has refreshed is past the published revision. `SessionInv`, `SnapshotInv`, `PublishedInv` and `IntentInv` say what a session holds
at each of its steps.

* `OneIdentity` and `IdsKeepTheirMeaning` are what `Good` says of the open registry and of the files.
* `RevisionsIdentify`: within a namespace only the published snapshot could bear a session's revision, and `AheadInv` excludes it.
* `ShownAfterCommit` is `CommitInv`.
* `StartsAsIntended`: the binding was resolved in the refresh that was committed, and the second refresh confirmed it
  on the same registry; an explicit intent names an id that was published, whose continuity no refresh has changed.

Only model-checked: liveness (`ReleasedEventually`, `EveryCallReturns`, `SessionsEndAndCallsReturn`),
which is beyond the prover, and with it that the fairness stated suffices. The prover cannot instantiate
induction theorems that take an operator either; the inductions above are instances of one over
sets of numbers, which it can.

## 5. Plan

Order: the capture path first, because everything else exists to start, stop
or describe it, and the persistent identity of what is captured, where crashes
count; then the wire and the policy, then scheduling.

1. *(done)* `RetryState`, `StreamContract`, `CaptureHandoff`, `CaptureSupervisor`.
2. *(done)* `IdentityRegistry`, `RegistryStorage`, `PlaybackDiscovery`.
3. *(done)* `RecoveryConfiguration`, `RecoveryPolicy`, `RecoveryEvaluation`, and the policy's decision
   in `CaptureSupervisor`.
4. *(done)* `ConsumerSession`, `ConsumerService`.
5. *(done)* `FrameBuilder`, `WindowScheduler`, `WaveformPath`.
6. *(done)* Proofs: every safety property that a passing run checks, and the refinements: of
   StreamContract by the owner, the one of RetryState by the supervisor and by the composition with the policy, and
   the one of RegistryStorage by discovery.
7. Left: batches of several frames in `push_batch`; the foreground run of the console program; what the
   recursive definitions of the models that only TLC runs compute for inputs beyond the bounds
   of a run. Liveness stays with TLC.

## 6. Not modelled

* Signal types and processing are arithmetic on one frame, with unit tests that
  reach it fully.
* Tray, startup registration, diagnostics, command line and the scripts are input
  and output. The tray's `show_menu` holds a mutex over a modal message loop that may call it
  again on the same thread (`tray.rs:253-255`); which messages such a loop dispatches is
  the window system's, so a model would show no more than what it assumed.
* The operating system (WASAPI, COM, threads, the file system), axum and tokio are
  external and appear only as the answers they can give.
* The JSON and binary layout of the protocol is formatting.
* Two processes on one registry directory: `docs/architecture.md:83` requires one logical writer.
* Within modelled components: `reset_namespace`, which nothing calls; the schema refusals of the
  registry; dropping a supervisor without stopping it (the drop of its owner is in
  CaptureHandoff); the foreground run of the console program; `push_batch` with several frames, which only
  tests make.
