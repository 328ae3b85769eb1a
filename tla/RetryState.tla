----------------------------- MODULE RetryState -----------------------------
(***************************************************************************)
(* The retry state a CaptureSupervisor owns for one capture intent         *)
(* (crates/resonance-agent/src/retry_state.rs): the intent generation, the *)
(* owner-creation attempts of that generation, the recovery episode, the   *)
(* failure evidence, and the cooldown.  Every action is one public method  *)
(* of `RetryState` returning Ok; a method returning Err leaves the state   *)
(* alone and is therefore a disabled action.                               *)
(*                                                                         *)
(* Evaluators are the callers of `snapshot`: each keeps the last snapshot  *)
(* it took and may present it again at any later time, so stale and        *)
(* replayed decisions are part of the behaviours.                          *)
(***************************************************************************)
EXTENDS Integers, Sequences, FiniteSets

CONSTANTS
  HistoryCapacity,  (* HISTORY_CAPACITY, slots of the failure history      *)
  CounterMax,       (* u64::MAX, where checked_add refuses                 *)
  Configurations,   (* recovery configuration identities                   *)
  FailureClasses,   (* classes of RetryFailureCause the totals distinguish *)
  Markers,          (* cooldown eligibility markers                        *)
  Evaluators,       (* callers holding a snapshot                          *)
  MaxGenerations,   (* bound of the model on explicit starts               *)
  None              (* Option::None                                        *)

ASSUME CapacityAssumption == HistoryCapacity \in Nat \ {0}
ASSUME CounterAssumption  == CounterMax \in Nat \ {0} /\ MaxGenerations \in Nat

-----------------------------------------------------------------------------
Lifecycles == {"Committed", "OwnerCreated", "Running", "Failed", "Completed",
               "CleanupComplete"}
Phases == {"Idle", "Attempting", "Running", "Failed", "Waiting", "Exhausted",
           "Stopped"}
Kinds == {"ExplicitStart", "AutomaticRecovery"}
ExhaustionReasons == {"AutomaticRecoveryBudget", "PolicyVeto"}
ResetEvidence == {"StableRun", "ChangedPrecondition"}

\* An attempt or an episode is named by its generation and its ordinal.
Ids == Nat \X Nat

AttemptStates ==
  [id: Ids, kind: Kinds, lifecycle: Lifecycles, stream_started: BOOLEAN,
   terminal_event_delivered: BOOLEAN, resources_released: BOOLEAN,
   failure: FailureClasses \cup {None}]

ExhaustionRecords ==
  [recovery_episode: Ids, evaluated_revision: Nat, attempt_id: Ids,
   reason: ExhaustionReasons, configuration_id: Configurations]

Episodes ==
  [id: Ids, automatic_recovery_attempts_started: Nat,
   exhaustion: ExhaustionRecords \cup {None}]

FailureRecords ==
  [attempt_id: Ids, recovery_episode: Ids, cause: FailureClasses,
   stream_started: BOOLEAN]

CooldownStates ==
  [state: {"NotRequired"}]
    \cup [state: {"Pending", "Satisfied", "Invalidated"}, attempt_id: Ids,
          marker: Markers]

Snapshots ==
  [desired_running: BOOLEAN, intent_generation: Nat, state_revision: Nat,
   configuration_id: Configurations \cup {None}, phase: Phases,
   attempts_started: Nat, current_attempt: AttemptStates \cup {None},
   recovery_episode: Episodes \cup {None},
   last_failure: FailureRecords \cup {None},
   recent_failures: Seq(FailureRecords),
   failure_totals: [FailureClasses -> Nat], total_failures: Nat,
   consecutive_failed_attempts: Nat, cooldown: CooldownStates]

ASSUME NoneAssumption ==
  /\ None \notin Configurations /\ None \notin FailureClasses
  /\ None \notin AttemptStates  /\ None \notin Episodes
  /\ None \notin ExhaustionRecords /\ None \notin FailureRecords
  /\ None \notin Snapshots

-----------------------------------------------------------------------------
VARIABLES
  intent_generation,   (* 0 until the first explicit start                 *)
  state_revision,
  configuration_id,
  desired_running,
  phase,
  attempts_started,
  current_attempt,
  recovery_episode,
  last_failure,
  recent_failures,
  failure_totals,      (* per class                                        *)
  total_failures,      (* FailureTotals::total                             *)
  consecutive_failed_attempts,
  cooldown,
  evaluation           (* the snapshot each evaluator holds, or None       *)

intentVars  == <<intent_generation, configuration_id, desired_running>>
failureVars == <<last_failure, recent_failures, failure_totals, total_failures,
                 consecutive_failed_attempts>>
retryVars   == <<intentVars, failureVars, state_revision, phase,
                 attempts_started, current_attempt, recovery_episode, cooldown>>
vars        == <<retryVars, evaluation>>

NotRequired == [state |-> "NotRequired"]

Init ==
  /\ intent_generation = 0
  /\ state_revision = 0
  /\ configuration_id = None
  /\ desired_running = FALSE
  /\ phase = "Idle"
  /\ attempts_started = 0
  /\ current_attempt = None
  /\ recovery_episode = None
  /\ last_failure = None
  /\ recent_failures = <<>>
  /\ failure_totals = [c \in FailureClasses |-> 0]
  /\ total_failures = 0
  /\ consecutive_failed_attempts = 0
  /\ cooldown = NotRequired
  /\ evaluation = [e \in Evaluators |-> None]

-----------------------------------------------------------------------------
(* Guards and updates the methods share.                                   *)

\* next_revision: every accepted transition consumes one revision.
NextRevision ==
  /\ state_revision < CounterMax
  /\ state_revision' = state_revision + 1

\* require_attempt and require_attempt_mut.
IsCurrentAttempt(id) == current_attempt # None /\ current_attempt.id = id

ReadyForEvaluation(a) ==
  /\ a.failure # None
  /\ a.resources_released
  /\ a.stream_started => a.terminal_event_delivered

EpisodeId(e) == IF e = None THEN None ELSE e.id
AttemptId(a) == IF a = None THEN None ELSE a.id

Snapshot ==
  [desired_running |-> desired_running, intent_generation |-> intent_generation,
   state_revision |-> state_revision, configuration_id |-> configuration_id,
   phase |-> phase, attempts_started |-> attempts_started,
   current_attempt |-> current_attempt, recovery_episode |-> recovery_episode,
   last_failure |-> last_failure, recent_failures |-> recent_failures,
   failure_totals |-> failure_totals, total_failures |-> total_failures,
   consecutive_failed_attempts |-> consecutive_failed_attempts,
   cooldown |-> cooldown]

\* Defect: generations not compared, although revisions restart with each one.
IsCurrentSnapshot_AnyGeneration(s) ==
  /\ intent_generation # 0
  /\ s.state_revision = state_revision
  /\ s.configuration_id = configuration_id
  /\ EpisodeId(s.recovery_episode) = EpisodeId(recovery_episode)
  /\ AttemptId(s.current_attempt) = AttemptId(current_attempt)

\* require_current_snapshot, and require_current_authorization on the
\* authorization `authorize` projects from the snapshot.
IsCurrentSnapshot(s) ==
  /\ intent_generation # 0
  /\ s.intent_generation = intent_generation
  /\ s.state_revision = state_revision
  /\ s.configuration_id = configuration_id
  /\ EpisodeId(s.recovery_episode) = EpisodeId(recovery_episode)
  /\ AttemptId(s.current_attempt) = AttemptId(current_attempt)

\* Defect: late evidence on an exhausted episode reopens it.
RefreshPostFailurePhase_Reopens(attempt, newPhase) ==
  IF desired_running /\ ReadyForEvaluation(attempt)
  THEN /\ phase' = "Waiting"
       /\ current_attempt' = [attempt EXCEPT !.lifecycle = "CleanupComplete"]
  ELSE /\ phase' = newPhase
       /\ current_attempt' = attempt

\* refresh_post_failure_phase, applied to the attempt and phase a method
\* has just computed.
RefreshPostFailurePhase(attempt, newPhase) ==
  IF desired_running /\ newPhase # "Exhausted" /\ ReadyForEvaluation(attempt)
  THEN /\ phase' = "Waiting"
       /\ current_attempt' = [attempt EXCEPT !.lifecycle = "CleanupComplete"]
  ELSE /\ phase' = newPhase
       /\ current_attempt' = attempt

-----------------------------------------------------------------------------
(* Capture intent.                                                         *)

\* Defect: a new intent starts over an attempt that still holds resources.
ExplicitStart_SkipsCleanup(configuration) ==
  /\ ~desired_running
  /\ intent_generation < MaxGenerations
  /\ intent_generation' = intent_generation + 1
  /\ state_revision' = 1
  /\ configuration_id' = configuration
  /\ desired_running' = TRUE
  /\ phase' = "Idle"
  /\ attempts_started' = 0
  /\ current_attempt' = None
  /\ recovery_episode' = None
  /\ last_failure' = None
  /\ recent_failures' = <<>>
  /\ failure_totals' = [c \in FailureClasses |-> 0]
  /\ total_failures' = 0
  /\ consecutive_failed_attempts' = 0
  /\ cooldown' = NotRequired
  /\ UNCHANGED evaluation

ExplicitStart(configuration) ==
  /\ ~desired_running
  /\ current_attempt # None => current_attempt.resources_released
  /\ intent_generation < CounterMax
  /\ intent_generation < MaxGenerations
  /\ intent_generation' = intent_generation + 1
  /\ state_revision' = 1
  /\ configuration_id' = configuration
  /\ desired_running' = TRUE
  /\ phase' = "Idle"
  /\ attempts_started' = 0
  /\ current_attempt' = None
  /\ recovery_episode' = None
  /\ last_failure' = None
  /\ recent_failures' = <<>>
  /\ failure_totals' = [c \in FailureClasses |-> 0]
  /\ total_failures' = 0
  /\ consecutive_failed_attempts' = 0
  /\ cooldown' = NotRequired
  /\ UNCHANGED evaluation

\* Defect: stop forgets the cooldown it should invalidate.
ExplicitStop_KeepsCooldown(generation) ==
  /\ intent_generation # 0
  /\ generation = intent_generation
  /\ NextRevision
  /\ desired_running' = FALSE
  /\ phase' = "Stopped"
  /\ UNCHANGED <<intent_generation, configuration_id, failureVars, cooldown,
                 attempts_started, current_attempt, recovery_episode,
                 evaluation>>

ExplicitStop(generation) ==
  /\ intent_generation # 0
  /\ generation = intent_generation
  /\ NextRevision
  /\ desired_running' = FALSE
  /\ phase' = "Stopped"
  /\ cooldown' = IF cooldown.state \in {"Pending", "Satisfied"}
                 THEN [cooldown EXCEPT !.state = "Invalidated"]
                 ELSE cooldown
  /\ UNCHANGED <<intent_generation, configuration_id, failureVars,
                 attempts_started, current_attempt, recovery_episode,
                 evaluation>>

-----------------------------------------------------------------------------
(* Attempts.                                                               *)

\* commit_attempt: the attempt is accounted for before the owner exists.
CommitAttempt(kind) ==
  /\ attempts_started < CounterMax
  /\ NextRevision
  /\ attempts_started' = attempts_started + 1
  /\ current_attempt' =
       [id |-> <<intent_generation, attempts_started + 1>>, kind |-> kind,
        lifecycle |-> "Committed", stream_started |-> FALSE,
        terminal_event_delivered |-> FALSE, resources_released |-> FALSE,
        failure |-> None]
  /\ phase' = "Attempting"
  /\ cooldown' = NotRequired
  /\ UNCHANGED <<intentVars, failureVars, evaluation>>

\* Defect: the initial attempt may be committed again.
CommitInitialAttempt_Repeatable(generation) ==
  /\ intent_generation # 0
  /\ generation = intent_generation
  /\ desired_running
  /\ CommitAttempt("ExplicitStart")
  /\ UNCHANGED recovery_episode

CommitInitialAttempt(generation) ==
  /\ intent_generation # 0
  /\ generation = intent_generation
  /\ desired_running
  /\ phase = "Idle"
  /\ CommitAttempt("ExplicitStart")
  /\ UNCHANGED recovery_episode

\* The policy may have permitted replacement for whatever snapshot the
\* evaluator holds; the method alone decides whether it still applies.
CommitRecoveryAttempt(e) ==
  /\ evaluation[e] # None
  /\ IsCurrentSnapshot(evaluation[e])
  /\ recovery_episode # None
  /\ recovery_episode.exhaustion = None
  /\ current_attempt # None
  /\ current_attempt.resources_released
  /\ current_attempt.stream_started => current_attempt.terminal_event_delivered
  /\ desired_running
  /\ phase = "Waiting"
  /\ cooldown.state \in {"NotRequired", "Satisfied"}
  /\ recovery_episode.automatic_recovery_attempts_started < CounterMax
  /\ recovery_episode' =
       [recovery_episode EXCEPT !.automatic_recovery_attempts_started = @ + 1]
  /\ CommitAttempt("AutomaticRecovery")

RecordOwnerCreated(id) ==
  /\ IsCurrentAttempt(id)
  /\ current_attempt.lifecycle = "Committed"
  /\ NextRevision
  /\ current_attempt' = [current_attempt EXCEPT !.lifecycle = "OwnerCreated"]
  /\ UNCHANGED <<intentVars, failureVars, phase, attempts_started,
                 recovery_episode, cooldown, evaluation>>

\* Defect: a late Started restores running intent.
RecordStreamStarted_RevivesIntent(id) ==
  /\ IsCurrentAttempt(id)
  /\ current_attempt.lifecycle = "OwnerCreated"
  /\ NextRevision
  /\ current_attempt' = [current_attempt EXCEPT !.lifecycle = "Running",
                                                !.stream_started = TRUE]
  /\ phase' = "Running"
  /\ UNCHANGED <<intentVars, failureVars, attempts_started, recovery_episode,
                 cooldown, evaluation>>

RecordStreamStarted(id) ==
  /\ IsCurrentAttempt(id)
  /\ current_attempt.lifecycle = "OwnerCreated"
  /\ NextRevision
  /\ current_attempt' = [current_attempt EXCEPT !.lifecycle = "Running",
                                                !.stream_started = TRUE]
  /\ phase' = IF desired_running THEN "Running" ELSE phase
  /\ UNCHANGED <<intentVars, failureVars, attempts_started, recovery_episode,
                 cooldown, evaluation>>

RecordNormalCompletion(id) ==
  /\ IsCurrentAttempt(id)
  /\ current_attempt.failure = None
  /\ current_attempt.lifecycle \in {"OwnerCreated", "Running"}
  /\ NextRevision
  /\ current_attempt' = [current_attempt EXCEPT !.lifecycle = "Completed"]
  /\ UNCHANGED <<intentVars, failureVars, phase, attempts_started,
                 recovery_episode, cooldown, evaluation>>

\* The first failure of a generation opens its first recovery episode.
EpisodeForFailure ==
  IF recovery_episode # None
  THEN recovery_episode
  ELSE [id |-> <<intent_generation, 1>>,
        automatic_recovery_attempts_started |-> 0, exhaustion |-> None]

\* Defect: the newest entry is evicted instead of the oldest.
PushFailure_EvictsNewest(history, record) ==
  Append(IF Len(history) = HistoryCapacity
         THEN SubSeq(history, 1, HistoryCapacity - 1) ELSE history, record)

\* Defect: the capacity is not enforced.
PushFailure_Unbounded(history, record) == Append(history, record)

\* push_back, after pop_front when the history is full.
PushFailure(history, record) ==
  Append(IF Len(history) = HistoryCapacity THEN Tail(history) ELSE history,
         record)

RecordFailure(id, cause) ==
  /\ IsCurrentAttempt(id)
  /\ current_attempt.failure = None
  /\ current_attempt.lifecycle \in {"Committed", "OwnerCreated", "Running"}
  /\ total_failures < CounterMax
  /\ consecutive_failed_attempts < CounterMax
  /\ NextRevision
  /\ LET record == [attempt_id |-> id,
                    recovery_episode |-> EpisodeForFailure.id,
                    cause |-> cause,
                    stream_started |-> current_attempt.stream_started]
     IN /\ last_failure' = record
        /\ recent_failures' = PushFailure(recent_failures, record)
  /\ recovery_episode' = EpisodeForFailure
  /\ failure_totals' = [failure_totals EXCEPT ![cause] = @ + 1]
  /\ total_failures' = total_failures + 1
  /\ consecutive_failed_attempts' = consecutive_failed_attempts + 1
  /\ RefreshPostFailurePhase(
       [current_attempt EXCEPT !.failure = cause, !.lifecycle = "Failed"],
       IF desired_running THEN "Failed" ELSE phase)
  /\ UNCHANGED <<intentVars, attempts_started, cooldown, evaluation>>

\* Defect: the phase is only refreshed by cleanup, never by the terminal event.
RecordTerminalEventDelivered_NoRefresh(id) ==
  /\ IsCurrentAttempt(id)
  /\ current_attempt.stream_started
  /\ current_attempt.lifecycle \in {"Running", "Failed", "Completed"}
  /\ NextRevision
  /\ current_attempt' =
       [current_attempt EXCEPT !.terminal_event_delivered = TRUE]
  /\ UNCHANGED <<intentVars, failureVars, phase, attempts_started,
                 recovery_episode, cooldown, evaluation>>

RecordTerminalEventDelivered(id) ==
  /\ IsCurrentAttempt(id)
  /\ current_attempt.stream_started
  /\ current_attempt.lifecycle \in {"Running", "Failed", "Completed"}
  /\ NextRevision
  /\ RefreshPostFailurePhase(
       [current_attempt EXCEPT !.terminal_event_delivered = TRUE], phase)
  /\ UNCHANGED <<intentVars, failureVars, attempts_started, recovery_episode,
                 cooldown, evaluation>>

\* Whether joined cleanup ends the attempt: a completed one, a failed one
\* with its terminal evidence, or any attempt whose intent was stopped.
CleanupEndsAttempt(a) ==
  \/ a.lifecycle = "Completed"
  \/ a.failure # None /\ (a.stream_started => a.terminal_event_delivered)
  \/ ~desired_running

RecordCleanupComplete(id) ==
  /\ IsCurrentAttempt(id)
  /\ NextRevision
  /\ RefreshPostFailurePhase(
       [current_attempt EXCEPT
          !.resources_released = TRUE,
          !.lifecycle = IF CleanupEndsAttempt(current_attempt)
                        THEN "CleanupComplete" ELSE @],
       phase)
  /\ UNCHANGED <<intentVars, failureVars, attempts_started, recovery_episode,
                 cooldown, evaluation>>

-----------------------------------------------------------------------------
(* Cooldown, exhaustion and recovery episodes.                             *)

RequireCooldown(e, marker) ==
  /\ evaluation[e] # None
  /\ IsCurrentSnapshot(evaluation[e])
  /\ phase = "Waiting"
  /\ NextRevision
  /\ current_attempt # None
  /\ cooldown' = [state |-> "Pending", attempt_id |-> current_attempt.id,
                  marker |-> marker]
  /\ UNCHANGED <<intentVars, failureVars, phase, attempts_started,
                 current_attempt, recovery_episode, evaluation>>

\* Defect: the evidence is recorded under the revision already evaluated.
SatisfyCooldown_SameRevision(generation, marker) ==
  /\ intent_generation # 0
  /\ generation = intent_generation
  /\ cooldown.state = "Pending"
  /\ cooldown.marker = marker
  /\ cooldown' = [cooldown EXCEPT !.state = "Satisfied"]
  /\ UNCHANGED <<intentVars, failureVars, phase, attempts_started,
                 state_revision, current_attempt, recovery_episode, evaluation>>

SatisfyCooldown(generation, marker) ==
  /\ intent_generation # 0
  /\ generation = intent_generation
  /\ cooldown.state = "Pending"
  /\ cooldown.marker = marker
  /\ NextRevision
  /\ cooldown' = [cooldown EXCEPT !.state = "Satisfied"]
  /\ UNCHANGED <<intentVars, failureVars, phase, attempts_started,
                 current_attempt, recovery_episode, evaluation>>

MarkExhausted(e, reason) ==
  /\ evaluation[e] # None
  /\ IsCurrentSnapshot(evaluation[e])
  /\ recovery_episode # None
  /\ recovery_episode.exhaustion = None
  /\ phase = "Waiting"
  /\ NextRevision
  /\ current_attempt # None
  /\ configuration_id # None
  /\ recovery_episode' =
       [recovery_episode EXCEPT !.exhaustion =
          [recovery_episode |-> recovery_episode.id,
           evaluated_revision |-> evaluation[e].state_revision,
           attempt_id |-> current_attempt.id,
           reason |-> reason,
           configuration_id |-> configuration_id]]
  /\ phase' = "Exhausted"
  /\ UNCHANGED <<intentVars, failureVars, attempts_started, current_attempt,
                 cooldown, evaluation>>

AdvanceRecoveryEpisode(generation, evidence) ==
  /\ intent_generation # 0
  /\ generation = intent_generation
  /\ \/ phase = "Running" /\ evidence = "StableRun"
     \/ phase \in {"Waiting", "Exhausted"} /\ evidence = "ChangedPrecondition"
  /\ current_attempt # None /\ current_attempt.failure # None
       => ReadyForEvaluation(current_attempt)
  /\ recovery_episode # None
  /\ recovery_episode.id[2] < CounterMax
  /\ NextRevision
  /\ recovery_episode' = [id |-> <<generation, recovery_episode.id[2] + 1>>,
                          automatic_recovery_attempts_started |-> 0,
                          exhaustion |-> None]
  /\ consecutive_failed_attempts' = 0
  /\ cooldown' = NotRequired
  /\ phase' = IF phase = "Exhausted" THEN "Waiting" ELSE phase
  /\ UNCHANGED <<intentVars, last_failure, recent_failures, failure_totals,
                 total_failures, attempts_started, current_attempt, evaluation>>

\* snapshot: fails before the first explicit start.
TakeSnapshot(e) ==
  /\ intent_generation # 0
  /\ evaluation' = [evaluation EXCEPT ![e] = Snapshot]
  /\ UNCHANGED retryVars

-----------------------------------------------------------------------------
(* Callers may present any generation or attempt identity ever issued.     *)
Generations == 0 .. MaxGenerations
AttemptIds  == (1 .. MaxGenerations) \X (1 .. CounterMax)

AttemptNext ==
  \E id \in AttemptIds :
    \/ RecordOwnerCreated(id)
    \/ RecordStreamStarted(id)
    \/ RecordNormalCompletion(id)
    \/ \E cause \in FailureClasses : RecordFailure(id, cause)
    \/ RecordTerminalEventDelivered(id)
    \/ RecordCleanupComplete(id)

IntentNext ==
  \/ \E configuration \in Configurations : ExplicitStart(configuration)
  \/ \E generation \in Generations :
       \/ ExplicitStop(generation)
       \/ CommitInitialAttempt(generation)
       \/ \E marker \in Markers : SatisfyCooldown(generation, marker)
       \/ \E evidence \in ResetEvidence :
            AdvanceRecoveryEpisode(generation, evidence)

EvaluatorNext ==
  \E e \in Evaluators :
    \/ TakeSnapshot(e)
    \/ CommitRecoveryAttempt(e)
    \/ \E marker \in Markers : RequireCooldown(e, marker)
    \/ \E reason \in ExhaustionReasons : MarkExhausted(e, reason)

Next == AttemptNext \/ IntentNext \/ EvaluatorNext

Spec == Init /\ [][Next]_vars

-----------------------------------------------------------------------------
(* Properties.                                                             *)

\* Every field of the retry state has the type the Rust struct gives it.
TypeOK ==
  /\ intent_generation \in Nat /\ state_revision \in Nat
  /\ configuration_id \in Configurations \cup {None}
  /\ desired_running \in BOOLEAN
  /\ phase \in Phases
  /\ attempts_started \in Nat
  /\ current_attempt \in AttemptStates \cup {None}
  /\ recovery_episode \in Episodes \cup {None}
  /\ last_failure \in FailureRecords \cup {None}
  /\ recent_failures \in Seq(FailureRecords)
  /\ Len(recent_failures) <= HistoryCapacity
  /\ failure_totals \in [FailureClasses -> Nat]
  /\ total_failures \in Nat
  /\ consecutive_failed_attempts \in Nat
  /\ cooldown \in CooldownStates
  /\ evaluation \in [Evaluators -> Snapshots \cup {None}]

\* Whether evaluator e could act on the snapshot it holds.
HoldsCurrentSnapshot(e) ==
  evaluation[e] # None /\ IsCurrentSnapshot(evaluation[e])

\* The binding by generation, revision, configuration, episode and attempt is
\* enough: a held snapshot that still passes require_current_snapshot shows
\* exactly the state it would act on, in every field.  A transition that
\* forgot its revision would let a decision act on facts nobody evaluated.
CurrentSnapshotIsExact ==
  \A e \in Evaluators :
    HoldsCurrentSnapshot(e) => evaluation[e] = Snapshot

\* A snapshot that has gone stale never becomes current again, whatever stops,
\* starts, retries and resets follow: an authorization cannot be revived.
StaleSnapshotNeverRevives ==
  [][\A e \in Evaluators :
       evaluation'[e] = evaluation[e] /\ ~HoldsCurrentSnapshot(e)
         => ~HoldsCurrentSnapshot(e)']_vars

\* The phase offers a failed attempt to the policy exactly when its evidence is
\* complete: Waiting or Exhausted never appear with cleanup or a terminal event
\* outstanding, and complete evidence is never left behind in Failed, in
\* whatever order failure, terminal event and cleanup were recorded.
EvaluableIffEvidenceComplete ==
  desired_running =>
    (phase \in {"Waiting", "Exhausted"}
       <=> current_attempt # None /\ ReadyForEvaluation(current_attempt))

\* Explicit stop holds for the rest of its generation: stopped is the phase of
\* exactly the intents that are no longer desired, and only a new generation
\* leaves it.
StoppedIffIntentAbsent ==
  intent_generation # 0 => (phase = "Stopped" <=> ~desired_running)

\* No two owners overlap: an attempt gives way to another one, by recovery or
\* by a new explicit start, only after its resources were released, and to a
\* recovery only after its consumers saw the terminal event.
NoOverlappingAttempts ==
  [][current_attempt # None /\ AttemptId(current_attempt') # current_attempt.id
       => /\ current_attempt.resources_released
          /\ \/ intent_generation' # intent_generation
             \/ /\ current_attempt.failure # None
                /\ current_attempt.stream_started
                     => current_attempt.terminal_event_delivered]_vars

\* Each attempt fails at most once and a successor is committed only after its
\* predecessor failed, so failures and attempts stay in step.  The budget of
\* an episode is charged once per recovery attempt and never refunded: it stays
\* below the attempts, and ahead of the episode's failures by at most the
\* attempt that follows a reset.
FailuresAccountForAttempts ==
  /\ attempts_started > 0 <=> current_attempt # None
  /\ current_attempt # None =>
       total_failures = IF current_attempt.failure = None
                        THEN attempts_started - 1 ELSE attempts_started
  /\ current_attempt = None => total_failures = 0
  /\ total_failures > 0 <=> recovery_episode # None
  /\ recovery_episode # None =>
       LET charged == recovery_episode.automatic_recovery_attempts_started IN
       /\ charged < attempts_started
       /\ charged <= consecutive_failed_attempts + 1
       /\ consecutive_failed_attempts <= total_failures

\* The bounded history holds exactly the latest failures, one per attempt and
\* in order, and last_failure is its newest entry, also after entries were
\* evicted.
HistoryIsLatestFailures ==
  LET n == Len(recent_failures) IN
  /\ n = (IF total_failures < HistoryCapacity
          THEN total_failures ELSE HistoryCapacity)
  /\ \A i \in 1 .. n :
       recent_failures[i].attempt_id
         = <<intent_generation, total_failures - n + i>>
  /\ last_failure = IF n = 0 THEN None ELSE recent_failures[n]

\* Within one episode exhaustion is final: while the intent lasts, only a reset
\* that opens a new episode leaves Exhausted, and no attempt starts meanwhile.
ExhaustionIsSticky ==
  [][recovery_episode # None /\ recovery_episode.exhaustion # None
       /\ intent_generation' = intent_generation
       => \/ /\ recovery_episode' = recovery_episode
             /\ attempts_started' = attempts_started
             /\ desired_running' => phase' = "Exhausted"
          \/ recovery_episode'.id[2] = recovery_episode.id[2] + 1]_vars

\* A cooldown is owed by the attempt that failed: it is pending or satisfied
\* only while that attempt waits under a live intent.
CooldownBelongsToWaitingAttempt ==
  cooldown.state \in {"Pending", "Satisfied"} =>
    /\ desired_running
    /\ phase \in {"Waiting", "Exhausted"}
    /\ cooldown.attempt_id = AttemptId(current_attempt)

=============================================================================
