------------------------- MODULE CaptureSupervisor -------------------------
(***************************************************************************)
(* The CaptureSupervisor (crates/resonance-agent/src/supervisor.rs): it    *)
(* composes the retry state of RetryState with the single-use owner of     *)
(* CaptureHandoff, whose worker runs the consumer's callback and records   *)
(* what it was told while the supervisor starts, waits and stops.          *)
(*                                                                         *)
(* A public method takes &mut self, so calls do not overlap; the owner's   *)
(* threads run between any two steps of one.  Each step makes one retry    *)
(* transition or one call on the owner.  The code `expect`s every retry    *)
(* transition to be accepted: one that is refused leaves its call without  *)
(* a step, which is how the panic shows.                                   *)
(***************************************************************************)
EXTENDS Integers, Sequences, FiniteSets

CONSTANTS
  HandoffCapacity, PacketLimit, HasDeadline, PanicsPossible,
  CounterMax, None

ASSUME SupervisorAssumption ==
  /\ HandoffCapacity \in Nat \ {0} /\ PacketLimit \in Nat
  /\ HasDeadline \in BOOLEAN /\ PanicsPossible \in BOOLEAN
  /\ CounterMax \in Nat \ {0}

(* the owner's variables, see CaptureHandoff *)
VARIABLES owner, start_called, completion, stop, worker, result, pending,
          resume, events, capture, captured, termination, queue, pool, end_signal

(* the retry state's variables, see RetryState *)
VARIABLES intent_generation, state_revision, configuration_id, desired_running,
          phase, attempts_started, current_attempt, recovery_episode,
          last_failure, recent_failures, failure_totals, total_failures,
          consecutive_failed_attempts, cooldown

VARIABLES
  state,               (* CaptureSupervisorState                           *)
  call,                (* the step the call in progress is at, or "None"   *)
  owner_created,       (* the factory has returned the owner               *)
  observation,         (* CaptureTerminalObservation, shared with the worker *)
  resources_released,
  outcome,             (* CaptureSupervisorCompletion or None              *)
  recovery_evaluation  (* RecoveryEvaluationSnapshot or None               *)

ownerVars == <<owner, start_called, completion, stop, worker, result, pending,
               resume, events, capture, captured, termination, queue, pool,
               end_signal>>
retryVars == <<intent_generation, state_revision, configuration_id,
               desired_running, phase, attempts_started, current_attempt,
               recovery_episode, last_failure, recent_failures, failure_totals,
               total_failures, consecutive_failed_attempts, cooldown>>
resultVars == <<resources_released, outcome>>
vars == <<ownerVars, retryVars, state, call, owner_created, observation,
          resultVars, recovery_evaluation>>

RetryFailures == {"OwnerConstructionFailure", "StartupFailure", "WorkerPanic",
                  "DeviceInvalidated", "UnsupportedFormat", "InternalFailure"}

\* Recovery is disabled: one configuration, one intent, RETRY_HISTORY_CAPACITY
\* records, no cooldown markers, and no evaluator besides the supervisor.
Retry == INSTANCE RetryState WITH
  HistoryCapacity <- 16, Configurations <- {"RecoveryDisabled"},
  FailureClasses <- RetryFailures, Markers <- {}, Evaluators <- {},
  MaxGenerations <- 1, evaluation <- <<>>

Owner == INSTANCE CaptureHandoff

Policy == INSTANCE RecoveryPolicy

-----------------------------------------------------------------------------
States == {"Idle", "Running", "Stopping", "Completed"}
Calls == {"None", "BeginIntent", "DisableIntent", "CommitAttempt", "CreateOwner", "ConstructionCleanup",
          "StartOwner", "Stop", "Wait", "RecordStarted", "RecordOutcome",
          "RecordTerminal", "RecordCleanup", "Evaluate"}

\* CaptureSupervisorCompletion.
SupervisorCompletions ==
  [status: {"ConstructionFailed", "StoppedBeforeStart", "StartFailed", "Panicked"}]
    \cup [status: {"Finished"}, end: Owner!CaptureEnds]
    \cup [status: {"Failed"},
          kind: {"SourceUnavailable", "UnsupportedFormat", "Internal"}]

\* RecoveryEvaluationSnapshot.
EvaluationSnapshots ==
  [retry_state: Retry!Snapshots, cause: Policy!RecoveryCauses,
   completion: SupervisorCompletions, evidence: Policy!RecoveryEvidence,
   decision: Policy!RecoveryDecisions]

\* None is no value of any Option it stands in for.
ASSUME NoneAssumption ==
  /\ None \notin RetryFailures \cup Owner!EndReasons
                 \cup {"RecoveryDisabled", "Yes", "No"}
  /\ None \notin Retry!AttemptStates /\ None \notin Retry!Episodes
  /\ None \notin Retry!ExhaustionRecords /\ None \notin Retry!FailureRecords
  /\ None \notin Retry!Snapshots /\ None \notin Owner!Completions
  /\ None \notin Policy!RecoveryDecisions
  /\ None \notin EvaluationSnapshots

NothingObserved == [started |-> FALSE, error |-> None, end_reason |-> None]

Init ==
  /\ Owner!Init /\ Retry!Init
  /\ state = "Idle" /\ call = "None" /\ owner_created = FALSE
  /\ observation = NothingObserved
  /\ resources_released = FALSE /\ outcome = None
  /\ recovery_evaluation = None

\* CaptureRunError::kind, for the errors an owner's run ends with.
RunErrorKind(e) == IF e \in {"SourceUnavailable", "UnsupportedFormat"} THEN e ELSE "Internal"

\* CaptureSupervisorCompletion::from.
CompletionFrom(c) ==
  CASE c.status = "Failed" ->
         [status |-> "Failed", kind |-> RunErrorKind(c.error)]
    [] OTHER -> c

RetryFailureFor(c) ==
  CASE c.status = "StartFailed" -> "StartupFailure"
    [] c.status = "Panicked"    -> "WorkerPanic"
    [] c.status = "Failed" /\ c.kind = "SourceUnavailable" -> "DeviceInvalidated"
    [] c.status = "Failed" /\ c.kind = "UnsupportedFormat" -> "UnsupportedFormat"
    [] c.status = "Failed" /\ c.kind = "Internal"          -> "InternalFailure"
    [] c.status \in {"StoppedBeforeStart", "Finished"}     -> None

\* What the callback wrapper records once the consumer has returned.
Observe(seen, event) ==
  CASE event.kind = "Started" -> [seen EXCEPT !.started = TRUE]
    [] event.kind = "Error"   -> [seen EXCEPT !.error = event.error]
    [] event.kind = "Ended"   -> [seen EXCEPT !.end_reason = event.reason]
    [] event.kind = "Data"    -> seen

-----------------------------------------------------------------------------
(* start                                                                   *)

BeginStart ==
  /\ call = "None" /\ state = "Idle"
  /\ call' = "BeginIntent"
  /\ UNCHANGED <<ownerVars, retryVars, state, owner_created, observation,
                 resultVars, recovery_evaluation>>

BeginIntent ==
  /\ call = "BeginIntent"
  /\ Retry!ExplicitStart("RecoveryDisabled")
  /\ call' = "CommitAttempt"
  /\ UNCHANGED <<ownerVars, state, owner_created, observation, resultVars,
                 recovery_evaluation>>

CommitAttempt ==
  /\ call = "CommitAttempt"
  /\ Retry!CommitInitialAttempt(intent_generation)
  /\ call' = "CreateOwner"
  /\ UNCHANGED <<ownerVars, state, owner_created, observation, resultVars,
                 recovery_evaluation>>

\* factory.create, and the transition that records how it went.
CreateOwner ==
  /\ call = "CreateOwner"
  /\ \/ /\ Retry!RecordOwnerCreated(current_attempt.id)
        /\ owner_created' = TRUE /\ call' = "StartOwner"
     \/ /\ Retry!RecordFailure(current_attempt.id, "OwnerConstructionFailure")
        /\ call' = "ConstructionCleanup" /\ UNCHANGED owner_created
  /\ UNCHANGED <<ownerVars, state, observation, resultVars, recovery_evaluation>>

ConstructionCleanup ==
  /\ call = "ConstructionCleanup"
  /\ Retry!RecordCleanupComplete(current_attempt.id)
  /\ resources_released' = TRUE
  /\ outcome' = [status |-> "ConstructionFailed"]
  /\ state' = "Completed"
  /\ call' = "Evaluate"
  /\ UNCHANGED <<ownerVars, owner_created, observation, recovery_evaluation>>

\* owner.start; a failure to spawn is recorded with a wait that cannot block.
StartOwner ==
  /\ call = "StartOwner"
  /\ Owner!Start
  /\ IF completion' = None
       THEN state' = "Running" /\ call' = "None"
       ELSE call' = "Wait" /\ UNCHANGED state
  /\ UNCHANGED <<retryVars, owner_created, observation, resultVars,
                 recovery_evaluation>>

-----------------------------------------------------------------------------
(* wait_for_completion and stop                                            *)

BeginWait ==
  /\ call = "None" /\ state # "Idle" /\ outcome = None
  /\ call' = "Wait"
  /\ UNCHANGED <<ownerVars, retryVars, state, owner_created, observation,
                 resultVars, recovery_evaluation>>

BeginStop ==
  /\ call = "None"
  /\ call' = "DisableIntent"
  /\ UNCHANGED <<ownerVars, retryVars, state, owner_created, observation,
                 resultVars, recovery_evaluation>>

\* disable_recovery_intent comes first, whatever the state.
DisableIntent ==
  /\ call = "DisableIntent"
  /\ IF intent_generation # 0 /\ desired_running
       THEN Retry!ExplicitStop(intent_generation)
       ELSE UNCHANGED retryVars
  /\ call' = "Stop"
  /\ UNCHANGED <<ownerVars, state, owner_created, observation, resultVars,
                 recovery_evaluation>>

\* Defect: the owner's resources count as released when its stop is requested.
StopOwner_ReleasesEarly ==
  /\ call = "Stop" /\ state \in {"Running", "Stopping"}
  /\ state' = "Stopping"
  /\ Owner!RequestStop
  /\ resources_released' = TRUE
  /\ call' = "Wait"
  /\ UNCHANGED <<retryVars, owner_created, observation, outcome,
                 recovery_evaluation>>

StopOwner ==
  /\ call = "Stop" /\ state \in {"Running", "Stopping"}
  /\ state' = "Stopping"
  /\ Owner!RequestStop
  /\ call' = "Wait"
  /\ UNCHANGED <<retryVars, owner_created, observation, resultVars,
                 recovery_evaluation>>

StopIdle ==
  /\ call = "Stop" /\ state = "Idle"
  /\ resources_released' = TRUE
  /\ outcome' = [status |-> "StoppedBeforeStart"]
  /\ state' = "Completed"
  /\ call' = "None"
  /\ UNCHANGED <<ownerVars, retryVars, owner_created, observation,
                 recovery_evaluation>>

\* Defect: a stop after completion keeps the evaluation made before it.
StopCompleted_KeepsEvaluation ==
  /\ call = "Stop" /\ state = "Completed"
  /\ call' = "None"
  /\ UNCHANGED <<ownerVars, retryVars, state, owner_created, observation,
                 resultVars, recovery_evaluation>>

StopCompleted ==
  /\ call = "Stop" /\ state = "Completed"
  /\ call' = "Evaluate"
  /\ UNCHANGED <<ownerVars, retryVars, state, owner_created, observation,
                 resultVars, recovery_evaluation>>

\* The bounded wait runs out; the owner is kept and may be waited for again.
WaitTimesOut ==
  /\ call = "Wait" /\ completion = None
  /\ call' = "None"
  /\ UNCHANGED <<ownerVars, retryVars, state, owner_created, observation,
                 resultVars, recovery_evaluation>>

\* Defect: the attempt is recorded without the consumer's Started.
WaitReturns_SkipsStarted ==
  /\ call = "Wait"
  /\ \/ Owner!WaitForCompletion
     \/ completion # None /\ UNCHANGED ownerVars
  /\ outcome' = CompletionFrom(completion')
  /\ resources_released' = TRUE
  /\ state' = "Completed"
  /\ call' = "RecordOutcome"
  /\ UNCHANGED <<retryVars, owner_created, observation, recovery_evaluation>>

\* record_owner_completion, up to record_attempt_completion.
WaitReturns ==
  /\ call = "Wait"
  /\ \/ Owner!WaitForCompletion
     \/ completion # None /\ UNCHANGED ownerVars
  /\ outcome' = CompletionFrom(completion')
  /\ resources_released' = TRUE
  /\ state' = "Completed"
  /\ call' = "RecordStarted"
  /\ UNCHANGED <<retryVars, owner_created, observation, recovery_evaluation>>

-----------------------------------------------------------------------------
(* record_attempt_completion and record_recovery_evaluation                *)

RecordStep(next) ==
  /\ call' = next
  /\ UNCHANGED <<ownerVars, state, owner_created, observation, resultVars,
                 recovery_evaluation>>

RecordStarted ==
  /\ call = "RecordStarted"
  /\ IF observation.started /\ ~current_attempt.stream_started
       THEN Retry!RecordStreamStarted(current_attempt.id)
       ELSE UNCHANGED retryVars
  /\ RecordStep("RecordOutcome")

RecordOutcome ==
  /\ call = "RecordOutcome"
  /\ IF RetryFailureFor(outcome) # None
       THEN Retry!RecordFailure(current_attempt.id, RetryFailureFor(outcome))
       ELSE Retry!RecordNormalCompletion(current_attempt.id)
  /\ RecordStep("RecordTerminal")

\* Defect: terminal delivery is recorded for an attempt that never started.
RecordTerminal_WithoutStarted ==
  /\ call = "RecordTerminal"
  /\ Retry!RecordTerminalEventDelivered(current_attempt.id)
  /\ RecordStep("RecordCleanup")

RecordTerminal ==
  /\ call = "RecordTerminal"
  /\ IF observation.started /\ observation.end_reason # None
       THEN Retry!RecordTerminalEventDelivered(current_attempt.id)
       ELSE UNCHANGED retryVars
  /\ RecordStep("RecordCleanup")

RecordCleanup ==
  /\ call = "RecordCleanup"
  /\ Retry!RecordCleanupComplete(current_attempt.id)
  /\ RecordStep("Evaluate")

Cause ==
  IF ~desired_running THEN "ExplicitStop"
  ELSE IF last_failure # None THEN Policy!CauseOfFailure(last_failure.cause)
  ELSE "NormalShutdown"

\* The lifecycle part of policy_evidence.  The retry hint is left out: no row
\* that reads it is reached under RecoveryDisabled.
PolicyEvidence ==
  [Policy!NoEvidence EXCEPT
     !.stream_started = Policy!Known(current_attempt.stream_started),
     !.terminal_event_delivered =
        Policy!Known(current_attempt.terminal_event_delivered),
     !.owner_completed = Policy!Known(outcome # None),
     !.resources_released = Policy!Known(current_attempt.resources_released)]

\* RecoveryEvaluationSnapshot::evaluate, in the call that took the snapshot.
Decision ==
  Policy!EvaluateRecoveryPolicy(
    Policy!RecoveryDisabled(1), "RecoveryDisabled", "RecoveryDisabled",
    Retry!Snapshot,
    [desired_running |-> desired_running,
     current_intent_generation |-> intent_generation,
     evaluated_intent_generation |-> intent_generation],
    Cause, PolicyEvidence)

\* recovery_snapshot: no evaluation before an intent has an attempt and a
\* completion.
RecoverySnapshot ==
  [retry_state |-> Retry!Snapshot, cause |-> Cause, completion |-> outcome,
   evidence |-> PolicyEvidence, decision |-> Decision]

Evaluate ==
  /\ call = "Evaluate"
  /\ recovery_evaluation' =
       IF intent_generation # 0 /\ current_attempt # None /\ outcome # None
         THEN RecoverySnapshot ELSE recovery_evaluation
  /\ call' = "None"
  /\ UNCHANGED <<ownerVars, retryVars, state, owner_created, observation,
                 resultVars>>

\* The callback wrapper: the consumer first, then the observation.
DeliverAndObserve ==
  /\ Owner!Deliver
  /\ observation' = Observe(observation, Head(pending))

OwnerStep ==
  /\ \/ DeliverAndObserve
     \/ /\ \/ Owner!WorkerNext /\ worker # "Delivering"
           \/ Owner!CaptureNext
           \/ Owner!CallbackPanics
           \/ Owner!CapturePanics
           \/ \E end \in Owner!SignalledEnds : Owner!Notify(end)
        /\ UNCHANGED observation
  /\ UNCHANGED <<retryVars, state, call, owner_created, resultVars,
                 recovery_evaluation>>

\* The rest of a call once it has begun.
Continue ==
  \/ BeginIntent \/ DisableIntent
  \/ CommitAttempt \/ CreateOwner \/ ConstructionCleanup \/ StartOwner
  \/ StopOwner \/ StopIdle \/ StopCompleted \/ WaitTimesOut \/ WaitReturns
  \/ RecordStarted \/ RecordOutcome \/ RecordTerminal \/ RecordCleanup \/ Evaluate

Next == BeginStart \/ BeginWait \/ BeginStop \/ Continue \/ OwnerStep

\* A call that has begun runs on; nobody is obliged to begin one.
Spec == Init /\ [][Next]_vars /\ WF_vars(Continue)

-----------------------------------------------------------------------------
ReplacementEligible ==
  /\ desired_running
  /\ observation.end_reason # None
  /\ outcome # None
  /\ resources_released

\* Released resources are really released: neither thread of the owner runs
\* and no callback can come, which is what a replacement must wait for
\* (replacement_eligible, and "cleanup precedes replacement" of ADR 0007).
ReleasedMeansQuiet ==
  resources_released \/ ReplacementEligible
    => /\ worker \in {"NotSpawned", "Exited"}
       /\ capture \in {"NotSpawned", "Done", "Panicked"}

\* Between calls, the recorded evaluation speaks of the retry state as it is
\* now: no call changes intent or attempt and leaves an older evaluation.
EvaluationIsCurrent ==
  call = "None" /\ outcome # None /\ intent_generation # 0
    => /\ recovery_evaluation # None
       /\ recovery_evaluation.retry_state = Retry!Snapshot
       /\ recovery_evaluation.cause = Cause
       /\ recovery_evaluation.completion = outcome

\* Once a call has recorded the completion, the retry state's evidence is what
\* the consumer was told: it started iff Started was delivered, its terminal
\* event iff Ended was, apart from events whose delivery panicked.
EvidenceIsWhatTheConsumerSaw ==
  LET Told(kind) == Owner!Has(events, kind)
  IN  call = "None" /\ outcome # None /\ current_attempt # None
        => /\ current_attempt.stream_started => Told("Started")
           /\ current_attempt.terminal_event_delivered
                => Told("Ended") /\ current_attempt.stream_started
           /\ result # Owner!Panicked
                => /\ Told("Started") => current_attempt.stream_started
                   /\ Told("Ended") => current_attempt.terminal_event_delivered

\* The decision follows the stream's boundary as the consumer saw it: a stop
\* overrides everything, a stream that started and was never ended keeps the
\* policy waiting, every other completion remains stopped, and nothing is ever
\* permitted with recovery disabled.
DecisionFollowsTheStream ==
  LET Told(kind) == Owner!Has(events, kind)
      decided == recovery_evaluation.decision
  IN  call = "None" /\ recovery_evaluation # None /\ result # Owner!Panicked
        => IF desired_running
           THEN decided.class = IF Told("Started") /\ ~Told("Ended")
                                THEN "Wait" ELSE "RemainStopped"
           ELSE decided = Policy!RemainStopped("ExplicitStop")

\* Every call returns: no retry transition the supervisor expects to be
\* accepted is refused, in whatever order starts, stops, waits and the owner's
\* own end come.
EveryCallReturns == call # "None" ~> call = "None"
=============================================================================
