------------------------- MODULE RecoveryEvaluation -------------------------
(***************************************************************************)
(* Recovery as its parts are made to be composed: the retry state of       *)
(* RetryState under a validated recovery configuration, and evaluators     *)
(* that take a snapshot, put it to the policy at any later time, and       *)
(* commit a recovery attempt only with the authorization                   *)
(* `RetrySnapshot::authorize` gives for a permit.  The supervisor runs     *)
(* this loop up to the decision and with recovery disabled; here           *)
(* the configuration is any definition its validation accepts.             *)
(***************************************************************************)
EXTENDS RetryState

CONSTANTS
  Definitions,       (* RecoveryConfigurationInput values tried            *)
  OptionalEvidence   (* evidence about source, format, pressure and hint   *)

Policy == INSTANCE RecoveryPolicy

VARIABLES
  configuration,   (* the supervisor's RecoveryConfigurationSnapshot       *)
  evaluated,       (* the configuration each evaluator took, or None       *)
  evidence,        (* the RecoveryEvidence each evaluator took, or None    *)
  decision         (* the decision each evaluator holds, or None           *)

held == <<evaluated, evidence, decision>>
evaluationVars == <<vars, configuration, held>>

ASSUME DefinitionsAssumption ==
  /\ Definitions \subseteq Policy!ConfigurationInputs
  /\ \A d \in Definitions :
       Policy!IsValid(d) => Policy!Identity(d) \in Configurations

ASSUME EvidenceAssumption ==
  /\ OptionalEvidence \subseteq Policy!RecoveryEvidence
  /\ FailureClasses \subseteq Policy!RetryFailureCauses
  /\ None \notin Policy!RetryHints \cup {"Yes", "No"}

\* What validation makes of a definition: a snapshot with its identity.
Validated(d) == [identity |-> Policy!Identity(d), definition |-> d]

EvaluationInit ==
  /\ Init
  /\ configuration = None
  /\ evaluated = [e \in Evaluators |-> None]
  /\ evidence = [e \in Evaluators |-> None]
  /\ decision = [e \in Evaluators |-> None]

-----------------------------------------------------------------------------
\* A new intent runs under one validated configuration.
StartIntent(d) ==
  /\ Policy!IsValid(d)
  /\ ExplicitStart(Policy!Identity(d))
  /\ configuration' = Validated(d)
  /\ UNCHANGED held

\* The cause recovery_snapshot derives.
SnapshotCause(s) ==
  IF ~s.desired_running THEN "ExplicitStop"
  ELSE IF s.last_failure # None
    THEN Policy!CauseOfFailure(s.last_failure.cause)
  ELSE "NormalShutdown"

\* The lifecycle facts of the attempt; the owner has completed by the time
\* its resources are recorded as released.
EvidenceFor(attempt, optional) ==
  [optional EXCEPT
     !.stream_started = Policy!Known(attempt.stream_started),
     !.terminal_event_delivered = Policy!Known(attempt.terminal_event_delivered),
     !.owner_completed = Policy!Known(attempt.resources_released),
     !.resources_released = Policy!Known(attempt.resources_released)]

Observe(e, optional) ==
  /\ current_attempt # None
  /\ TakeSnapshot(e)
  /\ evaluated' = [evaluated EXCEPT ![e] = configuration]
  /\ evidence' = [evidence EXCEPT ![e] = EvidenceFor(current_attempt, optional)]
  /\ decision' = [decision EXCEPT ![e] = None]
  /\ UNCHANGED configuration

\* RecoveryEvaluationSnapshot::evaluate, against the intent as it is now.
PolicyDecision(e) ==
  Policy!EvaluateRecoveryPolicy(
    evaluated[e].definition, evaluated[e].identity, configuration.identity,
    evaluation[e],
    [desired_running |-> desired_running,
     current_intent_generation |-> intent_generation,
     evaluated_intent_generation |-> evaluation[e].intent_generation],
    SnapshotCause(evaluation[e]), evidence[e])

Decide(e) ==
  /\ evaluated[e] # None
  /\ decision' = [decision EXCEPT ![e] = PolicyDecision(e)]
  /\ UNCHANGED <<vars, configuration, evaluated, evidence>>

Permits(e) == decision[e] # None /\ decision[e].class = "PermitReplacement"

\* authorize, then commit_recovery_attempt.
Recover(e) ==
  /\ Permits(e)
  /\ CommitRecoveryAttempt(e)
  /\ UNCHANGED <<configuration, held>>

\* The remaining methods of the retry state, unchanged.
RetryNext ==
  /\ \/ AttemptNext
     \/ \E generation \in Generations :
          \/ ExplicitStop(generation)
          \/ CommitInitialAttempt(generation)
          \/ \E marker \in Markers : SatisfyCooldown(generation, marker)
          \/ \E reset \in ResetEvidence : AdvanceRecoveryEpisode(generation, reset)
     \/ \E e \in Evaluators :
          \/ \E marker \in Markers : RequireCooldown(e, marker)
          \/ \E reason \in ExhaustionReasons : MarkExhausted(e, reason)
  /\ UNCHANGED <<configuration, held>>

EvaluationNext ==
  \/ \E d \in Definitions : StartIntent(d)
  \/ RetryNext
  \/ \E e \in Evaluators :
       \/ \E optional \in OptionalEvidence : Observe(e, optional)
       \/ Decide(e)
       \/ Recover(e)

EvaluationSpec == EvaluationInit /\ [][EvaluationNext]_evaluationVars

-----------------------------------------------------------------------------
(* Properties.                                                             *)

\* Whatever was decided when, an automatic attempt starts only on a cooldown
\* that was required of the failed attempt and satisfied since: a valid
\* configuration admits no undelayed retry (ADR 0010, ADR 0011).
RecoveryWaitsForCooldown ==
  [][current_attempt # None /\ attempts_started' = attempts_started + 1
       /\ intent_generation' = intent_generation
       => /\ cooldown.state = "Satisfied"
          /\ cooldown.attempt_id = current_attempt.id]_evaluationVars

\* The automatic attempts of one episode never exceed the budget of the
\* configuration the intent runs under, although the budget is read from a
\* snapshot and spent later.
BudgetIsRespected ==
  recovery_episode # None =>
    recovery_episode.automatic_recovery_attempts_started
      <= configuration.definition.attempt_budget.maximum

\* What the decision table of ADR 0008 asks for before a replacement after a
\* failure of one cause: no veto, no pinned source followed elsewhere, a source,
\* a supported format or cleared pressure for the causes that need one; the
\* remaining causes stay stopped.
Supports(cause, ev) ==
  /\ ev.retry_hint \notin {None, "DoNotRetry"}
  /\ cause \in Policy!DeviceUnavailableCauses =>
       ev.source_available = "Yes" /\ ev.retry_hint = "WaitForSource"
  /\ cause = "DefaultEndpointChanged" =>
       ev.source_policy = "FollowDefault" /\ ev.replacement_source_resolved = "Yes"
  /\ cause = "FormatChanged" => ev.supported_format_available = "Yes"
  /\ cause = "ResourceExhausted" => ev.pressure_cleared = "Yes"
  /\ cause \notin {"NormalShutdown", "ExplicitStop", "UnsupportedFormat",
                   "InternalFailure", "StartupFailure", "WorkerPanic"}

\* Whatever the configuration allows, a replacement is permitted only on the
\* evidence that the decision table requires for the cause it was decided for.
PermitHasItsEvidence ==
  \A e \in Evaluators :
    Permits(e) => Supports(SnapshotCause(evaluation[e]), evidence[e])

\* The policy and the retry state agree: a permit decided on facts that are
\* still current is refused only by a counter at its limit, so no evaluator is
\* permitted what the retry state cannot do.
PermittedRecoveryIsAccepted ==
  \A e \in Evaluators :
    Permits(e) /\ HoldsCurrentSnapshot(e) =>
      /\ desired_running /\ phase = "Waiting"
      /\ ReadyForEvaluation(current_attempt)
      /\ cooldown.state \in {"NotRequired", "Satisfied"}
      /\ recovery_episode # None /\ recovery_episode.exhaustion = None

\* An evaluator that holds the identity of the present intent's configuration
\* holds its definition: two definitions of one version that differ anywhere
\* the policy looks are told apart, so no stale evaluation passes as one of the
\* present configuration.
IdentityDistinguishes ==
  \A e \in Evaluators :
    evaluated[e] # None /\ evaluated[e].identity = configuration_id
      => evaluated[e].definition = configuration.definition
=============================================================================
