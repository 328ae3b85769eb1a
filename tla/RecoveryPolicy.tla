--------------------------- MODULE RecoveryPolicy ---------------------------
(***************************************************************************)
(* The recovery policy (crates/resonance-agent/src/recovery.rs): a pure    *)
(* function from a validated configuration, a snapshot of the retry state, *)
(* the current intent and the lifecycle evidence to one decision.  An      *)
(* operator is a function of the code of the same name; its early returns  *)
(* keep their order, because the first that applies names the reason.      *)
(*                                                                         *)
(* Option<bool> is "Yes", "No" or None.  The causes nested in              *)
(* DeviceUnavailable and SourceReconfigured are causes of their own.       *)
(***************************************************************************)
EXTENDS RecoveryConfiguration

DeviceUnavailableCauses == {"DeviceRemoved", "DeviceInvalidated"}
SourceReconfigurationCauses == {"DefaultEndpointChanged", "FormatChanged"}

RetryFailureCauses ==
  DeviceUnavailableCauses \cup SourceReconfigurationCauses \cup
    {"OwnerConstructionFailure", "Interrupted", "ResourceExhausted",
     "UnsupportedFormat", "InternalFailure", "StartupFailure", "WorkerPanic"}

RecoveryCauses ==
  (RetryFailureCauses \ {"OwnerConstructionFailure"})
    \cup {"ExplicitStop", "NormalShutdown"}

RetryHints == {"RetryNow", "RetryLater", "WaitForSource",
               "RequestPermission", "ChangeFormat", "DoNotRetry"}

RecoveryDecisionReasons ==
  {"ExplicitStop", "StaleIntent", "StaleConfiguration", "CleanupPending",
   "TerminalBoundaryPending", "MissingEvidence", "InconsistentEvidence",
   "RetryVetoed", "ConfiguredNonRetryable", "NormalShutdown", "SourceUnavailable",
   "SourceAvailable", "PinnedSource", "ReplacementSourcePending",
   "ReplacementSourceReady", "SupportedFormatUnavailable",
   "SupportedFormatAvailable", "RetryBudgetExhausted", "CooldownPending",
   "RetryEligible", "PressureClearancePending", "PressureCleared",
   "ChangedPreconditionPending", "UnsupportedFormat", "InternalFailure",
   "StartupFailure", "WorkerPanic"}

RecoveryDecisions ==
  [class: {"RemainStopped", "Wait", "PermitReplacement"},
   reason: RecoveryDecisionReasons]

Known(fact) == IF fact THEN "Yes" ELSE "No"

RemainStopped(reason) == [class |-> "RemainStopped", reason |-> reason]
Wait(reason)   == [class |-> "Wait", reason |-> reason]
Permit(reason) == [class |-> "PermitReplacement", reason |-> reason]
MissingEvidence == RemainStopped("MissingEvidence")

\* The fields of RecoveryEvidence.
Fact == {"Yes", "No", None}
RecoveryEvidence ==
  [stream_started: Fact, terminal_event_delivered: Fact, owner_completed: Fact,
   resources_released: Fact, retry_hint: RetryHints \cup {None},
   attempts_remaining: Fact, cooldown_complete: Fact, source_available: Fact,
   source_policy: {"FollowDefault", "Pinned", None},
   replacement_source_resolved: Fact, supported_format_available: Fact,
   pressure_cleared: Fact, changed_precondition: Fact]

\* RecoveryEvidence::default.
NoEvidence ==
  [stream_started |-> None, terminal_event_delivered |-> None,
   owner_completed |-> None, resources_released |-> None,
   retry_hint |-> None, attempts_remaining |-> None,
   cooldown_complete |-> None, source_available |-> None,
   source_policy |-> None, replacement_source_resolved |-> None,
   supported_format_available |-> None, pressure_cleared |-> None,
   changed_precondition |-> None]

-----------------------------------------------------------------------------
(* evaluate_recovery and the rows of its table.                            *)

EvaluateDeviceUnavailable(ev) ==
  IF ev.retry_hint = "DoNotRetry" THEN RemainStopped("RetryVetoed")
  ELSE IF ev.retry_hint = None THEN MissingEvidence
  ELSE IF ev.retry_hint # "WaitForSource" THEN RemainStopped("InconsistentEvidence")
  ELSE IF None \in {ev.source_policy, ev.source_available, ev.attempts_remaining}
    THEN MissingEvidence
  ELSE IF ev.attempts_remaining = "No" THEN RemainStopped("RetryBudgetExhausted")
  ELSE IF ev.source_available = "Yes" THEN Permit("SourceAvailable")
  ELSE Wait("SourceUnavailable")

\* Defect: a pinned source follows the new default like any other.
EvaluateDefaultEndpointChange_IgnoresPinning(ev) ==
  IF ev.retry_hint = "DoNotRetry" THEN RemainStopped("RetryVetoed")
  ELSE IF None \in {ev.retry_hint, ev.source_policy,
                    ev.replacement_source_resolved, ev.attempts_remaining}
    THEN MissingEvidence
  ELSE IF ev.attempts_remaining = "No" THEN RemainStopped("RetryBudgetExhausted")
  ELSE IF ev.replacement_source_resolved = "Yes" THEN Permit("ReplacementSourceReady")
  ELSE Wait("ReplacementSourcePending")

EvaluateDefaultEndpointChange(ev) ==
  IF ev.retry_hint = "DoNotRetry" THEN RemainStopped("RetryVetoed")
  ELSE IF None \in {ev.retry_hint, ev.source_policy,
                    ev.replacement_source_resolved, ev.attempts_remaining}
    THEN MissingEvidence
  ELSE IF ev.source_policy = "Pinned" THEN RemainStopped("PinnedSource")
  ELSE IF ev.attempts_remaining = "No" THEN RemainStopped("RetryBudgetExhausted")
  ELSE IF ev.replacement_source_resolved = "Yes" THEN Permit("ReplacementSourceReady")
  ELSE Wait("ReplacementSourcePending")

EvaluateFormatChange(ev) ==
  IF ev.retry_hint = "DoNotRetry" THEN RemainStopped("RetryVetoed")
  ELSE IF None \in {ev.retry_hint, ev.supported_format_available,
                    ev.attempts_remaining}
    THEN MissingEvidence
  ELSE IF ev.attempts_remaining = "No" THEN RemainStopped("RetryBudgetExhausted")
  ELSE IF ev.supported_format_available = "Yes" THEN Permit("SupportedFormatAvailable")
  ELSE Wait("SupportedFormatUnavailable")

EvaluateInterruption(ev) ==
  IF ev.retry_hint = "DoNotRetry" THEN RemainStopped("RetryVetoed")
  ELSE IF ev.attempts_remaining = None THEN MissingEvidence
  ELSE IF ev.attempts_remaining = "No" THEN RemainStopped("RetryBudgetExhausted")
  ELSE IF ev.retry_hint = "RetryNow" THEN Permit("RetryEligible")
  ELSE IF ev.retry_hint = None THEN MissingEvidence
  ELSE IF ev.retry_hint # "RetryLater" THEN RemainStopped("InconsistentEvidence")
  ELSE IF ev.cooldown_complete = None THEN MissingEvidence
  ELSE IF ev.cooldown_complete = "Yes" THEN Permit("RetryEligible")
  ELSE Wait("CooldownPending")

EvaluateResourceExhaustion(ev) ==
  IF ev.retry_hint = "DoNotRetry" THEN RemainStopped("RetryVetoed")
  ELSE IF None \in {ev.retry_hint, ev.attempts_remaining, ev.cooldown_complete,
                    ev.pressure_cleared}
    THEN MissingEvidence
  ELSE IF ev.retry_hint # "RetryLater" THEN RemainStopped("InconsistentEvidence")
  ELSE IF ev.attempts_remaining = "No" THEN RemainStopped("RetryBudgetExhausted")
  ELSE IF "No" \in {ev.cooldown_complete, ev.pressure_cleared}
    THEN Wait("PressureClearancePending")
  ELSE Permit("PressureCleared")

EvaluateStoppedCause(hint, reason) ==
  IF hint = None THEN MissingEvidence
  ELSE IF hint = "DoNotRetry" THEN RemainStopped("RetryVetoed")
  ELSE RemainStopped(reason)

\* evaluate_common_preconditions: None where the code returns None.
CommonPreconditions(context, cause, ev) ==
  IF ~context.desired_running \/ cause = "ExplicitStop"
    THEN RemainStopped("ExplicitStop")
  ELSE IF context.evaluated_intent_generation # context.current_intent_generation
    THEN RemainStopped("StaleIntent")
  ELSE IF None \in {ev.stream_started, ev.owner_completed, ev.resources_released}
    THEN MissingEvidence
  ELSE IF "No" \in {ev.owner_completed, ev.resources_released}
    THEN Wait("CleanupPending")
  ELSE IF ev.stream_started = "Yes" /\ ev.terminal_event_delivered = None
    THEN MissingEvidence
  ELSE IF ev.stream_started = "Yes" /\ ev.terminal_event_delivered = "No"
    THEN Wait("TerminalBoundaryPending")
  ELSE IF ev.stream_started = "No" /\ ev.terminal_event_delivered = "Yes"
    THEN RemainStopped("InconsistentEvidence")
  ELSE None

\* The outcome-specific row.
EvaluateCause(cause, ev) ==
  CASE cause \in DeviceUnavailableCauses  -> EvaluateDeviceUnavailable(ev)
    [] cause = "DefaultEndpointChanged"   -> EvaluateDefaultEndpointChange(ev)
    [] cause = "FormatChanged"            -> EvaluateFormatChange(ev)
    [] cause = "Interrupted"              -> EvaluateInterruption(ev)
    [] cause = "ResourceExhausted"        -> EvaluateResourceExhaustion(ev)
    [] cause \in {"UnsupportedFormat", "InternalFailure"} ->
         EvaluateStoppedCause(ev.retry_hint, cause)
    [] cause \in {"ExplicitStop", "NormalShutdown", "StartupFailure",
                  "WorkerPanic"} -> RemainStopped(cause)

EvaluateRecovery(context, cause, ev) ==
  LET early == CommonPreconditions(context, cause, ev)
  IN  IF early # None THEN early ELSE EvaluateCause(cause, ev)

-----------------------------------------------------------------------------
(* evaluate_recovery_policy.                                               *)

\* RetryFailureCause into RecoveryCause.
CauseOfFailure(failure) ==
  IF failure = "OwnerConstructionFailure" THEN "StartupFailure" ELSE failure

CauseMatchesFailure(cause, failure) == cause = CauseOfFailure(failure)

FailureClass(failure) ==
  IF failure \in DeviceUnavailableCauses THEN "DeviceUnavailable"
  ELSE IF failure \in SourceReconfigurationCauses THEN "SourceReconfigured"
  ELSE failure

\* evaluate_additional_evidence: None where the requirement is met or absent.
AdditionalEvidence(disposition, ev) ==
  LET Demand(value, pending) ==
        IF value = "Yes" THEN None
        ELSE IF value = "No" THEN Wait(pending) ELSE MissingEvidence
  IN CASE disposition = "SourceAvailable" ->
            Demand(ev.source_available, "SourceUnavailable")
       [] disposition = "SupportedFormatAvailable" ->
            Demand(ev.supported_format_available, "SupportedFormatUnavailable")
       [] disposition = "ResourcePressureCleared" ->
            Demand(ev.pressure_cleared, "PressureClearancePending")
       [] disposition = "ChangedPrecondition" ->
            Demand(ev.changed_precondition, "ChangedPreconditionPending")
       [] OTHER -> None

\* Defect: the budget admits one attempt more than configured.
AttemptsRemain_OneMore(configuration, episode) ==
  \/ episode = None
  \/ /\ episode.exhaustion = None
     /\ episode.automatic_recovery_attempts_started
          <= configuration.attempt_budget.maximum

AttemptsRemain(configuration, episode) ==
  IF episode = None THEN 0 < configuration.attempt_budget.maximum
  ELSE /\ episode.exhaustion = None
       /\ episode.automatic_recovery_attempts_started
            < configuration.attempt_budget.maximum

DelayRequired(configuration) ==
  configuration.cooldown # Disabled \/ configuration.backoff # Disabled

\* Defect: a cooldown counts as complete while it is pending.
CooldownComplete_UnlessInvalidated(configuration, cooldown) ==
  ~DelayRequired(configuration) \/ cooldown.state # "Invalidated"

CooldownComplete(configuration, cooldown) ==
  ~DelayRequired(configuration) \/ cooldown.state = "Satisfied"

\* The rows that follow the configured limits.
EvaluateLimits(configuration, retry_state, context, cause, ev, disposition) ==
  LET remain   == AttemptsRemain(configuration, retry_state.recovery_episode)
      complete == CooldownComplete(configuration, retry_state.cooldown)
      limited  == [ev EXCEPT !.attempts_remaining = Known(remain),
                             !.cooldown_complete = Known(complete)]
      demanded == AdditionalEvidence(disposition, limited)
  IN IF disposition = "NonRetryable" THEN RemainStopped("ConfiguredNonRetryable")
     ELSE IF ev.retry_hint = "DoNotRetry" THEN RemainStopped("RetryVetoed")
     ELSE IF ~remain THEN RemainStopped("RetryBudgetExhausted")
     ELSE IF ~complete THEN Wait("CooldownPending")
     ELSE IF demanded # None THEN demanded
     ELSE EvaluateRecovery(context, cause, limited)

EvaluateRecoveryPolicy(configuration, identity, current_id, retry, context, cause, ev) ==
  IF ~context.desired_running \/ cause = "ExplicitStop"
    THEN RemainStopped("ExplicitStop")
  ELSE IF context.evaluated_intent_generation # context.current_intent_generation
    THEN RemainStopped("StaleIntent")
  ELSE IF \/ identity # current_id
          \/ retry.configuration_id # identity
    THEN RemainStopped("StaleConfiguration")
  ELSE IF \/ retry.desired_running # context.desired_running
          \/ retry.intent_generation # context.evaluated_intent_generation
    THEN RemainStopped("InconsistentEvidence")
  ELSE IF CommonPreconditions(context, cause, ev) # None
    THEN CommonPreconditions(context, cause, ev)
  ELSE IF retry.last_failure = None
    THEN EvaluateRecovery(context, cause, ev)
  ELSE IF ~CauseMatchesFailure(cause, retry.last_failure.cause)
    THEN RemainStopped("InconsistentEvidence")
  ELSE EvaluateLimits(configuration, retry, context, cause, ev,
         configuration.failure_classification[
           FailureClass(retry.last_failure.cause)])
=============================================================================
