------------------------ MODULE MCRecoveryEvaluation ------------------------
(***************************************************************************)
(* RecoveryEvaluation for TLC: one evaluator, definitions that differ in   *)
(* one field each, among them ones validation must refuse, and evidence    *)
(* that meets or misses the rows of the causes that are tried.             *)
(***************************************************************************)
EXTENDS RecoveryEvaluation, TLC

CONSTANTS e1, m1

P == INSTANCE RecoveryPolicy

Base ==
  [version |-> 1,
   attempt_budget |-> [maximum |-> 1, exhaustion |-> "UntilNewIntent"],
   cooldown |-> P!CooldownOf(1, "NewIntent"),
   backoff |-> P!BackoffOf(P!Fixed(1), 2, [kind |-> "Forbidden"], "NewIntent"),
   failure_classification |->
     [P!Classified({"Interrupted"}, "Retryable")
        EXCEPT !["SourceReconfigured"] = "SupportedFormatAvailable",
               !["DeviceUnavailable"] = "SourceAvailable",
               !["InternalFailure"] = "Retryable"],
   stable_run_reset |-> P!NewIntentOnly]

OtherRequirement ==
  [Base EXCEPT !.failure_classification["SourceReconfigured"] = "ChangedPrecondition"]

MCDefinitions ==
  {Base, OtherRequirement, P!RecoveryDisabled(1),
   [Base EXCEPT !.cooldown = P!Disabled, !.backoff = P!Disabled],
   [Base EXCEPT !.backoff.strategy = P!Exponential(1, 1)],
   [Base EXCEPT !.stable_run_reset = P!StableRunOf("SupervisorRunningState", 1)],
   [Base EXCEPT !.cooldown = None],
   [Base EXCEPT !.failure_classification["SourceReconfigured"] = "Retryable"]}

MCConfigurations ==
  {P!Identity(d) : d \in {c \in MCDefinitions : P!HasEveryField(c)}}

MCFailures == {"DefaultEndpointChanged", "Interrupted", "DeviceInvalidated",
               "InternalFailure"}

Favourable ==
  [P!NoEvidence EXCEPT !.source_policy = "FollowDefault",
     !.source_available = "Yes", !.replacement_source_resolved = "Yes",
     !.supported_format_available = "Yes", !.changed_precondition = "Yes"]

MCOptionalEvidence ==
  {[Favourable EXCEPT !.retry_hint = "RetryNow"],
   [Favourable EXCEPT !.retry_hint = "WaitForSource", !.source_policy = "Pinned"],
   [Favourable EXCEPT !.retry_hint = "WaitForSource", !.source_available = "No"],
   [Favourable EXCEPT !.retry_hint = "DoNotRetry"]}

\* Revisions spent before the first automatic attempt leave too few for the
\* second; a second intent matters for what is held from the first.
CONSTANTS FirstAttemptRevisions, SecondIntentRevisions
RevisionBound ==
  /\ intent_generation = 2 => state_revision <= SecondIntentRevisions
  /\ recovery_episode = None \/ recovery_episode.automatic_recovery_attempts_started = 0
       => state_revision <= FirstAttemptRevisions
=============================================================================
