----------------------- MODULE RecoveryConfiguration -----------------------
(***************************************************************************)
(* Recovery configuration (crates/resonance-agent/src/recovery_config.rs): *)
(* which definitions `RecoveryConfigurationInput::validate` accepts, and   *)
(* the identity an accepted definition has.  Everything here is a pure     *)
(* operator.  Durations are numbers of an arbitrary unit; the two          *)
(* FNV-style lanes that compress the encoding are taken to be free of      *)
(* collisions, so that the fingerprint is the encoding itself.             *)
(***************************************************************************)
EXTENDS Integers, Sequences, FiniteSets

CONSTANT None  (* Option::None                                             *)

-----------------------------------------------------------------------------
(* FAILURE_CLASSES, in the order of the discriminants.                     *)
FailureClassOrder ==
  <<"OwnerConstructionFailure", "DeviceUnavailable", "SourceReconfigured",
    "Interrupted", "ResourceExhausted", "UnsupportedFormat",
    "InternalFailure", "StartupFailure", "WorkerPanic">>

RecoveryFailureClasses ==
  {FailureClassOrder[i] : i \in 1 .. Len(FailureClassOrder)}

Requirements == {"SourceAvailable", "SupportedFormatAvailable",
                 "ResourcePressureCleared", "ChangedPrecondition"}
Dispositions == {"Retryable", "NonRetryable"} \cup Requirements

\* CooldownConfiguration, BackoffDelayStrategy, BackoffConfiguration and
\* StableRunResetPolicy; a fixed delay is an initial one that stays.
Disabled == [kind |-> "Disabled"]
CooldownOf(minimum_delay, reset) ==
  [kind |-> "Required", minimum_delay |-> minimum_delay, reset |-> reset]
Fixed(delay) == [kind |-> "Fixed", initial |-> delay]
Exponential(delay, multiplier) ==
  [kind |-> "Exponential", initial |-> delay, multiplier |-> multiplier]
BackoffOf(strategy, maximum_delay, jitter, reset) ==
  [kind |-> "Required", strategy |-> strategy, maximum_delay |-> maximum_delay,
   jitter |-> jitter, reset |-> reset]
NewIntentOnly == [kind |-> "NewIntentOnly"]
StableRunOf(evidence, minimum_duration) ==
  [kind |-> "StableRunRequired", evidence |-> evidence,
   minimum_duration |-> minimum_duration]

\* What an input may be; any of its fields may be missing.
Versions == Nat \ {0}
Budgets ==
  [maximum : Nat, exhaustion : {"UntilNewIntent", "UntilConfigurationChange"}]
DelayResets == {"NewIntent", "NewRecoveryEpisodeAfterStableRun"}
Cooldowns ==
  {Disabled} \cup [kind : {"Required"}, minimum_delay : Nat, reset : DelayResets]
Strategies ==
  [kind : {"Fixed"}, initial : Nat]
    \cup [kind : {"Linear"}, initial : Nat, increment : Nat]
    \cup [kind : {"Exponential"}, initial : Nat, multiplier : Nat]
Jitters == [kind : {"Forbidden"}] \cup [kind : {"Required"}, maximum : Nat]
Backoffs ==
  {Disabled} \cup [kind : {"Required"}, strategy : Strategies,
                   maximum_delay : Nat, jitter : Jitters, reset : DelayResets]
Classifications == [RecoveryFailureClasses -> Dispositions]
StableRuns ==
  {NewIntentOnly} \cup
    [kind : {"StableRunRequired"}, minimum_duration : Nat,
     evidence : {"SupervisorRunningState", "ContinuousFrameDelivery"}]

Optional(values) == values \cup {None}

ConfigurationInputs ==
  [version : Optional(Versions), attempt_budget : Optional(Budgets),
   cooldown : Optional(Cooldowns), backoff : Optional(Backoffs),
   failure_classification : Optional(Classifications),
   stable_run_reset : Optional(StableRuns)]

\* FailureClassificationPolicy::uniform and ::with_classification.
Uniform(disposition) == [class \in RecoveryFailureClasses |-> disposition]
Classified(classes, disposition) ==
  [class \in RecoveryFailureClasses |->
     IF class \in classes THEN disposition ELSE "NonRetryable"]

\* recovery_disabled: the one definition production uses.
RecoveryDisabled(version) ==
  [version |-> version,
   attempt_budget |-> [maximum |-> 0, exhaustion |-> "UntilNewIntent"],
   cooldown |-> Disabled,
   backoff |-> Disabled,
   failure_classification |-> Uniform("NonRetryable"),
   stable_run_reset |-> NewIntentOnly]

-----------------------------------------------------------------------------
(* Validation.  Each predicate is one refusal of the code.                 *)

HasEveryField(c) ==
  /\ c.version # None /\ c.attempt_budget # None /\ c.cooldown # None
  /\ c.backoff # None /\ c.failure_classification # None
  /\ c.stable_run_reset # None

Enabled(c) == c.attempt_budget.maximum > 0

PermitsAny(classification) ==
  \E class \in RecoveryFailureClasses :
    classification[class] # "NonRetryable"

\* BudgetClassificationConflict.
BudgetMatchesClassification(c) ==
  Enabled(c) <=> PermitsAny(c.failure_classification)

GuardedClasses == {"DeviceUnavailable", "SourceReconfigured",
                   "ResourceExhausted", "UnsupportedFormat"}

GuardingEvidence(class) ==
  {"ChangedPrecondition"} \cup
    CASE class = "DeviceUnavailable"  -> {"SourceAvailable"}
      [] class = "SourceReconfigured" -> {"SupportedFormatAvailable"}
      [] class = "ResourceExhausted"  -> {"ResourcePressureCleared"}
      [] class = "UnsupportedFormat"  -> {"SupportedFormatAvailable"}

\* validate_failure_classification.
GuardedClassesNeedEvidence(c) ==
  \A class \in GuardedClasses :
    c.failure_classification[class]
      \in {"NonRetryable"} \cup GuardingEvidence(class)

\* DisabledRecoveryHasActivePolicy.
InactiveWhenDisabled(c) ==
  c.cooldown = Disabled /\ c.backoff = Disabled
    /\ c.stable_run_reset.kind = "NewIntentOnly"

\* validate_backoff: every delay is positive and within the maximum.
ValidStrategy(strategy, maximum) ==
  /\ strategy.initial > 0 /\ strategy.initial <= maximum
  /\ strategy.kind = "Linear" =>
       strategy.increment > 0 /\ strategy.increment <= maximum
  /\ strategy.kind = "Exponential" => strategy.multiplier >= 2

ValidJitter(jitter, maximum) ==
  jitter.kind = "Required" => jitter.maximum > 0 /\ jitter.maximum <= maximum

ValidBackoff(b) ==
  /\ b.maximum_delay > 0
  /\ ValidStrategy(b.strategy, b.maximum_delay)
  /\ ValidJitter(b.jitter, b.maximum_delay)

\* RecoveryRequiresCooldown, RecoveryRequiresBackoff, ZeroDuration,
\* CooldownExceedsMaximumDelay and DelayResetConflict.
DelaysAreBounded(c) ==
  /\ c.cooldown.kind = "Required" /\ c.cooldown.minimum_delay > 0
  /\ c.backoff.kind = "Required" /\ ValidBackoff(c.backoff)
  /\ c.cooldown.minimum_delay <= c.backoff.maximum_delay
  /\ c.cooldown.reset = c.backoff.reset

\* StableRunResetConflict.
ResetMatchesDelays(c) ==
  \/ /\ c.stable_run_reset.kind = "NewIntentOnly"
     /\ c.cooldown.reset = "NewIntent"
  \/ /\ c.stable_run_reset.kind = "StableRunRequired"
     /\ c.stable_run_reset.minimum_duration > 0
     /\ c.cooldown.reset = "NewRecoveryEpisodeAfterStableRun"

\* Defect: an absent cooldown passes as no cooldown.
IsValid_DelayOptional(c) ==
  /\ HasEveryField(c)
  /\ BudgetMatchesClassification(c)
  /\ GuardedClassesNeedEvidence(c)
  /\ IF Enabled(c) /\ c.cooldown # Disabled
       THEN DelaysAreBounded(c) /\ ResetMatchesDelays(c)
       ELSE InactiveWhenDisabled(c)

\* RecoveryConfigurationInput::validate returns Ok.
IsValid(c) ==
  /\ HasEveryField(c)
  /\ BudgetMatchesClassification(c)
  /\ GuardedClassesNeedEvidence(c)
  /\ IF Enabled(c) THEN DelaysAreBounded(c) /\ ResetMatchesDelays(c)
                   ELSE InactiveWhenDisabled(c)

-----------------------------------------------------------------------------
(* Identity: the fields in their fixed order, each with its width.         *)

SchemaVersion == 1
Byte(n) == <<<<1, n>>>>   (* write_u8                                      *)
Word(n) == <<<<4, n>>>>   (* write_u32                                     *)
Delay(n) == <<<<12, n>>>> (* write_duration                                *)

EncodeReset(reset) == Byte(IF reset = "NewIntent" THEN 0 ELSE 1)

EncodeBudget(b) ==
  Word(b.maximum) \o Byte(IF b.exhaustion = "UntilNewIntent" THEN 0 ELSE 1)

EncodeCooldown(c) ==
  IF c = Disabled THEN Byte(0)
  ELSE Byte(1) \o Delay(c.minimum_delay) \o EncodeReset(c.reset)

EncodeStrategy(s) ==
  CASE s.kind = "Fixed"       -> Byte(0) \o Delay(s.initial)
    [] s.kind = "Linear"      -> Byte(1) \o Delay(s.initial) \o Delay(s.increment)
    [] s.kind = "Exponential" -> Byte(2) \o Delay(s.initial) \o Word(s.multiplier)

EncodeJitter(j) ==
  IF j.kind = "Forbidden" THEN Byte(0) ELSE Byte(1) \o Delay(j.maximum)

EncodeBackoff(b) ==
  IF b = Disabled THEN Byte(0)
  ELSE Byte(1) \o EncodeStrategy(b.strategy) \o Delay(b.maximum_delay)
         \o EncodeJitter(b.jitter) \o EncodeReset(b.reset)

\* Defect: the requirement is not written, only that there is one.
EncodeDisposition_RequirementLost(d) ==
  Byte(CASE d = "Retryable" -> 0 [] d = "NonRetryable" -> 1 [] OTHER -> 2)

EncodeDisposition(d) ==
  CASE d = "Retryable"    -> Byte(0)
    [] d = "NonRetryable" -> Byte(1)
    [] d \in Requirements -> Byte(2) \o
         Byte(CASE d = "SourceAvailable"          -> 0
                [] d = "SupportedFormatAvailable" -> 1
                [] d = "ResourcePressureCleared"  -> 2
                [] d = "ChangedPrecondition"      -> 3)

\* The classes up to the n-th, each preceded by its discriminant.
EncodeClassification(classification) ==
  LET encoded[n \in 0 .. Len(FailureClassOrder)] ==
        IF n = 0 THEN <<>>
        ELSE encoded[n - 1] \o Byte(n - 1)
               \o EncodeDisposition(classification[FailureClassOrder[n]])
  IN  encoded[Len(FailureClassOrder)]

EncodeStableRun(r) ==
  IF r.kind = "NewIntentOnly" THEN Byte(0)
  ELSE Byte(1)
         \o Byte(IF r.evidence = "SupervisorRunningState" THEN 0 ELSE 1)
         \o Delay(r.minimum_duration)

Fingerprint(c) ==
  <<<<2, SchemaVersion>>>> \o EncodeBudget(c.attempt_budget)
    \o EncodeCooldown(c.cooldown) \o EncodeBackoff(c.backoff)
    \o EncodeClassification(c.failure_classification)
    \o EncodeStableRun(c.stable_run_reset)

\* RecoveryConfiguration::identity.
Identity(c) ==
  [schema_version |-> SchemaVersion, version |-> c.version,
   fingerprint |-> Fingerprint(c)]
=============================================================================
