---------------------- MODULE RecoveryEvaluationProofs ----------------------
(***************************************************************************)
(* Proofs about recovery: that the composition of retry state and policy   *)
(* only takes steps of the retry state, and what a permit is worth when it *)
(* is used, for every set of definitions, evidence and evaluators.         *)
(***************************************************************************)
EXTENDS RecoveryEvaluation, RetryStateProofs, EventSequenceProofs

-----------------------------------------------------------------------------
(* The composition implements the retry state.                             *)

\* A step of the composition is a step of the retry state, or writes none of its
\* variables.
LEMMA StepsAreRetrySteps ==
  ASSUME [EvaluationNext]_evaluationVars
  PROVE  [Next]_vars
<1>1. ASSUME NEW d \in Definitions, StartIntent(d)
      PROVE  Next
  BY <1>1, DefinitionsAssumption DEF StartIntent, Next, IntentNext
<1>2. CASE RetryNext
  BY <1>2 DEF RetryNext, Next, IntentNext, EvaluatorNext
<1>3. ASSUME NEW e \in Evaluators, NEW optional \in OptionalEvidence,
             Observe(e, optional)
      PROVE  Next
  BY <1>3 DEF Observe, Next, EvaluatorNext
<1>4. ASSUME NEW e \in Evaluators, Decide(e)
      PROVE  UNCHANGED vars
  BY <1>4 DEF Decide
<1>5. ASSUME NEW e \in Evaluators, Recover(e)
      PROVE  Next
  BY <1>5 DEF Recover, Next, EvaluatorNext
<1>6. CASE UNCHANGED evaluationVars
  BY <1>6 DEF evaluationVars
<1> QED BY <1>1, <1>2, <1>3, <1>4, <1>5, <1>6 DEF EvaluationNext

\* Whatever evaluators decide and commit, the retry state behaves as specified,
\* so that all that is proved of RetryState holds under the policy.
THEOREM EvaluationImplementsRetryState == EvaluationSpec => Spec
<1>1. EvaluationInit => Init
  BY DEF EvaluationInit
<1>2. [EvaluationNext]_evaluationVars => [Next]_vars
  BY StepsAreRetrySteps
<1> QED BY <1>1, <1>2, PTL DEF EvaluationSpec, Spec

-----------------------------------------------------------------------------
(* What the policy requires of a permit.                                   *)

\* No early return permits anything.
LEMMA PreconditionsNeverPermit ==
  ASSUME NEW context, NEW cause, NEW ev,
         Policy!CommonPreconditions(context, cause, ev) # None
  PROVE  Policy!CommonPreconditions(context, cause, ev).class # "PermitReplacement"
BY DEF Policy!CommonPreconditions, Policy!RemainStopped, Policy!Wait,
       Policy!MissingEvidence

\* A row of the table permits only on the evidence of its cause.
LEMMA RowsNeedEvidence ==
  ASSUME NEW ev \in Policy!RecoveryEvidence, NEW cause \in Policy!RecoveryCauses,
         Policy!EvaluateCause(cause, ev).class = "PermitReplacement"
  PROVE  Supports(cause, ev)
<1> USE DEF Policy!RemainStopped, Policy!Wait, Policy!Permit,
            Policy!MissingEvidence
<1>0. /\ ev.source_policy \in {"FollowDefault", "Pinned", None}
      /\ ev.cooldown_complete \in {"Yes", "No", None}
      /\ ev.pressure_cleared \in {"Yes", "No", None}
  BY DEF Policy!RecoveryEvidence, Policy!Fact
<1>1. CASE cause \in Policy!DeviceUnavailableCauses
  <2>1. Policy!EvaluateDeviceUnavailable(ev).class = "PermitReplacement"
    BY <1>1 DEF Policy!EvaluateCause, Policy!DeviceUnavailableCauses
  <2>2. /\ ev.retry_hint \notin {None, "DoNotRetry"}
        /\ ev.retry_hint = "WaitForSource"
    BY <2>1 DEF Policy!EvaluateDeviceUnavailable
  <2>3. ev.source_available = "Yes"
    BY <2>1 DEF Policy!EvaluateDeviceUnavailable
  <2>4. cause \in {"DeviceRemoved", "DeviceInvalidated"}
    BY <1>1 DEF Policy!DeviceUnavailableCauses
  <2> QED
    BY <2>2, <2>3, <2>4 DEF Supports, Policy!DeviceUnavailableCauses
<1>2. CASE cause = "DefaultEndpointChanged"
  <2>1. Policy!EvaluateDefaultEndpointChange(ev).class = "PermitReplacement"
    BY <1>2 DEF Policy!EvaluateCause, Policy!DeviceUnavailableCauses
  <2> QED
    BY <1>0, <1>2, <2>1 DEF Policy!EvaluateDefaultEndpointChange, Supports,
                      Policy!DeviceUnavailableCauses
<1>3. CASE cause = "FormatChanged"
  <2>1. Policy!EvaluateFormatChange(ev).class = "PermitReplacement"
    BY <1>3 DEF Policy!EvaluateCause, Policy!DeviceUnavailableCauses
  <2> QED
    BY <1>0, <1>3, <2>1 DEF Policy!EvaluateFormatChange, Supports,
                      Policy!DeviceUnavailableCauses
<1>4. CASE cause = "Interrupted"
  <2>1. Policy!EvaluateInterruption(ev).class = "PermitReplacement"
    BY <1>4 DEF Policy!EvaluateCause, Policy!DeviceUnavailableCauses
  <2>2. ev.retry_hint # "DoNotRetry"
    BY <2>1 DEF Policy!EvaluateInterruption
  <2>3. ev.retry_hint # "RetryNow" => ev.retry_hint # None
    BY <2>1 DEF Policy!EvaluateInterruption
  <2>4. "RetryNow" # None
    BY EvidenceAssumption DEF Policy!RetryHints
  <2> QED
    BY <1>4, <2>2, <2>3, <2>4 DEF Supports, Policy!DeviceUnavailableCauses
<1>5. CASE cause = "ResourceExhausted"
  <2>1. Policy!EvaluateResourceExhaustion(ev).class = "PermitReplacement"
    BY <1>5 DEF Policy!EvaluateCause, Policy!DeviceUnavailableCauses
  <2>2. ev.retry_hint \notin {None, "DoNotRetry"}
    BY <2>1 DEF Policy!EvaluateResourceExhaustion
  <2>3. None # ev.pressure_cleared /\ "No" # ev.pressure_cleared
    BY <2>1 DEF Policy!EvaluateResourceExhaustion
  <2>4. ev.pressure_cleared = "Yes"
    BY <1>0, <2>3
  <2> QED
    BY <1>5, <2>2, <2>4 DEF Supports, Policy!DeviceUnavailableCauses
<1>6. CASE cause \in {"UnsupportedFormat", "InternalFailure"}
  BY <1>6 DEF Policy!EvaluateCause, Policy!DeviceUnavailableCauses,
              Policy!EvaluateStoppedCause
<1>7. CASE cause \in {"ExplicitStop", "NormalShutdown", "StartupFailure", "WorkerPanic"}
  BY <1>7 DEF Policy!EvaluateCause, Policy!DeviceUnavailableCauses
<1> QED
  BY <1>1, <1>2, <1>3, <1>4, <1>5, <1>6, <1>7
  DEF Policy!RecoveryCauses, Policy!RetryFailureCauses,
      Policy!SourceReconfigurationCauses

\* The same of the function that checks the preconditions first.
LEMMA EvaluationNeedsEvidence ==
  ASSUME NEW ev \in Policy!RecoveryEvidence, NEW cause \in Policy!RecoveryCauses,
         NEW context,
         Policy!EvaluateRecovery(context, cause, ev).class = "PermitReplacement"
  PROVE  Supports(cause, ev)
BY PreconditionsNeverPermit, RowsNeedEvidence DEF Policy!EvaluateRecovery

\* The rows of the configured limits permit only within them.
LEMMA LimitsNeedEvidence ==
  ASSUME NEW ev \in Policy!RecoveryEvidence, NEW cause \in Policy!RecoveryCauses,
         NEW definition, NEW s, NEW context, NEW disposition,
         Policy!EvaluateLimits(definition, s, context, cause, ev, disposition).class
           = "PermitReplacement"
  PROVE  /\ Supports(cause, ev)
         /\ Policy!AttemptsRemain(definition, s.recovery_episode)
         /\ Policy!CooldownComplete(definition, s.cooldown)
<1> DEFINE remain == Policy!AttemptsRemain(definition, s.recovery_episode)
           complete == Policy!CooldownComplete(definition, s.cooldown)
           limited == [ev EXCEPT !.attempts_remaining = Policy!Known(remain),
                                 !.cooldown_complete = Policy!Known(complete)]
           demanded == Policy!AdditionalEvidence(disposition, limited)
<1>1. limited \in Policy!RecoveryEvidence
  BY DEF Policy!RecoveryEvidence, Policy!Fact, Policy!Known
<1>2. demanded # None => demanded.class # "PermitReplacement"
  BY DEF Policy!AdditionalEvidence, Policy!Wait, Policy!MissingEvidence,
         Policy!RemainStopped
<1>3. Supports(cause, limited) => Supports(cause, ev)
  BY DEF Supports, Policy!RecoveryEvidence
<1>4. /\ remain /\ complete
      /\ Policy!EvaluateRecovery(context, cause, limited).class = "PermitReplacement"
  <2> HIDE DEF remain, complete, demanded
  <2> QED
    BY <1>2 DEF Policy!EvaluateLimits, Policy!RemainStopped, Policy!Wait,
                remain, complete, demanded
<1>5. Supports(cause, limited)
  <2> HIDE DEF limited
  <2> QED BY <1>1, <1>4, EvaluationNeedsEvidence
<1> QED BY <1>3, <1>4, <1>5

-----------------------------------------------------------------------------
(* The identity of a configuration.                                        *)

Encodings == Seq(Nat \X Nat)

Associate(x, y, z) == (x \o y) \o z = x \o (y \o z)

\* Encodings may be concatenated in any order of the brackets.
LEMMA Associative ==
  ASSUME NEW x \in Encodings, NEW y \in Encodings, NEW z \in Encodings
  PROVE  Associate(x, y, z)
<1> DEFINE S == Nat \X Nat
<1>1. x \in Seq(S) /\ y \in Seq(S) /\ z \in Seq(S)
  BY DEF Encodings
<1> HIDE DEF S
<1> QED BY <1>1, ConcatAssociative DEF Associate

\* No continuation of one word is one of the other, unless they are the same.
Apart(x, y) ==
  \A s, t \in Encodings : x \o s = y \o t => x = y /\ s = t

\* Words begin apart, so they are apart.
LEMMA TokensAreApart ==
  ASSUME NEW a \in Nat \X Nat, NEW b \in Nat \X Nat
  PROVE  Apart(<<a>>, <<b>>)
<1> SUFFICES ASSUME NEW s \in Encodings, NEW t \in Encodings,
                    <<a>> \o s = <<b>> \o t
             PROVE  a = b /\ s = t
  BY DEF Apart
<1> DEFINE x == <<a>> \o s
           y == <<b>> \o t
<1>1. /\ Len(x) = 1 + Len(s) /\ x[1] = a
      /\ \A i \in 1 .. Len(s) : x[i + 1] = s[i]
  BY DEF Encodings
<1>2. /\ Len(y) = 1 + Len(t) /\ y[1] = b
      /\ \A i \in 1 .. Len(t) : y[i + 1] = t[i]
  BY DEF Encodings
<1>3. x = y
  OBVIOUS
<1> HIDE DEF x, y
<1>4. a = b /\ Len(s) = Len(t) /\ \A i \in 1 .. Len(s) : s[i] = t[i]
  BY <1>1, <1>2, <1>3 DEF Encodings
<1> QED BY <1>4, SeqEqual DEF Encodings

\* Encodings that are apart stay so with others that are apart appended.
LEMMA ConcatenationsAreApart ==
  ASSUME NEW x \in Encodings, NEW y \in Encodings, Apart(x, y),
         NEW u \in Encodings, NEW v \in Encodings, Apart(u, v)
  PROVE  x \o u \in Encodings /\ y \o v \in Encodings /\ Apart(x \o u, y \o v)
<1>1. ASSUME NEW s \in Encodings, NEW t \in Encodings,
             (x \o u) \o s = (y \o v) \o t
      PROVE  x \o u = y \o v /\ s = t
  <2>1. u \o s \in Encodings /\ v \o t \in Encodings
    BY DEF Encodings
  <2>2. x \o (u \o s) = y \o (v \o t)
    <3>1. Associate(x, u, s) /\ Associate(y, v, t)
      BY Associative
    <3> QED BY <1>1, <3>1 DEF Associate
  <2>3. x = y /\ u \o s = v \o t
    BY <2>1, <2>2 DEF Apart
  <2>4. u = v /\ s = t
    BY <2>3 DEF Apart
  <2> QED BY <2>3, <2>4
<1>2. x \o u \in Encodings /\ y \o v \in Encodings
  BY DEF Encodings
<1> QED BY <1>1, <1>2 DEF Apart

\* Unlike encodings that are apart make whatever follows them unlike.
LEMMA UnlikeBeginnings ==
  ASSUME NEW x \in Encodings, NEW y \in Encodings, Apart(x, y), x # y,
         NEW u \in Encodings, NEW v \in Encodings
  PROVE  Apart(x \o u, y \o v) /\ x \o u # y \o v
<1>1. ASSUME NEW s \in Encodings, NEW t \in Encodings
      PROVE  (x \o u) \o s # (y \o v) \o t
  <2>1. u \o s \in Encodings /\ v \o t \in Encodings
    BY DEF Encodings
  <2>2. Associate(x, u, s) /\ Associate(y, v, t)
    BY Associative
  <2>3. x \o (u \o s) # y \o (v \o t)
    BY <2>1 DEF Apart
  <2> QED BY <2>2, <2>3 DEF Associate
<1>2. x \o u # y \o v
  BY DEF Apart
<1> QED BY <1>1, <1>2 DEF Apart

\* What is written of m and n tells them apart.
Tells(encoded_m, encoded_n, m, n) ==
  /\ encoded_m \in Encodings /\ encoded_n \in Encodings
  /\ Apart(encoded_m, encoded_n)
  /\ encoded_m = encoded_n => m = n

\* The encoding of a number tells the number.
LEMMA NumbersAreTold ==
  ASSUME NEW m \in Nat, NEW n \in Nat
  PROVE  /\ Tells(Policy!Byte(m), Policy!Byte(n), m, n)
         /\ Tells(Policy!Word(m), Policy!Word(n), m, n)
         /\ Tells(Policy!Delay(m), Policy!Delay(n), m, n)
<1>1. ASSUME NEW width \in Nat
      PROVE  Tells(<<<<width, m>>>>, <<<<width, n>>>>, m, n)
  <2>1. <<width, m>> \in Nat \X Nat /\ <<width, n>> \in Nat \X Nat
    OBVIOUS
  <2>2. Apart(<<<<width, m>>>>, <<<<width, n>>>>)
    BY <2>1, TokensAreApart
  <2>3. <<<<width, m>>>> \in Encodings /\ <<<<width, n>>>> \in Encodings
    BY <2>1 DEF Encodings
  <2> QED BY <2>2, <2>3 DEF Tells
<1> QED BY <1>1 DEF Policy!Byte, Policy!Word, Policy!Delay

\* Two fields, one after the other.
LEMMA FieldsAreTold ==
  ASSUME NEW a, NEW b, NEW x, NEW y, Tells(x, y, a, b),
         NEW c, NEW d, NEW u, NEW v, Tells(u, v, c, d)
  PROVE  Tells(x \o u, y \o v, <<a, c>>, <<b, d>>)
<1>1. x \o u \in Encodings /\ y \o v \in Encodings /\ Apart(x \o u, y \o v)
  BY ConcatenationsAreApart DEF Tells
<1>2. ASSUME x \o u = y \o v PROVE a = b /\ c = d
  BY <1>2 DEF Tells, Apart
<1> QED BY <1>1, <1>2 DEF Tells

\* A kind is written first.
BeginsWith(x, n) == \E rest \in Encodings : x = Policy!Byte(n) \o rest

\* An encoding that begins with a byte keeps it, whatever follows.
LEMMA Beginnings ==
  ASSUME NEW n \in Nat
  PROVE  /\ BeginsWith(Policy!Byte(n), n)
         /\ \A x, rest : BeginsWith(x, n) /\ rest \in Encodings
                         => BeginsWith(x \o rest, n) /\ x \o rest \in Encodings
<1>1. Policy!Byte(n) \in Encodings
  BY NumbersAreTold DEF Tells
<1>2. <<>> \in Encodings /\ Policy!Byte(n) = Policy!Byte(n) \o <<>>
  BY <1>1, ConcatEmptySeq DEF Encodings
<1>3. ASSUME NEW x, NEW rest \in Encodings, BeginsWith(x, n)
      PROVE  BeginsWith(x \o rest, n) /\ x \o rest \in Encodings
  <2>1. PICK first \in Encodings : x = Policy!Byte(n) \o first
    BY <1>3 DEF BeginsWith
  <2>2. first \o rest \in Encodings /\ x \in Encodings /\ x \o rest \in Encodings
    BY <1>1, <2>1 DEF Encodings
  <2>3. x \o rest = Policy!Byte(n) \o (first \o rest)
    <3>1. Associate(Policy!Byte(n), first, rest)
      BY <1>1, Associative
    <3> QED BY <2>1, <3>1 DEF Associate
  <2> QED BY <2>2, <2>3 DEF BeginsWith
<1> QED BY <1>2, <1>3 DEF BeginsWith

\* Unlike kinds, whatever follows.
LEMMA KindsAreTold ==
  ASSUME NEW m \in Nat, NEW n \in Nat, m # n, NEW x, BeginsWith(x, m),
         NEW y, BeginsWith(y, n), NEW a, NEW b
  PROVE  Tells(x, y, a, b)
<1>1. PICK u \in Encodings : x = Policy!Byte(m) \o u
  BY DEF BeginsWith
<1>2. PICK v \in Encodings : y = Policy!Byte(n) \o v
  BY DEF BeginsWith
<1> DEFINE k == Policy!Byte(m)
           l == Policy!Byte(n)
<1>3. k \in Encodings /\ l \in Encodings /\ Apart(k, l) /\ k # l
  BY NumbersAreTold DEF Tells
<1>4. x = k \o u /\ y = l \o v
  BY <1>1, <1>2
<1> HIDE DEF k, l
<1>5. x \in Encodings /\ y \in Encodings
  BY <1>3, <1>4 DEF Encodings
<1>6. Apart(x, y) /\ x # y
  BY <1>3, <1>4, UnlikeBeginnings
<1> QED BY <1>5, <1>6 DEF Tells

\* What tells p from q tells what p and q determine.
LEMMA ToldBy ==
  ASSUME NEW p, NEW q, NEW x, NEW y, Tells(x, y, p, q), NEW a, NEW b, p = q => a = b
  PROVE  Tells(x, y, a, b)
BY DEF Tells

\* Bytes, words and delays are encodings.
LEMMA BytesAreEncodings ==
  ASSUME NEW n \in Nat
  PROVE  /\ Policy!Byte(n) \in Encodings /\ Policy!Word(n) \in Encodings
         /\ Policy!Delay(n) \in Encodings
BY NumbersAreTold DEF Tells

\* The encoding of a delay reset tells it.
LEMMA ResetsAreTold ==
  ASSUME NEW a \in Policy!DelayResets, NEW b \in Policy!DelayResets
  PROVE  Tells(Policy!EncodeReset(a), Policy!EncodeReset(b), a, b)
<1> DEFINE m == IF a = "NewIntent" THEN 0 ELSE 1
           n == IF b = "NewIntent" THEN 0 ELSE 1
<1>1. Tells(Policy!Byte(m), Policy!Byte(n), m, n)
  BY NumbersAreTold
<1>2. m = n => a = b
  BY DEF Policy!DelayResets
<1> HIDE DEF m, n
<1>3. Tells(Policy!Byte(m), Policy!Byte(n), a, b)
  BY <1>1, <1>2, ToldBy
<1> QED BY <1>3 DEF m, n, Policy!EncodeReset

\* The encoding of a budget tells it.
LEMMA BudgetsAreTold ==
  ASSUME NEW a \in Policy!Budgets, NEW b \in Policy!Budgets
  PROVE  Tells(Policy!EncodeBudget(a), Policy!EncodeBudget(b), a, b)
<1> DEFINE m == IF a.exhaustion = "UntilNewIntent" THEN 0 ELSE 1
           n == IF b.exhaustion = "UntilNewIntent" THEN 0 ELSE 1
<1>1. Tells(Policy!Byte(m), Policy!Byte(n), m, n)
  BY NumbersAreTold
<1>2. Tells(Policy!Word(a.maximum), Policy!Word(b.maximum), a.maximum, b.maximum)
  BY NumbersAreTold DEF Policy!Budgets
<1>3. m = n /\ a.maximum = b.maximum => a = b
  BY DEF Policy!Budgets
<1> HIDE DEF m, n
<1>4. Tells(Policy!Word(a.maximum) \o Policy!Byte(m), Policy!Word(b.maximum) \o Policy!Byte(n),
            <<a.maximum, m>>, <<b.maximum, n>>)
  BY <1>1, <1>2, FieldsAreTold
<1>5. <<a.maximum, m>> = <<b.maximum, n>> => a = b
  BY <1>3
<1>6. Tells(Policy!Word(a.maximum) \o Policy!Byte(m),
            Policy!Word(b.maximum) \o Policy!Byte(n), a, b)
  BY <1>4, <1>5, ToldBy
<1> QED BY <1>6 DEF m, n, Policy!EncodeBudget

\* The encoding of a cooldown tells it.
LEMMA CooldownsAreTold ==
  ASSUME NEW a \in Policy!Cooldowns, NEW b \in Policy!Cooldowns
  PROVE  Tells(Policy!EncodeCooldown(a), Policy!EncodeCooldown(b), a, b)
<1> DEFINE Required == [kind : {"Required"}, minimum_delay : Nat,
                        reset : Policy!DelayResets]
           First(c) == Policy!Byte(1) \o Policy!Delay(c.minimum_delay)
           Written(c) == First(c) \o Policy!EncodeReset(c.reset)
<1>1. ASSUME NEW c \in Required
      PROVE  Policy!EncodeCooldown(c) = Written(c) /\ BeginsWith(Written(c), 1)
  <2>1. c.minimum_delay \in Nat /\ c.reset \in Policy!DelayResets /\ c # Policy!Disabled
    BY DEF Policy!Disabled
  <2>2. /\ Policy!Delay(c.minimum_delay) \in Encodings
        /\ Policy!EncodeReset(c.reset) \in Encodings
    BY <2>1, BytesAreEncodings, ResetsAreTold DEF Tells
  <2>3. BeginsWith(First(c), 1)
    BY <2>2, Beginnings
  <2>4. BeginsWith(Written(c), 1)
    <3> HIDE DEF First
    <3> QED BY <2>2, <2>3, Beginnings
  <2> QED BY <2>1, <2>4 DEF Policy!EncodeCooldown
<1>2. Policy!EncodeCooldown(Policy!Disabled) = Policy!Byte(0) /\ BeginsWith(Policy!Byte(0), 0)
  BY Beginnings DEF Policy!EncodeCooldown
<1>3. ASSUME a \in Required, b \in Required
      PROVE  Tells(Written(a), Written(b), a, b)
  <2>1. /\ Tells(Policy!Byte(1), Policy!Byte(1), 1, 1)
        /\ Tells(Policy!Delay(a.minimum_delay), Policy!Delay(b.minimum_delay),
                 a.minimum_delay, b.minimum_delay)
    BY <1>3, NumbersAreTold
  <2>2. Tells(Policy!EncodeReset(a.reset), Policy!EncodeReset(b.reset), a.reset, b.reset)
    BY <1>3, ResetsAreTold
  <2>3. Tells(First(a), First(b), <<1, a.minimum_delay>>, <<1, b.minimum_delay>>)
    BY <2>1, FieldsAreTold
  <2>4. Tells(Written(a), Written(b), <<<<1, a.minimum_delay>>, a.reset>>,
              <<<<1, b.minimum_delay>>, b.reset>>)
    BY <2>2, <2>3, FieldsAreTold
  <2>5. <<<<1, a.minimum_delay>>, a.reset>> = <<<<1, b.minimum_delay>>, b.reset>> => a = b
    BY <1>3
  <2> HIDE DEF Written
  <2> QED BY <2>4, <2>5, ToldBy
<1> HIDE DEF Written
<1>4. CASE a = Policy!Disabled /\ b = Policy!Disabled
  <2>1. Tells(Policy!Byte(0), Policy!Byte(0), 0, 0)
    BY NumbersAreTold
  <2> QED BY <1>2, <1>4, <2>1, ToldBy
<1>5. CASE a = Policy!Disabled /\ b \in Required
  BY <1>1, <1>2, <1>5, KindsAreTold
<1>6. CASE a \in Required /\ b = Policy!Disabled
  BY <1>1, <1>2, <1>6, KindsAreTold
<1>7. CASE a \in Required /\ b \in Required
  BY <1>1, <1>3, <1>7
<1> QED BY <1>4, <1>5, <1>6, <1>7 DEF Policy!Cooldowns

\* The encoding of a jitter tells it.
LEMMA JittersAreTold ==
  ASSUME NEW a \in Policy!Jitters, NEW b \in Policy!Jitters
  PROVE  Tells(Policy!EncodeJitter(a), Policy!EncodeJitter(b), a, b)
<1> DEFINE Required == [kind : {"Required"}, maximum : Nat]
           Written(j) == Policy!Byte(1) \o Policy!Delay(j.maximum)
           Forbidden == [kind : {"Forbidden"}]
<1>1. ASSUME NEW j \in Required
      PROVE  Policy!EncodeJitter(j) = Written(j) /\ BeginsWith(Written(j), 1)
  <2>1. Policy!Delay(j.maximum) \in Encodings
    BY BytesAreEncodings
  <2> QED BY <2>1, Beginnings DEF Policy!EncodeJitter
<1>2. ASSUME NEW j \in Forbidden
      PROVE  Policy!EncodeJitter(j) = Policy!Byte(0) /\ BeginsWith(Policy!Byte(0), 0)
  BY Beginnings DEF Policy!EncodeJitter
<1>3. ASSUME a \in Required, b \in Required
      PROVE  Tells(Written(a), Written(b), a, b)
  <2>1. /\ Tells(Policy!Byte(1), Policy!Byte(1), 1, 1)
        /\ Tells(Policy!Delay(a.maximum), Policy!Delay(b.maximum), a.maximum, b.maximum)
    BY <1>3, NumbersAreTold
  <2>2. Tells(Written(a), Written(b), <<1, a.maximum>>, <<1, b.maximum>>)
    BY <2>1, FieldsAreTold
  <2>3. <<1, a.maximum>> = <<1, b.maximum>> => a = b
    BY <1>3
  <2> HIDE DEF Written
  <2> QED BY <2>2, <2>3, ToldBy
<1> HIDE DEF Written
<1>4. CASE a \in Forbidden /\ b \in Forbidden
  <2>1. Tells(Policy!Byte(0), Policy!Byte(0), 0, 0)
    BY NumbersAreTold
  <2>2. a = b
    BY <1>4
  <2>3. Tells(Policy!Byte(0), Policy!Byte(0), a, b)
    BY <2>1, <2>2, ToldBy
  <2> QED BY <1>2, <1>4, <2>3
<1>5. CASE a \in Forbidden /\ b \in Required
  BY <1>1, <1>2, <1>5, KindsAreTold
<1>6. CASE a \in Required /\ b \in Forbidden
  BY <1>1, <1>2, <1>6, KindsAreTold
<1>7. CASE a \in Required /\ b \in Required
  BY <1>1, <1>3, <1>7
<1> QED BY <1>4, <1>5, <1>6, <1>7 DEF Policy!Jitters

\* The encoding of a backoff strategy tells it.
LEMMA StrategiesAreTold ==
  ASSUME NEW a \in Policy!Strategies, NEW b \in Policy!Strategies
  PROVE  Tells(Policy!EncodeStrategy(a), Policy!EncodeStrategy(b), a, b)
<1> DEFINE Start(n, s) == Policy!Byte(n) \o Policy!Delay(s.initial)
           Linear(s) == Start(1, s) \o Policy!Delay(s.increment)
           Growing(s) == Start(2, s) \o Policy!Word(s.multiplier)
           FixedOnes == [kind : {"Fixed"}, initial : Nat]
           LinearOnes == [kind : {"Linear"}, initial : Nat, increment : Nat]
           GrowingOnes == [kind : {"Exponential"}, initial : Nat, multiplier : Nat]
<1>1. ASSUME NEW s \in FixedOnes
      PROVE  Policy!EncodeStrategy(s) = Start(0, s) /\ BeginsWith(Start(0, s), 0)
  <2>1. Policy!Delay(s.initial) \in Encodings
    BY BytesAreEncodings
  <2> QED BY <2>1, Beginnings DEF Policy!EncodeStrategy
<1>2. ASSUME NEW s \in LinearOnes
      PROVE  Policy!EncodeStrategy(s) = Linear(s) /\ BeginsWith(Linear(s), 1)
  <2>1. Policy!Delay(s.initial) \in Encodings /\ Policy!Delay(s.increment) \in Encodings
    BY BytesAreEncodings
  <2>2. BeginsWith(Start(1, s), 1)
    BY <2>1, Beginnings
  <2>3. BeginsWith(Linear(s), 1)
    <3> HIDE DEF Start
    <3> QED BY <2>1, <2>2, Beginnings
  <2> QED BY <2>3 DEF Policy!EncodeStrategy
<1>3. ASSUME NEW s \in GrowingOnes
      PROVE  Policy!EncodeStrategy(s) = Growing(s) /\ BeginsWith(Growing(s), 2)
  <2>1. Policy!Delay(s.initial) \in Encodings /\ Policy!Word(s.multiplier) \in Encodings
    BY BytesAreEncodings
  <2>2. BeginsWith(Start(2, s), 2)
    BY <2>1, Beginnings
  <2>3. BeginsWith(Growing(s), 2)
    <3> HIDE DEF Start
    <3> QED BY <2>1, <2>2, Beginnings
  <2> QED BY <2>3 DEF Policy!EncodeStrategy
<1>4. ASSUME NEW n \in Nat, a.initial \in Nat, b.initial \in Nat
      PROVE  Tells(Start(n, a), Start(n, b), <<n, a.initial>>, <<n, b.initial>>)
  <2>1. /\ Tells(Policy!Byte(n), Policy!Byte(n), n, n)
        /\ Tells(Policy!Delay(a.initial), Policy!Delay(b.initial), a.initial, b.initial)
    BY <1>4, NumbersAreTold
  <2> QED BY <2>1, FieldsAreTold
<1> HIDE DEF Start
<1>5. CASE a \in FixedOnes /\ b \in FixedOnes
  <2>1. Tells(Start(0, a), Start(0, b), <<0, a.initial>>, <<0, b.initial>>)
    BY <1>4, <1>5
  <2>2. <<0, a.initial>> = <<0, b.initial>> => a = b
    BY <1>5
  <2> QED BY <1>1, <1>5, <2>1, <2>2, ToldBy
<1>6. CASE a \in LinearOnes /\ b \in LinearOnes
  <2>1. Tells(Start(1, a), Start(1, b), <<1, a.initial>>, <<1, b.initial>>)
    BY <1>4, <1>6
  <2>2. Tells(Policy!Delay(a.increment), Policy!Delay(b.increment), a.increment, b.increment)
    BY <1>6, NumbersAreTold
  <2>3. Tells(Linear(a), Linear(b), <<<<1, a.initial>>, a.increment>>,
              <<<<1, b.initial>>, b.increment>>)
    BY <2>1, <2>2, FieldsAreTold
  <2>4. <<<<1, a.initial>>, a.increment>> = <<<<1, b.initial>>, b.increment>> => a = b
    BY <1>6
  <2> HIDE DEF Linear
  <2>5. Tells(Linear(a), Linear(b), a, b)
    BY <2>3, <2>4, ToldBy
  <2> QED BY <1>2, <1>6, <2>5
<1>7. CASE a \in GrowingOnes /\ b \in GrowingOnes
  <2>1. Tells(Start(2, a), Start(2, b), <<2, a.initial>>, <<2, b.initial>>)
    BY <1>4, <1>7
  <2>2. Tells(Policy!Word(a.multiplier), Policy!Word(b.multiplier), a.multiplier, b.multiplier)
    BY <1>7, NumbersAreTold
  <2>3. Tells(Growing(a), Growing(b), <<<<2, a.initial>>, a.multiplier>>,
              <<<<2, b.initial>>, b.multiplier>>)
    BY <2>1, <2>2, FieldsAreTold
  <2>4. <<<<2, a.initial>>, a.multiplier>> = <<<<2, b.initial>>, b.multiplier>> => a = b
    BY <1>7
  <2> HIDE DEF Growing
  <2>5. Tells(Growing(a), Growing(b), a, b)
    BY <2>3, <2>4, ToldBy
  <2> QED BY <1>3, <1>7, <2>5
<1> HIDE DEF Linear, Growing
<1> DEFINE Written(s) == Policy!EncodeStrategy(s)
<1>8. /\ \A s \in FixedOnes : BeginsWith(Written(s), 0)
      /\ \A s \in LinearOnes : BeginsWith(Written(s), 1)
      /\ \A s \in GrowingOnes : BeginsWith(Written(s), 2)
  BY <1>1, <1>2, <1>3
<1> HIDE DEF Written
<1>9. ASSUME \/ a \in FixedOnes /\ b \in LinearOnes \cup GrowingOnes
             \/ a \in LinearOnes /\ b \in FixedOnes \cup GrowingOnes
             \/ a \in GrowingOnes /\ b \in FixedOnes \cup LinearOnes
      PROVE  Tells(Written(a), Written(b), a, b)
  <2> HIDE DEF FixedOnes, LinearOnes, GrowingOnes
  <2> QED BY <1>8, <1>9, KindsAreTold
<1> QED BY <1>5, <1>6, <1>7, <1>9 DEF Policy!Strategies, Written

\* The encoding of a stable run tells it.
LEMMA StableRunsAreTold ==
  ASSUME NEW a \in Policy!StableRuns, NEW b \in Policy!StableRuns
  PROVE  Tells(Policy!EncodeStableRun(a), Policy!EncodeStableRun(b), a, b)
<1> DEFINE Required == [kind : {"StableRunRequired"}, minimum_duration : Nat,
                        evidence : {"SupervisorRunningState", "ContinuousFrameDelivery"}]
           Seen(r) == IF r.evidence = "SupervisorRunningState" THEN 0 ELSE 1
           First(r) == Policy!Byte(1) \o Policy!Byte(Seen(r))
           Written(r) == First(r) \o Policy!Delay(r.minimum_duration)
<1>0. ASSUME NEW r \in Required PROVE Seen(r) \in Nat
  OBVIOUS
<1>1. ASSUME NEW r \in Required
      PROVE  Policy!EncodeStableRun(r) = Written(r) /\ BeginsWith(Written(r), 1)
  <2>1. Policy!EncodeStableRun(r) = Written(r)
    BY DEF Policy!EncodeStableRun
  <2>2. Policy!Byte(Seen(r)) \in Encodings /\ Policy!Delay(r.minimum_duration) \in Encodings
    BY <1>0, BytesAreEncodings
  <2>3. BeginsWith(First(r), 1)
    BY <2>2, Beginnings
  <2>4. BeginsWith(Written(r), 1)
    <3> HIDE DEF First
    <3> QED BY <2>2, <2>3, Beginnings
  <2> QED BY <2>1, <2>4
<1>2. /\ Policy!EncodeStableRun(Policy!NewIntentOnly) = Policy!Byte(0)
      /\ BeginsWith(Policy!Byte(0), 0)
  BY Beginnings DEF Policy!EncodeStableRun, Policy!NewIntentOnly
<1>3. ASSUME a \in Required, b \in Required
      PROVE  Tells(Written(a), Written(b), a, b)
  <2>1. PICK m, n : m = Seen(a) /\ n = Seen(b)
    OBVIOUS
  <2>2. m \in Nat /\ n \in Nat /\ (m = n => a.evidence = b.evidence)
    BY <1>3, <2>1
  <2>3. /\ Tells(Policy!Byte(1), Policy!Byte(1), 1, 1)
        /\ Tells(Policy!Byte(m), Policy!Byte(n), m, n)
        /\ Tells(Policy!Delay(a.minimum_duration), Policy!Delay(b.minimum_duration),
                 a.minimum_duration, b.minimum_duration)
    BY <1>3, <2>2, NumbersAreTold
  <2> HIDE DEF Seen
  <2>4. Tells(First(a), First(b), <<1, m>>, <<1, n>>)
    BY <2>1, <2>3, FieldsAreTold
  <2>5. Tells(Written(a), Written(b), <<<<1, m>>, a.minimum_duration>>,
              <<<<1, n>>, b.minimum_duration>>)
    BY <2>3, <2>4, FieldsAreTold
  <2>6. <<<<1, m>>, a.minimum_duration>> = <<<<1, n>>, b.minimum_duration>> => a = b
    BY <1>3, <2>2
  <2> HIDE DEF Written
  <2> QED BY <2>5, <2>6, ToldBy
<1> HIDE DEF Written
<1>4. CASE a = Policy!NewIntentOnly /\ b = Policy!NewIntentOnly
  <2>1. Tells(Policy!Byte(0), Policy!Byte(0), 0, 0)
    BY NumbersAreTold
  <2> QED BY <1>2, <1>4, <2>1, ToldBy
<1>5. CASE a = Policy!NewIntentOnly /\ b \in Required
  BY <1>1, <1>2, <1>5, KindsAreTold
<1>6. CASE a \in Required /\ b = Policy!NewIntentOnly
  BY <1>1, <1>2, <1>6, KindsAreTold
<1>7. CASE a \in Required /\ b \in Required
  BY <1>1, <1>3, <1>7
<1> QED BY <1>4, <1>5, <1>6, <1>7 DEF Policy!StableRuns

\* The encoding of a backoff tells it.
LEMMA BackoffsAreTold ==
  ASSUME NEW a \in Policy!Backoffs, NEW b \in Policy!Backoffs
  PROVE  Tells(Policy!EncodeBackoff(a), Policy!EncodeBackoff(b), a, b)
<1> DEFINE Required == [kind : {"Required"}, strategy : Policy!Strategies,
                        maximum_delay : Nat, jitter : Policy!Jitters,
                        reset : Policy!DelayResets]
           One(c) == Policy!Byte(1) \o Policy!EncodeStrategy(c.strategy)
           Two(c) == One(c) \o Policy!Delay(c.maximum_delay)
           Three(c) == Two(c) \o Policy!EncodeJitter(c.jitter)
           Written(c) == Three(c) \o Policy!EncodeReset(c.reset)
<1>1. ASSUME NEW c \in Required
      PROVE  Policy!EncodeBackoff(c) = Written(c) /\ BeginsWith(Written(c), 1)
  <2>1. Policy!EncodeBackoff(c) = Written(c)
    BY DEF Policy!EncodeBackoff, Policy!Disabled
  <2>2. /\ Policy!EncodeStrategy(c.strategy) \in Encodings
        /\ Policy!Delay(c.maximum_delay) \in Encodings
        /\ Policy!EncodeJitter(c.jitter) \in Encodings
        /\ Policy!EncodeReset(c.reset) \in Encodings
    BY StrategiesAreTold, BytesAreEncodings, JittersAreTold, ResetsAreTold DEF Tells
  <2>3. BeginsWith(One(c), 1)
    BY <2>2, Beginnings
  <2>4. BeginsWith(Two(c), 1)
    <3> HIDE DEF One
    <3> QED BY <2>2, <2>3, Beginnings
  <2>5. BeginsWith(Three(c), 1)
    <3> HIDE DEF Two
    <3> QED BY <2>2, <2>4, Beginnings
  <2>6. BeginsWith(Written(c), 1)
    <3> HIDE DEF Three
    <3> QED BY <2>2, <2>5, Beginnings
  <2> QED BY <2>1, <2>6
<1>2. Policy!EncodeBackoff(Policy!Disabled) = Policy!Byte(0) /\ BeginsWith(Policy!Byte(0), 0)
  BY Beginnings DEF Policy!EncodeBackoff
<1>3. ASSUME a \in Required, b \in Required
      PROVE  Tells(Written(a), Written(b), a, b)
  <2>1. /\ Tells(Policy!Byte(1), Policy!Byte(1), 1, 1)
        /\ Tells(Policy!Delay(a.maximum_delay), Policy!Delay(b.maximum_delay),
                 a.maximum_delay, b.maximum_delay)
    BY <1>3, NumbersAreTold
  <2>2. Tells(Policy!EncodeStrategy(a.strategy), Policy!EncodeStrategy(b.strategy),
              a.strategy, b.strategy)
    BY <1>3, StrategiesAreTold
  <2>3. Tells(Policy!EncodeJitter(a.jitter), Policy!EncodeJitter(b.jitter), a.jitter, b.jitter)
    BY <1>3, JittersAreTold
  <2>4. Tells(Policy!EncodeReset(a.reset), Policy!EncodeReset(b.reset), a.reset, b.reset)
    BY <1>3, ResetsAreTold
  <2>5. Tells(One(a), One(b), <<1, a.strategy>>, <<1, b.strategy>>)
    BY <2>1, <2>2, FieldsAreTold
  <2> HIDE DEF One
  <2>6. Tells(Two(a), Two(b), <<<<1, a.strategy>>, a.maximum_delay>>,
              <<<<1, b.strategy>>, b.maximum_delay>>)
    BY <2>1, <2>5, FieldsAreTold
  <2> HIDE DEF Two
  <2>7. Tells(Three(a), Three(b), <<<<<<1, a.strategy>>, a.maximum_delay>>, a.jitter>>,
              <<<<<<1, b.strategy>>, b.maximum_delay>>, b.jitter>>)
    BY <2>3, <2>6, FieldsAreTold
  <2> HIDE DEF Three
  <2>8. Tells(Written(a), Written(b),
              <<<<<<<<1, a.strategy>>, a.maximum_delay>>, a.jitter>>, a.reset>>,
              <<<<<<<<1, b.strategy>>, b.maximum_delay>>, b.jitter>>, b.reset>>)
    BY <2>4, <2>7, FieldsAreTold
  <2>9. <<<<<<<<1, a.strategy>>, a.maximum_delay>>, a.jitter>>, a.reset>>
          = <<<<<<<<1, b.strategy>>, b.maximum_delay>>, b.jitter>>, b.reset>> => a = b
    BY <1>3
  <2> HIDE DEF Written
  <2> QED BY <2>8, <2>9, ToldBy
<1> HIDE DEF Written
<1>4. CASE a = Policy!Disabled /\ b = Policy!Disabled
  <2>1. Tells(Policy!Byte(0), Policy!Byte(0), 0, 0)
    BY NumbersAreTold
  <2> QED BY <1>2, <1>4, <2>1, ToldBy
<1>5. CASE a = Policy!Disabled /\ b \in Required
  BY <1>1, <1>2, <1>5, KindsAreTold
<1>6. CASE a \in Required /\ b = Policy!Disabled
  BY <1>1, <1>2, <1>6, KindsAreTold
<1>7. CASE a \in Required /\ b \in Required
  BY <1>1, <1>3, <1>7
<1> QED BY <1>4, <1>5, <1>6, <1>7 DEF Policy!Backoffs

\* The encoding of a failure's disposition tells it.
LEMMA DispositionsAreTold ==
  ASSUME NEW a \in Policy!Dispositions, NEW b \in Policy!Dispositions
  PROVE  Tells(Policy!EncodeDisposition(a), Policy!EncodeDisposition(b), a, b)
<1> DEFINE Number(d) == CASE d = "SourceAvailable"          -> 0
                          [] d = "SupportedFormatAvailable" -> 1
                          [] d = "ResourcePressureCleared"  -> 2
                          [] d = "ChangedPrecondition"      -> 3
           Kind(d) == IF d = "Retryable" THEN 0 ELSE IF d = "NonRetryable" THEN 1 ELSE 2
           Written(d) == Policy!EncodeDisposition(d)
<1>1. /\ Written("Retryable") = Policy!Byte(0)
      /\ Written("NonRetryable") = Policy!Byte(1)
      /\ \A d \in Policy!Requirements : Written(d) = Policy!Byte(2) \o Policy!Byte(Number(d))
  BY DEF Policy!EncodeDisposition, Policy!Requirements
<1>2. \A d \in Policy!Requirements : Number(d) \in Nat
  BY DEF Policy!Requirements
<1>3. \A c, d \in Policy!Requirements : Number(c) = Number(d) => c = d
  BY DEF Policy!Requirements
<1> HIDE DEF Number, Written
<1>4. ASSUME NEW d \in Policy!Dispositions
      PROVE  Kind(d) \in Nat /\ BeginsWith(Written(d), Kind(d))
  <2>1. d = "Retryable" \/ d = "NonRetryable" \/ d \in Policy!Requirements
    BY DEF Policy!Dispositions
  <2>2. CASE d \in Policy!Requirements
    <3>1. Kind(d) = 2
      BY <2>2 DEF Policy!Requirements
    <3>2. Policy!Byte(Number(d)) \in Encodings
      BY <1>2, <2>2, BytesAreEncodings
    <3>3. BeginsWith(Policy!Byte(2) \o Policy!Byte(Number(d)), 2)
      BY <3>2, Beginnings
    <3> QED BY <1>1, <2>2, <3>1, <3>3
  <2>3. CASE d = "Retryable" \/ d = "NonRetryable"
    BY <1>1, <2>3, Beginnings
  <2> QED BY <2>1, <2>2, <2>3
<1>5. CASE Kind(a) # Kind(b)
  <2> HIDE DEF Kind
  <2>1. Tells(Written(a), Written(b), a, b)
    BY <1>4, <1>5, KindsAreTold
  <2> QED BY <2>1 DEF Written
<1>6. CASE Kind(a) = Kind(b) /\ a \in Policy!Requirements /\ b \in Policy!Requirements
  <2>1. /\ Tells(Policy!Byte(2), Policy!Byte(2), 2, 2)
        /\ Tells(Policy!Byte(Number(a)), Policy!Byte(Number(b)), Number(a), Number(b))
    BY <1>2, <1>6, NumbersAreTold
  <2>2. Tells(Written(a), Written(b), <<2, Number(a)>>, <<2, Number(b)>>)
    BY <1>1, <1>6, <2>1, FieldsAreTold
  <2>3. <<2, Number(a)>> = <<2, Number(b)>> => a = b
    BY <1>3, <1>6
  <2>4. Tells(Written(a), Written(b), a, b)
    BY <2>2, <2>3, ToldBy
  <2> QED BY <2>4 DEF Written
<1>7. CASE Kind(a) = Kind(b) /\ ~ (a \in Policy!Requirements /\ b \in Policy!Requirements)
  <2>1. a = b /\ a \in {"Retryable", "NonRetryable"}
    BY <1>7 DEF Policy!Dispositions, Policy!Requirements
  <2>2. PICK n \in Nat : Written(a) = Policy!Byte(n)
    BY <1>1, <2>1
  <2>3. Tells(Policy!Byte(n), Policy!Byte(n), n, n)
    BY NumbersAreTold
  <2>4. Tells(Written(a), Written(b), a, b)
    BY <2>1, <2>2, <2>3, ToldBy
  <2> QED BY <2>4 DEF Written
<1> QED BY <1>5, <1>6, <1>7

\* The nine failure classes are written in one order, each of them.
LEMMA OrderOfClasses ==
  /\ Len(Policy!FailureClassOrder) = 9
  /\ \A n \in 1 .. 9 : Policy!FailureClassOrder[n] \in Policy!RecoveryFailureClasses
  /\ \A class \in Policy!RecoveryFailureClasses :
       \E n \in 1 .. 9 : class = Policy!FailureClassOrder[n]
<1>1. Len(Policy!FailureClassOrder) = 9
  BY DEF Policy!FailureClassOrder
<1> QED BY <1>1 DEF Policy!RecoveryFailureClasses

\* f is what has been written after each class.
WrittenSoFar(f, c) ==
  /\ f[0] = <<>> /\ f \in [0 .. 9 -> Encodings]
  /\ \A n \in 1 .. 9 :
       f[n] = f[n - 1] \o Policy!Byte(n - 1)
                \o Policy!EncodeDisposition(c[Policy!FailureClassOrder[n]])

\* A classification is written class by class, in nine steps.
LEMMA ClassificationIsWritten ==
  ASSUME NEW c \in Policy!Classifications
  PROVE  \E f : WrittenSoFar(f, c) /\ Policy!EncodeClassification(c) = f[9]
<1> DEFINE Then(x, n) == x \o Policy!Byte(n - 1)
                           \o Policy!EncodeDisposition(c[Policy!FailureClassOrder[n]])
           last == Len(Policy!FailureClassOrder)
           step == [x \in Encodings \X (1 .. last) |-> Then(x[1], x[2])]
           encoded == CHOOSE f : f = [n \in 0 .. last |->
                        IF n = 0 THEN <<>> ELSE Then(f[n - 1], n)]
<1>1. last = 9
  BY OrderOfClasses
<1>2. <<>> \in Encodings
  BY DEF Encodings
<1>3. ASSUME NEW x \in Encodings, NEW n \in 1 .. last
      PROVE  Then(x, n) \in Encodings
  <2>1. n - 1 \in Nat /\ c[Policy!FailureClassOrder[n]] \in Policy!Dispositions
    BY <1>1, OrderOfClasses DEF Policy!Classifications
  <2>2. /\ Policy!Byte(n - 1) \in Encodings
        /\ Policy!EncodeDisposition(c[Policy!FailureClassOrder[n]]) \in Encodings
    BY <2>1, BytesAreEncodings, DispositionsAreTold DEF Tells
  <2> QED BY <2>2 DEF Encodings
<1>4. step \in [Encodings \X (1 .. last) -> Encodings]
  BY <1>3
<1>5. ASSUME NEW x \in Encodings, NEW n \in 1 .. last
      PROVE  step[<<x, n>>] = Then(x, n)
  OBVIOUS
<1>6. Policy!EncodeClassification(c) = encoded[last]
  BY DEF Policy!EncodeClassification
<1> HIDE DEF last, step, Then
<1>7. PICK f : Iterates(f, Encodings, last, <<>>, step)
  BY <1>1, <1>2, <1>4, IterationIsDefined
<1>8. /\ f \in [0 .. last -> Encodings] /\ f[0] = <<>>
      /\ \A n \in 1 .. last : f[n] = step[<<f[n - 1], n>>]
  BY <1>7 DEF Iterates
<1>9. ASSUME NEW n \in 1 .. last
      PROVE  f[n] = Then(f[n - 1], n)
  <2>1. n - 1 \in 0 .. last
    BY <1>1
  <2> QED BY <1>5, <1>8, <2>1
<1>10. f = [n \in 0 .. last |-> IF n = 0 THEN <<>> ELSE Then(f[n - 1], n)]
  BY <1>8, <1>9
<1>11. encoded = [n \in 0 .. last |-> IF n = 0 THEN <<>> ELSE Then(encoded[n - 1], n)]
  BY <1>10
<1> HIDE DEF encoded
<1>12. encoded[0] = f[0]
  BY <1>1, <1>8, <1>11
<1>13. ASSUME NEW n \in 1 .. last, encoded[n - 1] = f[n - 1]
       PROVE  encoded[n] = f[n]
  BY <1>1, <1>9, <1>11, <1>13
<1>14. encoded[last] = f[last]
  BY <1>1, <1>12, <1>13, IterationsAgree
<1>15. WrittenSoFar(f, c)
  BY <1>1, <1>8, <1>9 DEF WrittenSoFar, Then
<1> QED BY <1>1, <1>6, <1>14, <1>15

\* The encoding of a classification tells it.
LEMMA ClassificationsAreTold ==
  ASSUME NEW a \in Policy!Classifications, NEW b \in Policy!Classifications
  PROVE  Tells(Policy!EncodeClassification(a), Policy!EncodeClassification(b), a, b)
<1> DEFINE Before(c, n) == [k \in 1 .. n |-> c[Policy!FailureClassOrder[k]]]
<1>1. PICK f : WrittenSoFar(f, a) /\ Policy!EncodeClassification(a) = f[9]
  BY ClassificationIsWritten
<1>2. PICK g : WrittenSoFar(g, b) /\ Policy!EncodeClassification(b) = g[9]
  BY ClassificationIsWritten
<1> DEFINE T == {n \in Nat : n <= 9 => Tells(f[n], g[n], Before(a, n), Before(b, n))}
<1>3. 0 \in T
  <2>0. <<>> \in Encodings
    BY DEF Encodings
  <2>1. f[0] = <<>> /\ g[0] = <<>>
    BY <1>1, <1>2 DEF WrittenSoFar
  <2>2. Apart(<<>>, <<>>)
    BY ConcatEmptySeq DEF Apart, Encodings
  <2>3. Before(a, 0) = Before(b, 0)
    OBVIOUS
  <2> QED BY <2>0, <2>1, <2>2, <2>3 DEF Tells
<1>4. ASSUME NEW m \in T PROVE m + 1 \in T
  <2> SUFFICES ASSUME m + 1 <= 9
               PROVE  Tells(f[m + 1], g[m + 1], Before(a, m + 1), Before(b, m + 1))
    OBVIOUS
  <2>1. m \in Nat /\ m + 1 \in 1 .. 9 /\ m + 1 - 1 = m
    OBVIOUS
  <2>2. PICK class : class = Policy!FailureClassOrder[m + 1]
    OBVIOUS
  <2>3. /\ f[m + 1] = f[m] \o Policy!Byte(m) \o Policy!EncodeDisposition(a[class])
        /\ g[m + 1] = g[m] \o Policy!Byte(m) \o Policy!EncodeDisposition(b[class])
    <3>1. \A n \in 1 .. 9 :
             /\ f[n] = f[n - 1] \o Policy!Byte(n - 1)
                         \o Policy!EncodeDisposition(a[Policy!FailureClassOrder[n]])
             /\ g[n] = g[n - 1] \o Policy!Byte(n - 1)
                         \o Policy!EncodeDisposition(b[Policy!FailureClassOrder[n]])
      BY <1>1, <1>2 DEF WrittenSoFar
    <3>2. PICK n \in 1 .. 9 : n = m + 1 /\ n - 1 = m
      BY <2>1
    <3> HIDE DEF T
    <3>3. f[n] = f[n - 1] \o Policy!Byte(n - 1) \o Policy!EncodeDisposition(a[class])
      BY <2>2, <3>1, <3>2
    <3>4. g[n] = g[n - 1] \o Policy!Byte(n - 1) \o Policy!EncodeDisposition(b[class])
      BY <2>2, <3>1, <3>2
    <3> QED BY <3>2, <3>3, <3>4
  <2>4. Tells(f[m], g[m], Before(a, m), Before(b, m))
    BY <2>1
  <2>5. Tells(Policy!Byte(m), Policy!Byte(m), m, m)
    BY <2>1, NumbersAreTold
  <2>6. a[class] \in Policy!Dispositions /\ b[class] \in Policy!Dispositions
    BY <2>1, <2>2, OrderOfClasses DEF Policy!Classifications
  <2>7. Tells(Policy!EncodeDisposition(a[class]), Policy!EncodeDisposition(b[class]),
              a[class], b[class])
    BY <2>6, DispositionsAreTold
  <2>8. <<<<Before(a, m), m>>, a[class]>> = <<<<Before(b, m), m>>, b[class]>>
          => Before(a, m + 1) = Before(b, m + 1)
    <3> SUFFICES ASSUME Before(a, m) = Before(b, m), a[class] = b[class]
                 PROVE  Before(a, m + 1) = Before(b, m + 1)
      OBVIOUS
    <3>1. ASSUME NEW k \in 1 .. m + 1
          PROVE  a[Policy!FailureClassOrder[k]] = b[Policy!FailureClassOrder[k]]
      <4>1. CASE k = m + 1
        BY <2>2, <4>1
      <4>2. CASE k \in 1 .. m
        <5>1. Before(a, m)[k] = Before(b, m)[k]
          OBVIOUS
        <5> QED BY <4>2, <5>1
      <4> QED BY <2>1, <4>1, <4>2
    <3> QED BY <3>1
  <2> HIDE DEF Before, T
  <2>9. Tells(f[m] \o Policy!Byte(m), g[m] \o Policy!Byte(m),
              <<Before(a, m), m>>, <<Before(b, m), m>>)
    BY <2>4, <2>5, FieldsAreTold
  <2>10. Tells(f[m + 1], g[m + 1], <<<<Before(a, m), m>>, a[class]>>,
               <<<<Before(b, m), m>>, b[class]>>)
    BY <2>3, <2>7, <2>9, FieldsAreTold
  <2> QED BY <2>8, <2>10, ToldBy
<1>5. 9 \in T
  <2>1. T \in SUBSET Nat /\ \A m \in T : m + 1 \in T
    BY <1>4
  <2> HIDE DEF T
  <2> QED BY <1>3, <2>1, NumberInduction
<1>6. Tells(f[9], g[9], Before(a, 9), Before(b, 9))
  BY <1>5
<1>7. Before(a, 9) = Before(b, 9) => a = b
  <2> SUFFICES ASSUME Before(a, 9) = Before(b, 9) PROVE a = b
    OBVIOUS
  <2>1. ASSUME NEW class \in Policy!RecoveryFailureClasses
        PROVE  a[class] = b[class]
    <3>1. PICK n \in 1 .. 9 : class = Policy!FailureClassOrder[n]
      BY OrderOfClasses
    <3>2. Before(a, 9)[n] = Before(b, 9)[n]
      OBVIOUS
    <3> QED BY <3>1, <3>2
  <2> QED BY <2>1 DEF Policy!Classifications
<1> HIDE DEF Before
<1> QED BY <1>1, <1>2, <1>6, <1>7, ToldBy

\* A definition that validation accepts has all its fields.
LEMMA FieldsOfAccepted ==
  ASSUME NEW d \in Definitions, Policy!IsValid(d)
  PROVE  /\ d \in Policy!ConfigurationInputs
         /\ d.attempt_budget \in Policy!Budgets /\ d.cooldown \in Policy!Cooldowns
         /\ d.backoff \in Policy!Backoffs /\ d.stable_run_reset \in Policy!StableRuns
         /\ d.failure_classification \in Policy!Classifications
<1>1. d \in Policy!ConfigurationInputs /\ Policy!HasEveryField(d)
  BY DefinitionsAssumption DEF Policy!IsValid
<1> QED BY <1>1 DEF Policy!ConfigurationInputs, Policy!HasEveryField, Policy!Optional

\* A definition that is accepted has a number for its budget.
LEMMA BudgetOfAccepted ==
  ASSUME NEW d \in Definitions, Policy!IsValid(d)
  PROVE  d.attempt_budget.maximum \in Nat
BY FieldsOfAccepted DEF Policy!Budgets

\* Definitions that validation accepts and whose identities are equal are equal.
LEMMA IdentityIsInjective ==
  ASSUME NEW a \in Definitions, Policy!IsValid(a), NEW b \in Definitions,
         Policy!IsValid(b), Policy!Identity(a) = Policy!Identity(b)
  PROVE  a = b
<1> DEFINE One(d) == <<<<2, Policy!SchemaVersion>>>> \o Policy!EncodeBudget(d.attempt_budget)
           Two(d) == One(d) \o Policy!EncodeCooldown(d.cooldown)
           Three(d) == Two(d) \o Policy!EncodeBackoff(d.backoff)
           Four(d) == Three(d) \o Policy!EncodeClassification(d.failure_classification)
           Written(d) == Four(d) \o Policy!EncodeStableRun(d.stable_run_reset)
<1>1. a.version = b.version /\ Policy!Fingerprint(a) = Policy!Fingerprint(b)
  BY DEF Policy!Identity
<1>2. Written(a) = Written(b)
  BY <1>1 DEF Policy!Fingerprint
<1> DEFINE header == <<<<2, Policy!SchemaVersion>>>>
<1>3. Tells(header, header, 0, 0)
  <2>1. <<2, Policy!SchemaVersion>> \in Nat \X Nat
    BY DEF Policy!SchemaVersion
  <2>2. Apart(header, header) /\ header \in Encodings
    BY <2>1, TokensAreApart DEF Encodings
  <2> QED BY <2>2 DEF Tells
<1>4. /\ Tells(Policy!EncodeBudget(a.attempt_budget), Policy!EncodeBudget(b.attempt_budget),
               a.attempt_budget, b.attempt_budget)
      /\ Tells(Policy!EncodeCooldown(a.cooldown), Policy!EncodeCooldown(b.cooldown),
               a.cooldown, b.cooldown)
      /\ Tells(Policy!EncodeBackoff(a.backoff), Policy!EncodeBackoff(b.backoff),
               a.backoff, b.backoff)
  BY FieldsOfAccepted, BudgetsAreTold, CooldownsAreTold, BackoffsAreTold
<1>5. /\ Tells(Policy!EncodeClassification(a.failure_classification),
               Policy!EncodeClassification(b.failure_classification),
               a.failure_classification, b.failure_classification)
      /\ Tells(Policy!EncodeStableRun(a.stable_run_reset),
               Policy!EncodeStableRun(b.stable_run_reset),
               a.stable_run_reset, b.stable_run_reset)
  BY FieldsOfAccepted, ClassificationsAreTold, StableRunsAreTold
<1> HIDE DEF header
<1>6. PICK p, q : Tells(One(a), One(b), p, q) /\ (p = q => a.attempt_budget = b.attempt_budget)
  <2>1. Tells(One(a), One(b), <<0, a.attempt_budget>>, <<0, b.attempt_budget>>)
    BY <1>3, <1>4, FieldsAreTold DEF header
  <2> QED BY <2>1
<1> HIDE DEF One
<1>7. Tells(Two(a), Two(b), <<p, a.cooldown>>, <<q, b.cooldown>>)
  BY <1>4, <1>6, FieldsAreTold
<1> HIDE DEF Two
<1>8. Tells(Three(a), Three(b), <<<<p, a.cooldown>>, a.backoff>>, <<<<q, b.cooldown>>, b.backoff>>)
  BY <1>4, <1>7, FieldsAreTold
<1> HIDE DEF Three
<1>9. Tells(Four(a), Four(b),
            <<<<<<p, a.cooldown>>, a.backoff>>, a.failure_classification>>,
            <<<<<<q, b.cooldown>>, b.backoff>>, b.failure_classification>>)
  BY <1>5, <1>8, FieldsAreTold
<1> HIDE DEF Four
<1>10. Tells(Written(a), Written(b),
             <<<<<<<<p, a.cooldown>>, a.backoff>>, a.failure_classification>>, a.stable_run_reset>>,
             <<<<<<<<q, b.cooldown>>, b.backoff>>, b.failure_classification>>, b.stable_run_reset>>)
  BY <1>5, <1>9, FieldsAreTold
<1> HIDE DEF Written
<1>11. /\ p = q /\ a.cooldown = b.cooldown /\ a.backoff = b.backoff
       /\ a.failure_classification = b.failure_classification
       /\ a.stable_run_reset = b.stable_run_reset
  BY <1>2, <1>10 DEF Tells
<1> QED
  BY <1>1, <1>6, <1>11, FieldsOfAccepted DEF Policy!ConfigurationInputs

-----------------------------------------------------------------------------
(* What evaluators hold.                                                   *)

\* The snapshots validation makes of the definitions tried.
ValidConfigurations ==
  {Validated(d) : d \in {x \in Definitions : Policy!IsValid(x)}}

\* An intent runs under the configuration that it was started with, and an
\* evaluator holds a snapshot, a configuration and evidence together.
ConfigurationOK ==
  intent_generation # 0 \/ configuration_id # None =>
    configuration \in ValidConfigurations /\ configuration.identity = configuration_id

HeldOK ==
  /\ DOMAIN evaluated = Evaluators /\ DOMAIN evidence = Evaluators
  /\ DOMAIN decision = Evaluators
  /\ \A e \in Evaluators :
       /\ decision[e] # None => evaluated[e] # None
       /\ evaluated[e] # None =>
            /\ evaluated[e] \in ValidConfigurations
            /\ evidence[e] \in Policy!RecoveryEvidence
            /\ evaluation[e] # None

\* What a permit was decided on: an intent that was live, under the configuration
\* it ran under, within the budget and past the cooldown of the snapshot, on the
\* evidence for its cause.
Supported(e) ==
  LET s == evaluation[e]
      definition == evaluated[e].definition
  IN  /\ Supports(SnapshotCause(s), evidence[e])
      /\ s.desired_running
      /\ s.configuration_id = evaluated[e].identity
      /\ Policy!AttemptsRemain(definition, s.recovery_episode)
      /\ Policy!CooldownComplete(definition, s.cooldown)

PermitsAreSupported == \A e \in Evaluators : Permits(e) => Supported(e)

RecoveryInv == ConfigurationOK /\ HeldOK /\ PermitsAreSupported

\* The cause of a snapshot is one of the policy's causes.
LEMMA SnapshotCauseType ==
  ASSUME NEW s \in Snapshots
  PROVE  SnapshotCause(s) \in Policy!RecoveryCauses
<1>1. s.last_failure # None => s.last_failure.cause \in Policy!RetryFailureCauses
  BY EvidenceAssumption DEF Snapshots, FailureRecords
<1> QED
  BY <1>1 DEF SnapshotCause, Policy!CauseOfFailure, Policy!RecoveryCauses,
              Policy!RetryFailureCauses, Policy!DeviceUnavailableCauses,
              Policy!SourceReconfigurationCauses

\* A decision on what an evaluator holds permits only what is supported.
LEMMA DecisionIsSupported ==
  ASSUME TypeOK, HeldOK, NEW e \in Evaluators, evaluated[e] # None,
         PolicyDecision(e).class = "PermitReplacement"
  PROVE  Supported(e)
<1> DEFINE s == evaluation[e]
           cause == SnapshotCause(s)
           context == [desired_running |-> desired_running,
                       current_intent_generation |-> intent_generation,
                       evaluated_intent_generation |-> s.intent_generation]
<1>1. s \in Snapshots /\ evidence[e] \in Policy!RecoveryEvidence
  BY DEF TypeOK, HeldOK
<1>2. cause \in Policy!RecoveryCauses
  BY <1>1, SnapshotCauseType
<1>3. context.desired_running = desired_running
  OBVIOUS
<1>4. /\ desired_running /\ s.desired_running = desired_running
      /\ s.configuration_id = evaluated[e].identity
      /\ \/ /\ s.last_failure = None
            /\ Policy!EvaluateRecovery(context, cause, evidence[e]).class
                 = "PermitReplacement"
         \/ \E disposition :
              Policy!EvaluateLimits(evaluated[e].definition, s, context, cause,
                evidence[e], disposition).class = "PermitReplacement"
  <2> HIDE DEF cause, context
  <2>1. Policy!EvaluateRecoveryPolicy(
          evaluated[e].definition, evaluated[e].identity, configuration.identity,
          s, context, cause, evidence[e]).class = "PermitReplacement"
    BY DEF PolicyDecision, cause, context
  <2> HIDE DEF s
  <2> QED
    BY <1>3, <2>1, PreconditionsNeverPermit
    DEF Policy!EvaluateRecoveryPolicy, Policy!RemainStopped
<1>5. s.last_failure = None => cause \in {"ExplicitStop", "NormalShutdown"}
  BY DEF SnapshotCause
<1>6. PICK disposition :
        Policy!EvaluateLimits(evaluated[e].definition, s, context, cause,
          evidence[e], disposition).class = "PermitReplacement"
  <2>1. s.last_failure = None =>
          Policy!EvaluateRecovery(context, cause, evidence[e]).class
            # "PermitReplacement"
    BY <1>1, <1>2, <1>5, EvaluationNeedsEvidence DEF Supports
  <2> QED BY <1>4, <2>1
<1>7. /\ Supports(cause, evidence[e])
      /\ Policy!AttemptsRemain(evaluated[e].definition, s.recovery_episode)
      /\ Policy!CooldownComplete(evaluated[e].definition, s.cooldown)
  BY <1>1, <1>2, <1>6, LimitsNeedEvidence
<1> QED BY <1>4, <1>7 DEF Supported

\* What a step that changes neither the intent nor what evaluators hold leaves.
LEMMA HeldUntouched ==
  ASSUME RecoveryInv,
         UNCHANGED <<intent_generation, configuration_id, configuration, held,
                     evaluation>>
  PROVE  RecoveryInv'
BY DEF RecoveryInv, ConfigurationOK, HeldOK, PermitsAreSupported, Permits,
       Supported, SnapshotCause, held

\* The methods of the retry state other than an explicit start leave both alone.
LEMMA RetryStepsKeepHeld ==
  ASSUME RecoveryInv, RetryNext \/ \E e \in Evaluators : Recover(e)
  PROVE  RecoveryInv'
<1>1. UNCHANGED <<intent_generation, configuration_id, evaluation>>
  <2> USE DEF intentVars
  <2>1. CASE AttemptNext
    BY <2>1 DEF AttemptNext, RecordOwnerCreated, RecordStreamStarted,
                RecordNormalCompletion, RecordFailure,
                RecordTerminalEventDelivered, RecordCleanupComplete
  <2>2. ASSUME NEW generation \in Generations,
               \/ ExplicitStop(generation)
               \/ CommitInitialAttempt(generation)
               \/ \E marker \in Markers : SatisfyCooldown(generation, marker)
               \/ \E reset \in ResetEvidence :
                    AdvanceRecoveryEpisode(generation, reset)
        PROVE  UNCHANGED <<intent_generation, configuration_id, evaluation>>
    BY <2>2 DEF ExplicitStop, CommitInitialAttempt, CommitAttempt,
                SatisfyCooldown, AdvanceRecoveryEpisode
  <2>3. ASSUME NEW e \in Evaluators,
               \/ \E marker \in Markers : RequireCooldown(e, marker)
               \/ \E reason \in ExhaustionReasons : MarkExhausted(e, reason)
               \/ Recover(e)
        PROVE  UNCHANGED <<intent_generation, configuration_id, evaluation>>
    BY <2>3 DEF RequireCooldown, MarkExhausted, Recover, CommitRecoveryAttempt,
                CommitAttempt
  <2> QED BY <2>1, <2>2, <2>3 DEF RetryNext
<1>2. UNCHANGED <<configuration, held>>
  BY DEF RetryNext, Recover
<1> QED BY <1>1, <1>2, HeldUntouched

\* The invariant holds in every state of the composition.
LEMMA RecoveryCorrect == EvaluationSpec => []RecoveryInv
<1>1. EvaluationInit => RecoveryInv
  BY DEF EvaluationInit, Init, RecoveryInv, ConfigurationOK, HeldOK,
         PermitsAreSupported, Permits
<1>2. TypeOK /\ RecoveryInv /\ [EvaluationNext]_evaluationVars => RecoveryInv'
  <2> SUFFICES ASSUME TypeOK, RecoveryInv, [EvaluationNext]_evaluationVars
               PROVE  RecoveryInv'
    OBVIOUS
  <2>1. ASSUME NEW d \in Definitions, StartIntent(d)
        PROVE  RecoveryInv'
    <3>1. ConfigurationOK'
      <4>1. configuration' = Validated(d) /\ configuration_id' = Policy!Identity(d)
        BY <2>1 DEF StartIntent, ExplicitStart
      <4>2. configuration' \in ValidConfigurations
        BY <2>1, <4>1 DEF StartIntent, ValidConfigurations
      <4> QED BY <4>1, <4>2 DEF ConfigurationOK, ValidConfigurations, Validated
    <3>2. UNCHANGED <<held, evaluation>>
      BY <2>1 DEF StartIntent, ExplicitStart
    <3> QED
      BY <3>1, <3>2 DEF RecoveryInv, HeldOK, PermitsAreSupported, Permits,
                        Supported, SnapshotCause, held, ValidConfigurations
  <2>2. ASSUME NEW e \in Evaluators, NEW optional \in OptionalEvidence,
               Observe(e, optional)
        PROVE  RecoveryInv'
    <3>1. ConfigurationOK' /\ configuration \in ValidConfigurations
      BY <2>2 DEF Observe, TakeSnapshot, retryVars, intentVars, RecoveryInv,
                  ConfigurationOK, ValidConfigurations
    <3>2. EvidenceFor(current_attempt, optional) \in Policy!RecoveryEvidence
      <4>1. optional \in Policy!RecoveryEvidence
        BY EvidenceAssumption
      <4>2. \A fact : Policy!Known(fact) \in Policy!Fact
        BY DEF Policy!Known, Policy!Fact
      <4> QED BY <4>1, <4>2 DEF EvidenceFor, Policy!RecoveryEvidence
    <3>3. HeldOK'
      <4>1. evaluation'[e] # None
        BY <2>2, SnapshotType, NoneAssumption DEF Observe, TakeSnapshot, TypeOK
      <4> QED
        BY <2>2, <3>1, <3>2, <4>1
        DEF Observe, TakeSnapshot, RecoveryInv, HeldOK, TypeOK,
            ValidConfigurations
    <3>4. PermitsAreSupported'
      <4> SUFFICES ASSUME NEW f \in Evaluators, Permits(f)'
                   PROVE  Supported(f)'
        BY DEF PermitsAreSupported
      <4>1. f # e /\ Permits(f)
        BY <2>2 DEF Observe, Permits, RecoveryInv, HeldOK
      <4>2. /\ evaluation'[f] = evaluation[f] /\ evaluated'[f] = evaluated[f]
            /\ evidence'[f] = evidence[f]
        BY <2>2, <4>1 DEF Observe, TakeSnapshot, TypeOK, RecoveryInv, HeldOK
      <4> QED
        BY <4>1, <4>2 DEF RecoveryInv, PermitsAreSupported, Supported,
                          SnapshotCause
    <3> QED BY <3>1, <3>3, <3>4 DEF RecoveryInv
  <2>3. ASSUME NEW e \in Evaluators, Decide(e)
        PROVE  RecoveryInv'
    <3>1. UNCHANGED <<intent_generation, configuration_id, evaluation,
                      configuration, evaluated, evidence>>
      BY <2>3 DEF Decide, vars, retryVars, intentVars
    <3>2. ConfigurationOK'
      BY <3>1 DEF RecoveryInv, ConfigurationOK, ValidConfigurations
    <3>3. HeldOK'
      BY <2>3, <3>1 DEF Decide, RecoveryInv, HeldOK, ValidConfigurations
    <3>4. PermitsAreSupported'
      <4> SUFFICES ASSUME NEW f \in Evaluators, Permits(f)'
                   PROVE  Supported(f)'
        BY DEF PermitsAreSupported
      <4>1. Supported(f)
        <5>1. CASE f = e
          BY <2>3, <5>1, DecisionIsSupported
          DEF Decide, Permits, RecoveryInv, HeldOK
        <5>2. CASE f # e
          BY <2>3, <5>2 DEF Decide, Permits, RecoveryInv, HeldOK,
                            PermitsAreSupported
        <5> QED BY <5>1, <5>2
      <4> QED BY <3>1, <4>1 DEF Supported, SnapshotCause
    <3> QED BY <3>2, <3>3, <3>4 DEF RecoveryInv
  <2>4. CASE UNCHANGED evaluationVars
    BY <2>4, HeldUntouched DEF evaluationVars, vars, retryVars, intentVars
  <2> QED
    BY <2>1, <2>2, <2>3, <2>4, RetryStepsKeepHeld DEF EvaluationNext
<1> QED
  BY <1>1, <1>2, TypeCorrect, EvaluationImplementsRetryState, PTL
  DEF EvaluationSpec

-----------------------------------------------------------------------------
(* What a permit is worth.                                                 *)

\* No configuration, evidence or timing yields a permit without what the
\* decision table asks for.
THEOREM PermitsHaveEvidence == EvaluationSpec => []PermitHasItsEvidence
<1>1. RecoveryInv => PermitHasItsEvidence
  BY DEF RecoveryInv, PermitsAreSupported, Supported, PermitHasItsEvidence
<1> QED BY <1>1, RecoveryCorrect, PTL

\* A configuration under which an attempt remains requires a cooldown.
LEMMA BudgetRequiresDelay ==
  ASSUME NEW c \in ValidConfigurations, NEW s \in Snapshots,
         Policy!AttemptsRemain(c.definition, s.recovery_episode)
  PROVE  Policy!DelayRequired(c.definition)
<1>1. PICK d \in Definitions : Policy!IsValid(d) /\ c.definition = d
  BY DEF ValidConfigurations, Validated
<1>2. d.attempt_budget.maximum > 0
  BY <1>1, BudgetOfAccepted DEF Policy!AttemptsRemain, Snapshots, Episodes
<1>3. d.cooldown.kind = "Required"
  BY <1>1, <1>2 DEF Policy!IsValid, Policy!Enabled, Policy!DelaysAreBounded
<1> QED BY <1>1, <1>3 DEF Policy!DelayRequired, Policy!Disabled

\* What is true of the retry state while a permit is still current.
CurrentPermit(e) == Permits(e) /\ HoldsCurrentSnapshot(e)

\* What a permit that is current says of the retry state.
LEMMA CurrentPermitFacts ==
  ASSUME TypeOK, LifecycleInv, CurrentSnapshotIsExact, RecoveryInv,
         NEW e \in Evaluators, CurrentPermit(e)
  PROVE  /\ desired_running /\ cooldown.state = "Satisfied"
         /\ configuration_id = evaluated[e].identity
         /\ Policy!AttemptsRemain(evaluated[e].definition, recovery_episode)
<1>1. evaluation[e] = Snapshot
  BY DEF CurrentPermit, CurrentSnapshotIsExact
<1>2. Supported(e) /\ evaluated[e] \in ValidConfigurations
  BY DEF CurrentPermit, RecoveryInv, PermitsAreSupported, HeldOK, Permits
<1>3. Snapshot \in Snapshots
  BY SnapshotType
<1>4. /\ Snapshot.desired_running = desired_running
      /\ Snapshot.configuration_id = configuration_id
      /\ Snapshot.recovery_episode = recovery_episode
      /\ Snapshot.cooldown = cooldown
  BY DEF Snapshot
<1> QED
  BY <1>1, <1>2, <1>3, <1>4, BudgetRequiresDelay
  DEF Supported, Policy!CooldownComplete

\* A permit that is still current is one the retry state accepts: nothing that
\* the policy admits is refused, except by a counter at its limit.
THEOREM CurrentPermitsAreAccepted == EvaluationSpec => []PermittedRecoveryIsAccepted
<1>1. ASSUME TypeOK, LifecycleInv, AccountingInv, CurrentSnapshotIsExact, RecoveryInv
      PROVE  PermittedRecoveryIsAccepted
  <2> SUFFICES ASSUME NEW e \in Evaluators, CurrentPermit(e)
               PROVE  /\ desired_running /\ phase = "Waiting"
                      /\ ReadyForEvaluation(current_attempt)
                      /\ cooldown.state \in {"NotRequired", "Satisfied"}
                      /\ recovery_episode # None /\ recovery_episode.exhaustion = None
    BY DEF PermittedRecoveryIsAccepted, CurrentPermit
  <2>1. /\ desired_running /\ cooldown.state = "Satisfied"
        /\ Policy!AttemptsRemain(evaluated[e].definition, recovery_episode)
    BY <1>1, CurrentPermitFacts
  <2>2. phase \in {"Waiting", "Exhausted"}
    BY <1>1, <2>1 DEF LifecycleInv, CooldownBelongsToWaitingAttempt
  <2>3. current_attempt # None /\ ReadyForEvaluation(current_attempt)
    BY <1>1, <2>1, <2>2 DEF LifecycleInv, EvaluableIffEvidenceComplete
  <2>4. recovery_episode # None
    BY <1>1, <2>3 DEF AccountingInv, FailuresAccountForAttempts,
                      ReadyForEvaluation, TypeOK
  <2>5. recovery_episode.exhaustion = None
    BY <2>1, <2>4 DEF Policy!AttemptsRemain
  <2>6. phase # "Exhausted"
    BY <1>1, <2>5 DEF LifecycleInv, ExhaustionShows
  <2> QED BY <2>1, <2>2, <2>3, <2>4, <2>5, <2>6
<1> QED
  BY <1>1, EvaluationImplementsRetryState, TypeCorrect, LifecycleCorrect,
     AccountingCorrect, SnapshotBinding, RecoveryCorrect, PTL

\* The steps that commit an attempt within an intent.
LEMMA OnlyRecoveryFollows ==
  ASSUME TypeOK, LifecycleInv, EvaluationNext, current_attempt # None,
         attempts_started' = attempts_started + 1,
         intent_generation' = intent_generation
  PROVE  \E e \in Evaluators : Recover(e)
<1>1. ASSUME attempts_started' = attempts_started
      PROVE  FALSE
  BY <1>1 DEF TypeOK
<1>2. ASSUME NEW d \in Definitions, StartIntent(d)
      PROVE  FALSE
  BY <1>2 DEF StartIntent, ExplicitStart, TypeOK
<1>3. CASE RetryNext
  <2>1. CASE AttemptNext
    BY <1>1, <2>1 DEF AttemptNext, RecordOwnerCreated, RecordStreamStarted,
                RecordNormalCompletion, RecordFailure,
                RecordTerminalEventDelivered, RecordCleanupComplete
  <2>2. ASSUME NEW generation \in Generations,
               \/ ExplicitStop(generation)
               \/ \E marker \in Markers : SatisfyCooldown(generation, marker)
               \/ \E reset \in ResetEvidence :
                    AdvanceRecoveryEpisode(generation, reset)
        PROVE  FALSE
    BY <1>1, <2>2 DEF ExplicitStop, SatisfyCooldown, AdvanceRecoveryEpisode
  <2>3. ASSUME NEW generation \in Generations, CommitInitialAttempt(generation)
        PROVE  FALSE
    BY <2>3 DEF CommitInitialAttempt, LifecycleInv, IdleHasNoAttempt
  <2>4. ASSUME NEW e \in Evaluators,
               \/ \E marker \in Markers : RequireCooldown(e, marker)
               \/ \E reason \in ExhaustionReasons : MarkExhausted(e, reason)
        PROVE  FALSE
    BY <1>1, <2>4 DEF RequireCooldown, MarkExhausted
  <2> QED BY <1>3, <2>1, <2>2, <2>3, <2>4 DEF RetryNext
<1>4. ASSUME NEW e \in Evaluators, NEW optional \in OptionalEvidence,
             Observe(e, optional)
      PROVE  FALSE
  BY <1>1, <1>4 DEF Observe, TakeSnapshot, retryVars
<1>5. ASSUME NEW e \in Evaluators, Decide(e)
      PROVE  FALSE
  BY <1>1, <1>5 DEF Decide, vars, retryVars
<1> QED BY <1>2, <1>3, <1>4, <1>5 DEF EvaluationNext

\* An automatic attempt starts only past a cooldown that was required of the
\* attempt it replaces, whatever was decided when.
THEOREM CooldownBeforeRecovery == EvaluationSpec => RecoveryWaitsForCooldown
<1>1. ASSUME TypeOK, LifecycleInv, CurrentSnapshotIsExact, RecoveryInv,
             EvaluationNext, current_attempt # None,
             attempts_started' = attempts_started + 1,
             intent_generation' = intent_generation
      PROVE  /\ cooldown.state = "Satisfied"
             /\ cooldown.attempt_id = current_attempt.id
  <2>1. PICK e \in Evaluators : Recover(e)
    BY <1>1, OnlyRecoveryFollows
  <2>2. CurrentPermit(e)
    BY <2>1 DEF Recover, CommitRecoveryAttempt, CurrentPermit,
                HoldsCurrentSnapshot
  <2>3. cooldown.state = "Satisfied"
    BY <1>1, <2>2, CurrentPermitFacts
  <2> QED
    BY <1>1, <2>3 DEF LifecycleInv, CooldownBelongsToWaitingAttempt, AttemptId
<1>2. TypeOK /\ LifecycleInv /\ CurrentSnapshotIsExact /\ RecoveryInv
        /\ [EvaluationNext]_evaluationVars
      => [current_attempt # None /\ attempts_started' = attempts_started + 1
            /\ intent_generation' = intent_generation
          => /\ cooldown.state = "Satisfied"
             /\ cooldown.attempt_id = current_attempt.id]_evaluationVars
  BY <1>1
<1> QED
  BY <1>2, EvaluationImplementsRetryState, TypeCorrect, LifecycleCorrect,
     SnapshotBinding, RecoveryCorrect, PTL
  DEF EvaluationSpec, RecoveryWaitsForCooldown

-----------------------------------------------------------------------------
(* Identities.                                                             *)

\* recovery_config.rs, identity: whatever definitions there are, an evaluator that
\* holds the identity of the present configuration holds its definition.
THEOREM IdentitiesDistinguish == EvaluationSpec => []IdentityDistinguishes
<1>1. TypeOK /\ RecoveryInv => IdentityDistinguishes
  <2> SUFFICES ASSUME TypeOK, RecoveryInv, NEW e \in Evaluators, evaluated[e] # None,
                      evaluated[e].identity = configuration_id
               PROVE  evaluated[e].definition = configuration.definition
    BY DEF IdentityDistinguishes
  <2>1. evaluated[e] \in ValidConfigurations
    BY DEF RecoveryInv, HeldOK
  <2>2. evaluated[e].identity \in Configurations
    BY <2>1, DefinitionsAssumption DEF ValidConfigurations, Validated
  <2>3. configuration_id # None
    BY <2>2, NoneAssumption
  <2>4. configuration \in ValidConfigurations /\ configuration.identity = configuration_id
    BY <2>3 DEF RecoveryInv, ConfigurationOK
  <2>5. PICK c \in Definitions : Policy!IsValid(c) /\ configuration = Validated(c)
    BY <2>4 DEF ValidConfigurations
  <2>6. PICK d \in Definitions : Policy!IsValid(d) /\ evaluated[e] = Validated(d)
    BY <2>1 DEF ValidConfigurations
  <2>7. Policy!Identity(c) = Policy!Identity(d)
    BY <2>4, <2>5, <2>6 DEF Validated
  <2> QED BY <2>5, <2>6, <2>7, IdentityIsInjective DEF Validated
<1> QED
  BY <1>1, EvaluationImplementsRetryState, TypeCorrect, RecoveryCorrect, PTL

-----------------------------------------------------------------------------
(* The budget.                                                             *)

\* A validated configuration has a budget.
LEMMA BudgetType ==
  ASSUME NEW c \in ValidConfigurations
  PROVE  c.definition.attempt_budget.maximum \in Nat
BY BudgetOfAccepted DEF ValidConfigurations, Validated

\* What a step that leaves the configuration and the charges alone leaves.
LEMMA BudgetUntouched ==
  ASSUME BudgetIsRespected, UNCHANGED configuration,
         recovery_episode' # None =>
           /\ recovery_episode # None
           /\ recovery_episode'.automatic_recovery_attempts_started
                = recovery_episode.automatic_recovery_attempts_started
  PROVE  BudgetIsRespected'
BY DEF BudgetIsRespected

\* A step that opens an episode charges it nothing.
LEMMA BudgetOfNewEpisode ==
  ASSUME ConfigurationOK, intent_generation # 0, UNCHANGED configuration,
         recovery_episode'.automatic_recovery_attempts_started = 0
  PROVE  BudgetIsRespected'
BY BudgetType DEF BudgetIsRespected, ConfigurationOK

\* The methods of the retry state keep the budget: only a recovery is charged.
LEMMA RetryStepsKeepBudget ==
  ASSUME TypeOK, LifecycleInv, ConfigurationOK, BudgetIsRespected, RetryNext
  PROVE  BudgetIsRespected'
<1>0. UNCHANGED configuration
  BY DEF RetryNext
<1>1. ASSUME NEW id \in AttemptIds, NEW cause \in FailureClasses,
             RecordFailure(id, cause)
      PROVE  BudgetIsRespected'
  <2>1. intent_generation # 0
    BY <1>1 DEF RecordFailure, IsCurrentAttempt, LifecycleInv, AttemptIsLatest,
                AttemptIds
  <2>2. recovery_episode' = EpisodeForFailure
    BY <1>1 DEF RecordFailure
  <2>3. CASE recovery_episode # None
    BY <1>0, <2>2, <2>3, BudgetUntouched DEF EpisodeForFailure
  <2>4. CASE recovery_episode = None
    BY <1>0, <2>1, <2>2, <2>4, BudgetOfNewEpisode DEF EpisodeForFailure
  <2> QED BY <2>3, <2>4
<1>2. CASE AttemptNext
  BY <1>0, <1>1, <1>2, BudgetUntouched
  DEF AttemptNext, RecordOwnerCreated, RecordStreamStarted,
      RecordNormalCompletion, RecordTerminalEventDelivered, RecordCleanupComplete
<1>3. ASSUME NEW generation \in Generations,
             \/ ExplicitStop(generation)
             \/ CommitInitialAttempt(generation)
             \/ \E marker \in Markers : SatisfyCooldown(generation, marker)
      PROVE  BudgetIsRespected'
  BY <1>0, <1>3, BudgetUntouched
  DEF ExplicitStop, CommitInitialAttempt, SatisfyCooldown
<1>4. ASSUME NEW generation \in Generations, NEW reset \in ResetEvidence,
             AdvanceRecoveryEpisode(generation, reset)
      PROVE  BudgetIsRespected'
  BY <1>0, <1>4, BudgetOfNewEpisode DEF AdvanceRecoveryEpisode
<1>5. ASSUME NEW e \in Evaluators, NEW marker \in Markers,
             RequireCooldown(e, marker)
      PROVE  BudgetIsRespected'
  BY <1>0, <1>5, BudgetUntouched DEF RequireCooldown
<1>6. ASSUME NEW e \in Evaluators, NEW reason \in ExhaustionReasons,
             MarkExhausted(e, reason)
      PROVE  BudgetIsRespected'
  <2>1. /\ recovery_episode # None
        /\ recovery_episode'.automatic_recovery_attempts_started
             = recovery_episode.automatic_recovery_attempts_started
    BY <1>6 DEF MarkExhausted, TypeOK, Episodes
  <2> QED BY <1>0, <2>1, BudgetUntouched
<1> QED
  BY <1>2, <1>3, <1>4, <1>5, <1>6 DEF RetryNext

\* The automatic attempts of an episode stay within the budget of the configuration
\* its intent runs under: the identity of a configuration tells its definition,
\* so that the budget that was compared is the budget that holds.
THEOREM BudgetHolds == EvaluationSpec => []BudgetIsRespected
<1>1. EvaluationInit => BudgetIsRespected
  BY DEF EvaluationInit, Init, BudgetIsRespected
<1>2. TypeOK /\ LifecycleInv /\ CurrentSnapshotIsExact /\ RecoveryInv
        /\ IdentityDistinguishes /\ BudgetIsRespected
        /\ [EvaluationNext]_evaluationVars
      => BudgetIsRespected'
  <2> SUFFICES ASSUME TypeOK, LifecycleInv, CurrentSnapshotIsExact, RecoveryInv,
                      IdentityDistinguishes, BudgetIsRespected,
                      [EvaluationNext]_evaluationVars
               PROVE  BudgetIsRespected'
    OBVIOUS
  <2>1. ASSUME NEW d \in Definitions, StartIntent(d)
        PROVE  BudgetIsRespected'
    BY <2>1 DEF StartIntent, ExplicitStart, BudgetIsRespected
  <2>2. CASE RetryNext
    BY <2>2, RetryStepsKeepBudget DEF RecoveryInv
  <2>3. ASSUME NEW e \in Evaluators, Recover(e)
        PROVE  BudgetIsRespected'
    <3>1. CurrentPermit(e)
      BY <2>3 DEF Recover, CommitRecoveryAttempt, CurrentPermit,
                  HoldsCurrentSnapshot
    <3>2. /\ configuration_id = evaluated[e].identity
          /\ Policy!AttemptsRemain(evaluated[e].definition, recovery_episode)
      BY <3>1, CurrentPermitFacts
    <3>3. evaluated[e] # None /\ evaluated[e] \in ValidConfigurations
      BY <3>1 DEF CurrentPermit, Permits, RecoveryInv, HeldOK
    <3>4. evaluated[e].definition = configuration.definition
      BY <3>2, <3>3 DEF IdentityDistinguishes
    <3>5. configuration.definition.attempt_budget.maximum \in Nat
      BY <3>3, <3>4, BudgetType
    <3>6. /\ recovery_episode # None /\ recovery_episode \in Episodes
          /\ recovery_episode'.automatic_recovery_attempts_started
               = recovery_episode.automatic_recovery_attempts_started + 1
          /\ UNCHANGED configuration
      BY <2>3 DEF Recover, CommitRecoveryAttempt, TypeOK, Episodes
    <3>7. recovery_episode.automatic_recovery_attempts_started \in Nat
      BY <3>6 DEF Episodes
    <3> QED
      BY <3>2, <3>4, <3>5, <3>6, <3>7
      DEF Policy!AttemptsRemain, BudgetIsRespected
  <2>4. ASSUME \/ \E e \in Evaluators, optional \in OptionalEvidence :
                    Observe(e, optional)
               \/ \E e \in Evaluators : Decide(e)
               \/ UNCHANGED evaluationVars
        PROVE  BudgetIsRespected'
    BY <2>4, BudgetUntouched
    DEF Observe, TakeSnapshot, Decide, evaluationVars, vars, retryVars
  <2> QED BY <2>1, <2>2, <2>3, <2>4 DEF EvaluationNext
<1> QED
  BY <1>1, <1>2, EvaluationImplementsRetryState, TypeCorrect, LifecycleCorrect,
     SnapshotBinding, RecoveryCorrect,
     IdentitiesDistinguish, PTL
  DEF EvaluationSpec
=============================================================================
