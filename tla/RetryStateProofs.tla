-------------------------- MODULE RetryStateProofs --------------------------
(***************************************************************************)
(* Proofs about RetryState for every history capacity, counter maximum,    *)
(* number of evaluators and set of failure classes: its types, what a held *)
(* snapshot is worth, what the methods of the lifecycle may meet, and what *)
(* the counters and the bounded history say about the attempts.            *)
(***************************************************************************)
EXTENDS RetryState, TLAPS

\* push_back after pop_front keeps the history a bounded sequence of records.
LEMMA PushFailureType ==
  ASSUME NEW history \in Seq(FailureRecords), NEW record \in FailureRecords,
         Len(history) <= HistoryCapacity
  PROVE  /\ PushFailure(history, record) \in Seq(FailureRecords)
         /\ Len(PushFailure(history, record)) <= HistoryCapacity
<1>1. CASE Len(history) = HistoryCapacity
  <2>1. /\ Tail(history) \in Seq(FailureRecords)
        /\ Len(Tail(history)) = HistoryCapacity - 1
    BY <1>1, CapacityAssumption
  <2> QED BY <1>1, <2>1, CapacityAssumption DEF PushFailure
<1>2. CASE Len(history) # HistoryCapacity
  BY <1>2, CapacityAssumption DEF PushFailure
<1> QED BY <1>1, <1>2

\* The refresh only relabels the phase and the lifecycle of its arguments.
LEMMA RefreshType ==
  ASSUME NEW attempt \in AttemptStates, NEW newPhase \in Phases,
         RefreshPostFailurePhase(attempt, newPhase)
  PROVE  current_attempt' \in AttemptStates /\ phase' \in Phases
BY DEF RefreshPostFailurePhase, AttemptStates, Phases, Lifecycles

\* A refresh keeps the identity and the failure of the attempt it is applied to.
LEMMA RefreshKeepsAttempt ==
  ASSUME NEW attempt \in AttemptStates, NEW newPhase,
         RefreshPostFailurePhase(attempt, newPhase)
  PROVE  /\ current_attempt' \in AttemptStates
         /\ current_attempt'.id = attempt.id
         /\ current_attempt'.failure = attempt.failure
<1>1. CASE current_attempt' = attempt
  BY <1>1
<1>2. CASE current_attempt' = [attempt EXCEPT !.lifecycle = "CleanupComplete"]
  BY <1>2 DEF AttemptStates, Lifecycles
<1> QED BY <1>1, <1>2 DEF RefreshPostFailurePhase

\* What the methods that end an attempt keep of it.
LEMMA EndingKeepsAttempt ==
  ASSUME current_attempt \in AttemptStates, NEW id
  PROVE  /\ RecordTerminalEventDelivered(id) \/ RecordCleanupComplete(id) =>
              /\ current_attempt' \in AttemptStates
              /\ current_attempt'.id = current_attempt.id
              /\ current_attempt'.failure = current_attempt.failure
         /\ \A cause \in FailureClasses : RecordFailure(id, cause) =>
              /\ current_attempt' \in AttemptStates
              /\ current_attempt'.id = current_attempt.id
              /\ current_attempt'.failure = cause
<1>1. ASSUME RecordTerminalEventDelivered(id)
      PROVE  /\ current_attempt' \in AttemptStates
             /\ current_attempt'.id = current_attempt.id
             /\ current_attempt'.failure = current_attempt.failure
  <2>1. PICK attempt :
          attempt = [current_attempt EXCEPT !.terminal_event_delivered = TRUE]
    OBVIOUS
  <2>2. /\ attempt \in AttemptStates /\ attempt.id = current_attempt.id
        /\ attempt.failure = current_attempt.failure
    BY <2>1 DEF AttemptStates
  <2>3. RefreshPostFailurePhase(attempt, phase)
    BY <1>1, <2>1 DEF RecordTerminalEventDelivered
  <2> QED BY <2>2, <2>3, RefreshKeepsAttempt
<1>2. ASSUME RecordCleanupComplete(id)
      PROVE  /\ current_attempt' \in AttemptStates
             /\ current_attempt'.id = current_attempt.id
             /\ current_attempt'.failure = current_attempt.failure
  <2>1. PICK lifecycle \in Lifecycles :
          lifecycle = IF CleanupEndsAttempt(current_attempt) THEN "CleanupComplete"
                      ELSE current_attempt.lifecycle
    BY DEF AttemptStates, Lifecycles
  <2>2. PICK attempt :
          attempt = [current_attempt EXCEPT !.resources_released = TRUE,
                                            !.lifecycle = lifecycle]
    OBVIOUS
  <2>3. /\ attempt \in AttemptStates /\ attempt.id = current_attempt.id
        /\ attempt.failure = current_attempt.failure
    BY <2>2 DEF AttemptStates
  <2>4. RefreshPostFailurePhase(attempt, phase)
    BY <1>2, <2>1, <2>2 DEF RecordCleanupComplete
  <2> QED BY <2>3, <2>4, RefreshKeepsAttempt
<1>3. ASSUME NEW cause \in FailureClasses, RecordFailure(id, cause)
      PROVE  /\ current_attempt' \in AttemptStates
             /\ current_attempt'.id = current_attempt.id
             /\ current_attempt'.failure = cause
  <2>1. PICK attempt :
          attempt = [current_attempt EXCEPT !.failure = cause, !.lifecycle = "Failed"]
    OBVIOUS
  <2>2. /\ attempt \in AttemptStates /\ attempt.id = current_attempt.id
        /\ attempt.failure = cause
    BY <2>1 DEF AttemptStates, Lifecycles
  <2>3. PICK newPhase : RefreshPostFailurePhase(attempt, newPhase)
    BY <1>3, <2>1 DEF RecordFailure
  <2> QED BY <2>2, <2>3, RefreshKeepsAttempt
<1> QED BY <1>1, <1>2, <1>3

\* The episode a failure is charged to exists or is the first of its generation.
LEMMA EpisodeForFailureType ==
  ASSUME TypeOK
  PROVE  EpisodeForFailure \in Episodes
BY NoneAssumption DEF EpisodeForFailure, TypeOK, Episodes, Ids

\* A snapshot of a well-typed state is a well-typed snapshot.
LEMMA SnapshotType ==
  ASSUME TypeOK
  PROVE  Snapshot \in Snapshots
BY DEF TypeOK, Snapshot, Snapshots

-----------------------------------------------------------------------------
(* Type correctness.  TypeOK is split into the groups of variables a method *)
(* leaves alone together, so that each method only argues about the ones it *)
(* writes.                                                                  *)

IntentTypeOK ==
  /\ intent_generation \in Nat
  /\ configuration_id \in Configurations \cup {None}
  /\ desired_running \in BOOLEAN

FailureTypeOK ==
  /\ last_failure \in FailureRecords \cup {None}
  /\ recent_failures \in Seq(FailureRecords)
  /\ Len(recent_failures) <= HistoryCapacity
  /\ failure_totals \in [FailureClasses -> Nat]
  /\ total_failures \in Nat
  /\ consecutive_failed_attempts \in Nat

AttemptTypeOK ==
  /\ phase \in Phases
  /\ attempts_started \in Nat
  /\ current_attempt \in AttemptStates \cup {None}

EvaluationTypeOK == evaluation \in [Evaluators -> Snapshots \cup {None}]

OtherTypeOK ==
  /\ state_revision \in Nat
  /\ recovery_episode \in Episodes \cup {None}
  /\ cooldown \in CooldownStates

\* The groups together are TypeOK, before and after a step.
LEMMA TypeOKParts ==
  /\ TypeOK  <=> /\ IntentTypeOK /\ FailureTypeOK /\ AttemptTypeOK
                 /\ EvaluationTypeOK /\ OtherTypeOK
  /\ TypeOK' <=> /\ IntentTypeOK' /\ FailureTypeOK' /\ AttemptTypeOK'
                 /\ EvaluationTypeOK' /\ OtherTypeOK'
BY DEF TypeOK, IntentTypeOK, FailureTypeOK, AttemptTypeOK, EvaluationTypeOK,
       OtherTypeOK

\* A group whose variables a method leaves alone keeps its types.
LEMMA UnchangedTypes ==
  /\ IntentTypeOK /\ UNCHANGED intentVars => IntentTypeOK'
  /\ FailureTypeOK /\ UNCHANGED failureVars => FailureTypeOK'
  /\ EvaluationTypeOK /\ UNCHANGED evaluation => EvaluationTypeOK'
BY DEF IntentTypeOK, intentVars, FailureTypeOK, failureVars, EvaluationTypeOK

\* Consuming a revision leaves a revision.
LEMMA NextRevisionType ==
  state_revision \in Nat /\ NextRevision => state_revision' \in Nat
BY DEF NextRevision

\* A cooldown that is not required is a cooldown.
LEMMA NotRequiredType == NotRequired \in CooldownStates
BY DEF NotRequired, CooldownStates

\* Explicit start and explicit stop preserve the types.
LEMMA IntentTypes ==
  ASSUME TypeOK,
         \/ \E configuration \in Configurations : ExplicitStart(configuration)
         \/ \E generation \in Generations : ExplicitStop(generation)
  PROVE  TypeOK'
<1>1. ASSUME NEW configuration \in Configurations,
             ExplicitStart(configuration)
      PROVE  TypeOK'
  <2>1. IntentTypeOK' /\ AttemptTypeOK'
    BY <1>1, TypeOKParts
    DEF ExplicitStart, IntentTypeOK, AttemptTypeOK, Phases
  <2>2. FailureTypeOK'
    BY <1>1, CapacityAssumption DEF ExplicitStart, FailureTypeOK
  <2> QED
    BY <1>1, <2>1, <2>2, TypeOKParts, UnchangedTypes, NotRequiredType
    DEF ExplicitStart, OtherTypeOK
<1>2. ASSUME NEW generation \in Generations, ExplicitStop(generation)
      PROVE  TypeOK'
  <2>1. cooldown' \in CooldownStates
    BY <1>2 DEF TypeOK, ExplicitStop, CooldownStates
  <2>2. IntentTypeOK' /\ AttemptTypeOK'
    BY <1>2, TypeOKParts
    DEF ExplicitStop, IntentTypeOK, AttemptTypeOK, Phases
  <2> QED
    BY <1>2, <2>1, <2>2, TypeOKParts, UnchangedTypes, NextRevisionType
    DEF ExplicitStop, OtherTypeOK
<1> QED BY <1>1, <1>2

\* Committing an attempt of either kind preserves the types.
LEMMA CommitTypes ==
  ASSUME TypeOK, NEW kind \in Kinds, CommitAttempt(kind),
         recovery_episode' \in Episodes \cup {None}
  PROVE  TypeOK'
<1>1. current_attempt' \in AttemptStates
  BY DEF TypeOK, CommitAttempt, AttemptStates, Lifecycles, Ids
<1>2. AttemptTypeOK'
  BY <1>1 DEF TypeOK, CommitAttempt, AttemptTypeOK, Phases
<1> QED
  BY <1>2, TypeOKParts, UnchangedTypes, NextRevisionType, NotRequiredType
  DEF CommitAttempt, OtherTypeOK

\* The methods that write the current attempt and nothing typed otherwise.
LEMMA AttemptWriteTypes ==
  ASSUME TypeOK, NextRevision,
         current_attempt' \in AttemptStates, phase' \in Phases,
         UNCHANGED <<intentVars, failureVars, attempts_started,
                     recovery_episode, cooldown, evaluation>>
  PROVE  TypeOK'
<1>1. AttemptTypeOK'
  BY DEF AttemptTypeOK, TypeOK
<1> QED
  BY <1>1, TypeOKParts, UnchangedTypes, NextRevisionType DEF OtherTypeOK

\* Recording a failure preserves the types, the bounded history included.
LEMMA FailureTypes ==
  ASSUME TypeOK, NEW id \in AttemptIds, NEW cause \in FailureClasses,
         RecordFailure(id, cause)
  PROVE  TypeOK'
<1> DEFINE record == [attempt_id |-> id,
                      recovery_episode |-> EpisodeForFailure.id,
                      cause |-> cause,
                      stream_started |-> current_attempt.stream_started]
           failed == [current_attempt EXCEPT !.failure = cause,
                                             !.lifecycle = "Failed"]
           newPhase == IF desired_running THEN "Failed" ELSE phase
<1>1. EpisodeForFailure \in Episodes
  BY EpisodeForFailureType
<1>2. current_attempt \in AttemptStates /\ current_attempt.id = id
  BY DEF RecordFailure, IsCurrentAttempt, TypeOK
<1>3. record \in FailureRecords
  BY <1>1, <1>2 DEF FailureRecords, AttemptStates, Episodes
<1>4. /\ recent_failures' = PushFailure(recent_failures, record)
      /\ last_failure' = record
  BY DEF RecordFailure
<1>5. /\ recent_failures' \in Seq(FailureRecords)
      /\ Len(recent_failures') <= HistoryCapacity
  <2>1. recent_failures \in Seq(FailureRecords)
        /\ Len(recent_failures) <= HistoryCapacity
    BY DEF TypeOK
  <2> HIDE DEF record
  <2> QED BY <1>3, <1>4, <2>1, PushFailureType
<1>6. FailureTypeOK'
  <2>1. /\ failure_totals' \in [FailureClasses -> Nat]
        /\ total_failures' \in Nat /\ consecutive_failed_attempts' \in Nat
    BY DEF RecordFailure, TypeOK
  <2> HIDE DEF record
  <2> QED BY <1>3, <1>4, <1>5, <2>1 DEF FailureTypeOK
<1>7. current_attempt' \in AttemptStates /\ phase' \in Phases
  <2>1. failed \in AttemptStates /\ newPhase \in Phases
    BY <1>2 DEF AttemptStates, Lifecycles, Phases, TypeOK
  <2>2. RefreshPostFailurePhase(failed, newPhase)
    BY DEF RecordFailure
  <2> HIDE DEF failed, newPhase
  <2> QED BY <2>1, <2>2, RefreshType
<1>8. AttemptTypeOK'
  BY <1>7 DEF AttemptTypeOK, TypeOK, RecordFailure
<1> QED
  BY <1>1, <1>6, <1>8, TypeOKParts, UnchangedTypes, NextRevisionType
  DEF RecordFailure, OtherTypeOK

\* Every method that records evidence for an attempt preserves the types.
LEMMA AttemptTypes ==
  ASSUME TypeOK, NEW id \in AttemptIds,
         \/ RecordOwnerCreated(id)
         \/ RecordStreamStarted(id)
         \/ RecordNormalCompletion(id)
         \/ \E cause \in FailureClasses : RecordFailure(id, cause)
         \/ RecordTerminalEventDelivered(id)
         \/ RecordCleanupComplete(id)
  PROVE  TypeOK'
<1>0. /\ IsCurrentAttempt(id) => current_attempt \in AttemptStates
      /\ phase \in Phases
  BY DEF TypeOK, IsCurrentAttempt
<1>1. CASE RecordOwnerCreated(id)
  <2>1. current_attempt' \in AttemptStates
    BY <1>0, <1>1 DEF RecordOwnerCreated, AttemptStates, Lifecycles
  <2> QED BY <1>0, <1>1, <2>1, AttemptWriteTypes DEF RecordOwnerCreated
<1>2. CASE RecordStreamStarted(id)
  <2>1. current_attempt' \in AttemptStates /\ phase' \in Phases
    BY <1>0, <1>2 DEF RecordStreamStarted, AttemptStates, Lifecycles, Phases
  <2> QED BY <1>2, <2>1, AttemptWriteTypes DEF RecordStreamStarted
<1>3. CASE RecordNormalCompletion(id)
  <2>1. current_attempt' \in AttemptStates
    BY <1>0, <1>3 DEF RecordNormalCompletion, AttemptStates, Lifecycles
  <2> QED BY <1>0, <1>3, <2>1, AttemptWriteTypes DEF RecordNormalCompletion
<1>4. CASE \E cause \in FailureClasses : RecordFailure(id, cause)
  BY <1>4, FailureTypes
<1>5. CASE RecordTerminalEventDelivered(id)
  <2> DEFINE told == [current_attempt EXCEPT !.terminal_event_delivered = TRUE]
  <2>1. told \in AttemptStates /\ RefreshPostFailurePhase(told, phase)
    BY <1>0, <1>5 DEF RecordTerminalEventDelivered, AttemptStates
  <2> HIDE DEF told
  <2>2. current_attempt' \in AttemptStates /\ phase' \in Phases
    BY <1>0, <2>1, RefreshType
  <2> QED BY <1>5, <2>2, AttemptWriteTypes DEF RecordTerminalEventDelivered
<1>6. CASE RecordCleanupComplete(id)
  <2> DEFINE cleaned ==
        [current_attempt EXCEPT
           !.resources_released = TRUE,
           !.lifecycle = IF CleanupEndsAttempt(current_attempt)
                         THEN "CleanupComplete" ELSE @]
  <2>1. cleaned \in AttemptStates /\ RefreshPostFailurePhase(cleaned, phase)
    BY <1>0, <1>6 DEF RecordCleanupComplete, AttemptStates, Lifecycles
  <2> HIDE DEF cleaned
  <2>2. current_attempt' \in AttemptStates /\ phase' \in Phases
    BY <1>0, <2>1, RefreshType
  <2> QED BY <1>6, <2>2, AttemptWriteTypes DEF RecordCleanupComplete
<1> QED BY <1>1, <1>2, <1>3, <1>4, <1>5, <1>6

\* The methods that write the cooldown or the episode but not the attempt.
LEMMA EpisodeTypes ==
  ASSUME TypeOK,
         \/ \E e \in Evaluators, marker \in Markers : RequireCooldown(e, marker)
         \/ \E generation \in Generations, marker \in Markers :
              SatisfyCooldown(generation, marker)
         \/ \E e \in Evaluators, reason \in ExhaustionReasons :
              MarkExhausted(e, reason)
         \/ \E generation \in Generations, evidence \in ResetEvidence :
              AdvanceRecoveryEpisode(generation, evidence)
  PROVE  TypeOK'
<1>1. ASSUME NEW e \in Evaluators, NEW marker \in Markers,
             RequireCooldown(e, marker)
      PROVE  TypeOK'
  <2>1. cooldown' \in CooldownStates
    BY <1>1 DEF RequireCooldown, CooldownStates, AttemptStates, TypeOK
  <2>2. AttemptTypeOK'
    BY <1>1 DEF RequireCooldown, AttemptTypeOK, TypeOK
  <2> QED
    BY <1>1, <2>1, <2>2, TypeOKParts, UnchangedTypes, NextRevisionType
    DEF RequireCooldown, OtherTypeOK
<1>2. ASSUME NEW generation \in Generations, NEW marker \in Markers,
             SatisfyCooldown(generation, marker)
      PROVE  TypeOK'
  <2>1. cooldown' \in CooldownStates
    BY <1>2 DEF SatisfyCooldown, CooldownStates, TypeOK
  <2>2. AttemptTypeOK'
    BY <1>2 DEF SatisfyCooldown, AttemptTypeOK, TypeOK
  <2> QED
    BY <1>2, <2>1, <2>2, TypeOKParts, UnchangedTypes, NextRevisionType
    DEF SatisfyCooldown, OtherTypeOK
<1>3. ASSUME NEW e \in Evaluators, NEW reason \in ExhaustionReasons,
             MarkExhausted(e, reason)
      PROVE  TypeOK'
  <2>1. /\ recovery_episode \in Episodes /\ current_attempt \in AttemptStates
        /\ evaluation[e] \in Snapshots
        /\ configuration_id \in Configurations
    BY <1>3 DEF MarkExhausted, TypeOK
  <2>2. recovery_episode' \in Episodes
    BY <1>3, <2>1
    DEF MarkExhausted, Episodes, ExhaustionRecords, AttemptStates, Snapshots
  <2>3. AttemptTypeOK'
    BY <1>3 DEF MarkExhausted, AttemptTypeOK, TypeOK, Phases
  <2> QED
    BY <1>3, <2>2, <2>3, TypeOKParts, UnchangedTypes, NextRevisionType
    DEF MarkExhausted, OtherTypeOK
<1>4. ASSUME NEW generation \in Generations, NEW evidence \in ResetEvidence,
             AdvanceRecoveryEpisode(generation, evidence)
      PROVE  TypeOK'
  <2>1. recovery_episode \in Episodes /\ generation \in Nat
    BY <1>4 DEF AdvanceRecoveryEpisode, TypeOK
  <2>2. recovery_episode' \in Episodes
    BY <1>4, <2>1 DEF AdvanceRecoveryEpisode, Episodes, Ids
  <2>3. AttemptTypeOK' /\ FailureTypeOK'
    BY <1>4
    DEF AdvanceRecoveryEpisode, AttemptTypeOK, FailureTypeOK, TypeOK, Phases
  <2> QED
    BY <1>4, <2>2, <2>3, TypeOKParts, UnchangedTypes, NextRevisionType,
       NotRequiredType
    DEF AdvanceRecoveryEpisode, OtherTypeOK
<1> QED BY <1>1, <1>2, <1>3, <1>4

\* Taking a snapshot, and committing a recovery attempt from one, preserve the types.
LEMMA SnapshotTypes ==
  ASSUME TypeOK, NEW e \in Evaluators,
         TakeSnapshot(e) \/ CommitRecoveryAttempt(e)
  PROVE  TypeOK'
<1>1. CASE TakeSnapshot(e)
  <2>1. evaluation' \in [Evaluators -> Snapshots \cup {None}]
    BY <1>1, SnapshotType DEF TakeSnapshot, TypeOK
  <2> QED
    BY <1>1, <2>1
    DEF TakeSnapshot, TypeOK, retryVars, intentVars, failureVars
<1>2. CASE CommitRecoveryAttempt(e)
  <2>1. recovery_episode \in Episodes
    BY <1>2 DEF CommitRecoveryAttempt, TypeOK
  <2>2. recovery_episode' \in Episodes
    BY <1>2, <2>1 DEF CommitRecoveryAttempt, Episodes
  <2> QED
    BY <1>2, <2>2, CommitTypes DEF CommitRecoveryAttempt, Kinds
<1> QED BY <1>1, <1>2

\* The types hold at the beginning.
LEMMA TypesBegin == Init => TypeOK
<1> SUFFICES ASSUME Init PROVE TypeOK
  OBVIOUS
<1>1. FailureTypeOK
  BY CapacityAssumption DEF Init, FailureTypeOK
<1>2. IntentTypeOK /\ AttemptTypeOK /\ EvaluationTypeOK
  BY DEF Init, IntentTypeOK, AttemptTypeOK, EvaluationTypeOK, Phases
<1> QED
  BY <1>1, <1>2, TypeOKParts, NotRequiredType DEF Init, OtherTypeOK

\* Every step keeps the types.
LEMMA TypesStay == TypeOK /\ [Next]_vars => TypeOK'
<1> SUFFICES ASSUME TypeOK, [Next]_vars PROVE TypeOK'
  OBVIOUS
<1>1. CASE AttemptNext
  BY <1>1, AttemptTypes DEF AttemptNext
<1>2. CASE IntentNext
  <2>1. ASSUME NEW generation \in Generations,
               CommitInitialAttempt(generation)
        PROVE  TypeOK'
    BY <2>1, CommitTypes DEF CommitInitialAttempt, Kinds, TypeOK
  <2> QED BY <1>2, <2>1, IntentTypes, EpisodeTypes DEF IntentNext
<1>3. CASE EvaluatorNext
  BY <1>3, SnapshotTypes, EpisodeTypes DEF EvaluatorNext
<1>4. CASE UNCHANGED vars
  BY <1>4, TypeOKParts, UnchangedTypes
  DEF vars, retryVars, AttemptTypeOK, OtherTypeOK
<1> QED BY <1>1, <1>2, <1>3, <1>4 DEF Next

\* The retry state has its declared types whatever its callers do, stale and
\* replayed calls included.
THEOREM TypeCorrect == Spec => []TypeOK
BY TypesBegin, TypesStay, PTL DEF Spec

-----------------------------------------------------------------------------
(* The binding of snapshots.  The inductive invariant orders every held     *)
(* snapshot before the present: no snapshot is of a later generation, none  *)
(* of this generation has a later revision, and one with this generation    *)
(* and revision is the present state.  It is inductive because every method *)
(* that writes the retry state either consumes a revision or opens a        *)
(* generation.                                                              *)

SnapshotNotAhead(s) ==
  /\ s.intent_generation <= intent_generation
  /\ s.intent_generation = intent_generation =>
       /\ s.state_revision <= state_revision
       /\ s.state_revision = state_revision => s = Snapshot

SnapshotsNotAhead ==
  \A e \in Evaluators : evaluation[e] # None => SnapshotNotAhead(evaluation[e])

\* A step of the retry state that moves the clock of snapshots.
ClockAdvances ==
  \/ intent_generation' = intent_generation /\ state_revision' = state_revision + 1
  \/ intent_generation' = intent_generation + 1

\* Every accepted method consumes one revision or opens a generation; only
\* taking a snapshot does not, and it changes nothing else.
LEMMA EveryMethodAdvancesClock ==
  ASSUME TypeOK, Next
  PROVE  \/ ClockAdvances /\ UNCHANGED evaluation
         \/ \E e \in Evaluators : TakeSnapshot(e)
<1> USE DEF ClockAdvances, NextRevision, intentVars
<1>1. CASE AttemptNext
  <2>1. PICK id \in AttemptIds :
          \/ RecordOwnerCreated(id)
          \/ RecordStreamStarted(id)
          \/ RecordNormalCompletion(id)
          \/ \E cause \in FailureClasses : RecordFailure(id, cause)
          \/ RecordTerminalEventDelivered(id)
          \/ RecordCleanupComplete(id)
    BY <1>1 DEF AttemptNext
  <2> QED
    BY <2>1 DEF RecordOwnerCreated, RecordStreamStarted, RecordNormalCompletion,
                RecordFailure, RecordTerminalEventDelivered,
                RecordCleanupComplete
<1>2. CASE IntentNext
  BY <1>2 DEF IntentNext, ExplicitStart, ExplicitStop, CommitInitialAttempt,
              CommitAttempt, SatisfyCooldown, AdvanceRecoveryEpisode
<1>3. CASE EvaluatorNext
  BY <1>3 DEF EvaluatorNext, CommitRecoveryAttempt, CommitAttempt,
              RequireCooldown, MarkExhausted
<1> QED BY <1>1, <1>2, <1>3 DEF Next

\* No step lets a held snapshot get ahead of the retry state.
LEMMA SnapshotsStayBehind ==
  ASSUME TypeOK, SnapshotsNotAhead, [Next]_vars
  PROVE  SnapshotsNotAhead'
<1> SUFFICES ASSUME NEW e \in Evaluators, evaluation'[e] # None
             PROVE  SnapshotNotAhead(evaluation[e])'
  BY DEF SnapshotsNotAhead
<1>1. intent_generation \in Nat /\ state_revision \in Nat
  BY DEF TypeOK
<1>2. CASE ClockAdvances /\ UNCHANGED evaluation
  <2>1. /\ SnapshotNotAhead(evaluation[e]) /\ evaluation'[e] = evaluation[e]
        /\ evaluation[e] \in Snapshots
    BY <1>2 DEF SnapshotsNotAhead, TypeOK
  <2>2. /\ evaluation[e].intent_generation \in Nat
        /\ evaluation[e].state_revision \in Nat
    BY <2>1 DEF Snapshots
  <2> QED
    BY <1>1, <1>2, <2>1, <2>2 DEF ClockAdvances, SnapshotNotAhead
<1>3. ASSUME NEW f \in Evaluators, TakeSnapshot(f)
      PROVE  SnapshotNotAhead(evaluation[e])'
  <2>1. Snapshot' = Snapshot /\ intent_generation' = intent_generation
        /\ state_revision' = state_revision
    BY <1>3 DEF TakeSnapshot, Snapshot, retryVars, intentVars, failureVars
  <2>2. CASE e = f
    <3>1. evaluation'[e] = Snapshot
      BY <1>3, <2>2 DEF TakeSnapshot, TypeOK
    <3>2. /\ Snapshot.intent_generation = intent_generation
          /\ Snapshot.state_revision = state_revision
      BY DEF Snapshot
    <3> QED BY <1>1, <2>1, <3>1, <3>2 DEF SnapshotNotAhead
  <2>3. CASE e # f
    <3>1. evaluation'[e] = evaluation[e]
      BY <1>3, <2>3 DEF TakeSnapshot, TypeOK
    <3>2. SnapshotNotAhead(evaluation[e])
      BY <3>1 DEF SnapshotsNotAhead
    <3> QED BY <2>1, <3>1, <3>2 DEF SnapshotNotAhead
  <2> QED BY <2>2, <2>3
<1>4. CASE UNCHANGED vars
  <2>1. Snapshot' = Snapshot /\ intent_generation' = intent_generation
        /\ state_revision' = state_revision /\ evaluation' = evaluation
    BY <1>4 DEF vars, Snapshot, retryVars, intentVars, failureVars
  <2>2. SnapshotNotAhead(evaluation[e])
    BY <2>1 DEF SnapshotsNotAhead
  <2> QED BY <2>1, <2>2 DEF SnapshotNotAhead
<1> QED BY <1>2, <1>3, <1>4, EveryMethodAdvancesClock

\* SnapshotsNotAhead is an invariant.
LEMMA SnapshotsBehind == Spec => []SnapshotsNotAhead
<1>1. Init => SnapshotsNotAhead
  BY DEF Init, SnapshotsNotAhead
<1>2. TypeOK /\ SnapshotsNotAhead /\ [Next]_vars => SnapshotsNotAhead'
  BY SnapshotsStayBehind
<1> QED BY <1>1, <1>2, TypeCorrect, PTL DEF Spec

\* A decision can only be applied to the very state it was evaluated in: a held
\* snapshot that passes require_current_snapshot equals the retry state.
THEOREM SnapshotBinding == Spec => []CurrentSnapshotIsExact
<1>1. SnapshotsNotAhead => CurrentSnapshotIsExact
  BY DEF SnapshotsNotAhead, SnapshotNotAhead, CurrentSnapshotIsExact,
         HoldsCurrentSnapshot, IsCurrentSnapshot
<1> QED BY <1>1, SnapshotsBehind, PTL

\* A stale evaluation stays stale: no sequence of stops, restarts, retries and
\* resets makes an old authorization current again.
THEOREM StalenessIsPermanent == Spec => StaleSnapshotNeverRevives
<1>1. ASSUME TypeOK, TypeOK', SnapshotsNotAhead, [Next]_vars,
             NEW e \in Evaluators,
             evaluation'[e] = evaluation[e], ~HoldsCurrentSnapshot(e)
      PROVE  ~HoldsCurrentSnapshot(e)'
  <2> SUFFICES ASSUME HoldsCurrentSnapshot(e)' PROVE FALSE
    OBVIOUS
  <2> DEFINE s == evaluation[e]
  <2>1. /\ s # None /\ s \in Snapshots /\ SnapshotNotAhead(s)
        /\ s.intent_generation = intent_generation'
        /\ s.state_revision = state_revision'
        /\ intent_generation' # 0
    BY <1>1 DEF HoldsCurrentSnapshot, IsCurrentSnapshot, SnapshotsNotAhead,
                TypeOK
  <2>2. /\ s.intent_generation \in Nat /\ s.state_revision \in Nat
        /\ intent_generation \in Nat /\ state_revision \in Nat
    BY <1>1, <2>1 DEF Snapshots, TypeOK
  <2>3. ~ClockAdvances
    BY <2>1, <2>2 DEF ClockAdvances, SnapshotNotAhead
  <2>4. UNCHANGED retryVars
    BY <1>1, <2>3, EveryMethodAdvancesClock DEF TakeSnapshot, vars
  <2>5. IsCurrentSnapshot(s)
    BY <1>1, <2>4 DEF HoldsCurrentSnapshot, IsCurrentSnapshot, retryVars,
                      intentVars, EpisodeId, AttemptId
  <2> QED BY <1>1, <2>1, <2>5 DEF HoldsCurrentSnapshot
<1>2. TypeOK /\ TypeOK' /\ SnapshotsNotAhead /\ [Next]_vars
        => [\A e \in Evaluators :
              evaluation'[e] = evaluation[e] /\ ~HoldsCurrentSnapshot(e)
                => ~HoldsCurrentSnapshot(e)']_vars
  BY <1>1
<1> QED
  BY <1>2, TypeCorrect, SnapshotsBehind, PTL DEF Spec, StaleSnapshotNeverRevives

-----------------------------------------------------------------------------
(* The inductive invariant of the lifecycle.  Its parts are proved         *)
(* together: when a failed attempt may be evaluated decides which methods  *)
(* a cooldown or an exhausted episode can meet, and what an attempt is     *)
(* decides when it may be evaluated.                                       *)

\* The present attempt is the latest of its generation, and its failure ended
\* what its owner may still report.
AttemptIsLatest ==
  current_attempt # None =>
    /\ current_attempt.id = <<intent_generation, attempts_started>>
    /\ current_attempt.failure # None =>
         current_attempt.lifecycle \in {"Failed", "CleanupComplete"}

IdleHasNoAttempt == phase = "Idle" => current_attempt = None

\* The phase of a live intent shows whether its episode is marked exhausted.
ExhaustionShows ==
  LET marked == recovery_episode # None /\ recovery_episode.exhaustion # None
  IN  /\ desired_running /\ marked => phase = "Exhausted"
      /\ phase = "Exhausted" => marked

LifecycleInv ==
  /\ AttemptIsLatest
  /\ IdleHasNoAttempt
  /\ ExhaustionShows
  /\ StoppedIffIntentAbsent
  /\ EvaluableIffEvidenceComplete
  /\ CooldownBelongsToWaitingAttempt

\* A refresh of an attempt that keeps its identity, after evidence was added
\* to it and the phase left alone, preserves the invariant.
LEMMA RefreshKeepsLifecycle ==
  ASSUME TypeOK, LifecycleInv, current_attempt # None,
         NEW attempt \in AttemptStates,
         attempt.id = current_attempt.id,
         attempt.failure = current_attempt.failure,
         ReadyForEvaluation(current_attempt) => ReadyForEvaluation(attempt),
         attempt.failure # None =>
           attempt.lifecycle \in {"Failed", "CleanupComplete"},
         RefreshPostFailurePhase(attempt, phase),
         UNCHANGED <<intentVars, attempts_started, recovery_episode, cooldown>>
  PROVE  LifecycleInv'
<1> USE DEF LifecycleInv, intentVars
<1>1. /\ current_attempt' \in AttemptStates
      /\ current_attempt'.id = current_attempt.id
      /\ current_attempt'.failure = attempt.failure
      /\ ReadyForEvaluation(current_attempt') <=> ReadyForEvaluation(attempt)
      /\ attempt.failure # None =>
           current_attempt'.lifecycle \in {"Failed", "CleanupComplete"}
  BY DEF RefreshPostFailurePhase, AttemptStates, ReadyForEvaluation, Lifecycles
<1>2. current_attempt' # None
  BY <1>1, NoneAssumption
<1>3. /\ phase' \in {"Waiting", phase}
      /\ phase' # phase =>
           desired_running /\ phase # "Exhausted" /\ ReadyForEvaluation(attempt)
      /\ desired_running /\ phase # "Exhausted" /\ ReadyForEvaluation(attempt)
           => phase' = "Waiting"
  BY DEF RefreshPostFailurePhase
<1>4. phase # "Idle"
  BY DEF IdleHasNoAttempt
<1>5. AttemptIsLatest' /\ IdleHasNoAttempt' /\ ExhaustionShows'
  BY <1>1, <1>3, <1>4 DEF AttemptIsLatest, IdleHasNoAttempt, ExhaustionShows
<1>6. StoppedIffIntentAbsent' /\ EvaluableIffEvidenceComplete'
  BY <1>1, <1>2, <1>3 DEF StoppedIffIntentAbsent, EvaluableIffEvidenceComplete
<1>7. CooldownBelongsToWaitingAttempt'
  BY <1>1, <1>2, <1>3 DEF CooldownBelongsToWaitingAttempt, AttemptId
<1> QED BY <1>5, <1>6, <1>7

\* A committed attempt of either kind.
LEMMA CommitKeepsLifecycle ==
  ASSUME TypeOK, LifecycleInv, NEW kind \in Kinds, CommitAttempt(kind),
         desired_running,
         recovery_episode' # None => recovery_episode'.exhaustion = None
  PROVE  LifecycleInv'
BY DEF LifecycleInv, CommitAttempt, intentVars, AttemptIsLatest, IdleHasNoAttempt,
       ExhaustionShows, StoppedIffIntentAbsent, EvaluableIffEvidenceComplete,
       ReadyForEvaluation, CooldownBelongsToWaitingAttempt, NotRequired

\* Every method that records evidence for an attempt.
LEMMA AttemptKeepsLifecycle ==
  ASSUME TypeOK, LifecycleInv, NEW id \in AttemptIds,
         \/ RecordOwnerCreated(id)
         \/ RecordStreamStarted(id)
         \/ RecordNormalCompletion(id)
         \/ \E cause \in FailureClasses : RecordFailure(id, cause)
         \/ RecordTerminalEventDelivered(id)
         \/ RecordCleanupComplete(id)
  PROVE  LifecycleInv'
<1> USE DEF IsCurrentAttempt
<1>0. current_attempt \in AttemptStates /\ current_attempt # None
  BY DEF TypeOK, RecordOwnerCreated, RecordStreamStarted, RecordNormalCompletion,
         RecordFailure, RecordTerminalEventDelivered, RecordCleanupComplete
<1>1. ASSUME current_attempt.failure = None, current_attempt' \in AttemptStates,
             current_attempt'.id = current_attempt.id,
             current_attempt'.failure = None,
             phase' \in {phase, "Running"},
             phase' # phase => desired_running,
             UNCHANGED <<intentVars, attempts_started, recovery_episode, cooldown>>
      PROVE  LifecycleInv'
  <2> USE DEF LifecycleInv, intentVars
  <2>1. /\ ~ReadyForEvaluation(current_attempt)
        /\ ~ReadyForEvaluation(current_attempt')
        /\ current_attempt' # None
    BY <1>1, NoneAssumption DEF ReadyForEvaluation
  <2>2. desired_running => phase \notin {"Waiting", "Exhausted"}
    BY <2>1 DEF EvaluableIffEvidenceComplete
  <2>3. AttemptIsLatest' /\ IdleHasNoAttempt' /\ ExhaustionShows'
    BY <1>0, <1>1, <2>2 DEF AttemptIsLatest, IdleHasNoAttempt, ExhaustionShows
  <2>4. /\ StoppedIffIntentAbsent' /\ EvaluableIffEvidenceComplete'
        /\ CooldownBelongsToWaitingAttempt'
    BY <1>1, <2>1, <2>2
    DEF StoppedIffIntentAbsent, EvaluableIffEvidenceComplete,
        CooldownBelongsToWaitingAttempt
  <2> QED BY <2>3, <2>4
<1>2. CASE RecordOwnerCreated(id)
  <2>1. current_attempt.failure = None
    BY <1>0, <1>2 DEF RecordOwnerCreated, LifecycleInv, AttemptIsLatest
  <2>2. /\ current_attempt' \in AttemptStates
        /\ current_attempt'.id = current_attempt.id
        /\ current_attempt'.failure = None
    BY <1>0, <1>2, <2>1 DEF RecordOwnerCreated, AttemptStates, Lifecycles
  <2> QED BY <1>1, <1>2, <2>1, <2>2 DEF RecordOwnerCreated
<1>3. CASE RecordStreamStarted(id)
  <2>1. current_attempt.failure = None
    BY <1>0, <1>3 DEF RecordStreamStarted, LifecycleInv, AttemptIsLatest
  <2>2. /\ current_attempt' \in AttemptStates
        /\ current_attempt'.id = current_attempt.id
        /\ current_attempt'.failure = None
    BY <1>0, <1>3, <2>1 DEF RecordStreamStarted, AttemptStates, Lifecycles
  <2> QED BY <1>1, <1>3, <2>1, <2>2 DEF RecordStreamStarted
<1>4. CASE RecordNormalCompletion(id)
  <2>1. /\ current_attempt' \in AttemptStates
        /\ current_attempt'.id = current_attempt.id
        /\ current_attempt'.failure = None
    BY <1>0, <1>4 DEF RecordNormalCompletion, AttemptStates, Lifecycles
  <2> QED BY <1>1, <1>4, <2>1 DEF RecordNormalCompletion
<1>5. ASSUME NEW cause \in FailureClasses, RecordFailure(id, cause)
      PROVE  LifecycleInv'
  <2> DEFINE failed == [current_attempt EXCEPT !.failure = cause,
                                               !.lifecycle = "Failed"]
             newPhase == IF desired_running THEN "Failed" ELSE phase
  <2> USE DEF LifecycleInv, intentVars
  <2>1. /\ current_attempt.failure = None /\ cause # None
        /\ UNCHANGED <<intentVars, attempts_started, cooldown>>
        /\ recovery_episode' = EpisodeForFailure
    BY <1>5, NoneAssumption DEF RecordFailure
  <2>2. /\ failed \in AttemptStates /\ failed.id = current_attempt.id
        /\ failed.failure = cause /\ failed.lifecycle = "Failed"
        /\ RefreshPostFailurePhase(failed, newPhase)
    BY <1>0, <1>5 DEF RecordFailure, AttemptStates, Lifecycles
  <2> HIDE DEF failed
  <2>3. /\ current_attempt' \in AttemptStates /\ current_attempt' # None
        /\ current_attempt'.id = current_attempt.id
        /\ current_attempt'.lifecycle \in {"Failed", "CleanupComplete"}
        /\ ReadyForEvaluation(current_attempt') <=> ReadyForEvaluation(failed)
    BY <2>2, NoneAssumption
    DEF RefreshPostFailurePhase, AttemptStates, ReadyForEvaluation, Lifecycles
  <2>4. /\ desired_running /\ ReadyForEvaluation(failed) => phase' = "Waiting"
        /\ desired_running /\ ~ReadyForEvaluation(failed) => phase' = "Failed"
        /\ ~desired_running => phase' = phase
    BY <2>2 DEF RefreshPostFailurePhase
  <2>5. /\ desired_running => phase \notin {"Waiting", "Exhausted"}
        /\ phase # "Idle"
    BY <1>0, <2>1
    DEF EvaluableIffEvidenceComplete, ReadyForEvaluation, IdleHasNoAttempt
  <2>6. AttemptIsLatest' /\ IdleHasNoAttempt'
    BY <1>0, <2>1, <2>3, <2>4, <2>5 DEF AttemptIsLatest, IdleHasNoAttempt
  <2>7. ExhaustionShows'
    <3>1. IF recovery_episode # None THEN recovery_episode' = recovery_episode
          ELSE recovery_episode'.exhaustion = None
      BY <2>1 DEF EpisodeForFailure
    <3> QED BY <2>1, <2>4, <2>5, <3>1 DEF ExhaustionShows
  <2>8. /\ StoppedIffIntentAbsent' /\ EvaluableIffEvidenceComplete'
        /\ CooldownBelongsToWaitingAttempt'
    BY <2>1, <2>3, <2>4, <2>5
    DEF StoppedIffIntentAbsent, EvaluableIffEvidenceComplete,
        CooldownBelongsToWaitingAttempt
  <2> QED BY <2>6, <2>7, <2>8
<1>6. CASE RecordTerminalEventDelivered(id)
  <2> DEFINE told == [current_attempt EXCEPT !.terminal_event_delivered = TRUE]
  <2>1. /\ told \in AttemptStates /\ told.id = current_attempt.id
        /\ told.failure = current_attempt.failure
        /\ told.lifecycle = current_attempt.lifecycle
        /\ ReadyForEvaluation(current_attempt) => ReadyForEvaluation(told)
    BY <1>0 DEF AttemptStates, ReadyForEvaluation
  <2>2. told.failure # None => told.lifecycle \in {"Failed", "CleanupComplete"}
    BY <1>0, <2>1 DEF LifecycleInv, AttemptIsLatest
  <2>3. /\ RefreshPostFailurePhase(told, phase)
        /\ UNCHANGED <<intentVars, attempts_started, recovery_episode, cooldown>>
    BY <1>6 DEF RecordTerminalEventDelivered
  <2> HIDE DEF told
  <2> QED BY <1>0, <2>1, <2>2, <2>3, RefreshKeepsLifecycle
<1>7. CASE RecordCleanupComplete(id)
  <2> DEFINE cleaned ==
        [current_attempt EXCEPT
           !.resources_released = TRUE,
           !.lifecycle = IF CleanupEndsAttempt(current_attempt)
                         THEN "CleanupComplete" ELSE @]
  <2>1. /\ cleaned \in AttemptStates /\ cleaned.id = current_attempt.id
        /\ cleaned.failure = current_attempt.failure
        /\ cleaned.lifecycle \in {current_attempt.lifecycle, "CleanupComplete"}
        /\ ReadyForEvaluation(current_attempt) => ReadyForEvaluation(cleaned)
    BY <1>0 DEF AttemptStates, Lifecycles, ReadyForEvaluation
  <2>2. cleaned.failure # None =>
          cleaned.lifecycle \in {"Failed", "CleanupComplete"}
    BY <1>0, <2>1 DEF LifecycleInv, AttemptIsLatest
  <2>3. /\ RefreshPostFailurePhase(cleaned, phase)
        /\ UNCHANGED <<intentVars, attempts_started, recovery_episode, cooldown>>
    BY <1>7 DEF RecordCleanupComplete
  <2> HIDE DEF cleaned
  <2> QED BY <1>0, <2>1, <2>2, <2>3, RefreshKeepsLifecycle
<1> QED BY <1>2, <1>3, <1>4, <1>5, <1>6, <1>7

\* Explicit start and explicit stop.
LEMMA IntentKeepsLifecycle ==
  ASSUME TypeOK, LifecycleInv,
         \/ \E configuration \in Configurations : ExplicitStart(configuration)
         \/ \E generation \in Generations : ExplicitStop(generation)
  PROVE  LifecycleInv'
<1> USE DEF LifecycleInv
<1>1. ASSUME NEW configuration \in Configurations, ExplicitStart(configuration)
      PROVE  LifecycleInv'
  BY <1>1 DEF ExplicitStart, AttemptIsLatest, IdleHasNoAttempt, ExhaustionShows,
              StoppedIffIntentAbsent, EvaluableIffEvidenceComplete,
              CooldownBelongsToWaitingAttempt, NotRequired
<1>2. ASSUME NEW generation \in Generations, ExplicitStop(generation)
      PROVE  LifecycleInv'
  <2>1. /\ ~desired_running' /\ phase' = "Stopped"
        /\ cooldown'.state \notin {"Pending", "Satisfied"}
    BY <1>2 DEF ExplicitStop, TypeOK, CooldownStates
  <2>2. UNCHANGED <<intent_generation, attempts_started, current_attempt>>
    BY <1>2 DEF ExplicitStop
  <2> QED
    BY <2>1, <2>2
    DEF AttemptIsLatest, IdleHasNoAttempt, ExhaustionShows, StoppedIffIntentAbsent,
        EvaluableIffEvidenceComplete, CooldownBelongsToWaitingAttempt
<1> QED BY <1>1, <1>2

\* The methods that write the cooldown or the episode but not the attempt: only
\* a live intent has a phase in which they apply.
LEMMA EpisodeKeepsLifecycle ==
  ASSUME TypeOK, LifecycleInv,
         \/ \E e \in Evaluators, marker \in Markers : RequireCooldown(e, marker)
         \/ \E generation \in Generations, marker \in Markers :
              SatisfyCooldown(generation, marker)
         \/ \E e \in Evaluators, reason \in ExhaustionReasons :
              MarkExhausted(e, reason)
         \/ \E generation \in Generations, evidence \in ResetEvidence :
              AdvanceRecoveryEpisode(generation, evidence)
  PROVE  LifecycleInv'
<1> USE DEF LifecycleInv, intentVars
<1>1. ASSUME NEW e \in Evaluators, NEW marker \in Markers,
             RequireCooldown(e, marker)
      PROVE  LifecycleInv'
  BY <1>1 DEF RequireCooldown, IsCurrentSnapshot, AttemptIsLatest,
              IdleHasNoAttempt, ExhaustionShows, StoppedIffIntentAbsent,
              EvaluableIffEvidenceComplete, CooldownBelongsToWaitingAttempt,
              AttemptId
<1>2. ASSUME NEW generation \in Generations, NEW marker \in Markers,
             SatisfyCooldown(generation, marker)
      PROVE  LifecycleInv'
  <2>1. cooldown'.attempt_id = cooldown.attempt_id
    BY <1>2 DEF SatisfyCooldown, TypeOK, CooldownStates
  <2> QED
    BY <1>2, <2>1
    DEF SatisfyCooldown, AttemptIsLatest, IdleHasNoAttempt, ExhaustionShows,
        StoppedIffIntentAbsent, EvaluableIffEvidenceComplete,
        CooldownBelongsToWaitingAttempt, AttemptId
<1>3. ASSUME NEW e \in Evaluators, NEW reason \in ExhaustionReasons,
             MarkExhausted(e, reason)
      PROVE  LifecycleInv'
  <2>1. /\ recovery_episode \in Episodes /\ current_attempt \in AttemptStates
        /\ evaluation[e] \in Snapshots /\ configuration_id \in Configurations
    BY <1>3 DEF MarkExhausted, TypeOK
  <2>2. /\ recovery_episode' \in Episodes
        /\ recovery_episode'.exhaustion \in ExhaustionRecords
    BY <1>3, <2>1
    DEF MarkExhausted, Episodes, ExhaustionRecords, AttemptStates, Snapshots
  <2>3. recovery_episode' # None /\ recovery_episode'.exhaustion # None
    BY <2>2, NoneAssumption
  <2> QED
    BY <1>3, <2>3
    DEF MarkExhausted, IsCurrentSnapshot, AttemptIsLatest, IdleHasNoAttempt,
        ExhaustionShows, StoppedIffIntentAbsent, EvaluableIffEvidenceComplete,
        CooldownBelongsToWaitingAttempt, AttemptId
<1>4. ASSUME NEW generation \in Generations, NEW evidence \in ResetEvidence,
             AdvanceRecoveryEpisode(generation, evidence)
      PROVE  LifecycleInv'
  <2>1. /\ recovery_episode'.exhaustion = None
        /\ cooldown' = NotRequired
        /\ phase' \notin {"Stopped", "Idle", "Exhausted"} /\ phase # "Stopped"
        /\ phase' \in {"Waiting", "Exhausted"} <=> phase \in {"Waiting", "Exhausted"}
    BY <1>4 DEF AdvanceRecoveryEpisode
  <2>2. UNCHANGED <<intentVars, attempts_started, current_attempt>>
    BY <1>4 DEF AdvanceRecoveryEpisode
  <2> QED
    BY <2>1, <2>2
    DEF AttemptIsLatest, IdleHasNoAttempt, ExhaustionShows, StoppedIffIntentAbsent,
        EvaluableIffEvidenceComplete, CooldownBelongsToWaitingAttempt, NotRequired
<1> QED BY <1>1, <1>2, <1>3, <1>4

\* What a step that writes none of the retry state's variables leaves.
LEMMA UnchangedLifecycle == LifecycleInv /\ UNCHANGED retryVars => LifecycleInv'
BY DEF LifecycleInv, retryVars, intentVars, AttemptIsLatest, IdleHasNoAttempt,
       ExhaustionShows, StoppedIffIntentAbsent, EvaluableIffEvidenceComplete,
       ReadyForEvaluation, CooldownBelongsToWaitingAttempt, AttemptId

\* The invariant holds in every state.
LEMMA LifecycleCorrect == Spec => []LifecycleInv
<1>1. Init => LifecycleInv
  BY DEF Init, LifecycleInv, AttemptIsLatest, IdleHasNoAttempt, ExhaustionShows,
         StoppedIffIntentAbsent, EvaluableIffEvidenceComplete,
         CooldownBelongsToWaitingAttempt, NotRequired
<1>2. TypeOK /\ LifecycleInv /\ [Next]_vars => LifecycleInv'
  <2> SUFFICES ASSUME TypeOK, LifecycleInv, [Next]_vars PROVE LifecycleInv'
    OBVIOUS
  <2>1. CASE AttemptNext
    BY <2>1, AttemptKeepsLifecycle DEF AttemptNext
  <2>2. CASE IntentNext
    <3>1. ASSUME NEW generation \in Generations, CommitInitialAttempt(generation)
          PROVE  LifecycleInv'
      <4>1. recovery_episode' = recovery_episode /\ desired_running /\ phase = "Idle"
        BY <3>1 DEF CommitInitialAttempt
      <4>2. recovery_episode' # None => recovery_episode'.exhaustion = None
        BY <4>1 DEF LifecycleInv, ExhaustionShows
      <4> QED
        BY <3>1, <4>1, <4>2, CommitKeepsLifecycle DEF CommitInitialAttempt, Kinds
    <3> QED BY <2>2, <3>1, IntentKeepsLifecycle, EpisodeKeepsLifecycle DEF IntentNext
  <2>3. CASE EvaluatorNext
    <3>1. ASSUME NEW e \in Evaluators, CommitRecoveryAttempt(e)
          PROVE  LifecycleInv'
      <4>1. recovery_episode'.exhaustion = None
        BY <3>1 DEF CommitRecoveryAttempt, TypeOK, Episodes
      <4> QED
        BY <3>1, <4>1, CommitKeepsLifecycle DEF CommitRecoveryAttempt, Kinds
    <3>2. ASSUME NEW e \in Evaluators, TakeSnapshot(e)
          PROVE  LifecycleInv'
      BY <3>2, UnchangedLifecycle DEF TakeSnapshot
    <3> QED BY <2>3, <3>1, <3>2, EpisodeKeepsLifecycle DEF EvaluatorNext
  <2>4. CASE UNCHANGED vars
    BY <2>4, UnchangedLifecycle DEF vars
  <2> QED BY <2>1, <2>2, <2>3, <2>4 DEF Next
<1> QED BY <1>1, <1>2, TypeCorrect, PTL DEF Spec

-----------------------------------------------------------------------------
(* What follows from it.                                                   *)

\* A failed attempt is offered to the policy exactly when its evidence is
\* complete, whatever the order in which failure, terminal event, cleanup,
\* stops and resets are recorded.
THEOREM EvaluableExactly == Spec => []EvaluableIffEvidenceComplete
BY LifecycleCorrect, PTL DEF LifecycleInv

\* Stopped is the phase of exactly the intents that are no longer desired.
THEOREM StoppedExactly == Spec => []StoppedIffIntentAbsent
BY LifecycleCorrect, PTL DEF LifecycleInv

\* A cooldown is owed by the waiting attempt and by no other.
THEOREM CooldownBelongs == Spec => []CooldownBelongsToWaitingAttempt
BY LifecycleCorrect, PTL DEF LifecycleInv

\* No two owners overlap: an attempt is replaced only after its resources were
\* released, and by a recovery only after its failure and terminal event.
THEOREM AttemptsNeverOverlap == Spec => NoOverlappingAttempts
<1>1. ASSUME TypeOK, LifecycleInv, Next, current_attempt # None,
             AttemptId(current_attempt') # current_attempt.id
      PROVE  /\ current_attempt.resources_released
             /\ \/ intent_generation' # intent_generation
                \/ /\ current_attempt.failure # None
                   /\ current_attempt.stream_started
                        => current_attempt.terminal_event_delivered
  <2>1. ~(UNCHANGED current_attempt)
    BY <1>1 DEF AttemptId
  <2>2. ~AttemptNext
    <3>1. SUFFICES ASSUME NEW id \in AttemptIds,
                          \/ RecordOwnerCreated(id)
                          \/ RecordStreamStarted(id)
                          \/ RecordNormalCompletion(id)
                          \/ \E cause \in FailureClasses : RecordFailure(id, cause)
                          \/ RecordTerminalEventDelivered(id)
                          \/ RecordCleanupComplete(id)
                   PROVE  FALSE
      BY DEF AttemptNext
    <3>2. current_attempt \in AttemptStates
      BY <1>1 DEF TypeOK
    <3>3. current_attempt'.id = current_attempt.id /\ current_attempt' \in AttemptStates
      <4>1. CASE RecordOwnerCreated(id)
        BY <3>2, <4>1 DEF RecordOwnerCreated, AttemptStates, Lifecycles
      <4>2. CASE RecordStreamStarted(id)
        BY <3>2, <4>2 DEF RecordStreamStarted, AttemptStates, Lifecycles
      <4>3. CASE RecordNormalCompletion(id)
        BY <3>2, <4>3 DEF RecordNormalCompletion, AttemptStates, Lifecycles
      <4>4. ASSUME NEW cause \in FailureClasses, RecordFailure(id, cause)
            PROVE  /\ current_attempt'.id = current_attempt.id
                   /\ current_attempt' \in AttemptStates
        BY <3>2, <4>4, EndingKeepsAttempt
      <4>5. CASE RecordTerminalEventDelivered(id)
        BY <3>2, <4>5, EndingKeepsAttempt
      <4>6. CASE RecordCleanupComplete(id)
        BY <3>2, <4>6, EndingKeepsAttempt
      <4> QED BY <3>1, <4>1, <4>2, <4>3, <4>4, <4>5, <4>6
    <3> QED BY <1>1, <3>3, NoneAssumption DEF AttemptId
  <2>3. CASE IntentNext
    <3>1. \/ \E configuration \in Configurations : ExplicitStart(configuration)
          \/ \E generation \in Generations : CommitInitialAttempt(generation)
      BY <2>1, <2>3
      DEF IntentNext, ExplicitStop, SatisfyCooldown, AdvanceRecoveryEpisode
    <3>2. ASSUME NEW configuration \in Configurations, ExplicitStart(configuration)
          PROVE  /\ current_attempt.resources_released
                 /\ intent_generation' # intent_generation
      BY <1>1, <3>2 DEF ExplicitStart, TypeOK
    <3>3. ASSUME NEW generation \in Generations, CommitInitialAttempt(generation)
          PROVE  FALSE
      BY <1>1, <3>3 DEF CommitInitialAttempt, LifecycleInv, IdleHasNoAttempt
    <3> QED BY <3>1, <3>2, <3>3
  <2>4. CASE EvaluatorNext
    <3>1. PICK e \in Evaluators : CommitRecoveryAttempt(e)
      BY <2>1, <2>4
      DEF EvaluatorNext, TakeSnapshot, retryVars, RequireCooldown, MarkExhausted
    <3> QED
      BY <1>1, <3>1
      DEF CommitRecoveryAttempt, LifecycleInv, EvaluableIffEvidenceComplete,
          ReadyForEvaluation
  <2> QED BY <1>1, <2>2, <2>3, <2>4 DEF Next
<1>2. TypeOK /\ LifecycleInv /\ [Next]_vars
        => [current_attempt # None /\ AttemptId(current_attempt') # current_attempt.id
              => /\ current_attempt.resources_released
                 /\ \/ intent_generation' # intent_generation
                    \/ /\ current_attempt.failure # None
                       /\ current_attempt.stream_started
                            => current_attempt.terminal_event_delivered]_vars
  BY <1>1
<1> QED
  BY <1>2, TypeCorrect, LifecycleCorrect, PTL DEF Spec, NoOverlappingAttempts

\* Within one episode exhaustion is final: late evidence, stale decisions and a
\* stop leave it exhausted, and no attempt starts before a reset opens another
\* episode or another intent begins.
THEOREM ExhaustionIsFinal == Spec => ExhaustionIsSticky
<1> DEFINE Kept == \/ /\ recovery_episode' = recovery_episode
                      /\ attempts_started' = attempts_started
                      /\ desired_running' => phase' = "Exhausted"
                   \/ recovery_episode'.id[2] = recovery_episode.id[2] + 1
<1>1. ASSUME TypeOK, LifecycleInv, Next, recovery_episode # None,
             recovery_episode.exhaustion # None,
             intent_generation' = intent_generation
      PROVE  Kept
  <2>1. desired_running => phase = "Exhausted"
    BY <1>1 DEF LifecycleInv, ExhaustionShows
  <2>2. CASE AttemptNext
    <3>1. PICK id \in AttemptIds :
            \/ RecordOwnerCreated(id)
            \/ RecordStreamStarted(id)
            \/ RecordNormalCompletion(id)
            \/ \E cause \in FailureClasses : RecordFailure(id, cause)
            \/ RecordTerminalEventDelivered(id)
            \/ RecordCleanupComplete(id)
      BY <2>2 DEF AttemptNext
    <3>2. /\ recovery_episode' = recovery_episode
          /\ attempts_started' = attempts_started
          /\ desired_running' = desired_running
      BY <1>1, <3>1
      DEF RecordOwnerCreated, RecordStreamStarted, RecordNormalCompletion,
          RecordFailure, EpisodeForFailure, RecordTerminalEventDelivered,
          RecordCleanupComplete, intentVars
    <3>3. SUFFICES ASSUME desired_running PROVE phase' = "Exhausted"
      BY <3>2
    <3>4. current_attempt # None /\ current_attempt.failure # None
      BY <1>1, <2>1, <3>3
      DEF LifecycleInv, EvaluableIffEvidenceComplete, ReadyForEvaluation
    <3>5. current_attempt.lifecycle \notin {"OwnerCreated"}
      BY <1>1, <3>4 DEF LifecycleInv, AttemptIsLatest
    <3> QED
      BY <2>1, <3>1, <3>3, <3>4, <3>5
      DEF RecordOwnerCreated, RecordStreamStarted, RecordNormalCompletion,
          RecordFailure, RecordTerminalEventDelivered, RecordCleanupComplete,
          RefreshPostFailurePhase
  <2>3. CASE IntentNext
    <3>1. ASSUME NEW configuration \in Configurations, ExplicitStart(configuration)
          PROVE  FALSE
      BY <1>1, <3>1 DEF ExplicitStart, TypeOK
    <3>2. ASSUME NEW generation \in Generations, ExplicitStop(generation)
          PROVE  Kept
      BY <3>2 DEF ExplicitStop
    <3>3. ASSUME NEW generation \in Generations, CommitInitialAttempt(generation)
          PROVE  FALSE
      BY <2>1, <3>3 DEF CommitInitialAttempt
    <3>4. ASSUME NEW generation \in Generations, NEW marker \in Markers,
                 SatisfyCooldown(generation, marker)
          PROVE  Kept
      BY <2>1, <3>4 DEF SatisfyCooldown, intentVars
    <3>5. ASSUME NEW generation \in Generations, NEW evidence \in ResetEvidence,
                 AdvanceRecoveryEpisode(generation, evidence)
          PROVE  Kept
      BY <3>5 DEF AdvanceRecoveryEpisode
    <3> QED BY <2>3, <3>1, <3>2, <3>3, <3>4, <3>5 DEF IntentNext
  <2>4. CASE EvaluatorNext
    BY <1>1, <2>1, <2>4
    DEF EvaluatorNext, TakeSnapshot, retryVars, intentVars, CommitRecoveryAttempt,
        RequireCooldown, MarkExhausted
  <2> QED BY <1>1, <2>2, <2>3, <2>4 DEF Next
<1>2. TypeOK /\ LifecycleInv /\ [Next]_vars
        => [recovery_episode # None /\ recovery_episode.exhaustion # None
              /\ intent_generation' = intent_generation => Kept]_vars
  BY <1>1
<1> QED
  BY <1>2, TypeCorrect, LifecycleCorrect, PTL DEF Spec, ExhaustionIsSticky

-----------------------------------------------------------------------------
(* The inductive invariant of the accounts.  The budget an episode has     *)
(* been charged may be one ahead of its failures, but no longer once its   *)
(* attempt has failed: that is the case in which the next charge comes.    *)

ChargedAtMostFailures ==
  current_attempt # None /\ current_attempt.failure # None
    /\ recovery_episode # None
    => recovery_episode.automatic_recovery_attempts_started
         <= consecutive_failed_attempts

ConsecutiveWithinTotal == consecutive_failed_attempts <= total_failures

AccountingInv ==
  FailuresAccountForAttempts /\ ChargedAtMostFailures /\ ConsecutiveWithinTotal

\* What the accounting looks at in an attempt is whether it has failed.
Failed == current_attempt # None /\ current_attempt.failure # None

\* A step that leaves the counters, the episode and whether the attempt failed
\* as they are keeps the accounts.
LEMMA AccountsUntouched ==
  ASSUME AccountingInv, Failed' <=> Failed,
         current_attempt' # None <=> current_attempt # None,
         UNCHANGED <<attempts_started, total_failures,
                     consecutive_failed_attempts>>,
         recovery_episode' # None <=> recovery_episode # None,
         recovery_episode # None =>
           recovery_episode'.automatic_recovery_attempts_started
             = recovery_episode.automatic_recovery_attempts_started
  PROVE  AccountingInv'
BY DEF AccountingInv, FailuresAccountForAttempts, ChargedAtMostFailures,
       ConsecutiveWithinTotal, Failed

\* Recording evidence, other than a failure, for an attempt does not change
\* whether it failed.
LEMMA EvidenceKeepsFailure ==
  ASSUME TypeOK, NEW id \in AttemptIds,
         \/ RecordOwnerCreated(id)
         \/ RecordStreamStarted(id)
         \/ RecordNormalCompletion(id)
         \/ RecordTerminalEventDelivered(id)
         \/ RecordCleanupComplete(id)
  PROVE  /\ current_attempt # None /\ current_attempt' # None
         /\ Failed' <=> Failed
         /\ UNCHANGED <<intentVars, failureVars, attempts_started,
                        recovery_episode>>
<1>1. current_attempt \in AttemptStates /\ current_attempt # None
  BY DEF TypeOK, IsCurrentAttempt, RecordOwnerCreated, RecordStreamStarted,
         RecordNormalCompletion, RecordTerminalEventDelivered,
         RecordCleanupComplete
<1>2. /\ current_attempt' \in AttemptStates
      /\ current_attempt'.failure = current_attempt.failure
  <2>1. CASE RecordOwnerCreated(id)
    BY <1>1, <2>1 DEF RecordOwnerCreated, AttemptStates, Lifecycles
  <2>2. CASE RecordStreamStarted(id)
    BY <1>1, <2>2 DEF RecordStreamStarted, AttemptStates, Lifecycles
  <2>3. CASE RecordNormalCompletion(id)
    BY <1>1, <2>3 DEF RecordNormalCompletion, AttemptStates, Lifecycles
  <2>4. CASE RecordTerminalEventDelivered(id)
    BY <1>1, <2>4, EndingKeepsAttempt
  <2>5. CASE RecordCleanupComplete(id)
    BY <1>1, <2>5, EndingKeepsAttempt
  <2> QED BY <2>1, <2>2, <2>3, <2>4, <2>5
<1>3. current_attempt' # None
  BY <1>2, NoneAssumption
<1> QED
  BY <1>1, <1>2, <1>3
  DEF Failed, RecordOwnerCreated, RecordStreamStarted, RecordNormalCompletion,
      RecordTerminalEventDelivered, RecordCleanupComplete

\* A failure of the present attempt, as far as the accounts see it.
LEMMA FailureFacts ==
  ASSUME TypeOK, LifecycleInv, NEW id \in AttemptIds, NEW cause \in FailureClasses,
         RecordFailure(id, cause)
  PROVE  /\ current_attempt # None /\ current_attempt.failure = None
         /\ id = <<intent_generation, attempts_started>>
         /\ current_attempt' # None /\ current_attempt'.failure # None
         /\ recovery_episode' = EpisodeForFailure
         /\ recovery_episode' \in Episodes /\ recovery_episode' # None
<1>1. current_attempt \in AttemptStates /\ current_attempt # None
  BY DEF TypeOK, IsCurrentAttempt, RecordFailure
<1>2. current_attempt' \in AttemptStates /\ current_attempt'.failure = cause
  BY <1>1, EndingKeepsAttempt
<1>3. id = <<intent_generation, attempts_started>>
  BY <1>1 DEF RecordFailure, IsCurrentAttempt, LifecycleInv, AttemptIsLatest
<1>4. recovery_episode' = EpisodeForFailure /\ current_attempt.failure = None
  BY DEF RecordFailure
<1> QED
  BY <1>1, <1>2, <1>3, <1>4, EpisodeForFailureType, NoneAssumption

\* A failure is counted once, in the total and against its episode.
LEMMA FailureKeepsAccounts ==
  ASSUME TypeOK, LifecycleInv, AccountingInv, NEW id \in AttemptIds,
         NEW cause \in FailureClasses, RecordFailure(id, cause)
  PROVE  AccountingInv'
<1>1. /\ total_failures' = total_failures + 1
      /\ consecutive_failed_attempts' = consecutive_failed_attempts + 1
      /\ attempts_started' = attempts_started
  BY DEF RecordFailure
<1>2. /\ total_failures \in Nat /\ consecutive_failed_attempts \in Nat
      /\ attempts_started \in Nat
  BY DEF TypeOK
<1>3. CASE recovery_episode = None
  <2>1. recovery_episode'.automatic_recovery_attempts_started = 0
    BY <1>3, FailureFacts DEF EpisodeForFailure
  <2> QED
    BY <1>1, <1>2, <2>1, FailureFacts
    DEF AccountingInv, FailuresAccountForAttempts, ChargedAtMostFailures,
        ConsecutiveWithinTotal
<1>4. CASE recovery_episode # None
  <2>1. recovery_episode' = recovery_episode
        /\ recovery_episode.automatic_recovery_attempts_started \in Nat
    BY <1>4, FailureFacts DEF EpisodeForFailure, Episodes
  <2> QED
    BY <1>1, <1>2, <1>4, <2>1, FailureFacts
    DEF AccountingInv, FailuresAccountForAttempts, ChargedAtMostFailures,
        ConsecutiveWithinTotal
<1> QED BY <1>3, <1>4

\* The first attempt of an intent finds nothing to account for.
LEMMA InitialAttemptKeepsAccounts ==
  ASSUME TypeOK, LifecycleInv, AccountingInv, NEW generation \in Generations,
         CommitInitialAttempt(generation)
  PROVE  AccountingInv'
<1>1. /\ current_attempt = None /\ recovery_episode' = recovery_episode
      /\ current_attempt' \in AttemptStates /\ current_attempt'.failure = None
      /\ attempts_started' = attempts_started + 1
      /\ UNCHANGED failureVars
  BY NoneAssumption
  DEF CommitInitialAttempt, CommitAttempt, LifecycleInv, IdleHasNoAttempt, TypeOK,
      AttemptStates, Kinds, Lifecycles, Ids
<1>2. attempts_started \in Nat /\ total_failures \in Nat /\ current_attempt' # None
  BY <1>1, NoneAssumption DEF TypeOK
<1> QED
  BY <1>1, <1>2
  DEF AccountingInv, FailuresAccountForAttempts, ChargedAtMostFailures,
      ConsecutiveWithinTotal, failureVars

\* A recovery attempt follows a failed one, so its charge was earned.
LEMMA RecoveryKeepsAccounts ==
  ASSUME TypeOK, LifecycleInv, AccountingInv, NEW e \in Evaluators,
         CommitRecoveryAttempt(e)
  PROVE  AccountingInv'
<1>1. Failed
  BY DEF CommitRecoveryAttempt, LifecycleInv, EvaluableIffEvidenceComplete,
         ReadyForEvaluation, Failed
<1>2. /\ recovery_episode \in Episodes /\ recovery_episode # None
      /\ recovery_episode' \in Episodes /\ recovery_episode' # None
      /\ recovery_episode'.automatic_recovery_attempts_started
           = recovery_episode.automatic_recovery_attempts_started + 1
      /\ recovery_episode.automatic_recovery_attempts_started \in Nat
  BY NoneAssumption DEF CommitRecoveryAttempt, TypeOK, Episodes
<1>3. /\ current_attempt' \in AttemptStates /\ current_attempt'.failure = None
      /\ attempts_started' = attempts_started + 1
      /\ UNCHANGED failureVars
  BY DEF CommitRecoveryAttempt, CommitAttempt, TypeOK, AttemptStates, Kinds,
         Lifecycles, Ids
<1>4. /\ attempts_started \in Nat /\ total_failures \in Nat
      /\ consecutive_failed_attempts \in Nat /\ current_attempt' # None
  BY <1>3, NoneAssumption DEF TypeOK
<1> QED
  BY <1>1, <1>2, <1>3, <1>4
  DEF AccountingInv, FailuresAccountForAttempts, ChargedAtMostFailures,
      ConsecutiveWithinTotal, Failed, failureVars

\* A reset opens an episode that owes nothing.
LEMMA ResetKeepsAccounts ==
  ASSUME TypeOK, AccountingInv, NEW generation \in Generations,
         NEW evidence \in ResetEvidence,
         AdvanceRecoveryEpisode(generation, evidence)
  PROVE  AccountingInv'
<1>1. /\ recovery_episode # None
      /\ recovery_episode' = [id |-> <<generation, recovery_episode.id[2] + 1>>,
                              automatic_recovery_attempts_started |-> 0,
                              exhaustion |-> None]
      /\ consecutive_failed_attempts' = 0
      /\ UNCHANGED <<attempts_started, current_attempt, total_failures>>
  BY DEF AdvanceRecoveryEpisode
<1>2. recovery_episode \in Episodes /\ generation \in Nat
  BY <1>1 DEF TypeOK, Generations
<1>3. /\ recovery_episode' \in Episodes /\ recovery_episode' # None
      /\ recovery_episode'.automatic_recovery_attempts_started = 0
  BY <1>1, <1>2, NoneAssumption DEF Episodes, Ids
<1>4. total_failures \in Nat /\ attempts_started \in Nat
  BY DEF TypeOK
<1> QED
  BY <1>1, <1>3, <1>4
  DEF AccountingInv, FailuresAccountForAttempts, ChargedAtMostFailures,
      ConsecutiveWithinTotal

\* The remaining methods leave the accounts alone.
LEMMA RestKeepsAccounts ==
  ASSUME TypeOK, AccountingInv,
         \/ \E generation \in Generations : ExplicitStop(generation)
         \/ \E generation \in Generations, marker \in Markers :
              SatisfyCooldown(generation, marker)
         \/ \E e \in Evaluators, marker \in Markers : RequireCooldown(e, marker)
         \/ \E e \in Evaluators, reason \in ExhaustionReasons :
              MarkExhausted(e, reason)
         \/ UNCHANGED retryVars
  PROVE  AccountingInv'
<1>1. /\ UNCHANGED <<attempts_started, current_attempt, total_failures,
                     consecutive_failed_attempts>>
      /\ \/ recovery_episode' = recovery_episode
         \/ \E record : /\ recovery_episode # None
                        /\ recovery_episode' =
                             [recovery_episode EXCEPT !.exhaustion = record]
                        /\ recovery_episode'.exhaustion \in ExhaustionRecords
  <2>1. ASSUME NEW e \in Evaluators, NEW reason \in ExhaustionReasons,
               MarkExhausted(e, reason)
        PROVE  \E record : /\ recovery_episode # None
                          /\ recovery_episode' =
                               [recovery_episode EXCEPT !.exhaustion = record]
                          /\ recovery_episode'.exhaustion \in ExhaustionRecords
    <3>1. /\ recovery_episode \in Episodes /\ current_attempt \in AttemptStates
          /\ evaluation[e] \in Snapshots /\ configuration_id \in Configurations
      BY <2>1 DEF MarkExhausted, TypeOK
    <3>2. recovery_episode'.exhaustion \in ExhaustionRecords
      BY <2>1, <3>1
      DEF MarkExhausted, Episodes, ExhaustionRecords, AttemptStates, Snapshots
    <3> QED BY <2>1, <3>2 DEF MarkExhausted
  <2> QED
    BY <2>1 DEF ExplicitStop, SatisfyCooldown, RequireCooldown, MarkExhausted,
                failureVars, retryVars
<1>2. recovery_episode # None => recovery_episode \in Episodes
  BY DEF TypeOK
<1>3. /\ recovery_episode' # None <=> recovery_episode # None
      /\ recovery_episode # None =>
           recovery_episode'.automatic_recovery_attempts_started
             = recovery_episode.automatic_recovery_attempts_started
  <2>1. CASE recovery_episode' = recovery_episode
    BY <2>1
  <2>2. CASE \E record : /\ recovery_episode # None
                        /\ recovery_episode' =
                             [recovery_episode EXCEPT !.exhaustion = record]
                        /\ recovery_episode'.exhaustion \in ExhaustionRecords
    <3>1. recovery_episode' \in Episodes
      BY <1>2, <2>2 DEF Episodes
    <3> QED BY <1>2, <2>2, <3>1, NoneAssumption DEF Episodes
  <2> QED BY <1>1, <2>1, <2>2
<1> QED BY <1>1, <1>3, AccountsUntouched DEF Failed

\* The accounts hold in every state.
LEMMA AccountingCorrect == Spec => []AccountingInv
<1>1. Init => AccountingInv
  BY DEF Init, AccountingInv, FailuresAccountForAttempts, ChargedAtMostFailures,
         ConsecutiveWithinTotal
<1>2. TypeOK /\ LifecycleInv /\ AccountingInv /\ [Next]_vars => AccountingInv'
  <2> SUFFICES ASSUME TypeOK, LifecycleInv, AccountingInv, [Next]_vars
               PROVE  AccountingInv'
    OBVIOUS
  <2>1. ASSUME NEW id \in AttemptIds,
               \/ RecordOwnerCreated(id)
               \/ RecordStreamStarted(id)
               \/ RecordNormalCompletion(id)
               \/ RecordTerminalEventDelivered(id)
               \/ RecordCleanupComplete(id)
        PROVE  AccountingInv'
    BY <2>1, EvidenceKeepsFailure, AccountsUntouched DEF failureVars
  <2>2. ASSUME NEW configuration \in Configurations, ExplicitStart(configuration)
        PROVE  AccountingInv'
    BY <2>2 DEF ExplicitStart, AccountingInv, FailuresAccountForAttempts,
                ChargedAtMostFailures, ConsecutiveWithinTotal
  <2>3. CASE AttemptNext
    BY <2>1, <2>3, FailureKeepsAccounts DEF AttemptNext
  <2>4. CASE IntentNext
    BY <2>2, <2>4, InitialAttemptKeepsAccounts, ResetKeepsAccounts,
       RestKeepsAccounts
    DEF IntentNext
  <2>5. CASE EvaluatorNext
    BY <2>5, RecoveryKeepsAccounts, RestKeepsAccounts DEF EvaluatorNext, TakeSnapshot
  <2>6. CASE UNCHANGED vars
    BY <2>6, RestKeepsAccounts DEF vars
  <2> QED BY <2>3, <2>4, <2>5, <2>6 DEF Next
<1> QED BY <1>1, <1>2, TypeCorrect, LifecycleCorrect, PTL DEF Spec

\* Failures and attempts stay in step, and an episode is charged once per
\* recovery attempt and never refunded, whatever callers replay.
THEOREM FailuresAccount == Spec => []FailuresAccountForAttempts
BY AccountingCorrect, PTL DEF AccountingInv

-----------------------------------------------------------------------------
(* The bounded history.                                                     *)

\* The history is the latest failures: what HistoryIsLatestFailures says of the
\* history, for any history, generation and total.
Latest(history, generation, total) ==
  /\ Len(history) = (IF total < HistoryCapacity THEN total ELSE HistoryCapacity)
  /\ \A i \in 1 .. Len(history) :
       history[i].attempt_id = <<generation, total - Len(history) + i>>

\* push_back after pop_front keeps the latest failures, full or not.
LEMMA PushKeepsLatest ==
  ASSUME NEW history \in Seq(FailureRecords), NEW record \in FailureRecords,
         NEW generation \in Nat, NEW total \in Nat,
         Latest(history, generation, total),
         record.attempt_id = <<generation, total + 1>>
  PROVE  /\ Latest(PushFailure(history, record), generation, total + 1)
         /\ PushFailure(history, record)[Len(PushFailure(history, record))] = record
         /\ Len(PushFailure(history, record)) > 0
<1> DEFINE kept == IF Len(history) = HistoryCapacity THEN Tail(history) ELSE history
           dropped == IF Len(history) = HistoryCapacity THEN 1 ELSE 0
<1>0. HistoryCapacity \in Nat /\ HistoryCapacity > 0
  BY CapacityAssumption
<1>1. /\ kept \in Seq(FailureRecords)
      /\ Len(kept) = Len(history) - dropped
      /\ \A i \in 1 .. Len(kept) : kept[i] = history[i + dropped]
  <2>1. CASE Len(history) = HistoryCapacity
    BY <1>0, <2>1
  <2>2. CASE Len(history) # HistoryCapacity
    BY <2>2
  <2> QED BY <2>1, <2>2
<1>2. /\ PushFailure(history, record) = Append(kept, record)
      /\ Len(Append(kept, record)) = Len(kept) + 1
      /\ \A i \in 1 .. Len(kept) : Append(kept, record)[i] = kept[i]
      /\ Append(kept, record)[Len(kept) + 1] = record
  BY <1>1 DEF PushFailure
<1>3. Len(history) \in Nat /\ Len(kept) \in Nat
  BY <1>1
<1>4. Len(kept) + 1 = (IF total + 1 < HistoryCapacity THEN total + 1
                       ELSE HistoryCapacity)
  BY <1>0, <1>1, <1>3 DEF Latest
<1> HIDE DEF kept
<1>5. ASSUME NEW i \in 1 .. Len(kept)
      PROVE  kept[i].attempt_id = <<generation, total + 1 - (Len(kept) + 1) + i>>
  <2>1. i + dropped \in 1 .. Len(history)
    BY <1>1, <1>3
  <2>2. history[i + dropped].attempt_id
          = <<generation, total - Len(history) + (i + dropped)>>
    BY <2>1 DEF Latest
  <2>3. total - Len(history) + (i + dropped) = total + 1 - (Len(kept) + 1) + i
    BY <1>1, <1>3
  <2> QED BY <1>1, <2>2, <2>3
<1>6. Latest(PushFailure(history, record), generation, total + 1)
  <2>1. ASSUME NEW i \in 1 .. Len(kept) + 1
        PROVE  Append(kept, record)[i].attempt_id
                 = <<generation, total + 1 - (Len(kept) + 1) + i>>
    <3>1. CASE i \in 1 .. Len(kept)
      BY <1>2, <1>5, <3>1
    <3>2. CASE i = Len(kept) + 1
      <4>1. record.attempt_id = <<generation, total + 1>>
        OBVIOUS
      <4>2. total + 1 - (Len(kept) + 1) + i = total + 1
        BY <1>3, <3>2
      <4> QED BY <1>2, <3>2, <4>1, <4>2
    <3> QED BY <1>3, <3>1, <3>2
  <2>2. PICK pushed : pushed = PushFailure(history, record)
    OBVIOUS
  <2>3. /\ pushed = Append(kept, record) /\ Len(pushed) = Len(kept) + 1
        /\ Len(pushed) = (IF total + 1 < HistoryCapacity THEN total + 1
                          ELSE HistoryCapacity)
    BY <1>2, <1>4, <2>2
  <2>4. \A i \in 1 .. Len(pushed) :
          pushed[i].attempt_id = <<generation, total + 1 - Len(pushed) + i>>
    BY <2>1, <2>3
  <2> QED BY <2>2, <2>3, <2>4 DEF Latest
<1> QED BY <1>2, <1>3, <1>6

\* The history holds exactly the latest failures, in order, after evictions too,
\* and last_failure is its newest entry.
THEOREM HistoryIsLatest == Spec => []HistoryIsLatestFailures
<1> DEFINE Inv == /\ Latest(recent_failures, intent_generation, total_failures)
                  /\ last_failure = IF Len(recent_failures) = 0 THEN None
                                    ELSE recent_failures[Len(recent_failures)]
<1>1. Init => Inv
  BY CapacityAssumption DEF Init, Latest
<1>2. TypeOK /\ TypeOK' /\ LifecycleInv /\ AccountingInv /\ Inv /\ [Next]_vars => Inv'
  <2> SUFFICES ASSUME TypeOK, TypeOK', LifecycleInv, AccountingInv, Inv, [Next]_vars
               PROVE  Inv'
    OBVIOUS
  <2>1. ASSUME UNCHANGED <<recent_failures, last_failure, total_failures,
                           intent_generation>>
        PROVE  Inv'
    BY <2>1 DEF Latest
  <2>2. ASSUME NEW id \in AttemptIds, NEW cause \in FailureClasses,
               RecordFailure(id, cause)
        PROVE  Inv'
    <3>1. PICK record : /\ last_failure' = record
                        /\ record.attempt_id = id
                        /\ recent_failures' = PushFailure(recent_failures, record)
      BY <2>2 DEF RecordFailure
    <3>2. /\ current_attempt # None /\ current_attempt.failure = None
          /\ id = <<intent_generation, attempts_started>>
      BY <2>2, FailureFacts
    <3>3. total_failures = attempts_started - 1
      BY <3>2 DEF AccountingInv, FailuresAccountForAttempts
    <3>4. /\ total_failures \in Nat /\ attempts_started \in Nat
          /\ intent_generation \in Nat /\ recent_failures \in Seq(FailureRecords)
      BY DEF TypeOK
    <3>5. id = <<intent_generation, total_failures + 1>>
      BY <3>2, <3>3, <3>4
    <3>6. last_failure' # None /\ last_failure' \in FailureRecords
      <4>1. /\ id \in Ids /\ EpisodeForFailure \in Episodes
            /\ current_attempt \in AttemptStates
        <5>1. <<intent_generation, total_failures + 1>> \in Ids
          BY <3>4 DEF Ids
        <5>2. EpisodeForFailure \in Episodes
          BY EpisodeForFailureType
        <5>3. current_attempt \in AttemptStates
          BY <3>2 DEF TypeOK
        <5> QED BY <3>5, <5>1, <5>2, <5>3
      <4>2. last_failure' \in FailureRecords
        BY <2>2, <4>1 DEF RecordFailure, FailureRecords, Episodes, AttemptStates
      <4> QED BY <4>2, NoneAssumption
    <3>7. record \in FailureRecords
      BY <3>1, <3>6
    <3>8. /\ total_failures' = total_failures + 1
          /\ intent_generation' = intent_generation
      BY <2>2 DEF RecordFailure, intentVars
    <3> QED
      BY <3>1, <3>4, <3>5, <3>7, <3>8, PushKeepsLatest
  <2>3. ASSUME NEW configuration \in Configurations, ExplicitStart(configuration)
        PROVE  Inv'
    BY <2>3, CapacityAssumption DEF ExplicitStart, Latest
  <2>4. CASE AttemptNext
    BY <2>1, <2>2, <2>4, EvidenceKeepsFailure
    DEF AttemptNext, failureVars, intentVars
  <2>5. CASE IntentNext
    BY <2>1, <2>3, <2>5
    DEF IntentNext, ExplicitStop, CommitInitialAttempt, CommitAttempt,
        SatisfyCooldown, AdvanceRecoveryEpisode, failureVars, intentVars
  <2>6. CASE EvaluatorNext
    BY <2>1, <2>6
    DEF EvaluatorNext, TakeSnapshot, CommitRecoveryAttempt, CommitAttempt,
        RequireCooldown, MarkExhausted, retryVars, failureVars, intentVars
  <2>7. CASE UNCHANGED vars
    BY <2>1, <2>7 DEF vars, retryVars, failureVars, intentVars
  <2> QED BY <2>4, <2>5, <2>6, <2>7 DEF Next
<1>3. Inv => HistoryIsLatestFailures
  BY DEF Latest, HistoryIsLatestFailures
<1> QED
  BY <1>1, <1>2, <1>3, TypeCorrect, LifecycleCorrect, AccountingCorrect, PTL
  DEF Spec
=============================================================================
