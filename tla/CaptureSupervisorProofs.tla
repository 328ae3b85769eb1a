---------------------- MODULE CaptureSupervisorProofs ----------------------
(***************************************************************************)
(* Proofs about CaptureSupervisor: it uses its two parts as they are       *)
(* specified, so that what is proved of RetryState and of CaptureHandoff   *)
(* holds here too; resources that it calls released are released; and what *)
(* it records and decides between calls is what its consumer was told and  *)
(* what the retry state is now.                                            *)
(***************************************************************************)
EXTENDS CaptureSupervisor, TLAPS

\* The owner and the retry state again, with what is proved of them.
OwnerFacts == INSTANCE CaptureHandoffProofs

RetryFacts == INSTANCE RetryStateProofs WITH
  HistoryCapacity <- 16, Configurations <- {"RecoveryDisabled"},
  FailureClasses <- RetryFailures, Markers <- {}, Evaluators <- {},
  MaxGenerations <- 1, evaluation <- <<>>

-----------------------------------------------------------------------------
(* A step of the supervisor is a step of the owner, or none.  Owner and    *)
(* OwnerFacts are the same definitions under two names.                    *)

\* The supervisor's calls to the owner are steps of the owner's module.
LEMMA HolderSteps ==
  ASSUME Owner!Start \/ Owner!RequestStop \/ Owner!WaitForCompletion
  PROVE  OwnerFacts!OwnerNext
BY DEF Owner!ownerVars, OwnerFacts!ownerVars, Owner!workerVars,
      OwnerFacts!workerVars, Owner!captureVars,
      OwnerFacts!captureVars, Owner!sharedVars, OwnerFacts!sharedVars,
      Owner!StopRequested, OwnerFacts!StopRequested, Owner!Start,
      OwnerFacts!Start, Owner!RequestStop, OwnerFacts!RequestStop,
      Owner!WaitForCompletion, OwnerFacts!WaitForCompletion,
      Owner!OwnerNext, OwnerFacts!OwnerNext

\* The worker's steps in the supervisor are those of the owner's module.
LEMMA WorkerSteps ==
  ASSUME Owner!WorkerNext
  PROVE  OwnerFacts!WorkerNext
BY DEF Owner!ownerVars, OwnerFacts!ownerVars, Owner!workerVars,
      OwnerFacts!workerVars, Owner!captureVars,
      OwnerFacts!captureVars, Owner!sharedVars, OwnerFacts!sharedVars,
      Owner!RecycleReceiverAlive, OwnerFacts!RecycleReceiverAlive,
      Owner!CaptureSenderAlive, OwnerFacts!CaptureSenderAlive,
      Owner!StartedEvent, OwnerFacts!StartedEvent, Owner!DataEvent,
      OwnerFacts!DataEvent, Owner!ErrorEvent, OwnerFacts!ErrorEvent,
      Owner!EndedEvent, OwnerFacts!EndedEvent, Owner!FailedWith,
      OwnerFacts!FailedWith, Owner!ContractEnd,
      OwnerFacts!ContractEnd, Owner!ReturnWith, OwnerFacts!ReturnWith,
      Owner!DeliverThen, OwnerFacts!DeliverThen, Owner!Received,
      OwnerFacts!Received, Owner!ChannelClosed,
      OwnerFacts!ChannelClosed, Owner!RunFailed, OwnerFacts!RunFailed,
      Owner!Finished, OwnerFacts!Finished, Owner!Panicked,
      OwnerFacts!Panicked, Owner!SpawnCapture,
      OwnerFacts!SpawnCapture, Owner!ReceiveFirst,
      OwnerFacts!ReceiveFirst, Owner!ReceivePacket,
      OwnerFacts!ReceivePacket, Owner!ReceiveBadPacket,
      OwnerFacts!ReceiveBadPacket, Owner!RecycleFails,
      OwnerFacts!RecycleFails, Owner!ReceiveEnd,
      OwnerFacts!ReceiveEnd, Owner!Deliver, OwnerFacts!Deliver,
      Owner!Drain, OwnerFacts!Drain, Owner!CloseCapture,
      OwnerFacts!CloseCapture, Owner!JoinCapture,
      OwnerFacts!JoinCapture, Owner!WorkerNext, OwnerFacts!WorkerNext

\* So are the capture thread's.
LEMMA CaptureSteps ==
  ASSUME Owner!CaptureNext
  PROVE  OwnerFacts!CaptureNext
BY DEF Owner!ownerVars, OwnerFacts!ownerVars, Owner!workerVars,
      OwnerFacts!workerVars, Owner!captureVars,
      OwnerFacts!captureVars, Owner!sharedVars, OwnerFacts!sharedVars,
      Owner!StopRequested, OwnerFacts!StopRequested,
      Owner!ProcessingAlive, OwnerFacts!ProcessingAlive, Owner!Room,
      OwnerFacts!Room, Owner!StartedMessage,
      OwnerFacts!StartedMessage, Owner!PacketMessage,
      OwnerFacts!PacketMessage, Owner!EndedMessage,
      OwnerFacts!EndedMessage, Owner!FailedMessage,
      OwnerFacts!FailedMessage, Owner!FailWith, OwnerFacts!FailWith,
      Owner!Terminate, OwnerFacts!Terminate, Owner!EndWith,
      OwnerFacts!EndWith, Owner!SignalledEnds,
      OwnerFacts!SignalledEnds, Owner!DeviceErrorEnds,
      OwnerFacts!DeviceErrorEnds, Owner!FailureKinds,
      OwnerFacts!FailureKinds, Owner!OpenSource,
      OwnerFacts!OpenSource, Owner!StartStream,
      OwnerFacts!StartStream, Owner!SendStarted,
      OwnerFacts!SendStarted, Owner!Poll, OwnerFacts!Poll,
      Owner!DeviceDrained, OwnerFacts!DeviceDrained, Owner!ReadPacket,
      OwnerFacts!ReadPacket, Owner!SendPacket, OwnerFacts!SendPacket,
      Owner!SendEnded, OwnerFacts!SendEnded, Owner!Release,
      OwnerFacts!Release, Owner!SendFailed, OwnerFacts!SendFailed,
      Owner!CaptureNext, OwnerFacts!CaptureNext

\* So are panics and notifications.
LEMMA SuddenSteps ==
  /\ Owner!CallbackPanics => OwnerFacts!CallbackPanics
  /\ Owner!CapturePanics => OwnerFacts!CapturePanics
  /\ \A end : Owner!Notify(end) => OwnerFacts!Notify(end)
BY DEF Owner!ownerVars, OwnerFacts!ownerVars, Owner!workerVars,
      OwnerFacts!workerVars, Owner!captureVars,
      OwnerFacts!captureVars, Owner!sharedVars, OwnerFacts!sharedVars,
      Owner!RecycleReceiverAlive, OwnerFacts!RecycleReceiverAlive,
      Owner!CaptureSenderAlive, OwnerFacts!CaptureSenderAlive,
      Owner!Panicked, OwnerFacts!Panicked, Owner!CallbackPanics,
      OwnerFacts!CallbackPanics, Owner!CapturePanics,
      OwnerFacts!CapturePanics, Owner!Notify, OwnerFacts!Notify

\* Every step of the supervisor is, for the owner, one of its own or none.
LEMMA OwnerIsUsed ==
  ASSUME [Next]_vars
  PROVE  [OwnerFacts!Next]_(OwnerFacts!vars)
<1> USE DEF OwnerFacts!Next
<1>1. ASSUME UNCHANGED ownerVars
      PROVE  UNCHANGED OwnerFacts!vars
  BY <1>1 DEF ownerVars, OwnerFacts!vars, OwnerFacts!ownerVars, OwnerFacts!workerVars,
              OwnerFacts!captureVars, OwnerFacts!sharedVars
<1>2. CASE \/ BeginStart \/ BeginWait \/ BeginStop \/ BeginIntent \/ DisableIntent
           \/ CommitAttempt \/ CreateOwner \/ ConstructionCleanup \/ StopIdle
           \/ StopCompleted \/ WaitTimesOut \/ Evaluate
  BY <1>1, <1>2 DEF BeginStart, BeginWait, BeginStop, BeginIntent, DisableIntent,
     CommitAttempt, CreateOwner, ConstructionCleanup, StopIdle, StopCompleted,
     WaitTimesOut, Evaluate
<1>3. CASE RecordStarted \/ RecordOutcome \/ RecordTerminal \/ RecordCleanup
  BY <1>1, <1>3 DEF RecordStarted, RecordOutcome, RecordTerminal, RecordCleanup,
                    RecordStep
<1>4. CASE StartOwner \/ StopOwner \/ WaitReturns
  BY <1>1, <1>4, HolderSteps DEF StartOwner, StopOwner, WaitReturns
<1>5. CASE OwnerStep
  <2>1. Owner!Deliver => Owner!WorkerNext
    BY DEF Owner!WorkerNext
  <2>2. Owner!SignalledEnds = OwnerFacts!SignalledEnds
    BY DEF Owner!SignalledEnds, OwnerFacts!SignalledEnds
  <2> QED BY <1>5, <2>1, <2>2, WorkerSteps, CaptureSteps, SuddenSteps
          DEF OwnerStep, DeliverAndObserve
<1>6. CASE UNCHANGED vars
  BY <1>1, <1>6 DEF vars
<1> QED BY <1>2, <1>3, <1>4, <1>5, <1>6 DEF Next, Continue

OwnerInv == OwnerFacts!StreamInv

\* What is proved of the owner holds of the one a supervisor uses.
LEMMA OwnerInvHolds == Spec => []OwnerInv
<1>1. Init => OwnerInv
  <2>1. Init => OwnerFacts!Init
    BY DEF Init, Owner!Init, OwnerFacts!Init
  <2>2. OwnerFacts!Init => OwnerFacts!StreamInv
    BY OwnerFacts!StreamInvBegins, SupervisorAssumption DEF SupervisorAssumption
  <2> QED BY <2>1, <2>2 DEF OwnerInv
<1>2. OwnerInv /\ [Next]_vars => OwnerInv'
  <2>1. [Next]_vars => [OwnerFacts!Next]_(OwnerFacts!vars)
    BY OwnerIsUsed
  <2>2. OwnerFacts!StreamInv /\ [OwnerFacts!Next]_(OwnerFacts!vars) => OwnerFacts!StreamInv'
    BY OwnerFacts!StreamInvStays, SupervisorAssumption DEF SupervisorAssumption
  <2> QED BY <2>1, <2>2 DEF OwnerInv
<1> QED BY <1>1, <1>2, PTL DEF Spec

-----------------------------------------------------------------------------
(* Released resources.                                                     *)

Starting == {"BeginIntent", "CommitAttempt", "CreateOwner", "ConstructionCleanup",
             "StartOwner"}
WorkerGone == {"NotSpawned", "Exited"}

\* The owner is started by the one start that finds the supervisor idle, and
\* what the supervisor calls released has no worker.
ReleaseInv ==
  /\ call \in Starting => state = "Idle"
  /\ state = "Idle" /\ start_called => call = "Wait" /\ completion # None
  /\ resources_released => state = "Completed" /\ worker \in WorkerGone

\* The owner's threads leave the supervisor's state alone.
LEMMA OwnerStepsKeepHolder ==
  ASSUME OwnerStep
  PROVE  /\ UNCHANGED <<state, call, resources_released, start_called, completion>>
         /\ worker \in WorkerGone => worker' = worker
BY DEF OwnerStep, DeliverAndObserve, Owner!WorkerNext, Owner!SpawnCapture,
   Owner!ReceiveFirst, Owner!ReceivePacket, Owner!ReceiveBadPacket,
   Owner!RecycleFails, Owner!ReceiveEnd, Owner!Deliver, Owner!Drain,
   Owner!CloseCapture, Owner!JoinCapture, Owner!CallbackPanics, Owner!CaptureNext,
   Owner!OpenSource, Owner!StartStream, Owner!SendStarted, Owner!Poll,
   Owner!DeviceDrained, Owner!ReadPacket, Owner!SendPacket, Owner!SendEnded,
   Owner!Release, Owner!SendFailed, Owner!CapturePanics, Owner!Notify,
   Owner!ownerVars, Owner!workerVars, resultVars, WorkerGone

\* The supervisor has released the owner when it says so, always.
LEMMA ReleaseInvHolds == Spec => []ReleaseInv
<1>1. Init => ReleaseInv
  BY DEF Init, Owner!Init, ReleaseInv, Starting
<1>2. OwnerInv /\ ReleaseInv /\ [Next]_vars => ReleaseInv'
  <2> SUFFICES ASSUME OwnerInv, ReleaseInv, [Next]_vars
               PROVE  ReleaseInv'
    OBVIOUS
  <2>1. /\ ~start_called => worker = "NotSpawned"
        /\ completion # None => worker \in WorkerGone
    BY DEF OwnerInv, OwnerFacts!StreamInv, OwnerFacts!HandoffInv, OwnerFacts!LifetimeInv, OwnerFacts!WorkerGone,
           WorkerGone
  <2> USE DEF ReleaseInv, Starting, WorkerGone, ownerVars, resultVars
  <2>2. CASE \/ BeginStart \/ BeginWait \/ BeginStop \/ BeginIntent \/ DisableIntent
             \/ CommitAttempt \/ CreateOwner \/ StopCompleted \/ WaitTimesOut
             \/ Evaluate
    BY <2>2 DEF BeginStart, BeginWait, BeginStop, BeginIntent, DisableIntent,
                CommitAttempt, CreateOwner, StopCompleted, WaitTimesOut, Evaluate
  <2>3. CASE ConstructionCleanup \/ StopIdle
    BY <2>1, <2>3 DEF ConstructionCleanup, StopIdle
  <2>4. CASE StartOwner
    BY <2>4 DEF StartOwner, Owner!Start
  <2>5. CASE StopOwner
    BY <2>5 DEF StopOwner, Owner!RequestStop, Owner!ownerVars, Owner!workerVars
  <2>6. CASE WaitReturns
    BY <2>1, <2>6 DEF WaitReturns, Owner!WaitForCompletion, Owner!workerVars
  <2>7. CASE RecordStarted \/ RecordOutcome \/ RecordTerminal \/ RecordCleanup
    BY <2>7 DEF RecordStarted, RecordOutcome, RecordTerminal, RecordCleanup, RecordStep
  <2>8. CASE OwnerStep
    BY <2>8, OwnerStepsKeepHolder
  <2>9. CASE UNCHANGED vars
    BY <2>9 DEF vars
  <2> QED BY <2>2, <2>3, <2>4, <2>5, <2>6, <2>7, <2>8, <2>9 DEF Next, Continue
<1> QED BY <1>1, <1>2, OwnerInvHolds, PTL DEF Spec

\* Whatever was stopped, timed out, failed or panicked: once resources count as
\* released, and so before any replacement, no thread of the owner is left.
THEOREM ReleasedIsQuiet == Spec => []ReleasedMeansQuiet
<1>1. OwnerInv /\ ReleaseInv => ReleasedMeansQuiet
  BY DEF OwnerInv, OwnerFacts!StreamInv, OwnerFacts!HandoffInv, OwnerFacts!LifetimeInv, OwnerFacts!CaptureGone,
         ReleaseInv, WorkerGone, ReleasedMeansQuiet, ReplacementEligible
<1> QED BY <1>1, OwnerInvHolds, ReleaseInvHolds, PTL

-----------------------------------------------------------------------------
(* A step of the supervisor is a step of the retry state, or none.         *)

\* What the supervisor calls the retry state with: the one generation, an
\* identity it has issued, and a failure it can classify.
UseInv ==
  /\ intent_generation \in {0, 1} /\ attempts_started \in 0 .. CounterMax
  /\ current_attempt # None =>
       "id" \in DOMAIN current_attempt /\ current_attempt.id \in Retry!AttemptIds
  /\ call \in {"RecordStarted", "RecordOutcome"} =>
       RetryFailureFor(outcome) \in RetryFailures \cup {None}

\* Every completion of the owner is a failure to be retried or none.
LEMMA CompletionsAreClassified ==
  ASSUME NEW c \in Owner!Completions
  PROVE  RetryFailureFor(CompletionFrom(c)) \in RetryFailures \cup {None}
BY DEF Owner!Completions, CompletionFrom, RetryFailureFor, RunErrorKind, RetryFailures

\* The calls with which a step of the supervisor goes to the retry state.
RetryCall ==
  \/ Retry!ExplicitStart("RecoveryDisabled")
  \/ Retry!ExplicitStop(intent_generation)
  \/ Retry!CommitInitialAttempt(intent_generation)
  \/ Retry!RecordOwnerCreated(current_attempt.id)
  \/ Retry!RecordStreamStarted(current_attempt.id)
  \/ Retry!RecordNormalCompletion(current_attempt.id)
  \/ \E cause \in RetryFailures : Retry!RecordFailure(current_attempt.id, cause)
  \/ Retry!RecordTerminalEventDelivered(current_attempt.id)
  \/ Retry!RecordCleanupComplete(current_attempt.id)

\* A step of the supervisor makes one call to the retry state, or none.
LEMMA CallsOfSteps ==
  ASSUME UseInv, [Next]_vars
  PROVE  RetryCall \/ UNCHANGED retryVars
<1> USE DEF RetryCall
<1>1. CASE \/ BeginStart \/ BeginWait \/ BeginStop \/ StartOwner \/ StopOwner
           \/ StopIdle \/ StopCompleted \/ WaitTimesOut \/ WaitReturns \/ Evaluate
           \/ OwnerStep
  BY <1>1 DEF BeginStart, BeginWait, BeginStop, StartOwner, StopOwner, StopIdle,
              StopCompleted, WaitTimesOut, WaitReturns, Evaluate, OwnerStep
<1>2. CASE \/ BeginIntent \/ DisableIntent \/ CommitAttempt \/ ConstructionCleanup
           \/ RecordStarted \/ RecordTerminal \/ RecordCleanup
  BY <1>2 DEF BeginIntent, DisableIntent, CommitAttempt, ConstructionCleanup,
              RecordStarted, RecordTerminal, RecordCleanup
<1>3. CASE CreateOwner
  BY <1>3 DEF CreateOwner, RetryFailures
<1>4. CASE RecordOutcome
  BY <1>4 DEF RecordOutcome, UseInv
<1>5. CASE UNCHANGED vars
  BY <1>5 DEF vars
<1> QED BY <1>1, <1>2, <1>3, <1>4, <1>5 DEF Next, Continue

\* Such a call is a step of the retry state.
LEMMA CallsAreRetrySteps ==
  ASSUME UseInv, RetryCall
  PROVE  Retry!Next
<1>1. intent_generation \in Retry!Generations
  BY DEF UseInv, Retry!Generations
<1>2. ASSUME Retry!IsCurrentAttempt(current_attempt.id)
      PROVE  current_attempt.id \in Retry!AttemptIds
  BY <1>2 DEF Retry!IsCurrentAttempt, UseInv
<1>3. CASE \/ Retry!ExplicitStart("RecoveryDisabled")
           \/ Retry!ExplicitStop(intent_generation)
           \/ Retry!CommitInitialAttempt(intent_generation)
  BY <1>1, <1>3 DEF Retry!Next, Retry!IntentNext
<1>4. CASE \/ Retry!RecordOwnerCreated(current_attempt.id)
           \/ Retry!RecordStreamStarted(current_attempt.id)
           \/ Retry!RecordNormalCompletion(current_attempt.id)
           \/ \E cause \in RetryFailures :
                Retry!RecordFailure(current_attempt.id, cause)
           \/ Retry!RecordTerminalEventDelivered(current_attempt.id)
           \/ Retry!RecordCleanupComplete(current_attempt.id)
  <2>1. Retry!IsCurrentAttempt(current_attempt.id)
    BY <1>4 DEF Retry!RecordOwnerCreated, Retry!RecordStreamStarted,
       Retry!RecordNormalCompletion, Retry!RecordFailure,
       Retry!RecordTerminalEventDelivered, Retry!RecordCleanupComplete
  <2> QED BY <1>2, <1>4, <2>1 DEF Retry!Next, Retry!AttemptNext
<1> QED BY <1>3, <1>4 DEF RetryCall

\* Such a call keeps the one intent and its attempts within bounds.
LEMMA CallsKeepUse ==
  ASSUME UseInv, RetryCall
  PROVE  /\ intent_generation' \in {0, 1} /\ attempts_started' \in 0 .. CounterMax
         /\ current_attempt' # None =>
              "id" \in DOMAIN current_attempt' /\ current_attempt'.id \in Retry!AttemptIds
<1> USE SupervisorAssumption DEF UseInv, Retry!AttemptIds, Retry!intentVars
<1>1. CASE Retry!ExplicitStart("RecoveryDisabled")
  BY <1>1 DEF Retry!ExplicitStart
<1>2. CASE Retry!ExplicitStop(intent_generation)
  BY <1>2 DEF Retry!ExplicitStop
<1>3. CASE Retry!CommitInitialAttempt(intent_generation)
  BY <1>3 DEF Retry!CommitInitialAttempt, Retry!CommitAttempt
<1>4. CASE \/ Retry!RecordOwnerCreated(current_attempt.id)
           \/ Retry!RecordStreamStarted(current_attempt.id)
           \/ Retry!RecordNormalCompletion(current_attempt.id)
  BY <1>4 DEF Retry!RecordOwnerCreated, Retry!RecordStreamStarted,
              Retry!RecordNormalCompletion, Retry!IsCurrentAttempt
<1>5. CASE \/ \E cause \in RetryFailures :
                Retry!RecordFailure(current_attempt.id, cause)
           \/ Retry!RecordTerminalEventDelivered(current_attempt.id)
           \/ Retry!RecordCleanupComplete(current_attempt.id)
  BY <1>5 DEF Retry!RecordFailure, Retry!RecordTerminalEventDelivered,
              Retry!RecordCleanupComplete, Retry!RefreshPostFailurePhase,
              Retry!IsCurrentAttempt
<1> QED BY <1>1, <1>2, <1>3, <1>4, <1>5 DEF RetryCall

\* The supervisor uses the retry state for one intent, always.
LEMMA UseInvHolds == Spec => []UseInv
<1>1. Init => UseInv
  BY SupervisorAssumption DEF Init, Retry!Init, UseInv
<1>2. OwnerInv /\ UseInv /\ [Next]_vars => UseInv'
  <2> SUFFICES ASSUME OwnerInv, UseInv, [Next]_vars
               PROVE  UseInv'
    OBVIOUS
  <2>1. UNCHANGED retryVars =>
          UNCHANGED <<intent_generation, attempts_started, current_attempt>>
    BY DEF retryVars
  <2>2. /\ intent_generation' \in {0, 1} /\ attempts_started' \in 0 .. CounterMax
        /\ current_attempt' # None =>
             "id" \in DOMAIN current_attempt' /\ current_attempt'.id \in Retry!AttemptIds
    BY <2>1, CallsOfSteps, CallsKeepUse DEF UseInv, Retry!AttemptIds
  <2>3. call' \in {"RecordStarted", "RecordOutcome"} =>
          RetryFailureFor(outcome') \in RetryFailures \cup {None}
    <3>1. CASE WaitReturns
      <4>1. worker = "Exited" => result \in Owner!Completions
        BY DEF OwnerInv, OwnerFacts!StreamInv, OwnerFacts!ResultInv, OwnerFacts!Completions,
               OwnerFacts!CaptureEnds, OwnerFacts!RunErrors, OwnerFacts!FailureKinds,
               Owner!Completions, Owner!CaptureEnds, Owner!RunErrors,
               Owner!FailureKinds
      <4>2. completion # None => completion \in Owner!Completions
        BY DEF OwnerInv, OwnerFacts!StreamInv, OwnerFacts!ResultInv, OwnerFacts!Completions,
               OwnerFacts!CaptureEnds, OwnerFacts!RunErrors, OwnerFacts!FailureKinds,
               Owner!Completions, Owner!CaptureEnds, Owner!RunErrors,
               Owner!FailureKinds
      <4>3. completion' \in Owner!Completions
        BY <3>1, <4>1, <4>2 DEF WaitReturns, Owner!WaitForCompletion, ownerVars
      <4>4. outcome' = CompletionFrom(completion')
        BY <3>1 DEF WaitReturns
      <4> QED BY <4>3, <4>4, CompletionsAreClassified
    <3>2. CASE RecordStarted
      BY <3>2 DEF RecordStarted, RecordStep, resultVars, UseInv
    <3>3. CASE \/ OwnerStep \/ UNCHANGED vars
      BY <3>3 DEF OwnerStep, vars, resultVars, UseInv
    <3>4. CASE \/ BeginStart \/ BeginWait \/ BeginStop \/ BeginIntent
               \/ DisableIntent \/ CommitAttempt \/ CreateOwner
               \/ ConstructionCleanup \/ StartOwner \/ StopOwner \/ StopIdle
               \/ StopCompleted \/ WaitTimesOut \/ RecordOutcome \/ RecordTerminal
               \/ RecordCleanup \/ Evaluate
      <4>1. call' \notin {"RecordStarted", "RecordOutcome"}
        BY <3>4 DEF BeginStart, BeginWait, BeginStop, BeginIntent, DisableIntent,
           CommitAttempt, CreateOwner, ConstructionCleanup, StartOwner, StopOwner,
           StopIdle, StopCompleted, WaitTimesOut, RecordOutcome, RecordTerminal,
           RecordCleanup, RecordStep, Evaluate
      <4> QED BY <4>1
    <3> QED BY <3>1, <3>2, <3>3, <3>4 DEF Next, Continue
  <2> QED BY <2>2, <2>3 DEF UseInv, Retry!AttemptIds
<1> QED BY <1>1, <1>2, OwnerInvHolds, PTL DEF Spec

\* Every behaviour of the supervisor is one of the retry state it owns: it only
\* uses its methods, with a generation and an attempt it was given and a failure
\* the code can classify, so all that is proved of RetryState holds of it.
THEOREM SupervisorImplementsRetryState == Spec => Retry!Spec
<1>1. Init => Retry!Init
  BY DEF Init
<1>2. UseInv /\ [Next]_vars => [Retry!Next]_(Retry!vars)
  <2>1. UNCHANGED retryVars => UNCHANGED Retry!vars
    BY DEF retryVars, Retry!vars, Retry!retryVars, Retry!intentVars, Retry!failureVars
  <2> QED BY <2>1, CallsOfSteps, CallsAreRetrySteps
<1> QED BY <1>1, <1>2, UseInvHolds, PTL DEF Spec, Retry!Spec

\* The retry state's types, in the names of its proofs.
LEMMA RetryStepsAreFacts == Retry!Next => RetryFacts!Next
BY DEF Retry!Next, RetryFacts!Next, Retry!AttemptNext, RetryFacts!AttemptNext,
       Retry!IntentNext, RetryFacts!IntentNext, Retry!EvaluatorNext,
       RetryFacts!EvaluatorNext, Retry!AttemptIds, RetryFacts!AttemptIds,
       Retry!Generations, RetryFacts!Generations, Retry!ResetEvidence,
       RetryFacts!ResetEvidence, Retry!ExhaustionReasons, RetryFacts!ExhaustionReasons,
       Retry!ExplicitStart, RetryFacts!ExplicitStart,
       Retry!ExplicitStop, RetryFacts!ExplicitStop,
       Retry!CommitInitialAttempt, RetryFacts!CommitInitialAttempt,
       Retry!CommitAttempt, RetryFacts!CommitAttempt,
       Retry!RecordOwnerCreated, RetryFacts!RecordOwnerCreated,
       Retry!RecordStreamStarted, RetryFacts!RecordStreamStarted,
       Retry!RecordNormalCompletion, RetryFacts!RecordNormalCompletion,
       Retry!RecordFailure, RetryFacts!RecordFailure,
       Retry!RecordTerminalEventDelivered, RetryFacts!RecordTerminalEventDelivered,
       Retry!RecordCleanupComplete, RetryFacts!RecordCleanupComplete,
       Retry!AdvanceRecoveryEpisode, RetryFacts!AdvanceRecoveryEpisode,
       Retry!IsCurrentAttempt, RetryFacts!IsCurrentAttempt,
       Retry!NextRevision, RetryFacts!NextRevision,
       Retry!EpisodeForFailure, RetryFacts!EpisodeForFailure,
       Retry!PushFailure, RetryFacts!PushFailure,
       Retry!CleanupEndsAttempt, RetryFacts!CleanupEndsAttempt,
       Retry!RefreshPostFailurePhase, RetryFacts!RefreshPostFailurePhase,
       Retry!ReadyForEvaluation, RetryFacts!ReadyForEvaluation,
       Retry!NotRequired, RetryFacts!NotRequired,
       Retry!intentVars, RetryFacts!intentVars, Retry!failureVars, RetryFacts!failureVars

\* Both instances of the retry state's module have the same values.
LEMMA SameRetryValues ==
  /\ Retry!AttemptStates = RetryFacts!AttemptStates
  /\ Retry!Episodes = RetryFacts!Episodes
  /\ Retry!ExhaustionRecords = RetryFacts!ExhaustionRecords
  /\ Retry!FailureRecords = RetryFacts!FailureRecords
  /\ Retry!Snapshots = RetryFacts!Snapshots
BY DEF Retry!Snapshots, RetryFacts!Snapshots, Retry!AttemptStates,
   RetryFacts!AttemptStates, Retry!Episodes, RetryFacts!Episodes,
   Retry!ExhaustionRecords, RetryFacts!ExhaustionRecords, Retry!FailureRecords,
   RetryFacts!FailureRecords, Retry!CooldownStates, RetryFacts!CooldownStates,
   Retry!Ids, RetryFacts!Ids, Retry!Kinds, RetryFacts!Kinds, Retry!Lifecycles,
   RetryFacts!Lifecycles, Retry!Phases, RetryFacts!Phases,
   Retry!ExhaustionReasons, RetryFacts!ExhaustionReasons

\* What the retry state assumes of its constants.
LEMMA RetryAssumptions ==
  /\ 16 \in Nat \ {0}
  /\ CounterMax \in Nat \ {0} /\ 1 \in Nat
  /\ None \notin {"RecoveryDisabled"} /\ None \notin RetryFailures
  /\ None \notin RetryFacts!AttemptStates /\ None \notin RetryFacts!Episodes
  /\ None \notin RetryFacts!ExhaustionRecords /\ None \notin RetryFacts!FailureRecords
  /\ None \notin RetryFacts!Snapshots
BY SameRetryValues, SupervisorAssumption, NoneAssumption
DEF SupervisorAssumption, NoneAssumption

\* What is proved of the retry state's types holds of the supervisor's.
LEMMA RetryTypesHold == Spec => []RetryFacts!TypeOK
<1>1. Init => RetryFacts!TypeOK
  <2>1. Init => RetryFacts!Init
    BY DEF Init, Retry!Init, RetryFacts!Init, Retry!NotRequired, RetryFacts!NotRequired
  <2> QED BY <2>1, RetryFacts!TypesBegin, RetryAssumptions
<1>2. UseInv /\ RetryFacts!TypeOK /\ [Next]_vars => RetryFacts!TypeOK'
  <2>1. UNCHANGED retryVars => UNCHANGED RetryFacts!vars
    BY DEF retryVars, RetryFacts!vars, RetryFacts!retryVars, RetryFacts!intentVars,
           RetryFacts!failureVars
  <2>2. UseInv /\ [Next]_vars => [RetryFacts!Next]_(RetryFacts!vars)
    BY <2>1, CallsOfSteps, CallsAreRetrySteps, RetryStepsAreFacts
  <2> QED BY <2>2, RetryFacts!TypesStay, RetryAssumptions
<1> QED BY <1>1, <1>2, UseInvHolds, PTL DEF Spec
-----------------------------------------------------------------------------
(* What one retry transition does to the evidence of the attempt.          *)

Attempt(started, terminal, released) ==
  /\ current_attempt' # None
  /\ current_attempt'.stream_started = started
  /\ current_attempt'.terminal_event_delivered = terminal
  /\ current_attempt'.resources_released = released

\* The attempt is typed, and a new lifecycle changes nothing else of it.
LEMMA AttemptFields ==
  ASSUME RetryFacts!TypeOK, current_attempt # None
  PROVE  /\ current_attempt \in Retry!AttemptStates
         /\ \A l \in Retry!Lifecycles :
              LET a == [current_attempt EXCEPT !.lifecycle = l] IN
              /\ a \in Retry!AttemptStates
              /\ a.stream_started = current_attempt.stream_started
              /\ a.terminal_event_delivered = current_attempt.terminal_event_delivered
              /\ a.resources_released = current_attempt.resources_released
BY RetryAssumptions DEF RetryFacts!TypeOK, RetryFacts!AttemptStates, Retry!AttemptStates,
   RetryFacts!Ids, Retry!Ids, RetryFacts!Kinds, Retry!Kinds, RetryFacts!Lifecycles,
   Retry!Lifecycles

\* A refresh keeps the evidence of the attempt it is applied to.
LEMMA RefreshKeepsEvidence ==
  ASSUME NEW a \in Retry!AttemptStates, NEW p, Retry!RefreshPostFailurePhase(a, p)
  PROVE  Attempt(a.stream_started, a.terminal_event_delivered, a.resources_released)
<1>1. [a EXCEPT !.lifecycle = "CleanupComplete"] \in Retry!AttemptStates
  BY DEF Retry!AttemptStates, Retry!Lifecycles
<1> QED BY <1>1, NoneAssumption
        DEF NoneAssumption, Retry!RefreshPostFailurePhase, Attempt, Retry!AttemptStates

\* A committed attempt has no evidence yet.
LEMMA CommitStartsAfresh ==
  ASSUME RetryFacts!TypeOK, NEW g, Retry!CommitInitialAttempt(g)
  PROVE  Attempt(FALSE, FALSE, FALSE)
<1>1. current_attempt' =
        [id |-> <<intent_generation, attempts_started + 1>>, kind |-> "ExplicitStart",
         lifecycle |-> "Committed", stream_started |-> FALSE,
         terminal_event_delivered |-> FALSE, resources_released |-> FALSE,
         failure |-> None]
  BY DEF Retry!CommitInitialAttempt, Retry!CommitAttempt
<1>2. intent_generation \in Nat /\ attempts_started \in Nat
  BY DEF RetryFacts!TypeOK
<1>3. current_attempt' \in Retry!AttemptStates
  BY <1>1, <1>2 DEF Retry!AttemptStates, Retry!Ids, Retry!Kinds, Retry!Lifecycles
<1> QED BY <1>1, <1>3, NoneAssumption DEF Attempt, NoneAssumption

\* The transitions that record something leave the intent alone.
LEMMA RecordsKeepIntent ==
  ASSUME NEW id,
         \/ Retry!CommitInitialAttempt(id)
         \/ Retry!RecordOwnerCreated(id) \/ Retry!RecordStreamStarted(id)
         \/ Retry!RecordNormalCompletion(id)
         \/ \E cause \in RetryFailures : Retry!RecordFailure(id, cause)
         \/ Retry!RecordTerminalEventDelivered(id) \/ Retry!RecordCleanupComplete(id)
  PROVE  UNCHANGED <<intent_generation, configuration_id, desired_running>>
BY DEF Retry!CommitInitialAttempt, Retry!CommitAttempt, Retry!RecordOwnerCreated,
       Retry!RecordStreamStarted, Retry!RecordNormalCompletion, Retry!RecordFailure,
       Retry!RecordTerminalEventDelivered, Retry!RecordCleanupComplete, Retry!intentVars

\* To record the owner or the outcome keeps the evidence of the attempt.
LEMMA OutcomeKeepsEvidence ==
  ASSUME RetryFacts!TypeOK, NEW id,
         \/ Retry!RecordOwnerCreated(id) \/ Retry!RecordNormalCompletion(id)
         \/ \E cause \in RetryFailures : Retry!RecordFailure(id, cause)
  PROVE  /\ current_attempt # None
         /\ Attempt(current_attempt.stream_started,
                    current_attempt.terminal_event_delivered,
                    current_attempt.resources_released)
<1>1. current_attempt # None
  BY DEF Retry!RecordOwnerCreated, Retry!RecordNormalCompletion, Retry!RecordFailure,
         Retry!IsCurrentAttempt
<1>2. CASE Retry!RecordOwnerCreated(id) \/ Retry!RecordNormalCompletion(id)
  BY <1>1, <1>2, AttemptFields, NoneAssumption
  DEF NoneAssumption, Attempt, Retry!RecordOwnerCreated, Retry!RecordNormalCompletion,
      Retry!Lifecycles
<1>3. ASSUME NEW cause \in RetryFailures, Retry!RecordFailure(id, cause)
      PROVE  Attempt(current_attempt.stream_started,
                    current_attempt.terminal_event_delivered,
                    current_attempt.resources_released)
  <2> DEFINE a == [current_attempt EXCEPT !.failure = cause, !.lifecycle = "Failed"]
  <2>1. /\ a \in Retry!AttemptStates
        /\ a.stream_started = current_attempt.stream_started
        /\ a.terminal_event_delivered = current_attempt.terminal_event_delivered
        /\ a.resources_released = current_attempt.resources_released
    BY <1>1, AttemptFields DEF Retry!AttemptStates, Retry!Lifecycles
  <2>2. Retry!RefreshPostFailurePhase(a, IF desired_running THEN "Failed" ELSE phase)
    BY <1>3 DEF Retry!RecordFailure
  <2> QED BY <2>1, <2>2, RefreshKeepsEvidence
<1> QED BY <1>1, <1>2, <1>3

\* To record that the stream has started adds only that.
LEMMA StartedIsRecorded ==
  ASSUME RetryFacts!TypeOK, NEW id, Retry!RecordStreamStarted(id)
  PROVE  /\ current_attempt # None
         /\ Attempt(TRUE, current_attempt.terminal_event_delivered,
                    current_attempt.resources_released)
<1>1. current_attempt # None
  BY DEF Retry!RecordStreamStarted, Retry!IsCurrentAttempt
<1> DEFINE a == [current_attempt EXCEPT !.lifecycle = "Running", !.stream_started = TRUE]
<1>2. /\ a \in Retry!AttemptStates
      /\ a.stream_started = TRUE
      /\ a.terminal_event_delivered = current_attempt.terminal_event_delivered
      /\ a.resources_released = current_attempt.resources_released
  BY <1>1, AttemptFields DEF Retry!AttemptStates, Retry!Lifecycles
<1> QED BY <1>1, <1>2, NoneAssumption
        DEF NoneAssumption, Attempt, Retry!RecordStreamStarted

\* To record the terminal event adds only that, to a stream that has started.
LEMMA TerminalIsRecorded ==
  ASSUME RetryFacts!TypeOK, NEW id, Retry!RecordTerminalEventDelivered(id)
  PROVE  /\ current_attempt # None /\ current_attempt.stream_started
         /\ Attempt(current_attempt.stream_started, TRUE,
                    current_attempt.resources_released)
<1>1. current_attempt # None /\ current_attempt.stream_started
  BY DEF Retry!RecordTerminalEventDelivered, Retry!IsCurrentAttempt
<1> DEFINE a == [current_attempt EXCEPT !.terminal_event_delivered = TRUE]
<1>2. /\ a \in Retry!AttemptStates
      /\ a.stream_started = current_attempt.stream_started
      /\ a.terminal_event_delivered = TRUE
      /\ a.resources_released = current_attempt.resources_released
  BY <1>1, AttemptFields DEF Retry!AttemptStates
<1>3. Retry!RefreshPostFailurePhase(a, phase)
  BY DEF Retry!RecordTerminalEventDelivered
<1> QED BY <1>1, <1>2, <1>3, RefreshKeepsEvidence

\* To record the cleanup adds only that the resources are released.
LEMMA CleanupIsRecorded ==
  ASSUME RetryFacts!TypeOK, NEW id, Retry!RecordCleanupComplete(id)
  PROVE  /\ current_attempt # None
         /\ Attempt(current_attempt.stream_started,
                    current_attempt.terminal_event_delivered, TRUE)
<1>1. current_attempt # None
  BY DEF Retry!RecordCleanupComplete, Retry!IsCurrentAttempt
<1>4. current_attempt \in Retry!AttemptStates
  BY <1>1, AttemptFields
<1>5. PICK lifecycle \in Retry!Lifecycles :
        lifecycle = IF Retry!CleanupEndsAttempt(current_attempt) THEN "CleanupComplete"
                    ELSE current_attempt.lifecycle
  BY <1>4 DEF Retry!AttemptStates, Retry!Lifecycles
<1>6. PICK a : a = [current_attempt EXCEPT !.resources_released = TRUE,
                                           !.lifecycle = lifecycle]
  OBVIOUS
<1>2. /\ a \in Retry!AttemptStates
      /\ a.stream_started = current_attempt.stream_started
      /\ a.terminal_event_delivered = current_attempt.terminal_event_delivered
      /\ a.resources_released = TRUE
  BY <1>4, <1>6 DEF Retry!AttemptStates
<1>3. Retry!RefreshPostFailurePhase(a, phase)
  BY <1>5, <1>6 DEF Retry!RecordCleanupComplete
<1> QED BY <1>1, <1>2, <1>3, RefreshKeepsEvidence

-----------------------------------------------------------------------------
(* What a call has recorded.                                               *)

\* The life of a supervisor: idle until its one intent is begun, completed when
\* it has an outcome, and evaluated by every call that returns after that.
LifeInv ==
  /\ outcome \in SupervisorCompletions \cup {None}
  /\ outcome # None => state = "Completed" /\ resources_released
  /\ call = "Wait" => outcome = None /\ (state = "Idle" => start_called)
  /\ state = "Idle" /\ intent_generation # 0 =>
       call \in (Starting \ {"BeginIntent"}) \cup {"Wait"}
  /\ intent_generation = 0 => current_attempt = None
  /\ intent_generation # 0 =>
       /\ configuration_id = "RecoveryDisabled"
       /\ call # "CommitAttempt" => current_attempt # None
  /\ recovery_evaluation # None => outcome # None /\ intent_generation # 0
  /\ call = "None" /\ outcome # None /\ intent_generation # 0 =>
       recovery_evaluation = RecoverySnapshot

\* What the callback wrapper saw is what the consumer was told, unless it
\* panicked.
SeenInv ==
  /\ observation \in [started: BOOLEAN, error: Owner!ErrorKinds \cup {None},
                      end_reason: Owner!EndReasons \cup {None}]
  /\ events # <<>> => events[1].kind = "Started"
  /\ observation.started => Owner!Has(events, "Started")
  /\ observation.end_reason # None => Owner!Has(events, "Ended")
  /\ result = Owner!Panicked => worker \in {"Closing", "Joining", "Exited"}
  /\ result # Owner!Panicked =>
       /\ Owner!Has(events, "Started") => observation.started
       /\ Owner!Has(events, "Ended") => observation.end_reason # None

\* The steps that record a completion bring the attempt's evidence to what was
\* seen, one fact each.
RecordInv ==
  current_attempt # None =>
    /\ current_attempt.stream_started => observation.started
    /\ current_attempt.terminal_event_delivered =>
         current_attempt.stream_started /\ observation.end_reason # None
    /\ outcome # None /\ call # "RecordStarted" =>
         (observation.started => current_attempt.stream_started)
    /\ outcome # None /\ call \notin {"RecordStarted", "RecordOutcome", "RecordTerminal"} =>
         (observation.started /\ observation.end_reason # None =>
            current_attempt.terminal_event_delivered)
    /\ outcome # None /\ call \notin {"RecordStarted", "RecordOutcome", "RecordTerminal",
                                     "RecordCleanup"} =>
         current_attempt.resources_released

\* What is evaluated does not change while neither the retry state nor the outcome
\* does.
LEMMA SameSnapshot ==
  ASSUME UNCHANGED retryVars, outcome' = outcome
  PROVE  RecoverySnapshot' = RecoverySnapshot
BY DEF RecoverySnapshot, Retry!Snapshot, Cause, PolicyEvidence, Decision, retryVars

\* Every completion of the owner has its supervisor completion.
LEMMA OutcomesAreCompletions ==
  ASSUME NEW c \in Owner!Completions
  PROVE  CompletionFrom(c) \in SupervisorCompletions
BY DEF Owner!Completions, Owner!RunErrors, Owner!FailureKinds, CompletionFrom,
       SupervisorCompletions, RunErrorKind

\* What a wait returns is a completion of the owner.
LEMMA WaitsReturnCompletions ==
  ASSUME OwnerInv, WaitReturns
  PROVE  completion' \in Owner!Completions /\ outcome' = CompletionFrom(completion')
<1>1. worker = "Exited" => result \in Owner!Completions
  BY DEF OwnerInv, OwnerFacts!StreamInv, OwnerFacts!ResultInv, OwnerFacts!Completions,
         OwnerFacts!CaptureEnds, OwnerFacts!RunErrors, OwnerFacts!FailureKinds,
         Owner!Completions, Owner!CaptureEnds, Owner!RunErrors, Owner!FailureKinds
<1>2. completion # None => completion \in Owner!Completions
  BY DEF OwnerInv, OwnerFacts!StreamInv, OwnerFacts!ResultInv, OwnerFacts!Completions,
         OwnerFacts!CaptureEnds, OwnerFacts!RunErrors, OwnerFacts!FailureKinds,
         Owner!Completions, Owner!CaptureEnds, Owner!RunErrors, Owner!FailureKinds
<1> QED BY <1>1, <1>2 DEF WaitReturns, Owner!WaitForCompletion, ownerVars

\* The life of the supervisor goes as it must, always.
LEMMA LifeInvHolds == Spec => []LifeInv
<1>1. Init => LifeInv
  BY DEF Init, Retry!Init, LifeInv
<1>2. OwnerInv /\ ReleaseInv /\ UseInv /\ RetryFacts!TypeOK /\ LifeInv /\ [Next]_vars => LifeInv'
  <2> SUFFICES ASSUME OwnerInv, ReleaseInv, UseInv, RetryFacts!TypeOK, LifeInv, [Next]_vars
               PROVE  LifeInv'
    OBVIOUS
  <2> USE DEF LifeInv, ReleaseInv, Starting, resultVars
  <2>1. CASE BeginStart \/ BeginWait \/ BeginStop \/ WaitTimesOut \/ StopCompleted
    BY <2>1 DEF BeginStart, BeginWait, BeginStop, WaitTimesOut, StopCompleted,
                retryVars, ownerVars
  <2>2. CASE BeginIntent
    <3>1. intent_generation \in Nat
      BY DEF RetryFacts!TypeOK
    <3> QED BY <2>2, <3>1 DEF BeginIntent, Retry!ExplicitStart, ownerVars
  <2>3. CASE CommitAttempt
    <3>1. /\ UNCHANGED <<intent_generation, configuration_id, desired_running>>
          /\ current_attempt' # None
          /\ intent_generation # 0
      BY <2>3, CommitStartsAfresh, RecordsKeepIntent
      DEF CommitAttempt, Attempt, Retry!CommitInitialAttempt
    <3> QED BY <2>3, <3>1 DEF CommitAttempt, ownerVars
  <2>4. CASE CreateOwner
    <3>1. /\ UNCHANGED <<intent_generation, configuration_id, desired_running>>
          /\ current_attempt # None /\ current_attempt' # None
      BY <2>4, OutcomeKeepsEvidence, RecordsKeepIntent
      DEF CreateOwner, Attempt, RetryFailures
    <3> QED BY <2>4, <3>1 DEF CreateOwner, ownerVars
  <2>5. CASE DisableIntent
    BY <2>5 DEF DisableIntent, Retry!ExplicitStop, ownerVars, retryVars
  <2>6. CASE ConstructionCleanup
    <3>1. /\ UNCHANGED <<intent_generation, configuration_id, desired_running>>
          /\ current_attempt # None /\ current_attempt' # None
      BY <2>6, CleanupIsRecorded, RecordsKeepIntent DEF ConstructionCleanup, Attempt
    <3>2. [status |-> "ConstructionFailed"] \in SupervisorCompletions
      BY DEF SupervisorCompletions
    <3>3. intent_generation # 0
      BY <3>1
    <3> QED BY <2>6, <3>1, <3>2, <3>3 DEF ConstructionCleanup, ownerVars
  <2>7. CASE StartOwner
    <3>1. start_called' = TRUE /\ outcome = None
      BY <2>7 DEF StartOwner, Owner!Start
    <3> QED BY <2>7, <3>1 DEF StartOwner, retryVars
  <2>8. CASE StopOwner
    BY <2>8 DEF StopOwner, retryVars
  <2>9. CASE StopIdle
    <3>1. [status |-> "StoppedBeforeStart"] \in SupervisorCompletions
      BY DEF SupervisorCompletions
    <3> QED BY <2>9, <3>1 DEF StopIdle, retryVars
  <2>10. CASE WaitReturns
    BY <2>10, WaitsReturnCompletions, OutcomesAreCompletions DEF WaitReturns, retryVars
  <2>11. CASE RecordStarted \/ RecordOutcome \/ RecordTerminal \/ RecordCleanup
    <3>1. \/ UNCHANGED retryVars
          \/ /\ UNCHANGED <<intent_generation, configuration_id, desired_running>>
             /\ current_attempt # None /\ current_attempt' # None
      BY <2>11, StartedIsRecorded, OutcomeKeepsEvidence, TerminalIsRecorded,
         CleanupIsRecorded, RecordsKeepIntent
      DEF RecordStarted, RecordOutcome, RecordTerminal, RecordCleanup, Attempt, UseInv
    <3>2. /\ RecordStep(call')
          /\ call' \in {"RecordOutcome", "RecordTerminal", "RecordCleanup", "Evaluate"}
          /\ call \in {"RecordStarted", "RecordOutcome", "RecordTerminal", "RecordCleanup"}
      BY <2>11 DEF RecordStarted, RecordOutcome, RecordTerminal, RecordCleanup, RecordStep
    <3> QED BY <3>1, <3>2 DEF RecordStep, retryVars, ownerVars
  <2>12. CASE Evaluate
    <3>1. RecoverySnapshot' = RecoverySnapshot
      BY <2>12, SameSnapshot DEF Evaluate
    <3> QED BY <2>12, <3>1 DEF Evaluate, retryVars, ownerVars
  <2>13. CASE OwnerStep \/ UNCHANGED vars
    <3>1. /\ UNCHANGED retryVars
          /\ UNCHANGED <<state, call, resultVars, recovery_evaluation>>
          /\ outcome' = outcome /\ start_called' = start_called
      BY <2>13, OwnerStepsKeepHolder DEF OwnerStep, vars, ownerVars
    <3>2. RecoverySnapshot' = RecoverySnapshot
      BY <3>1, SameSnapshot
    <3> QED BY <3>1, <3>2 DEF retryVars
  <2> QED BY <2>1, <2>2, <2>3, <2>4, <2>5, <2>6, <2>7, <2>8, <2>9, <2>10, <2>11, <2>12,
             <2>13 DEF Next, Continue
<1> QED BY <1>1, <1>2, OwnerInvHolds, ReleaseInvHolds, UseInvHolds, RetryTypesHold, PTL
        DEF Spec

-----------------------------------------------------------------------------
(* The evaluation is one: it is a decision of the policy on typed facts.   *)

\* A decision for any reason is a decision.
LEMMA DecisionsAreTyped ==
  \A reason \in Policy!RecoveryDecisionReasons :
    /\ Policy!RemainStopped(reason) \in Policy!RecoveryDecisions
    /\ Policy!Wait(reason) \in Policy!RecoveryDecisions
    /\ Policy!Permit(reason) \in Policy!RecoveryDecisions
BY DEF Policy!RecoveryDecisions, Policy!RemainStopped, Policy!Wait, Policy!Permit

\* The common preconditions give a decision or none.
LEMMA PreconditionType ==
  ASSUME NEW context, NEW cause, NEW ev
  PROVE  Policy!CommonPreconditions(context, cause, ev) \in Policy!RecoveryDecisions \cup {None}
BY DecisionsAreTyped DEF Policy!CommonPreconditions, Policy!MissingEvidence,
                         Policy!RecoveryDecisionReasons

\* The row of every cause gives a decision.
LEMMA CauseRowType ==
  ASSUME NEW cause \in Policy!RecoveryCauses, NEW ev
  PROVE  Policy!EvaluateCause(cause, ev) \in Policy!RecoveryDecisions
<1> USE DecisionsAreTyped DEF Policy!MissingEvidence, Policy!RecoveryDecisionReasons
<1>1. /\ Policy!EvaluateDeviceUnavailable(ev) \in Policy!RecoveryDecisions
      /\ Policy!EvaluateDefaultEndpointChange(ev) \in Policy!RecoveryDecisions
      /\ Policy!EvaluateFormatChange(ev) \in Policy!RecoveryDecisions
      /\ Policy!EvaluateInterruption(ev) \in Policy!RecoveryDecisions
      /\ Policy!EvaluateResourceExhaustion(ev) \in Policy!RecoveryDecisions
  BY DEF Policy!EvaluateDeviceUnavailable, Policy!EvaluateDefaultEndpointChange,
         Policy!EvaluateFormatChange, Policy!EvaluateInterruption,
         Policy!EvaluateResourceExhaustion
<1>2. \A hint : \A reason \in Policy!RecoveryDecisionReasons :
        Policy!EvaluateStoppedCause(hint, reason) \in Policy!RecoveryDecisions
  BY DEF Policy!EvaluateStoppedCause, Policy!RecoveryDecisionReasons
<1> QED BY <1>1, <1>2
        DEF Policy!EvaluateCause, Policy!RecoveryCauses, Policy!RetryFailureCauses,
            Policy!DeviceUnavailableCauses, Policy!SourceReconfigurationCauses

\* The evaluation of a cause gives a decision.
LEMMA RecoveryType ==
  ASSUME NEW context, NEW cause \in Policy!RecoveryCauses, NEW ev
  PROVE  Policy!EvaluateRecovery(context, cause, ev) \in Policy!RecoveryDecisions
BY PreconditionType, CauseRowType DEF Policy!EvaluateRecovery

\* The policy gives a decision, whatever its configuration.
LEMMA PolicyType ==
  ASSUME NEW configuration, NEW identity, NEW current, NEW retry, NEW context,
         NEW cause \in Policy!RecoveryCauses, NEW ev
  PROVE  Policy!EvaluateRecoveryPolicy(configuration, identity, current, retry,
                                       context, cause, ev) \in Policy!RecoveryDecisions
<1>1. ASSUME NEW disposition
      PROVE  Policy!EvaluateLimits(configuration, retry, context, cause, ev, disposition)
               \in Policy!RecoveryDecisions
  <2>1. \A e : Policy!AdditionalEvidence(disposition, e) \in Policy!RecoveryDecisions \cup {None}
    BY DecisionsAreTyped DEF Policy!AdditionalEvidence, Policy!MissingEvidence,
                             Policy!RecoveryDecisionReasons
  <2> QED BY <2>1, RecoveryType, DecisionsAreTyped
        DEF Policy!EvaluateLimits, Policy!RecoveryDecisionReasons
<1> QED BY <1>1, PreconditionType, RecoveryType, DecisionsAreTyped
        DEF Policy!EvaluateRecoveryPolicy, Policy!MissingEvidence,
            Policy!RecoveryDecisionReasons

\* The last failure has a cause to be retried.
LEMMA FailureIsTyped ==
  ASSUME RetryFacts!TypeOK, last_failure # None
  PROVE  last_failure.cause \in RetryFailures
BY DEF RetryFacts!TypeOK, RetryFacts!FailureRecords

\* The cause to be evaluated is one of the policy's.
LEMMA CauseType ==
  ASSUME RetryFacts!TypeOK
  PROVE  Cause \in Policy!RecoveryCauses
BY FailureIsTyped DEF Cause, Policy!CauseOfFailure, RetryFailures, Policy!RecoveryCauses,
   Policy!RetryFailureCauses, Policy!DeviceUnavailableCauses,
   Policy!SourceReconfigurationCauses

\* What a call stores is a snapshot of the evaluation.
LEMMA EvaluationType ==
  ASSUME RetryFacts!TypeOK, outcome \in SupervisorCompletions
  PROVE  RecoverySnapshot \in EvaluationSnapshots
<1>1. Retry!Snapshot \in Retry!Snapshots
  <2>1. RetryFacts!Snapshot \in RetryFacts!Snapshots
    BY RetryFacts!SnapshotType, RetryAssumptions
  <2>2. Retry!Snapshot = RetryFacts!Snapshot
    BY DEF Retry!Snapshot, RetryFacts!Snapshot
  <2> QED BY <2>1, <2>2, SameRetryValues
<1>2. PolicyEvidence \in Policy!RecoveryEvidence
  BY DEF PolicyEvidence, Policy!NoEvidence, Policy!Known, Policy!RecoveryEvidence,
         Policy!Fact
<1>3. Decision \in Policy!RecoveryDecisions
  BY CauseType, PolicyType DEF Decision
<1> QED BY <1>1, <1>2, <1>3, CauseType
        DEF RecoverySnapshot, EvaluationSnapshots, Policy!RecoveryDecisions

\* Whatever is stopped, started and waited for, and in whatever order: between
\* calls the recorded evaluation is the one of the present retry state.
THEOREM EvaluationStaysCurrent == Spec => []EvaluationIsCurrent
<1>1. RetryFacts!TypeOK /\ LifeInv => EvaluationIsCurrent
  <2> SUFFICES ASSUME RetryFacts!TypeOK, LifeInv, call = "None", outcome # None,
                      intent_generation # 0
               PROVE  /\ recovery_evaluation # None
                      /\ recovery_evaluation.retry_state = Retry!Snapshot
                      /\ recovery_evaluation.cause = Cause
                      /\ recovery_evaluation.completion = outcome
    BY DEF EvaluationIsCurrent
  <2>1. recovery_evaluation = RecoverySnapshot /\ outcome \in SupervisorCompletions
    BY DEF LifeInv
  <2>2. recovery_evaluation # None
    BY <2>1, EvaluationType, NoneAssumption DEF NoneAssumption
  <2> QED BY <2>1, <2>2 DEF RecoverySnapshot
<1> QED BY <1>1, LifeInvHolds, RetryTypesHold, PTL

-----------------------------------------------------------------------------
(* What the callback wrapper has seen.                                     *)

\* What is known of events after one more.
LEMMA OneEventMore ==
  ASSUME NEW s \in Seq(Owner!Events), NEW e \in Owner!Events
  PROVE  /\ Append(s, e) # <<>>
         /\ Append(s, e)[1] = IF s = <<>> THEN e ELSE s[1]
         /\ \A k : Owner!Has(Append(s, e), k) <=> Owner!Has(s, k) \/ e.kind = k
<1>1. /\ Len(s) \in Nat /\ DOMAIN s = 1 .. Len(s) /\ (s # <<>> => Len(s) # 0)
      /\ Len(Append(s, e)) = Len(s) + 1
      /\ DOMAIN Append(s, e) = 1 .. Len(s) + 1
      /\ \A i \in 1 .. Len(s) : Append(s, e)[i] = s[i]
      /\ Append(s, e)[Len(s) + 1] = e
  OBVIOUS
<1>2. \A k : Owner!Has(Append(s, e), k) <=> Owner!Has(s, k) \/ e.kind = k
  BY <1>1 DEF Owner!Has, Owner!Having
<1>3. Append(s, e) # <<>> /\ (s = <<>> => Len(s) = 0)
  BY <1>1
<1> QED BY <1>1, <1>2, <1>3

\* The event that is delivered next is the start if none was before it.
LEMMA NextEvent ==
  ASSUME OwnerInv, worker = "Delivering"
  PROVE  /\ events \in Seq(Owner!Events) /\ Head(pending) \in Owner!Events
         /\ events = <<>> => Head(pending).kind = "Started"
<1>1. Owner!Events = OwnerFacts!Events
  BY DEF Owner!Events, OwnerFacts!Events, Owner!ErrorKinds, OwnerFacts!ErrorKinds,
         Owner!EndReasons, OwnerFacts!EndReasons, Owner!FailureKinds,
         OwnerFacts!FailureKinds
<1>2. /\ events \in Seq(Owner!Events) /\ pending \in Seq(Owner!Events)
  BY <1>1, OwnerFacts!SequencesAreTyped, SupervisorAssumption
  DEF SupervisorAssumption, OwnerInv, OwnerFacts!StreamInv
<1>3. /\ pending # <<>>
      /\ events = <<>> => pending = <<OwnerFacts!StartedEvent>>
  BY DEF OwnerInv, OwnerFacts!StreamInv, OwnerFacts!TellInv, OwnerFacts!Streaming,
         OwnerFacts!Erred
<1> QED BY <1>2, <1>3 DEF OwnerFacts!StartedEvent

\* What is seen of an event is that it was told.
LEMMA Observed ==
  ASSUME NEW e \in Owner!Events,
         observation \in [started: BOOLEAN, error: Owner!ErrorKinds \cup {None},
                          end_reason: Owner!EndReasons \cup {None}]
  PROVE  LET seen == Observe(observation, e) IN
         /\ seen \in [started: BOOLEAN, error: Owner!ErrorKinds \cup {None},
                      end_reason: Owner!EndReasons \cup {None}]
         /\ seen.started <=> observation.started \/ e.kind = "Started"
         /\ seen.end_reason # None <=> observation.end_reason # None \/ e.kind = "Ended"
BY NoneAssumption DEF Observe, Owner!Events, NoneAssumption

\* What the wrapper saw is what the consumer was told, always.
LEMMA SeenInvHolds == Spec => []SeenInv
<1>1. Init => SeenInv
  <2>1. None # Owner!Panicked
    BY NoneAssumption DEF NoneAssumption, Owner!Panicked, Owner!Completions
  <2> QED BY <2>1 DEF Init, Owner!Init, SeenInv, NothingObserved, Owner!Has, Owner!Having
<1>2. OwnerInv /\ SeenInv /\ [Next]_vars => SeenInv'
  <2> SUFFICES ASSUME OwnerInv, SeenInv, [Next]_vars
               PROVE  SeenInv'
    OBVIOUS
  <2>1. ASSUME UNCHANGED <<observation, events>>,
               result' = Owner!Panicked => worker' \in {"Closing", "Joining", "Exited"},
               result = Owner!Panicked => result' = Owner!Panicked
        PROVE  SeenInv'
    BY <2>1 DEF SeenInv, Owner!Panicked
  <2>2. CASE \/ BeginStart \/ BeginWait \/ BeginStop \/ BeginIntent \/ DisableIntent
             \/ CommitAttempt \/ CreateOwner \/ ConstructionCleanup \/ StopIdle
             \/ StopCompleted \/ WaitTimesOut \/ Evaluate \/ UNCHANGED vars
    <3>1. UNCHANGED <<observation, events, result, worker>>
      BY <2>2 DEF BeginStart, BeginWait, BeginStop, BeginIntent, DisableIntent,
         CommitAttempt, CreateOwner, ConstructionCleanup, StopIdle, StopCompleted,
         WaitTimesOut, Evaluate, vars, ownerVars
    <3> QED BY <2>1, <3>1 DEF SeenInv
  <2>3. CASE RecordStarted \/ RecordOutcome \/ RecordTerminal \/ RecordCleanup
    <3>1. UNCHANGED <<observation, events, result, worker>>
      BY <2>3 DEF RecordStarted, RecordOutcome, RecordTerminal, RecordCleanup,
         RecordStep, ownerVars
    <3> QED BY <2>1, <3>1 DEF SeenInv
  <2>4. CASE StopOwner \/ WaitReturns
    <3>1. UNCHANGED <<observation, events, result, worker>>
      BY <2>4 DEF StopOwner, WaitReturns, Owner!RequestStop, Owner!WaitForCompletion,
                  Owner!workerVars, ownerVars
    <3> QED BY <2>1, <3>1 DEF SeenInv
  <2>5. CASE StartOwner
    <3>1. UNCHANGED <<observation, events, result>> /\ worker = "NotSpawned"
      BY <2>5 DEF StartOwner, Owner!Start, OwnerInv, OwnerFacts!StreamInv,
                  OwnerFacts!HandoffInv, OwnerFacts!LifetimeInv
    <3> QED BY <2>1, <3>1 DEF SeenInv
  <2>6. CASE DeliverAndObserve
    <3>1. /\ worker = "Delivering" /\ result' = result
          /\ events' = Append(events, Head(pending))
          /\ observation' = Observe(observation, Head(pending))
      BY <2>6 DEF DeliverAndObserve, Owner!Deliver
    <3>2. result # Owner!Panicked
      BY <3>1 DEF SeenInv
    <3> HIDE DEF Owner!Panicked
    <3> QED BY <3>1, <3>2, NextEvent, OneEventMore, Observed DEF SeenInv
  <2>7. CASE Owner!CallbackPanics /\ observation' = observation
    <3>1. /\ worker = "Delivering" /\ result' = Owner!Panicked /\ worker' = "Closing"
          /\ events' = Append(events, Head(pending))
          /\ observation' = observation
      BY <2>7 DEF Owner!CallbackPanics
    <3> QED BY <3>1, NextEvent, OneEventMore DEF SeenInv
  <2>8. CASE Owner!WorkerNext /\ worker # "Delivering" /\ observation' = observation
    <3>1. events' = events
      BY <2>8 DEF Owner!WorkerNext, Owner!SpawnCapture,
         Owner!ReceiveFirst, Owner!ReceivePacket, Owner!ReceiveBadPacket,
         Owner!RecycleFails, Owner!ReceiveEnd, Owner!Deliver, Owner!Drain,
         Owner!CloseCapture, Owner!JoinCapture
    <3>2. /\ result' = Owner!Panicked => worker' \in {"Closing", "Joining", "Exited"}
          /\ result = Owner!Panicked => result' = Owner!Panicked
      BY <2>8 DEF SeenInv, Owner!WorkerNext, Owner!SpawnCapture,
         Owner!ReceiveFirst, Owner!ReceivePacket, Owner!ReceiveBadPacket,
         Owner!RecycleFails, Owner!ReceiveEnd, Owner!Deliver, Owner!Drain,
         Owner!CloseCapture, Owner!JoinCapture, Owner!ReturnWith, Owner!DeliverThen,
         Owner!RunFailed, Owner!Finished, Owner!Panicked
    <3> QED BY <2>1, <2>8, <3>1, <3>2
  <2>9. CASE /\ observation' = observation
             /\ \/ Owner!CaptureNext \/ Owner!CapturePanics
                \/ \E end \in Owner!SignalledEnds : Owner!Notify(end)
    <3>1. UNCHANGED <<events, result, worker>>
      BY <2>9 DEF Owner!CaptureNext, Owner!OpenSource, Owner!StartStream,
         Owner!SendStarted, Owner!Poll, Owner!DeviceDrained, Owner!ReadPacket,
         Owner!SendPacket, Owner!SendEnded, Owner!Release, Owner!SendFailed,
         Owner!CapturePanics, Owner!Notify, Owner!workerVars
    <3> QED BY <2>1, <2>9, <3>1 DEF SeenInv
  <2>10. CASE OwnerStep
    BY <2>6, <2>7, <2>8, <2>9, <2>10 DEF OwnerStep
  <2> QED BY <2>2, <2>3, <2>4, <2>5, <2>10 DEF Next, Continue
<1> QED BY <1>1, <1>2, OwnerInvHolds, PTL DEF Spec

-----------------------------------------------------------------------------
(* What is recorded of an attempt.                                         *)

\* What is recorded of the attempt is what the wrapper saw, always.
LEMMA RecordInvHolds == Spec => []RecordInv
<1>1. Init => RecordInv
  BY DEF Init, Retry!Init, RecordInv
<1>2. OwnerInv /\ ReleaseInv /\ UseInv /\ RetryFacts!TypeOK /\ LifeInv /\ SeenInv
        /\ RecordInv /\ [Next]_vars => RecordInv'
  <2> SUFFICES ASSUME OwnerInv, ReleaseInv, UseInv, RetryFacts!TypeOK, LifeInv, SeenInv,
                      RecordInv, [Next]_vars
               PROVE  RecordInv'
    OBVIOUS
  <2>0. /\ call \in Starting => outcome = None
        /\ current_attempt # None => intent_generation # 0
    BY DEF ReleaseInv, LifeInv
  <2>1. CASE \/ BeginStart \/ BeginWait \/ BeginStop \/ StartOwner \/ StopOwner
             \/ WaitTimesOut \/ StopCompleted \/ Evaluate \/ UNCHANGED vars
    <3>1. /\ UNCHANGED <<current_attempt, observation, outcome>>
          /\ \/ call' = call
             \/ call \notin {"RecordStarted", "RecordOutcome", "RecordTerminal",
                             "RecordCleanup"}
      BY <2>1 DEF BeginStart, BeginWait, BeginStop, StartOwner, StopOwner, WaitTimesOut,
         StopCompleted, Evaluate, vars, retryVars, resultVars
    <3> QED BY <3>1 DEF RecordInv
  <2>2. CASE BeginIntent
    BY <2>2 DEF BeginIntent, Retry!ExplicitStart, RecordInv
  <2>3. CASE CommitAttempt
    <3>1. Attempt(FALSE, FALSE, FALSE) /\ outcome' = outcome /\ outcome = None
      BY <2>0, <2>3, CommitStartsAfresh DEF CommitAttempt, resultVars, Starting
    <3> QED BY <3>1 DEF RecordInv, Attempt
  <2>4. CASE CreateOwner
    <3>1. /\ current_attempt # None
          /\ Attempt(current_attempt.stream_started,
                     current_attempt.terminal_event_delivered,
                     current_attempt.resources_released)
      BY <2>4, OutcomeKeepsEvidence DEF CreateOwner, RetryFailures
    <3>2. UNCHANGED <<observation, outcome>> /\ outcome = None
      BY <2>0, <2>4 DEF CreateOwner, resultVars, Starting
    <3> QED BY <3>1, <3>2 DEF RecordInv, Attempt
  <2>5. CASE ConstructionCleanup
    <3>1. /\ current_attempt # None
          /\ Attempt(current_attempt.stream_started,
                     current_attempt.terminal_event_delivered, TRUE)
          /\ observation' = observation
      BY <2>5, CleanupIsRecorded DEF ConstructionCleanup
    <3>2. ~ observation.started
      <4>1. worker = "NotSpawned"
        BY <2>5 DEF ConstructionCleanup, ReleaseInv, Starting, OwnerInv,
           OwnerFacts!StreamInv, OwnerFacts!HandoffInv, OwnerFacts!LifetimeInv
      <4>2. events = <<>>
        BY <4>1 DEF OwnerInv, OwnerFacts!StreamInv, OwnerFacts!TellInv
      <4> QED BY <4>2 DEF SeenInv, Owner!Has, Owner!Having
    <3> QED BY <3>1, <3>2 DEF RecordInv, Attempt
  <2>6. CASE StopIdle \/ DisableIntent
    <3>1. UNCHANGED <<observation>> /\ current_attempt' = current_attempt
      BY <2>6 DEF StopIdle, DisableIntent, Retry!ExplicitStop, retryVars
    <3>2. CASE StopIdle
      BY <2>0, <3>1, <3>2 DEF StopIdle, LifeInv, RecordInv, Starting
    <3>3. CASE DisableIntent
      BY <3>1, <3>3 DEF DisableIntent, RecordInv, resultVars
    <3> QED BY <2>6, <3>2, <3>3
  <2>7. CASE WaitReturns
    BY <2>7 DEF WaitReturns, RecordInv, retryVars
  <2>8. CASE RecordStarted
    <3>1. UNCHANGED <<observation, outcome>> /\ call' = "RecordOutcome"
      BY <2>8 DEF RecordStarted, RecordStep, resultVars
    <3>2. CASE observation.started /\ ~current_attempt.stream_started
      <4>1. /\ current_attempt # None
            /\ Attempt(TRUE, current_attempt.terminal_event_delivered,
                       current_attempt.resources_released)
        BY <2>8, <3>2, StartedIsRecorded DEF RecordStarted
      <4> QED BY <3>1, <3>2, <4>1 DEF RecordInv, Attempt
    <3>3. CASE ~(observation.started /\ ~current_attempt.stream_started)
      BY <2>8, <3>1, <3>3 DEF RecordStarted, RecordInv, retryVars
    <3> QED BY <3>2, <3>3
  <2>9. CASE RecordOutcome
    <3>1. UNCHANGED <<observation, outcome>> /\ call = "RecordOutcome" /\ call' = "RecordTerminal"
      BY <2>9 DEF RecordOutcome, RecordStep, resultVars
    <3>2. /\ current_attempt # None
          /\ Attempt(current_attempt.stream_started,
                     current_attempt.terminal_event_delivered,
                     current_attempt.resources_released)
      BY <2>9, OutcomeKeepsEvidence DEF RecordOutcome, UseInv
    <3> QED BY <3>1, <3>2 DEF RecordInv, Attempt
  <2>10. CASE RecordTerminal
    <3>1. UNCHANGED <<observation, outcome>> /\ call = "RecordTerminal" /\ call' = "RecordCleanup"
      BY <2>10 DEF RecordTerminal, RecordStep, resultVars
    <3>2. CASE observation.started /\ observation.end_reason # None
      <4>1. /\ current_attempt # None
            /\ current_attempt.stream_started
            /\ Attempt(current_attempt.stream_started, TRUE,
                       current_attempt.resources_released)
        BY <2>10, <3>2, TerminalIsRecorded DEF RecordTerminal
      <4> QED BY <3>1, <3>2, <4>1 DEF RecordInv, Attempt
    <3>3. CASE ~(observation.started /\ observation.end_reason # None)
      BY <2>10, <3>1, <3>3 DEF RecordTerminal, RecordInv, retryVars
    <3> QED BY <3>2, <3>3
  <2>11. CASE RecordCleanup
    <3>1. UNCHANGED <<observation, outcome>> /\ call = "RecordCleanup"
      BY <2>11 DEF RecordCleanup, RecordStep, resultVars
    <3>2. /\ current_attempt # None
          /\ Attempt(current_attempt.stream_started,
                     current_attempt.terminal_event_delivered, TRUE)
      BY <2>11, CleanupIsRecorded DEF RecordCleanup
    <3> QED BY <3>1, <3>2 DEF RecordInv, Attempt
  <2>12. CASE OwnerStep
    <3>1. UNCHANGED <<current_attempt, outcome, call>>
      BY <2>12 DEF OwnerStep, retryVars, resultVars
    <3>2. CASE observation' = observation
      BY <3>1, <3>2 DEF RecordInv
    <3>3. CASE DeliverAndObserve
      <4>1. worker = "Delivering" /\ observation' = Observe(observation, Head(pending))
        BY <3>3 DEF DeliverAndObserve, Owner!Deliver
      <4>2. /\ observation.started => observation'.started
            /\ observation.end_reason # None => observation'.end_reason # None
        BY <4>1, NextEvent, Observed DEF SeenInv
      <4>3. outcome = None
        BY <4>1 DEF LifeInv, ReleaseInv, WorkerGone
      <4> QED BY <3>1, <4>2, <4>3 DEF RecordInv
    <3> QED BY <2>12, <3>2, <3>3 DEF OwnerStep
  <2> QED BY <2>1, <2>2, <2>3, <2>4, <2>5, <2>6, <2>7, <2>8, <2>9, <2>10, <2>11, <2>12
          DEF Next, Continue
<1> QED BY <1>1, <1>2, OwnerInvHolds, ReleaseInvHolds, UseInvHolds, RetryTypesHold,
           LifeInvHolds, SeenInvHolds, PTL DEF Spec

\* A consumer that was told the end was told the start.
LEMMA EndedHasStarted ==
  ASSUME SeenInv, Owner!Has(events, "Ended")
  PROVE  Owner!Has(events, "Started")
<1>1. PICK i \in DOMAIN events : events[i].kind = "Ended"
  BY DEF Owner!Has, Owner!Having
<1>2. events # <<>> /\ 1 \in DOMAIN events
  BY <1>1
<1> QED BY <1>2 DEF SeenInv, Owner!Has, Owner!Having

\* When no call is under way, the recorded evidence is what the consumer saw.
LEMMA RecordedIsSeen ==
  ASSUME LifeInv, SeenInv, RecordInv, call = "None", outcome # None, current_attempt # None
  PROVE  EvidenceIsWhatTheConsumerSaw
BY EndedHasStarted DEF SeenInv, RecordInv, EvidenceIsWhatTheConsumerSaw

\* However calls and the owner's own end interleave, a recorded completion credits
\* the attempt with Started and with its terminal event exactly when the consumer
\* was given them.
THEOREM EvidenceWasSeen == Spec => []EvidenceIsWhatTheConsumerSaw
<1>1. LifeInv /\ SeenInv /\ RecordInv => EvidenceIsWhatTheConsumerSaw
  BY RecordedIsSeen DEF EvidenceIsWhatTheConsumerSaw
<1> QED BY <1>1, LifeInvHolds, SeenInvHolds, RecordInvHolds, PTL

-----------------------------------------------------------------------------
(* The decision with recovery disabled.                                    *)

Intent == [desired_running |-> desired_running,
           current_intent_generation |-> intent_generation,
           evaluated_intent_generation |-> intent_generation]

\* Recovery disabled classes every failure the supervisor records as one that is
\* not retried.
LEMMA NothingIsRetried ==
  ASSUME NEW failure \in RetryFailures
  PROVE  Policy!RecoveryDisabled(1).failure_classification[Policy!FailureClass(failure)]
           = "NonRetryable"
<1>1. Policy!FailureClass(failure) \in
        {"OwnerConstructionFailure", "DeviceUnavailable", "UnsupportedFormat",
         "InternalFailure", "StartupFailure", "WorkerPanic"}
  BY DEF RetryFailures, Policy!FailureClass, Policy!DeviceUnavailableCauses,
         Policy!SourceReconfigurationCauses
<1>2. {"OwnerConstructionFailure", "DeviceUnavailable", "UnsupportedFormat",
       "InternalFailure", "StartupFailure", "WorkerPanic"}
        \subseteq Policy!RecoveryFailureClasses
  <2>1. /\ Len(Policy!FailureClassOrder) = 9
        /\ Policy!FailureClassOrder[1] = "OwnerConstructionFailure"
        /\ Policy!FailureClassOrder[2] = "DeviceUnavailable"
        /\ Policy!FailureClassOrder[6] = "UnsupportedFormat"
        /\ Policy!FailureClassOrder[7] = "InternalFailure"
        /\ Policy!FailureClassOrder[8] = "StartupFailure"
        /\ Policy!FailureClassOrder[9] = "WorkerPanic"
    BY DEF Policy!FailureClassOrder
  <2>2. \A i \in 1 .. 9 : Policy!FailureClassOrder[i] \in Policy!RecoveryFailureClasses
    BY <2>1 DEF Policy!RecoveryFailureClasses
  <2>3. 1 \in 1 .. 9 /\ 2 \in 1 .. 9 /\ 6 \in 1 .. 9 /\ 7 \in 1 .. 9 /\ 8 \in 1 .. 9
          /\ 9 \in 1 .. 9
    OBVIOUS
  <2> QED BY <2>1, <2>2, <2>3
<1> QED BY <1>1, <1>2 DEF Policy!RecoveryDisabled, Policy!Uniform

\* What the evaluation of a completed attempt goes by.
LEMMA EvidenceOfCompletion ==
  ASSUME LifeInv, RecordInv, call = "None", outcome # None, intent_generation # 0
  PROVE  /\ configuration_id = "RecoveryDisabled" /\ current_attempt # None
         /\ PolicyEvidence.owner_completed = "Yes"
         /\ PolicyEvidence.resources_released = "Yes"
         /\ PolicyEvidence.stream_started = Policy!Known(current_attempt.stream_started)
         /\ PolicyEvidence.terminal_event_delivered =
              Policy!Known(current_attempt.terminal_event_delivered)
<1>1. configuration_id = "RecoveryDisabled" /\ current_attempt # None
  BY DEF LifeInv
<1>2. current_attempt.resources_released
  BY <1>1 DEF RecordInv
<1> QED BY <1>1, <1>2 DEF PolicyEvidence, Policy!NoEvidence, Policy!Known

\* What is decided when nothing is to be recovered follows from the evidence.
LEMMA DecisionOfStream ==
  ASSUME RetryFacts!TypeOK, LifeInv, RecordInv, call = "None", outcome # None,
         intent_generation # 0
  PROVE  IF desired_running
         THEN Decision.class = IF /\ current_attempt.stream_started
                                  /\ ~ current_attempt.terminal_event_delivered
                               THEN "Wait" ELSE "RemainStopped"
         ELSE Decision = Policy!RemainStopped("ExplicitStop")
<1> USE DEF Intent
<1>1. Decision = Policy!EvaluateRecoveryPolicy(
                   Policy!RecoveryDisabled(1), "RecoveryDisabled", "RecoveryDisabled",
                   Retry!Snapshot, Intent, Cause, PolicyEvidence)
  BY DEF Decision
<1>2. CASE ~ desired_running
  BY <1>1, <1>2 DEF Policy!EvaluateRecoveryPolicy
<1>3. CASE desired_running
  <2> DEFINE early == Policy!CommonPreconditions(Intent, Cause, PolicyEvidence)
  <2>1. /\ Cause # "ExplicitStop"
        /\ last_failure = None => Cause = "NormalShutdown"
        /\ last_failure # None => Policy!CauseMatchesFailure(Cause, last_failure.cause)
    BY <1>3, FailureIsTyped
    DEF Cause, Policy!CauseOfFailure, RetryFailures, Policy!CauseMatchesFailure
  <2>2. /\ Retry!Snapshot.configuration_id = "RecoveryDisabled"
        /\ Retry!Snapshot.desired_running = desired_running
        /\ Retry!Snapshot.intent_generation = intent_generation
        /\ Retry!Snapshot.last_failure = last_failure
    BY EvidenceOfCompletion DEF Retry!Snapshot
  <2>3. current_attempt.stream_started \in BOOLEAN
          /\ current_attempt.terminal_event_delivered \in BOOLEAN
    BY EvidenceOfCompletion DEF RetryFacts!TypeOK, RetryFacts!AttemptStates
  <2>4. early = IF current_attempt.stream_started
                     /\ ~ current_attempt.terminal_event_delivered
                THEN Policy!Wait("TerminalBoundaryPending")
                ELSE IF ~ current_attempt.stream_started
                          /\ current_attempt.terminal_event_delivered
                THEN Policy!RemainStopped("InconsistentEvidence") ELSE None
    BY <1>3, <2>1, <2>3, EvidenceOfCompletion, NoneAssumption
    DEF Policy!CommonPreconditions, Policy!Known, NoneAssumption
  <2>5. /\ Policy!Wait("TerminalBoundaryPending") # None
        /\ Policy!Wait("TerminalBoundaryPending").class = "Wait"
        /\ \A reason \in Policy!RecoveryDecisionReasons :
             /\ Policy!RemainStopped(reason) # None
             /\ Policy!RemainStopped(reason).class = "RemainStopped"
    BY DecisionsAreTyped, NoneAssumption
    DEF NoneAssumption, Policy!Wait, Policy!RemainStopped, Policy!RecoveryDecisionReasons
  <2> HIDE DEF early
  <2>6. CASE early # None
    <3>1. Decision = early
      BY <1>1, <1>3, <2>1, <2>2, <2>6 DEF Policy!EvaluateRecoveryPolicy, early
    <3> QED BY <1>3, <2>4, <2>5, <2>6, <3>1 DEF Policy!RecoveryDecisionReasons
  <2>7. CASE early = None
    <3>1. ~ (current_attempt.stream_started /\ ~ current_attempt.terminal_event_delivered)
      BY <2>4, <2>5, <2>7
    <3>2. CASE last_failure = None
      <4>1. Decision = Policy!EvaluateRecovery(Intent, Cause, PolicyEvidence)
        BY <1>1, <1>3, <2>1, <2>2, <2>7, <3>2 DEF Policy!EvaluateRecoveryPolicy, early
      <4>2. Decision = Policy!EvaluateCause("NormalShutdown", PolicyEvidence)
        BY <2>1, <2>7, <3>2, <4>1 DEF Policy!EvaluateRecovery, early
      <4>3. Decision = Policy!RemainStopped("NormalShutdown")
        BY <4>2 DEF Policy!EvaluateCause, Policy!DeviceUnavailableCauses
      <4> QED BY <1>3, <2>5, <3>1, <4>3 DEF Policy!RecoveryDecisionReasons
    <3>3. CASE last_failure # None
      <4>1. Decision = Policy!EvaluateLimits(Policy!RecoveryDisabled(1), Retry!Snapshot,
                         Intent, Cause, PolicyEvidence, "NonRetryable")
        BY <1>1, <1>3, <2>1, <2>2, <2>7, <3>3, FailureIsTyped, NothingIsRetried
        DEF Policy!EvaluateRecoveryPolicy, early
      <4>2. Decision = Policy!RemainStopped("ConfiguredNonRetryable")
        BY <4>1 DEF Policy!EvaluateLimits
      <4> QED BY <1>3, <2>5, <3>1, <4>2 DEF Policy!RecoveryDecisionReasons
    <3> QED BY <3>2, <3>3
  <2> QED BY <2>6, <2>7
<1> QED BY <1>2, <1>3

\* A stop overrides everything, a stream that was started and never ended keeps the
\* policy waiting, and every other completion stays stopped, whatever the owner
\* ended with: nothing is permitted with recovery disabled.
THEOREM DecisionFollows == Spec => []DecisionFollowsTheStream
<1>1. RetryFacts!TypeOK /\ LifeInv /\ SeenInv /\ RecordInv => DecisionFollowsTheStream
  <2> SUFFICES ASSUME RetryFacts!TypeOK, LifeInv, SeenInv, RecordInv, call = "None",
                      recovery_evaluation # None, result # Owner!Panicked
               PROVE  IF desired_running
                      THEN recovery_evaluation.decision.class =
                             IF Owner!Has(events, "Started") /\ ~ Owner!Has(events, "Ended")
                             THEN "Wait" ELSE "RemainStopped"
                      ELSE recovery_evaluation.decision = Policy!RemainStopped("ExplicitStop")
    BY DEF DecisionFollowsTheStream
  <2>1. outcome # None /\ intent_generation # 0 /\ current_attempt # None
    BY DEF LifeInv
  <2>2. recovery_evaluation.decision = Decision
    BY <2>1 DEF LifeInv, RecoverySnapshot
  <2>3. /\ Owner!Has(events, "Started") <=> current_attempt.stream_started
        /\ Owner!Has(events, "Ended") <=> current_attempt.terminal_event_delivered
    BY <2>1, RecordedIsSeen DEF EvidenceIsWhatTheConsumerSaw
  <2> QED BY <2>1, <2>2, <2>3, DecisionOfStream
<1> QED BY <1>1, LifeInvHolds, SeenInvHolds, RecordInvHolds, RetryTypesHold, PTL
=============================================================================
