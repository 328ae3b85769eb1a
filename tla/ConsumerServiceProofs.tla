----------------------- MODULE ConsumerServiceProofs -----------------------
(***************************************************************************)
(* Proofs about the consumer service, for every number of clients, limit,  *)
(* queue and packet size: the session limit and its slots, what is left of *)
(* a service that was joined, why a session is stopped, and what of the    *)
(* stream reaches the client.  SlotInv is about where the tasks are;       *)
(* ReasonInv adds the flags and what may be in queue and wire;             *)
(* SessionsDeliver adds where in the stream each of those messages is.     *)
(***************************************************************************)
EXTENDS ConsumerService, EventSequenceProofs

Holders == {s \in Sessions : task[s] \in Connected}
Quiet == {"None", "Done"}
OwnerHeld == {"Polling", "Stopping", "Reporting", "Finishing", "Dropping"}

SlotTypes ==
  /\ task \in [Sessions -> Tasks]
  /\ capture \in [Sessions -> CaptureSteps]
  /\ owner \in [Sessions -> {"None", "Running"} \cup Completions]
  /\ observed \in [Sessions -> Nat]

\* The counter is the number of connections past the limit.
SlotsCounted == active = Cardinality(Holders) /\ active <= Limit

\* What a session's two tasks know of each other: no capture before the upgrade,
\* no owner outside the capture, and outside a connection no capture unless the
\* runtime was dropped under it.
SessionInv(s) ==
  /\ task[s] \in {"Acquiring", "Upgrading"} => capture[s] = "None"
  /\ owner[s] = "Running" => capture[s] \in OwnerHeld
  /\ serving # "Dropped" /\ task[s] \notin Connected => capture[s] \in Quiet

\* Nothing runs before the runtime is up or after its drop has returned.
ServiceInv ==
  /\ worker # "Serving" =>
       \A s \in Sessions : task[s] = "Idle" /\ capture[s] \in Quiet
  /\ joined => worker = "Exited"

SlotInv ==
  /\ SlotTypes /\ SlotsCounted /\ ServiceInv
  /\ \A s \in Sessions : SessionInv(s)

\* One session moved, in a runtime that is up.
SessionStep(s) ==
  /\ worker = "Serving" /\ UNCHANGED <<worker, joined, serving>>
  /\ \A r \in Sessions \ {s} :
       task'[r] = task[r] /\ capture'[r] = capture[r] /\ owner'[r] = owner[r]

-----------------------------------------------------------------------------
(* The counter and the connections.                                        *)

\* The holders of the service can be counted.
LEMMA HoldersAreFinite ==
  IsFiniteSet(Holders) /\ Cardinality(Holders) \in Nat
<1>1. IsFiniteSet(Holders)
  <2>1. Holders \in SUBSET Sessions
    BY DEF Holders
  <2> QED BY <2>1, FS_Subset, SessionAssumption
<1> QED BY <1>1, FS_CardinalityType

\* A session that stays on its side of the limit leaves the count alone.
LEMMA SlotKept ==
  ASSUME SlotInv, NEW s \in Sessions, SessionStep(s), active' = active,
         task'[s] \in Connected <=> task[s] \in Connected
  PROVE  SlotsCounted'
<1>1. Holders' = Holders
  BY DEF Holders, SessionStep
<1> QED BY <1>1 DEF SlotInv, SlotsCounted

\* The compare-and-exchange counts the session it lets in.
LEMMA SlotTaken ==
  ASSUME SlotInv, NEW s \in Sessions, SessionStep(s), active' = active + 1,
         active < Limit, task'[s] \in Connected, task[s] \notin Connected
  PROVE  SlotsCounted'
<1>1. Holders' = Holders \cup {s} /\ s \notin Holders
  BY DEF Holders, SessionStep
<1>2. Cardinality(Holders') = Cardinality(Holders) + 1
  BY <1>1, HoldersAreFinite, FS_AddElement
<1> QED BY <1>2, HoldersAreFinite, SessionAssumption DEF SlotInv, SlotsCounted

\* Dropping ActiveSession gives exactly one slot back.
LEMMA SlotFreed ==
  ASSUME SlotInv, NEW s \in Sessions, SessionStep(s), active' = active - 1,
         task'[s] \notin Connected, task[s] \in Connected
  PROVE  SlotsCounted'
<1>1. Holders' = Holders \ {s} /\ s \in Holders
  BY DEF Holders, SessionStep
<1>2. Cardinality(Holders') = Cardinality(Holders) - 1
  BY <1>1, HoldersAreFinite, FS_RemoveElement
<1> QED BY <1>2, HoldersAreFinite, SessionAssumption DEF SlotInv, SlotsCounted

\* What is left to show of a step of one session.
LEMMA OneSession ==
  ASSUME SlotInv, NEW s \in Sessions, SessionStep(s),
         SlotTypes', SlotsCounted', SessionInv(s)'
  PROVE  SlotInv'
<1>1. ASSUME NEW r \in Sessions
      PROVE  SessionInv(r)'
  <2>1. CASE r = s
    BY <2>1
  <2>2. CASE r # s
    BY <2>2 DEF SessionStep, SlotInv, SessionInv
  <2> QED BY <2>1, <2>2
<1>2. ServiceInv'
  BY DEF SlotInv, ServiceInv, SessionStep
<1> QED BY <1>1, <1>2 DEF SlotInv

-----------------------------------------------------------------------------
(* The steps of a session.                                                 *)

\* The handler, up to the upgrade.
LEMMA HandlerKeepsSlots ==
  ASSUME SlotInv, NEW s \in Sessions,
         InRuntime(Request(s) \/ Handler(s) \/ UpgradeFails(s) \/ Upgrade(s))
  PROVE  SlotInv'
<1> USE DEF InRuntime, Moves, Connected
<1>1. CASE Request(s)
  <2>1. SlotTypes' /\ SessionStep(s) /\ SessionInv(s)'
    BY <1>1, HoldersAreFinite
    DEF Request, SlotInv, SlotTypes, SlotsCounted, SessionStep, SessionInv, Tasks,
        captureVars, ownerVars, serviceVars, workerVars, holderVars, Quiet
  <2>2. SlotsCounted'
    BY <1>1, <2>1, SlotKept DEF Request, SlotInv, SlotTypes
  <2> QED BY <2>1, <2>2, OneSession
<1>2. CASE Reject(s) \/ AcquireRaces(s)
  <2>1. SlotTypes' /\ SessionStep(s) /\ SessionInv(s)'
    BY <1>2, HoldersAreFinite
    DEF Reject, AcquireRaces, SlotInv, SlotTypes, SlotsCounted, SessionStep,
        SessionInv, Tasks, captureVars, ownerVars, serviceVars, workerVars,
        holderVars, Quiet
  <2>2. SlotsCounted'
    BY <1>2, <2>1, SlotKept DEF Reject, AcquireRaces, SlotInv, SlotTypes
  <2> QED BY <2>1, <2>2, OneSession
<1>3. CASE Acquire(s)
  <2>1. SlotTypes' /\ SessionStep(s) /\ SessionInv(s)'
    BY <1>3
    DEF Acquire, SlotInv, SlotTypes, SessionStep, SessionInv, Tasks, captureVars,
        ownerVars, serviceVars, workerVars, holderVars, Quiet
  <2>2. SlotsCounted'
    BY <1>3, <2>1, SlotTaken DEF Acquire, SlotInv, SlotTypes
  <2> QED BY <2>1, <2>2, OneSession
<1>4. CASE UpgradeFails(s)
  <2>1. SlotTypes' /\ SessionStep(s) /\ SessionInv(s)'
    BY <1>4
    DEF UpgradeFails, SlotInv, SlotTypes, SessionStep, SessionInv, Tasks,
        captureVars, ownerVars, serviceVars, workerVars, holderVars, Quiet
  <2>2. SlotsCounted'
    BY <1>4, <2>1, SlotFreed DEF UpgradeFails, SlotInv, SlotTypes
  <2> QED BY <2>1, <2>2, OneSession
<1>5. CASE Upgrade(s)
  <2>1. SlotTypes' /\ SessionStep(s) /\ SessionInv(s)'
    BY <1>5
    DEF Upgrade, Captures, SlotInv, SlotTypes, SessionStep, SessionInv, Tasks,
        CaptureSteps, OwnerHeld, ownerVars, serviceVars, workerVars, holderVars
  <2>2. SlotsCounted'
    BY <1>5, <2>1, SlotKept DEF Upgrade, SlotInv, SlotTypes
  <2> QED BY <2>1, <2>2, OneSession
<1> QED BY <1>1, <1>2, <1>3, <1>4, <1>5 DEF Handler

\* The socket loop moves only between places within the connection, and leaves
\* the capture to itself.
LEMMA LoopKeepsSlots ==
  ASSUME SlotInv, NEW s \in Sessions,
         InRuntime(\/ Proceed(s) \/ TooSlow(s) \/ ShutdownSeen(s) \/ Receive(s)
                   \/ Ignored(s) \/ ClientGone(s) \/ ClientStops(s)
                   \/ StopAsked(s) \/ Join(s))
  PROVE  SlotInv'
<1>1. /\ LoopFrame
      /\ \E next \in Connected \ {"Upgrading"} : task' = [task EXCEPT ![s] = next]
      /\ task[s] \in Connected \ {"Upgrading"}
  BY DEF InRuntime, Proceed, TooSlow, ShutdownSeen, Receive, ReceiveEvent, SendFails,
         ReceiveStartupFailure, ReceiveEnd, Received, Ignored, ClientGone,
         ClientStops, StopAsked, Join, Leave, Moves, Connected
<1>2. SlotTypes' /\ SessionStep(s) /\ SessionInv(s)'
  BY <1>1
  DEF InRuntime, LoopFrame, SlotInv, SlotTypes, SessionStep, SessionInv, Tasks,
      Connected, captureVars, ownerVars, serviceVars, workerVars, holderVars
<1>3. SlotsCounted'
  BY <1>1, <1>2, SlotKept DEF LoopFrame, SlotInv, SlotTypes
<1> QED BY <1>2, <1>3, OneSession

\* Closing, and the drop of the runtime, free the slot with the task.
LEMMA LeavingKeepsSlots ==
  ASSUME SlotInv, NEW s \in Sessions, InRuntime(Close(s) \/ Cancel(s))
  PROVE  SlotInv'
<1>1. SlotTypes' /\ SessionStep(s) /\ SessionInv(s)'
  BY DEF InRuntime, Close, Cancel, Moves, Captures, SlotInv, SlotTypes, SessionStep,
         SessionInv, Tasks, Connected, CaptureSteps, Quiet, captureVars, ownerVars,
         serviceVars, workerVars, holderVars
<1>2. SlotsCounted'
  BY <1>1, SlotFreed DEF InRuntime, Close, Cancel, Moves, Connected, SlotInv, SlotTypes
<1> QED BY <1>1, <1>2, OneSession

\* The capture task moves between places that hold the owner, takes it at its
\* start and gives it up completed.
LEMMA CaptureKeepsSlots ==
  ASSUME SlotInv, NEW s \in Sessions, InRuntime(CaptureTask(s))
  PROVE  SlotInv'
<1>1. UNCHANGED <<serviceVars, slotVars>>
  BY DEF InRuntime, CaptureTask, Begin, NeverBegins, StartSupervisor, StopSupervisor,
         OwnerJoined, StopTimesOut, Report, Finish, DropSupervisor, SupervisorFrame
<1>2. SlotTypes' /\ SessionStep(s)
  BY <1>1
  DEF InRuntime, CaptureTask, Begin, NeverBegins, StartSupervisor, StopSupervisor,
      OwnerJoined, StopTimesOut, Report, Finish, DropSupervisor, AfterLoop,
      Captures, SlotInv, SlotTypes, SessionStep, CaptureSteps, Completions,
      slotVars, ownerVars, serviceVars, workerVars, holderVars
<1>3. SessionInv(s)'
  BY <1>1
  DEF InRuntime, CaptureTask, Begin, NeverBegins, StartSupervisor, StopSupervisor,
      OwnerJoined, StopTimesOut, Report, Finish, DropSupervisor, AfterLoop,
      Captures, SlotInv, SlotTypes, SessionInv, CaptureSteps, Completions, OwnerHeld,
      Quiet, slotVars, ownerVars, serviceVars
<1>4. SlotsCounted'
  BY <1>1, <1>2, SlotKept DEF slotVars
<1> QED BY <1>2, <1>3, <1>4, OneSession

\* The owner's worker can only complete the owner.
LEMMA OwnerKeepsSlots ==
  ASSUME SlotInv, NEW s \in Sessions, InRuntime(OwnerWorker(s))
  PROVE  SlotInv'
<1>1. /\ UNCHANGED <<serviceVars, slotVars, capture>>
      /\ owner' = owner \/ \E how \in Completions : owner' = [owner EXCEPT ![s] = how]
  BY DEF InRuntime, OwnerWorker, OnStarted, OnData, OnDataRefused, OnError, OnEnded,
         Callback, SendNext, SendRefused, StoreUnhealthy, OwnerCompletes,
         CallbackFrame, SendFrame, captureVars
<1>2. SlotTypes' /\ SessionStep(s) /\ SessionInv(s)'
  BY <1>1
  DEF InRuntime, SlotInv, SlotTypes, SessionStep, SessionInv, Completions, slotVars,
      serviceVars, workerVars, holderVars
<1>3. SlotsCounted'
  BY <1>1, <1>2, SlotKept DEF slotVars
<1> QED BY <1>2, <1>3, OneSession

-----------------------------------------------------------------------------
(* The service around them.                                                *)

\* The worker waits for every session before it reports, the holder for the
\* worker before it has joined.
LEMMA ServiceKeepsSlots ==
  ASSUME SlotInv, Worker \/ HolderNext \/ RequestEnds \/ UNCHANGED vars
  PROVE  SlotInv'
<1>1. UNCHANGED <<active, task, observed, capture, owner>>
  BY DEF Worker, Bind, Drain, ServeReturns, RuntimeDropped, PublishState, SendStopped,
         HolderNext, Holder, StartReturns, StartFails, StartTimesOut, StartAbandoned,
         BeginShutdown, ShutdownTimesOut, ReceiveStopped, JoinWorker, HolderFrame,
         RequestEnds, vars, sessionVars, slotVars, captureVars, ownerVars
<1>2. serving' = serving \/ serving' \in {"Draining", "Dropped"}
  BY DEF Worker, Bind, Drain, ServeReturns, RuntimeDropped, PublishState, SendStopped,
         HolderNext, Holder, StartReturns, StartFails, StartTimesOut, StartAbandoned,
         BeginShutdown, ShutdownTimesOut, ReceiveStopped, JoinWorker, HolderFrame,
         RequestEnds, vars, sessionVars, serviceVars
<1>3. serving = "Dropped" => serving' = "Dropped"
  BY DEF Worker, Bind, Drain, ServeReturns, RuntimeDropped, PublishState, SendStopped,
         HolderNext, Holder, StartReturns, StartFails, StartTimesOut, StartAbandoned,
         BeginShutdown, ShutdownTimesOut, ReceiveStopped, JoinWorker, HolderFrame,
         RequestEnds, vars, sessionVars, serviceVars
<1>4. ServiceInv'
  BY <1>1
  DEF SlotInv, ServiceInv, Worker, Bind, Drain, ServeReturns, RuntimeDropped,
      PublishState, SendStopped, HolderNext, Holder, StartReturns, StartFails,
      StartTimesOut, StartAbandoned, BeginShutdown, ShutdownTimesOut,
      ReceiveStopped, JoinWorker, HolderFrame, RequestEnds, vars, workerVars,
      holderVars, Quiet
<1>5. \A s \in Sessions : SessionInv(s)'
  BY <1>1, <1>3 DEF SlotInv, SessionInv
<1>6. Holders' = Holders
  BY <1>1 DEF Holders
<1> QED BY <1>1, <1>4, <1>5, <1>6 DEF SlotInv, SlotTypes, SlotsCounted

\* The slot belongs to one session at a time, always.
LEMMA SlotInvHolds == Spec => []SlotInv
<1>1. Init => SlotInv
  <2> SUFFICES ASSUME Init PROVE SlotInv
    OBVIOUS
  <2>1. Holders = {}
    BY DEF Init, SessionInit, Holders, Connected
  <2>2. SlotsCounted
    BY <2>1, FS_EmptySet, SessionAssumption DEF Init, SessionInit, SlotsCounted
  <2> QED BY <2>2 DEF Init, SessionInit, SlotInv, SlotTypes, SessionInv, ServiceInv,
                      Tasks, CaptureSteps, Quiet
<1>2. SlotInv /\ [Next]_vars => SlotInv'
  <2> SUFFICES ASSUME SlotInv, [Next]_vars PROVE SlotInv'
    OBVIOUS
  <2>1. CASE Worker \/ HolderNext \/ RequestEnds \/ UNCHANGED vars
    BY <2>1, ServiceKeepsSlots
  <2>2. ASSUME NEW s \in Sessions,
               \/ InRuntime(Handler(s)) \/ InRuntime(SocketTask(s))
               \/ InRuntime(Client(s)) \/ InRuntime(CaptureTask(s))
               \/ InRuntime(OwnerWorker(s))
        PROVE  SlotInv'
    BY <2>2, HandlerKeepsSlots, LoopKeepsSlots, LeavingKeepsSlots, CaptureKeepsSlots,
       OwnerKeepsSlots
    DEF InRuntime, SocketTask, Client
  <2> QED BY <2>1, <2>2 DEF Next
<1> QED BY <1>1, <1>2, PTL DEF Spec

\* Concurrent requests never get past MAX_ACTIVE_SESSIONS, every slot is given
\* back exactly once whichever way a session ends, and while the runtime lives no
\* capture runs without the slot of its session.
THEOREM SlotsAccounted == Spec => []SlotsAreAccounted
<1>1. SlotInv => SlotsAreAccounted
  BY DEF SlotInv, SlotsCounted, SessionInv, Holders, SlotsAreAccounted, Quiet
<1> QED BY <1>1, SlotInvHolds, PTL

\* A holder whose start failed or whose shutdown joined the worker has nothing
\* of the service left: no task, no capture thread, no owner.
THEOREM JoinedIsQuiet == Spec => []JoinedMeansQuiet
<1>1. SlotInv => JoinedMeansQuiet
  BY DEF SlotInv, ServiceInv, SessionInv, JoinedMeansQuiet, Quiet, OwnerHeld
<1> QED BY <1>1, SlotInvHolds, PTL

-----------------------------------------------------------------------------
(* Why a session is stopped.                                               *)

EndReasons == {"ConsumerCancelled", "ProviderShutdown", "SourceEnded", "Failed"}

\* The reasons the flags of a session bear out.
Justified(s) ==
  {r \in EndReasons :
     /\ r = "ConsumerCancelled" => client_stop[s]
     /\ r = "ProviderShutdown" => shutting_down \/ unhealthy[s]}

\* What a truthful session may tell its client, and have in its queue.
Truthful(s) ==
  {Started} \cup {WindowOf(n) : n \in Nat} \cup {ErrorOf(kind) : kind \in OwnerErrors}
    \cup {StoppedFor(r) : r \in Justified(s)}
Messages(s) == {Event(e) : e \in Truthful(s)} \cup {StartupFailure, Finished}

\* What a callback may be sending, to whomever.
Sendable ==
  {Event(e) : e \in {Started} \cup {WindowOf(n) : n \in Nat}
                      \cup {ErrorOf(kind) : kind \in OwnerErrors}
                      \cup {StoppedFor(r) : r \in EndReasons}}

MustEnd(s) == stop[s] \/ unhealthy[s] \/ shutting_down

\* Nothing of an earlier connection is left in a session that may still begin.
Fresh(s) ==
  \/ task[s] \in {"Acquiring", "Upgrading"}
  \/ task[s] = "Idle" /\ serving # "Dropped"

FlagTypes ==
  /\ stop \in [Sessions -> BOOLEAN] /\ client_stop \in [Sessions -> BOOLEAN]
  /\ unhealthy \in [Sessions -> BOOLEAN] /\ asked \in [Sessions -> BOOLEAN]
  /\ shutting_down \in BOOLEAN
  /\ DOMAIN stage = Sessions /\ DOMAIN error = Sessions
  /\ windows \in [Sessions -> Nat]
  /\ DOMAIN queue = Sessions /\ DOMAIN wire = Sessions
  /\ refused \in [Sessions -> BOOLEAN] /\ encoded \in [Sessions -> Seq(Sendable)]

\* A session whose stop nobody but the provider wants receives no more, an owner
\* is asked to stop only for a reason, and completes between the calls of its
\* callback.
FlagInv(s) ==
  /\ stop[s] /\ ~client_stop[s] => task[s] \notin Receiving
  /\ Fresh(s) => ~stop[s]
  /\ capture[s] \in {"None", "Queued", "Starting"} => ~asked[s]
  /\ /\ owner[s] = "Running"
     /\ asked[s] \/ capture[s] \in {"Stopping", "Reporting", "Finishing"}
     => MustEnd(s)
  /\ stage[s] = "Erred" => error[s] # None
  /\ owner[s] # "Running" \/ refused[s] => encoded[s] = <<>>
  /\ owner[s] # "Running" => ~refused[s]

TruthInv(s) ==
  /\ queue[s] \in Seq(Messages(s)) /\ wire[s] \in Seq(Truthful(s))
  /\ task[s] \notin Receiving => queue[s] = <<>> /\ wire[s] = <<>>
  /\ task[s] \in Receiving => encoded[s] \in Seq(Messages(s))

ReasonInv ==
  /\ SlotInv /\ FlagTypes
  /\ \A s \in Sessions : FlagInv(s) /\ TruthInv(s)

\* What one session writes.
FlagStep(s) ==
  /\ UNCHANGED <<serving, shutting_down>>
  /\ \A r \in Sessions \ {s} :
       /\ task'[r] = task[r] /\ capture'[r] = capture[r] /\ owner'[r] = owner[r]
       /\ stop'[r] = stop[r] /\ client_stop'[r] = client_stop[r]
       /\ unhealthy'[r] = unhealthy[r] /\ asked'[r] = asked[r]
       /\ stage'[r] = stage[r] /\ error'[r] = error[r]
       /\ queue'[r] = queue[r] /\ wire'[r] = wire[r]
       /\ encoded'[r] = encoded[r] /\ refused'[r] = refused[r]

\* After a step of one session, what is true of it is all there is to show.
LEMMA OneTruth ==
  ASSUME ReasonInv, NEW s \in Sessions, FlagStep(s),
         SlotInv', FlagTypes', FlagInv(s)', TruthInv(s)'
  PROVE  ReasonInv'
<1>1. ASSUME NEW r \in Sessions \ {s}
      PROVE  FlagInv(r)' /\ TruthInv(r)'
  <2>1. FlagInv(r)'
    BY DEF FlagStep, FlagInv, ReasonInv, Fresh, MustEnd
  <2>2. Truthful(r)' = Truthful(r)
    BY DEF FlagStep, Truthful, Justified
  <2>3. TruthInv(r)'
    BY <2>2 DEF FlagStep, TruthInv, ReasonInv, Messages
  <2> QED BY <2>1, <2>3
<1> QED BY <1>1 DEF ReasonInv

\* Flags that are only raised take no truth away.
LEMMA TruthGrows ==
  ASSUME NEW s \in Sessions, client_stop[s] => client_stop'[s],
         unhealthy[s] => unhealthy'[s], shutting_down => shutting_down'
  PROVE  /\ Truthful(s) \subseteq Truthful(s)'
         /\ Seq(Truthful(s)) \subseteq Seq(Truthful(s)')
         /\ Seq(Messages(s)) \subseteq Seq(Messages(s)')
<1>1. Justified(s) \subseteq Justified(s)'
  BY DEF Justified
<1>2. Truthful(s) \subseteq Truthful(s)'
  BY <1>1 DEF Truthful
<1>3. Messages(s) \subseteq Messages(s)'
  BY <1>2 DEF Messages
<1> QED BY <1>2, <1>3

-----------------------------------------------------------------------------
(* The steps of a session, once more.                                      *)

\* A step that raises flags at most and leaves queue, wire and callback.
LEMMA TruthKept ==
  ASSUME ReasonInv, NEW s \in Sessions, client_stop[s] => client_stop'[s],
         unhealthy[s] => unhealthy'[s], shutting_down => shutting_down',
         queue'[s] = queue[s], wire'[s] = wire[s], encoded'[s] = encoded[s],
         task[s] \in Receiving <=> task'[s] \in Receiving
  PROVE  TruthInv(s)'
BY TruthGrows DEF ReasonInv, TruthInv

\* The handler's steps keep the reasons for which sessions stop.
LEMMA HandlerKeepsReasons ==
  ASSUME ReasonInv, NEW s \in Sessions,
         InRuntime(Request(s) \/ Handler(s) \/ UpgradeFails(s) \/ Upgrade(s))
  PROVE  ReasonInv'
<1>1. SlotInv'
  BY HandlerKeepsSlots DEF ReasonInv
<1>2. UNCHANGED <<serviceVars, flagVars, queue, wire, ownerVars>>
  BY DEF InRuntime, Request, Handler, Reject, Acquire, AcquireRaces, UpgradeFails,
         Upgrade, captureVars
<1>3. task[s] \notin Receiving
  BY DEF InRuntime, Request, Handler, Reject, Acquire, AcquireRaces, UpgradeFails,
         Upgrade, Receiving
<1>6. FlagTypes' /\ TruthInv(s)'
  <2>1. FlagTypes'
    BY <1>2 DEF ReasonInv, FlagTypes, serviceVars, flagVars, ownerVars
  <2>2. queue'[s] = <<>> /\ wire'[s] = <<>>
    BY <1>2, <1>3 DEF ReasonInv, TruthInv
  <2>3. task'[s] \in Receiving => encoded'[s] = <<>>
    BY <1>2
    DEF InRuntime, Request, Handler, Reject, Acquire, AcquireRaces, UpgradeFails, Upgrade,
        Moves, ReasonInv, SlotInv, SlotTypes, SessionInv, FlagInv, OwnerHeld, Receiving,
        ownerVars
  <2>4. TruthInv(s)'
    <3>1. <<>> \in Seq(Messages(s)') /\ <<>> \in Seq(Truthful(s)')
      OBVIOUS
    <3> QED BY <2>2, <2>3, <3>1 DEF TruthInv
  <2> QED BY <2>1, <2>4
<1>4. FlagStep(s)
  BY <1>2
  DEF InRuntime, Request, Handler, Reject, Acquire, AcquireRaces, UpgradeFails, Upgrade,
      Moves, Captures, FlagStep, ReasonInv, SlotInv, SlotTypes, serviceVars, flagVars,
      ownerVars, captureVars
<1>5. FlagInv(s)'
  BY <1>2
  DEF InRuntime, Request, Handler, Reject, Acquire, AcquireRaces, UpgradeFails, Upgrade,
      Moves, Captures, ReasonInv, FlagInv, Fresh, MustEnd, Receiving, OwnerHeld,
      SlotInv, SlotTypes, SessionInv, serviceVars, flagVars, ownerVars, captureVars
<1> QED BY <1>1, <1>4, <1>5, <1>6, OneTruth

\* Leaving the loop empties queue and wire; the provider's stop is stored then.
LEMMA LeaveKeepsReasons ==
  ASSUME ReasonInv, NEW s \in Sessions, SlotInv', task[s] \in Receiving,
         Leave(s), LoopFrame, UNCHANGED <<client_stop, unhealthy>>
  PROVE  ReasonInv'
<1>1. FlagTypes' /\ FlagStep(s)
  BY DEF Leave, LoopFrame, Moves, FlagStep, ReasonInv, FlagTypes, SlotInv, SlotTypes,
         serviceVars, ownerVars, captureVars
<1>2. FlagInv(s)'
  BY DEF Leave, LoopFrame, Moves, ReasonInv, FlagTypes, FlagInv, Fresh, MustEnd,
         Receiving, SlotInv, SlotTypes, serviceVars, ownerVars, captureVars
<1>3. TruthInv(s)'
  <2>1. queue'[s] = <<>> /\ wire'[s] = <<>> /\ task'[s] \notin Receiving
    BY DEF Leave, Moves, ReasonInv, FlagTypes, Receiving, SlotInv, SlotTypes
  <2> QED BY <2>1 DEF TruthInv
<1> QED BY <1>1, <1>2, <1>3, OneTruth

\* The client's request is stored before the stop it asks for.
LEMMA LoopKeepsReasons ==
  ASSUME ReasonInv, NEW s \in Sessions,
         InRuntime(\/ Proceed(s) \/ TooSlow(s) \/ ShutdownSeen(s) \/ Receive(s)
                   \/ Ignored(s) \/ ClientGone(s) \/ ClientStops(s)
                   \/ StopAsked(s) \/ Join(s))
  PROVE  ReasonInv'
<1>1. SlotInv'
  BY LoopKeepsSlots DEF ReasonInv
<1>2. CASE \/ TooSlow(s) \/ ShutdownSeen(s) \/ SendFails(s)
           \/ ReceiveStartupFailure(s) \/ ReceiveEnd(s) \/ ClientGone(s)
  BY <1>1, <1>2, LeaveKeepsReasons
  DEF TooSlow, ShutdownSeen, SendFails, ReceiveStartupFailure, ReceiveEnd, ClientGone,
      Received, Receiving
<1>3. CASE Proceed(s) \/ Ignored(s) \/ ClientStops(s) \/ StopAsked(s) \/ Join(s)
  <2>1. FlagTypes' /\ FlagStep(s)
    BY <1>3
    DEF Proceed, Ignored, ClientStops, StopAsked, Join, LoopFrame, Moves, FlagStep,
        ReasonInv, FlagTypes, SlotInv, SlotTypes, serviceVars, ownerVars, captureVars,
        flagVars
  <2>2. FlagInv(s)'
    BY <1>3
    DEF Proceed, Ignored, ClientStops, StopAsked, Join, LoopFrame, Moves, ReasonInv,
        FlagTypes, FlagInv, Fresh, MustEnd, Receiving, SlotInv, SlotTypes, serviceVars,
        ownerVars, captureVars, flagVars
  <2>3. TruthInv(s)'
    <3>1. /\ client_stop[s] => client_stop'[s]
          /\ unhealthy' = unhealthy /\ shutting_down' = shutting_down
          /\ queue' = queue /\ wire' = wire /\ encoded' = encoded
          /\ task[s] \in Receiving <=> task'[s] \in Receiving
      BY <1>3
      DEF Proceed, Ignored, ClientStops, StopAsked, Join, Moves, LoopFrame, ReasonInv,
          FlagTypes, SlotInv, SlotTypes, Receiving, flagVars, serviceVars, ownerVars
    <3> QED BY <3>1, TruthKept
  <2> QED BY <1>1, <2>1, <2>2, <2>3, OneTruth
<1>4. CASE ReceiveEvent(s)
  <2>1. FlagTypes' /\ FlagStep(s)
    BY <1>4
    DEF ReceiveEvent, LoopFrame, Moves, FlagStep, ReasonInv, FlagTypes, SlotInv,
        SlotTypes, serviceVars, ownerVars, captureVars, flagVars
  <2>2. FlagInv(s)'
    BY <1>4
    DEF ReceiveEvent, Received, LoopFrame, Moves, ReasonInv, FlagTypes, FlagInv, Fresh,
        MustEnd, Receiving, SlotInv, SlotTypes, serviceVars, ownerVars, captureVars,
        flagVars
  <2>3. queue[s] # <<>> /\ Head(queue[s]).kind = "Event"
    BY <1>4 DEF ReceiveEvent, Received
  <2>4. /\ Head(queue[s]) \in Messages(s) /\ Tail(queue[s]) \in Seq(Messages(s))
    BY <2>3, HeadTailProperties DEF ReasonInv, TruthInv
  <2>5. Head(queue[s]).event \in Truthful(s)
    BY <2>3, <2>4 DEF Messages, Event, StartupFailure, Finished
  <2>6. Append(wire[s], Head(queue[s]).event) \in Seq(Truthful(s))
    BY <2>5, AppendProperties DEF ReasonInv, TruthInv
  <2>7. queue'[s] \in Seq(Messages(s)) /\ wire'[s] \in Seq(Truthful(s))
    BY <1>4, <2>4, <2>6 DEF ReceiveEvent, ReasonInv, FlagTypes
  <2>8. TruthInv(s)'
    BY <1>4, <2>7, TruthGrows
    DEF ReceiveEvent, Received, Moves, LoopFrame, flagVars, serviceVars, ownerVars,
        TruthInv, Receiving, ReasonInv, SlotInv, SlotTypes
  <2> QED BY <1>1, <2>1, <2>2, <2>8, OneTruth
<1> QED BY <1>2, <1>3, <1>4 DEF InRuntime, Receive

\* A closed session starts over; one whose runtime was dropped receives no more.
LEMMA LeavingKeepsReasons ==
  ASSUME ReasonInv, NEW s \in Sessions, InRuntime(Close(s) \/ Cancel(s))
  PROVE  ReasonInv'
<1>1. SlotInv'
  BY LeavingKeepsSlots DEF ReasonInv
<1>2. CASE Close(s)
  <2>1. FlagTypes' /\ FlagStep(s)
    BY <1>2
    DEF Close, Moves, Captures, FlagStep, ReasonInv, FlagTypes, SlotInv, SlotTypes,
        serviceVars
  <2>2. FlagInv(s)'
    BY <1>2
    DEF Close, Moves, Captures, ReasonInv, FlagTypes, FlagInv, Fresh, Receiving, SlotInv,
        SlotTypes, serviceVars
  <2>3. TruthInv(s)'
    <3>1. queue'[s] = <<>> /\ wire'[s] = <<>> /\ task'[s] \notin Receiving
      BY <1>2 DEF Close, Moves, TruthInv, ReasonInv, Receiving, SlotInv, SlotTypes
    <3> QED BY <3>1 DEF TruthInv
  <2> QED BY <1>1, <2>1, <2>2, <2>3, OneTruth
<1>3. CASE Cancel(s)
  <2>1. FlagTypes' /\ FlagStep(s)
    BY <1>3
    DEF Cancel, Moves, FlagStep, ReasonInv, FlagTypes, SlotInv, SlotTypes, serviceVars,
        flagVars, captureVars, ownerVars
  <2>2. FlagInv(s)'
    BY <1>3
    DEF Cancel, Moves, ReasonInv, FlagTypes, FlagInv, Fresh, MustEnd, Receiving, SlotInv,
        SlotTypes, serviceVars, flagVars, captureVars, ownerVars
  <2>3. TruthInv(s)'
    <3>1. queue'[s] = <<>> /\ wire'[s] = <<>> /\ task'[s] \notin Receiving
      BY <1>3 DEF Cancel, Moves, ReasonInv, FlagTypes, Receiving, SlotInv, SlotTypes
    <3> QED BY <3>1 DEF TruthInv
  <2> QED BY <1>1, <2>1, <2>2, <2>3, OneTruth
<1> QED BY <1>2, <1>3 DEF InRuntime

\* What try_send adds is no event.
LEMMA TrySendIsTruthful ==
  ASSUME ReasonInv, NEW s \in Sessions, NEW m \in {StartupFailure, Finished},
         TrySend(s, m), UNCHANGED <<shutting_down, flagVars, wire, task, encoded>>
  PROVE  /\ TruthInv(s)' /\ DOMAIN queue' = Sessions
         /\ \A r \in Sessions \ {s} : queue'[r] = queue[r]
<1>1. CASE ~HasRoom(s)
  BY <1>1, TruthKept DEF TrySend, flagVars, ReasonInv, FlagTypes
<1>2. CASE HasRoom(s)
  <2>1. queue' = [queue EXCEPT ![s] = Append(queue[s], m)]
    BY <1>2 DEF TrySend
  <2>2. Append(queue[s], m) \in Seq(Messages(s))
    BY AppendProperties DEF ReasonInv, TruthInv, Messages
  <2>3. queue'[s] \in Seq(Messages(s)) /\ task'[s] \in Receiving
    BY <1>2, <2>1, <2>2 DEF HasRoom, ReasonInv, FlagTypes
  <2>4. TruthInv(s)'
    BY <2>3, TruthGrows DEF flagVars, TruthInv, ReasonInv
  <2> QED BY <2>1, <2>4 DEF ReasonInv, FlagTypes
<1> QED BY <1>1, <1>2

\* The owner is asked to stop at the head of the poll loop, for one of its
\* reasons, or after the loop, which is left with the owner running only when such
\* a stop timed out.
LEMMA CaptureKeepsReasons ==
  ASSUME ReasonInv, NEW s \in Sessions, InRuntime(CaptureTask(s))
  PROVE  ReasonInv'
<1>1. SlotInv'
  BY CaptureKeepsSlots DEF ReasonInv
<1>2. UNCHANGED <<serviceVars, slotVars, flagVars, wire, stage, error, windows,
                  encoded, refused>>
  BY DEF InRuntime, CaptureTask, Begin, NeverBegins, StartSupervisor, StopSupervisor,
         OwnerJoined, StopTimesOut, Report, Finish, DropSupervisor, SupervisorFrame,
         ownerVars
<1>3. \/ queue' = queue
      \/ \E m \in {StartupFailure, Finished} : TrySend(s, m)
  BY DEF InRuntime, CaptureTask, Begin, NeverBegins, StartSupervisor, StopSupervisor,
         OwnerJoined, StopTimesOut, Report, Finish, DropSupervisor
<1>4. /\ TruthInv(s)' /\ DOMAIN queue' = Sessions
      /\ \A r \in Sessions \ {s} : queue'[r] = queue[r]
  <2>1. CASE queue' = queue
    BY <1>2, <2>1, TruthKept
    DEF ReasonInv, FlagTypes, slotVars, flagVars, serviceVars
  <2>2. CASE \E m \in {StartupFailure, Finished} : TrySend(s, m)
    BY <1>2, <2>2, TrySendIsTruthful DEF slotVars, serviceVars
  <2> QED BY <1>3, <2>1, <2>2
<1>5. FlagTypes' /\ FlagStep(s)
  BY <1>2, <1>4
  DEF InRuntime, CaptureTask, Begin, NeverBegins, StartSupervisor, StopSupervisor,
      OwnerJoined, StopTimesOut, Report, Finish, DropSupervisor, Captures, FlagStep,
      ReasonInv, FlagTypes, SlotInv, SlotTypes, serviceVars, slotVars, flagVars,
      ownerVars
<1>6. FlagInv(s)'
  <2> USE <1>2 DEF Captures, ReasonInv, FlagTypes, FlagInv, Fresh, MustEnd, SlotInv,
                   SlotTypes, Completions, serviceVars, slotVars, flagVars, ownerVars
  <2>1. CASE Begin(s) \/ NeverBegins(s) \/ StartSupervisor(s) \/ StopSupervisor(s)
    BY <2>1 DEF Begin, NeverBegins, StartSupervisor, StopSupervisor
  <2>2. CASE OwnerJoined(s) \/ StopTimesOut(s)
    BY <2>2 DEF OwnerJoined, StopTimesOut, AfterLoop
  <2>3. CASE Report(s) \/ Finish(s) \/ DropSupervisor(s)
    BY <2>3 DEF Report, Finish, DropSupervisor
  <2> QED BY <2>1, <2>2, <2>3 DEF InRuntime, CaptureTask
<1> QED BY <1>1, <1>4, <1>5, <1>6, OneTruth

\* An event of the callback that is not the end of the stream.
LEMMA EventIsTruthful ==
  ASSUME NEW s \in Sessions,
         NEW e \in {Started} \cup {WindowOf(n) : n \in Nat}
                     \cup {ErrorOf(kind) : kind \in OwnerErrors}
  PROVE  Event(e) \in Messages(s)'
BY DEF Messages, Truthful

\* The end the callback reports to a client that still receives is borne out.
LEMMA EndIsTruthful ==
  ASSUME ReasonInv, NEW s \in Sessions, OnEnded(s), task[s] \in Receiving
  PROVE  Event(StoppedFor(ReasonFor(s))) \in Messages(s)'
<1>1. ReasonFor(s) \in EndReasons
  BY DEF ReasonFor, EndReasonFor, EndReasons
<1>2. UNCHANGED <<client_stop, shutting_down, unhealthy>>
  BY DEF OnEnded, CallbackFrame, serviceVars, flagVars
<1>3. ReasonFor(s) = "ConsumerCancelled" => client_stop[s]
  BY DEF ReasonFor, EndReasonFor
<1>4. ReasonFor(s) = "ProviderShutdown" => shutting_down \/ unhealthy[s]
  <2> SUFFICES ASSUME ReasonFor(s) = "ProviderShutdown"
               PROVE  shutting_down \/ unhealthy[s]
    OBVIOUS
  <2>1. error[s] = None /\ ~client_stop[s]
    BY DEF ReasonFor, EndReasonFor
  <2>2. owner[s] = "Running" /\ asked[s]
    BY <2>1 DEF OnEnded, BetweenCalls, ReasonInv, FlagInv
  <2> QED BY <2>1, <2>2 DEF ReasonInv, FlagInv, MustEnd
<1>5. ReasonFor(s) \in Justified(s)'
  BY <1>1, <1>2, <1>3, <1>4 DEF Justified
<1> QED BY <1>5 DEF Messages, Truthful

\* A call of the callback with one event to send.
LEMMA OneEncoded ==
  ASSUME ReasonInv, NEW s \in Sessions, NEW m \in Sendable, Encodes(s, <<m>>),
         task[s] \in Receiving => m \in Messages(s)'
  PROVE  /\ encoded' \in [Sessions -> Seq(Sendable)]
         /\ \A r \in Sessions \ {s} : encoded'[r] = encoded[r]
         /\ task[s] \in Receiving => encoded'[s] \in Seq(Messages(s)')
<1>1. <<m>> \in Seq(Sendable) /\ (task[s] \in Receiving => <<m>> \in Seq(Messages(s)'))
  OBVIOUS
<1> HIDE DEF Sendable, Messages
<1> QED BY <1>1 DEF Encodes, ReasonInv, FlagTypes

\* Whatever a call of the callback is to send is true, if the client receives.
LEMMA CallIsTruthful ==
  ASSUME ReasonInv, NEW s \in Sessions,
         OnStarted(s) \/ OnData(s) \/ OnError(s) \/ OnEnded(s)
  PROVE  /\ encoded' \in [Sessions -> Seq(Sendable)]
         /\ \A r \in Sessions \ {s} : encoded'[r] = encoded[r]
         /\ task[s] \in Receiving => encoded'[s] \in Seq(Messages(s)')
<1>1. CASE OnStarted(s)
  <2>1. Event(Started) \in Sendable /\ Event(Started) \in Messages(s)'
    BY EventIsTruthful DEF Sendable
  <2> QED BY <1>1, <2>1, OneEncoded DEF OnStarted
<1>2. CASE OnData(s)
  <2> DEFINE next(n) == [i \in 1 .. n |-> Event(WindowOf(windows[s] + i))]
             Windows == {Event(WindowOf(m)) : m \in Nat}
  <2>1. PICK n \in 1 .. PacketWindows : encoded' = [encoded EXCEPT ![s] = next(n)]
    BY <1>2 DEF OnData, Encodes
  <2>2. next(n) \in Seq(Windows)
    <3>1. \A i \in 1 .. n : windows[s] + i \in Nat
      BY SessionAssumption DEF ReasonInv, FlagTypes
    <3>2. \A i \in 1 .. n : Event(WindowOf(windows[s] + i)) \in Windows
      BY <3>1
    <3>3. n \in Nat
      BY SessionAssumption
    <3> HIDE DEF Windows
    <3> QED BY <3>2, <3>3
  <2>3. Windows \subseteq Sendable /\ Windows \subseteq Messages(s)'
    BY EventIsTruthful DEF Sendable
  <2> HIDE DEF next, Windows
  <2>4. next(n) \in Seq(Sendable) /\ next(n) \in Seq(Messages(s)')
    BY <2>2, <2>3
  <2> HIDE DEF Sendable
  <2> QED BY <2>1, <2>4 DEF ReasonInv, FlagTypes
<1>3. CASE OnError(s)
  <2>1. PICK kind \in OwnerErrors : Encodes(s, <<Event(ErrorOf(kind))>>)
    BY <1>3 DEF OnError
  <2>2. Event(ErrorOf(kind)) \in Sendable /\ Event(ErrorOf(kind)) \in Messages(s)'
    BY EventIsTruthful DEF Sendable
  <2> QED BY <2>1, <2>2, OneEncoded
<1>4. CASE OnEnded(s)
  <2>1. Event(StoppedFor(ReasonFor(s))) \in Sendable
    BY DEF Sendable, ReasonFor, EndReasonFor, EndReasons
  <2>2. task[s] \in Receiving => Event(StoppedFor(ReasonFor(s))) \in Messages(s)'
    BY <1>4, EndIsTruthful
  <2>3. Encodes(s, <<Event(StoppedFor(ReasonFor(s)))>>)
    BY <1>4 DEF OnEnded
  <2> QED BY <2>1, <2>2, <2>3, OneEncoded
<1> QED BY <1>1, <1>2, <1>3, <1>4

\* What a call still has to send shrinks from its head, or is given up.
LEMMA SendIsTruthful ==
  ASSUME ReasonInv, NEW s \in Sessions,
         SendNext(s) \/ SendRefused(s) \/ StoreUnhealthy(s) \/ OnDataRefused(s)
           \/ OwnerCompletes(s)
  PROVE  /\ TruthInv(s)' /\ DOMAIN queue' = Sessions
         /\ encoded' \in [Sessions -> Seq(Sendable)]
         /\ refused' \in [Sessions -> BOOLEAN] /\ unhealthy' \in [Sessions -> BOOLEAN]
         /\ unhealthy[s] => unhealthy'[s]
         /\ \A r \in Sessions \ {s} :
              /\ queue'[r] = queue[r] /\ unhealthy'[r] = unhealthy[r]
              /\ encoded'[r] = encoded[r] /\ refused'[r] = refused[r]
<1>1. UNCHANGED <<shutting_down, client_stop, wire, task>>
  BY DEF SendNext, SendRefused, StoreUnhealthy, OnDataRefused, OwnerCompletes, SendFrame,
         serviceVars, slotVars, flagVars
<1>2. encoded[s] \in Seq(Sendable) /\ TruthInv(s) /\ DOMAIN queue = Sessions
  BY DEF ReasonInv, FlagTypes
<1>3. CASE SendNext(s)
  <2>1. encoded[s] # <<>> /\ HasRoom(s) /\ UNCHANGED <<refused, unhealthy>>
    BY <1>3 DEF SendNext
  <2>2. /\ queue' = [queue EXCEPT ![s] = Append(queue[s], Head(encoded[s]))]
        /\ encoded' = [encoded EXCEPT ![s] = Tail(encoded[s])]
    BY <1>3 DEF SendNext
  <2>3. Tail(encoded[s]) \in Seq(Sendable)
    BY <1>2, <2>1, HeadTailProperties
  <2>4. /\ encoded' \in [Sessions -> Seq(Sendable)] /\ DOMAIN queue' = Sessions
        /\ \A r \in Sessions \ {s} : queue'[r] = queue[r] /\ encoded'[r] = encoded[r]
        /\ queue'[s] = Append(queue[s], Head(encoded[s])) /\ encoded'[s] = Tail(encoded[s])
    BY <1>2, <2>2, <2>3 DEF ReasonInv, FlagTypes
  <2>5. /\ Head(encoded[s]) \in Messages(s) /\ Tail(encoded[s]) \in Seq(Messages(s))
        /\ queue[s] \in Seq(Messages(s))
    BY <1>2, <2>1, HeadTailProperties DEF TruthInv, HasRoom
  <2>6. Append(queue[s], Head(encoded[s])) \in Seq(Messages(s))
    BY <2>5, AppendProperties
  <2>7. TruthInv(s)'
    BY <1>1, <1>2, <2>1, <2>4, <2>5, <2>6, TruthGrows DEF TruthInv, HasRoom
  <2> QED BY <2>1, <2>4, <2>7 DEF ReasonInv, FlagTypes
<1>4. CASE SendRefused(s) \/ StoreUnhealthy(s) \/ OnDataRefused(s) \/ OwnerCompletes(s)
  <2>1. /\ queue' = queue
        /\ encoded' = encoded \/ encoded' = [encoded EXCEPT ![s] = <<>>]
        /\ refused' = refused \/ \E b \in BOOLEAN : refused' = [refused EXCEPT ![s] = b]
        /\ unhealthy' = unhealthy \/ unhealthy' = [unhealthy EXCEPT ![s] = TRUE]
    BY <1>4 DEF SendRefused, StoreUnhealthy, OnDataRefused, OwnerCompletes, SendFrame, flagVars
  <2>2. <<>> \in Seq(Sendable)
    OBVIOUS
  <2>3. /\ encoded' \in [Sessions -> Seq(Sendable)]
        /\ refused' \in [Sessions -> BOOLEAN] /\ unhealthy' \in [Sessions -> BOOLEAN]
        /\ unhealthy[s] => unhealthy'[s]
        /\ \A r \in Sessions \ {s} :
             /\ unhealthy'[r] = unhealthy[r]
             /\ encoded'[r] = encoded[r] /\ refused'[r] = refused[r]
        /\ encoded'[s] = encoded[s] \/ encoded'[s] = <<>>
    <3> HIDE DEF Sendable
    <3>1. /\ encoded \in [Sessions -> Seq(Sendable)] /\ refused \in [Sessions -> BOOLEAN]
          /\ unhealthy \in [Sessions -> BOOLEAN]
      BY DEF ReasonInv, FlagTypes
    <3>2. /\ encoded' \in [Sessions -> Seq(Sendable)]
          /\ \A r \in Sessions \ {s} : encoded'[r] = encoded[r]
          /\ encoded'[s] = encoded[s] \/ encoded'[s] = <<>>
      BY <2>1, <2>2, <3>1
    <3>3. /\ refused' \in [Sessions -> BOOLEAN]
          /\ \A r \in Sessions \ {s} : refused'[r] = refused[r]
      BY <2>1, <3>1
    <3>4. /\ unhealthy' \in [Sessions -> BOOLEAN]
          /\ unhealthy[s] => unhealthy'[s]
          /\ \A r \in Sessions \ {s} : unhealthy'[r] = unhealthy[r]
      BY <2>1, <3>1
    <3> QED BY <3>2, <3>3, <3>4
  <2>4. TruthInv(s)'
    BY <1>1, <1>2, <2>1, <2>3, TruthGrows DEF TruthInv
  <2> QED BY <1>2, <2>1, <2>3, <2>4
<1> QED BY <1>3, <1>4

\* The owner's worker raises unhealthy and the stage, and completes.
LEMMA OwnerKeepsReasons ==
  ASSUME ReasonInv, NEW s \in Sessions, InRuntime(OwnerWorker(s))
  PROVE  ReasonInv'
<1>1. SlotInv'
  BY OwnerKeepsSlots DEF ReasonInv
<1>2. UNCHANGED <<serviceVars, slotVars, stop, client_stop, wire, captureVars, asked>>
  BY DEF InRuntime, OwnerWorker, OnStarted, OnData, OnDataRefused, OnError, OnEnded,
         Callback, SendNext, SendRefused, StoreUnhealthy, OwnerCompletes,
         CallbackFrame, SendFrame, flagVars
<1>3. /\ TruthInv(s)' /\ DOMAIN queue' = Sessions
      /\ encoded' \in [Sessions -> Seq(Sendable)]
      /\ refused' \in [Sessions -> BOOLEAN] /\ unhealthy' \in [Sessions -> BOOLEAN]
      /\ unhealthy[s] => unhealthy'[s]
      /\ \A r \in Sessions \ {s} :
           /\ queue'[r] = queue[r] /\ unhealthy'[r] = unhealthy[r]
           /\ encoded'[r] = encoded[r] /\ refused'[r] = refused[r]
  <2>1. CASE OnStarted(s) \/ OnData(s) \/ OnError(s) \/ OnEnded(s)
    <3>1. UNCHANGED <<serviceVars, slotVars, flagVars, queue, wire, refused>>
      BY <2>1 DEF OnStarted, OnData, OnError, OnEnded, CallbackFrame
    <3>2. /\ queue'[s] \in Seq(Messages(s)') /\ wire'[s] \in Seq(Truthful(s)')
      BY <3>1, TruthGrows DEF ReasonInv, TruthInv, serviceVars, flagVars
    <3>3. TruthInv(s)'
      BY <2>1, <3>1, <3>2, CallIsTruthful DEF TruthInv, ReasonInv, slotVars
    <3> QED BY <2>1, <3>1, <3>3, CallIsTruthful DEF ReasonInv, FlagTypes, flagVars
  <2>2. CASE Callback(s) \/ OnDataRefused(s) \/ OwnerCompletes(s)
    BY <2>2, SendIsTruthful DEF Callback
  <2> QED BY <2>1, <2>2 DEF InRuntime, OwnerWorker
<1>4. /\ DOMAIN stage' = Sessions /\ DOMAIN error' = Sessions
      /\ windows' \in [Sessions -> Nat]
      /\ \A r \in Sessions \ {s} : stage'[r] = stage[r] /\ error'[r] = error[r]
      /\ stage'[s] = "Erred" => error'[s] # None
  <2> USE DEF ReasonInv, FlagTypes, FlagInv
  <2>1. CASE OnStarted(s) \/ OnEnded(s) \/ OnDataRefused(s) \/ OwnerCompletes(s)
             \/ Callback(s)
    BY <2>1 DEF OnStarted, OnEnded, OnDataRefused, OwnerCompletes, Callback, SendNext,
                SendRefused, StoreUnhealthy, SendFrame
  <2>2. CASE OnData(s)
    <3>1. PICK n \in 1 .. PacketWindows : windows' = [windows EXCEPT ![s] = windows[s] + n]
      BY <2>2 DEF OnData
    <3>2. windows' \in [Sessions -> Nat]
      BY <3>1, SessionAssumption
    <3> QED BY <2>2, <3>2 DEF OnData
  <2>3. CASE OnError(s)
    BY <2>3, SessionAssumption DEF OnError
  <2> QED BY <2>1, <2>2, <2>3 DEF InRuntime, OwnerWorker
<1>5. /\ DOMAIN owner' = Sessions
      /\ \A r \in Sessions \ {s} : owner'[r] = owner[r]
      /\ owner'[s] = "Running" => owner[s] = "Running"
  BY DEF InRuntime, OwnerWorker, OnStarted, OnData, OnDataRefused, OnError, OnEnded,
         Callback, SendNext, SendRefused, StoreUnhealthy, OwnerCompletes, Completions,
         CallbackFrame, SendFrame, ReasonInv, SlotInv, SlotTypes
<1>6. FlagTypes' /\ FlagStep(s)
  BY <1>2, <1>3, <1>4, <1>5
  DEF ReasonInv, FlagTypes, FlagStep, serviceVars, slotVars, captureVars
<1>7. FlagInv(s)'
  <2>1. /\ owner'[s] # "Running" \/ refused'[s] => encoded'[s] = <<>>
        /\ owner'[s] # "Running" => ~refused'[s]
    BY DEF InRuntime, OwnerWorker, OnStarted, OnData, OnDataRefused, OnError, OnEnded,
           Callback, SendNext, SendRefused, StoreUnhealthy, OwnerCompletes, BetweenCalls,
           CallbackFrame, SendFrame, ReasonInv, FlagTypes, FlagInv
  <2> QED BY <1>2, <1>3, <1>4, <1>5, <2>1
          DEF ReasonInv, FlagInv, Fresh, MustEnd, serviceVars, slotVars, captureVars
<1> QED BY <1>1, <1>3, <1>6, <1>7, OneTruth

\* The service around the sessions can only raise shutting_down.
LEMMA ServiceKeepsReasons ==
  ASSUME ReasonInv, Worker \/ HolderNext \/ RequestEnds \/ UNCHANGED vars
  PROVE  ReasonInv'
<1>1. SlotInv'
  BY ServiceKeepsSlots DEF ReasonInv
<1>2. UNCHANGED <<slotVars, flagVars, queue, wire, captureVars, ownerVars>>
  BY DEF Worker, Bind, Drain, ServeReturns, RuntimeDropped, PublishState, SendStopped,
         HolderNext, Holder, StartReturns, StartFails, StartTimesOut, StartAbandoned,
         BeginShutdown, ShutdownTimesOut, ReceiveStopped, JoinWorker, HolderFrame,
         RequestEnds, vars, sessionVars
<1>3. /\ shutting_down' \in BOOLEAN
      /\ shutting_down => shutting_down'
      /\ serving = "Dropped" => serving' = "Dropped"
  BY DEF Worker, Bind, Drain, ServeReturns, RuntimeDropped, PublishState, SendStopped,
         HolderNext, Holder, StartReturns, StartFails, StartTimesOut, StartAbandoned,
         BeginShutdown, ShutdownTimesOut, ReceiveStopped, JoinWorker, HolderFrame,
         RequestEnds, vars, sessionVars, serviceVars, ReasonInv, FlagTypes
<1>4. FlagTypes'
  BY <1>2, <1>3 DEF ReasonInv, FlagTypes, flagVars, ownerVars
<1>5. ASSUME NEW s \in Sessions
      PROVE  FlagInv(s)' /\ TruthInv(s)'
  <2>1. FlagInv(s)'
    BY <1>2, <1>3
    DEF ReasonInv, FlagInv, Fresh, MustEnd, slotVars, flagVars, captureVars, ownerVars
  <2>2. TruthInv(s)'
    BY <1>2, <1>3, TruthKept DEF slotVars, flagVars, ownerVars
  <2> QED BY <2>1, <2>2
<1> QED BY <1>1, <1>4, <1>5 DEF ReasonInv

\* Sessions stop for the reasons that are told, always.
LEMMA ReasonInvHolds == Spec => []ReasonInv
<1>1. Init /\ SlotInv => ReasonInv
  <2> SUFFICES ASSUME Init, SlotInv PROVE ReasonInv
    OBVIOUS
  <2> USE DEF Init, SessionInit
  <2>1. FlagTypes
    <3>1. <<>> \in Seq(Sendable)
      OBVIOUS
    <3> HIDE DEF Sendable
    <3> QED BY <3>1 DEF FlagTypes
  <2>2. ASSUME NEW s \in Sessions
        PROVE  FlagInv(s) /\ TruthInv(s)
    <3>1. FlagInv(s)
      BY DEF FlagInv, Fresh, Receiving
    <3>2. queue[s] = <<>> /\ wire[s] = <<>> /\ task[s] \notin Receiving
      BY DEF Receiving
    <3> QED BY <3>1, <3>2 DEF TruthInv
  <2> QED BY <2>1, <2>2 DEF ReasonInv
<1>2. ReasonInv /\ [Next]_vars => ReasonInv'
  <2> SUFFICES ASSUME ReasonInv, [Next]_vars PROVE ReasonInv'
    OBVIOUS
  <2>1. CASE Worker \/ HolderNext \/ RequestEnds \/ UNCHANGED vars
    BY <2>1, ServiceKeepsReasons
  <2>2. ASSUME NEW s \in Sessions,
               \/ InRuntime(Handler(s)) \/ InRuntime(SocketTask(s))
               \/ InRuntime(Client(s)) \/ InRuntime(CaptureTask(s))
               \/ InRuntime(OwnerWorker(s))
        PROVE  ReasonInv'
    BY <2>2, HandlerKeepsReasons, LoopKeepsReasons, LeavingKeepsReasons,
       CaptureKeepsReasons, OwnerKeepsReasons
    DEF InRuntime, SocketTask, Client
  <2> QED BY <2>1, <2>2 DEF Next
<1> QED BY <1>1, <1>2, SlotInvHolds, PTL DEF Spec

\* The reason a client reads in stream_stopped is the one its session's flags bear
\* out, though the callback decides it while the socket task sets them: the
\* request is stored before the stop it asks for, and a session that is stopped
\* for any other reason has dropped its receiver first.
THEOREM StoppedForAReason == Spec => []StoppedReasonIsTrue
<1>1. ReasonInv => StoppedReasonIsTrue
  <2> SUFFICES ASSUME ReasonInv, NEW s \in Sessions, NEW i \in DOMAIN wire[s],
                      NEW r \in {"ConsumerCancelled", "ProviderShutdown"},
                      wire[s][i] = StoppedFor(r)
               PROVE  r \in Justified(s)
    BY DEF StoppedReasonIsTrue, Justified
  <2>1. StoppedFor(r) \in Truthful(s)
    BY DEF ReasonInv, TruthInv
  <2> QED BY <2>1 DEF Truthful, Started, WindowOf, ErrorOf, StoppedFor
<1> QED BY <1>1, ReasonInvHolds, PTL

-----------------------------------------------------------------------------
(* What of the stream is on its way to the client.                         *)

\* How many events the callback is done with, sent or refused.
SentLength(s) == StreamLength(s) - Len(encoded[s])

\* What a call has still to send are the events behind those.
Pending(s) ==
  /\ Len(encoded[s]) <= StreamLength(s)
  /\ \A j \in 1 .. Len(encoded[s]) :
       /\ encoded[s][j].kind = "Event"
       /\ IsEvent(s, SentLength(s) + j, encoded[s][j].event)

\* The first n messages in the queue are events.
Leading(s, n) == \A j \in 1 .. n : queue[s][j].kind = "Event"

\* Where the events of the queue stop: at its end, or at the first message of the
\* capture task, which nothing follows if the supervisor stopped in time.
LastEvent(s, n) ==
  \/ n = Len(queue[s])
  \/ queue[s][n + 1].kind # "Event" /\ ~stop_timed_out[s]

\* An event of the queue is in its place of the stream, or later where one before
\* it was refused.
Ahead(s) ==
  \A n \in 0 .. Len(queue[s]) :
    Leading(s, n) =>
      /\ Len(wire[s]) + n <= SentLength(s)
      /\ n > 0 => \E m \in Len(wire[s]) + n .. SentLength(s) :
                    IsEvent(s, m, queue[s][n].event)

InPlace(s) ==
  \A n \in 1 .. Len(queue[s]) :
    Leading(s, n) => IsEvent(s, Len(wire[s]) + n, queue[s][n].event)

\* Nothing that was sent is missing from wire and queue.
Counted(s) ==
  \A n \in 0 .. Len(queue[s]) :
    Leading(s, n) /\ LastEvent(s, n) => Len(wire[s]) + n = SentLength(s)

\* The client has the beginning of the stream.  An event behind one that was refused
\* can be its last, received when unhealthy was stored after the check.
WireInv(s) ==
  \A i \in 1 .. Len(wire[s]) :
    \/ IsEvent(s, i, wire[s][i])
    \/ /\ unhealthy[s] /\ task[s] # "Selecting" /\ i = Len(wire[s])
       /\ \E n \in i + 1 .. StreamLength(s) : IsEvent(s, n, wire[s][i])

PlaceInv(s) ==
  /\ Pending(s) /\ Ahead(s) /\ WireInv(s)
  /\ ~unhealthy[s] /\ task[s] \in Receiving =>
       InPlace(s) /\ (~refused[s] => Counted(s))

CallbackInv(s) ==
  /\ stage[s] \in {"Unstarted", "Streaming", "Erred", "Ended"}
  /\ error[s] \in OwnerErrors \cup {None}
  /\ stage[s] = "Unstarted" => windows[s] = 0 /\ error[s] = None
  /\ stage[s] = "Streaming" => error[s] = None
  /\ owner[s] \in {"None", "Failed"} => stage[s] = "Unstarted"

\* What the capture task knows of the owner.
JoinInv(s) ==
  /\ capture[s] \in {"None", "Queued", "Starting"} => owner[s] = "None"
  /\ capture[s] = "Reporting" => owner[s] = "Failed"
  /\ capture[s] \in {"Finishing", "Dropping"} /\ ~stop_timed_out[s] =>
       owner[s] \in Completions
  /\ stop_timed_out[s] => capture[s] \in {"Finishing", "Dropping", "Done"}

\* The messages of the capture task and where it is since.
MessageInv(s, i) ==
  /\ queue[s][i].kind = "Event" => stage[s] # "Unstarted"
  /\ queue[s][i].kind # "Event" => capture[s] \in {"Finishing", "Dropping", "Done"}
  /\ queue[s][i].kind = "StartupFailure" => stage[s] = "Unstarted" /\ owner[s] # "Running"
  /\ queue[s][i].kind = "Finished" =>
       /\ capture[s] \in {"Dropping", "Done"}
       /\ ~stop_timed_out[s] => i = Len(queue[s])

DeliveryInv(s) ==
  /\ CallbackInv(s) /\ PlaceInv(s) /\ JoinInv(s)
  /\ \A i \in 1 .. Len(queue[s]) : MessageInv(s, i)

SessionsDeliver ==
  /\ ReasonInv /\ stop_timed_out \in [Sessions -> BOOLEAN]
  /\ \A s \in Sessions : DeliveryInv(s)

\* What one session writes of this.
DeliveryStep(s) ==
  \A r \in Sessions \ {s} :
    /\ task'[r] = task[r] /\ capture'[r] = capture[r] /\ owner'[r] = owner[r]
    /\ unhealthy'[r] = unhealthy[r] /\ stop_timed_out'[r] = stop_timed_out[r]
    /\ stage'[r] = stage[r] /\ error'[r] = error[r] /\ windows'[r] = windows[r]
    /\ queue'[r] = queue[r] /\ wire'[r] = wire[r]
    /\ encoded'[r] = encoded[r] /\ refused'[r] = refused[r]

\* A session of which nothing changed is delivered what it was.
LEMMA SameDelivery ==
  ASSUME NEW s \in Sessions, DeliveryInv(s),
         task'[s] = task[s], capture'[s] = capture[s], owner'[s] = owner[s],
         unhealthy'[s] = unhealthy[s], stop_timed_out'[s] = stop_timed_out[s],
         stage'[s] = stage[s], error'[s] = error[s], windows'[s] = windows[s],
         queue'[s] = queue[s], wire'[s] = wire[s],
         encoded'[s] = encoded[s], refused'[s] = refused[s]
  PROVE  DeliveryInv(s)'
<1>1. StreamLength(s)' = StreamLength(s) /\ SentLength(s)' = SentLength(s)
  BY DEF StreamLength, SentLength
<1>2. \A n, e : IsEvent(s, n, e)' <=> IsEvent(s, n, e)
  BY <1>1 DEF IsEvent
<1>3. Pending(s)' /\ Ahead(s)'
  BY <1>1, <1>2 DEF DeliveryInv, PlaceInv, Pending, Ahead, Leading
<1>4. WireInv(s)'
  BY <1>1, <1>2 DEF DeliveryInv, PlaceInv, WireInv
<1>5. (InPlace(s) => InPlace(s)') /\ (Counted(s) => Counted(s)')
  BY <1>1, <1>2 DEF InPlace, Counted, Leading, LastEvent
<1>6. PlaceInv(s)'
  BY <1>3, <1>4, <1>5 DEF DeliveryInv, PlaceInv
<1> QED BY <1>6 DEF DeliveryInv, CallbackInv, JoinInv, MessageInv

\* After a step of one session, what is delivered to it is all there is to show.
LEMMA OneDelivery ==
  ASSUME SessionsDeliver, NEW s \in Sessions, DeliveryStep(s), ReasonInv',
         stop_timed_out' \in [Sessions -> BOOLEAN], DeliveryInv(s)'
  PROVE  SessionsDeliver'
<1>1. ASSUME NEW r \in Sessions \ {s}
      PROVE  DeliveryInv(r)'
  BY SameDelivery DEF DeliveryStep, SessionsDeliver
<1> QED BY <1>1 DEF SessionsDeliver

\* The lengths of a session are numbers.
LEMMA LengthTypes ==
  ASSUME ReasonInv, NEW s \in Sessions
  PROVE  /\ StreamLength(s) \in Nat /\ SentLength(s) \in Int
         /\ Len(encoded[s]) \in Nat /\ Len(queue[s]) \in Nat /\ Len(wire[s]) \in Nat
         /\ encoded[s] = <<>> => SentLength(s) = StreamLength(s)
<1>1. windows[s] \in Nat /\ encoded[s] \in Seq(Sendable)
  BY DEF ReasonInv, FlagTypes
<1>2. StreamLength(s) \in Nat
  BY <1>1 DEF StreamLength
<1>3. Len(encoded[s]) \in Nat /\ Len(queue[s]) \in Nat /\ Len(wire[s]) \in Nat
  BY <1>1, LenProperties DEF ReasonInv, TruthInv
<1> QED BY <1>2, <1>3 DEF SentLength

\* So they are after a step.
LEMMA NextLengthTypes ==
  ASSUME ReasonInv', NEW s \in Sessions
  PROVE  StreamLength(s)' \in Nat /\ SentLength(s)' \in Int /\ Len(encoded'[s]) \in Nat
<1>1. windows'[s] \in Nat /\ encoded'[s] \in Seq(Sendable)
  BY DEF ReasonInv, FlagTypes
<1>2. StreamLength(s)' \in Nat
  BY <1>1 DEF StreamLength
<1>3. Len(encoded'[s]) \in Nat
  BY <1>1, LenProperties
<1> QED BY <1>2, <1>3 DEF SentLength

\* Whoever moves neither queue nor wire keeps them in place while the stream grows
\* behind what was sent, or what is left of a call is given up; the loop gets back
\* to its select only through the check.
LEMMA NothingMoves ==
  ASSUME SessionsDeliver, NEW s \in Sessions, ReasonInv',
         queue'[s] = queue[s], wire'[s] = wire[s], Pending(s)',
         \A n, e : IsEvent(s, n, e) => IsEvent(s, n, e)',
         StreamLength(s) <= StreamLength(s)',
         SentLength(s) <= SentLength(s)',
         \/ refused'[s] \/ unhealthy'[s]
         \/ ~refused[s] /\ SentLength(s)' = SentLength(s),
         unhealthy[s] => unhealthy'[s], stop_timed_out[s] => stop_timed_out'[s],
         task'[s] \in Receiving => task[s] \in Receiving,
         task'[s] = "Selecting" => task[s] = "Selecting" \/ ~unhealthy[s]
  PROVE  PlaceInv(s)'
<1>1. PICK a \in Nat, w \in Nat, sent \in Int, later \in Int, all \in Int, whole \in Int :
        /\ a = Len(queue[s]) /\ w = Len(wire[s])
        /\ sent = SentLength(s) /\ later = SentLength(s)' /\ sent <= later
        /\ all = StreamLength(s) /\ whole = StreamLength(s)' /\ all <= whole
  <2>1. StreamLength(s)' \in Nat /\ SentLength(s)' \in Int
    BY NextLengthTypes
  <2> QED BY <2>1, LengthTypes DEF SessionsDeliver
<1>2. PlaceInv(s)
  BY DEF SessionsDeliver, DeliveryInv
<1>3. \A n : Leading(s, n)' <=> Leading(s, n)
  BY DEF Leading
<1>4. Ahead(s)'
  <2> SUFFICES ASSUME NEW n \in 0 .. a, Leading(s, n)
               PROVE  /\ w + n <= later
                      /\ n > 0 => \E m \in w + n .. later : IsEvent(s, m, queue[s][n].event)'
    BY <1>1, <1>3 DEF Ahead
  <2>1. w + n <= sent /\ (n > 0 => \E m \in w + n .. sent : IsEvent(s, m, queue[s][n].event))
    BY <1>1, <1>2 DEF PlaceInv, Ahead
  <2>2. \A m \in w + n .. sent : m \in w + n .. later
    BY <1>1
  <2>3. \A m : IsEvent(s, m, queue[s][n].event) => IsEvent(s, m, queue[s][n].event)'
    OBVIOUS
  <2> QED BY <1>1, <2>1, <2>2, <2>3
<1>5. WireInv(s)'
  <2> SUFFICES ASSUME NEW i \in 1 .. w
               PROVE  \/ IsEvent(s, i, wire[s][i])'
                      \/ /\ unhealthy'[s] /\ task'[s] # "Selecting" /\ i = w
                         /\ \E n \in i + 1 .. whole : IsEvent(s, n, wire[s][i])'
    BY <1>1 DEF WireInv
  <2>1. \/ IsEvent(s, i, wire[s][i])
        \/ /\ unhealthy[s] /\ task[s] # "Selecting" /\ i = w
           /\ \E n \in i + 1 .. all : IsEvent(s, n, wire[s][i])
    BY <1>1, <1>2 DEF PlaceInv, WireInv
  <2>2. \A n \in i + 1 .. all : n \in i + 1 .. whole
    BY <1>1
  <2>3. \A m : IsEvent(s, m, wire[s][i]) => IsEvent(s, m, wire[s][i])'
    OBVIOUS
  <2> QED BY <2>1, <2>2, <2>3
<1>6. InPlace(s) => InPlace(s)'
  <2>1. \A n : IsEvent(s, w + n, queue[s][n].event) => IsEvent(s, w + n, queue[s][n].event)'
    OBVIOUS
  <2> QED BY <1>1, <1>3, <2>1 DEF InPlace
<1>7. \A n : LastEvent(s, n)' => LastEvent(s, n)
  BY DEF LastEvent
<1>8. Counted(s) /\ SentLength(s)' = SentLength(s) => Counted(s)'
  BY <1>3, <1>7 DEF Counted
<1> QED BY <1>2, <1>4, <1>5, <1>6, <1>8 DEF PlaceInv

\* A session whose stream is the same has the same to send.
LEMMA StreamStays ==
  ASSUME NEW s \in Sessions, stage'[s] = stage[s], error'[s] = error[s],
         windows'[s] = windows[s]
  PROVE  /\ StreamLength(s)' = StreamLength(s)
         /\ \A n, e : IsEvent(s, n, e)' <=> IsEvent(s, n, e)
         /\ encoded'[s] = encoded[s] =>
              SentLength(s)' = SentLength(s) /\ (Pending(s) => Pending(s)')
<1>1. StreamLength(s)' = StreamLength(s)
  BY DEF StreamLength
<1>2. \A n, e : IsEvent(s, n, e)' <=> IsEvent(s, n, e)
  BY <1>1 DEF IsEvent
<1> QED BY <1>1, <1>2 DEF SentLength, Pending

\* A step outside the callback that moves neither queue nor wire.
LEMMA OthersMove ==
  ASSUME SessionsDeliver, NEW s \in Sessions, ReasonInv',
         queue'[s] = queue[s], wire'[s] = wire[s], stage'[s] = stage[s],
         error'[s] = error[s], windows'[s] = windows[s], encoded'[s] = encoded[s],
         refused'[s] = refused[s],
         unhealthy[s] => unhealthy'[s], stop_timed_out[s] => stop_timed_out'[s],
         task'[s] \in Receiving => task[s] \in Receiving,
         task'[s] = "Selecting" => task[s] = "Selecting" \/ ~unhealthy[s]
  PROVE  PlaceInv(s)'
<1>1. Pending(s) /\ StreamLength(s) \in Nat /\ SentLength(s) \in Int
  BY LengthTypes DEF SessionsDeliver, DeliveryInv, PlaceInv
<1>2. /\ StreamLength(s)' = StreamLength(s) /\ SentLength(s)' = SentLength(s)
      /\ \A n, e : IsEvent(s, n, e) => IsEvent(s, n, e)'
      /\ Pending(s)'
  BY <1>1, StreamStays
<1> QED BY <1>1, <1>2, NothingMoves

\* A session without queue and wire has nothing out of place.
LEMMA NothingThere ==
  ASSUME NEW s \in Sessions, ReasonInv', queue'[s] = <<>>, wire'[s] = <<>>, Pending(s)',
         task'[s] \notin Receiving \/ SentLength(s)' = 0
  PROVE  PlaceInv(s)' /\ \A i \in 1 .. Len(queue[s])' : MessageInv(s, i)'
<1>1. Len(queue'[s]) = 0 /\ Len(wire'[s]) = 0
  OBVIOUS
<1>2. SentLength(s)' >= 0
  <2>1. StreamLength(s)' \in Nat /\ Len(encoded'[s]) \in Nat
    BY NextLengthTypes
  <2> QED BY <2>1 DEF Pending, SentLength
<1>3. Ahead(s)'
  BY <1>1, <1>2 DEF Ahead
<1>4. WireInv(s)'
  BY <1>1 DEF WireInv
<1>5. InPlace(s)'
  BY <1>1 DEF InPlace
<1>6. SentLength(s)' = 0 => Counted(s)'
  BY <1>1 DEF Counted
<1> QED BY <1>1, <1>3, <1>4, <1>5, <1>6 DEF PlaceInv

\* The handler's steps deliver nothing.
LEMMA HandlerDelivers ==
  ASSUME SessionsDeliver, NEW s \in Sessions,
         InRuntime(Request(s) \/ Handler(s) \/ UpgradeFails(s) \/ Upgrade(s))
  PROVE  SessionsDeliver'
<1>1. ReasonInv'
  BY HandlerKeepsReasons DEF SessionsDeliver
<1>2. UNCHANGED <<flagVars, queue, wire, stop_timed_out, ownerVars>>
  BY DEF InRuntime, Request, Handler, Reject, Acquire, AcquireRaces, UpgradeFails,
         Upgrade, captureVars
<1>3. task[s] \notin Receiving
  BY DEF InRuntime, Request, Handler, Reject, Acquire, AcquireRaces, UpgradeFails,
         Upgrade, Receiving
<1>4. DeliveryStep(s)
  BY <1>2
  DEF InRuntime, Request, Handler, Reject, Acquire, AcquireRaces, UpgradeFails, Upgrade,
      Moves, Captures, DeliveryStep, SessionsDeliver, ReasonInv, SlotInv, SlotTypes,
      flagVars, ownerVars, captureVars
<1>5. CallbackInv(s)' /\ stop_timed_out' \in [Sessions -> BOOLEAN]
  BY <1>2 DEF SessionsDeliver, DeliveryInv, CallbackInv, ownerVars
<1>6. queue[s] = <<>> /\ wire[s] = <<>>
  BY <1>3 DEF SessionsDeliver, ReasonInv, TruthInv
<1>7. CASE Upgrade(s)
  <2>1. capture[s] = "None" /\ capture'[s] = "Queued"
    BY <1>7 DEF Upgrade, Captures, SessionsDeliver, ReasonInv, SlotInv, SlotTypes, SessionInv
  <2>2. owner[s] = "None" /\ ~stop_timed_out[s]
    BY <2>1 DEF SessionsDeliver, DeliveryInv, JoinInv
  <2>3. JoinInv(s)'
    BY <1>2, <2>1, <2>2 DEF JoinInv, ownerVars
  <2>4. stage'[s] = "Unstarted" /\ windows'[s] = 0 /\ error'[s] = None
    BY <1>2, <2>2 DEF SessionsDeliver, DeliveryInv, CallbackInv, ownerVars
  <2>5. encoded'[s] = <<>>
    BY <1>2, <2>2 DEF SessionsDeliver, ReasonInv, FlagInv, ownerVars
  <2>6. SentLength(s)' = 0 /\ Pending(s)'
    <3>1. StreamLength(s)' = 0
      BY <2>4 DEF StreamLength
    <3>2. Len(encoded'[s]) = 0
      BY <2>5
    <3> QED BY <3>1, <3>2 DEF SentLength, Pending
  <2> QED BY <1>1, <1>2, <1>4, <1>5, <1>6, <2>3, <2>6, NothingThere, OneDelivery
          DEF DeliveryInv
<1>8. CASE ~ Upgrade(s)
  <2>1. task'[s] \notin Receiving /\ capture' = capture
    BY <1>8
    DEF InRuntime, Request, Handler, Reject, Acquire, AcquireRaces, UpgradeFails, Moves,
        Receiving, captureVars, SessionsDeliver, ReasonInv, SlotInv, SlotTypes
  <2>2. JoinInv(s)'
    BY <1>2, <2>1 DEF SessionsDeliver, DeliveryInv, JoinInv, ownerVars
  <2>3. Pending(s)'
    BY <1>2, StreamStays DEF SessionsDeliver, DeliveryInv, PlaceInv, ownerVars
  <2> QED BY <1>1, <1>2, <1>4, <1>5, <1>6, <2>1, <2>2, <2>3, NothingThere, OneDelivery
          DEF DeliveryInv
<1> QED BY <1>7, <1>8

\* Leaving the loop leaves nothing to receive.
LEMMA LeaveDelivers ==
  ASSUME SessionsDeliver, NEW s \in Sessions, ReasonInv',
         Leave(s), LoopFrame, UNCHANGED <<client_stop, unhealthy>>
  PROVE  SessionsDeliver'
<1>1. UNCHANGED <<captureVars, ownerVars, unhealthy>>
  BY DEF LoopFrame
<1>2. queue'[s] = <<>> /\ wire'[s] = <<>> /\ task'[s] \notin Receiving
  BY DEF Leave, Moves, Receiving, SessionsDeliver, ReasonInv, FlagTypes, SlotInv, SlotTypes
<1>3. DeliveryStep(s)
  BY <1>1
  DEF Leave, Moves, DeliveryStep, SessionsDeliver, ReasonInv, FlagTypes, SlotInv,
      SlotTypes, captureVars, ownerVars
<1>4. CallbackInv(s)' /\ JoinInv(s)' /\ stop_timed_out' \in [Sessions -> BOOLEAN]
  BY <1>1 DEF SessionsDeliver, DeliveryInv, CallbackInv, JoinInv, captureVars, ownerVars
<1>5. Pending(s)'
  BY <1>1, StreamStays DEF SessionsDeliver, DeliveryInv, PlaceInv, ownerVars
<1> QED BY <1>2, <1>3, <1>4, <1>5, NothingThere, OneDelivery DEF DeliveryInv

\* What is received goes from the queue to the wire, and the rest moves up.  An event
\* out of its place is the last: the check comes next.
LEMMA ReceiveDelivers ==
  ASSUME SessionsDeliver, NEW s \in Sessions, ReasonInv', ReceiveEvent(s)
  PROVE  SessionsDeliver'
<1>1. UNCHANGED <<captureVars, ownerVars, unhealthy>> /\ task'[s] = "Checking"
  BY DEF ReceiveEvent, LoopFrame, Moves, flagVars, SessionsDeliver, ReasonInv, SlotInv,
         SlotTypes
<1>2. DeliveryStep(s)
  BY <1>1
  DEF ReceiveEvent, Moves, DeliveryStep, SessionsDeliver, ReasonInv, FlagTypes, SlotInv,
      SlotTypes, captureVars, ownerVars
<1>3. CallbackInv(s)' /\ JoinInv(s)' /\ stop_timed_out' \in [Sessions -> BOOLEAN]
  BY <1>1 DEF SessionsDeliver, DeliveryInv, CallbackInv, JoinInv, captureVars, ownerVars
<1>4. /\ queue[s] # <<>> /\ queue[s][1].kind = "Event" /\ task[s] = "Selecting"
      /\ queue'[s] = Tail(queue[s])
      /\ wire'[s] = Append(wire[s], queue[s][1].event)
  <2>1. queue[s] # <<>> /\ Head(queue[s]) = queue[s][1]
    BY RestOf DEF ReceiveEvent, Received, SessionsDeliver, ReasonInv, TruthInv
  <2> QED BY <2>1 DEF ReceiveEvent, Received, SessionsDeliver, ReasonInv, FlagTypes
<1>5. PICK a \in Nat \ {0}, w \in Nat, sent \in Int, whole \in Nat :
        /\ a = Len(queue[s]) /\ w = Len(wire[s])
        /\ sent = SentLength(s) /\ whole = StreamLength(s) /\ sent <= whole
  <2>1. Len(queue[s]) # 0
    BY <1>4, RestOf DEF SessionsDeliver, ReasonInv, TruthInv
  <2> QED BY <2>1, LengthTypes DEF SessionsDeliver, SentLength
<1>6. /\ Len(queue'[s]) = a - 1
      /\ \A i \in 1 .. a - 1 : queue'[s][i] = queue[s][i + 1]
  BY <1>4, <1>5, RestOf DEF SessionsDeliver, ReasonInv, TruthInv
<1>7. /\ Len(wire'[s]) = w + 1
      /\ \A i \in 1 .. w : wire'[s][i] = wire[s][i]
      /\ wire'[s][w + 1] = queue[s][1].event
  <2>1. /\ wire[s] \in Seq(Truthful(s) \cup {queue[s][1].event})
    BY DEF SessionsDeliver, ReasonInv, TruthInv
  <2>2. queue[s][1].event \in Truthful(s) \cup {queue[s][1].event}
    OBVIOUS
  <2> QED BY <1>4, <1>5, <2>1, <2>2, AppendProperties, LenProperties
<1>8. PlaceInv(s)
  BY DEF SessionsDeliver, DeliveryInv
<1>9. /\ SentLength(s)' = sent /\ StreamLength(s)' = whole
      /\ \A n, e : IsEvent(s, n, e)' <=> IsEvent(s, n, e)
      /\ Pending(s)'
  BY <1>1, <1>5, <1>8, StreamStays DEF ownerVars, PlaceInv
<1>10. ASSUME NEW n \in 0 .. a - 1, Leading(s, n)'
       PROVE  n + 1 \in 1 .. a /\ Leading(s, n + 1) /\ (w + 1) + n = w + (n + 1)
              /\ (n > 0 => queue'[s][n] = queue[s][n + 1])
              /\ (LastEvent(s, n)' => LastEvent(s, n + 1))
  <2>1. n \in Nat /\ n + 1 \in 1 .. a /\ (w + 1) + n = w + (n + 1)
    <3>1. a \in Nat /\ a >= 1 /\ n \in Nat /\ n <= a - 1
      OBVIOUS
    <3>2. n + 1 \in 1 .. a
      BY <3>1
    <3>3. (w + 1) + n = w + (n + 1)
      BY <3>1
    <3> QED BY <3>1, <3>2, <3>3
  <2>2. Leading(s, n + 1)
    <3>1. ASSUME NEW j \in 1 .. n + 1, j # 1
          PROVE  queue[s][j].kind = "Event"
      <4>1. j - 1 \in 1 .. n /\ j - 1 \in 1 .. a - 1 /\ (j - 1) + 1 = j
        BY <1>5, <2>1, <3>1
      <4>2. queue'[s][j - 1].kind = "Event"
        BY <1>10, <4>1 DEF Leading
      <4> QED BY <1>6, <4>1, <4>2
    <3> QED BY <1>4, <3>1 DEF Leading
  <2>3. LastEvent(s, n)' => LastEvent(s, n + 1)
    <3>1. CASE n = a - 1
      BY <1>5, <3>1 DEF LastEvent
    <3>2. CASE n # a - 1
      <4>1. n + 1 \in 1 .. a - 1
        BY <1>5, <3>2
      <4>2. queue'[s][n + 1] = queue[s][(n + 1) + 1] /\ n # Len(queue'[s])
        BY <1>6, <3>2, <4>1
      <4> QED BY <1>1, <4>2 DEF LastEvent, captureVars
    <3> QED BY <3>1, <3>2
  <2>4. n > 0 => queue'[s][n] = queue[s][n + 1]
    BY <1>6, <2>1
  <2> QED BY <2>1, <2>2, <2>3, <2>4
<1>11. \A n \in 1 .. a : Leading(s, n) =>
         /\ w + n <= sent
         /\ \E m \in w + n .. sent : IsEvent(s, m, queue[s][n].event)
  BY <1>5, <1>8 DEF PlaceInv, Ahead
<1>12. Ahead(s)'
  <2> SUFFICES ASSUME NEW n \in 0 .. a - 1, Leading(s, n)'
               PROVE  /\ (w + 1) + n <= sent
                      /\ n > 0 => \E m \in (w + 1) + n .. sent :
                                     IsEvent(s, m, queue'[s][n].event)
    BY <1>6, <1>7, <1>9 DEF Ahead
  <2> QED BY <1>10, <1>11
<1>13. ~unhealthy[s] => InPlace(s)' /\ (~refused[s] => Counted(s)')
  <2> SUFFICES ASSUME ~unhealthy[s], NEW n \in 0 .. a - 1, Leading(s, n)'
               PROVE  /\ n > 0 => IsEvent(s, (w + 1) + n, queue'[s][n].event)
                      /\ ~refused[s] /\ LastEvent(s, n)' => (w + 1) + n = sent
    BY <1>6, <1>7, <1>9 DEF InPlace, Counted
  <2>1. IsEvent(s, w + (n + 1), queue[s][n + 1].event)
    BY <1>4, <1>5, <1>8, <1>10 DEF PlaceInv, InPlace, Receiving
  <2>2. ~refused[s] /\ LastEvent(s, n + 1) => w + (n + 1) = sent
    <3>1. n + 1 \in 0 .. a /\ Leading(s, n + 1)
      BY <1>10
    <3>2. ~refused[s] => Counted(s)
      BY <1>4, <1>8 DEF PlaceInv, Receiving
    <3> QED BY <1>5, <3>1, <3>2 DEF Counted
  <2> QED BY <1>10, <2>1, <2>2
<1>14. WireInv(s)'
  <2> SUFFICES ASSUME NEW i \in 1 .. w + 1
               PROVE  \/ IsEvent(s, i, wire'[s][i])
                      \/ /\ unhealthy[s] /\ i = w + 1
                         /\ \E n \in i + 1 .. whole : IsEvent(s, n, wire'[s][i])
    BY <1>1, <1>7, <1>9 DEF WireInv
  <2>1. CASE i <= w
    <3>1. i \in 1 .. w
      BY <2>1
    <3> QED BY <1>4, <1>5, <1>7, <1>8, <3>1 DEF PlaceInv, WireInv
  <2>2. CASE i = w + 1
    <3>1. Leading(s, 1) /\ 1 \in 1 .. a
      BY <1>4 DEF Leading
    <3>2. PICK m \in w + 1 .. sent : IsEvent(s, m, queue[s][1].event)
      BY <1>11, <3>1
    <3>3. ~unhealthy[s] => IsEvent(s, w + 1, queue[s][1].event)
      BY <1>4, <1>5, <1>8, <3>1 DEF PlaceInv, InPlace, Receiving
    <3>4. m = w + 1 \/ m \in (w + 1) + 1 .. whole
      BY <1>5, <3>2
    <3> QED BY <1>7, <2>2, <3>2, <3>3, <3>4 DEF SessionsDeliver, ReasonInv, FlagTypes
  <2> QED BY <2>1, <2>2
<1>15. PlaceInv(s)'
  BY <1>1, <1>9, <1>12, <1>13, <1>14 DEF PlaceInv, ownerVars
<1>16. (\A i \in 1 .. Len(queue[s]) : MessageInv(s, i))'
  <2> SUFFICES ASSUME NEW i \in 1 .. a - 1 PROVE MessageInv(s, i)'
    BY <1>6
  <2>1. i + 1 \in 1 .. a
    BY <1>5
  <2>2. MessageInv(s, i + 1)
    BY <1>5, <2>1 DEF SessionsDeliver, DeliveryInv
  <2>3. queue'[s][i] = queue[s][i + 1]
    BY <1>6
  <2>4. i = Len(queue'[s]) <=> i + 1 = Len(queue[s])
    BY <1>5, <1>6
  <2> QED BY <1>1, <2>2, <2>3, <2>4 DEF MessageInv, captureVars, ownerVars
<1> QED BY <1>2, <1>3, <1>15, <1>16, OneDelivery DEF DeliveryInv

\* The session's loop delivers what it receives, in order.
LEMMA LoopDelivers ==
  ASSUME SessionsDeliver, NEW s \in Sessions,
         InRuntime(\/ Proceed(s) \/ TooSlow(s) \/ ShutdownSeen(s) \/ Receive(s)
                   \/ Ignored(s) \/ ClientGone(s) \/ ClientStops(s)
                   \/ StopAsked(s) \/ Join(s))
  PROVE  SessionsDeliver'
<1>1. ReasonInv'
  BY LoopKeepsReasons DEF SessionsDeliver
<1>2. CASE \/ TooSlow(s) \/ ShutdownSeen(s) \/ SendFails(s)
           \/ ReceiveStartupFailure(s) \/ ReceiveEnd(s) \/ ClientGone(s)
  BY <1>1, <1>2, LeaveDelivers
  DEF TooSlow, ShutdownSeen, SendFails, ReceiveStartupFailure, ReceiveEnd, ClientGone
<1>3. CASE Proceed(s) \/ Ignored(s) \/ ClientStops(s) \/ StopAsked(s) \/ Join(s)
  <2>1. UNCHANGED <<captureVars, ownerVars, unhealthy, queue, wire>>
    BY <1>3 DEF Proceed, Ignored, ClientStops, StopAsked, Join, LoopFrame, flagVars
  <2>2. /\ task'[s] \in Receiving => task[s] \in Receiving
        /\ task'[s] = "Selecting" => task[s] = "Selecting" \/ ~unhealthy[s]
        /\ \A r \in Sessions \ {s} : task'[r] = task[r]
    BY <1>3
    DEF Proceed, Ignored, ClientStops, StopAsked, Join, Moves, Receiving,
        SessionsDeliver, ReasonInv, SlotInv, SlotTypes
  <2>3. PlaceInv(s)'
    BY <1>1, <2>1, <2>2, OthersMove DEF captureVars, ownerVars
  <2>4. CallbackInv(s)' /\ JoinInv(s)' /\ stop_timed_out' \in [Sessions -> BOOLEAN]
    BY <2>1 DEF SessionsDeliver, DeliveryInv, CallbackInv, JoinInv, captureVars, ownerVars
  <2>5. (\A i \in 1 .. Len(queue[s]) : MessageInv(s, i))'
    BY <2>1 DEF SessionsDeliver, DeliveryInv, MessageInv, captureVars, ownerVars
  <2>6. DeliveryStep(s)
    BY <2>1, <2>2 DEF DeliveryStep, captureVars, ownerVars
  <2> QED BY <1>1, <2>3, <2>4, <2>5, <2>6, OneDelivery DEF DeliveryInv
<1>4. CASE ReceiveEvent(s)
  BY <1>1, <1>4, ReceiveDelivers
<1> QED BY <1>2, <1>3, <1>4 DEF InRuntime, Receive

\* A connection that is closed starts over, one that is cancelled receives no more.
LEMMA LeavingDelivers ==
  ASSUME SessionsDeliver, NEW s \in Sessions, InRuntime(Close(s) \/ Cancel(s))
  PROVE  SessionsDeliver'
<1>1. ReasonInv'
  BY LeavingKeepsReasons DEF SessionsDeliver
<1>2. CASE Close(s)
  <2>1. queue'[s] = <<>> /\ wire'[s] = <<>> /\ task'[s] \notin Receiving
    BY <1>2
    DEF Close, Moves, Receiving, SessionsDeliver, ReasonInv, TruthInv, SlotInv, SlotTypes
  <2>2. DeliveryStep(s)
    BY <1>2
    DEF Close, Moves, Captures, DeliveryStep, SessionsDeliver, ReasonInv, FlagTypes,
        SlotInv, SlotTypes
  <2>3. CallbackInv(s)' /\ JoinInv(s)' /\ stop_timed_out' \in [Sessions -> BOOLEAN]
    BY <1>2
    DEF Close, Moves, Captures, CallbackInv, JoinInv, SessionsDeliver, ReasonInv,
        FlagTypes, SlotInv, SlotTypes
  <2>4. SentLength(s)' = 0 /\ Pending(s)'
    <3>1. /\ stage'[s] = "Unstarted" /\ windows'[s] = 0 /\ error'[s] = None
          /\ encoded'[s] = <<>>
      BY <1>2 DEF Close, SessionsDeliver, ReasonInv, FlagTypes
    <3>2. StreamLength(s)' = 0 /\ Len(encoded'[s]) = 0
      BY <3>1 DEF StreamLength
    <3> QED BY <3>2 DEF SentLength, Pending
  <2> QED BY <1>1, <2>1, <2>2, <2>3, <2>4, NothingThere, OneDelivery DEF DeliveryInv
<1>3. CASE Cancel(s)
  <2>1. UNCHANGED <<flagVars, captureVars, ownerVars>>
    BY <1>3 DEF Cancel
  <2>2. queue'[s] = <<>> /\ wire'[s] = <<>> /\ task'[s] \notin Receiving
    BY <1>3
    DEF Cancel, Moves, Receiving, SessionsDeliver, ReasonInv, FlagTypes, SlotInv, SlotTypes
  <2>3. DeliveryStep(s)
    BY <1>3, <2>1
    DEF Cancel, Moves, DeliveryStep, SessionsDeliver, ReasonInv, FlagTypes, SlotInv,
        SlotTypes, flagVars, captureVars, ownerVars
  <2>4. CallbackInv(s)' /\ JoinInv(s)' /\ stop_timed_out' \in [Sessions -> BOOLEAN]
    BY <2>1 DEF SessionsDeliver, DeliveryInv, CallbackInv, JoinInv, captureVars, ownerVars
  <2>5. Pending(s)'
    BY <2>1, StreamStays DEF SessionsDeliver, DeliveryInv, PlaceInv, ownerVars
  <2> QED BY <1>1, <2>2, <2>3, <2>4, <2>5, NothingThere, OneDelivery DEF DeliveryInv
<1> QED BY <1>2, <1>3 DEF InRuntime

-----------------------------------------------------------------------------
(* What is added to the queue.                                             *)

\* A message of the capture task goes behind every event, and for a message is
\* no event the rest is where it was.
LEMMA TrySendDelivers ==
  ASSUME SessionsDeliver, NEW s \in Sessions, NEW m \in {StartupFailure, Finished},
         ReasonInv', TrySend(s, m),
         wire'[s] = wire[s], task'[s] = task[s], unhealthy'[s] = unhealthy[s],
         stop_timed_out'[s] = stop_timed_out[s], stage'[s] = stage[s],
         error'[s] = error[s], windows'[s] = windows[s],
         encoded'[s] = encoded[s], refused'[s] = refused[s]
  PROVE  /\ PlaceInv(s)'
         /\ \/ queue'[s] = queue[s]
            \/ /\ Len(queue'[s]) = Len(queue[s]) + 1 /\ Len(queue[s]) \in Nat
               /\ \A i \in 1 .. Len(queue[s]) : queue'[s][i] = queue[s][i]
               /\ queue'[s][Len(queue[s]) + 1] = m
         /\ \A r \in Sessions \ {s} : queue'[r] = queue[r]
<1>1. CASE ~HasRoom(s)
  <2>1. queue' = queue
    BY <1>1 DEF TrySend
  <2> QED BY <2>1, OthersMove
<1>2. CASE HasRoom(s)
  <2>1. queue' = [queue EXCEPT ![s] = Append(queue[s], m)]
    BY <1>2 DEF TrySend
  <2>2. queue'[s] = Append(queue[s], m) /\ \A r \in Sessions \ {s} : queue'[r] = queue[r]
    BY <2>1 DEF SessionsDeliver, ReasonInv, FlagTypes
  <2>3. /\ Len(queue'[s]) = Len(queue[s]) + 1 /\ Len(queue[s]) \in Nat
        /\ \A i \in 1 .. Len(queue[s]) : queue'[s][i] = queue[s][i]
        /\ queue'[s][Len(queue[s]) + 1] = m
    <3>1. queue[s] \in Seq(Messages(s)) /\ m \in Messages(s)
      BY DEF SessionsDeliver, ReasonInv, TruthInv, Messages
    <3> QED BY <2>2, <3>1, AppendProperties, LenProperties
  <2>4. m.kind # "Event"
    BY DEF StartupFailure, Finished
  <2>5. PlaceInv(s)
    BY DEF SessionsDeliver, DeliveryInv
  <2>6. /\ StreamLength(s)' = StreamLength(s) /\ SentLength(s)' = SentLength(s)
        /\ \A n, e : IsEvent(s, n, e)' <=> IsEvent(s, n, e)
        /\ Pending(s)'
    BY <2>5, StreamStays DEF PlaceInv
  <2>7. ASSUME NEW n \in 0 .. Len(queue[s]) + 1, Leading(s, n)'
        PROVE  /\ n \in 0 .. Len(queue[s]) /\ Leading(s, n)
               /\ n > 0 => queue'[s][n] = queue[s][n]
               /\ LastEvent(s, n)' => LastEvent(s, n)
    <3>1. n # Len(queue[s]) + 1
      BY <2>3, <2>4, <2>7 DEF Leading
    <3>2. n \in 0 .. Len(queue[s])
      BY <2>3, <3>1
    <3>3. Leading(s, n)
      BY <2>3, <2>7, <3>2 DEF Leading
    <3>4. LastEvent(s, n)' => LastEvent(s, n)
      <4>1. CASE n = Len(queue[s])
        BY <4>1 DEF LastEvent
      <4>2. CASE n # Len(queue[s])
        <5>1. n + 1 \in 1 .. Len(queue[s]) /\ n # Len(queue[s]) + 1
          BY <2>3, <3>2, <4>2
        <5>2. queue'[s][n + 1] = queue[s][n + 1] /\ n # Len(queue'[s])
          BY <2>3, <5>1
        <5> QED BY <5>2 DEF LastEvent
      <4> QED BY <4>1, <4>2
    <3>5. n > 0 => queue'[s][n] = queue[s][n]
      BY <2>3, <3>2
    <3> QED BY <3>2, <3>3, <3>4, <3>5
  <2>8. Ahead(s)'
    BY <2>3, <2>5, <2>6, <2>7 DEF PlaceInv, Ahead
  <2>9. WireInv(s)'
    BY <2>5, <2>6 DEF PlaceInv, WireInv
  <2>10. InPlace(s) => InPlace(s)'
    BY <2>3, <2>6, <2>7 DEF InPlace
  <2>11. Counted(s) => Counted(s)'
    BY <2>3, <2>6, <2>7 DEF Counted
  <2>12. PlaceInv(s)'
    BY <2>5, <2>6, <2>8, <2>9, <2>10, <2>11 DEF PlaceInv
  <2> QED BY <2>2, <2>3, <2>12
<1> QED BY <1>1, <1>2

\* The steps of the capture task that send nothing.
LEMMA CaptureMoves ==
  ASSUME SessionsDeliver, NEW s \in Sessions,
         \/ Begin(s) \/ NeverBegins(s) \/ StopSupervisor(s) \/ OwnerJoined(s)
         \/ StopTimesOut(s) \/ DropSupervisor(s)
  PROVE  /\ queue' = queue /\ UNCHANGED <<flagVars, slotVars, wire, owner, stage,
                                          error, windows>>
         /\ stop_timed_out' \in [Sessions -> BOOLEAN]
         /\ stop_timed_out[s] => stop_timed_out'[s]
         /\ \A r \in Sessions \ {s} : /\ capture'[r] = capture[r]
                                      /\ stop_timed_out'[r] = stop_timed_out[r]
         /\ JoinInv(s)'
         /\ (\A i \in 1 .. Len(queue[s]) : MessageInv(s, i))'
<1>1. /\ queue' = queue /\ UNCHANGED <<flagVars, slotVars, wire, owner, stage,
                                        error, windows>>
      /\ stop_timed_out' \in [Sessions -> BOOLEAN]
      /\ stop_timed_out[s] => stop_timed_out'[s]
      /\ \A r \in Sessions \ {s} : /\ capture'[r] = capture[r]
                                   /\ stop_timed_out'[r] = stop_timed_out[r]
  BY DEF Begin, NeverBegins, StopSupervisor, OwnerJoined, StopTimesOut, DropSupervisor,
         SupervisorFrame, Captures, ownerVars, SessionsDeliver, ReasonInv, SlotInv,
         SlotTypes
<1>2. JoinInv(s)'
  BY <1>1
  DEF Begin, NeverBegins, StopSupervisor, OwnerJoined, StopTimesOut, DropSupervisor,
      AfterLoop, Captures, Completions, ownerVars, JoinInv, SessionsDeliver, DeliveryInv,
      ReasonInv, SlotInv, SlotTypes
<1>3. ASSUME NEW i \in 1 .. Len(queue[s])
      PROVE  MessageInv(s, i)'
  <2>1. MessageInv(s, i) /\ JoinInv(s)
    BY DEF SessionsDeliver, DeliveryInv
  <2> QED BY <1>1, <2>1
          DEF Begin, NeverBegins, StopSupervisor, OwnerJoined, StopTimesOut,
              DropSupervisor, Captures, JoinInv, MessageInv, SessionsDeliver, ReasonInv,
              SlotInv, SlotTypes
<1> QED BY <1>1, <1>2, <1>3

\* The capture task's steps keep what is delivered.
LEMMA CaptureDelivers ==
  ASSUME SessionsDeliver, NEW s \in Sessions, InRuntime(CaptureTask(s))
  PROVE  SessionsDeliver'
<1>1. ReasonInv'
  BY CaptureKeepsReasons DEF SessionsDeliver
<1>2. UNCHANGED <<serviceVars, slotVars, flagVars, wire, stage, error, windows,
                  encoded, refused>>
  BY DEF InRuntime, CaptureTask, Begin, NeverBegins, StartSupervisor, StopSupervisor,
         OwnerJoined, StopTimesOut, Report, Finish, DropSupervisor, SupervisorFrame,
         ownerVars
<1>3. CASE \/ Begin(s) \/ NeverBegins(s) \/ StopSupervisor(s) \/ OwnerJoined(s)
           \/ StopTimesOut(s) \/ DropSupervisor(s)
  <2>1. PlaceInv(s)'
    BY <1>1, <1>2, <1>3, CaptureMoves, OthersMove DEF slotVars, flagVars
  <2>2. CallbackInv(s)'
    BY <1>2, <1>3, CaptureMoves DEF SessionsDeliver, DeliveryInv, CallbackInv
  <2>3. DeliveryStep(s)
    BY <1>2, <1>3, CaptureMoves DEF DeliveryStep, slotVars, flagVars
  <2> QED BY <1>1, <1>3, <2>1, <2>2, <2>3, CaptureMoves, OneDelivery DEF DeliveryInv
<1>4. CASE StartSupervisor(s) /\ owner' # owner
  <2>1. /\ capture[s] = "Starting" /\ capture'[s] = "Polling" /\ owner'[s] = "Running"
        /\ queue' = queue /\ stop_timed_out' = stop_timed_out
    BY <1>4
    DEF StartSupervisor, Captures, SessionsDeliver, ReasonInv, SlotInv, SlotTypes
  <2>2. PlaceInv(s)'
    BY <1>1, <1>2, <2>1, OthersMove DEF slotVars, flagVars
  <2>3. JoinInv(s)' /\ CallbackInv(s)' /\ stop_timed_out' \in [Sessions -> BOOLEAN]
    BY <1>2, <2>1 DEF JoinInv, CallbackInv, SessionsDeliver, DeliveryInv
  <2>4. (\A i \in 1 .. Len(queue[s]) : MessageInv(s, i))'
    BY <1>2, <2>1 DEF JoinInv, MessageInv, SessionsDeliver, DeliveryInv
  <2>5. DeliveryStep(s)
    BY <1>2, <1>4
    DEF StartSupervisor, Captures, DeliveryStep, slotVars, flagVars, SessionsDeliver,
        ReasonInv, SlotInv, SlotTypes
  <2> QED BY <1>1, <2>2, <2>3, <2>4, <2>5, OneDelivery DEF DeliveryInv
<1>5. CASE \/ StartSupervisor(s) /\ owner' = owner
           \/ Report(s) \/ Finish(s)
  <2>1. PICK m \in {StartupFailure, Finished} :
          /\ TrySend(s, m) /\ owner' = owner /\ stop_timed_out' = stop_timed_out
          /\ \A r \in Sessions \ {s} : capture'[r] = capture[r]
          /\ \/ m = StartupFailure /\ capture[s] = "Starting" /\ capture'[s] = "Done"
             \/ m = StartupFailure /\ capture[s] = "Reporting" /\ capture'[s] = "Finishing"
             \/ m = Finished /\ capture[s] = "Finishing" /\ capture'[s] = "Dropping"
    <3>1. CASE StartSupervisor(s) /\ owner' = owner
      <4>1. capture[s] = "Starting" /\ owner[s] = "None" /\ s \in DOMAIN owner
        BY <3>1
        DEF StartSupervisor, SessionsDeliver, DeliveryInv, JoinInv, ReasonInv, SlotInv,
            SlotTypes
      <4>2. owner' # [owner EXCEPT ![s] = "Running"]
        BY <3>1, <4>1
      <4> QED BY <3>1, <4>1, <4>2
              DEF StartSupervisor, Captures, SessionsDeliver, ReasonInv, SlotInv, SlotTypes
    <3>2. CASE Report(s) \/ Finish(s)
      BY <3>2
      DEF Report, Finish, Captures, ownerVars, SessionsDeliver, ReasonInv, SlotInv,
          SlotTypes
    <3> QED BY <1>5, <3>1, <3>2
  <2>2. /\ PlaceInv(s)'
        /\ \/ queue'[s] = queue[s]
           \/ /\ Len(queue'[s]) = Len(queue[s]) + 1 /\ Len(queue[s]) \in Nat
              /\ \A i \in 1 .. Len(queue[s]) : queue'[s][i] = queue[s][i]
              /\ queue'[s][Len(queue[s]) + 1] = m
        /\ \A r \in Sessions \ {s} : queue'[r] = queue[r]
    BY <1>1, <1>2, <2>1, TrySendDelivers DEF slotVars, flagVars
  <2>3. CallbackInv(s) /\ JoinInv(s) /\ \A i \in 1 .. Len(queue[s]) : MessageInv(s, i)
    BY DEF SessionsDeliver, DeliveryInv
  <2>4. CallbackInv(s)' /\ JoinInv(s)' /\ stop_timed_out' \in [Sessions -> BOOLEAN]
    <3>1. CallbackInv(s)'
      BY <1>2, <2>1, <2>3 DEF CallbackInv
    <3>2. JoinInv(s)'
      BY <2>1, <2>3 DEF JoinInv, Completions
    <3> QED BY <2>1, <3>1, <3>2 DEF SessionsDeliver
  <2>5. ASSUME NEW i \in 1 .. Len(queue[s]), queue'[s][i] = queue[s][i]
        PROVE  MessageInv(s, i)'
    <3>1. MessageInv(s, i)
      BY <2>3
    <3>2. queue[s][i].kind # "Finished"
      BY <2>1, <3>1 DEF MessageInv
    <3> QED BY <1>2, <2>1, <2>3, <2>5, <3>1, <3>2 DEF MessageInv, JoinInv
  <2>6. ASSUME Len(queue'[s]) = Len(queue[s]) + 1, Len(queue[s]) \in Nat,
               queue'[s][Len(queue[s]) + 1] = m
        PROVE  \A i : i = Len(queue[s]) + 1 => MessageInv(s, i)'
    <3>1. (stage[s] = "Unstarted" /\ owner[s] # "Running") \/ m = Finished
      BY <2>1, <2>3 DEF JoinInv, CallbackInv
    <3> QED BY <1>2, <2>1, <2>6, <3>1 DEF MessageInv, StartupFailure, Finished
  <2>7. (\A i \in 1 .. Len(queue[s]) : MessageInv(s, i))'
    <3> SUFFICES ASSUME NEW i \in 1 .. Len(queue[s])' PROVE MessageInv(s, i)'
      OBVIOUS
    <3> QED BY <2>2, <2>5, <2>6
  <2>8. DeliveryStep(s)
    BY <1>2, <2>1, <2>2 DEF DeliveryStep, slotVars, flagVars
  <2> QED BY <1>1, <2>2, <2>4, <2>7, <2>8, OneDelivery DEF DeliveryInv
<1> QED BY <1>3, <1>4, <1>5 DEF InRuntime, CaptureTask

\* events continue the stream of the callback after its first length ones, and leave
\* those as they are.
Continues(s, length, events) ==
  /\ StreamLength(s)' = length + Len(events)
  /\ \A i \in 1 .. Len(events) :
       events[i].kind = "Event" /\ IsEvent(s, length + i, events[i].event)'
  /\ \A n, e : IsEvent(s, n, e) => IsEvent(s, n, e)'

\* A message that is sent goes where it belongs, or behind a hole that the session is
\* about to be stopped for.
LEMMA SendDelivers ==
  ASSUME SessionsDeliver, NEW s \in Sessions, ReasonInv', SendNext(s)
  PROVE  PlaceInv(s)' /\ (\A i \in 1 .. Len(queue[s]) : MessageInv(s, i))'
<1>1. UNCHANGED <<slotVars, client_stop, wire, captureVars, owner, stage, error, windows,
                  unhealthy, refused>>
  BY DEF SendNext, SendFrame
<1>2. /\ PlaceInv(s) /\ CallbackInv(s) /\ JoinInv(s) /\ SessionInv(s)
      /\ \A i \in 1 .. Len(queue[s]) : MessageInv(s, i)
  BY DEF SessionsDeliver, DeliveryInv, ReasonInv, SlotInv
<1>3. /\ encoded[s] # <<>> /\ encoded[s] \in Seq(Messages(s)) /\ queue[s] \in Seq(Messages(s))
      /\ queue'[s] = Append(queue[s], Head(encoded[s])) /\ encoded'[s] = Tail(encoded[s])
      /\ owner[s] = "Running" /\ ~refused[s]
  BY DEF SendNext, HasRoom, SessionsDeliver, ReasonInv, FlagTypes, FlagInv, TruthInv
<1>4. PICK a \in Nat, w \in Nat, l \in Nat, sent \in Int, whole \in Nat :
        /\ a = Len(queue[s]) /\ w = Len(wire[s]) /\ Len(encoded[s]) = l + 1
        /\ sent = SentLength(s) /\ whole = StreamLength(s) /\ sent = whole - (l + 1)
  <2>1. Len(encoded[s]) \in Nat \ {0}
    BY <1>3, RestOf
  <2>2. Len(encoded[s]) - 1 \in Nat /\ Len(encoded[s]) = (Len(encoded[s]) - 1) + 1
    BY <2>1
  <2> QED BY <2>2, LengthTypes DEF SessionsDeliver, SentLength
<1> DEFINE h == encoded[s][1]
<1>5. /\ Len(queue'[s]) = a + 1
      /\ \A i \in 1 .. a : queue'[s][i] = queue[s][i]
      /\ queue'[s][a + 1] = h
      /\ Len(encoded'[s]) = l /\ \A j \in 1 .. l : encoded'[s][j] = encoded[s][j + 1]
  <2>1. /\ Head(encoded[s]) = h /\ h \in Messages(s)
        /\ Len(encoded'[s]) = l /\ \A j \in 1 .. l : encoded'[s][j] = encoded[s][j + 1]
    <3>1. /\ Len(Tail(encoded[s])) = Len(encoded[s]) - 1
          /\ \A j \in 1 .. Len(encoded[s]) - 1 : Tail(encoded[s])[j] = encoded[s][j + 1]
          /\ Head(encoded[s]) = encoded[s][1] /\ Head(encoded[s]) \in Messages(s)
      BY <1>3, RestOf
    <3>2. Len(encoded[s]) - 1 = l
      BY <1>4
    <3> QED BY <1>3, <3>1, <3>2
  <2> HIDE DEF h
  <2> QED BY <1>3, <1>4, <2>1, AppendProperties
<1>6. /\ \A n, e : IsEvent(s, n, e)' <=> IsEvent(s, n, e)
      /\ StreamLength(s)' = whole /\ SentLength(s)' = sent + 1
  <2>1. /\ \A n, e : IsEvent(s, n, e)' <=> IsEvent(s, n, e)
        /\ StreamLength(s)' = whole
    BY <1>1, <1>4, StreamStays
  <2>2. whole - l = sent + 1
    BY <1>4
  <2> QED BY <1>5, <2>1, <2>2 DEF SentLength
<1>7. ASSUME NEW j \in 1 .. l + 1
      PROVE  encoded[s][j].kind = "Event" /\ IsEvent(s, sent + j, encoded[s][j].event)
  BY <1>2, <1>4 DEF PlaceInv, Pending
<1>8. h.kind = "Event" /\ IsEvent(s, sent + 1, h.event)
  BY <1>7
<1> HIDE DEF h
<1>9. Pending(s)'
  <2> SUFFICES ASSUME NEW j \in 1 .. l
               PROVE  /\ encoded'[s][j].kind = "Event"
                      /\ IsEvent(s, (sent + 1) + j, encoded'[s][j].event)
    <3>1. l + 1 <= whole
      BY <1>2, <1>4 DEF PlaceInv, Pending
    <3>2. l <= whole
      BY <3>1
    <3> QED BY <1>5, <1>6, <3>2 DEF Pending
  <2>1. j + 1 \in 1 .. l + 1 /\ sent + (j + 1) = (sent + 1) + j
    OBVIOUS
  <2> QED BY <1>5, <1>7, <2>1
<1>10. ASSUME NEW n \in 0 .. a + 1, Leading(s, n)'
       PROVE  \/ /\ n \in 0 .. a /\ Leading(s, n) /\ n # a + 1
                 /\ n > 0 => queue'[s][n] = queue[s][n]
              \/ n = a + 1 /\ Leading(s, a)
  <2>1. CASE n = a + 1
    <3>1. ASSUME NEW j \in 1 .. a PROVE queue[s][j].kind = "Event"
      <4>1. j \in 1 .. n
        BY <2>1
      <4> QED BY <1>5, <1>10, <4>1 DEF Leading
    <3> QED BY <2>1, <3>1 DEF Leading
  <2>2. CASE n # a + 1
    <3>1. n \in 0 .. a
      BY <2>2
    <3>2. \A j \in 1 .. n : j \in 1 .. a
      BY <3>1
    <3>3. Leading(s, n)
      BY <1>5, <1>10, <3>2 DEF Leading
    <3>4. n > 0 => queue'[s][n] = queue[s][n]
      BY <1>5, <3>1
    <3> QED BY <2>2, <3>1, <3>3, <3>4
  <2> QED BY <2>1, <2>2
<1>11. \A n \in 0 .. a : Leading(s, n) =>
         /\ w + n <= sent
         /\ n > 0 => \E m \in w + n .. sent : IsEvent(s, m, queue[s][n].event)
  BY <1>2, <1>4 DEF PlaceInv, Ahead
<1>12. Ahead(s)'
  <2> SUFFICES ASSUME NEW n \in 0 .. a + 1, Leading(s, n)'
               PROVE  /\ w + n <= sent + 1
                      /\ n > 0 => \E m \in w + n .. sent + 1 :
                                     IsEvent(s, m, queue'[s][n].event)
    BY <1>1, <1>4, <1>5, <1>6 DEF Ahead
  <2>1. CASE n \in 0 .. a /\ Leading(s, n) /\ (n > 0 => queue'[s][n] = queue[s][n])
    <3>1. /\ w + n <= sent
          /\ n > 0 => \E m \in w + n .. sent : IsEvent(s, m, queue'[s][n].event)
      BY <1>11, <2>1
    <3>2. \A m \in w + n .. sent : m \in w + n .. sent + 1
      OBVIOUS
    <3>3. w + n <= sent + 1
      BY <3>1
    <3> QED BY <3>1, <3>2, <3>3
  <2>2. CASE n = a + 1 /\ Leading(s, a)
    <3>1. w + a <= sent
      BY <1>11, <2>2
    <3>2. w + n <= sent + 1 /\ sent + 1 \in w + n .. sent + 1
      BY <2>2, <3>1
    <3> QED BY <1>5, <1>8, <2>2, <3>2
  <2> QED BY <1>10, <2>1, <2>2
<1>13. WireInv(s)'
  BY <1>1, <1>2, <1>4, <1>6 DEF PlaceInv, WireInv, slotVars
<1>14. ASSUME ~unhealthy[s], task[s] \in Receiving
       PROVE  InPlace(s)' /\ Counted(s)'
  <2>1. /\ \A n \in 1 .. a : Leading(s, n) => IsEvent(s, w + n, queue[s][n].event)
        /\ \A n \in 0 .. a : Leading(s, n) /\ LastEvent(s, n) => w + n = sent
    BY <1>2, <1>3, <1>4, <1>14 DEF PlaceInv, InPlace, Counted
  <2>2. Leading(s, a) => w + a = sent
    <3>1. a \in 0 .. a /\ LastEvent(s, a)
      BY <1>4 DEF LastEvent
    <3> QED BY <2>1, <3>1
  <2>3. InPlace(s)'
    <3> SUFFICES ASSUME NEW n \in 1 .. a + 1, Leading(s, n)'
                 PROVE  IsEvent(s, w + n, queue'[s][n].event)
      BY <1>1, <1>4, <1>5, <1>6 DEF InPlace
    <3>1. CASE n \in 0 .. a /\ Leading(s, n) /\ (n > 0 => queue'[s][n] = queue[s][n])
      BY <2>1, <3>1
    <3>2. CASE n = a + 1 /\ Leading(s, a)
      <4>1. w + n = sent + 1
        BY <2>2, <3>2
      <4> QED BY <1>5, <1>8, <3>2, <4>1
    <3> QED BY <1>10, <3>1, <3>2
\* No message of the capture task is there while the owner runs, but for one whose
\* stop timed out.
  <2>4. \A i \in 1 .. a : queue[s][i].kind = "Event" \/ stop_timed_out[s]
    BY <1>2, <1>3, <1>4 DEF MessageInv, JoinInv, SessionInv, OwnerHeld, Completions
  <2>5. Counted(s)'
    <3> SUFFICES ASSUME NEW n \in 0 .. a + 1, Leading(s, n)', LastEvent(s, n)'
                 PROVE  w + n = sent + 1
      BY <1>1, <1>4, <1>5, <1>6 DEF Counted
    <3>1. CASE n \in 0 .. a
      <4>1. queue'[s][n + 1].kind # "Event" /\ ~stop_timed_out[s]
        BY <1>1, <1>5, <3>1 DEF LastEvent, captureVars
      <4>2. CASE n = a
        BY <1>5, <1>8, <4>1, <4>2
      <4>3. CASE n # a
        <5>1. n + 1 \in 1 .. a
          BY <3>1, <4>3
        <5> QED BY <1>5, <2>4, <4>1, <5>1
      <4> QED BY <4>2, <4>3
    <3>2. CASE n = a + 1 /\ Leading(s, a)
      BY <2>2, <3>2
    <3> QED BY <1>10, <3>1, <3>2
  <2> QED BY <2>3, <2>5
<1>15. PlaceInv(s)'
  BY <1>1, <1>9, <1>12, <1>13, <1>14 DEF PlaceInv, slotVars
<1>16. stage[s] # "Unstarted"
  <2>1. windows[s] \in Nat
    BY DEF SessionsDeliver, ReasonInv, FlagTypes
  <2> QED BY <1>2, <1>8, <2>1 DEF CallbackInv, IsEvent
<1>17. (\A i \in 1 .. Len(queue[s]) : MessageInv(s, i))'
  <2> SUFFICES ASSUME NEW i \in 1 .. a + 1 PROVE MessageInv(s, i)'
    BY <1>5
  <2>1. CASE i = a + 1
    BY <1>1, <1>5, <1>8, <1>16, <2>1 DEF MessageInv
  <2>2. CASE i # a + 1
    <3>1. i \in 1 .. a
      BY <2>2
    <3>2. MessageInv(s, i) /\ queue'[s][i] = queue[s][i]
      BY <1>2, <1>4, <1>5, <3>1
    <3>3. queue[s][i].kind # "Event" => stop_timed_out[s]
      BY <1>2, <1>3, <1>4, <3>1, <3>2 DEF MessageInv, JoinInv, SessionInv, OwnerHeld, Completions
    <3> QED BY <1>1, <3>2, <3>3 DEF MessageInv, captureVars
  <2> QED BY <2>1, <2>2
<1> QED BY <1>15, <1>17

-----------------------------------------------------------------------------
(* The callback.                                                           *)

\* Each call of the callback continues its stream by what it encodes.
LEMMA CallContinues ==
  ASSUME SessionsDeliver, NEW s \in Sessions,
         OnStarted(s) \/ OnData(s) \/ OnError(s) \/ OnEnded(s)
  PROVE  \E events \in Seq(Sendable) :
           /\ events # <<>> /\ Encodes(s, events)
           /\ StreamLength(s) \in Nat
           /\ \A n : n = StreamLength(s) => Continues(s, n, events)
<1> DEFINE T == Sendable
<1>1. /\ CallbackInv(s) /\ windows[s] \in Nat /\ s \in DOMAIN stage /\ s \in DOMAIN error
      /\ s \in DOMAIN windows
  BY DEF SessionsDeliver, DeliveryInv, ReasonInv, FlagTypes
<1>2. StreamLength(s) \in Nat
  BY <1>1 DEF StreamLength
<1>3. CASE OnStarted(s)
  <2> DEFINE begun == Event(Started)
  <2>1. Encodes(s, <<begun>>)
    BY <1>3 DEF OnStarted
  <2>2. stage[s] = "Unstarted" /\ windows[s] = 0 /\ error[s] = None
    BY <1>1, <1>3 DEF OnStarted, CallbackInv
  <2>3. stage'[s] = "Streaming" /\ windows'[s] = 0 /\ error'[s] = None
    BY <1>1, <1>3, <2>2 DEF OnStarted
  <2>4. StreamLength(s) = 0 /\ StreamLength(s)' = 1
    BY <2>2, <2>3 DEF StreamLength
  <2>5. IsEvent(s, 1, Started)' /\ begun.kind = "Event" /\ begun.event = Started
    BY <2>3 DEF IsEvent, Event
  <2>6. \A n, e : ~ IsEvent(s, n, e)
    BY <2>2 DEF IsEvent
  <2>7. begun \in T
    BY DEF Sendable
  <2> HIDE DEF begun, T
  <2>8. <<begun>> \in Seq(T) /\ <<begun>> # <<>> /\ Len(<<begun>>) = 1
    BY <2>7
  <2>9. Continues(s, 0, <<begun>>)
    <3>1. \A i \in 1 .. 1 : i = 1 /\ 0 + i = 1
      OBVIOUS
    <3> QED BY <2>4, <2>5, <2>6, <2>8, <3>1 DEF Continues
  <2> QED BY <1>2, <2>1, <2>4, <2>8, <2>9 DEF T
<1>4. CASE OnData(s)
  <2>1. PICK n \in 1 .. PacketWindows :
          /\ Encodes(s, [i \in 1 .. n |-> Event(WindowOf(windows[s] + i))])
          /\ windows' = [windows EXCEPT ![s] = windows[s] + n]
    BY <1>4 DEF OnData
  <2>2. n \in Nat /\ n >= 1
    BY SessionAssumption
  <2>3. PICK old \in Nat : old = windows[s]
    BY <1>1
  <2> DEFINE next == [i \in 1 .. n |-> Event(WindowOf(old + i))]
  <2>4. /\ stage[s] = "Streaming" /\ error[s] = None
        /\ stage'[s] = "Streaming" /\ error'[s] = None /\ windows'[s] = old + n
    BY <1>1, <1>4, <2>1, <2>3 DEF OnData, CallbackInv
  <2>5. StreamLength(s) = 1 + old /\ StreamLength(s)' = 1 + old + n
    BY <2>2, <2>3, <2>4 DEF StreamLength
  <2>6. ASSUME NEW i \in 1 .. n
        PROVE  /\ next[i] \in T /\ next[i].kind = "Event"
               /\ IsEvent(s, (1 + old) + i, next[i].event)'
    <3>1. PICK m \in Nat : m = old + i
      OBVIOUS
    <3>2. next[i] = Event(WindowOf(m))
      BY <3>1
    <3>3. Event(WindowOf(m)) \in T
      BY DEF Sendable
    <3>4. (1 + old) + i \in 2 .. (old + n) + 1 /\ (1 + old) + i - 1 = m
      BY <2>2, <3>1
    <3>5. IsEvent(s, (1 + old) + i, WindowOf(m))'
      BY <2>4, <3>4 DEF IsEvent
    <3>6. Event(WindowOf(m)).kind = "Event" /\ Event(WindowOf(m)).event = WindowOf(m)
      BY DEF Event
    <3> HIDE DEF T, next
    <3> QED BY <3>2, <3>3, <3>5, <3>6
  <2>7. \A k, e : IsEvent(s, k, e) => IsEvent(s, k, e)'
    BY <2>2, <2>3, <2>4 DEF IsEvent
  <2> HIDE DEF T
  <2>8. next \in Seq(T) /\ Len(next) = n
    BY <2>2, <2>6
  <2>9. next # <<>>
    BY <2>2, <2>8
  <2>10. Encodes(s, next)
    BY <2>1, <2>3
  <2> HIDE DEF next
  <2>11. Continues(s, 1 + old, next)
    BY <2>5, <2>6, <2>7, <2>8 DEF Continues
  <2> QED BY <1>2, <2>5, <2>8, <2>9, <2>10, <2>11 DEF T
<1>5. CASE OnError(s)
  <2>1. PICK kind \in OwnerErrors :
          Encodes(s, <<Event(ErrorOf(kind))>>) /\ error' = [error EXCEPT ![s] = kind]
    BY <1>5 DEF OnError
  <2> DEFINE report == Event(ErrorOf(kind))
  <2>2. PICK old \in Nat : old = windows[s]
    BY <1>1
  <2>3. /\ stage[s] = "Streaming" /\ error[s] = None
        /\ stage'[s] = "Erred" /\ error'[s] = kind /\ windows'[s] = old
    BY <1>1, <1>5, <2>1, <2>2 DEF OnError, CallbackInv
  <2>4. kind # None
    BY SessionAssumption
  <2>5. StreamLength(s) = 1 + old /\ StreamLength(s)' = 1 + old + 1
    BY <2>2, <2>3, <2>4 DEF StreamLength
  <2>6. report.kind = "Event" /\ report.event = ErrorOf(kind)
    BY DEF Event
  <2>7. IsEvent(s, (1 + old) + 1, ErrorOf(kind))'
    <3>1. (1 + old) + 1 = old + 2
      OBVIOUS
    <3> QED BY <2>3, <2>4, <3>1 DEF IsEvent
  <2>8. report \in T
    BY <2>4 DEF Sendable
  <2>9. \A k, e : IsEvent(s, k, e) => IsEvent(s, k, e)'
    BY <2>2, <2>3 DEF IsEvent
  <2>10. Encodes(s, <<report>>)
    BY <2>1
  <2> HIDE DEF report, T
  <2>11. <<report>> \in Seq(T) /\ <<report>> # <<>> /\ Len(<<report>>) = 1
    BY <2>8
  <2>12. Continues(s, 1 + old, <<report>>)
    <3>1. \A i \in 1 .. 1 : i = 1
      OBVIOUS
    <3> QED BY <2>5, <2>6, <2>7, <2>9, <2>11, <3>1 DEF Continues
  <2> QED BY <1>2, <2>5, <2>10, <2>11, <2>12 DEF T
<1>6. CASE OnEnded(s)
  <2>1. PICK reason \in EndReasons : reason = ReasonFor(s)
    BY DEF ReasonFor, EndReasonFor, EndReasons
  <2> DEFINE end == Event(StoppedFor(reason))
  <2>2. Encodes(s, <<end>>)
    BY <1>6, <2>1 DEF OnEnded
  <2>3. PICK old \in Nat, kind \in OwnerErrors \cup {None} : old = windows[s] /\ kind = error[s]
    BY <1>1 DEF CallbackInv
  <2>4. reason \in EndsOf(kind)
    BY <2>1, <2>3 DEF EndsOf, ReasonFor
  <2>5. /\ stage[s] \in {"Streaming", "Erred"}
        /\ stage'[s] = "Ended" /\ error'[s] = kind /\ windows'[s] = old
    BY <1>1, <1>6, <2>3 DEF OnEnded
  <2>6. PICK length \in Nat : /\ length = 1 + old + (IF kind = None THEN 0 ELSE 1)
                              /\ length = StreamLength(s) /\ StreamLength(s)' = length + 1
    BY <1>2, <2>3, <2>5 DEF StreamLength
  <2>7. end.kind = "Event" /\ end.event = StoppedFor(reason) /\ end \in T
    BY DEF Event, Sendable
  <2>8. IsEvent(s, length + 1, StoppedFor(reason))'
    BY <2>4, <2>5, <2>6 DEF IsEvent
  <2>9. \A k, e : IsEvent(s, k, e) => IsEvent(s, k, e)'
    BY <2>3, <2>5 DEF IsEvent
  <2> HIDE DEF end, T
  <2>10. <<end>> \in Seq(T) /\ <<end>> # <<>> /\ Len(<<end>>) = 1
    BY <2>7
  <2>11. Continues(s, length, <<end>>)
    <3>1. \A i \in 1 .. 1 : i = 1
      OBVIOUS
    <3> QED BY <2>6, <2>7, <2>8, <2>9, <2>10, <3>1 DEF Continues
  <2> QED BY <1>2, <2>2, <2>6, <2>10, <2>11 DEF T
<1> QED BY <1>3, <1>4, <1>5, <1>6

\* What a call encodes is behind all that was sent.
LEMMA CallDelivers ==
  ASSUME SessionsDeliver, NEW s \in Sessions, ReasonInv',
         OnStarted(s) \/ OnData(s) \/ OnError(s) \/ OnEnded(s)
  PROVE  PlaceInv(s)'
<1>1. PICK events \in Seq(Sendable) :
        /\ events # <<>> /\ Encodes(s, events)
        /\ StreamLength(s) \in Nat
        /\ \A n : n = StreamLength(s) => Continues(s, n, events)
  BY CallContinues
<1>2. PICK length \in Nat : length = StreamLength(s) /\ Continues(s, length, events)
  BY <1>1
<1>3. /\ UNCHANGED <<slotVars, flagVars, queue, wire, captureVars, refused>>
      /\ encoded[s] = <<>> /\ encoded'[s] = events /\ ~refused[s]
  BY <1>1 DEF OnStarted, OnData, OnError, OnEnded, BetweenCalls, CallbackFrame, Encodes,
              SessionsDeliver, ReasonInv, FlagTypes
<1>4. Len(events) \in Nat /\ SentLength(s) = length
  BY <1>2, <1>3, LengthTypes, LenProperties DEF SessionsDeliver
<1>5. StreamLength(s)' = length + Len(events) /\ SentLength(s)' = length
  BY <1>2, <1>3, <1>4 DEF Continues, SentLength
<1>6. Pending(s)'
  BY <1>2, <1>3, <1>4, <1>5 DEF Continues, Pending
<1>7. \A n, e : IsEvent(s, n, e) => IsEvent(s, n, e)'
  BY <1>2 DEF Continues
<1>8. StreamLength(s) <= StreamLength(s)' /\ SentLength(s) <= SentLength(s)'
  BY <1>2, <1>4, <1>5
<1> QED BY <1>3, <1>4, <1>5, <1>6, <1>7, <1>8, NothingMoves
        DEF slotVars, flagVars, captureVars

\* What a call still had to send when it was refused is not sent.
LEMMA RefusalDelivers ==
  ASSUME SessionsDeliver, NEW s \in Sessions, ReasonInv', SendRefused(s)
  PROVE  PlaceInv(s)'
<1>1. /\ UNCHANGED <<slotVars, flagVars, queue, wire, captureVars, stage, error, windows>>
      /\ encoded'[s] = <<>> /\ refused'[s]
  BY DEF SendRefused, SendFrame, flagVars, SessionsDeliver, ReasonInv, FlagTypes
<1>2. /\ StreamLength(s)' = StreamLength(s) /\ StreamLength(s) \in Nat
      /\ \A n, e : IsEvent(s, n, e) => IsEvent(s, n, e)'
  BY <1>1, StreamStays, LengthTypes DEF SessionsDeliver
<1>3. Len(encoded'[s]) = 0
  BY <1>1
<1>4. Pending(s)' /\ SentLength(s)' = StreamLength(s) /\ SentLength(s) <= StreamLength(s)
  BY <1>2, <1>3, LengthTypes DEF Pending, SentLength, SessionsDeliver
<1> QED BY <1>1, <1>2, <1>4, NothingMoves DEF slotVars, flagVars, captureVars

\* The callbacks put the events in their order, and the session that a message is
\* missing from is about to be stopped.
LEMMA OwnerDelivers ==
  ASSUME SessionsDeliver, NEW s \in Sessions, InRuntime(OwnerWorker(s))
  PROVE  SessionsDeliver'
<1>1. ReasonInv'
  BY OwnerKeepsReasons DEF SessionsDeliver
<1>2. /\ UNCHANGED <<slotVars, stop, client_stop, wire, captureVars>>
      /\ \A r \in Sessions \ {s} :
           /\ owner'[r] = owner[r] /\ stage'[r] = stage[r] /\ error'[r] = error[r]
           /\ windows'[r] = windows[r] /\ unhealthy'[r] = unhealthy[r]
           /\ queue'[r] = queue[r]
           /\ encoded'[r] = encoded[r] /\ refused'[r] = refused[r]
  <2> DEFINE Elsewhere ==
               /\ UNCHANGED <<slotVars, stop, client_stop, wire, captureVars>>
               /\ \A r \in Sessions \ {s} :
                    /\ owner'[r] = owner[r] /\ stage'[r] = stage[r]
                    /\ error'[r] = error[r] /\ windows'[r] = windows[r]
                    /\ unhealthy'[r] = unhealthy[r] /\ queue'[r] = queue[r]
                    /\ encoded'[r] = encoded[r] /\ refused'[r] = refused[r]
  <2> USE DEF Encodes, CallbackFrame, SendFrame, flagVars
  <2>1. OnStarted(s) => Elsewhere
    BY DEF OnStarted
  <2>2. OnData(s) => Elsewhere
    BY DEF OnData
  <2>3. OnDataRefused(s) => Elsewhere
    BY DEF OnDataRefused
  <2>4. OnError(s) => Elsewhere
    BY DEF OnError
  <2>5. OnEnded(s) => Elsewhere
    BY DEF OnEnded
  <2>6. OwnerCompletes(s) => Elsewhere
    BY DEF OwnerCompletes
  <2>7. SendNext(s) => Elsewhere
    BY DEF SendNext
  <2>8. SendRefused(s) => Elsewhere
    BY DEF SendRefused
  <2>9. StoreUnhealthy(s) => Elsewhere
    BY DEF StoreUnhealthy
  <2>10. OwnerWorker(s)
    BY DEF InRuntime
  <2> HIDE DEF Elsewhere, Encodes, CallbackFrame, SendFrame, flagVars
  <2>11. Elsewhere
    BY <2>1, <2>2, <2>3, <2>4, <2>5, <2>6, <2>7, <2>8, <2>9, <2>10 DEF OwnerWorker, Callback
  <2> QED BY <2>11 DEF Elsewhere
<1>3. DeliveryStep(s)
  BY <1>2 DEF DeliveryStep, slotVars, captureVars
<1>4. CallbackInv(s) /\ JoinInv(s) /\ \A i \in 1 .. Len(queue[s]) : MessageInv(s, i)
  BY DEF SessionsDeliver, DeliveryInv
<1>5. stop_timed_out' \in [Sessions -> BOOLEAN]
  BY <1>2 DEF captureVars, SessionsDeliver
<1>6. CASE OnStarted(s) \/ OnData(s) \/ OnError(s) \/ OnEnded(s)
  <2>1. /\ owner[s] = "Running" /\ owner' = owner /\ queue' = queue
        /\ stage'[s] # "Unstarted"
    BY <1>6
    DEF OnStarted, OnData, OnError, OnEnded, BetweenCalls, CallbackFrame,
        SessionsDeliver, ReasonInv, FlagTypes
  <2>2. CallbackInv(s)'
    BY <1>4, <1>6, <2>1
    DEF OnStarted, OnData, OnError, OnEnded, CallbackInv, SessionsDeliver, ReasonInv,
        FlagTypes
  <2>3. JoinInv(s)'
    BY <1>2, <1>4, <2>1 DEF JoinInv, captureVars
  <2>4. (\A i \in 1 .. Len(queue[s]) : MessageInv(s, i))'
    <3> SUFFICES ASSUME NEW i \in 1 .. Len(queue[s]) PROVE MessageInv(s, i)'
      BY <2>1
    <3>1. MessageInv(s, i)
      BY <1>4
    <3>2. queue[s][i].kind # "StartupFailure"
      BY <2>1, <3>1 DEF MessageInv
    <3> QED BY <1>2, <2>1, <3>1, <3>2 DEF MessageInv, captureVars
  <2>5. PlaceInv(s)'
    BY <1>1, <1>6, CallDelivers
  <2> QED BY <1>1, <1>3, <1>5, <2>2, <2>3, <2>4, <2>5, OneDelivery DEF DeliveryInv
<1>7. CASE SendNext(s)
  <2>1. UNCHANGED <<captureVars, owner, stage, error, windows>>
    BY <1>7 DEF SendNext, SendFrame
  <2>2. CallbackInv(s)' /\ JoinInv(s)'
    BY <1>4, <2>1 DEF CallbackInv, JoinInv, captureVars
  <2>3. PlaceInv(s)' /\ (\A i \in 1 .. Len(queue[s]) : MessageInv(s, i))'
    BY <1>1, <1>7, SendDelivers
  <2> QED BY <1>1, <1>3, <1>5, <2>2, <2>3, OneDelivery DEF DeliveryInv
<1>8. CASE SendRefused(s) \/ StoreUnhealthy(s) \/ OnDataRefused(s) \/ OwnerCompletes(s)
  <2>1. /\ UNCHANGED <<queue, stage, error, windows>>
        /\ \/ owner'[s] = owner[s]
           \/ owner[s] = "Running" /\ owner'[s] = "Finished"
           \/ owner[s] = "Running" /\ owner'[s] = "Failed" /\ stage[s] = "Unstarted"
    BY <1>8
    DEF SendRefused, StoreUnhealthy, OnDataRefused, OwnerCompletes, BetweenCalls,
        Completions, SendFrame, SessionsDeliver, ReasonInv, SlotInv, SlotTypes
  <2>2. PlaceInv(s)'
    <3>1. CASE SendRefused(s)
      BY <1>1, <3>1, RefusalDelivers
    <3>2. CASE StoreUnhealthy(s) \/ OnDataRefused(s) \/ OwnerCompletes(s)
      <4>1. /\ encoded'[s] = encoded[s] /\ (unhealthy[s] => unhealthy'[s])
            /\ refused'[s] = refused[s] \/ refused'[s] \/ unhealthy'[s]
        BY <3>2 DEF StoreUnhealthy, OnDataRefused, OwnerCompletes, flagVars,
                    SessionsDeliver, ReasonInv, FlagTypes
      <4>2. /\ Pending(s)' /\ StreamLength(s) \in Nat /\ SentLength(s) \in Int
            /\ StreamLength(s)' = StreamLength(s) /\ SentLength(s)' = SentLength(s)
            /\ \A n, e : IsEvent(s, n, e) => IsEvent(s, n, e)'
        BY <2>1, <4>1, StreamStays, LengthTypes DEF SessionsDeliver, DeliveryInv, PlaceInv
      <4> QED BY <1>1, <1>2, <2>1, <4>1, <4>2, NothingMoves DEF slotVars, captureVars
    <3> QED BY <1>8, <3>1, <3>2
  <2>3. CallbackInv(s)' /\ JoinInv(s)'
    BY <1>2, <1>4, <2>1 DEF CallbackInv, JoinInv, Completions, captureVars
  <2>4. (\A i \in 1 .. Len(queue[s]) : MessageInv(s, i))'
    BY <1>2, <1>4, <2>1 DEF MessageInv, captureVars
  <2> QED BY <1>1, <1>3, <1>5, <2>2, <2>3, <2>4, OneDelivery DEF DeliveryInv
<1> QED BY <1>6, <1>7, <1>8 DEF InRuntime, OwnerWorker, Callback

\* The service around the sessions touches none of this.
LEMMA ServiceDelivers ==
  ASSUME SessionsDeliver, Worker \/ HolderNext \/ RequestEnds \/ UNCHANGED vars
  PROVE  SessionsDeliver'
<1>1. ReasonInv'
  BY ServiceKeepsReasons DEF SessionsDeliver
<1>2. UNCHANGED <<slotVars, flagVars, queue, wire, captureVars, ownerVars>>
  BY DEF Worker, Bind, Drain, ServeReturns, RuntimeDropped, PublishState, SendStopped,
         HolderNext, Holder, StartReturns, StartFails, StartTimesOut, StartAbandoned,
         BeginShutdown, ShutdownTimesOut, ReceiveStopped, JoinWorker, HolderFrame,
         RequestEnds, vars, sessionVars
<1>3. ASSUME NEW s \in Sessions
      PROVE  DeliveryInv(s)'
  <2>1. DeliveryInv(s)
    BY DEF SessionsDeliver
  <2> QED BY <1>2, <2>1, SameDelivery DEF slotVars, flagVars, captureVars, ownerVars
<1> QED BY <1>1, <1>2, <1>3 DEF SessionsDeliver, captureVars

\* Every session delivers the beginning of its stream, always.
LEMMA SessionsDeliverHolds == Spec => []SessionsDeliver
<1>1. Init /\ ReasonInv => SessionsDeliver
  <2> SUFFICES ASSUME Init, ReasonInv PROVE SessionsDeliver
    OBVIOUS
  <2> USE DEF Init, SessionInit
  <2>1. ASSUME NEW s \in Sessions
        PROVE  DeliveryInv(s)
    <3>1. CallbackInv(s) /\ JoinInv(s)
      BY DEF CallbackInv, JoinInv
    <3>2. queue[s] = <<>> /\ wire[s] = <<>> /\ task[s] \notin Receiving
      BY DEF Receiving
    <3>3. PlaceInv(s)
      <4>1. encoded[s] = <<>>
        OBVIOUS
      <4>2. StreamLength(s) = 0
        BY DEF StreamLength
      <4> HIDE DEF Init, SessionInit
      <4>3. Len(encoded[s]) = 0 /\ Len(queue[s]) = 0 /\ Len(wire[s]) = 0
        BY <3>2, <4>1
      <4>4. SentLength(s) = 0
        BY <4>2, <4>3 DEF SentLength
      <4> QED BY <3>2, <4>1, <4>2, <4>3, <4>4 DEF PlaceInv, Pending, Ahead, WireInv
    <3>4. \A i \in 1 .. Len(queue[s]) : MessageInv(s, i)
      BY <3>2
    <3> QED BY <3>1, <3>3, <3>4 DEF DeliveryInv
  <2> QED BY <2>1 DEF SessionsDeliver
<1>2. SessionsDeliver /\ [Next]_vars => SessionsDeliver'
  <2> SUFFICES ASSUME SessionsDeliver, [Next]_vars PROVE SessionsDeliver'
    OBVIOUS
  <2>1. CASE Worker \/ HolderNext \/ RequestEnds \/ UNCHANGED vars
    BY <2>1, ServiceDelivers
  <2>2. ASSUME NEW s \in Sessions,
               \/ InRuntime(Handler(s)) \/ InRuntime(SocketTask(s))
               \/ InRuntime(Client(s)) \/ InRuntime(CaptureTask(s))
               \/ InRuntime(OwnerWorker(s))
        PROVE  SessionsDeliver'
    BY <2>2, HandlerDelivers, LoopDelivers, LeavingDelivers, CaptureDelivers, OwnerDelivers
    DEF InRuntime, SocketTask, Client
  <2> QED BY <2>1, <2>2 DEF Next
<1> QED BY <1>1, <1>2, ReasonInvHolds, PTL DEF Spec

-----------------------------------------------------------------------------
(* What the client has, by kind.                                           *)

\* Where the kinds of event are, in messages that begin with length events of the
\* stream and have none of it after them.
LEMMA KindsInPlace ==
  ASSUME NEW s \in Sessions, CallbackInv(s), windows[s] \in Nat, NEW S,
         NEW messages \in Seq(S), NEW length \in Nat, length <= Len(messages),
         \A i \in 1 .. length : IsEvent(s, i, messages[i]),
         \A i \in 1 .. Len(messages) :
           i > length => messages[i].kind \notin {"Started", "Window", "Error", "Stopped"}
  PROVE  /\ Having(messages, "Started") = {i \in 1 .. length : i = 1}
         /\ Having(messages, "Window") = {i \in 1 .. length : i \in 2 .. windows[s] + 1}
         /\ Having(messages, "Error") =
              {i \in 1 .. length : i = windows[s] + 2 /\ error[s] # None}
         /\ Having(messages, "Stopped") =
              {i \in 1 .. length : i = StreamLength(s) /\ stage[s] = "Ended"}
         /\ length <= StreamLength(s)
<1>1. PICK given \in Nat : given = windows[s]
  OBVIOUS
<1>2. PICK whole \in Nat :
        /\ whole = StreamLength(s)
        /\ stage[s] # "Unstarted" =>
             whole = 1 + given + (IF error[s] = None THEN 0 ELSE 1)
                       + (IF stage[s] = "Ended" THEN 1 ELSE 0)
        /\ stage[s] = "Unstarted" => whole = 0
  <2> DEFINE length1 == given + (IF error[s] = None THEN 0 ELSE 1)
                          + (IF stage[s] = "Ended" THEN 1 ELSE 0)
             length0 == (IF stage[s] = "Unstarted" THEN 0 ELSE 1) + length1
  <2>1. StreamLength(s) = length0
    BY <1>1 DEF StreamLength
  <2>2. length1 \in Nat
    OBVIOUS
  <2>3. stage[s] = "Unstarted" => length1 = 0
    BY <1>1 DEF CallbackInv
  <2>4. length0 \in Nat /\ (stage[s] # "Unstarted" => length0 = 1 + length1)
        /\ (stage[s] = "Unstarted" => length0 = 0)
    BY <2>2, <2>3
  <2> QED BY <2>1, <2>4
<1>3. ASSUME NEW i \in 1 .. length
      PROVE  /\ i <= whole
             /\ messages[i].kind = "Started" <=> i = 1
             /\ messages[i].kind = "Window" <=> i \in 2 .. given + 1
             /\ messages[i].kind = "Error" <=> i = given + 2 /\ error[s] # None
             /\ messages[i].kind = "Stopped" <=> i = whole /\ stage[s] = "Ended"
  <2>1. \/ i = 1 /\ stage[s] # "Unstarted" /\ messages[i] = Started
        \/ i \in 2 .. given + 1 /\ messages[i] = WindowOf(i - 1)
        \/ i = given + 2 /\ error[s] # None /\ messages[i] = ErrorOf(error[s])
        \/ /\ i = whole /\ stage[s] = "Ended"
           /\ \E reason \in EndsOf(error[s]) : messages[i] = StoppedFor(reason)
    BY <1>1, <1>2 DEF IsEvent
  <2>2. stage[s] # "Unstarted"
    BY <1>1, <2>1 DEF CallbackInv
  <2>3. \/ i = 1 /\ messages[i].kind = "Started"
        \/ i \in 2 .. given + 1 /\ messages[i].kind = "Window"
        \/ i = given + 2 /\ error[s] # None /\ messages[i].kind = "Error"
        \/ i = whole /\ stage[s] = "Ended" /\ messages[i].kind = "Stopped"
    <3>1. Started.kind = "Started"
      BY DEF Started
    <3>2. \A n : WindowOf(n).kind = "Window"
      BY DEF WindowOf
    <3>3. \A kind : ErrorOf(kind).kind = "Error"
      BY DEF ErrorOf
    <3>4. \A reason : StoppedFor(reason).kind = "Stopped"
      BY DEF StoppedFor
    <3> QED BY <2>1, <3>1, <3>2, <3>3, <3>4
  <2> QED BY <1>2, <2>2, <2>3
<1>4. PICK l \in Nat : l = Len(messages) /\ DOMAIN messages = 1 .. l /\ length <= l
  BY LenProperties
<1>5. ASSUME NEW kind \in {"Started", "Window", "Error", "Stopped"}
      PROVE  Having(messages, kind) = {i \in 1 .. length : messages[i].kind = kind}
  BY <1>4, <1>5 DEF Having
<1>6. length <= whole
  <2>1. CASE length = 0
    BY <2>1
  <2>2. CASE length # 0
    <3>1. length \in 1 .. length
      BY <2>2
    <3> QED BY <1>3, <3>1
  <2> QED BY <2>1, <2>2
<1>7. /\ Having(messages, "Started") = {i \in 1 .. length : i = 1}
      /\ Having(messages, "Window") = {i \in 1 .. length : i \in 2 .. given + 1}
      /\ Having(messages, "Error") = {i \in 1 .. length : i = given + 2 /\ error[s] # None}
      /\ Having(messages, "Stopped") = {i \in 1 .. length : i = whole /\ stage[s] = "Ended"}
  BY <1>3, <1>5
<1> QED BY <1>1, <1>2, <1>6, <1>7

\* What a session that kept up has behind Finished is its whole stream, by the
\* place of each of its messages.
LEMMA EventsBeforeFinished ==
  ASSUME SessionsDeliver, NEW s \in Sessions,
         Has(queue[s], "Finished"), ~ unhealthy[s], ~ stop_timed_out[s]
  PROVE  \E k \in 0 .. Len(queue[s]) :
           /\ queue[s][Len(queue[s])] = Finished /\ k < Len(queue[s])
           /\ Len(wire[s]) + k = StreamLength(s)
           /\ \A j \in 1 .. k : /\ queue[s][j].kind = "Event"
                                /\ IsEvent(s, Len(wire[s]) + j, queue[s][j].event)
           /\ \A j \in 1 .. Len(queue[s]) : j > k => queue[s][j] \in {StartupFailure, Finished}
<1>1. PICK a \in Nat : a = Len(queue[s]) /\ DOMAIN queue[s] = 1 .. a
  BY LenProperties DEF SessionsDeliver, ReasonInv, TruthInv
<1>2. /\ \A j \in 1 .. a : MessageInv(s, j)
      /\ \A j \in 1 .. a : queue[s][j] \in Messages(s)
  BY <1>1, ElementOfSeq DEF SessionsDeliver, DeliveryInv, ReasonInv, TruthInv
<1>3. \A j \in 1 .. a : queue[s][j].kind # "Event" => queue[s][j] \in {StartupFailure, Finished}
  BY <1>2 DEF Messages, Event
<1>4. PICK f \in 1 .. a : queue[s][f].kind = "Finished"
  BY <1>1 DEF Has, Having
<1>5. f = a /\ queue[s][a] = Finished
  BY <1>1, <1>2, <1>3, <1>4 DEF MessageInv, StartupFailure
\* The owner has completed, so that no call of its callback is left half done.
<1>6. InPlace(s) /\ Counted(s) /\ SentLength(s) = StreamLength(s)
  <2>1. task[s] \in Receiving
    BY <1>1, <1>4 DEF SessionsDeliver, ReasonInv, TruthInv
  <2>2. owner[s] # "Running"
    BY <1>2, <1>4
    DEF MessageInv, JoinInv, SessionInv, OwnerHeld, Completions, SessionsDeliver,
        DeliveryInv, ReasonInv, SlotInv
  <2>3. encoded[s] = <<>> /\ ~refused[s]
    BY <2>2 DEF SessionsDeliver, ReasonInv, FlagInv
  <2>4. SentLength(s) = StreamLength(s)
    BY <2>3, LengthTypes DEF SessionsDeliver
  <2> QED BY <2>1, <2>3, <2>4 DEF SessionsDeliver, DeliveryInv, PlaceInv
<1>7. PICK first \in 1 .. a : /\ queue[s][first].kind # "Event"
                              /\ \A j \in 1 .. a : queue[s][j].kind # "Event" => first <= j
  <2> DEFINE T == {j \in 1 .. a : queue[s][j].kind # "Event"}
  <2>1. T \in SUBSET Nat /\ T # {}
    BY <1>4, <1>5
  <2> QED BY <2>1, LeastNumber
<1>8. PICK k \in Nat : k = first - 1 /\ k \in 0 .. a /\ k < a
  OBVIOUS
<1>9. Leading(s, k)
  BY <1>7, <1>8 DEF Leading
<1>10. Len(wire[s]) + k = StreamLength(s)
  <2>1. LastEvent(s, k)
    BY <1>7, <1>8 DEF LastEvent
  <2> QED BY <1>1, <1>6, <1>8, <1>9, <2>1 DEF Counted
<1>11. ASSUME NEW j \in 1 .. k
       PROVE  queue[s][j].kind = "Event" /\ IsEvent(s, Len(wire[s]) + j, queue[s][j].event)
  <2>1. Leading(s, j) /\ j \in 1 .. a
    BY <1>8, <1>9 DEF Leading
  <2> QED BY <1>1, <1>6, <1>9, <2>1 DEF InPlace, Leading
<1>12. ASSUME NEW j \in 1 .. a, j > k
       PROVE  queue[s][j].kind # "Event"
  <2>1. CASE queue[s][first] = Finished
    <3>1. first = a
      BY <1>1, <1>2, <2>1 DEF MessageInv, Finished
    <3> QED BY <1>7, <1>8, <1>12, <3>1
  <2>2. CASE queue[s][first] = StartupFailure
    BY <1>2, <2>2 DEF MessageInv, StartupFailure
  <2> QED BY <1>3, <1>7, <2>1, <2>2
<1> QED BY <1>1, <1>3, <1>5, <1>8, <1>10, <1>11, <1>12

\* Once Finished is in the queue of a session that kept up and whose supervisor
\* stopped in time, every window, the error and the end are before it: the capture
\* task says so only after the owner has completed, and an event the queue had no
\* room for has made the session unhealthy.
THEOREM FinishedWasDelivered == Spec => []FinishedMeansDelivered
<1>1. ASSUME SessionsDeliver, NEW s \in Sessions,
             Has(queue[s], "Finished"), ~ unhealthy[s], ~ stop_timed_out[s]
      PROVE  LET events == wire[s] \o [i \in DOMAIN queue[s] |->
                                         IF queue[s][i].kind = "Event" THEN queue[s][i].event
                                         ELSE queue[s][i]]
             IN  /\ events[Len(events)] = Finished
                 /\ Cardinality(Having(events, "Window")) = windows[s]
                 /\ Has(events, "Error") <=> error[s] # None
                 /\ Has(events, "Stopped") <=> stage[s] = "Ended"
  <2> DEFINE rest == [i \in DOMAIN queue[s] |->
                        IF queue[s][i].kind = "Event" THEN queue[s][i].event
                        ELSE queue[s][i]]
             events == wire[s] \o rest
             S == Truthful(s) \cup {StartupFailure, Finished}
  <2>1. PICK a \in Nat, w \in Nat : /\ a = Len(queue[s]) /\ DOMAIN queue[s] = 1 .. a
                                    /\ w = Len(wire[s])
    BY <1>1, LenProperties DEF SessionsDeliver, ReasonInv, TruthInv
  <2>2. PICK k \in 0 .. a :
           /\ queue[s][a] = Finished /\ k < a /\ w + k = StreamLength(s)
           /\ \A j \in 1 .. k : /\ queue[s][j].kind = "Event"
                                /\ IsEvent(s, w + j, queue[s][j].event)
           /\ \A j \in 1 .. a : j > k => queue[s][j] \in {StartupFailure, Finished}
    BY <1>1, <2>1, EventsBeforeFinished
  <2>3. /\ \A j \in 1 .. k : rest[j] = queue[s][j].event
        /\ \A j \in 1 .. a : j > k => rest[j] \in {StartupFailure, Finished}
        /\ rest[a] = Finished
    BY <2>1, <2>2 DEF StartupFailure, Finished
  <2>4. rest \in Seq(S) /\ Len(rest) = a /\ wire[s] \in Seq(S)
    <3>1. \A j \in 1 .. a : queue[s][j] \in Messages(s)
      BY <1>1, <2>1, ElementOfSeq DEF SessionsDeliver, ReasonInv, TruthInv
    <3>2. ASSUME NEW j \in 1 .. a
          PROVE  rest[j] \in S
      BY <2>1, <3>1, <3>2 DEF Messages, Event, StartupFailure, Finished
    <3> HIDE DEF S
    <3>3. rest \in [1 .. a -> S]
      BY <2>1, <3>2
    <3>4. wire[s] \in Seq(Truthful(s)) /\ Truthful(s) \subseteq S
      BY <1>1 DEF SessionsDeliver, ReasonInv, TruthInv, S
    <3> HIDE DEF rest
    <3>5. rest \in Seq(S) /\ Len(rest) = a
      BY <3>3
    <3> QED BY <3>4, <3>5
  <2> HIDE DEF rest, S
  <2>5. /\ events \in Seq(S) /\ Len(events) = w + a
        /\ \A i \in 1 .. w : events[i] = wire[s][i]
        /\ \A i \in 1 .. a : events[w + i] = rest[i]
    <3>1. events \in Seq(S)
      BY <2>4, ConcatProperties
    <3>2. /\ Len(events) = Len(wire[s]) + Len(rest)
          /\ \A i \in 1 .. Len(wire[s]) : events[i] = wire[s][i]
          /\ \A i \in 1 .. Len(rest) : events[Len(wire[s]) + i] = rest[i]
      <4>1. PICK first \in Seq(S), second \in Seq(S) : first = wire[s] /\ second = rest
        BY <2>4
      <4>2. /\ Len(first \o second) = Len(first) + Len(second)
            /\ \A i \in 1 .. Len(first) : (first \o second)[i] = first[i]
            /\ \A i \in 1 .. Len(second) : (first \o second)[Len(first) + i] = second[i]
        BY Joined
      <4>3. events = first \o second
        BY <4>1
      <4> HIDE DEF events
      <4> QED BY <4>1, <4>2, <4>3
    <3> HIDE DEF events
    <3> QED BY <2>1, <2>4, <3>1, <3>2
  <2> HIDE DEF events
  <2>6. ASSUME NEW i \in 1 .. w + k
        PROVE  IsEvent(s, i, events[i])
    <3>1. CASE i <= w
      <4>1. i \in 1 .. w /\ events[i] = wire[s][i]
        BY <2>5, <3>1
      <4>2. \A j \in 1 .. w : IsEvent(s, j, wire[s][j])
        BY <1>1, <2>1 DEF SessionsDeliver, DeliveryInv, PlaceInv, WireInv
      <4> QED BY <4>1, <4>2
    <3>2. CASE i > w
      <4>1. PICK j \in 1 .. k : i = w + j
        <5>1. i - w \in 1 .. k /\ i = w + (i - w)
          BY <3>2
        <5> QED BY <5>1
      <4>2. events[w + j] = queue[s][j].event
        BY <2>3, <2>5
      <4> QED BY <2>2, <4>1, <4>2
    <3> QED BY <3>1, <3>2
  <2>7. ASSUME NEW i \in 1 .. Len(events), i > w + k
        PROVE  events[i].kind \notin {"Started", "Window", "Error", "Stopped"}
    <3>1. PICK j \in 1 .. a : i = w + j /\ j > k
      <4>1. i - w \in 1 .. a /\ i = w + (i - w) /\ i - w > k
        BY <2>5, <2>7
      <4> QED BY <4>1
    <3>2. events[i] \in {StartupFailure, Finished}
      BY <2>3, <2>5, <3>1
    <3> QED BY <3>2 DEF StartupFailure, Finished
  <2>8. PICK given \in Nat, whole \in Nat :
          given = windows[s] /\ whole = StreamLength(s) /\ whole = w + k
    BY <1>1, <2>2 DEF SessionsDeliver, ReasonInv, FlagTypes
  <2>9. /\ Having(events, "Window") = {i \in 1 .. whole : i \in 2 .. given + 1}
        /\ Having(events, "Error") = {i \in 1 .. whole : i = given + 2 /\ error[s] # None}
        /\ Having(events, "Stopped") = {i \in 1 .. whole : i = whole /\ stage[s] = "Ended"}
    <3>1. CallbackInv(s) /\ windows[s] \in Nat
      BY <1>1, <2>8 DEF SessionsDeliver, DeliveryInv
    <3>2. whole <= Len(events) /\ \A i \in 1 .. whole : IsEvent(s, i, events[i])
      BY <2>2, <2>5, <2>6, <2>8
    <3>3. \A i \in 1 .. Len(events) :
            i > whole => events[i].kind \notin {"Started", "Window", "Error", "Stopped"}
      BY <2>7, <2>8
    <3>4. /\ Having(events, "Window") = {i \in 1 .. whole : i \in 2 .. windows[s] + 1}
          /\ Having(events, "Error") =
               {i \in 1 .. whole : i = windows[s] + 2 /\ error[s] # None}
          /\ Having(events, "Stopped") =
               {i \in 1 .. whole : i = StreamLength(s) /\ stage[s] = "Ended"}
      <4>1. events \in Seq(S) /\ whole \in Nat /\ whole <= Len(events)
        BY <2>5, <3>2
      <4> QED BY <3>1, <3>2, <3>3, <4>1, KindsInPlace
    <3> QED BY <2>8, <3>4
  <2>10. /\ given > 0 => given + 1 <= whole
         /\ error[s] # None => given + 2 <= whole
         /\ stage[s] = "Ended" => whole > 0
    <3>1. CallbackInv(s)
      BY <1>1 DEF SessionsDeliver, DeliveryInv
    <3>2. stage[s] = "Unstarted" => given = 0 /\ error[s] = None
      BY <2>8, <3>1 DEF CallbackInv
    <3> QED BY <2>8, <3>2 DEF StreamLength
  <2>11. Cardinality(Having(events, "Window")) = given
    <3>1. {i \in 1 .. whole : i \in 2 .. given + 1} = 2 .. given + 1
      <4>1. \A i \in 2 .. given + 1 : i \in 1 .. whole
        BY <2>10
      <4> QED BY <4>1
    <3>2. Cardinality(2 .. given + 1) = given
      BY FS_Interval
    <3> QED BY <2>9, <3>1, <3>2
  <2>12. Has(events, "Error") <=> error[s] # None
    <3>1. error[s] # None => given + 2 \in 1 .. whole
      BY <2>10
    <3> QED BY <2>9, <3>1 DEF Has
  <2>13. Has(events, "Stopped") <=> stage[s] = "Ended"
    <3>1. stage[s] = "Ended" => whole \in 1 .. whole
      BY <2>10
    <3> QED BY <2>9, <3>1 DEF Has
  <2>14. events[Len(events)] = Finished
    <3>1. a \in 1 .. a
      BY <2>2
    <3> QED BY <2>3, <2>5, <3>1
  <2> QED BY <2>8, <2>11, <2>12, <2>13, <2>14 DEF events, rest
<1>2. SessionsDeliver => FinishedMeansDelivered
  BY <1>1 DEF FinishedMeansDelivered
<1> QED BY <1>2, SessionsDeliverHolds, PTL

-----------------------------------------------------------------------------
(* What the client has when an event was refused.                          *)

\* What a client receives is the stream its callback was given, event by event, for
\* every number of clients, queue and packet size, however callback, capture task
\* and socket task interleave.  Where the queue refused an event, one more that
\* comes later may be received, and none after it: the callback sends the next only
\* once unhealthy is stored, and the socket task checks it before every select.
THEOREM LossEndsSession == Spec => []LossEndsTheStream
<1>1. SessionsDeliver => LossEndsTheStream
  <2> SUFFICES ASSUME SessionsDeliver, NEW s \in Sessions, NEW i \in DOMAIN wire[s]
               PROVE  \/ IsEvent(s, i, wire[s][i])
                      \/ /\ unhealthy[s] /\ i = Len(wire[s])
                         /\ \E n \in i + 1 .. StreamLength(s) : IsEvent(s, n, wire[s][i])
    BY DEF LossEndsTheStream
  <2>1. i \in 1 .. Len(wire[s])
    BY LenProperties DEF SessionsDeliver, ReasonInv, TruthInv
  <2> QED BY <2>1 DEF SessionsDeliver, DeliveryInv, PlaceInv, WireInv
<1> QED BY <1>1, SessionsDeliverHolds, PTL

=============================================================================
