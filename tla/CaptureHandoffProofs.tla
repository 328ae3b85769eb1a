------------------------ MODULE CaptureHandoffProofs ------------------------
(***************************************************************************)
(* Proofs about CaptureHandoff, for every capacity and number of packets,  *)
(* with and without panics and a deadline: both threads are gone before    *)
(* anyone is told so, a consumer is told of a provider's shutdown only     *)
(* when the holder asked for one, no buffer of the pool is lost, a result  *)
(* says what the consumer saw, and the owner implements StreamContract.    *)
(***************************************************************************)
EXTENDS CaptureHandoff, EventSequenceProofs

CaptureGone == {"NotSpawned", "Done", "Panicked"}
WorkerGone == {"NotSpawned", "Exited"}

\* The worker has stopped receiving for a reason of its own; what it finds in the
\* channel from now on reaches no consumer.
GivenUp ==
  \/ worker \in {"Draining", "Closing", "Joining", "Exited"}
  \/ worker = "Delivering" /\ resume = "Draining"

\* A stop that the consumer may be told of.
Asked == "Owner" \in stop

\* The messages and the events that tell of no stop nobody asked for.
FairMessages ==
  {m \in Messages : m = EndedMessage("StopRequested") => Asked \/ GivenUp}
FairEvents == {e \in Events : e = EndedEvent("ProviderShutdown") => Asked}

-----------------------------------------------------------------------------
(* The inductive invariant.                                                *)

ThreadTypes ==
  /\ worker \in WorkerStates /\ capture \in CaptureStates
  /\ captured \in Nat /\ end_signal \in SignalledEnds \cup {None}
  /\ capture = "Ending" => termination \in CaptureEnds
  /\ capture = "Failing" => termination \in FailureKinds

\* Events wait only while the worker delivers them.
DeliveryInv ==
  /\ worker = "Delivering" =>
       pending # <<>> /\ resume \in {"Receiving", "Draining", "Closing"}
  /\ worker # "Delivering" => pending = <<>>

\* The WASAPI thread lives within the worker that joins it, and the worker within
\* the holder's start and its completion.
LifetimeInv ==
  /\ worker \in {"NotSpawned", "Spawning"} => capture = "NotSpawned"
  /\ worker = "Exited" => capture \in CaptureGone
  /\ ~start_called => worker = "NotSpawned" /\ completion = None
  /\ completion # None \/ owner = "Dropped" => worker \in WorkerGone

\* The worker raises the holder's token only once it has given up; until then an
\* end by request, wherever it is on its way, is the holder's.
StopInv ==
  /\ stop \subseteq {"Owner", "Worker"}
  /\ "Worker" \in stop => GivenUp
  /\ capture = "Ending" /\ termination = "StopRequested" => Asked \/ GivenUp
  /\ queue \in Seq(FairMessages)
  /\ pending \in Seq(FairEvents) /\ events \in Seq(FairEvents)

HandoffInv == ThreadTypes /\ DeliveryInv /\ LifetimeInv /\ StopInv

-----------------------------------------------------------------------------
(* Sequences of what is fair.                                              *)

\* A stop stays asked for, and a worker that gave up does not come back.
LEMMA FairGrows ==
  ASSUME Asked => Asked', GivenUp => GivenUp'
  PROVE  /\ FairEvents \subseteq FairEvents'
         /\ Seq(FairMessages) \subseteq Seq(FairMessages')
         /\ Seq(FairEvents) \subseteq Seq(FairEvents')
<1>1. FairMessages \subseteq FairMessages' /\ FairEvents \subseteq FairEvents'
  BY DEF FairMessages, FairEvents, Messages, Events
<1> QED BY <1>1

\* An error and the end that follows it.
LEMMA PairsAreFair ==
  ASSUME NEW k \in ErrorKinds, NEW r \in EndReasons, r # "ProviderShutdown"
  PROVE  /\ <<ErrorEvent(k), EndedEvent(r)>> \in Seq(FairEvents)
         /\ <<EndedEvent(r)>> \in Seq(FairEvents)
<1>1. ErrorEvent(k) \in FairEvents /\ EndedEvent(r) \in FairEvents
  BY DEF EndedEvent, ErrorEvent, FairEvents, Events
<1> QED BY <1>1

\* The error and the end of a failure are events of a fair stream.
LEMMA FailuresAreFair ==
  ASSUME NEW k \in ErrorKinds
  PROVE  FailedWith(k) \in Seq(FairEvents) /\ FailedWith(k) # <<>>
BY PairsAreFair DEF FailedWith, EndReasons

\* The events of an end are fair if the end is.
LEMMA EndsAreFair ==
  ASSUME NEW end \in CaptureEnds, end = "StopRequested" => Asked
  PROVE  ContractEnd(end) \in Seq(FairEvents) /\ ContractEnd(end) # <<>>
<1>1. CASE end = "StopRequested"
  <2>1. EndedEvent("ProviderShutdown") \in FairEvents
    BY <1>1 DEF EndedEvent, FairEvents, Events, EndReasons
  <2> QED BY <1>1, <2>1 DEF ContractEnd
<1>2. CASE end \in {"DurationElapsed", "SourceReconfigured", "SourceUnavailable"}
  BY <1>2, PairsAreFair DEF ContractEnd, EndReasons, ErrorKinds, FailureKinds
<1>3. CASE end \in {"Interrupted", "DataDiscontinuity", "BoundedHandoffExhausted",
                    "Failed"}
  BY <1>3, FailuresAreFair DEF ContractEnd, ErrorKinds, FailureKinds
<1> QED BY <1>1, <1>2, <1>3 DEF CaptureEnds

-----------------------------------------------------------------------------
(* Types, deliveries and lifetimes.                                        *)

\* The holder's calls keep threads, delivery and lifetimes as they must be.
LEMMA HolderKeepsLifetimes ==
  ASSUME HandoffInv, OwnerNext
  PROVE  ThreadTypes' /\ DeliveryInv' /\ LifetimeInv'
BY DEF OwnerNext, Start, RequestStop, ShutdownInert, WaitForCompletion, Drop,
       DropJoinsWorker, HandoffInv, ThreadTypes, DeliveryInv, LifetimeInv, WorkerStates,
       WorkerGone, ownerVars, workerVars, captureVars, sharedVars

\* So do the worker's steps, and a panic of the callback.
LEMMA WorkerKeepsLifetimes ==
  ASSUME HandoffInv, WorkerNext \/ CallbackPanics
  PROVE  ThreadTypes' /\ DeliveryInv' /\ LifetimeInv'
<1> USE DEF HandoffInv, ThreadTypes, DeliveryInv, LifetimeInv, WorkerStates,
            CaptureStates, WorkerGone, CaptureGone, ownerVars, captureVars, sharedVars
<1>1. CASE SpawnCapture
  BY <1>1 DEF SpawnCapture
<1>2. CASE ReceiveFirst \/ ReceivePacket \/ RecycleFails
  BY <1>2 DEF ReceiveFirst, ReceivePacket, RecycleFails, DeliverThen, ReturnWith
<1>3. CASE ReceiveBadPacket
  <2>1. FailedWith("StreamInterrupted") # <<>>
    BY FailuresAreFair DEF ErrorKinds
  <2> QED BY <1>3, <2>1 DEF ReceiveBadPacket, DeliverThen
<1>4. CASE ReceiveEnd
  <2>1. CASE Received("Ended") /\ DeliverThen(ContractEnd(Head(queue).end), "Closing")
    <3>1. Head(queue) \in FairMessages
      BY <2>1, HeadTailProperties DEF Received, StopInv
    <3>2. Head(queue).end \in CaptureEnds
      BY <2>1, <3>1 DEF Received, FairMessages, Messages
    <3>3. ContractEnd(Head(queue).end) # <<>>
      BY <3>2 DEF CaptureEnds, ContractEnd, FailedWith
    <3> QED BY <1>4, <2>1, <3>3 DEF ReceiveEnd, DeliverThen
  <2>2. CASE Received("Failed") /\ DeliverThen(FailedWith(Head(queue).failure), "Closing")
    <3>1. FailedWith(Head(queue).failure) # <<>>
      BY DEF FailedWith
    <3> QED BY <1>4, <2>2, <3>1 DEF ReceiveEnd, DeliverThen
  <2>3. CASE ReturnWith(RunFailed("ChannelClosed"))
    BY <1>4, <2>3 DEF ReceiveEnd, ReturnWith
  <2> QED BY <1>4, <2>1, <2>2, <2>3 DEF ReceiveEnd
<1>5. CASE Deliver
  <2>1. Len(pending) # 1 => Tail(pending) # <<>>
    <3>1. pending \in Seq(FairEvents) /\ pending # <<>>
      BY <1>5 DEF Deliver, StopInv
    <3>2. Len(Tail(pending)) = Len(pending) - 1 /\ Len(pending) \in Nat
      BY <3>1, HeadTailProperties
    <3> QED BY <3>1, <3>2
  <2> QED BY <1>5, <2>1 DEF Deliver
<1>6. CASE CallbackPanics \/ Drain \/ CloseCapture \/ JoinCapture
  BY <1>6 DEF CallbackPanics, Drain, CloseCapture, JoinCapture, ReturnWith
<1> QED BY <1>1, <1>2, <1>3, <1>4, <1>5, <1>6 DEF WorkerNext

\* So do the capture thread's steps, its panic and the device's notifications.
LEMMA CaptureKeepsLifetimes ==
  ASSUME HandoffInv,
         CaptureNext \/ CapturePanics \/ \E end \in SignalledEnds : Notify(end)
  PROVE  ThreadTypes' /\ DeliveryInv' /\ LifetimeInv'
<1>1. /\ UNCHANGED <<ownerVars, stop, workerVars>>
      /\ capture \notin CaptureGone
  BY DEF CaptureNext, OpenSource, StartStream, SendStarted, Poll, DeviceDrained,
         ReadPacket, SendPacket, SendEnded, Release, SendFailed, CapturePanics, Notify,
         CaptureSenderAlive, RecycleReceiverAlive, CaptureGone
<1>2. DeliveryInv' /\ LifetimeInv'
  BY <1>1
  DEF HandoffInv, DeliveryInv, LifetimeInv, ThreadTypes, CaptureGone, ownerVars,
      workerVars
<1>3. ThreadTypes'
  <2> USE <1>1 DEF HandoffInv, ThreadTypes, CaptureStates, CaptureEnds, SignalledEnds,
                   DeviceErrorEnds, FailureKinds, Terminate, EndWith, FailWith,
                   workerVars, sharedVars
  <2>1. CASE OpenSource \/ StartStream \/ SendStarted
    BY <2>1 DEF OpenSource, StartStream, SendStarted
  <2>2. CASE Poll
    BY <2>2 DEF Poll
  <2>3. CASE DeviceDrained \/ ReadPacket \/ SendPacket
    BY <2>3 DEF DeviceDrained, ReadPacket, SendPacket
  <2>4. CASE SendEnded \/ Release \/ SendFailed \/ CapturePanics
    BY <2>4 DEF SendEnded, Release, SendFailed, CapturePanics
  <2>5. CASE \E end \in SignalledEnds : Notify(end)
    BY <2>5 DEF Notify, captureVars
  <2> QED BY <2>1, <2>2, <2>3, <2>4, <2>5 DEF CaptureNext
<1> QED BY <1>2, <1>3

-----------------------------------------------------------------------------
(* Stops.                                                                  *)

\* The holder's calls keep what is known of requested stops.
LEMMA HolderKeepsStops ==
  ASSUME HandoffInv, OwnerNext
  PROVE  StopInv'
<1>1. /\ stop' \in {stop, stop \cup {"Owner"}}
      /\ UNCHANGED <<result, pending, resume, events, captureVars, sharedVars>>
      /\ worker' = worker \/ worker = "NotSpawned"
  BY DEF OwnerNext, Start, RequestStop, ShutdownInert, WaitForCompletion, Drop,
         DropJoinsWorker, HandoffInv, LifetimeInv, ownerVars, workerVars
<1>2. (Asked => Asked') /\ (GivenUp => GivenUp')
  BY <1>1 DEF Asked, GivenUp
<1>3. UNCHANGED <<capture, termination, queue, pending, events>>
  BY <1>1 DEF captureVars, sharedVars
<1> QED BY <1>1, <1>2, <1>3, FairGrows DEF HandoffInv, StopInv

\* What is left of the channel, and an empty one, are still fair.
LEMMA QueueStaysFair ==
  ASSUME HandoffInv, Asked => Asked', GivenUp => GivenUp',
         queue' = queue \/ queue' = <<>> \/ (queue # <<>> /\ queue' = Tail(queue))
  PROVE  queue' \in Seq(FairMessages')
<1>1. queue \in Seq(FairMessages)
  BY DEF HandoffInv, StopInv
<1>2. queue # <<>> => Tail(queue) \in Seq(FairMessages)
  BY <1>1, HeadTailProperties
<1>3. CASE queue' = queue
  BY <1>1, <1>3, FairGrows
<1>4. CASE queue' = <<>>
  <2>1. <<>> \in Seq(FairMessages')
    BY EmptySeq
  <2> QED BY <1>4, <2>1
<1>5. CASE queue # <<>> /\ queue' = Tail(queue)
  <2>1. Tail(queue) \in Seq(FairMessages)
    BY <1>2, <1>5
  <2>2. queue' \in Seq(FairMessages)
    BY <1>5, <2>1
  <2> QED BY <2>2, FairGrows
<1> QED BY <1>3, <1>4, <1>5

\* A delivered event, and those that are still to be, are fair.
LEMMA EventsStayFair ==
  ASSUME HandoffInv, Asked => Asked', worker = "Delivering",
         events' = Append(events, Head(pending)),
         pending' \in {pending, <<>>, Tail(pending)}
  PROVE  pending' \in Seq(FairEvents') /\ events' \in Seq(FairEvents')
<1>1. pending # <<>> /\ pending \in Seq(FairEvents) /\ events \in Seq(FairEvents)
  BY DEF HandoffInv, StopInv, DeliveryInv
<1>2. Head(pending) \in FairEvents /\ Tail(pending) \in Seq(FairEvents)
  BY <1>1, HeadTailProperties
<1>3. Append(events, Head(pending)) \in Seq(FairEvents)
  BY <1>1, <1>2, AppendProperties
<1>4. events' \in Seq(FairEvents)
  BY <1>3
<1>5. FairEvents \subseteq FairEvents'
  BY DEF FairEvents
<1>6. CASE pending' = <<>>
  <2>1. <<>> \in Seq(FairEvents')
    BY EmptySeq
  <2> QED BY <1>4, <1>5, <1>6, <2>1
<1>7. CASE pending' \in {pending, Tail(pending)}
  <2>1. pending' \in Seq(FairEvents)
    BY <1>1, <1>2, <1>7
  <2> QED BY <1>4, <1>5, <2>1
<1> QED BY <1>6, <1>7

\* A batch that waits to be delivered, with the worker where the batch leads to.
LEMMA BatchIsFair ==
  ASSUME HandoffInv, NEW batch \in Seq(FairEvents), NEW next,
         DeliverThen(batch, next), Asked => Asked', worker \in {"AwaitStarted", "Receiving"},
         queue # <<>>, events' = events
  PROVE  /\ queue' \in Seq(FairMessages')
         /\ pending' \in Seq(FairEvents') /\ events' \in Seq(FairEvents')
<1>1. ~GivenUp
  BY DEF GivenUp
<1>2. queue' \in Seq(FairMessages')
  BY <1>1, QueueStaysFair DEF DeliverThen
<1> QED BY <1>1, <1>2, FairGrows DEF DeliverThen, HandoffInv, StopInv

\* The end the worker tells is the one the WASAPI thread sent, and it sent a
\* requested stop only for the holder while the worker still receives.
LEMMA ReceivedEndIsFair ==
  ASSUME HandoffInv, worker = "Receiving", queue # <<>>
  PROVE  /\ Received("Ended") => ContractEnd(Head(queue).end) \in Seq(FairEvents)
         /\ Received("Failed") => FailedWith(Head(queue).failure) \in Seq(FairEvents)
         /\ Received("Packet") => Head(queue).number \in Nat
<1>1. Head(queue) \in FairMessages
  BY HeadTailProperties DEF HandoffInv, StopInv
<1>2. ~GivenUp
  BY DEF GivenUp
<1>3. ASSUME Received("Ended")
      PROVE  ContractEnd(Head(queue).end) \in Seq(FairEvents)
  <2>1. Head(queue) \in [kind: {"Ended"}, end: CaptureEnds]
    BY <1>1, <1>3 DEF Received, FairMessages, Messages
  <2>2. Head(queue).end = "StopRequested" => Asked
    BY <1>1, <1>2, <2>1 DEF FairMessages, EndedMessage
  <2> QED BY <2>1, <2>2, EndsAreFair
<1>4. ASSUME Received("Failed")
      PROVE  FailedWith(Head(queue).failure) \in Seq(FairEvents)
  <2>1. Head(queue).failure \in ErrorKinds
    BY <1>1, <1>4 DEF Received, FairMessages, Messages, ErrorKinds
  <2> QED BY <2>1, FailuresAreFair
<1>5. ASSUME Received("Packet")
      PROVE  Head(queue).number \in Nat
  BY <1>1, <1>5 DEF Received, FairMessages, Messages
<1> QED BY <1>3, <1>4, <1>5

\* So do the worker's steps, and a panic of the callback.
LEMMA WorkerKeepsStops ==
  ASSUME HandoffInv, WorkerNext \/ CallbackPanics
  PROVE  StopInv'
<1> DEFINE Fairly == /\ queue' \in Seq(FairMessages')
                     /\ pending' \in Seq(FairEvents') /\ events' \in Seq(FairEvents')
<1>1. /\ stop' \in {stop, stop \cup {"Worker"}}
      /\ UNCHANGED <<captured, termination, end_signal>>
      /\ capture' = capture \/ capture' = "Opening"
  BY DEF WorkerNext, SpawnCapture, ReceiveFirst, ReceivePacket, ReceiveBadPacket,
         RecycleFails, ReceiveEnd, Deliver, CallbackPanics, Drain, CloseCapture,
         JoinCapture, captureVars, sharedVars
<1>2. Asked <=> Asked'
  BY <1>1 DEF Asked
<1>3. /\ GivenUp => GivenUp'
      /\ "Worker" \in stop' => GivenUp'
  BY DEF WorkerNext, SpawnCapture, ReceiveFirst, ReceivePacket, ReceiveBadPacket,
         RecycleFails, ReceiveEnd, Deliver, CallbackPanics, Drain, CloseCapture,
         JoinCapture, DeliverThen, ReturnWith, GivenUp, HandoffInv, StopInv, DeliveryInv
<1>4. Fairly
  <2>1. CASE SpawnCapture \/ CloseCapture \/ JoinCapture \/ RecycleFails \/ Drain
    <3>1. /\ pending' = pending /\ events' = events
          /\ queue' = queue \/ queue' = <<>> \/ (queue # <<>> /\ queue' = Tail(queue))
      BY <2>1 DEF SpawnCapture, CloseCapture, JoinCapture, RecycleFails, Drain, Received,
                  ReturnWith, sharedVars
    <3> QED BY <1>2, <1>3, <3>1, QueueStaysFair, FairGrows DEF HandoffInv, StopInv
  <2>2. CASE ReceiveFirst
    <3>1. CASE Received("Started") /\ DeliverThen(<<StartedEvent>>, "Receiving")
      <4>1. StartedEvent \in FairEvents
        BY DEF StartedEvent, FairEvents, Events, EndedEvent
      <4>2. <<StartedEvent>> \in Seq(FairEvents)
        BY <4>1
      <4> QED BY <1>2, <2>2, <3>1, <4>2, BatchIsFair DEF ReceiveFirst, Received
    <3>2. CASE queue' = <<>> /\ pending' = pending
      BY <1>2, <1>3, <2>2, <3>2, QueueStaysFair, FairGrows
      DEF ReceiveFirst, HandoffInv, StopInv
    <3> QED BY <2>2, <3>1, <3>2 DEF ReceiveFirst, ReturnWith
  <2>3. CASE ReceivePacket
    <3>1. DataEvent(Head(queue).number) \in FairEvents
      BY <2>3, ReceivedEndIsFair
      DEF ReceivePacket, Received, DataEvent, FairEvents, Events, EndedEvent
    <3>2. <<DataEvent(Head(queue).number)>> \in Seq(FairEvents)
      BY <3>1
    <3> QED BY <1>2, <2>3, <3>2, BatchIsFair DEF ReceivePacket, Received
  <2>4. CASE ReceiveBadPacket
    <3>1. FailedWith("StreamInterrupted") \in Seq(FairEvents)
      BY FailuresAreFair DEF ErrorKinds
    <3> QED BY <1>2, <2>4, <3>1, BatchIsFair DEF ReceiveBadPacket, Received
  <2>5. CASE ReceiveEnd
    <3>1. CASE Received("Ended") /\ DeliverThen(ContractEnd(Head(queue).end), "Closing")
      BY <1>2, <2>5, <3>1, ReceivedEndIsFair, BatchIsFair DEF ReceiveEnd, Received
    <3>2. CASE Received("Failed") /\ DeliverThen(FailedWith(Head(queue).failure), "Closing")
      BY <1>2, <2>5, <3>2, ReceivedEndIsFair, BatchIsFair DEF ReceiveEnd, Received
    <3>3. CASE queue' = <<>> /\ pending' = pending
      BY <1>2, <1>3, <2>5, <3>3, QueueStaysFair, FairGrows
      DEF ReceiveEnd, HandoffInv, StopInv
    <3> QED BY <2>5, <3>1, <3>2, <3>3 DEF ReceiveEnd, ReturnWith
  <2>6. CASE Deliver \/ CallbackPanics
    <3>1. /\ worker = "Delivering" /\ events' = Append(events, Head(pending))
          /\ pending' \in {pending, <<>>, Tail(pending)}
          /\ queue' = queue \/ queue' = <<>>
      BY <2>6 DEF Deliver, CallbackPanics
    <3> QED BY <1>2, <1>3, <3>1, EventsStayFair, QueueStaysFair
  <2> QED BY <2>1, <2>2, <2>3, <2>4, <2>5, <2>6 DEF WorkerNext
<1>5. capture' = "Ending" /\ termination' = "StopRequested" => Asked' \/ GivenUp'
  BY <1>1, <1>2, <1>3 DEF HandoffInv, StopInv
<1> QED BY <1>1, <1>3, <1>4, <1>5 DEF HandoffInv, StopInv

\* So do the capture thread's steps, its panic and the device's notifications.
LEMMA CaptureKeepsStops ==
  ASSUME HandoffInv,
         CaptureNext \/ CapturePanics \/ \E end \in SignalledEnds : Notify(end)
  PROVE  StopInv'
<1>1. UNCHANGED <<ownerVars, stop, workerVars>>
  BY DEF CaptureNext, OpenSource, StartStream, SendStarted, Poll, DeviceDrained,
         ReadPacket, SendPacket, SendEnded, Release, SendFailed, CapturePanics, Notify
<1>2. /\ Asked' = Asked /\ GivenUp' = GivenUp
      /\ pending' = pending /\ events' = events
      /\ FairMessages' = FairMessages /\ FairEvents' = FairEvents
  BY <1>1 DEF Asked, GivenUp, workerVars, FairMessages, FairEvents
\* The loop ends by request only when the token was raised.
<1>3. capture' = "Ending" /\ termination' = "StopRequested" => Asked \/ GivenUp
  <2> USE DEF HandoffInv, StopInv, ThreadTypes, Asked, SignalledEnds, DeviceErrorEnds,
              Terminate, EndWith, FailWith, sharedVars
  <2>1. CASE OpenSource \/ StartStream \/ SendStarted
    BY <2>1 DEF OpenSource, StartStream, SendStarted
  <2>2. CASE Poll
    BY <2>2 DEF Poll, StopRequested
  <2>3. CASE DeviceDrained \/ ReadPacket \/ SendPacket
    BY <2>3 DEF DeviceDrained, ReadPacket, SendPacket
  <2>4. CASE SendEnded \/ Release \/ SendFailed \/ CapturePanics
    BY <2>4 DEF SendEnded, Release, SendFailed, CapturePanics
  <2>5. CASE \E end \in SignalledEnds : Notify(end)
    BY <2>5 DEF Notify, captureVars
  <2> QED BY <2>1, <2>2, <2>3, <2>4, <2>5 DEF CaptureNext
<1>4. queue' \in Seq(FairMessages)
  <2>1. \A m \in FairMessages : Append(queue, m) \in Seq(FairMessages)
    BY AppendProperties DEF HandoffInv, StopInv
  <2>2. CASE queue' = queue
    BY <2>2 DEF HandoffInv, StopInv
  <2>3. CASE SendStarted /\ queue' # queue
    <3>1. StartedMessage \in FairMessages
      BY DEF StartedMessage, FairMessages, Messages, EndedMessage
    <3> QED BY <2>1, <2>3, <3>1 DEF SendStarted
  <2>4. CASE SendPacket /\ queue' # queue
    <3>1. PacketMessage(captured) \in FairMessages
      BY DEF PacketMessage, FairMessages, Messages, EndedMessage, HandoffInv, ThreadTypes
    <3> QED BY <2>1, <2>4, <3>1 DEF SendPacket
  <2>5. CASE SendEnded /\ queue' # queue
    <3>1. EndedMessage(termination) \in FairMessages
      BY <2>5 DEF SendEnded, EndedMessage, FairMessages, Messages, HandoffInv, ThreadTypes,
                  StopInv
    <3> QED BY <2>1, <2>5, <3>1 DEF SendEnded
  <2>6. CASE SendFailed /\ queue' # queue
    <3>1. FailedMessage(termination) \in FairMessages
      BY <2>6 DEF SendFailed, FailedMessage, FairMessages, Messages, EndedMessage,
                  HandoffInv, ThreadTypes
    <3> QED BY <2>1, <2>6, <3>1 DEF SendFailed
  <2> QED BY <2>2, <2>3, <2>4, <2>5, <2>6
          DEF CaptureNext, OpenSource, StartStream, Poll, DeviceDrained, ReadPacket,
              Release, CapturePanics, Notify, sharedVars
<1> QED BY <1>1, <1>2, <1>3, <1>4 DEF HandoffInv, StopInv

-----------------------------------------------------------------------------
(* The invariant holds.                                                    *)

\* The invariant of the threads holds at the beginning.
LEMMA HandoffInvBegins == Init => HandoffInv
<1> SUFFICES ASSUME Init PROVE HandoffInv
  OBVIOUS
<1>1. ThreadTypes /\ DeliveryInv /\ LifetimeInv
  BY DEF Init, ThreadTypes, DeliveryInv, LifetimeInv, WorkerStates, CaptureStates,
         CaptureGone, WorkerGone
<1>2. StopInv
  <2>1. <<>> \in Seq(FairMessages) /\ <<>> \in Seq(FairEvents)
    OBVIOUS
  <2> QED BY <2>1 DEF Init, StopInv
<1> QED BY <1>1, <1>2 DEF HandoffInv

\* Every step keeps the invariant of the threads.
LEMMA HandoffInvStays == HandoffInv /\ [Next]_vars => HandoffInv'
<1> SUFFICES ASSUME HandoffInv, [Next]_vars PROVE HandoffInv'
  OBVIOUS
<1>1. CASE OwnerNext
  BY <1>1, HolderKeepsLifetimes, HolderKeepsStops DEF HandoffInv
<1>2. CASE WorkerNext \/ CallbackPanics
  BY <1>2, WorkerKeepsLifetimes, WorkerKeepsStops DEF HandoffInv
<1>3. CASE CaptureNext \/ CapturePanics \/ \E end \in SignalledEnds : Notify(end)
  BY <1>3, CaptureKeepsLifetimes, CaptureKeepsStops DEF HandoffInv
<1>4. CASE UNCHANGED vars
  <2>1. UNCHANGED <<owner, start_called, completion, stop, worker, pending, resume,
                    events, capture, captured, termination, queue, end_signal>>
    BY <1>4 DEF vars, ownerVars, workerVars, captureVars, sharedVars
  <2>2. FairMessages' = FairMessages /\ FairEvents' = FairEvents
    BY <2>1 DEF FairMessages, FairEvents, Asked, GivenUp
  <2> QED BY <2>1, <2>2 DEF HandoffInv, ThreadTypes, DeliveryInv, LifetimeInv, StopInv,
                            Asked, GivenUp
<1> QED BY <1>1, <1>2, <1>3, <1>4 DEF Next

\* The invariant of the threads always holds.
LEMMA HandoffInvHolds == Spec => []HandoffInv
BY HandoffInvBegins, HandoffInvStays, PTL DEF Spec

-----------------------------------------------------------------------------
(* What the worker reports.                                                *)

\* A worker that has stopped receiving has its report ready, and what the holder
\* gets is a completion.
ResultInv ==
  /\ worker \in {"Draining", "Closing", "Joining", "Exited"} => result \in Completions
  /\ worker = "Delivering" /\ resume # "Receiving" => result \in Completions
  /\ completion \in Completions \cup {None}

\* What the worker reports is a completion.
LEMMA ReportsAreCompletions ==
  /\ \A end \in CaptureEnds : Finished(end) \in Completions
  /\ \A k \in RunErrors : RunFailed(k) \in Completions
  /\ Panicked \in Completions
BY DEF Completions, Finished, RunFailed, Panicked

\* The ends and the failures the worker receives are those of the WASAPI thread.
LEMMA ReceivedReports ==
  ASSUME HandoffInv, queue # <<>>
  PROVE  /\ Received("Ended") => Finished(Head(queue).end) \in Completions
         /\ Received("Failed") => RunFailed(Head(queue).failure) \in Completions
<1>1. Head(queue) \in FairMessages
  BY HeadTailProperties DEF HandoffInv, StopInv
<1>2. Received("Ended") => Head(queue).end \in CaptureEnds
  BY <1>1 DEF Received, FairMessages, Messages
<1>3. Received("Failed") => Head(queue).failure \in RunErrors
  BY <1>1 DEF Received, FairMessages, Messages, RunErrors
<1> QED BY <1>2, <1>3, ReportsAreCompletions

\* Nothing is reported at the beginning.
LEMMA ResultInvBegins == Init => ResultInv
BY DEF Init, ResultInv

\* The worker reports a completion that belongs to where it is.
LEMMA WorkerKeepsResults ==
  ASSUME HandoffInv, ResultInv, WorkerNext \/ CallbackPanics
  PROVE  ResultInv'
<1> USE DEF ResultInv, ownerVars
<1>1. CASE SpawnCapture \/ RecycleFails
  <2>1. RunFailed("Spawn") \in Completions /\ RunFailed("Protocol") \in Completions
    BY ReportsAreCompletions DEF RunErrors
  <2> QED BY <1>1, <2>1 DEF SpawnCapture, RecycleFails, ReturnWith
<1>2. CASE ReceivePacket
  BY <1>2 DEF ReceivePacket, DeliverThen
<1>3. CASE ReceiveBadPacket
  <2>1. Finished("DataDiscontinuity") \in Completions
    BY ReportsAreCompletions DEF CaptureEnds
  <2> QED BY <1>3, <2>1 DEF ReceiveBadPacket, DeliverThen
<1>4. CASE ReceiveFirst \/ ReceiveEnd
  <2>1. /\ RunFailed("ChannelClosed") \in Completions
        /\ Finished("Failed") \in Completions
    BY ReportsAreCompletions DEF RunErrors, CaptureEnds
  <2>2. \A kind : Received(kind) => queue # <<>>
    BY DEF Received
  <2> QED BY <1>4, <2>1, <2>2, ReceivedReports
          DEF ReceiveFirst, ReceiveEnd, DeliverThen, ReturnWith
<1>5. CASE Deliver
  BY <1>5 DEF Deliver, HandoffInv, DeliveryInv
<1>6. CASE CallbackPanics \/ JoinCapture
  <2>1. Panicked \in Completions /\ RunFailed("ThreadPanicked") \in Completions
    BY ReportsAreCompletions DEF RunErrors
  <2> QED BY <1>6, <2>1 DEF CallbackPanics, JoinCapture
<1>7. CASE Drain \/ CloseCapture
  BY <1>7 DEF Drain, CloseCapture, ReturnWith
<1> QED BY <1>1, <1>2, <1>3, <1>4, <1>5, <1>6, <1>7 DEF WorkerNext

\* Every step keeps what is known of the report.
LEMMA ResultInvStays == HandoffInv /\ ResultInv /\ [Next]_vars => ResultInv'
<1> SUFFICES ASSUME HandoffInv, ResultInv, [Next]_vars PROVE ResultInv'
  OBVIOUS
<1>1. CASE OwnerNext
  <2>1. /\ [status |-> "StoppedBeforeStart"] \in Completions
        /\ [status |-> "StartFailed"] \in Completions
    BY DEF Completions
  <2>2. worker' = worker \/ worker' = "Spawning"
    BY <1>1 DEF OwnerNext, Start, RequestStop, ShutdownInert, WaitForCompletion, Drop,
                DropJoinsWorker, ownerVars, workerVars
  <2>3. UNCHANGED <<result, resume>>
    BY <1>1 DEF OwnerNext, Start, RequestStop, ShutdownInert, WaitForCompletion, Drop,
                DropJoinsWorker, ownerVars, workerVars
  <2>4. completion' \in Completions \cup {None}
    BY <1>1, <2>1 DEF OwnerNext, Start, RequestStop, ShutdownInert, WaitForCompletion,
                      Drop, DropJoinsWorker, ownerVars, ResultInv
  <2> QED BY <2>2, <2>3, <2>4 DEF ResultInv
<1>2. CASE WorkerNext \/ CallbackPanics
  BY <1>2, WorkerKeepsResults
<1>3. CASE CaptureNext \/ CapturePanics \/ \E end \in SignalledEnds : Notify(end)
  <2>1. UNCHANGED <<ownerVars, workerVars>>
    BY <1>3 DEF CaptureNext, OpenSource, StartStream, SendStarted, Poll, DeviceDrained,
           ReadPacket, SendPacket, SendEnded, Release, SendFailed, CapturePanics, Notify
  <2> QED BY <2>1 DEF ResultInv, ownerVars, workerVars
<1>4. CASE UNCHANGED vars
  BY <1>4 DEF ResultInv, vars, ownerVars, workerVars
<1> QED BY <1>1, <1>2, <1>3, <1>4 DEF Next

-----------------------------------------------------------------------------
(* What the consumer is told, and what is still on its way to it.          *)

\* The queue, the events told and those pending are sequences of their kinds.
LEMMA SequencesAreTyped ==
  ASSUME HandoffInv
  PROVE  /\ queue \in Seq(Messages)
         /\ events \in Seq(Events) /\ pending \in Seq(Events)
<1>1. FairMessages \subseteq Messages /\ FairEvents \subseteq Events
  BY DEF FairMessages, FairEvents
<1> QED BY <1>1, SeqMonotonic DEF HandoffInv, StopInv

\* So far the consumer knows of Started and then of every packet in its turn.
Streaming ==
  /\ events # <<>> /\ events[1] = StartedEvent
  /\ \A i \in 2 .. Len(events) : events[i] = DataEvent(i - 1)

\* The last it was told is an error that an end for r goes with.
Erred(r) ==
  /\ events # <<>> /\ Last(events).kind = "Error"
  /\ Contract!EndsErred(Last(events).error, r)

\* What the worker is about to tell continues what it has told.
TellInv ==
  /\ worker \in {"NotSpawned", "Spawning", "AwaitStarted"} => events = <<>>
  /\ worker = "Receiving" => Streaming
  /\ worker = "Delivering" /\ resume = "Receiving" =>
       \/ events = <<>> /\ pending = <<StartedEvent>>
       \/ Streaming /\ pending = <<DataEvent(Len(events))>>
  /\ worker = "Delivering" /\ resume # "Receiving" =>
       \/ Streaming /\ \E k \in ErrorKinds, r \in EndReasons :
            pending = <<ErrorEvent(k), EndedEvent(r)>> /\ Contract!EndsErred(k, r)
       \/ Streaming /\ \E r \in Contract!CleanReasons : pending = <<EndedEvent(r)>>
       \/ \E r \in EndReasons : pending = <<EndedEvent(r)>> /\ Erred(r)

\* The worker has met no end and no rejected packet, and may not have begun.
Taking == Accepting \/ worker \in {"NotSpawned", "Spawning"}

\* Packets the worker has taken from the channel: -1 before it took Started.
Passed == IF worker = "Delivering" THEN Len(events) ELSE Len(events) - 1

\* Packets the WASAPI thread has sent: -1 before it sent Started.
SentPackets == Passed + Len(queue)

\* How many packets an end may leave out.
Missing(end) ==
  IF end \in {"StopRequested", "DurationElapsed", "Failed"} THEN {0} ELSE {0, 1}

\* The place of a message in the channel: packets are numbered on from those taken,
\* Started is before them, an end or a failure is last and tells how much is missing.
Placed(i) ==
  /\ queue[i].kind = "Packet" =>
       queue[i].number = Passed + i /\ 1 <= Passed + i /\ Passed + i <= captured
  /\ queue[i].kind = "Started" => Passed + i = 0
  /\ queue[i].kind \in {"Ended", "Failed"} =>
       i = Len(queue) /\ capture \in {"Releasing", "Done", "Panicked"}
  /\ queue[i].kind = "Ended" => captured - (Passed + i - 1) \in Missing(queue[i].end)
  /\ queue[i].kind = "Failed" => captured = 0 /\ Passed + i - 1 \in {-1, 0}

\* What the WASAPI thread has read, against what it has sent.
CountInv ==
  /\ capture \in {"NotSpawned", "Opening", "Registered", "Starting"} =>
       captured = 0 /\ SentPackets = -1
  /\ capture \in {"Polling", "Reading"} => captured = SentPackets
  /\ capture = "Holding" => captured = SentPackets + 1 /\ 1 <= captured
  /\ capture = "Ending" => captured - SentPackets \in Missing(termination)
  /\ capture = "Failing" => captured = 0 /\ SentPackets \in {-1, 0}

\* The channel holds the packets between those the worker took and those the WASAPI
\* thread read.
QueueInv ==
  Taking =>
    /\ Passed <= captured
    /\ \A i \in DOMAIN queue : Placed(i)
    /\ CountInv

\* The worker's report agrees with what it tells.
ReportInv ==
  ~Taking /\ result.status = "Finished" =>
    /\ PacketsTold <= captured
    /\ result.end # "DataDiscontinuity" =>
         /\ capture \in {"Releasing", "Done", "Panicked"}
         /\ captured - PacketsTold \in Missing(result.end)
    /\ worker = "Delivering" => Last(pending) = Last(ContractEnd(result.end))
    /\ worker # "Delivering" =>
         events # <<>> /\ Last(events) = Last(ContractEnd(result.end))

\* A buffer of the pool is free, queued behind Started or held.
PoolInv ==
  /\ pool \in Nat
  /\ capture = "Starting" => pool = HandoffCapacity
  /\ Accepting /\ capture \in {"Polling", "Reading", "Holding"} =>
       pool + Len(queue) - (IF worker = "AwaitStarted" THEN 1 ELSE 0)
         + (IF capture = "Holding" THEN 1 ELSE 0) = HandoffCapacity

StreamInv == HandoffInv /\ ResultInv /\ TellInv /\ QueueInv /\ ReportInv /\ PoolInv

-----------------------------------------------------------------------------
(* What the consumer knows while it is streamed to, and one event later.   *)

\* Every event is of its kind and bears its contents.
LEMMA EventKinds ==
  /\ StartedEvent \in Events /\ StartedEvent.kind = "Started"
  /\ \A n \in Nat : /\ DataEvent(n) \in Events /\ DataEvent(n).kind = "Data"
                    /\ DataEvent(n).packet = n
  /\ \A k \in ErrorKinds : /\ ErrorEvent(k) \in Events /\ ErrorEvent(k).kind = "Error"
                           /\ ErrorEvent(k).error = k
  /\ \A r \in EndReasons : /\ EndedEvent(r) \in Events /\ EndedEvent(r).kind = "Ended"
                           /\ EndedEvent(r).reason = r
BY DEF StartedEvent, DataEvent, ErrorEvent, EndedEvent, Events

\* While the consumer is told of packets, each event after the first is one.
LEMMA ToldWhileStreaming ==
  ASSUME events \in Seq(Events), Streaming
  PROVE  /\ Len(events) \in Nat \ {0}
         /\ Having(events, "Data") = 2 .. Len(events)
         /\ PacketsTold = Len(events) - 1
         /\ ToldStage = "Streaming" /\ ToldPacket = Len(events) - 1
         /\ ~ Has(events, "Error") /\ ~ Has(events, "Ended")
<1>1. Len(events) \in Nat \ {0} /\ DOMAIN events = 1 .. Len(events)
  BY LenProperties, EmptySeq DEF Streaming
<1>2. /\ \A i \in 2 .. Len(events) : events[i].kind = "Data" /\ events[i].packet = i - 1
      /\ events[1].kind = "Started"
  BY EventKinds DEF Streaming
<1>3. Having(events, "Data") = 2 .. Len(events)
  BY <1>1, <1>2 DEF Having
<1>4. \A i \in DOMAIN events : events[i].kind \notin {"Error", "Ended"}
  BY <1>1, <1>2
<1>5. PacketsTold = Len(events) - 1
  BY <1>1, <1>3, FS_Interval DEF PacketsTold
<1>6. ToldStage = "Streaming"
  BY <1>1, <1>2 DEF ToldStage, StageOf, Last, Streaming
<1>7. ToldPacket = Len(events) - 1
  <2>1. CASE Len(events) = 1
    BY <1>3, <2>1 DEF ToldPacket, Has
  <2>2. CASE Len(events) # 1
    <3>1. /\ Len(events) \in Having(events, "Data")
          /\ \A i \in Having(events, "Data") : i <= Len(events)
      BY <1>1, <1>3, <2>2
    <3>2. Has(events, "Data") /\ LastOf(events, "Data") = events[Len(events)]
      BY <3>1, LastIs
    <3> QED BY <1>1, <1>2, <2>2, <3>2 DEF ToldPacket
  <2> QED BY <2>1, <2>2
<1> QED BY <1>1, <1>3, <1>4, <1>5, <1>6, <1>7 DEF Has, Having

\* What the consumer knows after one more event.
LEMMA ToldOneMore ==
  ASSUME events \in Seq(Events), NEW e \in Events, events' = Append(events, e)
  PROVE  /\ events' # <<>> /\ events' \in Seq(Events)
         /\ Len(events') = Len(events) + 1 /\ Last(events') = e
         /\ ToldStage' = StageOf(e)
         /\ ToldPacket' = IF e.kind = "Data" THEN e.packet ELSE ToldPacket
         /\ ToldError' = IF e.kind = "Error" THEN e.error ELSE ToldError
         /\ ToldReason' = IF e.kind = "Ended" THEN e.reason ELSE ToldReason
         /\ PacketsTold' = IF e.kind = "Data" THEN PacketsTold + 1 ELSE PacketsTold
<1>1. /\ events' # <<>> /\ events' \in Seq(Events)
      /\ Len(events') = Len(events) + 1 /\ Last(events') = e
  BY AppendProperties, LenProperties DEF Last
<1>2. /\ Has(events', e.kind) /\ LastOf(events', e.kind) = e
      /\ \A k : k # e.kind => /\ Has(events', k) <=> Has(events, k)
                              /\ Has(events, k) => LastOf(events', k) = LastOf(events, k)
  BY LastAppended, OthersAppended
<1>3. PacketsTold' = IF e.kind = "Data" THEN PacketsTold + 1 ELSE PacketsTold
  BY CountAppended DEF PacketsTold
<1> QED BY <1>1, <1>2, <1>3 DEF ToldStage, ToldPacket, ToldError, ToldReason

\* The events of an end: an error and an end that goes with it, or a clean end.
LEMMA EndsAreTold ==
  ASSUME NEW end \in CaptureEnds
  PROVE  \/ \E k \in ErrorKinds, r \in EndReasons :
              /\ ContractEnd(end) = <<ErrorEvent(k), EndedEvent(r)>>
              /\ Contract!EndsErred(k, r)
         \/ \E r \in Contract!CleanReasons : ContractEnd(end) = <<EndedEvent(r)>>
<1> USE DEF ContractEnd, Contract!EndsErred, Contract!CleanReasons, ErrorKinds,
            FailureKinds, EndReasons
<1>1. CASE end \in {"StopRequested", "DurationElapsed"}
  BY <1>1
<1>2. CASE end = "SourceReconfigured"
  <2>1. ContractEnd(end) = <<ErrorEvent("StreamInterrupted"),
                             EndedEvent("SourceReconfigured")>>
    BY <1>2
  <2> QED BY <2>1
<1>3. CASE end = "SourceUnavailable"
  <2>1. ContractEnd(end) = <<ErrorEvent("SourceUnavailable"), EndedEvent("SourceEnded")>>
    BY <1>3
  <2> QED BY <2>1
<1>4. CASE end \in {"Interrupted", "DataDiscontinuity", "BoundedHandoffExhausted",
                    "Failed"}
  <2>1. PICK k \in ErrorKinds : ContractEnd(end) = <<ErrorEvent(k), EndedEvent("Failed")>>
    BY <1>4 DEF FailedWith
  <2> QED BY <2>1
<1> QED BY <1>1, <1>2, <1>3, <1>4 DEF CaptureEnds

\* A failure is told by its error and an end that the contract has for it.
LEMMA FailuresAreTold ==
  ASSUME NEW kind \in ErrorKinds
  PROVE  /\ FailedWith(kind) = <<ErrorEvent(kind), EndedEvent("Failed")>>
         /\ "Failed" \in EndReasons /\ Contract!EndsErred(kind, "Failed")
BY DEF FailedWith, EndReasons, Contract!EndsErred

\* The first message of the queue is one of the capture thread's.
LEMMA MessagesAreTyped ==
  ASSUME HandoffInv, queue # <<>>
  PROVE  /\ Head(queue) = queue[1] /\ 1 \in DOMAIN queue
         /\ Len(queue) \in Nat \ {0} /\ Head(queue) \in Messages
         /\ Received("Ended") => Head(queue).end \in CaptureEnds
         /\ Received("Failed") => Head(queue).failure \in FailureKinds
         /\ Received("Packet") => Head(queue).number \in Nat
<1>1. queue \in Seq(Messages)
  BY SequencesAreTyped
<1>2. /\ Head(queue) = queue[1] /\ 1 \in DOMAIN queue /\ Len(queue) \in Nat \ {0}
      /\ Head(queue) \in Messages
  BY <1>1, RestOf, LenProperties
<1> QED BY <1>2 DEF Received, Messages

\* A step that tells nothing leaves what is told alone.
LEMMA QuietKeepsTelling ==
  ASSUME HandoffInv, TellInv, UNCHANGED <<pending, resume, events>>,
         \/ worker' = worker
         \/ worker = "NotSpawned" /\ worker' = "Spawning"
         \/ worker = "Spawning" /\ worker' = "AwaitStarted"
         \/ worker' \in {"Draining", "Closing", "Joining", "Exited"}
  PROVE  TellInv'
BY DEF TellInv, Streaming, Erred

\* What a delivery that does not panic leaves to be told.
LEMMA DeliveryKeepsTelling ==
  ASSUME HandoffInv, TellInv, Deliver
  PROVE  TellInv'
<1>1. /\ worker = "Delivering" /\ events' = Append(events, Head(pending))
      /\ pending \in Seq(Events) /\ events \in Seq(Events)
      /\ resume \in {"Receiving", "Draining", "Closing"}
  BY SequencesAreTyped DEF Deliver, HandoffInv, DeliveryInv
<1>2. CASE resume = "Receiving" /\ events = <<>> /\ pending = <<StartedEvent>>
  <2>1. events' = <<StartedEvent>> /\ Len(events') = 1
    BY <1>1, <1>2
  <2>2. worker' = "Receiving" /\ Streaming'
    BY <1>2, <2>1 DEF Deliver, Streaming
  <2> QED BY <2>2 DEF TellInv
<1>3. CASE resume = "Receiving" /\ Streaming /\ pending = <<DataEvent(Len(events))>>
  <2> DEFINE e == DataEvent(Len(events))
  <2>1. events' = Append(events, e) /\ Len(events) \in Nat \ {0} /\ e \in Events
    BY <1>1, <1>3, EventKinds, LenProperties, EmptySeq DEF Streaming
  <2>2. /\ Len(events') = Len(events) + 1 /\ events' # <<>>
        /\ \A i \in 1 .. Len(events) : events'[i] = events[i]
        /\ events'[Len(events) + 1] = e
    BY <1>1, <2>1, AppendProperties
  <2>3. Streaming'
    <3>1. \A i \in 2 .. Len(events) + 1 :
            i \in 2 .. Len(events) \/ i = Len(events) + 1
      BY <2>1
    <3>2. events'[1] = StartedEvent
      BY <1>3, <2>1, <2>2 DEF Streaming
    <3>3. \A i \in 2 .. Len(events) : events'[i] = DataEvent(i - 1)
      BY <1>3, <2>2 DEF Streaming
    <3>4. events'[Len(events) + 1] = DataEvent((Len(events) + 1) - 1)
      BY <2>1, <2>2
    <3> QED BY <2>2, <3>1, <3>2, <3>3, <3>4 DEF Streaming
  <2>4. worker' = "Receiving"
    BY <1>3 DEF Deliver
  <2> QED BY <2>3, <2>4 DEF TellInv
<1>4. CASE /\ resume # "Receiving"
           /\ \E k \in ErrorKinds, r \in EndReasons :
                pending = <<ErrorEvent(k), EndedEvent(r)>> /\ Contract!EndsErred(k, r)
  <2>1. PICK k \in ErrorKinds, r \in EndReasons :
          pending = <<ErrorEvent(k), EndedEvent(r)>> /\ Contract!EndsErred(k, r)
    BY <1>4
  <2>2. Head(pending) = ErrorEvent(k) /\ Tail(pending) = <<EndedEvent(r)>>
        /\ Len(pending) = 2
    BY <2>1
  <2>3. worker' = worker /\ resume' = resume /\ pending' = <<EndedEvent(r)>>
    <3>1. pending' = Tail(pending) /\ UNCHANGED <<worker, resume>>
      <4> DEFINE n == Len(pending)
      <4>1. n # 1
        BY <2>2
      <4> HIDE DEF n
      <4> QED BY <4>1 DEF Deliver, n
    <3> QED BY <2>2, <3>1
  <2>4. events' # <<>> /\ Last(events') = ErrorEvent(k)
    BY <1>1, <2>2, EventKinds, ToldOneMore
  <2>5. Last(events').kind = "Error" /\ Last(events').error = k
    BY <2>4, EventKinds
  <2>6. Erred(r)'
    BY <2>1, <2>4, <2>5 DEF Erred, Contract!EndsErred
  <2> QED BY <1>1, <1>4, <2>3, <2>6 DEF TellInv
<1>5. CASE resume # "Receiving" /\ Len(pending) = 1
  <2>1. worker' \in {"Draining", "Closing"}
    BY <1>1, <1>5 DEF Deliver
  <2> QED BY <2>1 DEF TellInv
<1>6. \A e : Len(<<e>>) = 1
  OBVIOUS
<1> QED BY <1>1, <1>2, <1>3, <1>4, <1>5, <1>6 DEF TellInv

\* Every step keeps what was told, and is to be told, in the order of the contract.
LEMMA TellInvStays ==
  ASSUME HandoffInv, TellInv, QueueInv, [Next]_vars
  PROVE  TellInv'
<1>1. CASE OwnerNext
  BY <1>1, QuietKeepsTelling
  DEF OwnerNext, Start, RequestStop, ShutdownInert, WaitForCompletion, Drop,
      DropJoinsWorker, HandoffInv, LifetimeInv, workerVars
<1>2. CASE CaptureNext \/ CapturePanics \/ \E end \in SignalledEnds : Notify(end)
  <2>1. UNCHANGED workerVars
    BY <1>2 DEF CaptureNext, OpenSource, StartStream, SendStarted, Poll, DeviceDrained,
           ReadPacket, SendPacket, SendEnded, Release, SendFailed, CapturePanics, Notify
  <2> QED BY <2>1, QuietKeepsTelling DEF workerVars
<1>3. CASE SpawnCapture \/ RecycleFails \/ Drain \/ CloseCapture \/ JoinCapture
  BY <1>3, QuietKeepsTelling
  DEF SpawnCapture, RecycleFails, Drain, CloseCapture, JoinCapture, ReturnWith
<1>4. CASE ReceiveFirst
  <2>1. CASE DeliverThen(<<StartedEvent>>, "Receiving")
    BY <1>4, <2>1 DEF ReceiveFirst, DeliverThen, TellInv
  <2>2. CASE worker' = "Closing" /\ UNCHANGED <<pending, resume>>
    BY <1>4, <2>2, QuietKeepsTelling DEF ReceiveFirst
  <2> QED BY <1>4, <2>1, <2>2 DEF ReceiveFirst, ReturnWith
<1>5. CASE ReceivePacket
  <2>1. worker = "Receiving" /\ queue # <<>> /\ Head(queue).kind = "Packet"
    BY <1>5 DEF ReceivePacket, Received
  <2>2. queue[1] = Head(queue) /\ 1 \in DOMAIN queue
    BY <2>1, MessagesAreTyped
  <2>3. Head(queue).number = Passed + 1
    BY <2>1, <2>2 DEF QueueInv, Placed, Taking, Accepting
  <2>4. Passed + 1 = Len(events)
    BY <2>1, LenProperties, SequencesAreTyped DEF Passed
  <2>5. pending' = <<DataEvent(Len(events))>> /\ Streaming'
    BY <1>5, <2>1, <2>3, <2>4 DEF ReceivePacket, DeliverThen, TellInv, Streaming
  <2> QED BY <1>5, <2>5 DEF ReceivePacket, DeliverThen, TellInv
<1>6. CASE ReceiveBadPacket \/ ReceiveEnd
  <2>1. worker = "Receiving" /\ events' = events /\ Streaming'
    BY <1>6 DEF ReceiveBadPacket, ReceiveEnd, TellInv, Streaming
  <2>2. CASE \E kind \in ErrorKinds, next \in {"Draining", "Closing"} :
               DeliverThen(FailedWith(kind), next)
    BY <2>1, <2>2, FailuresAreTold DEF DeliverThen, TellInv
  <2>3. CASE Received("Ended") /\ DeliverThen(ContractEnd(Head(queue).end), "Closing")
    <3>1. Head(queue).end \in CaptureEnds
      BY <2>3, MessagesAreTyped DEF Received
    <3> QED BY <2>1, <2>3, <3>1, EndsAreTold DEF DeliverThen, TellInv
  <2>4. CASE worker' = "Closing"
    BY <2>4 DEF TellInv
  <2>5. Received("Failed") => Head(queue).failure \in ErrorKinds
    BY MessagesAreTyped DEF Received, ErrorKinds
  <2>6. "StreamInterrupted" \in ErrorKinds
    BY DEF ErrorKinds
  <2> QED BY <1>6, <2>2, <2>3, <2>4, <2>5, <2>6
          DEF ReceiveBadPacket, ReceiveEnd, ReturnWith
<1>7. CASE Deliver
  BY <1>7, DeliveryKeepsTelling
<1>8. CASE CallbackPanics
  BY <1>8 DEF CallbackPanics, TellInv
<1>9. CASE UNCHANGED vars
  BY <1>9, QuietKeepsTelling DEF vars, workerVars
<1> QED BY <1>1, <1>2, <1>3, <1>4, <1>5, <1>6, <1>7, <1>8, <1>9 DEF Next, WorkerNext

-----------------------------------------------------------------------------
(* The owner's steps are the contract's.                                   *)

\* An event that is delivered is the contract's next step.
LEMMA DeliveriesKeepTheContract ==
  ASSUME HandoffInv, TellInv, worker = "Delivering",
         events' = Append(events, Head(pending))
  PROVE  Contract!Next
<1> DEFINE e == Head(pending)
<1>1. /\ events \in Seq(Events) /\ pending \in Seq(Events)
      /\ resume \in {"Receiving", "Draining", "Closing"}
  BY SequencesAreTyped DEF HandoffInv, DeliveryInv
<1>2. e \in Events
  BY <1>1, HeadTailProperties DEF HandoffInv, DeliveryInv
<1>3. /\ ToldStage' = StageOf(e)
      /\ ToldPacket' = IF e.kind = "Data" THEN e.packet ELSE ToldPacket
      /\ ToldError' = IF e.kind = "Error" THEN e.error ELSE ToldError
      /\ ToldReason' = IF e.kind = "Ended" THEN e.reason ELSE ToldReason
  BY <1>1, <1>2, ToldOneMore
<1>4. CASE events = <<>> /\ pending = <<StartedEvent>>
  <2>1. e.kind = "Started"
    BY <1>4, EventKinds
  <2>2. ToldStage = "Unstarted" /\ ToldStage' = "Streaming"
    BY <1>3, <1>4, <2>1 DEF ToldStage, StageOf
  <2> QED BY <1>3, <2>1, <2>2 DEF Contract!Next, Contract!Started
<1>5. CASE Streaming /\ pending = <<DataEvent(Len(events))>>
  <2>1. e.kind = "Data" /\ e.packet = Len(events)
    BY <1>1, <1>5, EventKinds, LenProperties
  <2>2. ToldStage = "Streaming" /\ ToldPacket + 1 = Len(events)
    BY <1>1, <1>5, ToldWhileStreaming
  <2>3. ToldStage' = "Streaming"
    BY <1>3, <2>1 DEF StageOf
  <2> QED BY <1>3, <2>1, <2>2, <2>3 DEF Contract!Next, Contract!Data
<1>6. CASE Streaming /\ \E k \in ErrorKinds, r \in EndReasons :
             pending = <<ErrorEvent(k), EndedEvent(r)>> /\ Contract!EndsErred(k, r)
  <2>1. PICK k \in ErrorKinds : e = ErrorEvent(k)
    BY <1>6
  <2>2. e.kind = "Error" /\ e.error = k
    BY <2>1, EventKinds
  <2>3. ToldStage = "Streaming" /\ ToldStage' = "Erred"
    BY <1>1, <1>3, <1>6, <2>2, ToldWhileStreaming DEF StageOf
  <2>4. k \in Contract!ErrorKinds
    BY DEF ErrorKinds, FailureKinds, Contract!ErrorKinds
  <2> QED BY <1>3, <2>2, <2>3, <2>4 DEF Contract!Next, Contract!Error
<1>7. CASE Streaming /\ \E r \in Contract!CleanReasons : pending = <<EndedEvent(r)>>
  <2>1. PICK r \in Contract!CleanReasons : e = EndedEvent(r)
    BY <1>7
  <2>2. r \in EndReasons /\ r \in Contract!EndReasons
    BY DEF Contract!CleanReasons, EndReasons, Contract!EndReasons
  <2>3. e.kind = "Ended" /\ e.reason = r
    BY <2>1, <2>2, EventKinds
  <2>4. ToldStage = "Streaming" /\ ToldStage' = "Ended"
    BY <1>1, <1>3, <1>7, <2>3, ToldWhileStreaming DEF StageOf
  <2> QED BY <1>3, <2>2, <2>3, <2>4 DEF Contract!Next, Contract!Ended
<1>8. CASE \E r \in EndReasons : pending = <<EndedEvent(r)>> /\ Erred(r)
  <2>1. PICK r \in EndReasons : e = EndedEvent(r) /\ Erred(r)
    BY <1>8
  <2>2. r \in Contract!EndReasons /\ e.kind = "Ended" /\ e.reason = r
    BY <2>1, EventKinds DEF EndReasons, Contract!EndReasons
  <2>3. ToldStage = "Erred" /\ ToldError = Last(events).error
    <3>1. /\ Len(events) \in Having(events, "Error")
          /\ \A i \in Having(events, "Error") : i <= Len(events)
      BY <1>1, <2>1, LenProperties, EmptySeq DEF Erred, Having, Last
    <3>2. Has(events, "Error") /\ LastOf(events, "Error") = Last(events)
      BY <1>1, <3>1, LastIs DEF Last
    <3> QED BY <2>1, <3>2 DEF Erred, ToldStage, ToldError, StageOf
  <2>4. ToldStage' = "Ended"
    BY <1>3, <2>2 DEF StageOf
  <2> QED BY <1>3, <2>1, <2>2, <2>3, <2>4 DEF Contract!Next, Contract!Ended, Erred
<1> QED BY <1>1, <1>4, <1>5, <1>6, <1>7, <1>8 DEF TellInv

\* Every step is, for the consumer, a step of the contract or none.
LEMMA StepsKeepTheContract ==
  ASSUME HandoffInv, TellInv, [Next]_vars
  PROVE  [Contract!Next]_(Contract!contractVars)
<1>1. CASE events' = events
  BY <1>1 DEF Contract!contractVars, ToldStage, ToldPacket, ToldError, ToldReason
<1>2. CASE events' # events
  <2>1. worker = "Delivering" /\ events' = Append(events, Head(pending))
    BY <1>2 DEF Next, OwnerNext, Start, RequestStop, ShutdownInert, WaitForCompletion,
       Drop, DropJoinsWorker, WorkerNext, SpawnCapture, ReceiveFirst, ReceivePacket,
       ReceiveBadPacket, RecycleFails, ReceiveEnd, Deliver, CallbackPanics, Drain,
       CloseCapture, JoinCapture, CaptureNext, OpenSource, StartStream, SendStarted,
       Poll, DeviceDrained, ReadPacket, SendPacket, SendEnded, Release, SendFailed,
       CapturePanics, Notify, vars, workerVars
  <2> QED BY <2>1, DeliveriesKeepTheContract
<1> QED BY <1>1, <1>2

-----------------------------------------------------------------------------
(* The channel.                                                            *)

\* What the invariant of the queue counts with are numbers.
LEMMA QueueTypes ==
  ASSUME HandoffInv
  PROVE  /\ queue \in Seq(Messages) /\ Len(queue) \in Nat /\ DOMAIN queue = 1 .. Len(queue)
         /\ Len(events) \in Nat /\ Passed \in Int /\ SentPackets \in Int
         /\ captured \in Nat
         /\ \A m \in Messages : m.kind \in {"Started", "Packet", "Ended", "Failed"}
<1>1. /\ queue \in Seq(Messages) /\ Len(queue) \in Nat /\ DOMAIN queue = 1 .. Len(queue)
      /\ Len(events) \in Nat
  BY SequencesAreTyped, LenProperties
<1> QED BY <1>1 DEF Passed, SentPackets, Messages, HandoffInv, ThreadTypes

\* The worker takes Started or a packet from the channel.
LEMMA TakingKeepsQueue ==
  ASSUME HandoffInv, QueueInv, Taking, worker # "Delivering", queue # <<>>,
         Head(queue).kind \in {"Started", "Packet"}, queue' = Tail(queue),
         worker' = "Delivering", UNCHANGED <<events, capture, captured, termination>>
  PROVE  QueueInv'
<1>1. /\ Len(queue') = Len(queue) - 1 /\ Len(queue) \in Nat \ {0}
      /\ DOMAIN queue = 1 .. Len(queue) /\ DOMAIN queue' = 1 .. Len(queue) - 1
      /\ \A i \in 1 .. Len(queue) - 1 : queue'[i] = queue[i + 1]
      /\ Head(queue) = queue[1]
  BY QueueTypes, RestOf, LenProperties
<1>2. Passed' = Passed + 1 /\ Passed \in Int /\ captured \in Nat
  BY QueueTypes DEF Passed
<1>3. SentPackets' = SentPackets
  BY <1>1, <1>2, QueueTypes DEF SentPackets
<1>4. Passed' <= captured'
  <2>1. Placed(1)
    BY <1>1 DEF QueueInv
  <2> QED BY <1>1, <1>2, <2>1 DEF Placed
<1>5. ASSUME NEW i \in DOMAIN queue'
      PROVE  Placed(i)'
  <2>1. i + 1 \in DOMAIN queue /\ queue'[i] = queue[i + 1] /\ i \in Nat
    BY <1>1
  <2>2. Placed(i + 1)
    BY <2>1 DEF QueueInv
  <2>3. PICK place \in Int : place = Passed + (i + 1)
    BY <1>2, <2>1
  <2>4. PICK message : message = queue[i + 1]
    OBVIOUS
  <2>5. /\ message.kind = "Packet" => message.number = place /\ 1 <= place /\ place <= captured
        /\ message.kind = "Started" => place = 0
        /\ message.kind \in {"Ended", "Failed"} =>
             i + 1 = Len(queue) /\ capture \in {"Releasing", "Done", "Panicked"}
        /\ message.kind = "Ended" => captured - (place - 1) \in Missing(message.end)
        /\ message.kind = "Failed" => captured = 0 /\ place - 1 \in {-1, 0}
    <3>1. i \in Nat /\ Passed \in Int /\ captured \in Int
      BY <1>2, <2>1
    <3>2. Passed + (i + 1) = place /\ Passed + (i + 1) - 1 = place - 1
      BY <2>3, <3>1
    <3> HIDE <2>3
    <3> QED BY <2>2, <2>4, <3>1, <3>2 DEF Placed
  <2>6. Passed' + i = place
    BY <1>2, <2>1, <2>3
  <2>7. i = Len(queue') <=> i + 1 = Len(queue)
    BY <1>1, <2>1
  <2>8. queue'[i] = message /\ captured' = captured /\ capture' = capture
    BY <2>1, <2>4
  <2>9. i \in Nat /\ Passed' \in Int /\ captured \in Int /\ Passed' + i - 1 = place - 1
    BY <1>2, <2>1, <2>6
  <2> HIDE <2>3, <2>4
  <2> QED BY <2>5, <2>6, <2>7, <2>8, <2>9 DEF Placed
<1>6. CountInv'
  BY <1>3 DEF QueueInv, CountInv
<1> QED BY <1>4, <1>5, <1>6 DEF QueueInv

\* The worker moves on with the channel, and the WASAPI thread stands still.
LEMMA MovingKeepsQueue ==
  ASSUME HandoffInv, QueueInv, Taking' => Taking /\ Passed' = Passed,
         UNCHANGED <<queue, capture, captured, termination>>
  PROVE  QueueInv'
BY DEF QueueInv, CountInv, Placed, SentPackets

\* A delivery keeps the packets in the queue in a row with those told.
LEMMA DeliveryKeepsQueue ==
  ASSUME HandoffInv, TellInv, QueueInv, Deliver
  PROVE  QueueInv'
<1>1. /\ worker = "Delivering" /\ events' = Append(events, Head(pending))
      /\ UNCHANGED <<capture, captured, termination>>
      /\ pending # <<>> /\ resume \in {"Receiving", "Draining", "Closing"}
      /\ pending \in Seq(Events) /\ events \in Seq(Events)
  BY SequencesAreTyped DEF Deliver, captureVars, HandoffInv, DeliveryInv
<1>2. CASE resume = "Receiving"
  <2>1. Len(pending) = 1
    BY <1>1, <1>2 DEF TellInv
  <2>2. worker' = "Receiving" /\ queue' = queue
    BY <1>2, <2>1 DEF Deliver
  <2>3. Len(events') = Len(events) + 1
    BY <1>1, HeadTailProperties, AppendProperties
  <2>4. Taking /\ Passed' = Passed
    BY <1>1, <1>2, <2>2, <2>3, QueueTypes DEF Taking, Accepting, Passed
  <2> QED BY <1>1, <2>2, <2>4, MovingKeepsQueue
<1>3. CASE resume # "Receiving"
  <2>1. ~ Taking'
    BY <1>1, <1>3 DEF Deliver, Taking, Accepting
  <2> QED BY <2>1 DEF QueueInv
<1> QED BY <1>2, <1>3

\* So do the worker's steps, and a panic of the callback.
LEMMA WorkerKeepsQueue ==
  ASSUME HandoffInv, TellInv, QueueInv, WorkerNext \/ CallbackPanics
  PROVE  QueueInv'
<1>1. CASE SpawnCapture
  <2>1. capture = "NotSpawned" /\ worker = "Spawning"
    BY <1>1 DEF SpawnCapture, HandoffInv, LifetimeInv
  <2>2. /\ UNCHANGED <<queue, captured, termination, events>>
        /\ (worker' = "AwaitStarted" /\ capture' = "Opening") \/ worker' = "Joining"
    BY <1>1 DEF SpawnCapture, sharedVars
  <2>3. CASE worker' = "AwaitStarted" /\ capture' = "Opening"
    <3>1. Taking /\ Passed' = Passed /\ SentPackets' = SentPackets
      BY <2>1, <2>2, <2>3 DEF Taking, Passed, SentPackets
    <3>2. captured = 0 /\ SentPackets = -1
      BY <2>1, <3>1 DEF QueueInv, CountInv
    <3>3. queue = <<>> /\ DOMAIN queue = {}
      <4>1. Len(queue) = 0
        BY <2>1, <3>2, QueueTypes DEF SentPackets, Passed, TellInv
      <4> QED BY <4>1, QueueTypes, EmptySeq
    <3> QED BY <2>2, <2>3, <3>1, <3>2, <3>3 DEF QueueInv, CountInv
  <2>4. CASE worker' = "Joining"
    BY <2>4 DEF QueueInv, Taking, Accepting
  <2> QED BY <2>2, <2>3, <2>4
<1>2. CASE ReceiveFirst
  <2>1. CASE Received("Started") /\ DeliverThen(<<StartedEvent>>, "Receiving")
    BY <1>2, <2>1, TakingKeepsQueue
    DEF ReceiveFirst, Received, DeliverThen, Taking, Accepting, captureVars
  <2>2. CASE worker' = "Closing"
    BY <2>2 DEF QueueInv, Taking, Accepting
  <2> QED BY <1>2, <2>1, <2>2 DEF ReceiveFirst, ReturnWith
<1>3. CASE ReceivePacket
  BY <1>3, TakingKeepsQueue
  DEF ReceivePacket, Received, DeliverThen, Taking, Accepting, captureVars
<1>4. CASE ReceiveBadPacket \/ ReceiveEnd \/ RecycleFails \/ CallbackPanics
  <2>1. ~ Taking'
    BY <1>4 DEF ReceiveBadPacket, ReceiveEnd, RecycleFails, CallbackPanics, DeliverThen,
                ReturnWith, Taking, Accepting
  <2> QED BY <2>1 DEF QueueInv
<1>5. CASE Deliver
  BY <1>5, DeliveryKeepsQueue
<1>6. CASE Drain \/ CloseCapture \/ JoinCapture
  <2>1. ~ Taking'
    BY <1>6 DEF Drain, CloseCapture, JoinCapture, ReturnWith, Taking, Accepting
  <2> QED BY <2>1 DEF QueueInv
<1> QED BY <1>1, <1>2, <1>3, <1>4, <1>5, <1>6 DEF WorkerNext

\* The WASAPI thread sends nothing, and its counts agree with where it is.
LEMMA ReadingKeepsQueue ==
  ASSUME HandoffInv, QueueInv, UNCHANGED <<worker, resume, events, queue>>,
         captured' \in Nat, captured <= captured',
         \/ capture \notin {"Releasing", "Done", "Panicked"}
         \/ captured' = captured /\ capture' \in {"Done", "Panicked"},
         Taking => CountInv'
  PROVE  QueueInv'
<1> SUFFICES ASSUME Taking PROVE QueueInv'
  BY DEF QueueInv, Taking, Accepting
<1>1. Passed' = Passed /\ Passed \in Int /\ captured \in Nat /\ DOMAIN queue \subseteq Int
  BY QueueTypes DEF Passed
<1>2. Passed' <= captured'
  BY <1>1 DEF QueueInv
<1>3. ASSUME NEW i \in DOMAIN queue
      PROVE  Placed(i)'
  <2>1. Placed(i) /\ i \in Int
    BY <1>1 DEF QueueInv
  <2> QED BY <1>1, <2>1 DEF Placed
<1> QED BY <1>2, <1>3 DEF QueueInv

\* The WASAPI thread sends a message, which finds its place behind the others.
LEMMA SendingKeepsQueue ==
  ASSUME HandoffInv, QueueInv, UNCHANGED <<worker, resume, events, captured>>,
         NEW m \in Messages, queue' = Append(queue, m),
         capture \notin {"Releasing", "Done", "Panicked"},
         Taking => Placed(Len(queue))' /\ CountInv'
  PROVE  QueueInv'
<1> SUFFICES ASSUME Taking PROVE QueueInv'
  BY DEF QueueInv, Taking, Accepting
<1>1. /\ Passed' = Passed /\ Passed \in Int /\ captured \in Nat
      /\ Len(queue) \in Nat /\ DOMAIN queue = 1 .. Len(queue)
  BY QueueTypes DEF Passed
<1>2. /\ DOMAIN queue' = 1 .. Len(queue) + 1
      /\ \A i \in 1 .. Len(queue) : queue'[i] = queue[i]
  BY QueueTypes, AppendProperties, LenProperties
<1>3. ASSUME NEW i \in 1 .. Len(queue)
      PROVE  Placed(i)'
  <2>1. Placed(i) /\ queue'[i] = queue[i]
    BY <1>1, <1>2 DEF QueueInv
  <2> QED BY <1>1, <2>1 DEF Placed
<1>4. \A i \in DOMAIN queue' : i \in 1 .. Len(queue) \/ i = Len(queue) + 1
  BY <1>1, <1>2
<1> QED BY <1>1, <1>3, <1>4 DEF QueueInv

\* What the last place of a grown channel is.
LEMMA LastPlace ==
  ASSUME HandoffInv, NEW m \in Messages, queue' = Append(queue, m),
         UNCHANGED <<worker, events>>
  PROVE  /\ queue'[Len(queue) + 1] = m /\ Len(queue') = Len(queue) + 1
         /\ Passed' = Passed /\ SentPackets' = SentPackets + 1
         /\ Passed' + Len(queue') = SentPackets + 1
         /\ SentPackets \in Int /\ captured \in Nat /\ Len(queue) \in Nat
         /\ Passed' \in Int /\ Len(queue') \in Int
<1>1. queue'[Len(queue) + 1] = m /\ Len(queue') = Len(queue) + 1
  BY QueueTypes, AppendProperties
<1>2. Passed' = Passed
  BY DEF Passed
<1> QED BY <1>1, <1>2, QueueTypes DEF SentPackets

\* So do the capture thread's steps, its panic and the device's notifications.
LEMMA CaptureKeepsQueue ==
  ASSUME HandoffInv, QueueInv,
         CaptureNext \/ CapturePanics \/ \E end \in SignalledEnds : Notify(end)
  PROVE  QueueInv'
<1>1. UNCHANGED <<worker, resume, events>> /\ Taking' = Taking
  BY DEF CaptureNext, OpenSource, StartStream, SendStarted, Poll, DeviceDrained,
         ReadPacket, SendPacket, SendEnded, Release, SendFailed, CapturePanics, Notify,
         workerVars, Taking, Accepting
<1>2. /\ SentPackets \in Int /\ captured \in Nat /\ Len(queue) \in Nat
      /\ queue' = queue => SentPackets' = SentPackets
  BY <1>1, QueueTypes DEF SentPackets, Passed
<1>3. ASSUME queue' = queue, captured' = captured,
             capture \notin {"Releasing", "Done", "Panicked"}, Taking => CountInv'
      PROVE  QueueInv'
  <2>1. UNCHANGED <<worker, resume, events, queue>>
    BY <1>1, <1>3
  <2>2. captured' \in Nat /\ captured <= captured'
    BY <1>2, <1>3
  <2> QED BY <1>3, <2>1, <2>2, ReadingKeepsQueue
<1>4. CASE OpenSource \/ StartStream
  <2>1. Taking => CountInv'
    BY <1>2, <1>4 DEF OpenSource, StartStream, FailWith, QueueInv, CountInv, FailureKinds
  <2> QED BY <1>3, <1>4, <2>1 DEF OpenSource, StartStream
<1>5. CASE SendStarted
  <2>1. CASE queue' = queue
    <3>1. Taking => CountInv'
      BY <1>2, <1>5, <2>1 DEF SendStarted, FailWith, QueueInv, CountInv, FailureKinds
    <3> QED BY <1>3, <1>5, <2>1, <3>1 DEF SendStarted
  <2>2. CASE queue' = Append(queue, StartedMessage)
    <3>1. StartedMessage \in Messages /\ StartedMessage.kind = "Started"
      BY DEF StartedMessage, Messages
    <3>2. captured' = captured /\ capture = "Starting" /\ capture' \in {"Polling", "Failing"}
      BY <1>5 DEF SendStarted, FailWith
    <3>3. Taking => captured = 0 /\ SentPackets = -1
      BY <3>2 DEF QueueInv, CountInv
    <3>4. Taking => Placed(Len(queue))' /\ CountInv'
      BY <1>1, <2>2, <3>1, <3>2, <3>3, LastPlace DEF Placed, CountInv
    <3> QED BY <1>1, <2>2, <3>1, <3>2, <3>4, SendingKeepsQueue
  <2> QED BY <1>5, <2>1, <2>2 DEF SendStarted
<1>6. CASE Poll \/ DeviceDrained
  <2>1. Taking => CountInv'
    BY <1>2, <1>6 DEF Poll, DeviceDrained, Terminate, EndWith, SignalledEnds, sharedVars,
                      QueueInv, CountInv, Missing
  <2> QED BY <1>3, <1>6, <2>1 DEF Poll, DeviceDrained, sharedVars
<1>7. CASE ReadPacket
  <2>1. /\ captured' \in {captured, captured + 1} /\ capture = "Reading"
        /\ UNCHANGED <<worker, resume, events, queue>>
    BY <1>1, <1>7 DEF ReadPacket
  <2>2. Taking => CountInv'
    BY <1>2, <1>7 DEF ReadPacket, Terminate, EndWith, SignalledEnds, DeviceErrorEnds,
                      QueueInv, CountInv, Missing, Taking, Accepting, ProcessingAlive
  <2>3. captured' \in Nat /\ captured <= captured'
    BY <1>2, <2>1
  <2> QED BY <2>1, <2>2, <2>3, ReadingKeepsQueue
<1>8. CASE SendPacket
  <2>1. capture = "Holding" /\ captured' = captured
    BY <1>8 DEF SendPacket
  <2>2. CASE queue' = queue /\ capture' # "Reading"
    <3>1. Taking => CountInv'
      BY <1>2, <1>8, <2>2 DEF SendPacket, Terminate, EndWith, SignalledEnds, QueueInv,
         CountInv, Missing, Taking, Accepting, ProcessingAlive, HandoffInv, LifetimeInv
    <3> QED BY <1>3, <2>1, <2>2, <3>1
  <2>3. CASE queue' = Append(queue, PacketMessage(captured)) /\ capture' = "Reading"
    <3>1. /\ PacketMessage(captured) \in Messages
          /\ PacketMessage(captured).kind = "Packet"
          /\ PacketMessage(captured).number = captured
      BY <1>2 DEF PacketMessage, Messages
    <3>2. Taking => captured = SentPackets + 1 /\ 1 <= captured
      BY <2>1 DEF QueueInv, CountInv
    <3>3. Taking => Placed(Len(queue))' /\ CountInv'
      BY <1>1, <2>1, <2>3, <3>1, <3>2, LastPlace DEF Placed, CountInv
    <3> QED BY <1>1, <2>1, <2>3, <3>1, <3>3, SendingKeepsQueue
  <2> QED BY <1>8, <2>2, <2>3 DEF SendPacket, Terminate, EndWith
<1>9. CASE SendEnded
  <2>1. CASE ~ ProcessingAlive
    <3>1. ~ Taking
      BY <1>9, <2>1 DEF SendEnded, Taking, Accepting, ProcessingAlive, HandoffInv,
                        LifetimeInv
    <3> QED BY <1>1, <3>1 DEF QueueInv
  <2>2. CASE queue' = Append(queue, EndedMessage(termination)) /\ capture' = "Releasing"
    <3>1. capture = "Ending" /\ captured' = captured
      BY <1>9 DEF SendEnded
    <3>2. /\ EndedMessage(termination) \in Messages
          /\ EndedMessage(termination).kind = "Ended"
          /\ EndedMessage(termination).end = termination
      BY <3>1 DEF EndedMessage, Messages, HandoffInv, ThreadTypes
    <3>3. Taking => captured - SentPackets \in Missing(termination)
      BY <3>1 DEF QueueInv, CountInv
    <3>4. Taking => Placed(Len(queue))' /\ CountInv'
      <4>1. /\ queue'[Len(queue')] = EndedMessage(termination) /\ captured' = captured
            /\ Passed' \in Int /\ Len(queue') \in Int
            /\ Passed' + Len(queue') = SentPackets + 1 /\ SentPackets \in Int
        BY <1>1, <2>2, <3>1, <3>2, LastPlace
      <4>2. Taking => Placed(Len(queue))'
        BY <2>2, <3>2, <3>3, <4>1 DEF Placed
      <4> QED BY <2>2, <4>2 DEF CountInv
    <3> QED BY <1>1, <2>2, <3>1, <3>2, <3>4, SendingKeepsQueue
  <2> QED BY <1>9, <2>1, <2>2 DEF SendEnded
<1>10. CASE SendFailed
  <2>1. capture = "Failing" /\ captured' = captured /\ capture' = "Done"
    BY <1>10 DEF SendFailed
  <2>2. CASE ~ ProcessingAlive
    <3>1. ~ Taking
      BY <1>10, <2>2 DEF SendFailed, Taking, Accepting, ProcessingAlive, HandoffInv,
                         LifetimeInv
    <3> QED BY <1>1, <3>1 DEF QueueInv
  <2>3. CASE queue' = Append(queue, FailedMessage(termination))
    <3>1. /\ FailedMessage(termination) \in Messages
          /\ FailedMessage(termination).kind = "Failed"
      BY <2>1 DEF FailedMessage, Messages, HandoffInv, ThreadTypes
    <3>2. Taking => captured = 0 /\ SentPackets \in {-1, 0}
      BY <2>1 DEF QueueInv, CountInv
    <3>3. Taking => Placed(Len(queue))' /\ CountInv'
      <4>1. /\ queue'[Len(queue')] = FailedMessage(termination) /\ captured' = captured
            /\ Passed' \in Int /\ Len(queue') \in Int
            /\ Passed' + Len(queue') = SentPackets + 1 /\ SentPackets \in Int
        BY <1>1, <2>1, <2>3, <3>1, LastPlace
      <4>2. Taking => Placed(Len(queue))'
        BY <2>1, <3>1, <3>2, <4>1 DEF Placed
      <4> QED BY <2>1, <4>2 DEF CountInv
    <3> QED BY <1>1, <2>1, <2>3, <3>1, <3>3, SendingKeepsQueue
  <2> QED BY <1>10, <2>2, <2>3 DEF SendFailed
<1>11. CASE Release \/ CapturePanics
  <2>1. /\ captured' = captured /\ queue' = queue /\ capture' \in {"Done", "Panicked"}
    BY <1>11 DEF Release, CapturePanics
  <2>2. CountInv'
    BY <2>1 DEF CountInv
  <2> QED BY <1>1, <1>2, <2>1, <2>2, ReadingKeepsQueue
<1>12. CASE \E end \in SignalledEnds : Notify(end)
  <2>1. UNCHANGED <<queue, capture, captured, termination>> /\ Passed' = Passed
    BY <1>1, <1>12 DEF Notify, captureVars, Passed
  <2> QED BY <1>1, <2>1, MovingKeepsQueue
<1> QED BY <1>4, <1>5, <1>6, <1>7, <1>8, <1>9, <1>10, <1>11, <1>12 DEF CaptureNext

\* Every step keeps the packets in a row, from the capture to the consumer.
LEMMA QueueInvStays ==
  ASSUME HandoffInv, TellInv, QueueInv, [Next]_vars
  PROVE  QueueInv'
<1>1. CASE OwnerNext \/ UNCHANGED vars
  <2>1. /\ UNCHANGED <<queue, capture, captured, termination, events, resume>>
        /\ worker' = worker \/ (worker = "NotSpawned" /\ worker' = "Spawning")
    BY <1>1 DEF OwnerNext, Start, RequestStop, ShutdownInert, WaitForCompletion, Drop,
                DropJoinsWorker, HandoffInv, LifetimeInv, vars, workerVars, captureVars,
                sharedVars
  <2>2. Taking' => Taking /\ Passed' = Passed
    BY <2>1 DEF Taking, Accepting, Passed
  <2> QED BY <2>1, <2>2, MovingKeepsQueue
<1>2. CASE WorkerNext \/ CallbackPanics
  BY <1>2, WorkerKeepsQueue
<1>3. CASE CaptureNext \/ CapturePanics \/ \E end \in SignalledEnds : Notify(end)
  BY <1>3, CaptureKeepsQueue
<1> QED BY <1>1, <1>2, <1>3 DEF Next

-----------------------------------------------------------------------------
(* The report.                                                             *)

\* The counts that a report compares are numbers.
LEMMA ReportTypes ==
  ASSUME HandoffInv
  PROVE  PacketsTold \in Nat /\ captured \in Nat
BY SequencesAreTyped, HavingIsFinite DEF PacketsTold, HandoffInv, ThreadTypes

\* While a worker that still receives is streamed to, it has told what it took.
LEMMA ToldIsPassed ==
  ASSUME HandoffInv, TellInv, QueueInv, worker = "Receiving"
  PROVE  /\ PacketsTold = Passed /\ Passed \in Nat /\ Passed <= captured
         /\ Taking /\ Passed = Len(events) - 1
<1>1. Streaming /\ Taking
  BY DEF TellInv, Taking, Accepting
<1>2. PacketsTold = Len(events) - 1 /\ Len(events) \in Nat \ {0}
  BY <1>1, SequencesAreTyped, ToldWhileStreaming
<1> QED BY <1>1, <1>2 DEF Passed, QueueInv

\* A step of the capture thread that tells nothing keeps what is reported.
LEMMA ReadingKeepsReport ==
  ASSUME HandoffInv, ReportInv,
         UNCHANGED <<worker, result, pending, resume, events>>,
         captured' \in Nat, captured <= captured',
         \/ captured' = captured /\ capture' = capture
         \/ captured' = captured /\ capture' \in {"Releasing", "Done", "Panicked"}
         \/ capture \notin {"Releasing", "Done", "Panicked"}
  PROVE  ReportInv'
<1>1. PacketsTold' = PacketsTold /\ Taking' = Taking
  BY DEF PacketsTold, Taking, Accepting
<1> QED BY <1>1, ReportTypes DEF ReportInv

\* The capture thread's steps keep what is reported.
LEMMA CaptureKeepsReport ==
  ASSUME HandoffInv, ReportInv,
         CaptureNext \/ CapturePanics \/ \E end \in SignalledEnds : Notify(end)
  PROVE  ReportInv'
<1>1. UNCHANGED <<worker, result, pending, resume, events>>
  BY DEF CaptureNext, OpenSource, StartStream, SendStarted, Poll, DeviceDrained,
         ReadPacket, SendPacket, SendEnded, Release, SendFailed, CapturePanics, Notify,
         workerVars
<1>2. captured' \in {captured, captured + 1}
  BY DEF CaptureNext, OpenSource, StartStream, SendStarted, Poll, DeviceDrained,
         ReadPacket, SendPacket, SendEnded, Release, SendFailed, CapturePanics, Notify,
         captureVars
<1>3. \/ captured' = captured /\ capture' = capture
      \/ captured' = captured /\ capture' \in {"Releasing", "Done", "Panicked"}
      \/ capture \notin {"Releasing", "Done", "Panicked"}
  BY DEF CaptureNext, OpenSource, StartStream, SendStarted, Poll, DeviceDrained,
         ReadPacket, SendPacket, SendEnded, Release, SendFailed, CapturePanics, Notify,
         captureVars
<1>4. captured' \in Nat /\ captured <= captured'
  BY <1>2, ReportTypes
<1> QED BY <1>1, <1>3, <1>4, ReadingKeepsReport

\* The end that arrives is reported as the consumer is told it.
LEMMA EndKeepsReport ==
  ASSUME HandoffInv, TellInv, QueueInv, ReceiveEnd
  PROVE  ReportInv'
<1>1. /\ worker = "Receiving" /\ UNCHANGED <<events, capture, captured>>
      /\ PacketsTold' = PacketsTold
  BY DEF ReceiveEnd, captureVars, PacketsTold
<1>2. PacketsTold = Passed /\ Passed \in Nat /\ Passed <= captured /\ Taking
  BY <1>1, ToldIsPassed
<1>3. ASSUME queue # <<>>, Head(queue).kind \in {"Ended", "Failed"}
      PROVE  Placed(1) /\ queue[1] = Head(queue)
  BY <1>2, <1>3, MessagesAreTyped DEF QueueInv
<1>4. CASE Received("Ended") /\ DeliverThen(ContractEnd(Head(queue).end), "Closing")
  <2>1. queue # <<>> /\ Head(queue).kind = "Ended"
    BY <1>4 DEF Received
  <2>2. /\ capture \in {"Releasing", "Done", "Panicked"}
        /\ captured - (Passed + 1 - 1) \in Missing(Head(queue).end)
    BY <1>3, <2>1 DEF Placed
  <2>3. result' = Finished(Head(queue).end)
    BY <2>1 DEF ReceiveEnd, Received, ReturnWith, DeliverThen, ChannelClosed
  <2>4. result'.end = Head(queue).end
    BY <2>3 DEF Finished
  <2>5. worker' = "Delivering" /\ pending' = ContractEnd(Head(queue).end)
    BY <1>4 DEF DeliverThen
  <2> QED BY <1>1, <1>2, <2>2, <2>4, <2>5 DEF ReportInv
<1>5. CASE Received("Failed") /\ DeliverThen(FailedWith(Head(queue).failure), "Closing")
  <2>1. queue # <<>> /\ Head(queue).kind = "Failed"
    BY <1>5 DEF Received
  <2>2. /\ capture \in {"Releasing", "Done", "Panicked"}
        /\ captured = 0 /\ Passed + 1 - 1 \in {-1, 0}
    BY <1>3, <2>1 DEF Placed
  <2>3. result' = Finished("Failed")
    BY <2>1 DEF ReceiveEnd, Received, ReturnWith, DeliverThen, ChannelClosed
  <2>4. result'.end = "Failed" /\ Missing("Failed") = {0}
    BY <2>3 DEF Finished, Missing
  <2>5. worker' = "Delivering" /\ pending' = FailedWith(Head(queue).failure)
    BY <1>5 DEF DeliverThen
  <2>6. Last(pending') = EndedEvent("Failed") /\ Last(ContractEnd("Failed")) = EndedEvent("Failed")
    BY <2>5 DEF FailedWith, ContractEnd, Last
  <2>7. captured - PacketsTold = 0
    BY <1>2, <2>2
  <2> QED BY <1>1, <1>2, <2>2, <2>4, <2>5, <2>6, <2>7 DEF ReportInv
<1>6. CASE result' = RunFailed("ChannelClosed")
  BY <1>6 DEF RunFailed, ReportInv
<1> QED BY <1>4, <1>5, <1>6 DEF ReceiveEnd, ReturnWith

\* A delivery keeps what is reported.
LEMMA DeliveryKeepsReport ==
  ASSUME HandoffInv, TellInv, ReportInv, Deliver
  PROVE  ReportInv'
<1>1. /\ worker = "Delivering" /\ events' = Append(events, Head(pending))
      /\ UNCHANGED <<result, capture, captured>> /\ pending # <<>>
      /\ pending \in Seq(Events) /\ events \in Seq(Events)
      /\ resume \in {"Receiving", "Draining", "Closing"}
  BY SequencesAreTyped DEF Deliver, captureVars, HandoffInv, DeliveryInv
<1>2. CASE resume = "Receiving"
  <2>1. Len(pending) = 1
    BY <1>1, <1>2 DEF TellInv
  <2>2. Taking'
    BY <1>2, <2>1 DEF Deliver, Taking, Accepting
  <2> QED BY <2>2 DEF ReportInv
<1>3. CASE resume # "Receiving"
  <2>1. Head(pending) \in Events /\ Head(pending).kind # "Data"
    BY <1>1, <1>3, EventKinds DEF TellInv, Contract!CleanReasons, EndReasons
  <2>2. PacketsTold' = PacketsTold /\ events' # <<>> /\ Last(events') = Head(pending)
    BY <1>1, <2>1, ToldOneMore
  <2>3. ~ Taking
    BY <1>1, <1>3 DEF Taking, Accepting
  <2>4. CASE Len(pending) = 1
    <3>1. Last(pending) = Head(pending)
      BY <1>1, <2>4 DEF Last
    <3>2. worker' # "Delivering"
      BY <1>1, <1>3, <2>4 DEF Deliver
    <3> QED BY <1>1, <2>2, <2>3, <3>1, <3>2 DEF ReportInv
  <2>5. CASE Len(pending) # 1
    <3>1. pending' = Tail(pending) /\ UNCHANGED <<worker, resume>>
      BY <2>5 DEF Deliver
    <3>2. Last(Tail(pending)) = Last(pending)
      <4> DEFINE n == Len(pending) - 1
      <4>1. n \in Nat \ {0} /\ n + 1 = Len(pending)
        BY <1>1, <2>5, LenProperties, EmptySeq
      <4>2. Len(Tail(pending)) = n /\ \A i \in 1 .. n : Tail(pending)[i] = pending[i + 1]
        BY <1>1, RestOf
      <4> HIDE DEF n
      <4> QED BY <4>1, <4>2 DEF Last
    <3> QED BY <1>1, <2>2, <2>3, <3>1, <3>2 DEF ReportInv
  <2> QED BY <2>4, <2>5
<1> QED BY <1>2, <1>3

\* Every step keeps what is reported in line with what was told.
LEMMA ReportInvStays ==
  ASSUME HandoffInv, TellInv, QueueInv, ReportInv, [Next]_vars
  PROVE  ReportInv'
<1>1. CASE OwnerNext \/ UNCHANGED vars
  <2>1. /\ UNCHANGED <<result, pending, resume, events, capture, captured>>
        /\ worker' = worker \/ (worker = "NotSpawned" /\ worker' = "Spawning")
    BY <1>1 DEF OwnerNext, Start, RequestStop, ShutdownInert, WaitForCompletion, Drop,
                DropJoinsWorker, HandoffInv, LifetimeInv, vars, workerVars, captureVars
  <2>2. CASE worker' = worker
    BY <2>1, <2>2, ReportTypes, ReadingKeepsReport
  <2>3. CASE worker' = "Spawning"
    BY <2>3 DEF ReportInv, Taking
  <2> QED BY <2>1, <2>2, <2>3
<1>2. CASE SpawnCapture \/ ReceiveFirst \/ RecycleFails \/ ReceivePacket \/ CallbackPanics
  <2>1. \A k : RunFailed(k).status # "Finished"
    BY DEF RunFailed
  <2>2. Panicked.status # "Finished"
    BY DEF Panicked
  <2>3. Taking' \/ result' = Panicked \/ \E k : result' = RunFailed(k)
    BY <1>2 DEF SpawnCapture, ReceiveFirst, RecycleFails, ReceivePacket, CallbackPanics,
                ReturnWith, DeliverThen, Taking, Accepting
  <2> QED BY <2>1, <2>2, <2>3 DEF ReportInv
<1>3. CASE ReceiveBadPacket
  <2>1. /\ worker = "Receiving" /\ events' = events /\ UNCHANGED captureVars
        /\ result' = Finished("DataDiscontinuity") /\ worker' = "Delivering"
        /\ pending' = FailedWith("StreamInterrupted")
    BY <1>3 DEF ReceiveBadPacket, DeliverThen
  <2>2. PacketsTold' = PacketsTold /\ captured' = captured
    BY <2>1 DEF PacketsTold, captureVars
  <2>3. PacketsTold <= captured
    BY <2>1, ToldIsPassed
  <2>4. result'.end = "DataDiscontinuity"
    BY <2>1 DEF Finished
  <2>5. ContractEnd("DataDiscontinuity") = FailedWith("StreamInterrupted")
    BY DEF ContractEnd
  <2> QED BY <2>1, <2>2, <2>3, <2>4, <2>5 DEF ReportInv
<1>4. CASE ReceiveEnd
  BY <1>4, EndKeepsReport
<1>5. CASE Deliver
  BY <1>5, DeliveryKeepsReport
<1>6. CASE Drain \/ CloseCapture \/ JoinCapture
  <2>1. /\ UNCHANGED <<pending, events, capture, captured>> /\ PacketsTold' = PacketsTold
        /\ worker \in {"Draining", "Closing", "Joining"}
        /\ worker' \in {"Draining", "Closing", "Joining", "Exited"}
        /\ result' = result \/ result' = RunFailed("ThreadPanicked")
    BY <1>6 DEF Drain, CloseCapture, JoinCapture, ReturnWith, captureVars, PacketsTold
  <2>2. RunFailed("ThreadPanicked").status # "Finished"
    BY DEF RunFailed
  <2>3. ~ Taking
    BY <2>1 DEF Taking, Accepting
  <2> QED BY <2>1, <2>2, <2>3 DEF ReportInv
<1>7. CASE CaptureNext \/ CapturePanics \/ \E end \in SignalledEnds : Notify(end)
  BY <1>7, CaptureKeepsReport
<1> QED BY <1>1, <1>2, <1>3, <1>4, <1>5, <1>6, <1>7 DEF Next, WorkerNext

-----------------------------------------------------------------------------
(* The pool.                                                               *)

\* The worker's steps keep every buffer in its place.
LEMMA WorkerKeepsPool ==
  ASSUME HandoffInv, TellInv, QueueInv, PoolInv, WorkerNext \/ CallbackPanics
  PROVE  PoolInv'
<1>1. CASE SpawnCapture
  BY <1>1 DEF SpawnCapture, PoolInv, Accepting, sharedVars
<1>2. CASE ReceiveFirst \/ ReceivePacket
  <2>1. worker \in {"AwaitStarted", "Receiving"} /\ UNCHANGED capture
    BY <1>2 DEF ReceiveFirst, ReceivePacket, captureVars
  <2>2. ASSUME queue # <<>>, queue' = Tail(queue)
        PROVE  Len(queue') = Len(queue) - 1 /\ Len(queue) \in Nat
    BY <2>2, QueueTypes, RestOf
  <2>3. CASE ReceivePacket
    <3>1. capture # "Starting"
      <4>1. worker = "Receiving"
        BY <2>3 DEF ReceivePacket
      <4>2. Taking /\ Passed \in Nat
        BY <4>1, ToldIsPassed
      <4> QED BY <4>2, QueueTypes DEF QueueInv, CountInv, SentPackets
    <3> QED BY <2>1, <2>2, <2>3, <3>1
            DEF ReceivePacket, Received, DeliverThen, PoolInv, Accepting
  <2>4. CASE ReceiveFirst
    BY <2>1, <2>2, <2>4
    DEF ReceiveFirst, Received, DeliverThen, ReturnWith, PoolInv, Accepting
  <2> QED BY <1>2, <2>3, <2>4
<1>3. CASE ReceiveBadPacket
  <2>1. worker = "Receiving" /\ pool' = pool + 1 /\ UNCHANGED capture /\ ~ Accepting'
    BY <1>3 DEF ReceiveBadPacket, DeliverThen, captureVars, Accepting
  <2>2. capture # "Starting"
    <3>1. Taking /\ Passed \in Nat
      BY <2>1, ToldIsPassed
    <3> QED BY <3>1, QueueTypes DEF QueueInv, CountInv, SentPackets
  <2> QED BY <2>1, <2>2 DEF PoolInv
<1>4. CASE RecycleFails \/ ReceiveEnd \/ CallbackPanics
  <2>1. ~ Accepting' /\ UNCHANGED <<pool, capture>>
    BY <1>4 DEF RecycleFails, ReceiveEnd, CallbackPanics, DeliverThen, ReturnWith,
                Accepting, captureVars
  <2> QED BY <2>1 DEF PoolInv
<1>5. CASE Deliver
  <2>1. /\ UNCHANGED <<pool, capture>> /\ worker = "Delivering"
        /\ resume \in {"Receiving", "Draining", "Closing"}
    BY <1>5 DEF Deliver, captureVars, HandoffInv, DeliveryInv
  <2>2. CASE resume = "Receiving"
    <3>1. Len(pending) = 1
      BY <2>1, <2>2 DEF TellInv
    <3> QED BY <1>5, <2>1, <2>2, <3>1 DEF Deliver, PoolInv, Accepting
  <2>3. CASE resume # "Receiving"
    BY <1>5, <2>1, <2>3 DEF Deliver, PoolInv, Accepting
  <2> QED BY <2>2, <2>3
<1>6. CASE Drain \/ CloseCapture \/ JoinCapture
  <2>1. ~ Accepting' /\ UNCHANGED <<pool, capture>>
    BY <1>6 DEF Drain, CloseCapture, JoinCapture, ReturnWith, Accepting, captureVars,
                sharedVars
  <2> QED BY <2>1 DEF PoolInv
<1> QED BY <1>1, <1>2, <1>3, <1>4, <1>5, <1>6 DEF WorkerNext

\* So do the capture thread's steps.
LEMMA CaptureKeepsPool ==
  ASSUME HandoffInv, TellInv, QueueInv, PoolInv,
         CaptureNext \/ CapturePanics \/ \E end \in SignalledEnds : Notify(end)
  PROVE  PoolInv'
<1>1. UNCHANGED <<worker, resume>> /\ Accepting' = Accepting /\ HandoffCapacity \in Nat
  BY HandoffAssumption DEF CaptureNext, OpenSource, StartStream, SendStarted, Poll,
     DeviceDrained, ReadPacket, SendPacket, SendEnded, Release, SendFailed, CapturePanics,
     Notify, workerVars, Accepting
<1>2. \A m : Len(Append(queue, m)) = Len(queue) + 1 /\ Len(queue) \in Nat
  BY QueueTypes, AppendProperties, LenProperties
<1>3. CASE OpenSource \/ StartStream \/ SendEnded \/ Release \/ SendFailed
             \/ CapturePanics \/ \E end \in SignalledEnds : Notify(end)
  BY <1>1, <1>3 DEF OpenSource, StartStream, SendEnded, Release, SendFailed,
     CapturePanics, Notify, FailWith, PoolInv, captureVars
<1>4. CASE SendStarted
  <2>1. capture = "Starting"
    BY <1>4 DEF SendStarted
  <2>2. Accepting => worker = "AwaitStarted" /\ Len(queue) = 0
    <3> SUFFICES ASSUME Accepting PROVE worker = "AwaitStarted" /\ Len(queue) = 0
      OBVIOUS
    <3>1. SentPackets = -1 /\ Taking
      BY <2>1 DEF QueueInv, CountInv, Taking
    <3>2. Passed >= -1 /\ (worker # "AwaitStarted" => Passed >= 0)
      <4>1. CASE worker = "Receiving"
        BY <4>1, ToldIsPassed
      <4>2. CASE worker # "Receiving"
        BY <4>2, QueueTypes DEF Passed, Accepting
      <4> QED BY <4>1, <4>2
    <3> QED BY <3>1, <3>2, QueueTypes DEF SentPackets
  <2> QED BY <1>1, <1>2, <1>4, <2>1, <2>2 DEF SendStarted, FailWith, PoolInv
<1>5. CASE Poll \/ DeviceDrained
  BY <1>1, <1>5 DEF Poll, DeviceDrained, Terminate, EndWith, PoolInv, sharedVars
<1>6. CASE ReadPacket
  BY <1>1, <1>2, <1>6 DEF ReadPacket, Terminate, EndWith, PoolInv
<1>7. CASE SendPacket
  BY <1>1, <1>2, <1>7 DEF SendPacket, Terminate, EndWith, PoolInv
<1> QED BY <1>3, <1>4, <1>5, <1>6, <1>7 DEF CaptureNext

\* Every step keeps every buffer in its place.
LEMMA PoolInvStays ==
  ASSUME HandoffInv, TellInv, QueueInv, PoolInv, [Next]_vars
  PROVE  PoolInv'
<1>1. CASE OwnerNext \/ UNCHANGED vars
  <2>1. /\ UNCHANGED <<resume, capture, queue, pool>>
        /\ worker' = worker \/ (worker = "NotSpawned" /\ worker' = "Spawning")
    BY <1>1 DEF OwnerNext, Start, RequestStop, ShutdownInert, WaitForCompletion, Drop,
                DropJoinsWorker, HandoffInv, LifetimeInv, vars, workerVars, captureVars,
                sharedVars
  <2> QED BY <2>1 DEF PoolInv, Accepting
<1>2. CASE WorkerNext \/ CallbackPanics
  BY <1>2, WorkerKeepsPool
<1>3. CASE CaptureNext \/ CapturePanics \/ \E end \in SignalledEnds : Notify(end)
  BY <1>3, CaptureKeepsPool
<1> QED BY <1>1, <1>2, <1>3 DEF Next

-----------------------------------------------------------------------------
(* The whole invariant holds.                                              *)

\* The invariant of the stream holds at the beginning.
LEMMA StreamInvBegins == Init => StreamInv
<1> SUFFICES ASSUME Init PROVE StreamInv
  OBVIOUS
<1>1. HandoffInv /\ ResultInv
  BY HandoffInvBegins, ResultInvBegins
<1>2. TellInv /\ Taking
  BY DEF Init, TellInv, Taking
<1>3. Passed = -1 /\ SentPackets = -1 /\ DOMAIN queue = {}
  BY DEF Init, Passed, SentPackets
<1>4. QueueInv
  BY <1>3 DEF Init, QueueInv, CountInv
<1>5. ReportInv /\ PoolInv
  BY <1>2 DEF Init, ReportInv, PoolInv, Accepting
<1> QED BY <1>1, <1>2, <1>4, <1>5 DEF StreamInv

\* Every step keeps the invariant of the stream.
LEMMA StreamInvStays == StreamInv /\ [Next]_vars => StreamInv'
BY HandoffInvStays, ResultInvStays, TellInvStays, QueueInvStays, ReportInvStays,
   PoolInvStays
DEF StreamInv

\* The invariant of the stream always holds.
LEMMA StreamInvHolds == Spec => []StreamInv
BY StreamInvBegins, StreamInvStays, PTL DEF Spec

-----------------------------------------------------------------------------
(* The theorems.                                                           *)

\* A holder that has a completion, or has dropped the owner, has both threads
\* behind it: no callback follows and no capture resource is left, whatever
\* failed, panicked or came too late.
THEOREM ReleasedFirst == Spec => []ReleasedBeforeCompletion
<1>1. HandoffInv => ReleasedBeforeCompletion
  BY DEF HandoffInv, DeliveryInv, LifetimeInv, WorkerGone, CaptureGone,
         ReleasedBeforeCompletion
<1> QED BY <1>1, HandoffInvHolds, PTL

\* The consumer hears of a provider's shutdown only when the holder asked for it:
\* though the worker raises the same token, it has given up receiving by then.
THEOREM ShutdownWasAsked == Spec => []ShutdownOnlyWhenAsked
<1>1. HandoffInv => ShutdownOnlyWhenAsked
  <2> SUFFICES ASSUME HandoffInv, NEW i \in DOMAIN events,
                      events[i] = EndedEvent("ProviderShutdown")
               PROVE  "Owner" \in stop
    BY DEF ShutdownOnlyWhenAsked, ToSet
  <2>1. events[i] \in FairEvents
    BY DEF HandoffInv, StopInv
  <2> QED BY <2>1 DEF FairEvents, Asked
<1> QED BY <1>1, HandoffInvHolds, PTL

\* Until an end, a rejected packet or a panic no buffer leaks: each is free, in a
\* queued packet or in the WASAPI thread's hands, so a recycled buffer always finds
\* its slot.
THEOREM BuffersStay == Spec => []BuffersConserved
<1>1. StreamInv => BuffersConserved
  <2> SUFFICES ASSUME StreamInv, Accepting, capture \in {"Polling", "Reading", "Holding"}
               PROVE  pool + Cardinality(Having(queue, "Packet"))
                        + (IF capture = "Holding" THEN 1 ELSE 0) = HandoffCapacity
    BY DEF BuffersConserved
  <2>1. HandoffInv /\ TellInv /\ QueueInv /\ Taking
    BY DEF StreamInv, Taking
  <2>2. /\ Len(queue) \in Nat /\ DOMAIN queue = 1 .. Len(queue) /\ captured \in Nat
        /\ \A i \in DOMAIN queue : queue[i].kind \in {"Started", "Packet", "Ended", "Failed"}
        /\ SentPackets = Passed + Len(queue) /\ Len(events) \in Nat
    BY <2>1, QueueTypes, ElementOfSeq DEF SentPackets
  <2>3. \A i \in DOMAIN queue :
          /\ queue[i].kind = "Packet" => 1 <= Passed + i
          /\ queue[i].kind = "Started" => Passed + i = 0
          /\ queue[i].kind \notin {"Ended", "Failed"}
    BY <2>1 DEF QueueInv, Placed
  <2>4. CASE worker = "AwaitStarted"
    <3>1. Passed = -1
      BY <2>1, <2>4 DEF TellInv, Passed
    <3>2. Len(queue) >= 1
      <4>1. SentPackets >= 0 /\ SentPackets \in Int
        BY <2>1, <2>2, QueueTypes DEF QueueInv, CountInv
      <4> QED BY <2>2, <3>1, <4>1
    <3>3. Having(queue, "Packet") = 2 .. Len(queue)
      BY <2>2, <2>3, <3>1 DEF Having
    <3>4. Cardinality(Having(queue, "Packet")) = Len(queue) - 1
      BY <2>2, <3>2, <3>3, FS_Interval
    <3> QED BY <2>2, <2>4, <3>4 DEF StreamInv, PoolInv
  <2>5. CASE worker # "AwaitStarted"
    <3>1. Passed \in Nat
      <4>1. CASE worker = "Receiving"
        BY <2>1, <4>1, ToldIsPassed
      <4>2. CASE worker # "Receiving"
        BY <2>2, <2>5, <4>2 DEF Passed, Accepting
      <4> QED BY <4>1, <4>2
    <3>2. Having(queue, "Packet") = 1 .. Len(queue)
      BY <2>2, <2>3, <3>1 DEF Having
    <3>3. Cardinality(Having(queue, "Packet")) = Len(queue)
      BY <2>2, <3>2, CountFromOne
    <3> QED BY <2>2, <2>5, <3>3 DEF StreamInv, PoolInv
  <2> QED BY <2>4, <2>5
<1> QED BY <1>1, StreamInvHolds, PTL

\* A completion that says how the stream finished says what the consumer was told,
\* and no packet that was read is missing but those that end may leave out.
THEOREM FinishedWasSeen == Spec => []FinishedIsWhatTheConsumerSaw
<1>1. StreamInv => FinishedIsWhatTheConsumerSaw
  <2> SUFFICES ASSUME StreamInv, worker = "Exited", result.status = "Finished"
               PROVE  /\ events # <<>>
                      /\ Last(events) = Last(ContractEnd(result.end))
                      /\ captured - PacketsTold \in
                           CASE result.end = "DataDiscontinuity" -> 0 .. captured
                             [] result.end \in {"StopRequested", "DurationElapsed",
                                                "Failed"} -> {0}
                             [] OTHER -> {0, 1}
    BY DEF FinishedIsWhatTheConsumerSaw
  <2>1. ~ Taking
    BY DEF Taking, Accepting
  <2>2. /\ PacketsTold <= captured
        /\ result.end # "DataDiscontinuity" => captured - PacketsTold \in Missing(result.end)
        /\ events # <<>> /\ Last(events) = Last(ContractEnd(result.end))
    BY <2>1 DEF StreamInv, ReportInv
  <2>3. PacketsTold \in Nat /\ captured \in Nat
    BY ReportTypes DEF StreamInv
  <2>4. CASE result.end = "DataDiscontinuity"
    BY <2>2, <2>3, <2>4
  <2>5. CASE result.end # "DataDiscontinuity"
    BY <2>2, <2>5 DEF Missing
  <2> QED BY <2>4, <2>5
<1> QED BY <1>1, StreamInvHolds, PTL

\* What the owner tells the consumer is a stream of StreamContract: the packets in
\* order with none left out, then an error at most and the end that goes with it,
\* whatever the threads, the notifications and the holder do.
THEOREM OwnerImplementsContract == Spec => ImplementsStreamContract
<1>1. Init => Contract!Init
  <2> SUFFICES ASSUME Init PROVE Contract!Init
    OBVIOUS
  <2>1. events = <<>> /\ \A kind : ~ Has(events, kind)
    BY HavingOfNone DEF Init
  <2> QED BY <2>1 DEF Contract!Init, ToldStage, ToldPacket, ToldError, ToldReason
<1>2. StreamInv /\ [Next]_vars => [Contract!Next]_(Contract!contractVars)
  BY StepsKeepTheContract DEF StreamInv
<1> QED BY <1>1, <1>2, StreamInvHolds, PTL DEF Spec, ImplementsStreamContract, Contract!Spec

=============================================================================
