--------------------------- MODULE CaptureHandoff ---------------------------
(***************************************************************************)
(* One single-use CaptureOwner and the two threads it owns                 *)
(* (crates/resonance-agent/src/windows.rs).  The WASAPI thread hands       *)
(* packets to the owner's worker through a bounded channel and takes its   *)
(* buffers from a bounded recycle channel; the worker calls the consumer   *)
(* back; the holder of the owner stops it, waits for it or drops it; and   *)
(* device notifications may end the stream at any moment.                  *)
(*                                                                         *)
(* A channel is its queue together with the liveness of its two ends:      *)
(* sending to a channel whose receiver is gone fails, receiving from one   *)
(* whose sender is gone drains it and then fails.                          *)
(***************************************************************************)
EXTENDS EventSequences, SequencesExt

CONSTANTS
  HandoffCapacity,   (* HANDOFF_CAPACITY: slots of both channels           *)
  PacketLimit,       (* bound of the model on packets read from the device *)
  HasDeadline,       (* also RunLimit::Duration, which the diagnostic entry *)
                     (* point runs on its caller's thread without an owner *)
  PanicsPossible,    (* whether the callback and the capture thread panic  *)
  None

ASSUME HandoffAssumption ==
  /\ HandoffCapacity \in Nat \ {0}
  /\ PacketLimit \in Nat
  /\ HasDeadline \in BOOLEAN
  /\ PanicsPossible \in BOOLEAN

CaptureEnds == {"StopRequested", "DurationElapsed", "SourceReconfigured",
                "SourceUnavailable", "Interrupted", "BoundedHandoffExhausted",
                "DataDiscontinuity", "Failed"}
SignalledEnds == {"SourceReconfigured", "SourceUnavailable", "Interrupted"}
\* wasapi_stream_termination and the diagnostics of capture_loop.
DeviceErrorEnds == SignalledEnds \cup {"DataDiscontinuity", "Failed"}
FailureKinds == {"SourceUnavailable", "UnsupportedFormat", "Internal"}
ErrorKinds == FailureKinds \cup {"StreamInterrupted", "ResourceExhausted"}
EndReasons == {"ProviderShutdown", "ConsumerCancelled", "SourceReconfigured",
               "SourceEnded", "Failed"}
RunErrors == FailureKinds \cup
  {"Spawn", "ChannelClosed", "ThreadPanicked", "Protocol"}

Completions ==
  [status: {"StoppedBeforeStart", "StartFailed", "Panicked"}]
    \cup [status: {"Finished"}, end: CaptureEnds]
    \cup [status: {"Failed"}, error: RunErrors]

Finished(end) == [status |-> "Finished", end |-> end]
RunFailed(e)  == [status |-> "Failed", error |-> e]
Panicked      == [status |-> "Panicked"]

-----------------------------------------------------------------------------
VARIABLES
  (* CaptureOwner, as its holder sees it *)
  owner,           (* "Held", "Dropping" (in Drop) or "Dropped"            *)
  start_called,
  completion,      (* retained CaptureOwnerCompletion or None              *)
  stop,            (* the stop token: who has requested the stop           *)
  (* the owner worker: run_capture and process_capture *)
  worker,
  result,          (* what the worker will report                          *)
  pending,         (* events it is about to pass to on_event, in order     *)
  resume,          (* where it continues when `pending` is delivered       *)
  events,          (* events the consumer has been given                   *)
  (* the WASAPI thread *)
  capture,
  captured,        (* packets read from the device                         *)
  termination,     (* the CaptureEnd or the failure kind it will send      *)
  (* what they share *)
  queue,           (* capture_tx .. capture_rx                             *)
  pool,            (* buffers in recycle_tx .. recycle_rx                  *)
  end_signal       (* first end the notifications signalled, or None       *)

ownerVars   == <<owner, start_called, completion>>
workerVars  == <<worker, result, pending, resume, events>>
captureVars == <<capture, captured, termination>>
sharedVars  == <<queue, pool, end_signal>>
vars == <<ownerVars, stop, workerVars, captureVars, sharedVars>>

WorkerStates == {"NotSpawned", "Spawning", "AwaitStarted", "Receiving",
                 "Delivering", "Draining", "Closing", "Joining", "Exited"}
CaptureStates == {"NotSpawned", "Opening", "Registered", "Starting", "Polling",
                  "Reading", "Holding", "Ending", "Releasing", "Failing",
                  "Done", "Panicked"}

Init ==
  /\ owner = "Held" /\ start_called = FALSE /\ completion = None
  /\ stop = {}
  /\ worker = "NotSpawned" /\ result = None
  /\ pending = <<>> /\ resume = None /\ events = <<>>
  /\ capture = "NotSpawned" /\ captured = 0 /\ termination = None
  /\ queue = <<>> /\ pool = 0 /\ end_signal = None

-----------------------------------------------------------------------------
(* The channel ends.                                                       *)

StopRequested == stop # {}

\* process_capture owns capture_rx and, once started, recycle_tx.
ProcessingAlive == worker \in {"AwaitStarted", "Receiving", "Delivering", "Draining"}
\* It takes messages as they come: it has met no end and rejected no packet.
Accepting ==
  \/ worker \in {"AwaitStarted", "Receiving"}
  \/ worker = "Delivering" /\ resume = "Receiving"
\* capture_thread_inner owns recycle_rx from start_stream until it returns.
RecycleReceiverAlive ==
  capture \in {"Starting", "Polling", "Reading", "Holding", "Ending", "Releasing"}
CaptureSenderAlive == capture \notin {"NotSpawned", "Done", "Panicked"}
Room == Len(queue) < HandoffCapacity

StartedMessage       == [kind |-> "Started"]
PacketMessage(n)     == [kind |-> "Packet", number |-> n]
EndedMessage(end)    == [kind |-> "Ended", end |-> end]
FailedMessage(kind)  == [kind |-> "Failed", failure |-> kind]

Messages ==
  [kind: {"Started"}] \cup [kind: {"Packet"}, number: Nat]
    \cup [kind: {"Ended"}, end: CaptureEnds]
    \cup [kind: {"Failed"}, failure: FailureKinds]

StartedEvent      == [kind |-> "Started"]
DataEvent(n)      == [kind |-> "Data", packet |-> n]
ErrorEvent(k)     == [kind |-> "Error", error |-> k]
EndedEvent(r)     == [kind |-> "Ended", reason |-> r]
Events ==
  [kind: {"Started"}] \cup [kind: {"Data"}, packet: Nat]
    \cup [kind: {"Error"}, error: ErrorKinds]
    \cup [kind: {"Ended"}, reason: EndReasons]
FailedWith(k)     == <<ErrorEvent(k), EndedEvent("Failed")>>

\* contract_end: the events that tell the consumer how the stream ended.
ContractEnd(end) ==
  CASE end = "StopRequested"      -> <<EndedEvent("ProviderShutdown")>>
    [] end = "DurationElapsed"    -> <<EndedEvent("ConsumerCancelled")>>
    [] end = "SourceReconfigured" ->
         <<ErrorEvent("StreamInterrupted"), EndedEvent("SourceReconfigured")>>
    [] end = "SourceUnavailable"  ->
         <<ErrorEvent("SourceUnavailable"), EndedEvent("SourceEnded")>>
    [] end \in {"Interrupted", "DataDiscontinuity"} -> FailedWith("StreamInterrupted")
    [] end = "BoundedHandoffExhausted" -> FailedWith("ResourceExhausted")
    [] end = "Failed" -> FailedWith("Internal")

-----------------------------------------------------------------------------
(* The holder of the owner.  A wait or shutdown that times out, or a wait  *)
(* before start, changes nothing and is not an action.                     *)

Start ==
  /\ owner = "Held" /\ ~start_called
  /\ start_called' = TRUE
  /\ IF StopRequested
       THEN /\ completion' = [status |-> "StoppedBeforeStart"]
            /\ UNCHANGED worker
       ELSE \/ worker' = "Spawning" /\ UNCHANGED completion
            \/ completion' = [status |-> "StartFailed"] /\ UNCHANGED worker
  /\ UNCHANGED <<owner, stop, result, pending, resume, events, captureVars,
                 sharedVars>>

RequestStop ==
  /\ owner = "Held"
  /\ stop' = stop \cup {"Owner"}
  /\ UNCHANGED <<ownerVars, workerVars, captureVars, sharedVars>>

\* shutdown before start; on a started owner it is RequestStop and a wait.
ShutdownInert ==
  /\ owner = "Held" /\ ~start_called
  /\ stop' = stop \cup {"Owner"}
  /\ start_called' = TRUE
  /\ completion' = [status |-> "StoppedBeforeStart"]
  /\ UNCHANGED <<owner, workerVars, captureVars, sharedVars>>

\* wait_for_completion receives the result and joins the worker.
WaitForCompletion ==
  /\ owner = "Held" /\ completion = None
  /\ worker = "Exited"
  /\ completion' = result
  /\ UNCHANGED <<owner, start_called, stop, workerVars, captureVars, sharedVars>>

Drop ==
  /\ owner = "Held"
  /\ owner' = "Dropping"
  /\ stop' = stop \cup {"Owner"}
  /\ UNCHANGED <<start_called, completion, workerVars, captureVars, sharedVars>>

DropJoinsWorker ==
  /\ owner = "Dropping"
  /\ worker \in {"NotSpawned", "Exited"}
  /\ owner' = "Dropped"
  /\ UNCHANGED <<start_called, completion, stop, workerVars, captureVars,
                 sharedVars>>

OwnerNext == \/ Start \/ RequestStop \/ ShutdownInert \/ WaitForCompletion
             \/ Drop \/ DropJoinsWorker

-----------------------------------------------------------------------------
(* The owner worker.                                                       *)

\* run_capture spawns the WASAPI thread.
SpawnCapture ==
  /\ worker = "Spawning"
  /\ \/ worker' = "AwaitStarted" /\ capture' = "Opening" /\ UNCHANGED result
     \/ worker' = "Joining" /\ result' = RunFailed("Spawn") /\ UNCHANGED capture
  /\ UNCHANGED <<ownerVars, stop, pending, resume, events, captured, termination,
                 sharedVars>>

\* process_capture returns: capture_rx and what is queued in it are dropped.
ReturnWith(outcome) ==
  /\ worker' = "Closing"
  /\ result' = outcome
  /\ queue' = <<>>
  /\ UNCHANGED <<pending, resume>>

\* Events to call the consumer back with before continuing at `next`.
DeliverThen(batch, next) ==
  /\ worker' = "Delivering"
  /\ pending' = batch
  /\ resume' = next
  /\ queue' = Tail(queue)

Received(kind) == queue # <<>> /\ Head(queue).kind = kind
ChannelClosed  == queue = <<>> /\ ~CaptureSenderAlive

\* The WASAPI thread sends Started or Failed first and Started only once, so
\* the two protocol errors for other orders have no step.
ReceiveFirst ==
  /\ worker = "AwaitStarted"
  /\ \/ /\ Received("Started")
        /\ DeliverThen(<<StartedEvent>>, "Receiving")
        /\ UNCHANGED result
     \/ Received("Failed") /\ ReturnWith(RunFailed(Head(queue).failure))
     \/ ChannelClosed /\ ReturnWith(RunFailed("ChannelClosed"))
  /\ UNCHANGED <<ownerVars, stop, events, captureVars, pool, end_signal>>

\* Defect: the buffer is dropped instead of recycled.
ReceivePacket_NeverRecycles ==
  /\ worker = "Receiving" /\ Received("Packet")
  /\ RecycleReceiverAlive
  /\ DeliverThen(<<DataEvent(Head(queue).number)>>, "Receiving")
  /\ UNCHANGED <<ownerVars, stop, result, events, captureVars, pool, end_signal>>

\* A packet the builder accepts; its buffer is recycled before the callback.
ReceivePacket ==
  /\ worker = "Receiving" /\ Received("Packet")
  /\ RecycleReceiverAlive /\ pool < HandoffCapacity
  /\ pool' = pool + 1
  /\ DeliverThen(<<DataEvent(Head(queue).number)>>, "Receiving")
  /\ UNCHANGED <<ownerVars, stop, result, events, captureVars, end_signal>>

\* Defect: a rejected packet stops the capture but not the receiving.
ReceiveBadPacket_KeepsReceiving ==
  /\ worker = "Receiving" /\ Received("Packet")
  /\ RecycleReceiverAlive /\ pool < HandoffCapacity
  /\ pool' = pool + 1
  /\ stop' = stop \cup {"Worker"}
  /\ queue' = Tail(queue)
  /\ UNCHANGED <<ownerVars, workerVars, captureVars, end_signal>>

\* A packet the builder rejects: gap, bad timestamp, sample or shape.
ReceiveBadPacket ==
  /\ worker = "Receiving" /\ Received("Packet")
  /\ RecycleReceiverAlive /\ pool < HandoffCapacity
  /\ pool' = pool + 1
  /\ stop' = stop \cup {"Worker"}
  /\ DeliverThen(FailedWith("StreamInterrupted"), "Draining")
  /\ result' = Finished("DataDiscontinuity")
  /\ UNCHANGED <<ownerVars, events, captureVars, end_signal>>

\* Defect: a failed recycle skips the packet and goes on.
RecycleFails_SkipsPacket ==
  /\ worker = "Receiving" /\ Received("Packet")
  /\ ~RecycleReceiverAlive \/ pool = HandoffCapacity
  /\ queue' = Tail(queue)
  /\ UNCHANGED <<ownerVars, stop, workerVars, captureVars, pool, end_signal>>

\* try_send of the buffer fails: the WASAPI thread has let its end go.
RecycleFails ==
  /\ worker = "Receiving" /\ Received("Packet")
  /\ ~RecycleReceiverAlive \/ pool = HandoffCapacity
  /\ stop' = stop \cup {"Worker"}
  /\ ReturnWith(RunFailed("Protocol"))
  /\ UNCHANGED <<ownerVars, events, captureVars, pool, end_signal>>

ReceiveEnd ==
  /\ worker = "Receiving"
  /\ \/ /\ Received("Ended")
        /\ DeliverThen(ContractEnd(Head(queue).end), "Closing")
        /\ result' = Finished(Head(queue).end)
     \/ /\ Received("Failed")
        /\ DeliverThen(FailedWith(Head(queue).failure), "Closing")
        /\ result' = Finished("Failed")
     \/ ChannelClosed /\ ReturnWith(RunFailed("ChannelClosed"))
  /\ UNCHANGED <<ownerVars, stop, events, captureVars, pool, end_signal>>

\* on_event(Head(pending)), which returns.
Deliver ==
  /\ worker = "Delivering"
  /\ events' = Append(events, Head(pending))
  /\ IF Len(pending) = 1
       THEN /\ worker' = resume /\ resume' = None /\ pending' = <<>>
            /\ queue' = IF resume = "Closing" THEN <<>> ELSE queue
       ELSE pending' = Tail(pending) /\ UNCHANGED <<worker, resume, queue>>
  /\ UNCHANGED <<ownerVars, stop, result, captureVars, pool, end_signal>>

\* on_event panics; the unwinding worker drops what process_capture holds.
CallbackPanics ==
  /\ PanicsPossible
  /\ worker = "Delivering"
  /\ events' = Append(events, Head(pending))
  /\ worker' = "Closing" /\ result' = Panicked
  /\ pending' = <<>> /\ resume' = None /\ queue' = <<>>
  /\ UNCHANGED <<ownerVars, stop, captureVars, pool, end_signal>>

\* drain_until_end.
Drain ==
  /\ worker = "Draining"
  /\ IF Received("Packet")
       THEN queue' = Tail(queue) /\ UNCHANGED <<worker, result, pending, resume>>
       ELSE /\ Received("Ended") \/ Received("Failed") \/ ChannelClosed
            /\ ReturnWith(result)
  /\ UNCHANGED <<ownerVars, stop, events, captureVars, pool, end_signal>>

\* Defect: the worker joins without requesting the stop.
CloseCapture_WithoutStop ==
  /\ worker = "Closing"
  /\ worker' = "Joining"
  /\ UNCHANGED <<ownerVars, stop, result, pending, resume, events, captureVars,
                 sharedVars>>

\* An error or an unwinding CaptureThread requests the stop; then the join.
CloseCapture ==
  /\ worker = "Closing"
  /\ worker' = "Joining"
  /\ stop' = IF result.status = "Finished" THEN stop ELSE stop \cup {"Worker"}
  /\ UNCHANGED <<ownerVars, result, pending, resume, events, captureVars,
                 sharedVars>>

\* Defect: the result is reported before the join.
JoinCapture_WithoutWaiting ==
  /\ worker = "Joining"
  /\ worker' = "Exited"
  /\ UNCHANGED <<ownerVars, stop, result, pending, resume, events, captureVars,
                 sharedVars>>

\* The join; the consumed CaptureThread requests the stop as it is dropped.
JoinCapture ==
  /\ worker = "Joining"
  /\ capture \in {"NotSpawned", "Done", "Panicked"}
  /\ worker' = "Exited"
  /\ result' = IF capture = "Panicked" /\ result # Panicked
                 THEN RunFailed("ThreadPanicked") ELSE result
  /\ stop' = IF capture = "NotSpawned" THEN stop ELSE stop \cup {"Worker"}
  /\ UNCHANGED <<ownerVars, pending, resume, events, captureVars, sharedVars>>

WorkerNext ==
  \/ SpawnCapture \/ ReceiveFirst \/ ReceivePacket \/ ReceiveBadPacket
  \/ RecycleFails \/ ReceiveEnd \/ Deliver \/ Drain \/ CloseCapture \/ JoinCapture

-----------------------------------------------------------------------------
(* The WASAPI thread.                                                      *)

\* capture_thread_inner returns Err: recycle_rx goes, Failed is to be sent.
FailWith(kind) ==
  /\ capture' = "Failing"
  /\ termination' = kind
  /\ pool' = 0

\* capture_loop returns Err.
Terminate(end) ==
  /\ capture' = "Ending"
  /\ termination' = end

\* capture_loop returns Ok: an error of stop_stream replaces the end.
EndWith(end) == \E e \in {end} \cup SignalledEnds : Terminate(e)

\* COM, discovery and the audio client, up to the two registrations.
OpenSource ==
  /\ capture = "Opening"
  /\ \/ capture' = "Registered" /\ UNCHANGED <<termination, pool>>
     \/ \E kind \in FailureKinds : FailWith(kind)
  /\ UNCHANGED <<ownerVars, stop, workerVars, captured, queue, end_signal>>

\* Revalidation, the first look at end_signal, the pool, start_stream.
StartStream ==
  /\ capture = "Registered"
  /\ \/ /\ end_signal = None
        /\ capture' = "Starting"
        /\ pool' = HandoffCapacity
        /\ UNCHANGED termination
     \/ \E kind \in {"SourceUnavailable", "Internal"} :
          FailWith(kind)
  /\ UNCHANGED <<ownerVars, stop, workerVars, captured, queue, end_signal>>

\* The second look at end_signal and the send of Started, which finds the
\* worker still receiving and the channel empty.
SendStarted ==
  /\ capture = "Starting"
  /\ \/ end_signal # None /\ FailWith("SourceUnavailable") /\ UNCHANGED queue
     \/ /\ end_signal = None
        /\ queue' = Append(queue, StartedMessage)
        /\ \/ capture' = "Polling" /\ UNCHANGED <<termination, pool>>
           \* the deadline is beyond the monotonic clock
           \/ HasDeadline /\ FailWith("Internal")
  /\ UNCHANGED <<ownerVars, stop, workerVars, captured, end_signal>>

\* The top of capture_loop: stop, then end_signal, then the deadline, then
\* the bounded wait for the device event.
Poll ==
  /\ capture = "Polling"
  /\ CASE StopRequested -> EndWith("StopRequested")
       [] ~StopRequested /\ end_signal # None -> EndWith(end_signal)
       [] OTHER ->
            \/ HasDeadline /\ EndWith("DurationElapsed")
            \/ capture' = "Reading" /\ UNCHANGED termination
            \/ \E end \in SignalledEnds : Terminate(end)
  /\ UNCHANGED <<ownerVars, stop, workerVars, captured, sharedVars>>

\* The device has no further packet, or cannot be asked.
DeviceDrained ==
  /\ capture = "Reading"
  /\ \/ capture' = "Polling" /\ UNCHANGED termination
     \/ \E end \in SignalledEnds : Terminate(end)
  /\ UNCHANGED <<ownerVars, stop, workerVars, captured, sharedVars>>

\* The device has a packet: take a buffer and read into it.  A failed read
\* keeps the buffer; the stream is over.
ReadPacket ==
  /\ capture = "Reading"
  /\ captured < PacketLimit
  /\ IF pool = 0
       THEN /\ IF ProcessingAlive THEN EndWith("BoundedHandoffExhausted")
                                  ELSE Terminate("Failed")
            /\ UNCHANGED <<captured, pool>>
       ELSE /\ pool' = pool - 1
            /\ \/ /\ captured' = captured + 1
                  /\ capture' = "Holding"
                  /\ UNCHANGED termination
               \/ (\E end \in DeviceErrorEnds : Terminate(end)) /\ UNCHANGED captured
  /\ UNCHANGED <<ownerVars, stop, workerVars, queue, end_signal>>

\* Defect: a full channel drops the packet.
SendPacket_DropsWhenFull ==
  /\ capture = "Holding"
  /\ capture' = "Reading" /\ UNCHANGED termination
  /\ queue' = IF ProcessingAlive /\ Room
                THEN Append(queue, PacketMessage(captured)) ELSE queue
  /\ UNCHANGED <<ownerVars, stop, workerVars, captured, pool, end_signal>>

SendPacket ==
  /\ capture = "Holding"
  /\ \/ /\ ~ProcessingAlive
        /\ Terminate("Failed") /\ UNCHANGED queue
     \/ /\ ProcessingAlive /\ ~Room
        /\ EndWith("BoundedHandoffExhausted") /\ UNCHANGED queue
     \/ /\ ProcessingAlive /\ Room
        /\ queue' = Append(queue, PacketMessage(captured))
        /\ capture' = "Reading" /\ UNCHANGED termination
  /\ UNCHANGED <<ownerVars, stop, workerVars, captured, pool, end_signal>>

\* The blocking send of Ended.
SendEnded ==
  /\ capture = "Ending"
  /\ IF ProcessingAlive
       THEN /\ Room
            /\ queue' = Append(queue, EndedMessage(termination))
            /\ capture' = "Releasing" /\ UNCHANGED <<termination, pool>>
       ELSE FailWith("Internal") /\ UNCHANGED queue
  /\ UNCHANGED <<ownerVars, stop, workerVars, captured, end_signal>>

\* capture_thread_inner returns Ok: recycle_rx, COM and the sender go.
Release ==
  /\ capture = "Releasing"
  /\ capture' = "Done"
  /\ pool' = 0
  /\ UNCHANGED <<ownerVars, stop, workerVars, captured, termination, queue,
                 end_signal>>

\* The blocking send of Failed, whose error is ignored.
SendFailed ==
  /\ capture = "Failing"
  /\ IF ProcessingAlive
       THEN Room /\ queue' = Append(queue, FailedMessage(termination))
       ELSE UNCHANGED queue
  /\ capture' = "Done"
  /\ UNCHANGED <<ownerVars, stop, workerVars, captured, termination, pool,
                 end_signal>>

CapturePanics ==
  /\ PanicsPossible
  /\ CaptureSenderAlive
  /\ capture' = "Panicked"
  /\ pool' = 0
  /\ UNCHANGED <<ownerVars, stop, workerVars, captured, termination, queue,
                 end_signal>>

CaptureNext ==
  \/ OpenSource \/ StartStream \/ SendStarted \/ Poll \/ DeviceDrained
  \/ ReadPacket \/ SendPacket \/ SendEnded \/ Release \/ SendFailed

\* A device or session notification: set_end_once keeps the first.
Notify(end) ==
  /\ capture = "Registered" \/ RecycleReceiverAlive
  /\ end_signal' = IF end_signal = None THEN end ELSE end_signal
  /\ UNCHANGED <<ownerVars, stop, workerVars, captureVars, queue, pool>>

-----------------------------------------------------------------------------
Next ==
  \/ OwnerNext \/ WorkerNext \/ CaptureNext
  \/ CallbackPanics \/ CapturePanics
  \/ \E end \in SignalledEnds : Notify(end)

\* The operating system schedules both threads, the callback and the calls
\* into WASAPI return, and the device catches up with its packets: nothing is assumed
\* of the holder, the device or the panics.
Fairness ==
  /\ WF_vars(WorkerNext)
  /\ WF_vars(CaptureNext)
  /\ SF_vars(DeviceDrained)
  /\ WF_vars(DropJoinsWorker)

Spec == Init /\ [][Next]_vars /\ Fairness

-----------------------------------------------------------------------------
PacketsTold == Cardinality(Having(events, "Data"))

\* Every buffer of the pool is in the recycle channel, in a queued packet or
\* in the hands of the WASAPI thread, until the worker gives up the data or
\* the stream is ending: none leaks, and recycling never finds the pool full.
BuffersConserved ==
  Accepting /\ capture \in {"Polling", "Reading", "Holding"}
    => pool + Cardinality(Having(queue, "Packet")) + (IF capture = "Holding" THEN 1 ELSE 0)
         = HandoffCapacity

\* Once the holder has a completion, or has finished dropping the owner, both
\* threads are gone: no callback can follow and no capture resource is left
\* (the promise of wait_for_completion and of Drop).
ReleasedBeforeCompletion ==
  completion # None \/ owner = "Dropped"
    => /\ worker \in {"NotSpawned", "Exited"}
       /\ capture \in {"NotSpawned", "Done", "Panicked"}
       /\ pending = <<>>

\* The consumer is told ProviderShutdown only when the holder asked for the
\* stop, though the worker raises the same token when it gives up itself.
ShutdownOnlyWhenAsked ==
  EndedEvent("ProviderShutdown") \in ToSet(events) => "Owner" \in stop

\* A completion that says Finished(end) is the end the consumer was told, and
\* every packet read from the device reached the consumer before it, with two
\* exceptions: a rejected packet and what follows it, and the one packet a
\* full handoff had no slot for, whose end a failing stop_stream may replace.
\* A requested stop and an elapsed deadline lose nothing.
FinishedIsWhatTheConsumerSaw ==
  worker = "Exited" /\ result.status = "Finished"
    => /\ events # <<>>
       /\ Last(events) = Last(ContractEnd(result.end))
       /\ captured - PacketsTold \in
            CASE result.end = "DataDiscontinuity"       -> 0 .. captured
              [] result.end \in {"StopRequested", "DurationElapsed", "Failed"} -> {0}
              [] OTHER -> {0, 1}

\* A requested stop, a device notification or a worker that gives up always
\* ends with the worker gone and its result reported: neither thread waits
\* for the other for ever on a full channel, an empty one or the join.
ReleasedEventually ==
  (worker # "NotSpawned" /\ (StopRequested \/ end_signal # None \/ worker = "Closing"))
    ~> worker = "Exited"

\* Handoff exhaustion ends the stream with ResourceExhausted (docs/api.md:161):
\* a packet is missing from an accepted stream only under that end.
ExhaustionIsReported ==
  worker = "Exited" /\ result.status = "Finished" /\ result.end # "DataDiscontinuity"
    => captured = PacketsTold \/ result.end = "BoundedHandoffExhausted"

\* A started stream is ended before its owner completes, when nothing panics
\* (docs/decisions/0007-capture-supervisor-boundary.md:110).
StartedStreamIsEnded ==
  worker = "Exited" /\ StartedEvent \in ToSet(events)
    => Has(events, "Ended")

-----------------------------------------------------------------------------
(* The owner implements the consumer's contract.                           *)

StageOf(e) ==
  CASE e.kind \in {"Started", "Data"} -> "Streaming"
    [] e.kind = "Error" -> "Erred"
    [] e.kind = "Ended" -> "Ended"

ToldStage  == IF events = <<>> THEN "Unstarted" ELSE StageOf(Last(events))
ToldPacket == IF Has(events, "Data") THEN LastOf(events, "Data").packet ELSE 0
ToldError  == IF Has(events, "Error") THEN LastOf(events, "Error").error ELSE None
ToldReason == IF Has(events, "Ended") THEN LastOf(events, "Ended").reason ELSE None

Contract == INSTANCE StreamContract WITH
  stage <- ToldStage, last_packet <- ToldPacket,
  error <- ToldError, end_reason <- ToldReason

\* Everything the owner tells the consumer, under every interleaving of its
\* threads, the notifications and the holder, is a stream of StreamContract.
ImplementsStreamContract == Contract!Spec
=============================================================================
