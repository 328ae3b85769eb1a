-------------------------- MODULE ConsumerSession --------------------------
(***************************************************************************)
(* The stream sessions of the consumer service                             *)
(* (crates/resonance-agent/src/transport.rs).  A session is three          *)
(* activities around one bounded queue: the socket task of stream_session, *)
(* the blocking capture task of run_capture_session, and the owner's       *)
(* worker that runs the callback.  The owner is modelled by what           *)
(* CaptureSupervisor and CaptureHandoff show of it: a contract stream, an  *)
(* end as ProviderShutdown only when asked to stop, and a completion after *)
(* which no callback comes.                                                *)
(*                                                                         *)
(* A session that is over becomes idle and may be requested again, as the  *)
(* next connection of the same client.                                     *)
(***************************************************************************)
EXTENDS EventSequences

CONSTANTS
  Sessions,        (* clients that may hold a connection each              *)
  Limit,           (* MAX_ACTIVE_SESSIONS                                  *)
  QueueCapacity,   (* EVENT_QUEUE_CAPACITY                                 *)
  PacketWindows,   (* most windows one packet completes                    *)
  WindowLimit,     (* bound of the model on the windows of a stream        *)
  OwnerErrors,     (* errors the owner may deliver                         *)
  Capturing,       (* bound of the model: sessions whose supervisor may start *)
  None

\* The kinds of error an owner reports, see StreamContract.
ErrorKinds == {"StreamInterrupted", "SourceUnavailable", "ResourceExhausted",
               "UnsupportedFormat", "Internal"}

ASSUME SessionAssumption ==
  /\ IsFiniteSet(Sessions) /\ Limit \in Nat \ {0}
  /\ QueueCapacity \in Nat \ {0} /\ PacketWindows \in Nat \ {0}
  /\ WindowLimit \in Nat /\ Capturing \subseteq Sessions
  /\ OwnerErrors \subseteq ErrorKinds /\ None \notin ErrorKinds

-----------------------------------------------------------------------------
VARIABLES
  serving,        (* axum: "Accepting", "Draining", then "Dropped" runtime *)
  shutting_down,  (* AppState::shutting_down                               *)
  active,         (* AppState::active_sessions                             *)
  task,           (* where the socket task of a session is                 *)
  observed        (* the count its try_acquire has loaded                  *)

VARIABLES
  stop, client_stop, unhealthy,   (* the flags the three activities share  *)
  queue,          (* the mpsc channel; emptied when the receiver is dropped *)
  wire,           (* events sent to the client while its loop runs         *)
  capture,        (* where the capture task is                             *)
  stop_timed_out  (* supervisor.stop gave up; the code ignores this        *)

VARIABLES
  owner,          (* "None", "Running", or how it completed                *)
  asked,          (* the owner was asked to stop                           *)
  stage,          (* how far the callback is in the stream, see StreamContract *)
  error,          (* kind of the Error the callback was given              *)
  windows,        (* SessionEncoder::sequence                              *)
  encoded,        (* messages the callback has still to send               *)
  refused         (* its call failed and unhealthy is not stored yet       *)

slotVars    == <<active, task, observed>>
serviceVars == <<serving, shutting_down>>
flagVars    == <<stop, client_stop, unhealthy>>
ownerVars   == <<owner, asked, stage, error, windows, encoded, refused>>
captureVars == <<capture, stop_timed_out>>
sessionVars == <<serviceVars, slotVars, flagVars, queue, wire, captureVars,
                 ownerVars>>

Tasks == {"Idle", "Acquiring", "Upgrading", "Checking", "Selecting",
          "StopAsked", "Joining", "Closing"}
CaptureSteps == {"None", "Queued", "Starting", "Polling", "Stopping",
                 "Reporting", "Finishing", "Dropping", "Done"}

\* A worker that panicked, or failed with its stream begun, is to a session as
\* one that finished.
Completions == {"Finished", "Failed"}

\* How the callback's stream ends after its Error, if it had one.
EndReasonFor(kind) ==
  CASE kind = None                -> "ProviderShutdown"
    [] kind = "SourceUnavailable" -> "SourceEnded"
    [] OTHER                      -> "Failed"

\* The socket task is a task of the runtime from its upgrade to its close.
Connected == {"Upgrading", "Checking", "Selecting", "StopAsked", "Joining",
              "Closing"}
Receiving == {"Checking", "Selecting", "StopAsked"}

SessionInit ==
  /\ serving = "Accepting" /\ shutting_down = FALSE
  /\ active = 0
  /\ task = [s \in Sessions |-> "Idle"]
  /\ observed = [s \in Sessions |-> 0]
  /\ stop = [s \in Sessions |-> FALSE]
  /\ client_stop = [s \in Sessions |-> FALSE]
  /\ unhealthy = [s \in Sessions |-> FALSE]
  /\ queue = [s \in Sessions |-> <<>>]
  /\ wire = [s \in Sessions |-> <<>>]
  /\ capture = [s \in Sessions |-> "None"]
  /\ stop_timed_out = [s \in Sessions |-> FALSE]
  /\ owner = [s \in Sessions |-> "None"]
  /\ asked = [s \in Sessions |-> FALSE]
  /\ stage = [s \in Sessions |-> "Unstarted"]
  /\ error = [s \in Sessions |-> None]
  /\ windows = [s \in Sessions |-> 0]
  /\ encoded = [s \in Sessions |-> <<>>]
  /\ refused = [s \in Sessions |-> FALSE]

Moves(s, next) == task' = [task EXCEPT ![s] = next]
Captures(s, next) == capture' = [capture EXCEPT ![s] = next]

-----------------------------------------------------------------------------
(* ActiveSession and the waveform handler.                                 *)

\* try_acquire's load; an intent that is refused never gets here.
Request(s) ==
  /\ task[s] = "Idle" /\ capture[s] = "None" /\ serving = "Accepting"
  /\ Moves(s, "Acquiring")
  /\ observed' = [observed EXCEPT ![s] = active]
  /\ UNCHANGED <<active, serviceVars, flagVars, queue, wire, captureVars,
                 ownerVars>>

Reject(s) ==
  /\ task[s] = "Acquiring" /\ observed[s] >= Limit
  /\ Moves(s, "Idle")
  /\ observed' = [observed EXCEPT ![s] = 0]
  /\ UNCHANGED <<active, serviceVars, flagVars, queue, wire, captureVars,
                 ownerVars>>

\* Defect: the count that was loaded is stored back without comparing.
Acquire_Store(s) ==
  /\ task[s] = "Acquiring" /\ observed[s] < Limit
  /\ active' = observed[s] + 1
  /\ Moves(s, "Upgrading")
  /\ observed' = [observed EXCEPT ![s] = 0]
  /\ UNCHANGED <<serviceVars, flagVars, queue, wire, captureVars, ownerVars>>

\* compare_exchange_weak succeeds.
Acquire(s) ==
  /\ task[s] = "Acquiring" /\ observed[s] < Limit /\ active = observed[s]
  /\ active' = active + 1
  /\ Moves(s, "Upgrading")
  /\ observed' = [observed EXCEPT ![s] = 0]
  /\ UNCHANGED <<serviceVars, flagVars, queue, wire, captureVars, ownerVars>>

\* compare_exchange_weak fails, on a changed count or spuriously.
AcquireRaces(s) ==
  /\ task[s] = "Acquiring" /\ observed[s] < Limit
  /\ observed' = [observed EXCEPT ![s] = active]
  /\ UNCHANGED <<active, task, serviceVars, flagVars, queue, wire, captureVars,
                 ownerVars>>

\* The upgrade is not completed: the closure that owns the slot is dropped.
UpgradeFails(s) ==
  /\ task[s] = "Upgrading"
  /\ Moves(s, "Idle") /\ active' = active - 1
  /\ UNCHANGED <<observed, serviceVars, flagVars, queue, wire, captureVars,
                 ownerVars>>

\* stream_session begins and spawns the capture task.
Upgrade(s) ==
  /\ task[s] = "Upgrading"
  /\ Moves(s, "Checking")
  /\ Captures(s, "Queued")
  /\ UNCHANGED <<active, observed, serviceVars, flagVars, queue, wire,
                 stop_timed_out, ownerVars>>

-----------------------------------------------------------------------------
(* The queue, and the socket task around it.                               *)

Event(m) == [kind |-> "Event", event |-> m]
Started == [kind |-> "Started"]
WindowOf(n) == [kind |-> "Window", sequence |-> n]
ErrorOf(kind) == [kind |-> "Error", error |-> kind]
StoppedFor(reason) == [kind |-> "Stopped", reason |-> reason]
StartupFailure == [kind |-> "StartupFailure"]
Finished == [kind |-> "Finished"]

HasRoom(s) == task[s] \in Receiving /\ Len(queue[s]) < QueueCapacity

\* try_send whose error is ignored.
TrySend(s, m) ==
  queue' = IF HasRoom(s) THEN [queue EXCEPT ![s] = Append(@, m)] ELSE queue

\* After the loop: stop is stored and the receiver dropped.  Nothing but a close
\* follows on the wire.
Leave(s) ==
  /\ stop' = [stop EXCEPT ![s] = TRUE]
  /\ queue' = [queue EXCEPT ![s] = <<>>]
  /\ wire' = [wire EXCEPT ![s] = <<>>]
  /\ Moves(s, "Joining")

LoopFrame ==
  UNCHANGED <<active, observed, serviceVars, captureVars, ownerVars>>

Proceed(s) ==
  /\ task[s] = "Checking" /\ ~unhealthy[s] /\ ~shutting_down
  /\ Moves(s, "Selecting")
  /\ UNCHANGED <<flagVars, queue, wire>> /\ LoopFrame

TooSlow(s) ==
  /\ task[s] = "Checking" /\ unhealthy[s]
  /\ Leave(s)
  /\ UNCHANGED <<client_stop, unhealthy>> /\ LoopFrame

ShutdownSeen(s) ==
  /\ task[s] = "Checking" /\ ~unhealthy[s] /\ shutting_down
  /\ Leave(s)
  /\ UNCHANGED <<client_stop, unhealthy>> /\ LoopFrame

Received(s) == task[s] = "Selecting" /\ queue[s] # <<>>

ReceiveEvent(s) ==
  /\ Received(s) /\ Head(queue[s]).kind = "Event"
  /\ wire' = [wire EXCEPT ![s] = Append(@, Head(queue[s]).event)]
  /\ queue' = [queue EXCEPT ![s] = Tail(@)]
  /\ Moves(s, "Checking")
  /\ UNCHANGED flagVars /\ LoopFrame

\* timed_send: the deadline passes, or the peer is gone, and the loop ends.
SendFails(s) ==
  /\ Received(s) /\ Head(queue[s]).kind = "Event"
  /\ Leave(s)
  /\ UNCHANGED <<client_stop, unhealthy>> /\ LoopFrame

ReceiveStartupFailure(s) ==
  /\ Received(s) /\ Head(queue[s]) = StartupFailure
  /\ Leave(s)
  /\ UNCHANGED <<client_stop, unhealthy>> /\ LoopFrame

\* Finished, or None once every sender is gone and the queue is drained.
ReceiveEnd(s) ==
  /\ task[s] = "Selecting"
  /\ IF queue[s] = <<>> THEN capture[s] = "Done" ELSE Head(queue[s]) = Finished
  /\ Leave(s)
  /\ UNCHANGED <<client_stop, unhealthy>> /\ LoopFrame

\* A ping that is answered, or a pong.
Ignored(s) ==
  /\ task[s] = "Selecting"
  /\ Moves(s, "Checking")
  /\ UNCHANGED <<flagVars, queue, wire>> /\ LoopFrame

\* The connection closes or fails, a pong cannot be written, or the client sends
\* anything but a stop request and is told so.
ClientGone(s) ==
  /\ task[s] = "Selecting"
  /\ Leave(s)
  /\ UNCHANGED <<client_stop, unhealthy>> /\ LoopFrame

\* Defect: stop is stored before client_stop.
ClientStops_StopFirst(s) ==
  /\ task[s] = "Selecting"
  /\ stop' = [stop EXCEPT ![s] = TRUE]
  /\ Moves(s, "StopAsked")
  /\ UNCHANGED <<client_stop, unhealthy, queue, wire>> /\ LoopFrame

\* The two stores of a stop request, which the capture task may read between.
ClientStops(s) ==
  /\ task[s] = "Selecting"
  /\ client_stop' = [client_stop EXCEPT ![s] = TRUE]
  /\ Moves(s, "StopAsked")
  /\ UNCHANGED <<stop, unhealthy, queue, wire>> /\ LoopFrame

StopAsked(s) ==
  /\ task[s] = "StopAsked"
  /\ stop' = [stop EXCEPT ![s] = TRUE]
  /\ client_stop' = [client_stop EXCEPT ![s] = TRUE]
  /\ Moves(s, "Checking")
  /\ UNCHANGED <<unhealthy, queue, wire>> /\ LoopFrame

\* capture.await.
Join(s) ==
  /\ task[s] = "Joining" /\ capture[s] = "Done"
  /\ Moves(s, "Closing")
  /\ UNCHANGED <<flagVars, queue, wire>> /\ LoopFrame

\* The close frame, and _session dropped with the task: the slot is free, and
\* the next connection of the client finds fresh state.
Close(s) ==
  /\ task[s] = "Closing"
  /\ Moves(s, "Idle") /\ active' = active - 1
  /\ stop' = [stop EXCEPT ![s] = FALSE]
  /\ client_stop' = [client_stop EXCEPT ![s] = FALSE]
  /\ unhealthy' = [unhealthy EXCEPT ![s] = FALSE]
  /\ Captures(s, "None")
  /\ stop_timed_out' = [stop_timed_out EXCEPT ![s] = FALSE]
  /\ owner' = [owner EXCEPT ![s] = "None"]
  /\ asked' = [asked EXCEPT ![s] = FALSE]
  /\ stage' = [stage EXCEPT ![s] = "Unstarted"]
  /\ error' = [error EXCEPT ![s] = None]
  /\ windows' = [windows EXCEPT ![s] = 0]
  /\ encoded' = [encoded EXCEPT ![s] = <<>>]
  /\ refused' = [refused EXCEPT ![s] = FALSE]
  /\ UNCHANGED <<observed, serviceVars, queue, wire>>

\* A dropped runtime drops a socket task at the await it is at; the stores of
\* a stop request and the check are not awaits.
Cancel(s) ==
  /\ serving = "Dropped"
  /\ task[s] \in Connected \ {"Checking", "StopAsked"}
  /\ Moves(s, "Idle") /\ active' = active - 1
  /\ queue' = [queue EXCEPT ![s] = <<>>] /\ wire' = [wire EXCEPT ![s] = <<>>]
  /\ UNCHANGED <<observed, serviceVars, flagVars, captureVars, ownerVars>>

-----------------------------------------------------------------------------
(* run_capture_session, on a blocking thread.                              *)

SupervisorFrame == UNCHANGED <<serviceVars, slotVars, wire>>

Begin(s) ==
  /\ capture[s] = "Queued" /\ serving # "Dropped"
  /\ Captures(s, "Starting")
  /\ UNCHANGED <<flagVars, queue, stop_timed_out, ownerVars>> /\ SupervisorFrame

\* A blocking task that has not begun is dropped with the runtime.
NeverBegins(s) ==
  /\ capture[s] = "Queued" /\ serving = "Dropped"
  /\ Captures(s, "Done")
  /\ UNCHANGED <<flagVars, queue, stop_timed_out, ownerVars>> /\ SupervisorFrame

\* supervisor.start.
StartSupervisor(s) ==
  /\ capture[s] = "Starting"
  /\ \/ /\ s \in Capturing
        /\ owner' = [owner EXCEPT ![s] = "Running"]
        /\ Captures(s, "Polling") /\ UNCHANGED queue
     \/ /\ TrySend(s, StartupFailure)
        /\ Captures(s, "Done") /\ UNCHANGED owner
  /\ UNCHANGED <<flagVars, stop_timed_out, asked, stage, error, windows, encoded,
                 refused>>
  /\ SupervisorFrame

\* The head of the poll loop; supervisor.stop asks the owner, then waits.
StopSupervisor(s) ==
  /\ capture[s] = "Polling"
  /\ stop[s] \/ unhealthy[s] \/ shutting_down
  /\ asked' = [asked EXCEPT ![s] = TRUE]
  /\ Captures(s, "Stopping")
  /\ UNCHANGED <<flagVars, queue, stop_timed_out, owner, stage, error, windows,
                 encoded, refused>>
  /\ SupervisorFrame

\* Where the poll loop leaves to: the failure of an owner that started no stream
\* is reported first.
AfterLoop(s) == IF owner[s] = "Failed" THEN "Reporting" ELSE "Finishing"

\* Defect: supervisor.stop is not waited for.
OwnerJoined_WithoutWaiting(s) ==
  /\ \/ capture[s] = "Polling" /\ owner[s] \in Completions
     \/ capture[s] = "Stopping"
  /\ Captures(s, AfterLoop(s))
  /\ UNCHANGED <<flagVars, queue, stop_timed_out, ownerVars>> /\ SupervisorFrame

\* wait_for_completion, or the wait of supervisor.stop, returns the completion.
OwnerJoined(s) ==
  /\ capture[s] \in {"Polling", "Stopping"} /\ owner[s] \in Completions
  /\ Captures(s, AfterLoop(s))
  /\ UNCHANGED <<flagVars, queue, stop_timed_out, ownerVars>> /\ SupervisorFrame

\* A stop that timed out knows no completion, and the code ignores that.
StopTimesOut(s) ==
  /\ capture[s] = "Stopping" /\ owner[s] = "Running"
  /\ Captures(s, "Finishing")
  /\ stop_timed_out' = [stop_timed_out EXCEPT ![s] = TRUE]
  /\ UNCHANGED <<flagVars, queue, ownerVars>> /\ SupervisorFrame

Report(s) ==
  /\ capture[s] = "Reporting"
  /\ TrySend(s, StartupFailure)
  /\ Captures(s, "Finishing")
  /\ UNCHANGED <<flagVars, stop_timed_out, ownerVars>> /\ SupervisorFrame

\* Finished, then the supervisor is dropped, which asks its owner to stop.
Finish(s) ==
  /\ capture[s] = "Finishing"
  /\ TrySend(s, Finished)
  /\ asked' = [asked EXCEPT ![s] = TRUE]
  /\ Captures(s, "Dropping")
  /\ UNCHANGED <<flagVars, stop_timed_out, owner, stage, error, windows, encoded,
                 refused>>
  /\ SupervisorFrame

\* Dropping the owner joins its worker; the senders go last.
DropSupervisor(s) ==
  /\ capture[s] = "Dropping" /\ owner[s] \in Completions
  /\ Captures(s, "Done")
  /\ UNCHANGED <<flagVars, queue, stop_timed_out, ownerVars>> /\ SupervisorFrame

-----------------------------------------------------------------------------
(* The owner's worker and the callback it runs.  A call encodes its event  *)
(* into messages, sends them one by one, and is over when all are sent or  *)
(* unhealthy is stored; the socket task runs between any two of its steps. *)

BetweenCalls(s) == owner[s] = "Running" /\ encoded[s] = <<>> /\ ~refused[s]

CallbackFrame ==
  UNCHANGED <<serviceVars, slotVars, flagVars, queue, wire, captureVars, owner,
              asked, refused>>

Encodes(s, messages) == encoded' = [encoded EXCEPT ![s] = messages]

OnStarted(s) ==
  /\ BetweenCalls(s) /\ stage[s] = "Unstarted"
  /\ stage' = [stage EXCEPT ![s] = "Streaming"]
  /\ Encodes(s, <<Event(Started)>>)
  /\ UNCHANGED <<error, windows>> /\ CallbackFrame

\* A packet that completes windows; one that completes none changes nothing
\* here.
OnData(s) ==
  /\ BetweenCalls(s) /\ stage[s] = "Streaming"
  /\ \E n \in 1 .. PacketWindows :
       /\ windows[s] + n <= WindowLimit
       /\ windows' = [windows EXCEPT ![s] = @ + n]
       /\ Encodes(s, [i \in 1 .. n |-> Event(WindowOf(windows[s] + i))])
  /\ UNCHANGED <<stage, error>> /\ CallbackFrame

OnError(s) ==
  /\ BetweenCalls(s) /\ stage[s] = "Streaming"
  /\ \E kind \in OwnerErrors :
       /\ error' = [error EXCEPT ![s] = kind]
       /\ Encodes(s, <<Event(ErrorOf(kind))>>)
  /\ stage' = [stage EXCEPT ![s] = "Erred"]
  /\ UNCHANGED windows /\ CallbackFrame

\* The callback calls a shutdown the consumer's once client_stop is set.
ReasonFor(s) ==
  IF error[s] = None /\ client_stop[s] THEN "ConsumerCancelled"
  ELSE EndReasonFor(error[s])

OnEnded(s) ==
  /\ BetweenCalls(s)
  /\ \/ stage[s] = "Streaming" /\ asked[s]
     \/ stage[s] = "Erred"
  /\ stage' = [stage EXCEPT ![s] = "Ended"]
  /\ Encodes(s, <<Event(StoppedFor(ReasonFor(s)))>>)
  /\ UNCHANGED <<error, windows>> /\ CallbackFrame

SendFrame ==
  UNCHANGED <<serviceVars, slotVars, stop, client_stop, wire, captureVars, owner,
              asked, stage, error, windows>>

\* try_send of the next message, which finds room.
SendNext(s) ==
  /\ encoded[s] # <<>> /\ HasRoom(s)
  /\ queue' = [queue EXCEPT ![s] = Append(@, Head(encoded[s]))]
  /\ encoded' = [encoded EXCEPT ![s] = Tail(@)]
  /\ UNCHANGED <<unhealthy, refused>> /\ SendFrame

\* Defect: the message without room is dropped and the call goes on.
SendRefused_GoesOn(s) ==
  /\ encoded[s] # <<>> /\ ~HasRoom(s)
  /\ encoded' = [encoded EXCEPT ![s] = Tail(@)]
  /\ UNCHANGED <<queue, unhealthy, refused>> /\ SendFrame

\* try_send is refused; the call sends no more, and tells nobody yet.
SendRefused(s) ==
  /\ encoded[s] # <<>> /\ ~HasRoom(s)
  /\ encoded' = [encoded EXCEPT ![s] = <<>>]
  /\ refused' = [refused EXCEPT ![s] = TRUE]
  /\ UNCHANGED <<queue, unhealthy>> /\ SendFrame

\* encode returns Err.  It refuses the packets that follow as well; the model
\* lets them pass, which only adds behaviours, and refuses none once unhealthy
\* is stored, which stores it again.
OnDataRefused(s) ==
  /\ BetweenCalls(s) /\ stage[s] = "Streaming" /\ ~unhealthy[s]
  /\ refused' = [refused EXCEPT ![s] = TRUE]
  /\ UNCHANGED <<queue, unhealthy, encoded>> /\ SendFrame

StoreUnhealthy(s) ==
  /\ refused[s]
  /\ unhealthy' = [unhealthy EXCEPT ![s] = TRUE]
  /\ refused' = [refused EXCEPT ![s] = FALSE]
  /\ UNCHANGED <<queue, encoded>> /\ SendFrame

\* The worker is done: after Ended; without a stream, because opening failed
\* or was stopped; or, rarely, without ending the stream it started.
OwnerCompletes(s) ==
  /\ BetweenCalls(s)
  /\ \E how \in Completions :
       /\ how = "Failed" => stage[s] = "Unstarted"
       /\ owner' = [owner EXCEPT ![s] = how]
  /\ UNCHANGED <<serviceVars, slotVars, flagVars, queue, wire, captureVars,
                 asked, stage, error, windows, encoded, refused>>

-----------------------------------------------------------------------------
(* Next-state relation of a session.                                       *)

Handler(s) == Reject(s) \/ Acquire(s) \/ AcquireRaces(s)

\* Steps the runtime and the blocking thread take by themselves.  A client is
\* never obliged to send; every wait for it is a select with other branches,
\* and every write has a deadline.
Receive(s) ==
  ReceiveEvent(s) \/ SendFails(s) \/ ReceiveStartupFailure(s) \/ ReceiveEnd(s)

SocketTask(s) ==
  \/ UpgradeFails(s) \/ Upgrade(s) \/ Proceed(s) \/ TooSlow(s)
  \/ ShutdownSeen(s) \/ Receive(s) \/ StopAsked(s) \/ Join(s) \/ Close(s)
  \/ Cancel(s)

Client(s) ==
  Request(s) \/ Ignored(s) \/ ClientGone(s) \/ ClientStops(s)

CaptureTask(s) ==
  \/ Begin(s) \/ NeverBegins(s) \/ StartSupervisor(s) \/ StopSupervisor(s)
  \/ OwnerJoined(s) \/ StopTimesOut(s) \/ Report(s) \/ Finish(s)
  \/ DropSupervisor(s)

Callback(s) == SendNext(s) \/ SendRefused(s) \/ StoreUnhealthy(s)

OwnerWorker(s) ==
  \/ OnStarted(s) \/ OnData(s) \/ OnDataRefused(s) \/ OnError(s) \/ OnEnded(s)
  \/ Callback(s) \/ OwnerCompletes(s)

-----------------------------------------------------------------------------
(* The stream the callback is given, for the properties.                   *)

StreamLength(s) ==
  (IF stage[s] = "Unstarted" THEN 0 ELSE 1) + windows[s]
    + (IF error[s] = None THEN 0 ELSE 1) + (IF stage[s] = "Ended" THEN 1 ELSE 0)

\* The reasons the end of a stream may have after its error, or without one.
EndsOf(kind) ==
  {EndReasonFor(kind)} \cup (IF kind = None THEN {"ConsumerCancelled"} ELSE {})

\* e is the n-th event of the stream.
IsEvent(s, n, e) ==
  \/ n = 1 /\ stage[s] # "Unstarted" /\ e = Started
  \/ n \in 2 .. windows[s] + 1 /\ e = WindowOf(n - 1)
  \/ n = windows[s] + 2 /\ error[s] # None /\ e = ErrorOf(error[s])
  \/ /\ n = StreamLength(s) /\ stage[s] = "Ended"
     /\ \E reason \in EndsOf(error[s]) : e = StoppedFor(reason)
=============================================================================
