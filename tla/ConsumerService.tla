-------------------------- MODULE ConsumerService --------------------------
(***************************************************************************)
(* The managed consumer service (crates/resonance-agent/src/transport.rs): *)
(* the holder's start, shutdown and drop, each with a bounded wait, the    *)
(* service worker with the runtime it owns, and the sessions of            *)
(* ConsumerSession that run in it.                                         *)
(***************************************************************************)
EXTENDS ConsumerSession

VARIABLES
  service,      (* ManagedServiceState                                     *)
  worker,       (* where the service worker is                             *)
  started,      (* the started channel: None, "Ok" or "Err"                *)
  notified,     (* the permit of shutdown_notify                           *)
  stopped,      (* the message in the stopped channel                      *)
  holder,       (* the call the holder is in, or "None"                    *)
  joined,       (* the holder has taken and joined the worker              *)
  lingering     (* some client holds a plain connection with a request open *)

workerVars == <<worker, started, stopped>>
holderVars == <<holder, joined>>
vars == <<sessionVars, service, workerVars, notified, holderVars, lingering>>

ServiceStates == {"Starting", "Running", "Stopping", "Stopped", "Failed"}
WorkerSteps == {"Binding", "Serving", "Returned", "Reporting", "Exited"}
Calls == {"Start", "AbandonStart", "Shutdown", "Join", "None"}

Init ==
  /\ SessionInit
  /\ service = "Starting"
  /\ worker = "Binding" /\ started = None /\ stopped = FALSE
  /\ notified = FALSE
  /\ holder = "Start" /\ joined = FALSE
  /\ lingering = FALSE

-----------------------------------------------------------------------------
(* The service worker: run_managed and what follows it.                    *)

\* bind, then Running, then the answer to start.
Bind ==
  /\ worker = "Binding"
  /\ \/ /\ service' = "Running" /\ started' = "Ok" /\ worker' = "Serving"
        /\ UNCHANGED serving
     \/ /\ started' = "Err" /\ worker' = "Returned" /\ serving' = "Dropped"
        /\ UNCHANGED service
  /\ UNCHANGED <<stopped, shutting_down, slotVars, flagVars, queue, wire,
                 captureVars, ownerVars, notified, holderVars, lingering>>

\* The graceful shutdown future: notified, then the flag once more.
Drain ==
  /\ worker = "Serving" /\ serving = "Accepting" /\ notified
  /\ notified' = FALSE
  /\ serving' = "Draining" /\ shutting_down' = TRUE
  /\ lingering' \in BOOLEAN
  /\ UNCHANGED <<slotVars, flagVars, queue, wire, captureVars, ownerVars,
                 service, workerVars, holderVars>>

\* axum::serve returns once no connection is left; upgraded ones have left it.
\* The runtime is dropped with the block_on expression.
ServeReturns ==
  /\ worker = "Serving" /\ serving = "Draining"
  /\ ~lingering /\ \A s \in Sessions : task[s] # "Acquiring"
  /\ serving' = "Dropped"
  /\ UNCHANGED <<shutting_down, slotVars, flagVars, queue, wire, captureVars,
                 ownerVars, service, workerVars, notified, holderVars, lingering>>

\* Defect: the runtime is shut down in the background.
RuntimeDropped_InBackground ==
  /\ worker = "Serving" /\ serving = "Dropped"
  /\ worker' = "Returned"
  /\ UNCHANGED <<sessionVars, service, started, stopped, notified, holderVars,
                 lingering>>

\* Dropping the runtime drops its tasks and waits for the blocking ones.
RuntimeDropped ==
  /\ worker = "Serving" /\ serving = "Dropped"
  /\ \A s \in Sessions : task[s] = "Idle" /\ capture[s] \in {"None", "Done"}
  /\ worker' = "Returned"
  /\ UNCHANGED <<sessionVars, service, started, stopped, notified, holderVars,
                 lingering>>

PublishState ==
  /\ worker = "Returned"
  /\ service' = IF started = "Err" THEN "Failed" ELSE "Stopped"
  /\ worker' = "Reporting"
  /\ UNCHANGED <<sessionVars, started, stopped, notified, holderVars, lingering>>

SendStopped ==
  /\ worker = "Reporting"
  /\ stopped' = TRUE /\ worker' = "Exited"
  /\ UNCHANGED <<sessionVars, service, started, notified, holderVars, lingering>>

\* A request for the status or the sources that is open while the service
\* drains is answered and read; nobody can enforce that.
RequestEnds ==
  /\ lingering
  /\ lingering' = FALSE
  /\ UNCHANGED <<sessionVars, service, workerVars, notified, holderVars>>

-----------------------------------------------------------------------------
(* The holder.                                                             *)

HolderFrame == UNCHANGED <<serving, slotVars, flagVars, queue, wire, captureVars,
                           ownerVars, workerVars, lingering>>

StartReturns ==
  /\ holder = "Start" /\ started = "Ok"
  /\ holder' = "None"
  /\ UNCHANGED <<shutting_down, service, notified, joined>> /\ HolderFrame

\* start joins a worker that reported failure.
StartFails ==
  /\ holder = "Start" /\ started = "Err" /\ worker = "Exited"
  /\ holder' = "None" /\ joined' = TRUE
  /\ UNCHANGED <<shutting_down, service, notified>> /\ HolderFrame

\* Defect: the shutdown is announced to present waiters only.
StartTimesOut_NotifyWaiters ==
  /\ holder = "Start" /\ started = None
  /\ shutting_down' = TRUE
  /\ notified' = (worker = "Serving" /\ serving = "Accepting")
  /\ holder' = "AbandonStart"
  /\ UNCHANGED <<service, joined>> /\ HolderFrame

\* recv_timeout runs out: the flag, notify_one, and a join without a deadline.
StartTimesOut ==
  /\ holder = "Start" /\ started = None
  /\ shutting_down' = TRUE /\ notified' = TRUE
  /\ holder' = "AbandonStart"
  /\ UNCHANGED <<service, joined>> /\ HolderFrame

StartAbandoned ==
  /\ holder = "AbandonStart" /\ worker = "Exited"
  /\ holder' = "None" /\ joined' = TRUE
  /\ UNCHANGED <<shutting_down, service, notified>> /\ HolderFrame

\* shutdown, and the drop that calls it, up to the wait for stopped_rx.
\* A permit that nobody is left to wait for is not kept.
BeginShutdown ==
  /\ holder = "None" /\ ~joined
  /\ service' = IF service \in {"Starting", "Running"} THEN "Stopping" ELSE service
  /\ shutting_down' = TRUE /\ notified' = (serving = "Accepting")
  /\ holder' = "Shutdown"
  /\ UNCHANGED <<joined>> /\ HolderFrame

ShutdownTimesOut ==
  /\ holder = "Shutdown" /\ ~stopped
  /\ holder' = "None"
  /\ UNCHANGED <<shutting_down, service, notified, joined>> /\ HolderFrame

ReceiveStopped ==
  /\ holder = "Shutdown" /\ stopped
  /\ stopped' = FALSE /\ holder' = "Join"
  /\ UNCHANGED <<sessionVars, service, worker, started, notified, joined, lingering>>

JoinWorker ==
  /\ holder = "Join" /\ worker = "Exited"
  /\ holder' = "None" /\ joined' = TRUE
  /\ UNCHANGED <<shutting_down, service, notified>> /\ HolderFrame

-----------------------------------------------------------------------------
Worker == Bind \/ Drain \/ ServeReturns \/ RuntimeDropped \/ PublishState \/ SendStopped

Holder ==
  \/ StartReturns \/ StartFails \/ StartAbandoned
  \/ ShutdownTimesOut \/ ReceiveStopped \/ JoinWorker

HolderNext == Holder \/ StartTimesOut \/ BeginShutdown

\* A session's activities live in the runtime, which the worker waits for.
InRuntime(step) ==
  /\ worker = "Serving"
  /\ step
  /\ UNCHANGED <<service, workerVars, notified, holderVars, lingering>>

Next ==
  \/ \E s \in Sessions :
       \/ InRuntime(Handler(s)) \/ InRuntime(SocketTask(s)) \/ InRuntime(Client(s))
       \/ InRuntime(CaptureTask(s)) \/ InRuntime(OwnerWorker(s))
  \/ Worker \/ HolderNext \/ RequestEnds

\* The owner's worker is in a call of the callback, behind the end of its stream,
\* or asked to stop.
MustGoOn(s) ==
  /\ owner[s] = "Running"
  /\ ~BetweenCalls(s) \/ stage[s] \in {"Erred", "Ended"} \/ asked[s]

\* The runtime runs its tasks; select polls its branches in random order, so that
\* a client that keeps the socket busy does not keep an event from being
\* received; a callback that was called returns; an owner asked to stop, and one
\* whose stream erred or ended, completes.  The guards on task and capture are
\* those of the steps they precede, and spare TLC a session at rest.
SessionFairness(s) ==
  /\ WF_vars(task[s] # "Idle" /\ InRuntime(Handler(s) \/ SocketTask(s)))
  /\ SF_vars(task[s] = "Selecting" /\ InRuntime(Receive(s)))
  /\ WF_vars(capture[s] \notin {"None", "Done"} /\ InRuntime(CaptureTask(s)))
  /\ WF_vars(MustGoOn(s) /\ InRuntime(OwnerWorker(s)))

Spec ==
  /\ Init /\ [][Next]_vars
  /\ WF_vars(Worker) /\ WF_vars(Holder)
  /\ \A s \in Sessions : SessionFairness(s)

-----------------------------------------------------------------------------
(* Properties.                                                             *)

\* What a client receives is the stream its session's callback was given, event
\* by event.  When the queue refuses one, the client may still get a later event in
\* its place, for the socket task can be past the check when the callback stores
\* unhealthy; that event is the last one.
LossEndsTheStream ==
  \A s \in Sessions : \A i \in DOMAIN wire[s] :
    \/ IsEvent(s, i, wire[s][i])
    \/ /\ unhealthy[s] /\ i = Len(wire[s])
       /\ \E n \in i + 1 .. StreamLength(s) : IsEvent(s, n, wire[s][i])

\* The documented sequence numbers: the n-th window a client receives is number n,
\* counted from one here.
SequenceIncreasesByOne ==
  \A s \in Sessions : \A i \in Having(wire[s], "Window") :
    wire[s][i].sequence = Cardinality({j \in Having(wire[s], "Window") : j <= i})

\* The reason a client reads in stream_stopped is what happened: its own stop
\* request, or a stop of the provider or of a session too slow to go on.  The
\* callback decides it from flags that the socket task sets meanwhile.
StoppedReasonIsTrue ==
  \A s \in Sessions : \A i \in DOMAIN wire[s] :
    /\ wire[s][i] = StoppedFor("ConsumerCancelled") => client_stop[s]
    /\ wire[s][i] = StoppedFor("ProviderShutdown") => shutting_down \/ unhealthy[s]

\* Once Finished is in the queue of a session that kept up and whose supervisor
\* stopped in time, all the stream's events are before it: those the client has
\* and those it will get are every window, the error and the end.
FinishedMeansDelivered ==
  \A s \in Sessions :
    LET events == wire[s] \o [i \in DOMAIN queue[s] |->
                                IF queue[s][i].kind = "Event" THEN queue[s][i].event
                                ELSE queue[s][i]]
    IN  /\ Has(queue[s], "Finished") /\ ~unhealthy[s] /\ ~stop_timed_out[s]
        => /\ events[Len(events)] = Finished
           /\ Cardinality(Having(events, "Window")) = windows[s]
           /\ Has(events, "Error") <=> error[s] # None
           /\ Has(events, "Stopped") <=> stage[s] = "Ended"

\* Every connection that got past the limit holds one counted slot and no more
\* than the limit do, and while the runtime lives no capture runs without the
\* slot of its session.
SlotsAreAccounted ==
  LET holders == {s \in Sessions : task[s] \in Connected}
  IN  /\ active = Cardinality(holders) /\ active <= Limit
      /\ serving # "Dropped" =>
           \A s \in Sessions \ holders : capture[s] \in {"None", "Done"}

\* When start has failed, or shutdown has joined the worker, nothing of the
\* service is left: no task, no capture thread, no owner.
JoinedMeansQuiet ==
  joined => /\ worker = "Exited"
            /\ \A s \in Sessions : /\ task[s] = "Idle"
                                    /\ capture[s] \in {"None", "Done"}
                                    /\ owner[s] # "Running"

\* A session that must end and has not given back its capture yet.
Overdue(s) ==
  /\ stop[s] \/ unhealthy[s] \/ shutting_down
  /\ task[s] # "Idle" \/ capture[s] \notin {"None", "Done"}

\* A session that was asked to stop, fell behind or outlives the service ends,
\* and every call of the holder returns, but for a start that gave up while some
\* client keeps a plain request open: its join has no deadline.
SessionsEndAndCallsReturn ==
  \A s \in Sessions : []<>(~Overdue(s) /\ (holder = "None" \/ lingering))
=============================================================================
