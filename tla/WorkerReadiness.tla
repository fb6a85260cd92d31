---------------------------- MODULE WorkerReadiness ----------------------------
(***************************************************************************)
(* Start, readiness and end of a worker process (startup/runtime.rs,       *)
(* service/worker_readiness.rs, rpc/health_handle.rs, service/facade.rs    *)
(* and service/background.rs).                                             *)
(*                                                                         *)
(* The main task builds the service, binds the listeners, becomes ready    *)
(* and supervises the two servers.  Tasks of the service observe that a    *)
(* generator is contended by a worker with the same endpoint and tell the  *)
(* readiness sink, after they have left the lock.  A lost identity lease,  *)
(* a signal or the end of a server request the shutdown.                   *)
(***************************************************************************)
EXTENDS Naturals, FiniteSets

CONSTANTS
    Generators,
    Tasks,        \* tasks of the service that observe and clear ownership drift
    EarlyDrift    \* whether they do so before the worker is ready

VARIABLES
    main,        \* where run() is
    bound,       \* StartupServingGate: listeners bound
    sink,        \* the readiness sink is set
    complete,    \* startup_complete
    ready,       \* what /readyz answers
    reason,      \* readiness reason; the state is ready exactly when it is "serving"
    entry,       \* generator -> "none", "seen" or "active"
    op, before,  \* a task's call of the sink: its next step, the reason it has read
    lost,        \* the identity lease is lost
    monitor, signal,  \* the loss monitor's and the signal monitor's next step
    shutdown,    \* the shutdown channel
    server,      \* "grpc", "admin" -> "down", "up", "ended", "failed"
    gate,        \* shutdown_gate
    background,  \* "run", "busy", "ended": the background tasks
    identity     \* the identity lease is held

vars == <<main, bound, sink, complete, ready, reason, entry, op, before, lost, monitor,
          signal, shutdown, server, gate, background, identity>>

Listeners == {"admin", "grpc"}
Mains == {"build", "sink", "bindAdmin", "bindGrpc", "complete", "check", "set", "serve",
          "failed", "mark", "unready", "grace", "gate", "drain", "release", "end"}
Monitors == {"watch", "mark", "send", "off"}

Init ==
    /\ main = "build" /\ bound = {} /\ sink = FALSE /\ complete = FALSE
    /\ ready = FALSE /\ reason = "serving"
    /\ entry = [g \in Generators |-> "none"]
    /\ op = [k \in Tasks |-> "none"] /\ before = [k \in Tasks |-> "serving"]
    /\ lost = FALSE /\ monitor = "off" /\ signal = "off" /\ shutdown = FALSE
    /\ server = [l \in Listeners |-> "down"]
    /\ gate = FALSE /\ background = "ended" /\ identity = FALSE

drift == <<entry, op, before>>
process == <<bound, sink, server, background, identity>>

-----------------------------------------------------------------------------
(* WorkerStatusSnapshot.                                                   *)

\* mark_shutting_down, mark_identity_lease_lost and mark_ownership_drift.
Marked(why) ==
    IF reason = "lost" \/ (why = "drift" /\ reason = "shutting") THEN reason ELSE why

\* clear_ownership_drift.
Cleared == IF reason = "drift" THEN "serving" ELSE reason

-----------------------------------------------------------------------------
(* Ownership drift: OwnershipDriftTracker and StartupWorkerReadinessSink.  *)

Observing(k) ==
    /\ main \notin {"build", "end"} /\ background # "ended"
    /\ op[k] = "none"
    /\ EarlyDrift \/ main \notin {"sink", "bindAdmin", "bindGrpc", "complete", "check", "set"}

Begin(k, action) == op' = [op EXCEPT ![k] = IF sink THEN action ELSE "none"]

\* observe_contended_local_generator: the first sight makes an entry, a renewal
\* of the same contender makes it active.
Observe(k, g) ==
    /\ Observing(k)
    /\ \/ /\ entry[g] = "none"
          /\ entry' = [entry EXCEPT ![g] = "seen"]
          /\ UNCHANGED op
       \/ /\ entry[g] = "seen"
          /\ entry' = [entry EXCEPT ![g] = "active"]
          /\ Begin(k, "start read")
    /\ UNCHANGED <<main, complete, ready, reason, before, lost, monitor, signal, shutdown, gate>>
    /\ UNCHANGED process

\* clear_generator: it was active, and no other is.
LastActive(g) == entry[g] = "active" /\ \A h \in Generators \ {g} : entry[h] # "active"

Clear(k, g) ==
    /\ Observing(k) /\ entry[g] # "none"
    /\ entry' = [entry EXCEPT ![g] = "none"]
    /\ IF LastActive(g) THEN Begin(k, "clear read") ELSE UNCHANGED op
    /\ UNCHANGED <<main, complete, ready, reason, before, lost, monitor, signal, shutdown, gate>>
    /\ UNCHANGED process

Step(k, from, to) ==
    /\ op[k] = from
    /\ op' = [op EXCEPT ![k] = to]
Elsewhere == <<main, complete, entry, lost, monitor, signal, shutdown, gate>>

\* The sink reads the reason, changes it, reads it again and, when it differs,
\* changes what /readyz answers.
ReadReason(k) ==
    /\ Step(k, "start read", "start mark") \/ Step(k, "clear read", "clear mark")
    /\ before' = [before EXCEPT ![k] = reason]
    /\ UNCHANGED <<ready, reason>> /\ UNCHANGED Elsewhere /\ UNCHANGED process
MarkReason(k) ==
    /\ \/ Step(k, "start mark", "start look") /\ reason' = Marked("drift")
       \/ Step(k, "clear mark", "clear look") /\ reason' = Cleared
    /\ UNCHANGED <<before, ready>> /\ UNCHANGED Elsewhere /\ UNCHANGED process
LookAgain(k) ==
    /\ \/ Step(k, "start look", IF reason # before[k] THEN "start set" ELSE "none")
       \/ Step(k, "clear look",
               IF reason # before[k] /\ complete /\ reason = "serving" THEN "clear set" ELSE "none")
    /\ before' = [before EXCEPT ![k] = "serving"]
    /\ UNCHANGED <<ready, reason>> /\ UNCHANGED Elsewhere /\ UNCHANGED process
SetReady(k) ==
    /\ \/ Step(k, "start set", "none") /\ ready' = FALSE
       \/ Step(k, "clear set", "none") /\ ready' = TRUE
    /\ UNCHANGED <<before, reason>> /\ UNCHANGED Elsewhere /\ UNCHANGED process

Drift(k) == ReadReason(k) \/ MarkReason(k) \/ LookAgain(k) \/ SetReady(k)

-----------------------------------------------------------------------------
(* The main task.                                                          *)

Goto(label) == main' = label

\* build_tso_service: the identity is acquired and the background tasks run.
Build ==
    /\ main = "build"
    /\ Goto("sink")
    /\ identity' = TRUE /\ background' = "run"
    /\ UNCHANGED <<bound, sink, complete, ready, reason, lost, monitor, signal, shutdown, server, gate>>
    /\ UNCHANGED drift

SetSink ==
    /\ main = "sink"
    /\ Goto("bindAdmin")
    /\ sink' = TRUE /\ monitor' = "watch"
    /\ UNCHANGED <<bound, complete, ready, reason, lost, signal, shutdown, server, gate, background, identity>>
    /\ UNCHANGED drift

\* mark_listener_bound.
Bind ==
    /\ \/ main = "bindAdmin" /\ Goto("bindGrpc") /\ bound' = bound \cup {"admin"}
       \/ main = "bindGrpc" /\ Goto("complete") /\ bound' = bound \cup {"grpc"}
    /\ UNCHANGED <<sink, complete, ready, reason, lost, monitor, signal, shutdown, server, gate, background, identity>>
    /\ UNCHANGED drift

\* A step of the start fails and run() returns the error: nothing of the process
\* runs on.
Exit ==
    /\ Goto("end")
    /\ monitor' = "off" /\ signal' = "off"
    /\ background' = "ended" /\ identity' = FALSE
    /\ op' = [k \in Tasks |-> "none"] /\ before' = [k \in Tasks |-> "serving"]
    /\ ready' = FALSE
StartFails ==
    /\ main \in {"build", "bindAdmin", "bindGrpc"}
    /\ Exit
    /\ UNCHANGED <<bound, sink, complete, reason, lost, shutdown, server, gate, entry>>

Complete ==
    /\ main = "complete"
    /\ Goto("check")
    /\ complete' = TRUE
    /\ UNCHANGED <<ready, reason, lost, monitor, signal, shutdown, gate>>
    /\ UNCHANGED process /\ UNCHANGED drift

\* Listeners and reason are checked, then /readyz is set.
CheckReady ==
    /\ main = "check"
    /\ Goto(IF bound = Listeners /\ reason = "serving" THEN "set" ELSE "serve")
    /\ UNCHANGED <<complete, ready, reason, lost, monitor, signal, shutdown, gate>>
    /\ UNCHANGED process /\ UNCHANGED drift
BecomeReady ==
    /\ main = "set"
    /\ Goto("serve")
    /\ ready' = TRUE
    /\ UNCHANGED <<complete, reason, lost, monitor, signal, shutdown, gate>>
    /\ UNCHANGED process /\ UNCHANGED drift

\* spawn_process_signal_monitor, then the servers run.
Serve ==
    /\ main = "serve" /\ server["grpc"] = "down"
    /\ server' = [l \in Listeners |-> "up"]
    /\ signal' = "watch"
    /\ UNCHANGED <<main, bound, sink, complete, ready, reason, lost, monitor, shutdown, gate, background, identity>>
    /\ UNCHANGED drift

\* A server fails, or it ends, after the shutdown was requested or without it.
ServerEnds(l, how) ==
    /\ server[l] = "up"
    /\ server' = [server EXCEPT ![l] = how]
    /\ UNCHANGED <<main, bound, sink, complete, ready, reason, lost, monitor, signal, shutdown, gate, background, identity>>
    /\ UNCHANGED drift

\* supervise_critical_servers: the first server that ends decides.  After a
\* requested shutdown the other one is awaited; otherwise the shutdown is
\* requested and the other has a second to end.
Supervise ==
    /\ main = "serve"
    /\ \E l \in Listeners : server[l] \in {"ended", "failed"}
          /\ Goto(IF shutdown /\ server[l] = "ended" THEN "grace" ELSE "mark")
    /\ UNCHANGED <<complete, ready, reason, lost, monitor, signal, shutdown, gate>>
    /\ UNCHANGED process /\ UNCHANGED drift

\* request_shutdown by the supervisor: the reason, /readyz, the channel.
FailMark ==
    /\ main = "mark"
    /\ Goto("unready")
    /\ reason' = Marked("shutting")
    /\ UNCHANGED <<complete, ready, lost, monitor, signal, shutdown, gate>>
    /\ UNCHANGED process /\ UNCHANGED drift
FailSend ==
    /\ main = "unready"
    /\ Goto("failed")
    /\ ready' = FALSE /\ shutdown' = TRUE
    /\ UNCHANGED <<complete, reason, lost, monitor, signal, gate>>
    /\ UNCHANGED process /\ UNCHANGED drift

\* The servers have ended, or the grace period of a failed one is over.  Then
\* the signal monitor is aborted and the service closes its gate.
ServersDone ==
    /\ \/ main = "grace" /\ \A l \in Listeners : server[l] \in {"ended", "failed"}
       \/ main = "failed"
    /\ Goto("gate")
    /\ server' = [l \in Listeners |-> "ended"]
    /\ signal' = "off"
    /\ UNCHANGED <<bound, sink, complete, ready, reason, lost, monitor, shutdown, gate, background, identity>>
    /\ UNCHANGED drift

\* TsoService::shutdown: begin_shutdown and the gate; the flush, with a timeout;
\* the background tasks are awaited; then the identity lease is given up.
CloseGate ==
    /\ main = "gate"
    /\ Goto("drain")
    /\ gate' = TRUE
    /\ UNCHANGED <<complete, ready, reason, lost, monitor, signal, shutdown>>
    /\ UNCHANGED process /\ UNCHANGED drift

\* Mutant of Drained: the background tasks are not awaited.
DrainedNot == TRUE
\* drain_tasks.
Drained == background = "ended" /\ \A k \in Tasks : op[k] = "none"

Drain ==
    /\ main = "drain" /\ Drained
    /\ Goto("release")
    /\ UNCHANGED <<complete, ready, reason, lost, monitor, signal, shutdown, gate>>
    /\ UNCHANGED process /\ UNCHANGED drift
ReleaseIdentity ==
    /\ main = "release"
    /\ identity' = FALSE
    /\ Goto("end")
    /\ monitor' = "off"
    /\ UNCHANGED <<bound, sink, complete, ready, reason, lost, signal, shutdown, server, gate, background>>
    /\ UNCHANGED drift

MainStep ==
    \/ Build \/ SetSink \/ Bind \/ Complete \/ CheckReady \/ BecomeReady \/ Serve \/ Supervise
    \/ FailMark \/ FailSend \/ ServersDone \/ CloseGate \/ Drain \/ ReleaseIdentity

\* Mutant of BackgroundStep: the loops do not listen to the shutdown.
BackgroundStepOn ==
    /\ \/ background = "run" /\ background' = "busy"
       \/ background = "busy" /\ background' = "run"
    /\ UNCHANGED <<main, bound, sink, complete, ready, reason, lost, monitor, signal, shutdown, server, gate, identity>>
    /\ UNCHANGED drift

\* The loops of the background tasks: between two ticks they see the shutdown.
BackgroundStep ==
    /\ \/ background = "run" /\ main \in {"drain", "release"} /\ background' = "ended"
       \/ background = "run" /\ background' = "busy"
       \/ background = "busy" /\ background' = "run"
    /\ UNCHANGED <<main, bound, sink, complete, ready, reason, lost, monitor, signal, shutdown, server, gate, identity>>
    /\ UNCHANGED drift

-----------------------------------------------------------------------------
(* The monitors.                                                           *)

LoseIdentity ==
    /\ identity /\ ~lost
    /\ lost' = TRUE
    /\ UNCHANGED <<main, complete, ready, reason, monitor, signal, shutdown, gate>>
    /\ UNCHANGED process /\ UNCHANGED drift

\* spawn_identity_lease_loss_monitor: the gate first, then request_shutdown.
LossMonitor ==
    /\ \/ monitor = "watch" /\ lost /\ monitor' = "mark" /\ gate' = TRUE /\ UNCHANGED <<reason, ready, shutdown>>
       \/ monitor = "mark" /\ monitor' = "send" /\ reason' = Marked("lost") /\ UNCHANGED <<gate, ready, shutdown>>
       \/ monitor = "send" /\ monitor' = "off" /\ ready' = FALSE /\ shutdown' = TRUE /\ UNCHANGED <<gate, reason>>
    /\ UNCHANGED <<main, complete, lost, signal>>
    /\ UNCHANGED process /\ UNCHANGED drift

\* A signal arrives, and request_shutdown.
SignalArrives ==
    /\ signal = "watch"
    /\ signal' = "mark"
    /\ UNCHANGED <<main, complete, ready, reason, lost, monitor, shutdown, gate>>
    /\ UNCHANGED process /\ UNCHANGED drift
SignalMonitor ==
    /\ \/ signal = "mark" /\ signal' = "send" /\ reason' = Marked("shutting") /\ UNCHANGED <<ready, shutdown>>
       \/ signal = "send" /\ signal' = "off" /\ ready' = FALSE /\ shutdown' = TRUE /\ UNCHANGED reason
    /\ UNCHANGED <<main, complete, lost, monitor, gate>>
    /\ UNCHANGED process /\ UNCHANGED drift

Ended == main = "end" /\ UNCHANGED vars

Next ==
    \/ MainStep \/ StartFails \/ BackgroundStep
    \/ \E l \in Listeners, how \in {"ended", "failed"} : ServerEnds(l, how)
    \/ LoseIdentity \/ LossMonitor \/ SignalArrives \/ SignalMonitor
    \/ \E k \in Tasks : Drift(k) \/ \E g \in Generators : Observe(k, g) \/ Clear(k, g)
    \/ Ended

Spec == Init /\ [][Next]_vars

-----------------------------------------------------------------------------
Reasons == {"serving", "drift", "shutting", "lost"}

\* The start is complete, and with it the servers up and /readyz ready, only with
\* both listeners bound (StartupServingGate).
TypeOK ==
    /\ main \in Mains /\ bound \subseteq Listeners
    /\ reason \in Reasons /\ before \in [Tasks -> Reasons]
    /\ entry \in [Generators -> {"none", "seen", "active"}]
    /\ monitor \in Monitors /\ signal \in Monitors
    /\ ready \/ server["grpc"] = "up" => complete
    /\ complete => bound = Listeners

\* The gravest reason stays: after a shutdown began no drift that ends makes the
\* worker serve again, and a lost identity is never hidden.
ReasonsOnlyWorsen ==
    /\ reason = "lost" => reason' = "lost"
    /\ reason = "shutting" => reason' \in {"shutting", "lost"}

\* The identity lease is given up only behind the closed gate and after the last
\* background task: nothing of this worker runs under a free identity.
IdentityOutlivesService ==
    identity = FALSE /\ main = "end" /\ bound = Listeners => gate /\ background = "ended"

\* A worker whose identity is lost serves nothing any more once it is said to be
\* so: the gate closes before the reason appears.
LossClosesGate == reason = "lost" => gate

Quiet == complete /\ main = "serve" /\ \A k \in Tasks : op[k] = "none"
Contended == \E g \in Generators : entry[g] = "active"

\* When every call of the sink is over, the reported reason is drift exactly
\* while a generator is contended, and /readyz says ready exactly while the
\* reason is serving (StartupWorkerReadinessSink, OwnershipDriftTracker).
Settled ==
    Quiet /\ reason \in {"serving", "drift"} =>
        /\ reason = "drift" <=> Contended
        /\ ready <=> reason = "serving"
=============================================================================
