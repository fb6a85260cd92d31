----------------------------- MODULE MCStartup -----------------------------
(***************************************************************************)
(* The start and the end of a worker, for TLC: the lease on its identity   *)
(* (IdentityLease, which this module extends), its place in the ownership  *)
(* plan (OwnershipPlan), the format marker (ClusterFormat), the            *)
(* configuration it starts with (Configuration), and its readiness and its *)
(* shutdown (WorkerReadiness).  A behaviour stays in the one scenario it   *)
(* starts in; the variables of the components that it leaves out stay at 0,*)
(* those of IdentityLease in the initial state.                            *)
(***************************************************************************)
EXTENDS IdentityLease, TLC

CONSTANTS p1, t1

VARIABLES
    scenario,
    active, record, current, planPc, seen, proposal, attempt,
    format, layout, data, legacy, formatPc, unread, tries,
    main, bound, sink, complete, ready, reason, entry, op, before, gone, monitor, signal,
    shutdown, serving, gate, background, identity,
    env, config, at

plan == <<active, record, current, planPc, seen, proposal, attempt>>
marker == <<format, layout, data, legacy, formatPc, unread, tries>>
readiness == <<main, bound, sink, complete, ready, reason, entry, op, before, gone, monitor,
               signal, shutdown, serving, gate, background, identity>>
configuration == <<env, config, at>>
mcvars == <<scenario, vars, plan, marker, readiness, configuration>>

-----------------------------------------------------------------------------
\* a and b are the two workers of plan 1; a2 is a's replacement, the same worker
\* id and endpoint in a new process; c is configured with b's remainder; d belongs
\* to plan 2; u is not partitioned; o is a worker of an older version.
Members ==
    LET member(id, p, modulo, own) == [id |-> id, plan |-> p, modulo |-> modulo, own |-> own]
    IN ("a" :> member("A", "one", 3, {0, 2})) @@ ("a2" :> member("A", "one", 3, {0, 2})) @@
       ("b" :> member("B", "one", 3, {1})) @@ ("c" :> member("C", "one", 3, {1})) @@
       ("d" :> member("D", "two", 2, {0})) @@ ("o" :> member("O", "one", 3, {0})) @@
       ("u" :> member("U", "one", 1, {0}))
Ids == [w \in DOMAIN Members |-> Members[w].id]
Plans == [w \in DOMAIN Members |-> Members[w].plan]
Modulos == [w \in DOMAIN Members |-> Members[w].modulo]
Owned == [w \in DOMAIN Members |-> Members[w].own]

\* Workers that start one after the other, as docs/production.md asks for.
Ordered == INSTANCE OwnershipPlan WITH
    pc <- planPc, Workers <- {"a", "a2", "b", "c", "d"}, Id <- Ids, Endpoint <- Ids, Plan <- Plans,
    Modulo <- Modulos, Remainders <- Owned, Legacy <- {}, OneAtATime <- TRUE, MaxAttempts <- 2

\* With one of an older version among them.
Mixed == INSTANCE OwnershipPlan WITH
    pc <- planPc, Workers <- {"a", "b", "d", "o"}, Id <- Ids, Endpoint <- Ids, Plan <- Plans,
    Modulo <- Modulos, Remainders <- Owned, Legacy <- {"o"}, OneAtATime <- TRUE, MaxAttempts <- 2

\* Workers that start together.
Races == INSTANCE OwnershipPlan WITH
    pc <- planPc, Workers <- {"b", "c", "u"}, Id <- Ids, Endpoint <- Ids, Plan <- Plans,
    Modulo <- Modulos, Remainders <- Owned, Legacy <- {}, OneAtATime <- FALSE, MaxAttempts <- 2

\* Two workers with a custom layout, one with the default, and one of format 2.
Configured == ("d" :> "default") @@ ("u" :> "custom") @@ ("v" :> "custom")
Upgrade == INSTANCE ClusterFormat WITH
    pc <- formatPc, left <- unread, Workers <- {"d", "u", "v"}, Layout <- Configured,
    Default <- "default", LegacyFormats <- {2}, Attempts <- 3

\* Two generators whose ownership drifts.
Process == INSTANCE WorkerReadiness WITH
    lost <- gone, server <- serving, Generators <- {7, 8}, Tasks <- {t1}, EarlyDrift <- FALSE

\* One, for the end.
Closing == INSTANCE WorkerReadiness WITH
    lost <- gone, server <- serving, Generators <- {7}, Tasks <- {t1}, EarlyDrift <- FALSE

Start == INSTANCE Configuration WITH Audited <- TRUE

ASSUME /\ Ordered!PlanAssumption /\ Mixed!PlanAssumption /\ Races!PlanAssumption
       /\ Upgrade!FormatAssumption

-----------------------------------------------------------------------------
PlanIdle ==
    /\ active = 0 /\ record = 0 /\ current = 0 /\ planPc = 0 /\ seen = 0 /\ proposal = 0
    /\ attempt = 0
MarkerIdle ==
    /\ format = 0 /\ layout = 0 /\ data = 0 /\ legacy = 0 /\ formatPc = 0 /\ unread = 0
    /\ tries = 0
ReadinessIdle ==
    /\ main = 0 /\ bound = 0 /\ sink = 0 /\ complete = 0 /\ ready = 0 /\ reason = 0 /\ entry = 0
    /\ op = 0 /\ before = 0 /\ gone = 0 /\ monitor = 0 /\ signal = 0 /\ shutdown = 0
    /\ serving = 0 /\ gate = 0 /\ background = 0 /\ identity = 0
ConfigurationIdle == env = 0 /\ config = 0 /\ at = 0

MCInit ==
    /\ Init
    /\ \/ scenario = "identity" /\ PlanIdle /\ MarkerIdle /\ ReadinessIdle /\ ConfigurationIdle
       \/ /\ \/ scenario = "ordered" /\ Ordered!Init
             \/ scenario = "mixed" /\ Mixed!Init
             \/ scenario = "races" /\ Races!Init
          /\ MarkerIdle /\ ReadinessIdle /\ ConfigurationIdle
       \/ scenario = "upgrade" /\ Upgrade!Init /\ PlanIdle /\ ReadinessIdle /\ ConfigurationIdle
       \/ scenario = "process" /\ Process!Init /\ PlanIdle /\ MarkerIdle /\ ConfigurationIdle
       \/ scenario = "start" /\ Start!Init /\ PlanIdle /\ MarkerIdle /\ ReadinessIdle

Started == at \in {"serving", "refused", "failed"} /\ UNCHANGED configuration

MCNext ==
    /\ UNCHANGED scenario
    /\ \/ scenario = "identity" /\ Next /\ UNCHANGED <<plan, marker, readiness, configuration>>
       \/ /\ \/ scenario = "ordered" /\ Ordered!Next
             \/ scenario = "mixed" /\ Mixed!Next
             \/ scenario = "races" /\ Races!Next
          /\ UNCHANGED <<vars, marker, readiness, configuration>>
       \/ /\ scenario = "upgrade" /\ Upgrade!Next
          /\ UNCHANGED <<vars, plan, readiness, configuration>>
       \/ scenario = "process" /\ Process!Next /\ UNCHANGED <<vars, plan, marker, configuration>>
       \/ /\ scenario = "start" /\ (Start!Next \/ Started)
          /\ UNCHANGED <<vars, plan, marker, readiness>>

MCSpec == MCInit /\ [][MCNext]_mcvars

LiveInit ==
    /\ Init /\ PlanIdle /\ MarkerIdle /\ ConfigurationIdle
    /\ \/ scenario = "identity" /\ ReadinessIdle
       \/ scenario = "closing" /\ Closing!Init

LiveNext ==
    /\ UNCHANGED <<scenario, plan, marker, configuration>>
    /\ \/ scenario = "identity" /\ Next /\ UNCHANGED readiness
       \/ scenario = "closing" /\ Closing!Next /\ UNCHANGED vars

\* Time passes, etcd deletes what has expired, and the runtime polls what can run:
\* the keepalive task, whose steps have a deadline, the monitors, run() and the
\* tasks of the service.  Whether etcd answers is not assumed.  A background task
\* sees the shutdown between two ticks, and a server ends once it is sent.
Identity == scenario = "identity" /\ UNCHANGED <<scenario, plan, marker, readiness, configuration>>
Ending == scenario = "closing" /\ UNCHANGED <<scenario, vars, plan, marker, configuration>>
Passing ==
    \/ Identity /\ Tick
    \/ Ending /\ Closing!MainStep
Cleaning ==
    \/ Identity /\ \E l \in Leases : Expire(l)
    \/ Ending /\ background = "busy" /\ Closing!BackgroundStep
Polled(p) == Identity /\ (KeepaliveTask(p) \/ LossMonitor(p))
Called == Ending /\ (Closing!Drift(t1) \/ Closing!LossMonitor \/ Closing!SignalMonitor)
LiveSpec ==
    /\ LiveInit /\ [][LiveNext]_mcvars
    /\ WF_mcvars(Passing) /\ WF_mcvars(Cleaning) /\ WF_mcvars(Called)
    /\ \A p \in Processes : WF_mcvars(Polled(p))
    /\ SF_mcvars(/\ Ending /\ background = "run" /\ main = "drain"
                 /\ Closing!BackgroundStep /\ background' = "ended")
    /\ WF_mcvars(Ending /\ shutdown /\ \E l \in {"grpc", "admin"} : Closing!ServerEnds(l, "ended"))

-----------------------------------------------------------------------------
\* The workers that run have different remainders and one plan, and are members of
\* it, through replacements, crashes, workers of another plan and of an older
\* version (admit_ownership_plan_member); and the record, whoever writes it
\* together with whom, is one that validate_integrity accepts.
OneOwner ==
    /\ scenario = "ordered" => Ordered!TypeOK /\ Ordered!OneOwner /\ Ordered!OnePlan /\ Ordered!ServingIsMember
    /\ scenario = "mixed" => Mixed!OneOwner
    /\ scenario = "races" => Races!RecordIntegrity

\* Timestamps under one prefix are all in one layout, and no worker of the current
\* format serves beside a legacy one, through migrations of the marker, refused and
\* repeated starts and workers with other configurations
\* (ensure_cluster_format_marker).
OneLayout == scenario = "upgrade" => Upgrade!TypeOK /\ Upgrade!OneLayout /\ Upgrade!NoMixedFormats

\* What preflight accepts keeps the assumptions that the other modules make of
\* their constants, is what the environment says, leaves no surface open and is not
\* refused later (validate_for_startup, validate_runtime_contract).
AssumptionsMet ==
    scenario = "start" =>
        /\ Start!TypeOK /\ Start!AssumptionsMet /\ Start!RenewalsFit /\ Start!EnvironmentWins
        /\ Start!SurfacesProtected /\ Start!StartsAsChecked

\* Nothing of a worker runs under a free identity, the gate is closed before a loss
\* is reported, and after the last call of the sink the reason is drift exactly
\* while a generator is contended; a graver reason is never replaced by a lesser one
\* (run, StartupWorkerReadinessSink).
IdentityOutlivesService ==
    /\ [](scenario = "process" =>
            /\ Process!TypeOK /\ Process!IdentityOutlivesService
            /\ Process!LossClosesGate /\ Process!Settled)
    /\ [][scenario = "process" => Process!ReasonsOnlyWorsen]_mcvars

\* A service that must end does: a worker whose identity is gone stops serving, also
\* when etcd never answers again (the deadline of the keepalive task and the loss
\* monitor); and after a requested shutdown the servers, the background tasks and
\* the identity come to their end in order, whatever fails meanwhile (run).  The
\* processes of an identity are interchangeable, p1 is any of them.
ServiceEnds ==
    \/ scenario = "identity" /\ pc[p1] = "serve" /\ key # held[p1]
    \/ scenario = "closing" /\ shutdown
    ~> \/ scenario = "identity" /\ pc[p1] # "serve"
       \/ scenario = "closing" /\ main = "end"
=============================================================================
