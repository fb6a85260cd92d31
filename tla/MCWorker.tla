------------------------------ MODULE MCWorker ------------------------------
(***************************************************************************)
(* What tasks of one worker, of the proxy and of a client wait for and     *)
(* share, for TLC: the singleflight of a generator's lease (LeaseFlight,   *)
(* which this module extends) and of a timeline's load (LoadFlight), the   *)
(* turns of an allocation (Admission), the cache of timelines              *)
(* (CacheEviction), the lanes of the proxy (ProxyLanes), the route of a    *)
(* client (ClientRecovery) and the listeners (Listeners).  A behaviour     *)
(* stays in the one scenario it starts in; the variables of the components *)
(* that it leaves out stay at 0, those of LeaseFlight in the initial state.*)
(***************************************************************************)
EXTENDS LeaseFlight, Naturals, TLC

CONSTANTS a1, a2, a3, o1, o2, o3, o4, k1, k2, k3

VARIABLES
    scenario,
    stored, loading, loaded, loadPc, at, asleep, read, newest, since,
    turn, queue, enabled, permit, askPc, askAfter, contended, failures, tokens, refilled, level,
    timelines, touched, count, gens, cands, lock, cachePc, cacheKey, kind, held, built, todo,
    deferred, answer, spared,
    serializers, active, mutex, slots, idle, lanePc, laneKey, lane, after, seen, attempts,
    victim, target,
    version, state, snapshot, guard, clientPc, observed, retries, fetched, recorded, charged, lost,
    loop, conn, used, spare, shutdown

loads == <<stored, loading, loaded, loadPc, at, asleep, read, newest, since>>
turns == <<turn, queue, enabled, permit, askPc, askAfter, contended, failures, tokens, refilled,
           level>>
cache == <<timelines, touched, count, gens, cands, lock, cachePc, cacheKey, kind, held, built,
           todo, deferred, answer, spared>>
lanes == <<serializers, active, mutex, slots, idle, lanePc, laneKey, lane, after, seen, attempts,
           victim, target>>
client == <<version, state, snapshot, guard, clientPc, observed, retries, fetched, recorded,
            charged, lost>>
listeners == <<loop, conn, used, spare, shutdown>>
mcvars == <<scenario, vars, loads, turns, cache, lanes, client, listeners>>

-----------------------------------------------------------------------------
\* Three tasks load one record, which is written meanwhile.
Loads == INSTANCE LoadFlight WITH
    version <- stored, entry <- loading, result <- loaded, pc <- loadPc,
    Callers <- {a1, a2, a3}, Flights <- {o1, o2}, MaxVersion <- 1

\* Three requests, two of one timeline; allocations fail for contention.
KeyOf == (a1 :> k1) @@ (a2 :> k1) @@ (a3 :> k2)
Count == (a1 :> 2) @@ (a2 :> 1) @@ (a3 :> 2)
Turns == INSTANCE Admission WITH
    active <- turn, pc <- askPc, after <- askAfter, retries <- contended, since <- refilled,
    Requests <- {a1, a2, a3}, Timelines <- {k1, k2}, Patient <- {a1, a2},
    Capacity <- 2, Window <- 2, MaxContended <- 2, MaxFailures <- 1, MaxRewind <- 0,
    Faults <- {"cancel", "drop"}

\* The same with a clock that is set back.
Rewound == INSTANCE Admission WITH
    active <- turn, pc <- askPc, after <- askAfter, retries <- contended, since <- refilled,
    Requests <- {a1, a2, a3}, Timelines <- {k1, k2}, Patient <- {a1, a2},
    Capacity <- 2, Window <- 2, MaxContended <- 2, MaxFailures <- 0, MaxRewind <- 1,
    Faults <- {"rewind"}

\* Two tasks, two timelines, room for one.
Cache == INSTANCE CacheEviction WITH
    pc <- cachePc, key <- cacheKey,
    Keys <- {k1, k2}, States <- {o1, o2, o3, o4}, Tasks <- {a1, a2}, MaxEntries <- 1

\* One task, three timelines, room for two: an eviction has candidates to choose from.
Batch == INSTANCE CacheEviction WITH
    pc <- cachePc, key <- cacheKey,
    Keys <- {k1, k2, k3}, States <- {o1, o2, o3, o4}, Tasks <- {a1}, MaxEntries <- 2

\* Three requests for two timelines, one lane.
Lanes == INSTANCE ProxyLanes WITH
    pc <- lanePc, key <- laneKey,
    Keys <- {k1, k2}, Lanes <- {o1, o2, o3, o4}, Requests <- {a1, a2, a3},
    MaxSerializers <- 1, MaxQueue <- 3

\* The route moves from the first worker to the second and to the third.
Tour == (0 :> o1) @@ (1 :> o2) @@ (2 :> o3)
Client == INSTANCE ClientRecovery WITH
    pc <- clientPc,
    Workers <- {o1, o2, o3}, Bootstrap <- o1, Calls <- {a1, a2}, OwnerOf <- Tour, MaxVersion <- 2,
    Attempts <- 2, Idempotent <- TRUE, Faults <- {"crash", "silent"}, Fragile <- {o1, o2, o3},
    MaxLost <- 1

\* One client after another at listeners with one permit.
Ports == INSTANCE Listeners WITH
    Clients <- {a1, a2}, Limit <- [l \in {"metrics", "health", "grpc"} |-> 1], Tls <- TRUE

\* Smaller ones, for what must happen in the end.
Reloads == INSTANCE LoadFlight WITH
    version <- stored, entry <- loading, result <- loaded, pc <- loadPc,
    Callers <- {a1, a2}, Flights <- {o1, o2}, MaxVersion <- 1

Waiting == INSTANCE Admission WITH
    active <- turn, pc <- askPc, after <- askAfter, retries <- contended, since <- refilled,
    Requests <- {a1, a2, a3}, Timelines <- {k1, k2}, Patient <- {a1, a2},
    Capacity <- 2, Window <- 2, MaxContended <- 2, MaxFailures <- 0, MaxRewind <- 0,
    Faults <- {"cancel", "drop"}

Moved == INSTANCE ClientRecovery WITH
    pc <- clientPc,
    Workers <- {o1, o2, o3}, Bootstrap <- o1, Calls <- {a1}, OwnerOf <- Tour, MaxVersion <- 2,
    Attempts <- 2, Idempotent <- TRUE, Faults <- {"crash"}, Fragile <- {o2}, MaxLost <- 1

Closing == INSTANCE Listeners WITH
    Clients <- {a1}, Limit <- [l \in {"metrics", "health", "grpc"} |-> 1], Tls <- TRUE

ASSUME /\ Loads!LoadAssumption /\ Turns!AdmissionAssumption /\ Rewound!AdmissionAssumption
       /\ Cache!CacheAssumption /\ Batch!CacheAssumption /\ Lanes!ProxyAssumption /\ Client!ClientAssumption
       /\ Ports!ListenersAssumption /\ Reloads!LoadAssumption /\ Waiting!AdmissionAssumption
       /\ Moved!ClientAssumption /\ Closing!ListenersAssumption

-----------------------------------------------------------------------------
LoadsIdle ==
    /\ stored = 0 /\ loading = 0 /\ loaded = 0 /\ loadPc = 0 /\ at = 0 /\ asleep = 0 /\ read = 0
    /\ newest = 0 /\ since = 0
TurnsIdle ==
    /\ turn = 0 /\ queue = 0 /\ enabled = 0 /\ permit = 0 /\ askPc = 0 /\ askAfter = 0
    /\ contended = 0 /\ failures = 0 /\ tokens = 0 /\ refilled = 0 /\ level = 0
CacheIdle ==
    /\ timelines = 0 /\ touched = 0 /\ count = 0 /\ gens = 0 /\ cands = 0 /\ lock = 0
    /\ cachePc = 0 /\ cacheKey = 0 /\ kind = 0 /\ held = 0 /\ built = 0 /\ todo = 0
    /\ deferred = 0 /\ answer = 0 /\ spared = 0
LanesIdle ==
    /\ serializers = 0 /\ active = 0 /\ mutex = 0 /\ slots = 0 /\ idle = 0 /\ lanePc = 0
    /\ laneKey = 0 /\ lane = 0 /\ after = 0 /\ seen = 0 /\ attempts = 0 /\ victim = 0 /\ target = 0
ClientIdle ==
    /\ version = 0 /\ state = 0 /\ snapshot = 0 /\ guard = 0 /\ clientPc = 0 /\ observed = 0
    /\ retries = 0 /\ fetched = 0 /\ recorded = 0 /\ charged = 0 /\ lost = 0
PortsIdle == loop = 0 /\ conn = 0 /\ used = 0 /\ spare = 0 /\ shutdown = 0

MCInit ==
    /\ Init
    /\ \/ /\ scenario = "flight"
          /\ LoadsIdle /\ TurnsIdle /\ CacheIdle /\ LanesIdle /\ ClientIdle /\ PortsIdle
       \/ /\ scenario = "loads" /\ Loads!Init
          /\ TurnsIdle /\ CacheIdle /\ LanesIdle /\ ClientIdle /\ PortsIdle
       \/ /\ \/ scenario = "turns" /\ Turns!Init
             \/ scenario = "rewound" /\ Rewound!Init
          /\ LoadsIdle /\ CacheIdle /\ LanesIdle /\ ClientIdle /\ PortsIdle
       \/ /\ \/ scenario = "cache" /\ Cache!Init
             \/ scenario = "batch" /\ Batch!Init
          /\ LoadsIdle /\ TurnsIdle /\ LanesIdle /\ ClientIdle /\ PortsIdle
       \/ /\ scenario = "lanes" /\ Lanes!Init
          /\ LoadsIdle /\ TurnsIdle /\ CacheIdle /\ ClientIdle /\ PortsIdle
       \/ /\ scenario = "client" /\ Client!Init
          /\ LoadsIdle /\ TurnsIdle /\ CacheIdle /\ LanesIdle /\ PortsIdle
       \/ /\ scenario = "ports" /\ Ports!Init
          /\ LoadsIdle /\ TurnsIdle /\ CacheIdle /\ LanesIdle /\ ClientIdle

MCNext ==
    /\ UNCHANGED scenario
    /\ \/ /\ scenario = "flight" /\ Next
          /\ UNCHANGED <<loads, turns, cache, lanes, client, listeners>>
       \/ /\ scenario = "loads" /\ Loads!Next
          /\ UNCHANGED <<vars, turns, cache, lanes, client, listeners>>
       \/ /\ \/ scenario = "turns" /\ Turns!Next
             \/ scenario = "rewound" /\ Rewound!Next
          /\ UNCHANGED <<vars, loads, cache, lanes, client, listeners>>
       \/ /\ \/ scenario = "cache" /\ Cache!Next
             \/ scenario = "batch" /\ Batch!Next
          /\ UNCHANGED <<vars, loads, turns, lanes, client, listeners>>
       \/ /\ scenario = "lanes" /\ Lanes!Next
          /\ UNCHANGED <<vars, loads, turns, cache, client, listeners>>
       \/ /\ scenario = "client" /\ Client!Next
          /\ UNCHANGED <<vars, loads, turns, cache, lanes, listeners>>
       \/ /\ scenario = "ports" /\ Ports!Next
          /\ UNCHANGED <<vars, loads, turns, cache, lanes, client>>

MCSpec == MCInit /\ [][MCNext]_mcvars

LiveInit ==
    /\ Init /\ CacheIdle /\ LanesIdle
    /\ \/ scenario = "flight" /\ LoadsIdle /\ TurnsIdle /\ ClientIdle /\ PortsIdle
       \/ scenario = "reloads" /\ Reloads!Init /\ TurnsIdle /\ ClientIdle /\ PortsIdle
       \/ scenario = "waiting" /\ LoadsIdle /\ Waiting!Init /\ ClientIdle /\ PortsIdle
       \/ scenario = "moved" /\ LoadsIdle /\ TurnsIdle /\ Moved!Init /\ PortsIdle
       \/ scenario = "closing" /\ LoadsIdle /\ TurnsIdle /\ ClientIdle /\ Closing!Init

LiveNext ==
    /\ UNCHANGED <<scenario, cache, lanes>>
    /\ \/ scenario = "flight" /\ Next /\ UNCHANGED <<loads, turns, client, listeners>>
       \/ scenario = "reloads" /\ Reloads!Next /\ UNCHANGED <<vars, turns, client, listeners>>
       \/ scenario = "waiting" /\ Waiting!Next /\ UNCHANGED <<vars, loads, client, listeners>>
       \/ scenario = "moved" /\ Moved!Next /\ UNCHANGED <<vars, loads, turns, listeners>>
       \/ scenario = "closing" /\ Closing!Next /\ UNCHANGED <<vars, loads, turns, client>>

\* The runtime polls what can run, what is polled ends (each call has a timeout and
\* each loop a budget), time goes on and timers fire; failover moves the route from an owner that is gone; the branches of
\* select! are tried in random order.  Clients of the listeners need do nothing.
Only(s, others) == scenario = s /\ UNCHANGED <<scenario, cache, lanes, others>>
Polled(a) ==
    \/ Only("flight", <<loads, turns, client, listeners>>) /\ Proceed(a)
    \/ Only("reloads", <<vars, turns, client, listeners>>) /\ a # a3 /\ Reloads!Proceed(a)
    \/ Only("waiting", <<vars, loads, client, listeners>>) /\ Waiting!Proceed(a)
    \/ Only("moved", <<vars, loads, turns, listeners>>) /\ a = a1
                                                       /\ (Moved!Proceed(a) \/ Moved!TakeGuard(a))
Passing ==
    \/ Only("waiting", <<vars, loads, client, listeners>>) /\ Waiting!Tick
    \/ /\ Only("moved", <<vars, loads, turns, listeners>>)
       /\ state[Tour[version]] # "up" /\ Moved!MoveRoute
Closes == Only("closing", <<vars, loads, turns, client>>)
LiveSpec ==
    /\ LiveInit /\ [][LiveNext]_mcvars
    /\ \A a \in {a1, a2, a3} : WF_mcvars(Polled(a))
    /\ WF_mcvars(Passing)
    /\ \A l \in {"metrics", "health"} :
          /\ WF_mcvars(Closes /\ Closing!SeeShutdown(l)) /\ WF_mcvars(Closes /\ Closing!Finish(l))
          /\ WF_mcvars(Closes /\ Closing!Expire(l, a1)) /\ WF_mcvars(Closes /\ Closing!Join(l, a1))
          /\ WF_mcvars(Closes /\ Closing!Aborted(l, a1))

-----------------------------------------------------------------------------
\* Loads do not go back in time: one that begins after another has returned gives
\* a record at least as new, although it may join a flight that read before it
\* began (load_once).
LoadsNeverGoBack == scenario = "loads" => Loads!TypeOK /\ Loads!NeverGoBack

\* One request at a time has the turn, although release_inner compares the keys of
\* timelines and not the requests; what a timeline was issued never exceeds its
\* quota's bucket, and a failed allocation's charge is given back
\* (charge_timeline_quota, refund_timeline_quota).
TurnsAndQuotaKept ==
    /\ scenario = "turns" => Turns!TypeOK /\ Turns!OneTurn /\ Turns!NothingLost /\ Turns!QuotaKept
    /\ scenario = "rewound" => Rewound!OneTurn /\ Rewound!QuotaKept

\* The capacity of the cache is strict under racing insertions, and no entry falls
\* out of the eviction, through deferrals, evictions, removals and insertions of
\* the same key again (evict_one_idle_entry, record_eviction_candidate); nor does a
\* listener take more connections than its limit, lose a slot, or leave one open
\* behind (serve_metrics_listener, serve_health_listener).
CapacityKept ==
    /\ scenario = "ports" => Ports!TypeOK /\ Ports!EndedIsQuiet
    /\ scenario = "cache" => Cache!TypeOK /\ Cache!CapacityStrict /\ Cache!EveryEntryEvictable
    /\ scenario = "batch" => Batch!CapacityStrict /\ Batch!EveryEntryEvictable

\* The allocations of one timeline run one at a time, although lanes are pruned and
\* inserted again under the requests; no slot and no idle lane is lost
\* (serializer_for, try_prune_idle_candidates).
OneAtATime ==
    scenario = "lanes" => Lanes!TypeOK /\ Lanes!OneAtATime /\ Lanes!SlotsAccounted /\ Lanes!IdleLanesFindable

\* A client call is charged for one allocation at most, although attempts whose
\* answer is lost are repeated, at other owners too (allocate_timestamps,
\* next_client_request_id).
ChargedOnce == scenario = "client" => Client!TypeOK /\ Client!ChargedOnce

Waits(a) ==
    CASE scenario = "flight" -> pc[a] = "wait"
      [] scenario = "reloads" -> a # a3 /\ loadPc[a] = "sleep"
      [] scenario = "waiting" -> askPc[a] # "done"
      [] scenario = "moved" -> a = a1 /\ clientPc[a] # "ok"
      [] scenario = "closing" ->
            /\ a # a3 /\ shutdown
            /\ loop[IF a = a1 THEN "metrics" ELSE "health"] \notin {"ended", "failed", "dropped"}

\* Whoever waits goes on, whoever before it fails, is cancelled or is dropped at
\* whatever await: a caller in changed() of a lease flight and a waiter of a load
\* are woken, an allocation gets its turn and ends, a client is served again after
\* each change of the owner, and the listeners end once the process shuts down,
\* whatever their clients do.
EveryoneGoesOn == \A a \in {a1, a2, a3} : Waits(a) ~> ~Waits(a)
=============================================================================
