----------------------------- MODULE MCTimeline -----------------------------
(***************************************************************************)
(* The timestamps of a timeline, for TLC.  A behaviour stays in the one    *)
(* scenario it starts in:                                                  *)
(*   layout    one timeline on one generator after another                 *)
(*             (TimestampLayout, which this module extends);               *)
(*   failover, crash, local, shared, restart                               *)
(*             the life of a TimelineState (Timeline);                     *)
(*   flush     TsoService::shutdown (ShutdownFlush).                       *)
(* The variables of the components that a scenario leaves out stay at 0,   *)
(* those of TimestampLayout in its initial state.                          *)
(***************************************************************************)
EXTENDS TimestampLayout, TLC

CONSTANTS h1, h2, r1, r2

\* The closed form of an allocation's ranges is what the loop of allocate_after
\* leaves, for starts and sizes up to two carries apart.
ASSUME SplitIsCut ==
    \A start \in 0..(2 * SeqCap), count \in 1..(2 * SeqCap + 1), g \in Generators :
        SplitRanges(start, count, g) = CutRanges(start, count, g)

VARIABLES
    scenario,
    rec, rev, gens, up, cache, hs, flight, watch, inval, req, xfer, top,
    main, record, issued, cached, lapsed, request, cursor, local, pool, target,
    task, served, excused

timeline == <<rec, rev, gens, up, cache, hs, flight, watch, inval, req, xfer, top>>
flush == <<main, record, issued, cached, lapsed, request, cursor, local, pool, target,
           task, served, excused>>
mcvars == <<scenario, vars, timeline, flush>>

-----------------------------------------------------------------------------
\* The transfers <<by, from, to>> of the scenarios.
ToPeer == {<<1, 0, 1>>}
BackAndForth == {<<0, 0, 1>>, <<0, 1, 0>>}
AlongThree == {<<1, 0, 1>>, <<2, 1, 2>>}

\* Two workers with a generator each; the other takes the timeline over when the
\* lease of its generator has lapsed.
Failover == INSTANCE Timeline WITH
    NWorkers <- 2, NGens <- 2, Handles <- {h1, h2}, Requests <- {r1}, Kinds <- {"allocate"},
    Reasons <- {"Failover"}, Moves <- ToPeer, Faults <- {"lapse", "crash"},
    MaxMs <- 1, MaxEpoch <- 2

\* The same, with one millisecond more, when the worker has crashed.
Crash == INSTANCE Timeline WITH
    NWorkers <- 2, NGens <- 2, Handles <- {h1, h2}, Requests <- {r1}, Kinds <- {"allocate"},
    Reasons <- {"Failover"}, Moves <- ToPeer, Faults <- {"crash"},
    MaxMs <- 2, MaxEpoch <- 2

\* One worker with both generators, from the creation of the timeline on.
Local == INSTANCE Timeline WITH
    NWorkers <- 1, NGens <- 2, Handles <- {h1, h2}, Requests <- {r1},
    Kinds <- {"allocate", "ensure"}, Reasons <- {"Manual", "Failover"}, Moves <- BackAndForth,
    Faults <- {"evict", "reset", "cancel"}, MaxMs <- 1, MaxEpoch <- 2

\* Two requests that share the load in flight and the cached object.
Shared == INSTANCE Timeline WITH
    NWorkers <- 1, NGens <- 2, Handles <- {h1, h2}, Requests <- {r1, r2}, Kinds <- {"allocate"},
    Reasons <- {"Manual"}, Moves <- BackAndForth, Faults <- {},
    MaxMs <- 0, MaxEpoch <- 2

\* A worker moves the timeline to its peer's generator and back, and restarts.
Restart == INSTANCE Timeline WITH
    NWorkers <- 2, NGens <- 2, Handles <- {h1, h2}, Requests <- {r1}, Kinds <- {"allocate"},
    Reasons <- {"Manual"}, Moves <- BackAndForth, Faults <- {"crash", "return"},
    MaxMs <- 0, MaxEpoch <- 3

\* Two failovers in a row, along three workers.
Twice == INSTANCE Timeline WITH
    NWorkers <- 3, NGens <- 3, Handles <- {h1, h2}, Requests <- {r1}, Kinds <- {"allocate"},
    Reasons <- {"Failover"}, Moves <- AlongThree, Faults <- {"crash"},
    MaxMs <- 1, MaxEpoch <- 3

\* Two timelines of this worker, another's in between.
Flush == INSTANCE ShutdownFlush WITH
    rec <- record, Count <- 3, Pairs <- {"p", "q"}, Home <- <<"me", "p", "me">>,
    TierOf <- <<"shared", "shared", "shared">>, Requests <- {r1, r2},
    PageSize <- 2, Concurrency <- 1, Bound <- 2, MaxRev <- 2

ASSUME /\ Failover!TimelineAssumption /\ Crash!TimelineAssumption /\ Local!TimelineAssumption
       /\ Shared!TimelineAssumption /\ Restart!TimelineAssumption /\ Twice!TimelineAssumption
       /\ Flush!ShutdownAssumption

-----------------------------------------------------------------------------
TimelineIdle ==
    /\ rec = 0 /\ rev = 0 /\ gens = 0 /\ up = 0 /\ cache = 0 /\ hs = 0 /\ flight = 0
    /\ watch = 0 /\ inval = 0 /\ req = 0 /\ xfer = 0 /\ top = 0
FlushIdle ==
    /\ main = 0 /\ record = 0 /\ issued = 0 /\ cached = 0 /\ lapsed = 0 /\ request = 0
    /\ cursor = 0 /\ local = 0 /\ pool = 0 /\ target = 0 /\ task = 0 /\ served = 0
    /\ excused = 0

MCInit ==
    /\ Init
    /\ \/ scenario = "layout" /\ TimelineIdle /\ FlushIdle
       \/ scenario = "flush" /\ TimelineIdle /\ Flush!Init
       \/ /\ FlushIdle
          /\ \/ scenario = "failover" /\ Failover!Created
             \/ scenario = "crash" /\ Crash!Created
             \/ scenario = "local" /\ Local!Init
             \/ scenario = "shared" /\ Shared!Created
             \/ scenario = "restart" /\ Restart!Created

MCNext ==
    /\ UNCHANGED scenario
    /\ \/ scenario = "layout" /\ Next /\ UNCHANGED <<timeline, flush>>
       \/ scenario = "flush" /\ Flush!Next /\ UNCHANGED <<vars, timeline>>
       \/ /\ UNCHANGED <<vars, flush>>
          /\ \/ scenario = "failover" /\ Failover!Next
             \/ scenario = "crash" /\ Crash!Next
             \/ scenario = "local" /\ Local!Next
             \/ scenario = "shared" /\ Shared!Next
             \/ scenario = "restart" /\ Restart!Next

MCSpec == MCInit /\ [][MCNext]_mcvars

\* Two failovers, nothing else at the same time.
TwiceSpec ==
    /\ Init /\ FlushIdle /\ scenario = "twice" /\ Twice!Created
    /\ [][/\ Twice!Next /\ Twice!Alone' /\ UNCHANGED <<scenario, vars, flush>>]_mcvars

-----------------------------------------------------------------------------
\* Handles are interchangeable in every scenario, and requests in those with two.
\* (A state of the others never has r2 for r1, so none is taken for another.)
Interchangeable == Permutations({h1, h2}) \cup Permutations({r1, r2})

MCView ==
    <<scenario, vars, flush,
      CASE scenario = "failover" -> Failover!Reachable
        [] scenario = "crash" -> Crash!Reachable
        [] scenario = "local" -> Local!Reachable
        [] scenario = "shared" -> Shared!Reachable
        [] scenario = "restart" -> Restart!Reachable
        [] scenario = "twice" -> Twice!Reachable
        [] OTHER -> timeline>>

-----------------------------------------------------------------------------
\* What the service promises for a timeline, through the crash of its worker, the
\* lapse of its generator's lease and the failover to another: a timestamp is
\* above all that had been given out when it was asked for (allocate_after on
\* the floor that apply_transfer hands on).
TimelineOrdered ==
    /\ scenario = "failover" => Failover!TypeOK /\ Failover!Ordered
    /\ scenario = "crash" => Crash!Ordered
    /\ scenario = "twice" => Twice!Ordered

\* The floor under which a TimelineState issues nothing (last_issued_tso) only
\* grows, whatever activations, reloads and transfers do to its route, and so does
\* the floor in the record while a shutdown flushes it.
IssuedFloorGrows ==
    [][/\ scenario = "local" => Local!FloorGrows
       /\ scenario = "shared" => Shared!FloorGrows
       /\ scenario = "flush" => Flush!FloorsNeverFall]_mcvars

\* A route change is a new epoch: an activation or a transfer that worked on an
\* older record undoes none (the revision compared by the CAS), also when the
\* worker crashed in between or two requests share the object.
RouteNeverUndone ==
    [][/\ scenario = "shared" => Shared!RouteKept
       /\ scenario = "restart" => Restart!RouteKept]_mcvars

\* A shutdown hands on what was issued: when it has ended, the record of a timeline
\* that is still routed to this worker has everything issued for it before the gate
\* closed, unless a call of the store failed or the time was over, and whoever has
\* another timeline next starts above everything this worker issued for it, requests
\* that are still running included (shutdown_flush, apply_transfer).
ShutdownHandsOn ==
    scenario = "flush" => Flush!TypeOK /\ Flush!Inventoried /\ Flush!Covers /\ Flush!Handed
=============================================================================
