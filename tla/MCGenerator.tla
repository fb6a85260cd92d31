---------------------------- MODULE MCGenerator ----------------------------
(***************************************************************************)
(* A generator inside one worker, for TLC: its atomics under threads       *)
(* (GeneratorCursor) and the clock they are held against (SystemClock),    *)
(* both of which this module extends, how far transfers push it ahead of   *)
(* the clock (CatchUp), and which timeline has it to itself                *)
(* (DedicatedClaims).  A behaviour stays in the one scenario it starts in; *)
(* the variables of the components that it leaves out stay at 0, those of  *)
(* the extended modules in an initial state.                               *)
(***************************************************************************)
EXTENDS GeneratorCursor, SystemClock, TLC

CONSTANTS t1, t2, k1, k2, w1, w2

VARIABLES
    scenario,
    now, seen, cursor, bound, route, given, floor, active, move, ask, backs, asks, moves,
    place, claims, cached, task, loop

catchUp == <<now, seen, cursor, bound, route, given, floor, active, move, ask, backs, asks, moves>>
dedicated == <<place, claims, cached, task, loop>>
mcvars == <<scenario, vars, clockVars, catchUp, dedicated>>

-----------------------------------------------------------------------------
\* Timelines come with floors from a generator of this worker's numbers and from
\* one above them, and move once more; the clock steps back.
FloorsAt(ms, gens) == {[ms |-> m, gen |-> g, seq |-> 1] : m \in ms, g \in gens}
Ahead == INSTANCE CatchUp WITH
    next <- cursor, last <- given, Timelines <- {t1, t2},
    SharedGenerators <- 1, WarmGenerators <- 0, MaxGenerators <- 2, Used <- {0, 1},
    Cap <- 2, Counts <- {2}, Borrow <- 0, Rewind <- 1, PreBorrow <- 1, Budget <- 1,
    Threshold <- 1, Floors <- FloorsAt({1, 3}, {0, 2}),
    MaxNow <- 2, MaxBacks <- 1, MaxAsks <- 3, MaxMoves <- 2

\* The same with shared, warm and dedicated generators to choose from, of which
\* the last has never been used; one transfer.
Jump == INSTANCE CatchUp WITH
    next <- cursor, last <- given, Timelines <- {t1, t2},
    SharedGenerators <- 2, WarmGenerators <- 1, MaxGenerators <- 4, Used <- {0, 1, 2},
    Cap <- 2, Counts <- {1, 2}, Borrow <- 0, Rewind <- 1, PreBorrow <- 1, Budget <- 3,
    Threshold <- 1, Floors <- FloorsAt({1, 2, 3}, {0, 4}),
    MaxNow <- 2, MaxBacks <- 1, MaxAsks <- 3, MaxMoves <- 1

\* Two requests of one worker, that is sent route updates.
Claims == INSTANCE DedicatedClaims WITH
    route <- place, Workers <- {w1}, Timelines <- {t1, t2}, Gens <- {1, 2},
    OwnerOf <- [g \in {1, 2} |-> w1], Tasks <- {k1, k2}, Faults <- {}, Watching <- {w1},
    MaxRev <- 3

\* One request at a time, at two workers of which one has the generator, with
\* everything that may go wrong.
Faulty == INSTANCE DedicatedClaims WITH
    route <- place, Workers <- {w1, w2}, Timelines <- {t1, t2}, Gens <- {1},
    OwnerOf <- [g \in {1} |-> w1], Tasks <- {k1},
    Faults <- {"error", "reset", "restart", "overlap", "remote"}, Watching <- {}, MaxRev <- 2

ASSUME /\ Ahead!CatchUpAssumption /\ Jump!CatchUpAssumption
       /\ Claims!ClaimsAssumption /\ Faulty!ClaimsAssumption

-----------------------------------------------------------------------------
CatchUpIdle ==
    /\ now = 0 /\ seen = 0 /\ cursor = 0 /\ bound = 0 /\ route = 0 /\ given = 0 /\ floor = 0
    /\ active = 0 /\ move = 0 /\ ask = 0 /\ backs = 0 /\ asks = 0 /\ moves = 0
ClaimsIdle == place = 0 /\ claims = 0 /\ cached = 0 /\ task = 0 /\ loop = 0
ClockRests == ClockInit /\ wall = 0

MCInit ==
    /\ Init
    /\ \/ scenario = "threads" /\ ClockRests /\ CatchUpIdle /\ ClaimsIdle
       \/ scenario = "clock" /\ ClockInit /\ CatchUpIdle /\ ClaimsIdle
       \/ scenario = "ahead" /\ ClockRests /\ Ahead!Init /\ ClaimsIdle
       \/ scenario = "jump" /\ ClockRests /\ Jump!Init /\ ClaimsIdle
       \/ scenario = "claims" /\ ClockRests /\ CatchUpIdle /\ Claims!Init
       \/ scenario = "faults" /\ ClockRests /\ CatchUpIdle /\ Faulty!Init

MCNext ==
    /\ UNCHANGED scenario
    /\ \/ scenario = "threads" /\ Next /\ UNCHANGED <<clockVars, catchUp, dedicated>>
       \/ scenario = "clock" /\ ClockNext /\ UNCHANGED <<vars, catchUp, dedicated>>
       \/ scenario = "ahead" /\ Ahead!Next /\ UNCHANGED <<vars, clockVars, dedicated>>
       \/ scenario = "jump" /\ Jump!Next /\ UNCHANGED <<vars, clockVars, dedicated>>
       \/ scenario = "claims" /\ Claims!Next /\ UNCHANGED <<vars, clockVars, catchUp>>
       \/ scenario = "faults" /\ Faulty!Next /\ UNCHANGED <<vars, clockVars, catchUp>>

MCSpec == MCInit /\ [][MCNext]_mcvars

\* Timelines and requests are interchangeable.
Interchangeable == Permutations({t1, t2}) \cup Permutations({k1, k2})

-----------------------------------------------------------------------------
\* However transfers, batches and steps of the clock backwards follow each other,
\* no cursor gets further ahead of the highest clock than the largest of the
\* limits and the millisecond it has just filled (allocate_after,
\* effective_future_borrow_ms_for_timeline_state).
AheadBounded ==
    /\ scenario = "ahead" => Ahead!TypeOK /\ Ahead!CursorsNear
    /\ scenario = "jump" => Jump!CursorsNear

\* A timeline that moved in pushes a generator it shares with others no further
\* than shared_jump_ahead_threshold_ms beyond what that generator has issued or
\* may have reserved, although the jump is checked long before it is made
\* (select_transfer_target).
SharedJumpBounded == [][scenario = "jump" => Jump!SharedJumpKept]_mcvars

\* The claims on dedicated generators match the routes: a generator has one timeline,
\* none is lost to the pool, since once all requests have ended a claim is that of
\* the timeline whose route has the generator, what a worker serves from its cache
\* it has claimed, and a route stays in its owner's share of the generators,
\* whatever fails, restarts or overlaps (claim_dedicated, release_dedicated,
\* select_transfer_target).
ClaimsMatchRoutes ==
    /\ scenario = "claims" => Claims!TypeOK /\ Claims!Alone /\ Claims!NoneLeaks /\ Claims!ServedIsClaimed
    /\ scenario = "faults" => Faulty!TypeOK /\ Faulty!RoutesAtHome
=============================================================================
