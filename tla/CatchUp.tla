------------------------------ MODULE CatchUp ------------------------------
(***************************************************************************)
(* How far a transfer may push a generator ahead of the clock, and how the *)
(* generator gets there: the choice of a target by the jump it would need  *)
(* (service/transfer.rs, service/mod.rs, planning.rs), the gate of the     *)
(* activation, the larger future borrow of a recovering timeline           *)
(* (service/allocation/quota.rs), allocate_after with its limits, and the  *)
(* bound of the lease, which is extended step by step on the way.          *)
(*                                                                         *)
(* One worker owns all generators and keeps their leases; the timelines    *)
(* come from elsewhere with a recovery floor, or move between generators   *)
(* of the worker with the last timestamp they were given.  A timestamp is  *)
(* [ms, gen, seq]; a cursor is an index ms * Cap + seq of its generator.   *)
(***************************************************************************)
EXTENDS Integers

CONSTANTS
    Timelines,
    SharedGenerators, WarmGenerators, MaxGenerators,   \* the three tiers, in this order
    Used,           \* generators that have a record and have issued before
    Cap,            \* sequence_capacity()
    Counts,         \* batch sizes
    Borrow,         \* max_future_borrow_ms
    Rewind,         \* max_clock_rewind_ms
    PreBorrow,      \* pre_borrow_ms
    Budget,         \* recovery_catchup_budget_ms
    Threshold,      \* shared_jump_ahead_threshold_ms
    Floors,         \* recovery floors that timelines from elsewhere bring
    MaxNow,         \* bound: the clock
    MaxBacks,       \* bound: steps of the clock backwards
    MaxAsks,        \* bound: requests
    MaxMoves        \* bound: transfers

Generators == 0 .. MaxGenerators - 1

\* The constants fit together.
CatchUpAssumption ==
    /\ Cap \in Nat \ {0} /\ Counts \subseteq Nat \ {0}
    /\ {Borrow, Rewind, PreBorrow, Budget, Threshold} \subseteq Nat
    /\ {SharedGenerators, WarmGenerators, MaxGenerators} \subseteq Nat
    /\ SharedGenerators + WarmGenerators < MaxGenerators
    /\ Used \subseteq Generators

None == -1
NoTso == [ms |-> None, gen |-> None, seq |-> None]

VARIABLES
    now, seen,  \* the clock, and the highest it has been
    next,       \* next_index of each generator
    bound,      \* physical_ms of issued_upper_bound in its record; None: no record
    route,      \* generator of each timeline; None: it is elsewhere
    last,       \* last_issued_tso of its TimelineState
    floor,      \* recovery_floor_tso, of the record and of the state
    active,     \* whether the record is Active; it is Recovering otherwise
    move,       \* the transfer of each timeline
    ask,        \* the size of the batch its client wants; 0: none
    backs, asks, moves

vars == <<now, seen, next, bound, route, last, floor, active, move, ask, backs, asks, moves>>
clock == <<now, seen, backs>>
timelines == <<route, last, floor, active>>

Later(a, b) == IF a >= b THEN a ELSE b
Sooner(a, b) == IF a <= b THEN a ELSE b
Phys(i) == i \div Cap

NoMove == [at |-> "none", gen |-> None, named |-> FALSE, from |-> NoTso]

Init ==
    /\ now = 0 /\ seen = 0 /\ backs = 0 /\ asks = 0 /\ moves = 0
    /\ next = [g \in Generators |-> IF g \in Used THEN 1 ELSE 0]
    /\ bound = [g \in Generators |-> IF g \in Used THEN 0 ELSE None]
    /\ route = [t \in Timelines |-> None]
    /\ last = [t \in Timelines |-> NoTso]
    /\ floor = [t \in Timelines |-> NoTso]
    /\ active = [t \in Timelines |-> FALSE]
    /\ move = [t \in Timelines |-> NoMove]
    /\ ask = [t \in Timelines |-> 0]

Tick ==
    /\ now < MaxNow
    /\ now' = now + 1
    /\ seen' = Later(seen, now + 1)
    /\ UNCHANGED <<next, bound, route, last, floor, active, move, ask, backs, asks, moves>>

StepBack ==
    /\ now > 0 /\ backs < MaxBacks
    /\ now' = now - 1 /\ backs' = backs + 1
    /\ UNCHANGED <<seen, next, bound, route, last, floor, active, move, ask, asks, moves>>

-----------------------------------------------------------------------------
(* The choice of a target *)

\* resource_tier_for_generator_id.
Tier(g) ==
    CASE g < SharedGenerators -> "Shared"
      [] g >= SharedGenerators + WarmGenerators -> "Dedicated"
      [] OTHER -> "Warm"

\* pick_owned_generator_by_hash: some generator of the tier, by a hash of the
\* key; with dedicated_claim, one that no other timeline holds.
OwnedInTier(tier) == {g \in Generators : Tier(g) = tier}
FreeDedicated(t) ==
    OwnedInTier("Dedicated") \ UNION {{route[u], move[u].gen} : u \in Timelines \ {t}}
PickGenerator(t, tier) ==
    IF tier = "Dedicated" THEN FreeDedicated(t) ELSE OwnedInTier(tier)

\* next_cursor_after_with_layout: the first index of g above a timestamp.
NextCursorAfter(tso, g) ==
    CASE g > tso.gen -> tso.ms * Cap
      [] g = tso.gen -> tso.ms * Cap + tso.seq + 1
      [] g < tso.gen -> (tso.ms + 1) * Cap

\* current_generator_floor, in milliseconds: the last timestamp issued here or
\* the bound on record, None when there is neither.
CurrentFloor(g) == Later(IF next[g] = 0 THEN None ELSE Phys(next[g] - 1), bound[g])

\* Mutant of RequiredJump: the floor is compared as it is, not as the cursor it
\* asks for.
RequiredJumpFromFloor(g, tso) ==
    IF CurrentFloor(g) = None THEN 0 ELSE Later(0, tso.ms - 1 - CurrentFloor(g))

\* required_jump_ms_for_generator.
RequiredJump(g, tso) ==
    IF CurrentFloor(g) = None THEN 0
    ELSE Later(0, Phys(NextCursorAfter(tso, g)) - CurrentFloor(g))

SetMove(t, m) == move' = [move EXCEPT ![t] = m]

\* transfer_timeline_for_rpc up to the pick: a timeline from elsewhere comes with
\* the floor of a generator there, a local one with what its state has issued.
\* The caller names a generator or leaves the choice to the worker.
StartTransfer(t) ==
    /\ moves < MaxMoves /\ move[t] = NoMove
    /\ moves' = moves + 1
    /\ \E tso \in IF route[t] = None THEN Floors ELSE {last[t]} :
          \E tier \in {"Shared", "Warm", "Dedicated"} :
             \E g \in PickGenerator(t, tier), named \in BOOLEAN :
                SetMove(t, [at |-> "jump", gen |-> g, named |-> named, from |-> tso])
    /\ UNCHANGED <<next, bound, timelines, ask, asks, clock>>

\* SharedGeneratorJumpAheadTooLarge for a generator that was named; otherwise the
\* timeline is isolated on a dedicated generator, if one is free.
CheckSharedJump(t) ==
    LET m == move[t] IN
    /\ m.at = "jump"
    /\ \/ /\ \/ Tier(m.gen) = "Dedicated"
             \/ RequiredJump(m.gen, m.from) <= Threshold
          /\ SetMove(t, [m EXCEPT !.at = "budget"])
       \/ /\ Tier(m.gen) # "Dedicated" /\ RequiredJump(m.gen, m.from) > Threshold
          /\ \/ /\ m.named \/ FreeDedicated(t) = {}
                /\ SetMove(t, NoMove)
             \/ /\ ~m.named
                /\ \E g \in FreeDedicated(t) : SetMove(t, [m EXCEPT !.at = "budget", !.gen = g])
    /\ UNCHANGED <<next, bound, timelines, ask, asks, moves, clock>>

\* validate_recovery_catchup_budget_for_target.
CheckBudget(t) ==
    LET m == move[t] IN
    /\ m.at = "budget"
    /\ IF RequiredJump(m.gen, m.from) <= Budget
       THEN SetMove(t, [m EXCEPT !.at = "commit"])
       ELSE SetMove(t, NoMove)
    /\ UNCHANGED <<next, bound, timelines, ask, asks, moves, clock>>

\* The write of the record, and the state that is built from it: it begins with
\* the floor as the last timestamp.  A local transfer is Active at once.
CommitTransfer(t) ==
    LET m == move[t] IN
    /\ m.at = "commit"
    /\ route' = [route EXCEPT ![t] = m.gen]
    /\ floor' = [floor EXCEPT ![t] = m.from]
    /\ last' = [last EXCEPT ![t] = m.from]
    /\ active' = [active EXCEPT ![t] = route[t] # None]
    /\ SetMove(t, NoMove)
    /\ UNCHANGED <<next, bound, ask, asks, moves, clock>>

-----------------------------------------------------------------------------
(* Leases *)

\* compute_generator_upper_bound.
UpperBound(base) == base + PreBorrow

\* ensure_generator_lease without a record: the cursor stays where it is.
CreateLease(g) ==
    /\ bound[g] = None
    /\ \E t \in Timelines : route[t] = g
    /\ bound' = [bound EXCEPT ![g] = UpperBound(now)]
    /\ UNCHANGED <<next, timelines, move, ask, asks, moves, clock>>

\* GeneratorLeaseRefreshPlan: the next bound starts from the last one.
Extended(g) == UpperBound(Later(now, CurrentFloor(g)))

\* The periodic refresh, once less than half of pre_borrow_ms is left.
RefreshAhead(g) ==
    /\ bound[g] # None
    /\ CurrentFloor(g) <= now + PreBorrow \div 2
    /\ bound' = [bound EXCEPT ![g] = Extended(g)]
    /\ UNCHANGED <<next, timelines, move, ask, asks, moves, clock>>

-----------------------------------------------------------------------------
(* Requests *)

\* validate_batch_for_route, with max_batch_per_request the largest of Counts.
BatchAllowed(t, count) ==
    Tier(route[t]) = "Shared" => count <= Cap

Ask(t) ==
    /\ asks < MaxAsks /\ ask[t] = 0 /\ route[t] # None
    /\ \E count \in Counts :
          /\ BatchAllowed(t, count)
          /\ ask' = [ask EXCEPT ![t] = count]
    /\ asks' = asks + 1
    /\ UNCHANGED <<next, bound, timelines, move, moves, clock>>

\* activate_local_timeline_record: not while the floor is further ahead of the
\* clock than the budget.
Activate(t) ==
    /\ ask[t] # 0 /\ ~active[t]
    /\ floor[t].ms <= now + Budget
    /\ active' = [active EXCEPT ![t] = TRUE]
    /\ UNCHANGED <<next, bound, route, last, floor, move, ask, asks, moves, clock>>

\* effective_future_borrow_ms_for_timeline_state.
EffectiveBorrow(t) ==
    IF floor[t].ms <= now THEN Borrow
    ELSE Later(Borrow, Sooner(floor[t].ms - now, Budget))

\* The range that allocate_after would take, and its limits: ClockBackwards,
\* FutureBorrowExceeded, which the request waits out, and
\* IssuedUpperBoundExceeded.
First(t) ==
    LET g == route[t] IN
    Later(Later(next[g], Later(now, Phys(next[g])) * Cap), NextCursorAfter(last[t], g))
Final(t) == First(t) + ask[t] - 1

\* Mutant of NotBackwards: any distance is accepted.
NotBackwardsEver(t) == now >= 0

NotBackwards(t) == Phys(next[route[t]]) - now <= Rewind
WithinBorrow(t) == Phys(Final(t)) <= Later(Phys(next[route[t]]), now + EffectiveBorrow(t))
Servable(t) == ask[t] # 0 /\ active[t] /\ bound[route[t]] # None

\* serve_allocation_from_timeline_state_handle.  Requests that meet ClockBackwards
\* end in an error, and their client asks again.
Serve(t) ==
    LET g == route[t] IN
    /\ Servable(t) /\ NotBackwards(t) /\ WithinBorrow(t)
    /\ Phys(Final(t)) <= bound[g]
    /\ next' = [next EXCEPT ![g] = Final(t) + 1]
    /\ last' = [last EXCEPT ![t] = [ms |-> Phys(Final(t)), gen |-> g, seq |-> Final(t) % Cap]]
    /\ ask' = [ask EXCEPT ![t] = 0]
    /\ UNCHANGED <<bound, route, floor, active, move, asks, moves, clock>>

\* RetryAfterLeaseRefresh: HorizonRequired extends the bound whatever is left of
\* it, and the request starts again.
ExtendBound(t) ==
    LET g == route[t] IN
    /\ Servable(t) /\ NotBackwards(t) /\ WithinBorrow(t)
    /\ Phys(Final(t)) > bound[g]
    /\ bound' = [bound EXCEPT ![g] = Extended(g)]
    /\ UNCHANGED <<next, timelines, move, ask, asks, moves, clock>>

-----------------------------------------------------------------------------
Request(t) == Activate(t) \/ Serve(t) \/ ExtendBound(t)
Transfer(t) == CheckSharedJump(t) \/ CheckBudget(t) \/ CommitTransfer(t)

Next ==
    \/ Tick \/ StepBack
    \/ \E g \in Generators : CreateLease(g) \/ RefreshAhead(g)
    \/ \E t \in Timelines : StartTransfer(t) \/ Transfer(t) \/ Ask(t) \/ Request(t)

Spec == Init /\ [][Next]_vars

-----------------------------------------------------------------------------
\* A generator that serves has a lease, the bound on record covers what has been
\* issued under it, and a timeline's last timestamp is never below its floor.
TypeOK ==
    /\ now \in 0 .. MaxNow /\ seen \in now .. MaxNow
    /\ next \in [Generators -> Nat] /\ bound \in [Generators -> Nat \cup {None}]
    /\ route \in [Timelines -> Generators \cup {None}]
    /\ active \in [Timelines -> BOOLEAN] /\ ask \in [Timelines -> {0} \cup Counts]
    /\ \A g \in Generators : next[g] > 0 => Phys(next[g] - 1) <= bound[g]
    /\ \A t \in Timelines : last[t].ms >= floor[t].ms

\* However transfers, batches and steps of the clock backwards follow each other,
\* no cursor gets further ahead of the highest clock than the largest of the
\* three limits and the millisecond it has just filled (allocate_after,
\* effective_future_borrow_ms_for_timeline_state).
CursorsNear ==
    \A g \in Generators :
       Phys(next[g]) <= seen + Later(Later(Borrow, Budget), Rewind) + 1

\* A timeline that moved in pushes a generator it shares with others no further
\* than shared_jump_ahead_threshold_ms beyond what that generator has issued or
\* may have reserved at the present clock, although the jump is checked long
\* before it is made (select_transfer_target).
SharedJumpKept ==
    \A g \in Generators : next'[g] # next[g] /\ Tier(g) # "Dedicated" =>
          Phys(next'[g] - 1) <=
             Later(now + Borrow, UpperBound(Later(seen, Phys(next[g]))) + Threshold)
=============================================================================
