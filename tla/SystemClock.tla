----------------------------- MODULE SystemClock -----------------------------
(***************************************************************************)
(* The clock of a worker (clock.rs): LayoutSystemClock, and SystemClock,   *)
(* which is the same with the default layout and a base that is made by    *)
(* the first call.                                                         *)
(*                                                                         *)
(* The wall clock of the host runs, and is set forwards and backwards as   *)
(* often as it likes, before the Unix epoch and beyond what the layout can *)
(* express too.  Instant only runs.  Callers call now_ms() at the same     *)
(* time and meet in one atomic.                                            *)
(***************************************************************************)
EXTENDS Integers

CONSTANTS
    Callers,
    Epoch,          \* epoch_unix_ms
    MaxPhysical,    \* max_physical_ms()
    Before,         \* bound: how far before the Unix epoch the wall clock is set,
    WallTo,         \* and how far after it
    MaxTime         \* bound: milliseconds the host runs

Horizon == MaxPhysical + 1
Walls == (-Before) .. WallTo

ASSUME ClockAssumption ==
    /\ Epoch \in Nat /\ MaxPhysical \in Nat /\ MaxTime \in Nat
    /\ Before \in Nat /\ WallTo \in Nat

VARIABLES
    wall,       \* SystemTime::now(), in milliseconds since the Unix epoch
    instant,    \* Instant::now()
    made,       \* the base: wall, instant: what is read next; yes
    baseMs,     \* base_relative_ms
    baseAt,     \* base_instant
    last,       \* last_now_ms
    pc,         \* idle; wall, instant, max: what the call does next; done
    observed,   \* observed_ms, then candidate_ms
    result,     \* what now_ms() returned
    returned,   \* history: the greatest value any call has returned
    since,      \* history: returned when the call began
    began       \* history: the instant when the call began

clockVars == <<wall, instant, made, baseMs, baseAt, last, pc, observed, result, returned, since, began>>

Larger(a, b) == IF a >= b THEN a ELSE b
Smaller(a, b) == IF a <= b THEN a ELSE b

\* duration_since_unix_epoch_or_zero.
UnixMs(t) == Larger(t, 0)

\* relative_ms_from_unix_ms_for_layout over checked_physical_ms_from_unix_ms.
Relative(unix) ==
    IF unix < Epoch THEN 0
    ELSE IF unix > Epoch + MaxPhysical THEN Horizon
    ELSE unix - Epoch

\* monotonic_relative_ms.
Elapsed(t) == Smaller(baseMs + (t - baseAt), Horizon)

ClockInit ==
    /\ wall \in Walls /\ instant = 0
    /\ made = "wall" /\ baseMs = 0 /\ baseAt = 0
    /\ last = 0 /\ returned = 0
    /\ pc = [t \in Callers |-> "idle"]
    /\ observed = [t \in Callers |-> 0]
    /\ result = [t \in Callers |-> 0]
    /\ since = [t \in Callers |-> 0]
    /\ began = [t \in Callers |-> 0]

clock == <<made, baseMs, baseAt, last>>
calls == <<pc, observed, result, returned, since, began>>

-----------------------------------------------------------------------------
(* The host *)

RunHost ==
    /\ instant < MaxTime /\ wall < WallTo
    /\ instant' = instant + 1 /\ wall' = wall + 1
    /\ UNCHANGED <<clock, calls>>

SetWall ==
    /\ wall' \in Walls \ {wall}
    /\ UNCHANGED <<instant, clock, calls>>

-----------------------------------------------------------------------------
(* LayoutSystemClock::new *)

MakeWall ==
    /\ made = "wall"
    /\ baseMs' = Relative(UnixMs(wall))
    /\ made' = "instant"
    /\ UNCHANGED <<wall, instant, baseAt, last, calls>>

MakeInstant ==
    /\ made = "instant"
    /\ baseAt' = instant
    /\ made' = "yes"
    /\ UNCHANGED <<wall, instant, baseMs, last, calls>>

-----------------------------------------------------------------------------
(* now_ms *)

CallNow(t) ==
    /\ made = "yes" /\ pc[t] \in {"idle", "done"}
    /\ pc' = [pc EXCEPT ![t] = "wall"]
    /\ since' = [since EXCEPT ![t] = returned]
    /\ began' = [began EXCEPT ![t] = instant]
    /\ UNCHANGED <<wall, instant, clock, observed, result, returned>>

ReadWall(t) ==
    /\ pc[t] = "wall"
    /\ observed' = [observed EXCEPT ![t] = Relative(UnixMs(wall))]
    /\ pc' = [pc EXCEPT ![t] = "instant"]
    /\ UNCHANGED <<wall, instant, clock, result, returned, since, began>>

\* Mutant of ReadInstant: the wall clock alone.
ReadInstantNot(t) ==
    /\ pc[t] = "instant"
    /\ pc' = [pc EXCEPT ![t] = "max"]
    /\ UNCHANGED <<wall, instant, clock, observed, result, returned, since, began>>
ReadInstant(t) ==
    /\ pc[t] = "instant"
    /\ observed' = [observed EXCEPT ![t] = Larger(@, Elapsed(instant))]
    /\ pc' = [pc EXCEPT ![t] = "max"]
    /\ UNCHANGED <<wall, instant, clock, result, returned, since, began>>

ReturnNow(t, now) ==
    /\ result' = [result EXCEPT ![t] = now]
    /\ returned' = Larger(returned, now)
    /\ pc' = [pc EXCEPT ![t] = "done"]

\* Mutant of FetchMax: store instead of fetch_max.
FetchMaxStore(t) ==
    /\ pc[t] = "max"
    /\ last' = observed[t]
    /\ ReturnNow(t, Larger(last, observed[t]))
    /\ UNCHANGED <<wall, instant, made, baseMs, baseAt, observed, since, began>>
\* fetch_max, and clamp_monotonic_ms with the value before it.
FetchMax(t) ==
    /\ pc[t] = "max"
    /\ last' = Larger(last, observed[t])
    /\ ReturnNow(t, Larger(last, observed[t]))
    /\ UNCHANGED <<wall, instant, made, baseMs, baseAt, observed, since, began>>

ClockNext ==
    \/ RunHost \/ SetWall \/ MakeWall \/ MakeInstant
    \/ \E t \in Callers : CallNow(t) \/ ReadWall(t) \/ ReadInstant(t) \/ FetchMax(t)

ClockSpec == ClockInit /\ [][ClockNext]_clockVars

-----------------------------------------------------------------------------
\* Everything the clock says can be encoded, or is the one value past the end
\* that encode() refuses: the sum of base and elapsed time never runs further
\* (now_ms).
ClockTypeOK ==
    /\ wall \in Walls /\ instant \in 0 .. MaxTime
    /\ made \in {"wall", "instant", "yes"}
    /\ baseMs \in 0 .. Horizon /\ baseAt \in 0 .. MaxTime
    /\ last \in 0 .. Horizon /\ returned \in 0 .. Horizon
    /\ pc \in [Callers -> {"idle", "wall", "instant", "max", "done"}]
    /\ observed \in [Callers -> 0 .. Horizon] /\ result \in [Callers -> 0 .. Horizon]
    /\ since \in [Callers -> 0 .. Horizon] /\ began \in [Callers -> 0 .. MaxTime]

\* A call that begins after another has returned, in any thread, does not give an
\* earlier time, whatever is done to the wall clock and however the calls overlap
\* (now_ms, SYSTEM_CLOCK_LAST_NOW_MS).
NeverBack == \A t \in Callers : pc[t] = "done" => result[t] >= since[t]

\* The clock never stands still: when the wall clock was set back it goes on with
\* the time that has passed since the base was made, up to the horizon (now_ms).
KeepsPace == \A t \in Callers : pc[t] = "done" => result[t] >= Elapsed(began[t])
=============================================================================
