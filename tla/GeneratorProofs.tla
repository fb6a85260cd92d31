--------------------------- MODULE GeneratorProofs ---------------------------
(***************************************************************************)
(* A generator inside one worker.  Its cursor behaves as one atomic        *)
(* allocator, for any number of threads, retries, leases and bounds        *)
(* (GeneratorCursor).  The clock it is held against never goes back and    *)
(* keeps pace with the host, for any number of threads, any layout and any *)
(* changes of the wall clock (SystemClock).                                *)
(*                                                                         *)
(* NeverBack is not inductive: that a call under way ends no lower than    *)
(* what had been returned when it began holds because the atomic holds the *)
(* greatest value returned, and KeepsPace because what a call is about to  *)
(* store already covers the time that had passed when it began.  ClockInv  *)
(* says so, and that the base is not made twice.                           *)
(***************************************************************************)
EXTENDS GeneratorCursor, SystemClock, TLAPS

-----------------------------------------------------------------------------
(* The cursor *)

WriterStep(w) ==
    \/ \E ub \in Bounds \cup {None} : Refresh(w, ub)
    \/ InitAfterFloor(w) \/ MarkReady(w) \/ UpsertLease(w)
    \/ RemoveLease(w) \/ ClearReady(w)
ThreadStep(t) ==
    \/ \E now \in Nows, floor \in Floors, count \in Counts : Capture(t, now, floor, count)
    \/ Load(t) \/ Exchange(t) \/ LoseRace(t)

\* The range of allocate_after starts at or above the cursor and is not empty.
LEMMA RangeAbove ==
    ASSUME NEW c \in Call, NEW old \in Nat
    PROVE  /\ First(c, old) \in Nat /\ Last(c, old) \in Nat
           /\ old <= First(c, old) /\ First(c, old) <= Last(c, old)
<1>1. Phys(old) \in Nat
  BY CursorAssumption DEF Phys
<1>2. Later(c.now, Phys(old)) * Cap \in Nat
  <2>1. \A m, n \in Nat : m * n \in Nat
    OBVIOUS
  <2>2. Later(c.now, Phys(old)) \in Nat
    BY <1>1 DEF Later, Call
  <2> QED BY <2>1, <2>2, CursorAssumption
<1>3. \A b \in Nat : Later(Later(old, b), c.floor) \in Nat /\ Later(Later(old, b), c.floor) >= old
  BY DEF Later, Call
<1>4. First(c, old) \in Nat /\ old <= First(c, old)
  BY <1>2, <1>3 DEF First
<1> QED BY <1>4 DEF Last, Call

\* Every variable keeps its type.
LEMMA TypeStep ==
    ASSUME TypeOK, Next
    PROVE  TypeOK'
<1>1. ASSUME NEW start \in Starts, NEW ub \in Bounds \cup {None}, Install(start, ub)
      PROVE  TypeOK'
  BY <1>1, CursorAssumption DEF Install, TypeOK, Writer, Lease
<1>2. ASSUME NEW w \in Writers, WriterStep(w) PROVE TypeOK'
  <2>0. /\ NoLease \in Lease /\ Resting \in Writer /\ NoLease.tok = 0
        /\ writer[w] \in Writer /\ writer[w].put \in Lease /\ writer[w].put.tok \in Nat
    BY <1>2 DEF TypeOK, Writer, Resting, NoLease, Lease
  <2>1. ASSUME NEW ub \in Bounds \cup {None}, Refresh(w, ub) PROVE TypeOK'
    BY <2>1, CursorAssumption DEF Refresh, TypeOK, Writer, Lease
  <2>2. CASE InitAfterFloor(w)
    BY <2>2 DEF InitAfterFloor, TypeOK, Writer, Lease, Later
  <2>3. CASE MarkReady(w) \/ UpsertLease(w)
    <3>1. CASE MarkReady(w)
      <4>1. [at |-> "publish", put |-> writer[w].put] \in Writer
        BY <2>0 DEF Writer
      <4> QED BY <2>0, <3>1, <4>1 DEF MarkReady, TypeOK
    <3>2. CASE UpsertLease(w)
      BY <2>0, <3>2 DEF UpsertLease, TypeOK
    <3> QED BY <2>3, <3>1, <3>2
  <2>4. CASE RemoveLease(w) \/ ClearReady(w)
    <3>1. [at |-> "clear", put |-> NoLease] \in Writer
      BY <2>0 DEF Writer
    <3>2. CASE RemoveLease(w)
      BY <2>0, <3>1, <3>2 DEF RemoveLease, TypeOK
    <3>3. CASE ClearReady(w)
      BY <2>0, <3>3 DEF ClearReady, TypeOK
    <3> QED BY <2>4, <3>2, <3>3
  <2> QED BY <1>2, <2>1, <2>2, <2>3, <2>4 DEF WriterStep
<1>3. ASSUME NEW t \in Threads, ThreadStep(t) PROVE TypeOK'
  <2>0. NoCall \in Call
    BY DEF NoCall, Call, NoLease, Lease
  <2>1. ASSUME NEW now \in Nows, NEW floor \in Floors, NEW count \in Counts,
               Capture(t, now, floor, count)
        PROVE  TypeOK'
    BY <2>1, CursorAssumption DEF Capture, TypeOK, Call
  <2>2. CASE Load(t)
    BY <2>0, <2>2 DEF Load, TypeOK, Call
  <2>3. CASE Exchange(t)
    <3>1. call[t] \in Call /\ call[t].old \in Nat
      BY DEF TypeOK, Call
    <3>2. next' \in Nat /\ granted' \subseteq Nat
      <4> DEFINE first == First(call[t], call[t].old)
                 final == Last(call[t], call[t].old)
      <4>1. first \in Nat /\ final \in Nat
        BY <3>1, RangeAbove
      <4>2. next' = final + 1 /\ granted' = granted \cup first..final /\ granted \subseteq Nat
        BY <2>3 DEF Exchange, TypeOK
      <4> HIDE DEF first, final
      <4>3. first..final \subseteq Nat
        BY <4>1
      <4>4. next' \in Nat
        BY <4>1, <4>2
      <4> QED BY Zenon, <4>2, <4>3, <4>4
    <3> QED BY <2>0, <2>3, <3>2 DEF Exchange, TypeOK
  <2>4. CASE LoseRace(t)
    BY <2>0, <2>4 DEF LoseRace, TypeOK, Call
  <2> QED BY <1>3, <2>1, <2>2, <2>3, <2>4 DEF ThreadStep
<1> QED BY <1>1, <1>2, <1>3 DEF Next, WriterStep, ThreadStep

\* The cursor only rises, so what lies below it stays below it.
LEMMA CursorRises ==
    ASSUME TypeOK, Inv, Next
    PROVE  next' \in Nat /\ next <= next'
<1>0. next' \in Nat /\ next \in Nat
  BY TypeStep DEF TypeOK
<1>1. ASSUME NEW w \in Writers, InitAfterFloor(w) PROVE next <= next'
  BY <1>1 DEF InitAfterFloor, Later, TypeOK, Writer, Lease
<1>2. ASSUME NEW t \in Threads, Exchange(t) PROVE next <= next'
  <2>1. call[t] \in Call /\ call[t].old \in Nat
    BY DEF TypeOK, Call
  <2>2. next = call[t].old /\ next' = Last(call[t], call[t].old) + 1
    BY <1>2 DEF Exchange
  <2> QED BY <2>1, <2>2, RangeAbove
<1>3. CASE next' = next
  BY <1>0, <1>3
<1>4. \/ next' = next
      \/ \E w \in Writers : InitAfterFloor(w)
      \/ \E t \in Threads : Exchange(t)
  BY DEF Next, Install, Refresh, MarkReady, UpsertLease, RemoveLease, ClearReady,
         Capture, Load, LoseRace
<1> QED BY <1>0, <1>1, <1>2, <1>3, <1>4

\* Leases move from a writer to the map to a call, each with its floor applied.
LEMMA InvStep ==
    ASSUME TypeOK, Inv, Next
    PROVE  Inv'
<1>0. next \in Nat /\ next' \in Nat /\ next <= next'
  BY CursorRises DEF TypeOK
<1>1. \A s \in Nat : s <= next => s <= next'
  BY <1>0
<1>2. lease'.start <= next'
  <2>1. lease.start \in Nat /\ lease.start <= next /\ NoLease.start = 0
    BY DEF TypeOK, Lease, Inv, NoLease
  <2>2. \/ lease' = lease \/ lease' = NoLease
        \/ \E w \in Writers : writer[w].at = "publish" /\ lease' = writer[w].put
    BY DEF Next, Install, Refresh, InitAfterFloor, MarkReady, UpsertLease, RemoveLease,
           ClearReady, Capture, Load, Exchange, LoseRace
  <2>3. \A w \in Writers : writer[w].put.start \in Nat
    BY DEF TypeOK, Writer, Lease
  <2> QED BY <1>0, <1>1, <2>1, <2>2, <2>3 DEF Inv
<1>3. ASSUME NEW w \in Writers, writer'[w].at \in {"ready", "publish"}
      PROVE  writer'[w].put.start <= next'
  <2>1. writer[w].put.start \in Nat /\ lease.start \in Nat
    BY DEF TypeOK, Writer, Lease
  <2>2. CASE writer'[w] = writer[w]
    BY <1>1, <1>3, <2>1, <2>2 DEF Inv
  <2>3. CASE writer[w].at = "floor" /\ InitAfterFloor(w)
    BY <2>1, <2>3, <1>0 DEF InitAfterFloor, Later, TypeOK
  <2>4. CASE \E ub \in Bounds \cup {None} : Refresh(w, ub)
    BY <2>4, <2>1, <1>1 DEF Refresh, TypeOK, Inv
  <2>5. CASE MarkReady(w)
    BY <2>5, <2>1, <1>1 DEF MarkReady, TypeOK, Inv
  <2>6. ASSUME NEW start \in Starts, NEW ub \in Bounds \cup {None}, Install(start, ub)
        PROVE  writer'[w] = writer[w]
    BY <1>3, <2>6 DEF Install, TypeOK
  <2>7. ASSUME NEW v \in Writers, WriterStep(v), v # w
        PROVE  writer'[w] = writer[w]
    BY <2>7 DEF WriterStep, Refresh, InitAfterFloor, MarkReady, UpsertLease, RemoveLease,
                ClearReady, TypeOK
  <2>8. ASSUME UpsertLease(w) \/ RemoveLease(w) \/ ClearReady(w)
        PROVE  FALSE
    BY <1>3, <2>8 DEF UpsertLease, RemoveLease, ClearReady, TypeOK, Resting
  <2>9. ASSUME NEW t \in Threads, ThreadStep(t)
        PROVE  writer'[w] = writer[w]
    BY <2>9 DEF ThreadStep, Capture, Load, Exchange, LoseRace
  <2>10. InitAfterFloor(w) => writer[w].at = "floor"
    BY DEF InitAfterFloor
  <2>11. CASE WriterStep(w)
    BY <2>3, <2>4, <2>5, <2>8, <2>10, <2>11 DEF WriterStep
  <2>12. CASE \E v \in Writers : WriterStep(v)
    BY <2>2, <2>7, <2>11, <2>12
  <2>13. CASE \E t \in Threads : ThreadStep(t)
    BY <2>2, <2>9, <2>13
  <2>14. CASE \E start \in Starts, ub \in Bounds \cup {None} : Install(start, ub)
    BY <2>2, <2>6, <2>14
  <2> QED BY <2>12, <2>13, <2>14 DEF Next, WriterStep, ThreadStep
<1> DEFINE Kept(t) == /\ call'[t].under.start <= next'
                      /\ call'[t].at = "cas" => Fits(call'[t], call'[t].old)
<1>4. ASSUME NEW t \in Threads PROVE Kept(t)
  <2>1. call[t].under.start \in Nat /\ lease.start \in Nat /\ NoCall.under.start = 0
        /\ NoCall.at = "idle" /\ call[t].under.start <= next /\ lease.start <= next
    BY DEF TypeOK, Call, Lease, NoCall, NoLease, Inv
  <2>2. CASE call'[t] = call[t]
    BY <1>1, <2>1, <2>2 DEF Inv
  <2>3. CASE call'[t] = NoCall
    BY <1>0, <2>1, <2>3
  <2>4. ASSUME NEW now \in Nows, NEW floor \in Floors, NEW count \in Counts,
               Capture(t, now, floor, count)
        PROVE  Kept(t)
    BY <2>4, <2>1, <1>1 DEF Capture, TypeOK
  <2>5. CASE Load(t)
    <3> DEFINE d == [at |-> "cas", now |-> call[t].now, floor |-> call[t].floor,
                     count |-> call[t].count, under |-> call[t].under, old |-> next,
                     tries |-> call[t].tries]
    <3>1. next' = next /\ call'[t] = IF Fits(call[t], next) THEN d ELSE NoCall
      BY <2>5 DEF Load, TypeOK
    <3>2. d.under = call[t].under /\ d.old = next
      OBVIOUS
    <3>3. Fits(call[t], next) => Fits(d, next)
      BY DEF Fits, First, Last, Allowed
    <3> HIDE DEF d
    <3>4. CASE Fits(call[t], next)
      BY <2>1, <3>1, <3>2, <3>3, <3>4
    <3> QED BY <2>3, <3>1, <3>4
  <2>6. CASE LoseRace(t)
    BY <2>6, <2>1, <2>3, <1>1 DEF LoseRace, TypeOK
  <2>7. CASE Exchange(t)
    BY <2>7, <2>3 DEF Exchange, TypeOK
  <2>8. ASSUME NEW u \in Threads, ThreadStep(u), u # t
        PROVE  call'[t] = call[t]
    BY <2>8 DEF ThreadStep, Capture, Load, Exchange, LoseRace, TypeOK
  <2>9. ASSUME NEW w \in Writers, WriterStep(w)
        PROVE  call'[t] = call[t]
    BY <2>9 DEF WriterStep, Refresh, InitAfterFloor, MarkReady, UpsertLease, RemoveLease,
                ClearReady
  <2>10. ASSUME NEW start \in Starts, NEW ub \in Bounds \cup {None}, Install(start, ub)
         PROVE  call'[t] = call[t]
    BY <2>10 DEF Install
  <2> HIDE DEF Kept
  <2>11. CASE ThreadStep(t)
    BY <2>4, <2>5, <2>6, <2>7, <2>11 DEF ThreadStep
  <2>12. CASE \E u \in Threads : ThreadStep(u)
    BY <2>2, <2>8, <2>11, <2>12
  <2>13. CASE \E w \in Writers : WriterStep(w)
    BY <2>2, <2>9, <2>13
  <2>14. CASE \E start \in Starts, ub \in Bounds \cup {None} : Install(start, ub)
    BY <2>2, <2>10, <2>14
  <2> QED BY <2>12, <2>13, <2>14 DEF Next, WriterStep, ThreadStep
<1> QED BY <1>2, <1>3, <1>4 DEF Inv

\* The types and the invariant hold together.
THEOREM Safe == Spec => [](TypeOK /\ Inv)
<1>1. Init => TypeOK /\ Inv
  <2> SUFFICES ASSUME Init PROVE TypeOK /\ Inv
    OBVIOUS
  <2>1. NoLease \in Lease /\ Resting \in Writer /\ NoCall \in Call
    BY DEF NoLease, Lease, Resting, Writer, NoCall, Call
  <2>2. /\ NoLease.start = 0 /\ Resting.at = "idle"
        /\ NoCall.under.start = 0 /\ NoCall.at = "idle"
    BY DEF NoLease, Resting, NoCall
  <2>3. TypeOK
    BY <2>1 DEF Init, TypeOK
  <2>4. Inv
    BY <2>2 DEF Init, Inv
  <2> QED BY <2>3, <2>4
<1>2. TypeOK /\ Inv /\ [Next]_vars => (TypeOK /\ Inv)'
  <2>1. TypeOK /\ Inv /\ UNCHANGED vars => (TypeOK /\ Inv)'
    BY DEF vars, TypeOK, Inv, Fits, First, Last, Allowed
  <2> QED BY <2>1, TypeStep, InvStep
<1> QED BY <1>1, <1>2, PTL DEF Spec

\* The cursor, the token and the lease entry keep their types under all threads
\* (allocate_after, upsert_lease).
THEOREM CursorTypes == Spec => []TypeOK
<1> QED BY Safe, PTL

\* However its threads interleave, allocate_after is one atomic allocation: the
\* specification implements AtomicCursor.
THEOREM Refines == Spec => AllocatesAtomically
<1>1. Init => Atomic!Init
  BY DEF Init, Atomic!Init
<1>2. TypeOK /\ Inv /\ [Next]_vars => [Atomic!Next]_<<next, granted>>
  <2> SUFFICES ASSUME TypeOK, Inv, [Next]_vars PROVE [Atomic!Next]_<<next, granted>>
    OBVIOUS
  <2>1. CASE UNCHANGED vars
    BY <2>1 DEF vars
  <2>2. ASSUME NEW t \in Threads, Exchange(t) PROVE Atomic!Grant
    <3> DEFINE first == First(call[t], call[t].old)
               final == Last(call[t], call[t].old)
    <3>1. call[t] \in Call /\ call[t].old \in Nat /\ next = call[t].old
      BY <2>2 DEF TypeOK, Call, Exchange
    <3>2. first \in Nat /\ final \in Nat /\ next <= first /\ first <= final
      BY <3>1, RangeAbove
    <3>3. next' = final + 1 /\ granted' = granted \cup first..final /\ next \in Nat
      BY <2>2 DEF Exchange, TypeOK
    <3> HIDE DEF first, final
    <3>4. first \in next..(next' - 1) /\ next' - 1 = final /\ next' > next
      BY <3>2, <3>3
    <3> QED BY <3>3, <3>4 DEF Atomic!Grant
  <2>3. CASE Next /\ granted' = granted
    BY <2>3, CursorRises DEF Atomic!Next, Atomic!Raise, TypeOK
  <2>4. CASE Next
    <3>1. granted' = granted \/ \E t \in Threads : Exchange(t)
      BY <2>4 DEF Next, Install, Refresh, InitAfterFloor, MarkReady, UpsertLease,
                  RemoveLease, ClearReady, Capture, Load, LoseRace
    <3> QED BY <2>2, <2>3, <2>4, <3>1 DEF Atomic!Next
  <2> QED BY <2>1, <2>4
<1> QED BY <1>1, <1>2, Safe, PTL DEF Spec, AllocatesAtomically, Atomic!Spec

\* A call gets indices the lease it saw allows: at or above the recovery floor,
\* which was applied before the lease was published, and within the bound.
THEOREM WithinLease == Spec => GrantsWithinLease
<1> DEFINE Within == \A t \in Threads : \A i \in granted' \ granted :
                        call'[t].at # call[t].at =>
                            /\ i >= call[t].under.start
                            /\ call[t].under.ub # None => i <= call[t].under.ub
<1>1. TypeOK /\ Inv /\ [Next]_vars => Within
  <2> SUFFICES ASSUME TypeOK, Inv, [Next]_vars, NEW t \in Threads,
                      NEW i \in granted' \ granted, call'[t].at # call[t].at
               PROVE  /\ i >= call[t].under.start
                      /\ call[t].under.ub # None => i <= call[t].under.ub
    OBVIOUS
  <2>1. PICK u \in Threads : Exchange(u)
    BY DEF vars, Next, Install, Refresh, InitAfterFloor, MarkReady, UpsertLease,
           RemoveLease, ClearReady, Capture, Load, LoseRace
  <2>2. u = t
    BY <2>1 DEF Exchange, TypeOK
  <2>3. /\ call[t] \in Call /\ call[t].old \in Nat /\ next = call[t].old
        /\ call[t].under.start \in Nat /\ call[t].under.ub \in Nat \cup {None}
        /\ call[t].at = "cas"
    BY <2>1, <2>2 DEF TypeOK, Call, Lease, Exchange
  <2> DEFINE first == First(call[t], call[t].old)
             final == Last(call[t], call[t].old)
  <2>4. first \in Nat /\ final \in Nat /\ next <= first
    BY <2>3, RangeAbove
  <2>5. i \in first..final
    BY <2>1, <2>2 DEF Exchange
  <2>6. call[t].under.start <= next /\ (call[t].under.ub # None => final <= call[t].under.ub)
    BY <2>3 DEF Inv, Fits
  <2> HIDE DEF first, final
  <2> QED BY <2>3, <2>4, <2>5, <2>6 DEF TypeOK, None
<1> QED BY <1>1, Safe, PTL DEF Spec, GrantsWithinLease

\* An atomic allocator gives no index away twice: all it has given away lies
\* below its cursor.  Through Refines the same holds of allocate_after.
THEOREM NoneTwice == Spec => []Atomic!GrantedBelow
<1>1. Atomic!Init => Atomic!GrantedBelow
  BY DEF Atomic!Init, Atomic!GrantedBelow
<1>2. TypeOK /\ TypeOK' /\ Atomic!GrantedBelow /\ [Atomic!Next]_<<next, granted>>
         => Atomic!GrantedBelow'
  <2> SUFFICES ASSUME TypeOK, TypeOK', Atomic!GrantedBelow,
                      [Atomic!Next]_<<next, granted>>
               PROVE  Atomic!GrantedBelow'
    OBVIOUS
  <2>0. next \in Nat /\ next' \in Nat
    BY DEF TypeOK
  <2>1. CASE Atomic!Grant
    <3>1. PICK first \in next..(next' - 1) : granted' = granted \cup first..(next' - 1)
      BY <2>1 DEF Atomic!Grant
    <3>2. next' > next
      BY <2>1 DEF Atomic!Grant
    <3> QED BY <2>0, <3>1, <3>2 DEF Atomic!GrantedBelow
  <2>2. CASE Atomic!Raise \/ UNCHANGED <<next, granted>>
    BY <2>0, <2>2 DEF Atomic!Raise, Atomic!GrantedBelow
  <2> QED BY <2>1, <2>2 DEF Atomic!Next
<1> QED BY <1>1, <1>2, Safe, Refines, PTL DEF AllocatesAtomically, Atomic!Spec

-----------------------------------------------------------------------------
(* The clock *)

ClockInv ==
    /\ ClockTypeOK
    /\ returned <= last
    /\ made # "yes" => \A t \in Callers : pc[t] = "idle"
    /\ made = "yes" => baseAt <= instant
    /\ \A t \in Callers :
          /\ since[t] <= returned
          /\ pc[t] # "idle" => began[t] <= instant /\ baseAt <= began[t]
          /\ pc[t] = "max" => observed[t] >= Elapsed(began[t])
          /\ pc[t] = "done" => result[t] >= since[t] /\ result[t] >= Elapsed(began[t])

\* What the wall clock shows is turned into a time of the layout or into the
\* horizon (relative_ms_from_unix_ms_for_layout).
LEMMA RelativeInRange == ASSUME NEW w \in Int PROVE Relative(UnixMs(w)) \in 0 .. Horizon
BY ClockAssumption DEF Relative, UnixMs, Larger, Horizon

\* The time since the base is within the layout or at the horizon, and does not
\* go back as the host runs (monotonic_relative_ms).
LEMMA ElapsedInRange ==
    ASSUME ClockTypeOK, NEW t \in 0 .. MaxTime, baseAt <= t
    PROVE  /\ Elapsed(t) \in 0 .. Horizon
           /\ \A u \in 0 .. MaxTime : t <= u => Elapsed(t) <= Elapsed(u)
BY ClockAssumption DEF Elapsed, Smaller, Horizon, ClockTypeOK

LEMMA ClockInvInit == ClockInit => ClockInv
BY ClockAssumption DEF ClockInit, ClockInv, ClockTypeOK, Walls, Horizon

\* One step of the clock or of the host keeps ClockInv.
LEMMA ClockInvNext == ClockInv /\ [ClockNext]_clockVars => ClockInv'
<1> SUFFICES ASSUME ClockInv, [ClockNext]_clockVars PROVE ClockInv'
    OBVIOUS
<1> USE ClockAssumption
<1>0. Horizon \in Nat /\ wall \in Int /\ ClockTypeOK
    BY DEF ClockInv, ClockTypeOK, Horizon, Walls
<1>1. CASE RunHost
    BY <1>0, <1>1 DEF ClockInv, ClockTypeOK, RunHost, clock, calls, Elapsed, Walls
<1>2. CASE SetWall
    BY <1>0, <1>2 DEF ClockInv, ClockTypeOK, SetWall, clock, calls, Elapsed
<1>3. CASE MakeWall
    BY <1>0, <1>3, RelativeInRange DEF ClockInv, ClockTypeOK, MakeWall, calls
<1>4. CASE MakeInstant
    BY <1>0, <1>4 DEF ClockInv, ClockTypeOK, MakeInstant, calls
<1>5. ASSUME NEW t \in Callers, CallNow(t) PROVE ClockInv'
    <2>1. ClockTypeOK'
        BY <1>0, <1>5 DEF ClockInv, ClockTypeOK, CallNow, clock
    <2>2. QED
        BY <1>0, <1>5, <2>1 DEF ClockInv, ClockTypeOK, CallNow, clock, Elapsed
<1>6. ASSUME NEW t \in Callers, ReadWall(t) PROVE ClockInv'
    <2>1. ClockTypeOK'
        BY <1>0, <1>6, RelativeInRange DEF ClockInv, ClockTypeOK, ReadWall, clock
    <2>2. QED
        BY <1>0, <1>6, <2>1 DEF ClockInv, ClockTypeOK, ReadWall, clock, Elapsed
<1>7. ASSUME NEW t \in Callers, ReadInstant(t) PROVE ClockInv'
    <2>1. /\ baseAt <= began[t] /\ began[t] <= instant /\ baseAt <= instant
          /\ instant \in 0 .. MaxTime /\ began[t] \in 0 .. MaxTime
          /\ pc[t] = "instant" /\ observed[t] \in 0 .. Horizon
        BY <1>0, <1>7 DEF ClockInv, ClockTypeOK, ReadInstant
    <2>2. Elapsed(instant) \in 0 .. Horizon /\ Elapsed(began[t]) <= Elapsed(instant)
        BY <1>0, <2>1, ElapsedInRange
    <2>3. Elapsed(began[t]) \in Int
        BY <1>0, <2>1, ElapsedInRange
    <2> DEFINE c == Larger(observed[t], Elapsed(instant))
    <2>4. c \in 0 .. Horizon /\ c >= Elapsed(began[t])
        BY <1>0, <2>1, <2>2, <2>3 DEF Larger
    <2>5. observed' = [observed EXCEPT ![t] = c] /\ pc' = [pc EXCEPT ![t] = "max"]
        BY <1>7 DEF ReadInstant
    <2>6. UNCHANGED <<wall, instant, made, baseMs, baseAt, last, result, returned, since, began>>
        BY <1>7 DEF ReadInstant, clock
    <2> HIDE DEF c
    <2>7. ClockTypeOK'
        BY <1>0, <2>4, <2>5, <2>6 DEF ClockTypeOK
    <2>8. \A u \in Callers : Elapsed(began[u])' = Elapsed(began[u])
        BY <2>6 DEF Elapsed
    <2>9. QED
        BY <1>0, <2>1, <2>4, <2>5, <2>6, <2>7, <2>8 DEF ClockInv, ClockTypeOK
<1>8. ASSUME NEW t \in Callers, FetchMax(t) PROVE ClockInv'
    <2> DEFINE c == Larger(last, observed[t])
    <2>1. /\ pc[t] = "max" /\ observed[t] \in 0 .. Horizon /\ last \in 0 .. Horizon
          /\ returned \in 0 .. Horizon /\ since[t] \in 0 .. Horizon
          /\ baseAt <= began[t] /\ began[t] \in 0 .. MaxTime
          /\ observed[t] >= Elapsed(began[t]) /\ since[t] <= returned /\ returned <= last
        BY <1>0, <1>8 DEF ClockInv, ClockTypeOK, FetchMax
    <2>2. Elapsed(began[t]) \in Int
        BY <1>0, <2>1, ElapsedInRange
    <2>3. /\ c \in 0 .. Horizon /\ c >= since[t] /\ c >= Elapsed(began[t])
          /\ Larger(returned, c) = c /\ c >= returned
        BY <1>0, <2>1, <2>2 DEF Larger
    <2>4. /\ last' = c /\ result' = [result EXCEPT ![t] = c] /\ returned' = c
          /\ pc' = [pc EXCEPT ![t] = "done"]
        BY <1>8, <2>3 DEF FetchMax, ReturnNow
    <2>5. UNCHANGED <<wall, instant, made, baseMs, baseAt, observed, since, began>>
        BY <1>8 DEF FetchMax
    <2> HIDE DEF c
    <2>6. ClockTypeOK'
        BY <1>0, <2>3, <2>4, <2>5 DEF ClockTypeOK
    <2>7. \A u \in Callers : Elapsed(began[u])' = Elapsed(began[u])
        BY <2>5 DEF Elapsed
    <2>8. QED
        BY <1>0, <2>1, <2>3, <2>4, <2>5, <2>6, <2>7 DEF ClockInv, ClockTypeOK
<1>9. CASE UNCHANGED clockVars
    BY <1>0, <1>9 DEF ClockInv, ClockTypeOK, clockVars, Elapsed
<1>10. QED
    BY <1>1, <1>2, <1>3, <1>4, <1>5, <1>6, <1>7, <1>8, <1>9 DEF ClockNext

LEMMA ClockInvHolds == ClockSpec => []ClockInv
BY ClockInvInit, ClockInvNext, PTL DEF ClockSpec

\* The clock gives only times the layout can express, or the one past the end
\* (now_ms).
THEOREM ClockTyped == ClockSpec => []ClockTypeOK
<1>1. ClockInv => ClockTypeOK
    BY DEF ClockInv
<1>2. QED
    BY <1>1, ClockInvHolds, PTL

\* Calls that follow one another, in whatever threads, never give times that go
\* back, although the wall clock may (now_ms).
THEOREM ClockNeverBack == ClockSpec => []NeverBack
<1>1. ClockInv => NeverBack
    BY DEF ClockInv, NeverBack
<1>2. QED
    BY <1>1, ClockInvHolds, PTL

\* Setting the wall clock back does not stop the clock (now_ms).
THEOREM ClockKeepsPace == ClockSpec => []KeepsPace
<1>1. ClockInv => KeepsPace
    BY DEF ClockInv, KeepsPace
<1>2. QED
    BY <1>1, ClockInvHolds, PTL
=============================================================================
