-------------------------- MODULE TimestampLayout --------------------------
(***************************************************************************)
(* The timestamp encoding (timestamp.rs), the cursor arithmetic on it      *)
(* (cursor.rs) and the way an allocation is cut into ranges                *)
(* (Generator::allocate_after).                                            *)
(*                                                                         *)
(* A timestamp is physical_ms | generator_id | sequence.  The bit widths   *)
(* matter only through the capacities they give, so those are the          *)
(* constants; shifting and masking is multiplication and remainder.        *)
(*                                                                         *)
(* The state machine is one timeline that is served by one generator       *)
(* after another: each allocation starts above the last timestamp of the   *)
(* timeline, whichever generator issued it.                                *)
(***************************************************************************)
EXTENDS Integers, Sequences

CONSTANTS
    PhysCap,    \* max_physical_ms() + 1
    GenCap,     \* max_generators()
    SeqCap,     \* sequence_capacity()
    MaxCount    \* bound on the size of an allocation

ASSUME LayoutAssumption ==
    /\ PhysCap \in Nat \ {0} /\ GenCap \in Nat \ {0} /\ SeqCap \in Nat \ {0}
    /\ MaxCount \in Nat

VARIABLES
    last,       \* the timeline's last_issued_tso, or None
    ranges,     \* the ranges of the last allocation
    gen         \* the generator it came from

vars == <<last, ranges, gen>>

-----------------------------------------------------------------------------
None == -1
Generators == 0..(GenCap - 1)

\* The value TimestampLayout::encode builds, and whether it accepts its fields.
Encode(physical, generator, sequence) ==
    (physical * GenCap + generator) * SeqCap + sequence
Encodes(physical) == physical < PhysCap

Decode(tso) ==
    [physical_ms  |-> tso \div (GenCap * SeqCap),
     generator_id |-> (tso \div SeqCap) % GenCap,
     sequence     |-> tso % SeqCap]

\* Mutant of NextCursorAfter: an earlier generator goes on in the same
\* millisecond, below the floor.
CursorIgnoresOrder(floor, target) ==
    LET f == Decode(floor) IN
    IF target # f.generator_id THEN [physical_ms |-> f.physical_ms, sequence |-> 0]
    ELSE IF f.sequence + 1 < SeqCap
         THEN [physical_ms |-> f.physical_ms, sequence |-> f.sequence + 1]
         ELSE [physical_ms |-> f.physical_ms + 1, sequence |-> 0]

\* Mutant of NextCursorAfter: a later generator also waits for the next
\* millisecond.
CursorSkips(floor, target) ==
    LET f == Decode(floor) IN
    IF target = f.generator_id /\ f.sequence + 1 < SeqCap
    THEN [physical_ms |-> f.physical_ms, sequence |-> f.sequence + 1]
    ELSE [physical_ms |-> f.physical_ms + 1, sequence |-> 0]

\* next_cursor_after_with_layout: where generator target may go on after floor.
NextCursorAfter(floor, target) ==
    LET f == Decode(floor) IN
    IF target > f.generator_id THEN [physical_ms |-> f.physical_ms, sequence |-> 0]
    ELSE IF target = f.generator_id /\ f.sequence + 1 < SeqCap
         THEN [physical_ms |-> f.physical_ms, sequence |-> f.sequence + 1]
         ELSE [physical_ms |-> f.physical_ms + 1, sequence |-> 0]

\* The index of a cursor, and the timestamp of an index of generator g.
CursorIndex(c) == c.physical_ms * SeqCap + c.sequence
IndexTso(i, g) == Encode(i \div SeqCap, g, i % SeqCap)

FloorIndex(floor, g) == IF floor = None THEN 0 ELSE CursorIndex(NextCursorAfter(floor, g))

\* The loop that cuts count indices from start on into ranges, each as far as the
\* sequences of its millisecond go.
CutRanges(start, count, g) ==
    LET Cut[remaining \in 0..count] ==
            IF remaining = 0 THEN <<>>
            ELSE LET i == start + count - remaining
                     available == SeqCap - (i % SeqCap)
                     take == IF remaining <= available THEN remaining ELSE available IN
                 <<[start_tso |-> IndexTso(i, g), end_tso |-> IndexTso(i + take - 1, g)]>>
                     \o Cut[remaining - take]
    IN  Cut[count]

\* What it gives, one range a millisecond: the first starts at start, the last ends
\* with the last index, and in between the ranges meet at the carries.
Milliseconds(start, count) == (start + count - 1) \div SeqCap - start \div SeqCap + 1
RangeStart(start, k) == IF k = 1 THEN start ELSE (start \div SeqCap + k - 1) * SeqCap
RangeEnd(start, count, k) ==
    IF k = Milliseconds(start, count) THEN start + count - 1
                                      ELSE (start \div SeqCap + k) * SeqCap - 1
SplitRanges(start, count, g) ==
    [k \in 1..Milliseconds(start, count) |->
        [start_tso |-> IndexTso(RangeStart(start, k), g),
         end_tso   |-> IndexTso(RangeEnd(start, count, k), g)]]

-----------------------------------------------------------------------------
Init == last = None /\ ranges = <<>> /\ gen = 0

\* allocate_after on generator g with nothing but the timeline's floor to mind.
Allocate(g, count) ==
    LET start == FloorIndex(last, g) IN
    /\ Encodes((start + count - 1) \div SeqCap)
    /\ ranges' = SplitRanges(start, count, g)
    /\ last' = ranges'[Len(ranges')].end_tso
    /\ gen' = g

Next == \E g \in Generators, count \in 1..MaxCount : Allocate(g, count)

Spec == Init /\ [][Next]_vars

-----------------------------------------------------------------------------
Tsos == 0..(PhysCap * GenCap * SeqCap - 1)

TypeOK ==
    /\ last \in Tsos \cup {None} /\ gen \in Generators
    /\ ranges \in Seq([start_tso : Tsos, end_tso : Tsos])

\* Timestamps of a timeline only grow, across moves between generators and
\* across the carries out of the sequence: allocate_after's ranges start above
\* the floor and follow one another.
TimelineMonotone ==
    [][/\ ranges' # <<>> => ranges'[1].start_tso > last
       /\ \A k \in 1..(Len(ranges') - 1) : ranges'[k].end_tso < ranges'[k + 1].start_tso
       /\ \A k \in 1..Len(ranges') : ranges'[k].start_tso <= ranges'[k].end_tso]_vars

\* The ranges hold the timestamps of their generator above the floor, all of them
\* and nothing else: none is wasted at the start or at a carry, and a client that
\* counts from start_tso to end_tso meets no timestamp of another generator.
NothingSkipped ==
    [][\A t \in (last + 1)..last' :
          Decode(t).generator_id = gen'
          <=> \E k \in 1..Len(ranges') : t \in ranges'[k].start_tso..ranges'[k].end_tso]_vars
=============================================================================
