---------------------------- MODULE AtomicCursor ----------------------------
(***************************************************************************)
(* What a generator's cursor promises to the threads that share it: every  *)
(* allocation is one step that takes consecutive indices at or above the   *)
(* cursor and leaves the cursor above them; otherwise the cursor is only   *)
(* ever raised.  Module GeneratorLease allocates this way.                 *)
(***************************************************************************)
EXTENDS Integers

VARIABLES
    next,       \* the smallest index not yet given away or skipped
    granted     \* the indices given away

Init == next = 0 /\ granted = {}

Grant ==
    /\ next' > next
    /\ \E first \in next..(next' - 1) : granted' = granted \cup first..(next' - 1)

Raise == next' >= next /\ UNCHANGED granted

Next == Grant \/ Raise

Spec == Init /\ [][Next]_<<next, granted>>

\* The indices given away lie below the cursor, so Grant gives none a second
\* time.
GrantedBelow == \A i \in granted : i \in Nat /\ i < next
=============================================================================
