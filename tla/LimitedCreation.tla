---------------------------- MODULE LimitedCreation ----------------------------
(***************************************************************************)
(* What create_timeline_with_limit promises, as the in-memory store does   *)
(* it under its lock (metadata/memory.rs): a call creates its timeline at  *)
(* most once, in one step, only while there are fewer than the limit, and  *)
(* the answers it may give.  The caller may not get the answer.            *)
(***************************************************************************)
EXTENDS Naturals, FiniteSets

CONSTANTS Calls, Key, Max, Initial

VARIABLES
    timelines,  \* keys of the records
    applied,    \* calls that have created their record
    answer      \* per call

Pending == "pending"

Init ==
    /\ timelines = Initial
    /\ applied = {}
    /\ answer = [c \in Calls |-> Pending]

Apply(c) ==
    /\ answer[c] = Pending /\ c \notin applied
    /\ Key[c] \notin timelines
    /\ Cardinality(timelines) < Max
    /\ timelines' = timelines \cup {Key[c]}
    /\ applied' = applied \cup {c}
    /\ UNCHANGED answer

Answer(c, a) ==
    /\ answer[c] = Pending
    /\ a = "created" => c \in applied
    /\ a = "exists" => Key[c] \in timelines
    /\ a = "limit" => Cardinality(timelines) >= Max
    /\ answer' = [answer EXCEPT ![c] = a]
    /\ UNCHANGED <<timelines, applied>>

Next == \E c \in Calls :
    Apply(c) \/ \E a \in {"created", "exists", "limit", "error"} : Answer(c, a)

Spec == Init /\ [][Next]_<<timelines, applied, answer>>
=============================================================================
