----------------------------- MODULE CreationLimit -----------------------------
(***************************************************************************)
(* Creation of timelines up to a limit in etcd (metadata/etcd/timeline.rs: *)
(* create_timeline_with_limit) under a lease lock (lease_lock.rs): the     *)
(* lock is taken, the key looked up, the routes counted and the record     *)
(* created in a transaction fenced by the lock's token.  The lease of the  *)
(* lock may run out under its holder, an answer may be lost, a call may be *)
(* dropped with the lock in hand.                                          *)
(***************************************************************************)
EXTENDS Naturals, FiniteSets

CONSTANTS
    Calls,      \* calls of create_timeline_with_limit
    Key,        \* Calls -> the timeline to create
    Initial,    \* timelines there are
    Max,        \* max_timelines
    Attempts    \* TIMELINE_CREATION_LOCK_RETRY_ATTEMPTS

Free == "free"
Pending == "pending"
Conflict == "conflict"    \* CasFailed

\* The constants fit together.
LimitAssumption == Free \notin Calls /\ Attempts > 0

VARIABLES
    timelines,  \* routes in etcd
    lock,       \* the call whose token is in the lock's key
    kept,       \* the lock's lease is kept alive
    pc, tries, result,
    applied,    \* history: calls whose transaction took effect
    answer      \* what the caller was given

vars == <<timelines, lock, kept, pc, tries, result, applied, answer>>

Pcs == {"try", "look", "count", "create", "release", "end"}

Init ==
    /\ timelines = Initial
    /\ lock = Free /\ kept = FALSE
    /\ pc = [c \in Calls |-> "try"]
    /\ tries = [c \in Calls |-> 0]
    /\ result = [c \in Calls |-> Pending]
    /\ applied = {}
    /\ answer = [c \in Calls |-> Pending]

-----------------------------------------------------------------------------
Goto(c, label) == pc' = [pc EXCEPT ![c] = label]

End(c, a) ==
    /\ Goto(c, "end")
    /\ answer' = [answer EXCEPT ![c] = a]
    /\ result' = [result EXCEPT ![c] = Pending]

\* The next round of the loop, or its end.
Again(c) ==
    /\ tries' = [tries EXCEPT ![c] = @ + 1]
    /\ \/ tries[c] + 1 < Attempts /\ Goto(c, "try") /\ UNCHANGED answer
          /\ result' = [result EXCEPT ![c] = Pending]
       \/ tries[c] + 1 = Attempts /\ End(c, "error")

\* try_acquire_lease_lock.  The lock is taken, or another holds it.  After a
\* lost answer the repeated transaction finds the call's own key, and an error
\* leaves it open: the lease is revoked then, or it is left to run out.
TryLock(c) ==
    /\ pc[c] = "try"
    /\ \/ /\ lock = Free
          /\ lock' = c /\ kept' = TRUE
          /\ Goto(c, "look")
          /\ UNCHANGED <<tries, answer, result>>
       \/ /\ lock # Free
          /\ Again(c)
          /\ UNCHANGED <<lock, kept>>
       \/ /\ lock = Free
          /\ lock' \in {Free, c} /\ kept' = FALSE
          /\ Again(c) \/ (End(c, "error") /\ UNCHANGED tries)
    /\ UNCHANGED <<timelines, applied>>

Finish(c, a) ==
    /\ Goto(c, "release")
    /\ result' = [result EXCEPT ![c] = a]

\* load_timeline_route.
LookUp(c) ==
    /\ pc[c] = "look"
    /\ \/ Key[c] \in timelines /\ Finish(c, "exists")
       \/ Key[c] \notin timelines /\ Goto(c, "count") /\ UNCHANGED result
    /\ UNCHANGED <<timelines, lock, kept, tries, applied, answer>>

AtLimit(n) == n >= Max

CountRoutes(c) ==
    /\ pc[c] = "count"
    /\ \/ AtLimit(Cardinality(timelines)) /\ Finish(c, "limit")
       \/ ~AtLimit(Cardinality(timelines)) /\ Goto(c, "create") /\ UNCHANGED result
    /\ UNCHANGED <<timelines, lock, kept, tries, applied, answer>>

\* Mutant of Fence: the create transaction does not compare the token.
FenceNot(c) == TRUE
Fence(c) == lock = c

\* create_timeline_with_indexes_fenced.  When the answer of a transaction that
\* took effect is lost, the repeated one fails: CasFailed.
CreateFenced(c) ==
    /\ pc[c] = "create"
    /\ \/ /\ Key[c] \notin timelines /\ Fence(c)
          /\ timelines' = timelines \cup {Key[c]}
          /\ applied' = applied \cup {c}
          /\ Finish(c, "created") \/ Finish(c, Conflict)
       \/ /\ Key[c] \in timelines \/ ~Fence(c)
          /\ Finish(c, Conflict)
          /\ UNCHANGED <<timelines, applied>>
    /\ UNCHANGED <<lock, kept, tries, answer>>

\* Any of the reads and the transaction fails.
RequestFails(c) ==
    /\ pc[c] \in {"look", "count", "create"}
    /\ Finish(c, "error")
    /\ UNCHANGED <<timelines, lock, kept, tries, applied, answer>>

\* release_lease_lock: the keepalive ends, the lease is revoked if etcd answers;
\* then a conflict starts over and everything else is returned.
ReleaseLock(c) ==
    /\ pc[c] = "release"
    /\ lock' \in {lock} \cup (IF lock = c THEN {Free} ELSE {})
    /\ kept' = (kept /\ lock # c)
    /\ \/ result[c] = Conflict /\ Again(c)
       \/ result[c] # Conflict /\ End(c, result[c]) /\ UNCHANGED tries
    /\ UNCHANGED <<timelines, applied>>

\* Drop for EtcdLeaseLock: the call is dropped, the lease no longer kept alive.
DropCall(c) ==
    /\ pc[c] # "end"
    /\ End(c, "error")
    /\ kept' = (kept /\ lock # c)
    /\ UNCHANGED <<timelines, lock, tries, applied>>

\* The lease runs out, of a holder that is cut off also while it is kept alive.
ExpireLock ==
    /\ lock # Free
    /\ lock' = Free /\ kept' = FALSE
    /\ UNCHANGED <<timelines, pc, tries, result, applied, answer>>

Step(c) == TryLock(c) \/ LookUp(c) \/ CountRoutes(c) \/ CreateFenced(c) \/ ReleaseLock(c)

Next ==
    \/ \E c \in Calls : Step(c) \/ RequestFails(c) \/ DropCall(c)
    \/ ExpireLock

Spec == Init /\ [][Next]_vars

-----------------------------------------------------------------------------
\* The loop ends after its attempts (TIMELINE_CREATION_LOCK_RETRY_ATTEMPTS).
TypeOK ==
    /\ timelines \subseteq Initial \cup {Key[c] : c \in Calls}
    /\ lock \in Calls \cup {Free} /\ pc \in [Calls -> Pcs]
    /\ tries \in [Calls -> 0 .. Attempts]

\* However the calls of several workers interleave, leases run out under their
\* holders and answers are lost, etcd's creation does what the in-memory store's
\* one step does: the limit is kept, each call creates at most once, and
\* "created", "exists" and "limit reached" are true when they are returned
\* (create_timeline_with_limit in timeline.rs and memory.rs).
Promise == INSTANCE LimitedCreation WITH timelines <- timelines, applied <- applied, answer <- answer
PromisedStep == Promise!Next \/ UNCHANGED <<timelines, applied, answer>>
=============================================================================
