------------------------------ MODULE Admission ------------------------------
(***************************************************************************)
(* Admission to one shared generator and the quota of its timelines        *)
(* (service/mod.rs: acquire_generator_admission and its guards;            *)
(* service/allocation/quota.rs; the loop of                                *)
(* serve_allocation_from_timeline_state_handle in allocation/serve.rs).    *)
(*                                                                         *)
(* A request takes the turn of the generator, first come first served,     *)
(* then its permit, charges the quota of its timeline and allocates.  The  *)
(* turn is a key in a mutex, handed on with tokio's Notify, which wakes    *)
(* those that were enabled before it fired.                                *)
(*                                                                         *)
(* Quota is counted in units of 1/Window token, so that one millisecond    *)
(* refills Capacity units.  Of the clock only the distance to the last     *)
(* refill is kept: negative after the clock was set back, and no larger    *)
(* than what fills an empty bucket.                                        *)
(***************************************************************************)
EXTENDS Integers, Sequences, SequencesExt

CONSTANTS
    Requests,       \* the requests, each with a timeline and a count
    Timelines,
    KeyOf,          \* [Requests -> Timelines]
    Patient,        \* requests with a RequestCancellation, which wait and try again
    Count,          \* [Requests -> 1 .. Capacity], after validate_batch_for_route
    Capacity,       \* timeline_quota_capacity_for_route
    Window,         \* effective_future_borrow_ms_for_route
    MaxContended,   \* MAX_ALLOCATION_CONTENTION_RETRIES
    MaxFailures,    \* bound: allocations that fail for contention
    MaxRewind,      \* bound: how far the clock is set back
    Faults          \* of "cancel", "drop", "rewind"

\* The constants fit together.
AdmissionAssumption ==
    /\ KeyOf \in [Requests -> Timelines] /\ Capacity \in Nat \ {0} /\ Window \in Nat \ {0}
    /\ Count \in [Requests -> 1 .. Capacity]
    /\ MaxContended \in Nat \ {0} /\ MaxFailures \in Nat /\ MaxRewind \in Nat
    /\ Faults \subseteq {"cancel", "drop", "rewind"} /\ Patient \subseteq Requests

VARIABLES
    active,     \* active_timeline_key
    queue,      \* wait_queue, by request: one entry per request at most
    enabled,    \* requests enabled in the Notify and not woken since
    permit,     \* who holds the semaphore's one permit
    pc,         \* where each request is
    after,      \* where it goes once it has let go of turn and permit
    retries,    \* contention_retries
    failures,   \* contended allocations so far
    tokens,     \* timeline_quota_tokens, in units
    since,      \* now_ms - timeline_quota_last_refill_ms
    level       \* history: a leaky bucket of what was issued, in units

admission == <<active, queue, enabled, permit>>
quota == <<tokens, since, level>>
vars == <<admission, quota, pc, after, retries, failures>>

None == "none"
Full == Capacity * Window
Least(S) == CHOOSE x \in S : \A y \in S : x <= y
Most(S) == CHOOSE x \in S : \A y \in S : y <= x

Pcs == {"top", "look", "sleep", "turn", "serve", "unturn", "notify", "unpermit", "wait", "done"}

Init ==
    /\ active = None /\ queue = <<>> /\ enabled = {} /\ permit = None
    /\ pc = [r \in Requests |-> "top"] /\ after = [r \in Requests |-> "done"]
    /\ retries = [r \in Requests |-> 0] /\ failures = 0
    /\ tokens = [t \in Timelines |-> Full] /\ since = [t \in Timelines |-> 0]
    /\ level = [t \in Timelines |-> 0]

Goto(r, label) == pc' = [pc EXCEPT ![r] = label]
Queued(r) == \E i \in DOMAIN queue : queue[i] = r

-----------------------------------------------------------------------------
(* The turn.                                                                *)

\* The top of the loop: notified().enable() before the lock.
Enable(r) ==
    /\ pc[r] = "top"
    /\ enabled' = enabled \cup {r}
    /\ Goto(r, "look")
    /\ UNCHANGED <<active, queue, permit, quota, after, retries, failures>>

\* queue_generator_waiter_if_needed.
JoinQueue(r) == queue' = IF Queued(r) THEN queue ELSE Append(queue, r)

\* Mutant of Granted: the front of the queue goes on though the turn is taken.
GrantedBusy(r) == queue # <<>> => Head(queue) = r
\* Nobody has the turn, and nobody waits for it but perhaps r, at the front.
Granted(r) == active = None /\ (queue # <<>> => Head(queue) = r)

\* Under the lock: the turn is taken, or the request is in the queue.
Look(r) ==
    /\ pc[r] = "look"
    /\ \/ /\ Granted(r)
          /\ active' = KeyOf[r]
          /\ queue' = SelectSeq(queue, LAMBDA q : q # r)
          /\ enabled' = enabled \ {r}
          /\ Goto(r, "turn")
       \/ /\ ~Granted(r)
          /\ JoinQueue(r)
          /\ Goto(r, "sleep")
          /\ UNCHANGED <<active, enabled>>
    /\ UNCHANGED <<permit, quota, after, retries, failures>>

Wake(r) ==
    /\ pc[r] = "sleep" /\ r \notin enabled
    /\ Goto(r, "top")
    /\ UNCHANGED <<admission, quota, after, retries, failures>>

TakePermit(r) ==
    /\ pc[r] = "turn" /\ permit = None
    /\ permit' = r
    /\ Goto(r, "serve")
    /\ UNCHANGED <<active, queue, enabled, quota, after, retries, failures>>

\* GeneratorAdmissionTurnGuard::release_inner: the turn goes if it is still of
\* this timeline, ...
Unturn(r) ==
    /\ pc[r] = "unturn"
    /\ IF active = KeyOf[r]
       THEN active' = None /\ Goto(r, "notify")
       ELSE UNCHANGED active /\ Goto(r, "unpermit")
    /\ UNCHANGED <<queue, enabled, permit, quota, after, retries, failures>>

\* ... and with the lock released, everybody who is enabled is woken.
NotifyAll(r) ==
    /\ pc[r] = "notify"
    /\ enabled' = {}
    /\ Goto(r, "unpermit")
    /\ UNCHANGED <<active, queue, permit, quota, after, retries, failures>>

\* The semaphore's permit is the last to go.
Unpermit(r) ==
    /\ pc[r] = "unpermit"
    /\ permit' = IF permit = r THEN None ELSE permit
    /\ pc' = [pc EXCEPT ![r] = after[r]]
    /\ UNCHANGED <<active, queue, enabled, quota, after, retries, failures>>

\* Mutant of LeaveQueue: the others are not told when the front goes.
LeaveQueueSilently(r) ==
    /\ queue' = SelectSeq(queue, LAMBDA q : q # r)
    /\ enabled' = enabled \ {r}
    /\ Goto(r, "done")
    /\ UNCHANGED after
\* GeneratorAdmissionWaiterGuard::drop.
LeaveQueue(r) ==
    /\ queue' = SelectSeq(queue, LAMBDA q : q # r)
    /\ enabled' = enabled \ {r}
    /\ Goto(r, IF queue # <<>> /\ Head(queue) = r THEN "notify" ELSE "done")
    /\ after' = [after EXCEPT ![r] = "done"]

\* The request is cancelled or its future dropped, while it waits for the turn,
\* the permit, the timeline's state or the time after which it tries again.
Cancel(r) ==
    /\ "drop" \in Faults \/ ("cancel" \in Faults /\ r \in Patient)
    /\ \/ /\ pc[r] \in {"top", "sleep"}
          /\ LeaveQueue(r)
          /\ UNCHANGED <<active, permit>>
       \/ /\ pc[r] \in {"turn", "serve"}
          /\ Goto(r, "unturn") /\ after' = [after EXCEPT ![r] = "done"]
          /\ UNCHANGED admission
       \/ /\ pc[r] = "wait"
          /\ Goto(r, "done") /\ UNCHANGED <<admission, after>>
    /\ UNCHANGED <<quota, retries, failures>>

\* The future is dropped at the lock of the timeline's state: fields drop in
\* order, the permit before the turn.
DropServing(r) ==
    /\ "drop" \in Faults /\ pc[r] = "serve"
    /\ permit' = None
    /\ Goto(r, "unturn") /\ after' = [after EXCEPT ![r] = "done"]
    /\ UNCHANGED <<active, queue, enabled, quota, retries, failures>>

-----------------------------------------------------------------------------
(* The quota.                                                               *)

\* Tokens and what has been refilled since, never more than the capacity; a
\* clock that was set back has refilled nothing.
Available(t) == Least({tokens[t] + Most({since[t], 0}) * Capacity, Full})

Charged(r) == Available(KeyOf[r]) - Count[r] * Window
Refunded(r) == Least({Charged(r) + Count[r] * Window, Full})
Charge(t, left) == tokens' = [tokens EXCEPT ![t] = left] /\ since' = [since EXCEPT ![t] = 0]

\* wait_for_future_borrow_error, and the end of the contention retries.
Later(r) == IF r \in Patient THEN "wait" ELSE "done"
Release(r, next) == Goto(r, "unturn") /\ after' = [after EXCEPT ![r] = next]
Enough(r) == Count[r] * Window <= Available(KeyOf[r])

\* The timeline's state is locked and the quota is not enough: the failed
\* charge changes nothing.
QuotaExceeded(r) ==
    /\ pc[r] = "serve" /\ ~Enough(r)
    /\ Release(r, Later(r))
    /\ UNCHANGED <<admission, quota, retries, failures>>

Serve(r) ==
    LET t == KeyOf[r] IN
    /\ pc[r] = "serve" /\ Enough(r)
    /\ Charge(t, Charged(r))
    /\ level' = [level EXCEPT ![t] = @ + Count[r] * Window]
    /\ Release(r, "done")
    /\ UNCHANGED <<admission, retries, failures>>

\* allocate_after is contended: the charge is refunded, and after a number of
\* retries the request waits a millisecond.
Contended(r) ==
    /\ pc[r] = "serve" /\ Enough(r) /\ failures < MaxFailures
    /\ Charge(KeyOf[r], Refunded(r))
    /\ failures' = failures + 1
    /\ IF retries[r] + 1 >= MaxContended
       THEN retries' = [retries EXCEPT ![r] = 0] /\ Release(r, Later(r))
       ELSE retries' = [retries EXCEPT ![r] = @ + 1] /\ Release(r, "top")
    /\ UNCHANGED <<admission, level>>

\* The cursor is at the lease's or the borrow window's end, or allocate_after
\* fails otherwise: refunded too, and the serve loop is left or waits.
AllocationFails(r) ==
    /\ pc[r] = "serve" /\ Enough(r) /\ failures < MaxFailures
    /\ Charge(KeyOf[r], Refunded(r))
    /\ failures' = failures + 1
    /\ \E next \in {"done", Later(r)} : Release(r, next)
    /\ UNCHANGED <<admission, level, retries>>

\* wait_for_future_borrow_error ends.
WaitEnds(r) ==
    /\ pc[r] = "wait"
    /\ Goto(r, "top")
    /\ UNCHANGED <<admission, quota, after, retries, failures>>

\* Time: a millisecond, or the clock is set back.
Tick ==
    /\ since' = [t \in Timelines |-> Least({since[t] + 1, Window})]
    /\ level' = [t \in Timelines |-> Most({level[t] - Capacity, 0})]
    /\ UNCHANGED <<admission, tokens, pc, after, retries, failures>>
Rewind ==
    /\ "rewind" \in Faults
    /\ \A t \in Timelines : since[t] > -MaxRewind
    /\ since' = [t \in Timelines |-> since[t] - 1]
    /\ UNCHANGED <<admission, tokens, level, pc, after, retries, failures>>

Proceed(r) ==
    \/ Enable(r) \/ Look(r) \/ Wake(r) \/ TakePermit(r) \/ Unturn(r) \/ NotifyAll(r)
    \/ Unpermit(r) \/ QuotaExceeded(r) \/ Serve(r) \/ Contended(r) \/ AllocationFails(r)
    \/ WaitEnds(r)

Next == Tick \/ Rewind \/ \E r \in Requests : Proceed(r) \/ Cancel(r) \/ DropServing(r)

Spec == Init /\ [][Next]_vars

-----------------------------------------------------------------------------
HasTurn(r) == pc[r] \in {"turn", "serve", "unturn"}

TypeOK ==
    /\ active \in Timelines \cup {None} /\ permit \in Requests \cup {None}
    /\ IsInjective(queue) /\ ToSet(queue) \subseteq Requests /\ enabled \subseteq Requests
    /\ pc \in [Requests -> Pcs]
    /\ tokens \in [Timelines -> 0 .. Full] /\ since \in [Timelines -> -MaxRewind .. Window]

\* One request at a time has the turn, and it is the timeline's whose key the
\* turn shows, although release_inner compares the keys of timelines and not
\* the requests.
OneTurn ==
    /\ \A r, s \in Requests : HasTurn(r) /\ HasTurn(s) => r = s
    /\ \A r \in Requests : HasTurn(r) => active = KeyOf[r]
    /\ active # None => \E r \in Requests : HasTurn(r)

\* No burst: what a timeline was issued never exceeds a leaky bucket of its
\* capacity that drains as fast as the quota is refilled (charge_timeline_quota,
\* refund_timeline_quota), also when the clock is set back and runs again.
QuotaKept == \A t \in Timelines : level[t] <= Full

\* A request that does not fit waits only as long as the bucket is short: the
\* charge of failed allocations is given back, and no refill is lost while the
\* clock is not set back.
NothingLost == \A t \in Timelines : Available(t) >= Full - level[t]
=============================================================================
