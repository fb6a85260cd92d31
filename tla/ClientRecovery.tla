---------------------------- MODULE ClientRecovery ----------------------------
(***************************************************************************)
(* The client bound to one timeline (client.rs): Client.                   *)
(*                                                                         *)
(* Calls share a route snapshot.  A call whose owner reports a stale route *)
(* or is UNAVAILABLE refreshes the snapshot, one call at a time, over the  *)
(* channel the client was connected with, and tries again; any other error *)
(* ends the call.  Version v of the route names the worker OwnerOf[v].     *)
(* A worker serves a request of the current version only (rpc and service, *)
(* modelled elsewhere), and with idempotency enabled finds the record of a *)
(* request it has served before.                                           *)
(***************************************************************************)
EXTENDS Naturals, FiniteSets, TLC

CONSTANTS
    Workers,
    Bootstrap,      \* the worker behind the channel of the route client
    Calls,          \* tasks that call allocate_timestamps
    OwnerOf,        \* the owner a version of the route names; DOMAIN = 0 .. MaxVersion
    MaxVersion,     \* bound: times the route moves
    Attempts,       \* stale_route_retry_attempts
    Idempotent,     \* idempotency_enabled
    Faults,         \* what may happen to a worker: "crash", "silent"
    Fragile,        \* the workers it may happen to
    MaxLost         \* bound: answers lost with their connection, dropped calls

None == "none"

\* The constants fit together.
ClientAssumption ==
    /\ None \notin Workers \cup Calls /\ Bootstrap \in Workers /\ Fragile \subseteq Workers
    /\ MaxVersion \in Nat /\ Attempts \in Nat /\ MaxLost \in Nat /\ Idempotent \in BOOLEAN
    /\ OwnerOf \in [0 .. MaxVersion -> Workers] /\ Faults \subseteq {"crash", "silent"}

VARIABLES
    version,    \* of the route in the metadata store
    state,      \* of a worker: up, crash (gone), or silent (it hangs: connections are
                \* accepted and nothing is answered)
    snapshot,   \* route_snapshot: the version the client has
    guard,      \* the holder of route_refresh
    pc,         \* where a call is
    observed,   \* the version of its last attempt
    retries,    \* stale_retries
    fetched,    \* the version in the answer to its get_timeline_route
    recorded,   \* whether the store has a record under the call's request id
    charged,    \* history: allocations made for the call
    lost        \* answers lost and calls dropped so far

vars == <<version, state, snapshot, guard, pc, observed, retries, fetched, recorded, charged, lost>>
world == <<version, state>>
call == <<observed, retries, fetched, recorded, charged>>

Versions == 0 .. MaxVersion

\* with_channel: ensure_timeline, and the snapshot of the route it returns.
Init ==
    /\ version = 0 /\ state = [w \in Workers |-> "up"] /\ snapshot = 0 /\ guard = None
    /\ pc = [c \in Calls |-> "idle"] /\ observed = [c \in Calls |-> 0]
    /\ retries = [c \in Calls |-> 0] /\ fetched = [c \in Calls |-> 0]
    /\ recorded = [c \in Calls |-> FALSE] /\ charged = [c \in Calls |-> 0] /\ lost = 0

Goto(c, label) == pc' = [pc EXCEPT ![c] = label]

-----------------------------------------------------------------------------
\* A transfer or a failover moves the route to a worker that is up; whether the
\* old owner is up does not matter.
MoveRoute ==
    /\ version < MaxVersion /\ state[OwnerOf[version + 1]] = "up"
    /\ version' = version + 1
    /\ UNCHANGED <<state, snapshot, guard, pc, call, lost>>

\* A worker is gone, or hangs; the route can still move away from it.
WorkerFails(w, how) ==
    /\ how \in Faults /\ w \in Fragile /\ state[w] = "up"
    /\ version < MaxVersion /\ \A v \in version + 1 .. MaxVersion : OwnerOf[v] # w
    /\ state' = [state EXCEPT ![w] = how]
    /\ UNCHANGED <<version, snapshot, guard, pc, call, lost>>

-----------------------------------------------------------------------------
\* Mutant of NextRequestId: the id is that of the attempt, not of the call.
NextRequestIdPerAttempt(c) == recorded' = [recorded EXCEPT ![c] = FALSE]

\* next_client_request_id: a new id has no record; without idempotency no request
\* has one.  A call has one id for all its attempts.
NextRequestId(c) == recorded' = [recorded EXCEPT ![c] = IF pc[c] = "idle" THEN FALSE ELSE @]

Begin(c) ==
    /\ pc[c] = "idle"
    /\ NextRequestId(c)
    /\ retries' = [retries EXCEPT ![c] = 0] /\ charged' = [charged EXCEPT ![c] = 0]
    /\ observed' = [observed EXCEPT ![c] = 0] /\ fetched' = [fetched EXCEPT ![c] = 0]
    /\ Goto(c, "top")
    /\ UNCHANGED <<world, snapshot, guard, lost>>

\* The top of the loop: the route and the channel of one snapshot, and the request.
Attempt(c) ==
    /\ pc[c] = "top"
    /\ observed' = [observed EXCEPT ![c] = snapshot]
    /\ NextRequestId(c)
    /\ Goto(c, "sent")
    /\ UNCHANGED <<world, snapshot, guard, retries, fetched, charged, lost>>

Owner(c) == OwnerOf[observed[c]]
Current(c) == observed[c] = version /\ state[Owner(c)] = "up"
Charge(c) ==
    /\ charged' = [charged EXCEPT ![c] = IF recorded[c] THEN @ ELSE @ + 1]
    /\ recorded' = [recorded EXCEPT ![c] = Idempotent]

Served(c) ==
    /\ pc[c] = "sent" /\ Current(c)
    /\ Charge(c)
    /\ Goto(c, "ok")
    /\ UNCHANGED <<world, snapshot, guard, observed, retries, fetched, lost>>

\* The caller has its ranges.
Return(c) ==
    /\ pc[c] = "ok"
    /\ Goto(c, "idle")
    /\ UNCHANGED <<world, snapshot, guard, call, lost>>

\* Mutant of Recover: the next attempt comes without the refresh.
RecoverStale(c) ==
    IF retries[c] < Attempts
    THEN retries' = [retries EXCEPT ![c] = @ + 1] /\ Goto(c, "sleep")
    ELSE Goto(c, "idle") /\ UNCHANGED retries

\* An error for which is_route_recovery_error holds: another round while there are
\* attempts left, the caller's error otherwise.
Recover(c) ==
    IF retries[c] < Attempts
    THEN retries' = [retries EXCEPT ![c] = @ + 1] /\ Goto(c, "guard")
    ELSE Goto(c, "idle") /\ UNCHANGED retries

\* NotTimelineOwner, RouteVersionMismatch, EpochMismatch.
StaleRoute(c) ==
    /\ pc[c] = "sent" /\ observed[c] # version /\ state[Owner(c)] = "up"
    /\ Recover(c)
    /\ UNCHANGED <<world, snapshot, guard, observed, fetched, recorded, charged, lost>>

\* UNAVAILABLE: nobody there, or the connection breaks after the allocation.
Unavailable(c) ==
    /\ pc[c] = "sent"
    /\ \/ state[Owner(c)] = "crash" /\ UNCHANGED <<charged, recorded, lost>>
       \/ Current(c) /\ lost < MaxLost /\ Charge(c) /\ lost' = lost + 1
    /\ Recover(c)
    /\ UNCHANGED <<world, snapshot, guard, observed, fetched>>

\* The timeout of a request nobody answers, which is no reason to refresh.
TimedOut(c) ==
    /\ pc[c] = "sent" /\ state[Owner(c)] = "silent"
    /\ Goto(c, "idle")
    /\ UNCHANGED <<world, snapshot, guard, call, lost>>

-----------------------------------------------------------------------------
\* refresh_route_if_unchanged: the guard, and the snapshot another call may have
\* replaced meanwhile.  Routes of one timeline are the same if their version is.
TakeGuard(c) ==
    /\ pc[c] = "guard" /\ guard = None
    /\ IF snapshot # observed[c]
       THEN Goto(c, "sleep") /\ UNCHANGED guard
       ELSE Goto(c, "fetch") /\ guard' = c
    /\ UNCHANGED <<world, snapshot, call, lost>>

Unguard(c) == guard' = IF guard = c THEN None ELSE guard

\* get_timeline_route at the bootstrap worker, which reads the store.
Fetch(c) ==
    /\ pc[c] = "fetch" /\ state[Bootstrap] = "up"
    /\ fetched' = [fetched EXCEPT ![c] = version]
    /\ Goto(c, "fetched")
    /\ UNCHANGED <<world, snapshot, guard, observed, retries, recorded, charged, lost>>

\* replace_route_snapshot with the channel of route_snapshot_for.
Replace(c) ==
    /\ pc[c] = "fetched"
    /\ snapshot' = fetched[c]
    /\ Unguard(c) /\ Goto(c, "sleep")
    /\ UNCHANGED <<world, call, lost>>

\* An UNAVAILABLE bootstrap worker is transient: the call tries its owner again.
\* The timeout, a missing or an empty route end the call.
FetchFails(c) ==
    /\ pc[c] = "fetch" /\ state[Bootstrap] # "up"
    /\ Goto(c, IF state[Bootstrap] = "crash" THEN "sleep" ELSE "idle")
    /\ Unguard(c)
    /\ UNCHANGED <<world, snapshot, call, lost>>

\* The backoff is over.
WakeUp(c) ==
    /\ pc[c] = "sleep"
    /\ Goto(c, "top")
    /\ UNCHANGED <<world, snapshot, guard, call, lost>>

\* The caller drops the future, in whatever await it is.
DropCall(c) ==
    /\ pc[c] \in {"sent", "guard", "fetch", "sleep"} /\ lost < MaxLost
    /\ lost' = lost + 1
    /\ Unguard(c) /\ Goto(c, "idle")
    /\ UNCHANGED <<world, snapshot, call>>

Proceed(c) ==
    \/ Begin(c) \/ Attempt(c) \/ Served(c) \/ Return(c) \/ StaleRoute(c) \/ Unavailable(c) \/ TimedOut(c)
    \/ Fetch(c) \/ Replace(c) \/ FetchFails(c) \/ WakeUp(c)

Next ==
    \/ MoveRoute \/ \E w \in Workers, how \in {"crash", "silent"} : WorkerFails(w, how)
    \/ \E c \in Calls : Proceed(c) \/ TakeGuard(c) \/ DropCall(c)

Spec == Init /\ [][Next]_vars

-----------------------------------------------------------------------------
\* The refresh guard is held during the request for the route only.
TypeOK ==
    /\ version \in Versions /\ snapshot \in Versions /\ retries \in [Calls -> 0 .. Attempts]
    /\ state \in [Workers -> {"up", "crash", "silent"}]
    /\ \A c \in Calls : guard = c => pc[c] \in {"fetch", "fetched"}

\* With idempotency enabled a call is charged for one allocation at most, although
\* attempts whose answer is lost are repeated, at other owners too
\* (allocate_timestamps, next_client_request_id).
ChargedOnce == Idempotent => \A c \in Calls : charged[c] <= 1
=============================================================================
