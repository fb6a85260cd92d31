--------------------------- MODULE GeneratorLease ---------------------------
(***************************************************************************)
(* One timestamp generator, its metadata record and the processes that     *)
(* compete for it (service/lease.rs, runtime/generator_lease.rs).          *)
(*                                                                         *)
(* A process may issue a timestamp only under a generator lease.  The      *)
(* record in the metadata store says who owns the lease, until when, and   *)
(* up to which timestamp (issued_upper_bound) the owner may issue without  *)
(* writing again.  Every write is a compare-and-swap on the record's       *)
(* revision; every other step reads state that may be stale by the time    *)
(* it is used.                                                             *)
(*                                                                         *)
(* Timestamps of one generator are ordered as their index                  *)
(* physical_ms * Cap + sequence (module TimestampLayout), so a timestamp   *)
(* is its index here.  Option<u64>'s None is -1: below every index, as     *)
(* merge_max treats it.                                                    *)
(*                                                                         *)
(* A process that crashes takes no further step; a restarted process is    *)
(* another member of Procs, with the same instance id when the identity is *)
(* stable.  Clocks of two processes differ by at most MaxSkew.             *)
(***************************************************************************)
EXTENDS Integers, FiniteSets

CONSTANTS
    Procs,             \* process incarnations
    InstanceOf,        \* the instance id each of them runs under
    Cap,               \* sequence_capacity(): indices per millisecond
    MaxPhysical,       \* max_physical_ms() of the layout
    Ttl,               \* generator_lease_ttl_ms
    PreBorrow,         \* pre_borrow_ms
    SafetyGap,         \* safety_gap_ms
    MaxSkew,           \* max_clock_skew_ms
    MaxClockRewind,    \* max_clock_rewind_ms
    FutureBorrows,     \* future-borrow allowances a timeline may have (ms)
    FloorIndices,      \* first indices a timeline's own floor may ask for
    Counts,            \* batch sizes of a request
    MaxClock,          \* bound on the clocks
    Tasks,             \* which of AllTasks each process has beside taking the lease
    MaxRev,            \* bound on the writes to the record
    MaxOrphans         \* bound on the writes given up on and still on their way

AllTasks == {"request", "batch", "renew", "shutdown", "error", "abort"}

ASSUME ConstantsAssumption ==
    /\ Tasks \in [Procs -> SUBSET AllTasks] /\ MaxOrphans \in Nat
    /\ \A p \in Procs : InstanceOf[p] # "none"
    /\ Cap \in Nat \ {0} /\ MaxPhysical \in Nat
    /\ Ttl \in Nat \ {0} /\ PreBorrow \in Nat
    /\ SafetyGap \in Nat /\ MaxSkew \in Nat
    /\ MaxClockRewind \in Nat /\ MaxRev \in Nat
    /\ MaxClock \in 0..(MaxPhysical + 1)
    /\ FutureBorrows \subseteq Nat
    /\ FloorIndices \subseteq Nat
    /\ Counts \subseteq Nat \ {0}

\* The configuration check of an etcd worker refuses a smaller gap (config.rs:446); only
\* LeaseExclusive needs it.
ASSUME SkewAssumption == MaxSkew <= SafetyGap

VARIABLES
    record, rev,       \* the generator's record and its revision (0: absent)
    orphans,           \* writes whose caller gave up, still on their way
    clock,             \* now_ms() of each process
    next,              \* Generator.next_index
    ready,             \* Generator.ready_lease_token
    phase,             \* whether the service is up, shutting down or down
    lease,             \* GeneratorRuntimeState.leases (rev = 0: no entry)
    op,                \* the lease operation in each of a process's slots
    req,               \* one allocation request per process
    issued,            \* indices issued under a bound
    dup,               \* indices issued under a bound a second time
    stale              \* indices issued again without a bound

store == <<record, rev, orphans>>
history == <<issued, dup, stale>>
vars == <<record, rev, orphans, clock, next, ready, phase, lease, op, req,
          issued, dup, stale>>

-----------------------------------------------------------------------------
(* Values *)

None == -1
NoOwner == "none"
Tso == Nat \cup {None}
Ids == {InstanceOf[p] : p \in Procs} \cup {NoOwner}
Later(a, b) == IF a >= b THEN a ELSE b

\* The physical part of an index; None has physical part -1, before any clock.
Phys(i) == i \div Cap

Record == [owner : Ids, tok : Nat, exp : Nat, last : Tso, ub : Tso]
Lease == [rev : Nat, tok : Nat, exp : Nat, last : Tso, ub : Tso]
NoRecord == [owner |-> NoOwner, tok |-> 0, exp |-> 0, last |-> None, ub |-> None]
NoLease == [rev |-> 0, tok |-> 0, exp |-> 0, last |-> None, ub |-> None]

\* The singleflight slot, the background batch refresh (which does not take
\* the singleflight) and the shutdown flush of the generator floor.
Slots == {"flight", "batch", "flush"}
Goals == {"lease", "alloc", "horizon"}
Kinds == {"none", "create", "takeover", "refresh", "flush"}
Pcs == {"idle", "load", "loaded", "cas", "ok", "conflict"}
Op == [pc : Pcs, goal : Goals, kind : Kinds, expect : Nat, rec : Record, base : Lease]
Idle == [pc |-> "idle", goal |-> "lease", kind |-> "none", expect |-> 0,
         rec |-> NoRecord, base |-> NoLease]
Loading(goal) == [pc |-> "load", goal |-> goal, kind |-> "none", expect |-> 0,
                  rec |-> NoRecord, base |-> NoLease]
Advance(o, pc, kind, expect, rec) ==
    [pc |-> pc, goal |-> o.goal, kind |-> kind, expect |-> expect, rec |-> rec,
     base |-> o.base]
Write == [expect : Nat, rec : Record]
Req == [st : {"idle", "ensuring", "granted", "guard", "serve", "horizon"}, ub : Tso]
NoReq == [st |-> "idle", ub |-> None]

\* Mutant of Floor: recovery looks at last_issued_tso only, not at the bound.
FloorIgnoresBound(r) == r.last

\* generator_recovery_floor_tso: nothing above it may have been issued.
Floor(r) == Later(r.last, r.ub)

\* compute_generator_upper_bound: the last index of base + pre_borrow, or None
\* when that millisecond does not fit the layout.
UpperBound(base) ==
    IF base + PreBorrow <= MaxPhysical
    THEN (base + PreBorrow) * Cap + (Cap - 1)
    ELSE None

\* Mutant of LeaseExpiredWithSafetyGap: the gap is forgotten.
ExpiredWithoutGap(exp, now) == exp <= now

LocalOwner(p, r) == r.owner = InstanceOf[p]
LeaseExpiredWithSafetyGap(exp, now) == exp + SafetyGap <= now

\* Generator.current_last_issued_tso: what lies just below the cursor.
LocalLast(p) == next[p] - 1

LeaseValid(p) ==
    /\ lease[p].rev # 0
    /\ lease[p].exp > clock[p]
    /\ lease[p].tok # 0
    /\ ready[p] = lease[p].tok

ValidUpperBound(p) == IF LeaseValid(p) THEN lease[p].ub ELSE None

\* The physical part a new bound starts from, and whether one is due.
RefreshBase(l, p) == Later(l.ub, Later(l.last, LocalLast(p)))

\* GeneratorLeaseRefreshPlan: what a refresh of lease l would write.
ExtendsUpperBound(l, p, reason) ==
    \/ reason # "Maintenance"
    \/ Phys(RefreshBase(l, p)) <= clock[p] + PreBorrow \div 2

RenewsLease(l, p, reason) ==
    \/ reason = "ExplicitRenewal"
    \/ l.exp <= clock[p] + Ttl \div 2

NeedsWrite(l, p, reason) ==
    \/ reason # "Maintenance"
    \/ RenewsLease(l, p, reason)
    \/ ExtendsUpperBound(l, p, reason)

\* Mutant of RefreshRecord: the new bound replaces the old one instead of being
\* merged with it, so a bound that does not fit the layout erases it.
RefreshRecordUnmerged(l, p, reason) ==
    [owner |-> InstanceOf[p],
     tok   |-> l.tok,
     exp   |-> IF RenewsLease(l, p, reason) THEN clock[p] + Ttl ELSE l.exp,
     last  |-> Later(l.last, LocalLast(p)),
     ub    |-> IF ExtendsUpperBound(l, p, reason)
               THEN UpperBound(Later(clock[p], Phys(RefreshBase(l, p))))
               ELSE l.ub]

RefreshRecord(l, p, reason) ==
    [owner |-> InstanceOf[p],
     tok   |-> l.tok,
     exp   |-> IF RenewsLease(l, p, reason) THEN clock[p] + Ttl ELSE l.exp,
     last  |-> Later(l.last, LocalLast(p)),
     ub    |-> IF ExtendsUpperBound(l, p, reason)
               THEN Later(l.ub, UpperBound(Later(clock[p], Phys(RefreshBase(l, p)))))
               ELSE l.ub]

-----------------------------------------------------------------------------
Init ==
    /\ record = NoRecord /\ rev = 0 /\ orphans = {}
    /\ clock = [p \in Procs |-> 0]
    /\ next = [p \in Procs |-> 0]
    /\ ready = [p \in Procs |-> 0]
    /\ phase = [p \in Procs |-> "up"]
    /\ lease = [p \in Procs |-> NoLease]
    /\ op = [p \in Procs |-> [s \in Slots |-> Idle]]
    /\ req = [p \in Procs |-> NoReq]
    /\ issued = {} /\ dup = {} /\ stale = {}

\* now_ms() never goes back; two clocks differ by at most MaxSkew.
Tick(p) ==
    /\ clock[p] < MaxClock
    /\ \A q \in Procs : clock[p] + 1 - clock[q] <= MaxSkew
    /\ clock' = [clock EXCEPT ![p] = @ + 1]
    /\ UNCHANGED <<store, next, ready, lease, op, req, phase, history>>

-----------------------------------------------------------------------------
(* The metadata store *)

\* A compare-and-swap reaches the store.  A committed write may be reported as
\* a conflict: retry_etcd_request sends the transaction again after an
\* ambiguous error, and the second attempt meets the first one's revision.
Commit(p, s) ==
    LET o == op[p][s]
        Answer(a) == op' = [op EXCEPT ![p][s] = Advance(o, a, o.kind, o.expect, o.rec)] IN
    /\ o.pc = "cas"
    /\ \/ /\ o.expect = rev /\ rev < MaxRev
          /\ record' = o.rec
          /\ rev' = rev + 1
          /\ Answer("ok") \/ Answer("conflict")
       \/ /\ o.expect # rev
          /\ Answer("conflict")
          /\ UNCHANGED <<record, rev>>
    /\ UNCHANGED <<orphans, clock, next, ready, lease, req, phase, history>>

\* A write whose caller has given up arrives after all.
CommitOrphan(w) ==
    /\ w.expect = rev /\ rev < MaxRev
    /\ record' = w.rec
    /\ rev' = rev + 1
    /\ orphans' = orphans \ {w}
    /\ UNCHANGED <<clock, next, ready, lease, op, req, phase, history>>

-----------------------------------------------------------------------------
(* Ends of a singleflight *)

\* What the request behind a flight does next: a lease obtained for an
\* allocation is looked at again before it serves, the others start over.
ReqAfter(p, goal, ok) ==
    IF goal = "lease" THEN req
    ELSE [req EXCEPT ![p] = IF goal = "alloc" /\ ok
                            THEN [st |-> "granted", ub |-> None] ELSE NoReq]

Succeed(p) ==
    /\ op' = [op EXCEPT ![p]["flight"] = Idle]
    /\ req' = ReqAfter(p, op[p]["flight"].goal, TRUE)

\* An error returns to the caller.  After a refresh that met a conflict the old
\* entry is put back, without its ready token, if nobody has put a newer one.
Fail(p) ==
    /\ op' = [op EXCEPT ![p]["flight"] = Idle]
    /\ req' = ReqAfter(p, op[p]["flight"].goal, FALSE)
    /\ lease' = IF /\ op[p]["flight"].base.rev # 0 /\ op[p]["flight"].kind # "refresh"
                   /\ lease[p].rev = 0
                THEN [lease EXCEPT ![p] = op[p]["flight"].base] ELSE lease

-----------------------------------------------------------------------------
(* ensure_generator_lease *)

\* ensure_generator_lease, from activation, transfer or the drift retry.
EnsureLease(p) ==
    /\ op[p]["flight"].pc = "idle"
    /\ ~LeaseValid(p)
    /\ op' = [op EXCEPT ![p]["flight"] = Advance(Idle, "loaded", "none", rev, record)]
    /\ UNCHANGED <<store, clock, next, ready, lease, req, phase, history>>

\* The next turn of its loop.
LoadGenerator(p) ==
    /\ op[p]["flight"].pc = "load"
    /\ op' = [op EXCEPT ![p]["flight"] = Advance(@, "loaded", "none", rev, record)]
    /\ UNCHANGED <<store, clock, next, ready, lease, req, phase, history>>

\* Mutant of ReloadOwnLease: the cursor starts above the last persisted index
\* instead of above the recovery floor.
ReloadFromLastIssued(p) ==
    LET f == op[p]["flight"] IN
    /\ f.pc = "loaded" /\ f.expect # 0
    /\ LocalOwner(p, f.rec)
    /\ ~LeaseExpiredWithSafetyGap(f.rec.exp, clock[p])
    /\ f.rec.exp > clock[p]
    /\ next' = [next EXCEPT ![p] = Later(@, f.rec.last + 1)]
    /\ ready' = [ready EXCEPT ![p] = f.rec.tok]
    /\ lease' = [lease EXCEPT ![p] =
                    [rev |-> f.expect, tok |-> f.rec.tok, exp |-> f.rec.exp,
                     last |-> Floor(f.rec), ub |-> f.rec.ub]]
    /\ Succeed(p)
    /\ UNCHANGED <<store, clock, phase, history>>

\* This process owns the lease it read: it starts above everything the record
\* lets anybody have issued, then publishes the lease.
ReloadOwnLease(p) ==
    LET f == op[p]["flight"] IN
    /\ f.pc = "loaded" /\ f.expect # 0
    /\ LocalOwner(p, f.rec)
    /\ ~LeaseExpiredWithSafetyGap(f.rec.exp, clock[p])
    /\ f.rec.exp > clock[p]
    /\ next' = [next EXCEPT ![p] = Later(@, Floor(f.rec) + 1)]
    /\ ready' = [ready EXCEPT ![p] = f.rec.tok]
    /\ lease' = [lease EXCEPT ![p] =
                    [rev |-> f.expect, tok |-> f.rec.tok, exp |-> f.rec.exp,
                     last |-> Floor(f.rec), ub |-> f.rec.ub]]
    /\ Succeed(p)
    /\ UNCHANGED <<store, clock, phase, history>>

\* The lease belongs to somebody else, or is ours, expired, and inside the
\* safety gap: GeneratorLeaseExpired or NotGeneratorOwner.
RefuseLease(p) ==
    LET f == op[p]["flight"] IN
    /\ f.pc = "loaded" /\ f.expect # 0
    /\ ~LeaseExpiredWithSafetyGap(f.rec.exp, clock[p])
    /\ LocalOwner(p, f.rec) => f.rec.exp <= clock[p]
    /\ Fail(p)
    /\ UNCHANGED <<store, clock, next, ready, phase, history>>

\* Mutant of SendTakeover: the new owner keeps the old fencing token.
TakeoverKeepsToken(p) ==
    LET f == op[p]["flight"]
        floor == Floor(f.rec)
        base == IF floor = None THEN clock[p] ELSE Later(clock[p], Phys(floor + 1)) IN
    /\ f.pc = "loaded" /\ f.expect # 0
    /\ LeaseExpiredWithSafetyGap(f.rec.exp, clock[p])
    /\ op' = [op EXCEPT ![p]["flight"] =
                 Advance(f, "cas", "takeover", f.expect,
                         [owner |-> InstanceOf[p], tok |-> f.rec.tok,
                          exp |-> clock[p] + Ttl, last |-> floor, ub |-> UpperBound(base)])]
    /\ UNCHANGED <<store, clock, next, ready, lease, req, phase, history>>

\* The lease ran out and the safety gap has passed: claim it with the next
\* token and a bound above everything issued under the old one.
SendTakeover(p) ==
    LET f == op[p]["flight"]
        floor == Floor(f.rec)
        base == IF floor = None THEN clock[p] ELSE Later(clock[p], Phys(floor + 1)) IN
    /\ f.pc = "loaded" /\ f.expect # 0
    /\ LeaseExpiredWithSafetyGap(f.rec.exp, clock[p])
    /\ op' = [op EXCEPT ![p]["flight"] =
                 Advance(f, "cas", "takeover", f.expect,
                         [owner |-> InstanceOf[p], tok |-> f.rec.tok + 1,
                          exp |-> clock[p] + Ttl, last |-> floor, ub |-> UpperBound(base)])]
    /\ UNCHANGED <<store, clock, next, ready, lease, req, phase, history>>

\* No record yet: create it (a compare-and-swap on revision 0).
SendCreate(p) ==
    LET f == op[p]["flight"] IN
    /\ f.pc = "loaded" /\ f.expect = 0
    /\ op' = [op EXCEPT ![p]["flight"] =
                 Advance(f, "cas", "create", 0,
                         [owner |-> InstanceOf[p], tok |-> 1, exp |-> clock[p] + Ttl,
                          last |-> None, ub |-> UpperBound(clock[p])])]
    /\ UNCHANGED <<store, clock, next, ready, lease, req, phase, history>>

\* A claim was accepted.  A takeover first moves the cursor above the floor of
\* the record it has just written, its own bound included.
ClaimAccepted(p) ==
    LET f == op[p]["flight"] IN
    /\ f.pc = "ok" /\ f.kind \in {"create", "takeover"}
    /\ next' = IF f.kind = "takeover"
               THEN [next EXCEPT ![p] = Later(@, Floor(f.rec) + 1)] ELSE next
    /\ ready' = [ready EXCEPT ![p] = f.rec.tok]
    /\ lease' = [lease EXCEPT ![p] =
                    [rev |-> f.expect + 1, tok |-> f.rec.tok, exp |-> f.rec.exp,
                     last |-> f.rec.last, ub |-> f.rec.ub]]
    /\ Succeed(p)
    /\ UNCHANGED <<store, clock, phase, history>>

\* CasFailed or MetadataAlreadyExists: back off and load again.
ClaimConflict(p) ==
    /\ op[p]["flight"].pc = "conflict"
    /\ op[p]["flight"].kind \in {"create", "takeover"}
    /\ op' = [op EXCEPT ![p]["flight"] = Advance(@, "load", "none", 0, NoRecord)]
    /\ UNCHANGED <<store, clock, next, ready, lease, req, phase, history>>

-----------------------------------------------------------------------------
(* Refreshes *)

\* The write a refresh of the current entry sends.
RefreshOp(p, goal, reason) ==
    [pc |-> "cas", goal |-> goal, kind |-> "refresh", expect |-> lease[p].rev,
     rec |-> RefreshRecord(lease[p], p, reason), base |-> lease[p]]

\* A refresh writes only while the entry is there and unexpired, when its plan
\* has something to write, and when the cursor still encodes.
CanRefresh(p, reason) ==
    /\ lease[p].rev # 0
    /\ lease[p].exp > clock[p]
    /\ NeedsWrite(lease[p], p, reason)
    /\ Phys(LocalLast(p)) <= MaxPhysical

\* refresh_generator_lease_inner under the singleflight, for renew_timeline_lease.
RenewTimelineLease(p) ==
    /\ "renew" \in Tasks[p]
    /\ op[p]["flight"].pc = "idle"
    /\ CanRefresh(p, "ExplicitRenewal")
    /\ op' = [op EXCEPT ![p]["flight"] = RefreshOp(p, "lease", "ExplicitRenewal")]
    /\ UNCHANGED <<store, clock, next, ready, lease, req, phase, history>>

RefreshAccepted(p) ==
    LET f == op[p]["flight"] IN
    /\ f.pc = "ok" /\ f.kind = "refresh"
    /\ ready' = [ready EXCEPT ![p] = f.rec.tok]
    /\ lease' = [lease EXCEPT ![p] =
                    [rev |-> f.expect + 1, tok |-> f.rec.tok, exp |-> f.rec.exp,
                     last |-> f.rec.last, ub |-> f.rec.ub]]
    /\ Succeed(p)
    /\ UNCHANGED <<store, clock, next, phase, history>>

\* CasFailed: forget the lease and its ready token, then ensure it again.
RefreshConflict(p) ==
    /\ op[p]["flight"].pc = "conflict" /\ op[p]["flight"].kind = "refresh"
    /\ lease' = [lease EXCEPT ![p] = NoLease]
    /\ ready' = [ready EXCEPT ![p] = 0]
    /\ op' = [op EXCEPT ![p]["flight"] = Advance(@, "load", "none", 0, NoRecord)]
    /\ UNCHANGED <<store, clock, next, req, phase, history>>

\* refresh_generator_leases_batch: the maintenance loop, beside any flight.
BatchRefresh(p) ==
    /\ "batch" \in Tasks[p]
    /\ op[p]["batch"].pc = "idle"
    /\ CanRefresh(p, "Maintenance")
    /\ op' = [op EXCEPT ![p]["batch"] = RefreshOp(p, "lease", "Maintenance")]
    /\ UNCHANGED <<store, clock, next, ready, lease, req, phase, history>>

\* The answer is applied to whatever the entry has become meanwhile.
BatchAccepted(p) ==
    LET b == op[p]["batch"] IN
    /\ b.pc = "ok"
    /\ ready' = [ready EXCEPT ![p] = b.rec.tok]
    /\ lease' = [lease EXCEPT ![p] =
                    [rev |-> b.expect + 1, tok |-> b.rec.tok, exp |-> b.rec.exp,
                     last |-> b.rec.last, ub |-> b.rec.ub]]
    /\ op' = [op EXCEPT ![p]["batch"] = Idle]
    /\ UNCHANGED <<store, clock, next, req, phase, history>>

\* A conflict falls back on one maintenance refresh under the singleflight.
BatchConflict(p) ==
    /\ op[p]["batch"].pc = "conflict" /\ op[p]["flight"].pc = "idle"
    /\ op' = [op EXCEPT ![p]["batch"] = Idle,
                        ![p]["flight"] = IF CanRefresh(p, "Maintenance")
                                         THEN RefreshOp(p, "lease", "Maintenance")
                                         ELSE Idle]
    /\ UNCHANGED <<store, clock, next, ready, lease, req, phase, history>>

\* Mutant of Shutdown: the flush also cuts the bound back to what was issued,
\* although a request that holds the bound may still be on its way.
ShutdownCutsBound(p) ==
    LET desired == Later(record.last, LocalLast(p)) IN
    /\ "shutdown" \in Tasks[p]
    /\ phase[p] = "up"
    /\ phase' = [phase EXCEPT ![p] = "closing"]
    /\ op' = IF /\ LocalLast(p) # None /\ rev # 0 /\ LocalOwner(p, record)
             THEN [op EXCEPT ![p]["flush"] =
                      Advance(Idle, "cas", "flush", rev,
                              [owner |-> record.owner, tok |-> record.tok,
                               exp |-> record.exp, last |-> desired, ub |-> desired])]
             ELSE op
    /\ UNCHANGED <<store, clock, next, ready, lease, req, history>>

\* shutdown closes the gate for new requests, then writes the cursor into
\* last_issued_tso of a record it owns (best_effort_persist_local_generator_floor).
Shutdown(p) ==
    LET desired == Later(record.last, LocalLast(p)) IN
    /\ "shutdown" \in Tasks[p]
    /\ phase[p] = "up"
    /\ phase' = [phase EXCEPT ![p] = "closing"]
    /\ op' = IF /\ LocalLast(p) # None /\ Phys(LocalLast(p)) <= MaxPhysical
                /\ rev # 0 /\ LocalOwner(p, record) /\ record.last # desired
             THEN [op EXCEPT ![p]["flush"] =
                      Advance(Idle, "cas", "flush", rev,
                              [owner |-> record.owner, tok |-> record.tok,
                               exp |-> record.exp, last |-> desired, ub |-> record.ub])]
             ELSE op
    /\ UNCHANGED <<store, clock, next, ready, lease, req, history>>

\* Whatever became of that write, the leases are dropped once it is over
\* (invalidate_local_runtime_after_shutdown).
ClearLeases(p) ==
    /\ phase[p] = "closing" /\ op[p]["flush"].pc \notin {"load", "cas"}
    /\ phase' = [phase EXCEPT ![p] = "down"]
    /\ op' = [op EXCEPT ![p]["flush"] = Idle]
    /\ lease' = [lease EXCEPT ![p] = NoLease]
    /\ ready' = [ready EXCEPT ![p] = 0]
    /\ UNCHANGED <<store, clock, next, req, history>>

-----------------------------------------------------------------------------
(* Failures of an operation *)

Undelivered(p, s) ==
    IF op[p][s].pc = "cas" THEN {[expect |-> op[p][s].expect, rec |-> op[p][s].rec]} ELSE {}

\* The store answers with an error, or not in time: the caller sees the error,
\* the write may still arrive.
StoreError(p) ==
    /\ "error" \in Tasks[p]
    /\ op[p]["flight"].pc \in {"load", "cas"}
    /\ orphans' = orphans \cup Undelivered(p, "flight")
    /\ Cardinality(orphans') <= MaxOrphans
    /\ Fail(p)
    /\ UNCHANGED <<record, rev, clock, next, ready, phase, history>>

\* The task is dropped at an await point (a cancelled or timed-out call, a
\* background task aborted at shutdown).
Abandon(p, s) ==
    /\ "abort" \in Tasks[p]
    /\ op[p][s].pc # "idle"
    /\ orphans' = orphans \cup Undelivered(p, s)
    /\ Cardinality(orphans') <= MaxOrphans
    /\ op' = [op EXCEPT ![p][s] = Idle]
    /\ req' = ReqAfter(p, op[p][s].goal, FALSE)
    /\ UNCHANGED <<record, rev, clock, next, ready, lease, phase, history>>

-----------------------------------------------------------------------------
(* Allocation requests *)

\* try_allocate_from_cached_timeline with a valid lease: the bound is read now
\* and used after the admission queue has let the request through.
CaptureBound(p) ==
    /\ "request" \in Tasks[p] /\ phase[p] = "up"
    /\ req[p].st = "idle"
    /\ ValidUpperBound(p) # None
    /\ req' = [req EXCEPT ![p] = [st |-> "serve", ub |-> ValidUpperBound(p)]]
    /\ UNCHANGED <<store, clock, next, ready, lease, op, phase, history>>

\* ensure_generator_lease_for_allocation without one.  An allocation does not ask
\* for a lease it has lost: the record must be ours and alive, or the request fails.
AllocEnsure(p) ==
    /\ "request" \in Tasks[p] /\ phase[p] = "up"
    /\ req[p].st = "idle" /\ op[p]["flight"].pc = "idle"
    /\ ValidUpperBound(p) = None
    /\ LocalOwner(p, record) /\ record.exp > clock[p]
    /\ IF LeaseValid(p)
       THEN /\ req' = [req EXCEPT ![p] = [st |-> "granted", ub |-> None]]
            /\ UNCHANGED op
       ELSE /\ req' = [req EXCEPT ![p] = [st |-> "ensuring", ub |-> None]]
            /\ op' = [op EXCEPT ![p]["flight"] = Loading("alloc")]
    /\ UNCHANGED <<store, clock, next, ready, lease, phase, history>>

\* The lease was ensured; its bound is read at yet another time, and is None if
\* the lease is no longer valid by then or carries no bound.
AllocGrant(p) ==
    /\ req[p].st = "granted"
    /\ req' = [req EXCEPT ![p] = [st |-> "guard", ub |-> ValidUpperBound(p)]]
    /\ UNCHANGED <<store, clock, next, ready, lease, op, phase, history>>

\* cached_timeline_still_matches_metadata: the generator's record must still
\* name this process.  Its expiry is not looked at.
Revalidate(p) ==
    /\ req[p].st = "guard"
    /\ req' = [req EXCEPT ![p] = IF LocalOwner(p, record)
                                 THEN [st |-> "serve", ub |-> req[p].ub] ELSE NoReq]
    /\ UNCHANGED <<store, clock, next, ready, lease, op, phase, history>>

\* Generator::allocate_after: the range a request of count indices would get,
\* above the cursor, the clock and the timeline's own floor ...
RangeStart(p, floorIndex) ==
    Later(Later(next[p], Later(clock[p], Phys(next[p])) * Cap), floorIndex)

\* ... unless the clock is too far behind the cursor or the range too far ahead.
WithinClock(p, first, last, borrow) ==
    LET allowed == Later(Phys(next[p]), clock[p] + borrow) IN
    /\ Phys(next[p]) - clock[p] <= MaxClockRewind
    /\ Phys(first) <= allowed
    /\ Phys(last) <= allowed

\* The bound fences the range, when there is one.  Without one the cursor moves
\* even if the range then does not encode.
AllocateAfter(p, count, floorIndex, borrow) ==
    LET first == RangeStart(p, floorIndex)
        last == first + count - 1 IN
    /\ WithinClock(p, first, last, borrow)
    /\ \/ /\ req[p].ub # None /\ Phys(last) <= MaxPhysical /\ last <= req[p].ub
          /\ issued' = issued \cup first..last
          /\ dup' = dup \cup (issued \cap first..last)
          /\ UNCHANGED stale
       \/ /\ req[p].ub = None
          /\ stale' = IF Phys(last) <= MaxPhysical
                      THEN stale \cup (issued \cap first..last) ELSE stale
          /\ UNCHANGED <<issued, dup>>
    /\ next' = [next EXCEPT ![p] = last + 1]

Serve(p) ==
    /\ req[p].st = "serve"
    /\ \E count \in Counts, floorIndex \in FloorIndices, borrow \in FutureBorrows :
          AllocateAfter(p, count, floorIndex, borrow)
    /\ req' = [req EXCEPT ![p] = NoReq]
    /\ UNCHANGED <<store, clock, ready, lease, op, phase>>

\* IssuedUpperBoundExceeded: the request asks for a longer horizon.
HitBound(p) ==
    /\ req[p].st = "serve" /\ req[p].ub # None
    /\ \E count \in Counts, floorIndex \in FloorIndices, borrow \in FutureBorrows :
          LET first == RangeStart(p, floorIndex)
              last == first + count - 1 IN
          /\ WithinClock(p, first, last, borrow)
          /\ Phys(last) <= MaxPhysical /\ last > req[p].ub
    /\ req' = [req EXCEPT ![p] = [st |-> "horizon", ub |-> req[p].ub]]
    /\ UNCHANGED <<store, clock, next, ready, lease, op, phase, history>>

\* refresh_generator_lease_if_unchanged: no entry, a bound that has already
\* moved, or a forced extension.  An expired entry is an error.
ExtendHorizon(p) ==
    /\ req[p].st = "horizon" /\ op[p]["flight"].pc = "idle"
    /\ \/ /\ lease[p].rev = 0
          /\ op' = [op EXCEPT ![p]["flight"] = Loading("horizon")]
          /\ req' = [req EXCEPT ![p] = [st |-> "ensuring", ub |-> None]]
       \/ /\ CanRefresh(p, "HorizonRequired") /\ lease[p].ub = req[p].ub
          /\ op' = [op EXCEPT ![p]["flight"] = RefreshOp(p, "horizon", "HorizonRequired")]
          /\ req' = [req EXCEPT ![p] = [st |-> "ensuring", ub |-> None]]
       \/ /\ lease[p].rev # 0
          /\ lease[p].ub # req[p].ub \/ ~CanRefresh(p, "HorizonRequired")
          /\ req' = [req EXCEPT ![p] = NoReq]
          /\ UNCHANGED op
    /\ UNCHANGED <<store, clock, next, ready, lease, phase, history>>

\* A cancelled request, or any error of allocate_after.
DropRequest(p) ==
    /\ req[p].st \in {"granted", "guard", "serve", "horizon"}
    /\ req' = [req EXCEPT ![p] = NoReq]
    /\ UNCHANGED <<store, clock, next, ready, lease, op, phase, history>>

-----------------------------------------------------------------------------
Step(p) ==
    \/ Tick(p)
    \/ \E s \in Slots : Commit(p, s) \/ Abandon(p, s)
    \/ EnsureLease(p) \/ LoadGenerator(p) \/ ReloadOwnLease(p) \/ RefuseLease(p)
    \/ SendTakeover(p) \/ SendCreate(p) \/ ClaimAccepted(p) \/ ClaimConflict(p)
    \/ RenewTimelineLease(p) \/ RefreshAccepted(p) \/ RefreshConflict(p)
    \/ BatchRefresh(p) \/ BatchAccepted(p) \/ BatchConflict(p)
    \/ Shutdown(p) \/ ClearLeases(p) \/ StoreError(p)
    \/ CaptureBound(p) \/ AllocEnsure(p) \/ AllocGrant(p)
    \/ Revalidate(p) \/ Serve(p) \/ HitBound(p) \/ ExtendHorizon(p) \/ DropRequest(p)

Next ==
    \/ \E p \in Procs : Step(p)
    \/ \E w \in orphans : CommitOrphan(w)

Spec == Init /\ [][Next]_vars

-----------------------------------------------------------------------------
TypeOK ==
    /\ record \in Record /\ rev \in Nat /\ orphans \subseteq Write
    /\ clock \in [Procs -> Nat]
    /\ next \in [Procs -> Nat]
    /\ ready \in [Procs -> Nat]
    /\ phase \in [Procs -> {"up", "closing", "down"}]
    /\ lease \in [Procs -> Lease]
    /\ op \in [Procs -> [Slots -> Op]]
    /\ req \in [Procs -> Req]
    /\ issued \subseteq Nat /\ dup \subseteq Nat /\ stale \subseteq Nat

\* No index is issued twice under a bound, whatever the clocks, the delays and
\* the number of owners: the fence of allocate_after (generator_lease.rs:144)
\* together with the floor a new owner starts above (lease.rs:102-105, 174-178).
FencedUnique == dup = {}

\* The bounds a process may still issue under: its entry's, its request's, those
\* of the entries it may put back, and those of writes the store has accepted.
Accepted(o) == o.pc = "ok" /\ o.kind \in {"create", "refresh"}
Bounds(p) ==
    {lease[p].ub, req[p].ub}
        \cup {op[p][s].base.ub : s \in Slots}
        \cup {op[p][s].rec.ub : s \in {t \in Slots : Accepted(op[p][t])}}

\* The persisted floor covers every bound any process can still issue under, so
\* a takeover that starts above the floor starts above all of them.
FloorCoversBounds == \A p \in Procs : \A b \in Bounds(p) : b <= Floor(record)

\* At most one process believes it holds the lease, as long as the safety gap
\* covers the clock skew and no two processes share an instance id.
Sole(p) == \A q \in Procs : InstanceOf[q] = InstanceOf[p] => q = p
LeaseExclusive ==
    \A p, q \in Procs :
        Sole(p) /\ Sole(q) /\ LeaseValid(p) /\ LeaseValid(q) => p = q

\* No write, late or repeated, lowers the floor of the record.
FloorNeverFalls == [][Floor(record') >= Floor(record)]_vars

\* Ownership changes hands only with a larger fencing token.
TokenFencesOwner ==
    [][/\ record'.tok >= record.tok
       /\ rev # 0 /\ record'.owner # record.owner => record'.tok > record.tok]_vars

-----------------------------------------------------------------------------
(* Why no index is issued twice: the inductive invariant *)

\* An entry of p, held or kept aside, describes the record as long as the record
\* has not been written since, and says nothing of the indices p may yet issue.
Held(p, l) ==
    /\ l.rev <= rev
    /\ l.last < next[p]
    /\ l.rev # 0 /\ l.rev = rev =>
          record.owner = InstanceOf[p] /\ l.tok = record.tok /\ Floor(l) = Floor(record)

\* A write on its way keeps the floor and fences the owner, if it succeeds.
Fresh(w) ==
    /\ w.expect <= rev
    /\ w.expect = rev =>
          /\ Floor(w.rec) >= Floor(record)
          /\ w.rec.tok >= record.tok
          /\ rev # 0 /\ w.rec.owner # record.owner => w.rec.tok > record.tok

\* What an operation knows of the record at each of its steps.
SoundOp(p, s, o) ==
    /\ Held(p, o.base)
    /\ o.pc = "cas" => Fresh(o)
    /\ o.pc = "loaded" => /\ o.expect <= rev
                          /\ Floor(o.rec) <= Floor(record)
                          /\ o.expect = rev => o.rec = record
    /\ o.pc = "ok" => /\ o.expect < rev
                      /\ Floor(o.rec) <= Floor(record)
                      /\ o.expect + 1 = rev => o.rec = record
    /\ o.pc \in {"cas", "ok"} /\ o.kind = "create" => o.expect = 0 /\ o.rec.last = None
    /\ o.pc \in {"cas", "ok"} /\ o.kind = "refresh" =>
          o.expect # 0 /\ o.expect = o.base.rev /\ o.rec.last < next[p]
    /\ o.pc \in {"cas", "ok"} /\ o.kind # "flush" => o.rec.owner = InstanceOf[p]
    /\ s = "batch" /\ o.pc \in {"cas", "ok"} => o.kind = "refresh"
OpSound(p, s) == SoundOp(p, s, op[p][s])

\* The indices p may still issue without another write.
CanIssue(p, i) == \E b \in Bounds(p) : next[p] <= i /\ i <= b

\* No index is within the reach of two processes, or of a process although it
\* has been issued.
Exclusive ==
    \A i \in 0..Floor(record) : \A p \in Procs : CanIssue(p, i) =>
        /\ i \notin issued
        /\ \A q \in Procs : CanIssue(q, i) => q = p

\* The parts together are inductive; FencedUnique is the last of them.
Inv ==
    /\ rev = 0 => record = NoRecord
    /\ \A w \in orphans : Fresh(w)
    /\ \A p \in Procs : Held(p, lease[p])
    /\ \A p \in Procs, s \in Slots : OpSound(p, s)
    /\ FloorCoversBounds
    /\ \A i \in issued : i <= Floor(record)
    /\ Exclusive
    /\ FencedUnique

-----------------------------------------------------------------------------
(* Why no two leases are valid at once: the inductive invariant *)

\* A lease that runs until exp has run out on every clock.
Over(exp) == \A q \in Procs : exp <= clock[q]

\* What p knows of a lease it read or wrote at revision at: it is the one on
\* record or an extension of it followed, or it has been replaced and is over.
Known(p, at, tok, exp) ==
    /\ tok <= record.tok
    /\ tok < record.tok => Over(exp)
    /\ tok = record.tok => record.owner = InstanceOf[p] /\ exp <= record.exp
    /\ at = rev => exp = record.exp
    /\ exp <= clock[p] + Ttl

\* A write on its way shortens no lease of a process that is alone under its id,
\* and replaces none that still runs, if it succeeds.
Ahead(w) ==
    /\ w.expect = rev /\ rev # 0 /\ w.rec.tok > record.tok => Over(record.exp)
    /\ w.expect = rev /\ rev # 0 /\ w.rec.tok = record.tok =>
          \A p \in Procs : Sole(p) /\ record.owner = InstanceOf[p] => record.exp <= w.rec.exp
    /\ \A p \in Procs : Sole(p) /\ w.rec.owner = InstanceOf[p] => w.rec.exp <= clock[p] + Ttl

\* The leases an operation may yet publish.
TimedLease(p, l) == Sole(p) /\ l.rev # 0 => Known(p, l.rev, l.tok, l.exp)
TimedOp(p, o) ==
    /\ TimedLease(p, o.base)
    /\ o.pc = "cas" => Ahead(o)
    /\ Sole(p) /\ o.pc = "loaded" /\ o.expect # 0 /\ LocalOwner(p, o.rec) =>
          Known(p, o.expect, o.rec.tok, o.rec.exp)
    /\ Sole(p) /\ o.pc = "ok" /\ o.kind # "flush" =>
          Known(p, o.expect + 1, o.rec.tok, o.rec.exp)

\* Together with Inv these are inductive; LeaseExclusive follows.
TimeInv ==
    /\ \A p, q \in Procs : clock[p] <= clock[q] + MaxSkew
    /\ \A p \in Procs : Sole(p) /\ record.owner = InstanceOf[p] => record.exp <= clock[p] + Ttl
    /\ \A w \in orphans : Ahead(w)
    /\ \A p \in Procs : TimedLease(p, lease[p])
    /\ \A p \in Procs, s \in Slots : TimedOp(p, op[p][s])

-----------------------------------------------------------------------------
\* No index is issued twice at all, the ones issued without a bound included.
NeverReissued == dup = {} /\ stale = {}
=============================================================================
