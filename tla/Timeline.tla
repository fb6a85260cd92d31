------------------------------- MODULE Timeline -------------------------------
(***************************************************************************)
(* One timeline: its record in the metadata store, the TimelineState       *)
(* objects that workers cache for it, the requests that are served from    *)
(* them and the transfers that move the timeline to another generator      *)
(* (service/allocation.rs, allocation/serve.rs, allocation/ensure.rs,      *)
(* service/runtime_coordination/*.rs, service/transfer.rs, planning.rs).   *)
(*                                                                         *)
(* A worker's cache may lose its TimelineState while requests still hold   *)
(* it; the next request builds another one from the record.  A TimelineState*)
(* is therefore an object with an identity, a handle.  Every step of a     *)
(* request or transfer up to its next await is one action.                 *)
(*                                                                         *)
(* The lease of a generator, modelled in GeneratorLease, is reduced to     *)
(* what is used of it here: whether it is held, the cursor, and the bound  *)
(* that the record lets others know of.  One timestamp per millisecond and *)
(* generator; the clock only pushes a start upwards, by any amount.        *)
(***************************************************************************)
EXTENDS Integers, FiniteSets, FiniteSetsExt, Sequences, Functions

CONSTANTS
    NWorkers,   \* workers 0 .. NWorkers - 1, the ownership modulo
    NGens,      \* generators; the worker with the remainder owns one
    Handles,    \* TimelineState objects
    Requests,   \* request tasks
    Kinds,      \* what they ask for: "allocate", "ensure"
    Reasons,    \* of transfers: "Manual" (as Rebalance, Hotspot), "Failover"
    Moves,      \* the transfers <<by, from, to>>: worker, generators
    Faults,     \* of "evict", "lapse", "return", "crash", "reset", "cancel"
    MaxMs,      \* bound: milliseconds of the layout
    MaxEpoch    \* bound: routes the timeline may have had

Workers == 0 .. NWorkers - 1
Gens == 0 .. NGens - 1
None == "none"

\* The constants fit together.
TimelineAssumption ==
    /\ NWorkers \in Nat \ {0} /\ NGens \in Nat \ {0} /\ MaxMs \in Nat /\ MaxEpoch \in Nat
    /\ None \notin Handles
    /\ Moves \subseteq Workers \X Gens \X Gens
    /\ Kinds \subseteq {"allocate", "ensure"} /\ Reasons \subseteq {"Manual", "Failover"}
    /\ Faults \subseteq {"evict", "lapse", "return", "crash", "reset", "cancel"}

VARIABLES
    rec, rev,   \* the timeline record and its revision; rev = 0: none yet
    gens,       \* per generator: held, next millisecond, bound
    up,         \* per worker: running
    cache,      \* per worker: the cached handle
    hs,         \* per handle: the TimelineState
    flight,     \* per worker: what the load in flight has read
    watch,      \* per worker: route updates not yet handled
    inval,      \* per worker: an update found the cache outdated
    req,        \* per request: the task
    xfer,       \* per worker: the transfer it applies
    top         \* history: the latest timestamp given out so far

vars == <<rec, rev, gens, up, cache, hs, flight, watch, inval, req, xfer, top>>
store == <<rec, rev, watch>>

-----------------------------------------------------------------------------
\* Timestamps, 0 for None.
Tso(ms, g) == 1 + ms * NGens + g
Times == 0 .. Tso(MaxMs, NGens - 1)
MsAfter(t, g) == Min({m \in 0 .. MaxMs + 1 : Tso(m, g) > t})
Later(a, b) == IF a > b THEN a ELSE b

\* owns_generator_id: the ownership partition.
Home(g) == g % NWorkers

Record == [gen : Gens, epoch : 1 .. MaxEpoch, state : {"Active", "Recovering"},
           floor : Times, grace : Times]
NoRecord == [gen |-> 0, epoch |-> 1, state |-> "Active", floor |-> 0, grace |-> 0]
TimelineState == [gen : Gens, epoch : 1 .. MaxEpoch, state : {"Active", "Recovering"},
                  last : Times, rev : Nat]
Free == [gen |-> 0, epoch |-> 1, state |-> "Recovering", last |-> 0, rev |-> 0]

\* recovered_timeline_floor_tso.
RecoveredFloor(r) == Later(r.grace, r.floor)

\* generator_recovery_floor_tso: what the generator record lets one assume.
GeneratorFloor(g) == IF gens[g].bound < 0 THEN 0 ELSE Tso(gens[g].bound, g)

\* Mutant of SafeFloor: a failover trusts the last graceful timestamp.
SafeFloorGraceful(reason, grace, genFloor) ==
    IF reason = "Failover" THEN grace ELSE Later(grace, genFloor)

\* safe_floor_for_transfer_reason.
SafeFloor(reason, grace, genFloor) ==
    IF reason = "Failover" THEN genFloor ELSE Later(grace, genFloor)

\* build_timeline_state.
BuildState(r, revision, floor) ==
    [gen |-> r.gen, epoch |-> r.epoch, state |-> r.state, last |-> floor, rev |-> revision]

-----------------------------------------------------------------------------
NoFlight == [on |-> FALSE, by |-> None, rec |-> NoRecord, rev |-> 0]
IdleReq == [at |-> "idle", kind |-> "allocate", w |-> 0, want |-> 0, h |-> None,
            rec |-> NoRecord, rev |-> 0, gen |-> 0, bound |-> -1, reval |-> FALSE,
            seen |-> 0, got |-> 0]
IdleXfer == [at |-> "idle", reason |-> "Manual", to |-> 0, rec |-> NoRecord, rev |-> 0,
             floor |-> 0, h |-> None]

Init ==
    /\ rec = NoRecord /\ rev = 0
    /\ gens = [g \in Gens |-> [held |-> FALSE, next |-> 0, bound |-> -1]]
    /\ up = [w \in Workers |-> TRUE]
    /\ cache = [w \in Workers |-> None]
    /\ hs = [h \in Handles |-> Free]
    /\ flight = [w \in Workers |-> NoFlight]
    /\ watch = [w \in Workers |-> <<>>]
    /\ inval = [w \in Workers |-> FALSE]
    /\ top = 0
    /\ req = [r \in Requests |-> IdleReq]
    /\ xfer = [w \in Workers |-> IdleXfer]

\* The timeline has been created on generator 0 by its worker.
Created ==
    /\ rec = NoRecord /\ rev = 1
    /\ gens = [g \in Gens |-> IF g = 0 THEN [held |-> TRUE, next |-> 0, bound |-> 0]
                                       ELSE [held |-> FALSE, next |-> 0, bound |-> -1]]
    /\ up = [w \in Workers |-> TRUE]
    /\ cache = [w \in Workers |-> None]
    /\ hs = [h \in Handles |-> Free]
    /\ flight = [w \in Workers |-> NoFlight]
    /\ watch = [w \in Workers |-> <<>>]
    /\ inval = [w \in Workers |-> FALSE]
    /\ top = 0
    /\ req = [r \in Requests |-> IdleReq]
    /\ xfer = [w \in Workers |-> IdleXfer]

\* A handle nobody holds is gone.
Held(h) == (\E w \in Workers : cache[w] = h) \/ (\E r \in Requests : req[r].h = h)
             \/ \E w \in Workers : xfer[w].h = h
\* The mutex of a TimelineState is held across awaits by a fenced transfer only.
Locked(h) == \E w \in Workers : xfer[w].h = h

Goto(r, label) == req' = [req EXCEPT ![r].at = label]
End(r) == req' = [req EXCEPT ![r] = IdleReq]
ClearCache(w) == cache' = [cache EXCEPT ![w] = None]

\* The lease of g, held or obtained: ensure_generator_lease as seen from here.
CanEnsure(g) == gens[g].held \/ gens[g].bound < 0 \/ "return" \in Faults
Ensured(g) ==
    LET s == gens[g]
        start == Later(s.next, s.bound + 1)
    IN  IF s.held THEN s
        ELSE [held |-> TRUE, next |-> start, bound |-> Later(s.bound, start)]
EnsureLease(g) ==
    /\ CanEnsure(g)
    /\ Ensured(g).bound <= MaxMs
    /\ gens' = [gens EXCEPT ![g] = Ensured(g)]

\* A write of the record; every change of the route goes to the watchers.
Write(r) ==
    /\ rec' = r /\ rev' = rev + 1
    /\ watch' = [w \in Workers |->
                   IF up[w] /\ r.epoch # rec.epoch
                   THEN Append(watch[w], [gen |-> r.gen, epoch |-> r.epoch])
                   ELSE watch[w]]

-----------------------------------------------------------------------------
(* A request: allocate_timestamps_after_validation, ensure_timeline.        *)

\* It arrives with the route its client knows.
Arrive(r, w, kind, want) ==
    /\ req[r].at = "idle" /\ up[w]
    /\ kind = "allocate" => want \in 1 .. rec.epoch /\ rev > 0
    /\ kind = "ensure" => want = 0
    /\ req' = [req EXCEPT ![r] = [IdleReq EXCEPT !.at = "cached", !.kind = kind, !.w = w,
                                                !.want = want, !.seen = top]]
    /\ UNCHANGED <<store, gens, up, cache, hs, flight, inval, xfer, top>>

\* load_timeline_with_singleflight: the first to ask reads the record, those
\* who come before it has finished share what it has read.
Loading(r) == req[r].at \in {"auth", "load", "reload", "reval"}
StartFlight(r) ==
    LET w == req[r].w IN
    /\ Loading(r) /\ ~flight[w].on
    /\ flight' = [flight EXCEPT ![w] = [on |-> TRUE, by |-> r, rec |-> rec, rev |-> rev]]
    /\ UNCHANGED <<store, gens, up, cache, hs, inval, req, xfer, top>>
Answered(r) ==
    LET w == req[r].w IN
    /\ flight[w].on
    /\ flight' = [flight EXCEPT ![w] = IF @.by = r THEN NoFlight ELSE @]
Leaves(r) ==
    flight' = [w \in Workers |-> IF flight[w].by = r THEN NoFlight ELSE flight[w]]

Route(x) == [gen |-> x.gen, epoch |-> x.epoch, state |-> x.state]

\* CachedTimelineChecks: owner_matches, matches_local_route, timeline_is_ready.
OwnerMatches(w, s) == Home(s.gen) = w
MatchesLocalRoute(w, s, want) == OwnerMatches(w, s) /\ s.epoch = want
Ready(s) == s.state = "Active"

\* Ok(None) of a serving attempt: one from the cache goes on with a load, one
\* from a loaded record goes around the loop.
Retry(r) ==
    LET q == req[r] IN
    req' = [req EXCEPT ![r] = [q EXCEPT !.at = IF q.rev > 0 THEN "cached" ELSE "load",
                                        !.h = None, !.rec = NoRecord, !.rev = 0]]
SnapshotOf(s) == [NoRecord EXCEPT !.gen = s.gen, !.epoch = s.epoch, !.state = s.state]

\* try_allocate_from_cached_timeline up to its first load, and the cache
\* lookup of ensure_timeline.
LookUp(r) ==
    LET q == req[r]  w == q.w  h == cache[w]
        s == hs[h]
        mine == OwnerMatches(w, s)
        ready == Ready(s)
        valid == gens[s.gen].held
    IN  /\ q.at = "cached"
        /\ \/ /\ h = None
              /\ Goto(r, "load")
              /\ UNCHANGED cache
           \/ /\ h # None /\ ~Locked(h) /\ q.kind = "ensure"
              /\ IF mine /\ ready THEN End(r) ELSE Goto(r, "load")
              /\ UNCHANGED cache
           \/ /\ h # None /\ ~Locked(h) /\ q.kind = "allocate"
              /\ IF MatchesLocalRoute(w, s, q.want)
                 THEN /\ req' = [req EXCEPT ![r] =
                               [q EXCEPT !.at = IF ready /\ valid THEN "guard" ELSE "auth",
                                         !.h = h, !.gen = s.gen, !.bound = gens[s.gen].bound,
                                         !.rec = SnapshotOf(s), !.reval = FALSE]]
                      /\ UNCHANGED cache
                 ELSE /\ Goto(r, "load")
                      /\ IF mine THEN UNCHANGED cache ELSE ClearCache(w)
        /\ UNCHANGED <<store, gens, up, hs, flight, inval, xfer, top>>

\* Without a valid lease the cached route is first compared with the record;
\* then the lease is ensured, or the entry dropped.
Authorize(r) ==
    LET q == req[r]  w == q.w
        same == Route(flight[w].rec) = Route(q.rec) /\ flight[w].rev > 0
    IN  /\ q.at = "auth"
        /\ Answered(r)
        /\ \/ /\ same /\ q.rec.state = "Active"
              /\ EnsureLease(q.gen)
              /\ req' = [req EXCEPT ![r] = [q EXCEPT !.at = "guard", !.reval = TRUE,
                                                    !.bound = Ensured(q.gen).bound]]
              /\ UNCHANGED cache
           \/ /\ same => q.rec.state = "Active"
              /\ same => ~CanEnsure(q.gen)
              /\ req' = [req EXCEPT ![r] = [q EXCEPT !.at = "load", !.h = None]]
              /\ ClearCache(w)
              /\ UNCHANGED gens
           \/ /\ same /\ q.rec.state # "Active"
              /\ End(r) /\ ClearCache(w)
              /\ UNCHANGED gens
        /\ UNCHANGED <<store, up, hs, inval, xfer, top>>

\* load_timeline_with_singleflight, the version and owner checks.
Load(r) ==
    LET q == req[r]  w == q.w  v == flight[w]
        next == [q EXCEPT !.at = "activate", !.rec = v.rec, !.rev = v.rev, !.h = None]
    IN  /\ q.at = "load"
        /\ Answered(r)
        /\ \/ /\ v.rev = 0
              /\ IF q.kind = "ensure" THEN Goto(r, "create") ELSE End(r)
              /\ UNCHANGED cache
           \/ /\ v.rev > 0 /\ q.kind = "ensure"
              /\ IF Home(v.rec.gen) = w THEN req' = [req EXCEPT ![r] = next] ELSE End(r)
              /\ UNCHANGED cache
           \/ /\ v.rev > 0 /\ q.kind = "allocate"
              /\ IF v.rec.epoch = q.want /\ Home(v.rec.gen) = w
                 THEN req' = [req EXCEPT ![r] = next] /\ UNCHANGED cache
                 ELSE End(r) /\ ClearCache(w)
        /\ UNCHANGED <<store, gens, up, hs, inval, xfer, top>>

\* create_timeline_with_limit, under the lease of a generator of its own.
Create(r, g) ==
    LET q == req[r]  new == [NoRecord EXCEPT !.gen = g] IN
    /\ q.at = "create" /\ Home(g) = q.w
    /\ EnsureLease(g)
    /\ IF rev = 0
       THEN /\ Write(new)
            /\ req' = [req EXCEPT ![r] = [q EXCEPT !.at = "insert", !.rec = new, !.rev = 1]]
       ELSE Goto(r, "cached") /\ UNCHANGED store
    /\ UNCHANGED <<up, cache, hs, flight, inval, xfer, top>>

\* A record that is not activated is an answer to ensure_timeline, and
\* TimelineNotReady to a request.
NotActivated(r) ==
    IF req[r].kind = "ensure" THEN Goto(r, "upsert") /\ UNCHANGED cache
                              ELSE End(r) /\ ClearCache(req[r].w)

\* activate_local_timeline_record: the lease first, then the state.  The
\* clock may be too far behind the recovery floor to begin.
Activate(r) ==
    LET q == req[r]
        mine == Home(q.rec.gen) = q.w
        begun == [q EXCEPT !.at = IF q.rec.state = "Active" THEN "ready" ELSE "cas"]
    IN  /\ q.at = "activate"
        /\ \/ /\ mine
              /\ EnsureLease(q.rec.gen)
              /\ req' = [req EXCEPT ![r] = begun]
              /\ UNCHANGED cache
           \/ /\ mine /\ ~CanEnsure(q.rec.gen)
              /\ End(r)
              /\ UNCHANGED <<gens, cache>>
           \/ /\ ~mine \/ (q.rec.state = "Recovering" /\ RecoveredFloor(q.rec) > 0)
              /\ NotActivated(r)
              /\ UNCHANGED gens
        /\ UNCHANGED <<store, up, hs, flight, inval, xfer, top>>

\* Mutant of CasActive: the state is written whatever the record has become.
CasActiveBlind(r) ==
    LET q == req[r]  new == [q.rec EXCEPT !.state = "Active"] IN
    /\ q.at = "cas"
    /\ Write(new)
    /\ req' = [req EXCEPT ![r] = [q EXCEPT !.at = "ready", !.rec = new, !.rev = rev + 1]]
    /\ UNCHANGED <<gens, up, cache, hs, flight, inval, xfer, top>>

\* The compare-and-swap of the activation; a conflict loads the record again
\* and goes on with it, without another look at the version.
CasActive(r) ==
    LET q == req[r]  new == [q.rec EXCEPT !.state = "Active"] IN
    /\ q.at = "cas"
    /\ IF rev = q.rev
       THEN /\ Write(new)
            /\ req' = [req EXCEPT ![r] = [q EXCEPT !.at = "ready", !.rec = new, !.rev = rev + 1]]
       ELSE Goto(r, "reload") /\ UNCHANGED store
    /\ UNCHANGED <<gens, up, cache, hs, flight, inval, xfer, top>>
Reload(r) ==
    LET q == req[r]  v == flight[q.w] IN
    /\ q.at = "reload" /\ Answered(r)
    /\ req' = [req EXCEPT ![r] = [q EXCEPT !.at = "activate", !.rec = v.rec, !.rev = v.rev]]
    /\ UNCHANGED <<store, gens, up, cache, hs, inval, xfer, top>>

Fresh(h) == h \in Handles /\ ~Held(h)

\* Mutant of Merged: the floor of the record replaces what was issued.
MergedFloor(s, r, revision) == BuildState(r, revision, RecoveredFloor(r))

\* timeline_state_handle_from_record on an entry that is there already.
Merged(s, r, revision) ==
    BuildState(r, revision, Later(s.last, RecoveredFloor(r)))

\* timeline_state_handle_from_record: the cached object brought up to the
\* record, or a new one; when the cache is full it stays outside.
HandleFromRecord(w, r, revision, h) ==
    \/ /\ cache[w] = h /\ ~Locked(h)
       /\ hs' = [hs EXCEPT ![h] = Merged(hs[h], r, revision)]
       /\ UNCHANGED cache
    \/ /\ cache[w] = None /\ Fresh(h)
       /\ hs' = [hs EXCEPT ![h] = BuildState(r, revision, RecoveredFloor(r))]
       /\ \/ cache' = [cache EXCEPT ![w] = h]
          \/ "evict" \in Faults /\ UNCHANGED cache

\* best_effort_insert_timeline_cache: over whatever is there, unless the cache
\* is full.
BestEffortInsert(w, h, state) ==
    \/ /\ Fresh(h)
       /\ hs' = [hs EXCEPT ![h] = state]
       /\ cache' = [cache EXCEPT ![w] = h]
    \/ "evict" \in Faults /\ UNCHANGED <<cache, hs>>

\* The bound, then the handle: the request may be served from it.
TakeHandle(r, h) ==
    LET q == req[r] IN
    /\ q.at = "ready" /\ q.kind = "allocate"
    /\ EnsureLease(q.rec.gen)
    /\ HandleFromRecord(q.w, q.rec, q.rev, h)
    /\ req' = [req EXCEPT ![r] = [q EXCEPT !.at = "guard", !.h = h, !.gen = q.rec.gen,
                                          !.bound = Ensured(q.rec.gen).bound, !.reval = TRUE]]
    /\ UNCHANGED <<store, up, flight, inval, xfer, top>>

\* ensure_timeline puts the record it has into the cache and returns;
\* a new timeline's state replaces what is cached.
Upsert(r, h) ==
    LET q == req[r] IN
    /\ q.kind = "ensure"
    /\ \/ /\ q.at \in {"ready", "upsert"}
          /\ HandleFromRecord(q.w, q.rec, q.rev, h)
       \/ /\ q.at = "insert" /\ BestEffortInsert(q.w, h, BuildState(q.rec, q.rev, 0))
    /\ End(r)
    /\ UNCHANGED <<store, gens, up, flight, inval, xfer, top>>

\* try_serve_timeline_state_handle_with_guard, before the revalidation.
Guard(r) ==
    LET q == req[r]  w == q.w  s == hs[q.h]
        mine == OwnerMatches(w, s)
        matches == MatchesLocalRoute(w, s, q.want)
    IN  /\ q.at = "guard" /\ ~Locked(q.h)
        /\ \/ /\ matches /\ ~Ready(s)
              /\ End(r) /\ ClearCache(w)
           \/ /\ matches => Ready(s)
              /\ ~mine \/ s.gen # q.gen
              /\ Retry(r) /\ ClearCache(w)
           \/ /\ mine /\ s.gen = q.gen /\ ~matches
              /\ Retry(r) /\ UNCHANGED cache
           \/ /\ matches /\ s.gen = q.gen /\ Ready(s)
              /\ req' = [req EXCEPT ![r] = [q EXCEPT !.rec = SnapshotOf(s),
                                                    !.at = IF q.reval THEN "reval" ELSE "serve"]]
              /\ UNCHANGED cache
        /\ UNCHANGED <<store, gens, up, hs, flight, inval, xfer, top>>

\* cached_timeline_still_matches_metadata.
Revalidate(r) ==
    LET q == req[r]  w == q.w IN
    /\ q.at = "reval" /\ Answered(r)
    /\ IF Route(flight[w].rec) = Route(q.rec)
       THEN Goto(r, "post") /\ UNCHANGED cache
       ELSE Retry(r) /\ ClearCache(w)
    /\ UNCHANGED <<store, gens, up, hs, inval, xfer, top>>

\* The handle must still say what was revalidated.
PostCheck(r) ==
    LET q == req[r] IN
    /\ q.at = "post" /\ ~Locked(q.h)
    /\ IF Route(hs[q.h]) = Route(q.rec)
       THEN Goto(r, "serve") /\ UNCHANGED cache
       ELSE Retry(r) /\ ClearCache(q.w)
    /\ UNCHANGED <<store, gens, up, hs, flight, inval, xfer, top>>

FirstMs(q) == Later(gens[q.gen].next, MsAfter(hs[q.h].last, q.gen))

\* After the admission wait: allocate_after on the generator chosen before
\* it, above what the handle has issued, within the bound read before it.
Serve(r, ms) ==
    LET q == req[r]  t == Tso(ms, q.gen) IN
    /\ q.at = "serve" /\ ~Locked(q.h)
    /\ ms \in FirstMs(q) .. q.bound
    /\ gens' = [gens EXCEPT ![q.gen].next = ms + 1]
    /\ hs' = [hs EXCEPT ![q.h].last = t]
    /\ req' = [req EXCEPT ![r] = [q EXCEPT !.at = "done", !.got = t]]
    /\ top' = Later(top, t)
    /\ UNCHANGED <<store, up, cache, flight, inval, xfer>>

\* IssuedUpperBoundExceeded: the lease is refreshed and the request starts over.
HitBound(r) ==
    LET q == req[r]  s == gens[q.gen] IN
    /\ q.at = "serve" /\ ~Locked(q.h)
    /\ FirstMs(q) > q.bound
    /\ IF s.held
       THEN /\ s.bound < MaxMs
            /\ gens' = [gens EXCEPT ![q.gen].bound = IF @ = q.bound THEN @ + 1 ELSE @]
            /\ Retry(r)
       ELSE End(r) /\ UNCHANGED gens
    /\ UNCHANGED <<store, up, cache, hs, flight, inval, xfer, top>>

\* The answer reaches the client, or the request is dropped where it stands.
Finish(r) ==
    /\ req[r].at = "done" \/ (req[r].at # "idle" /\ "cancel" \in Faults)
    /\ End(r) /\ Leaves(r)
    /\ UNCHANGED <<store, gens, up, cache, hs, inval, xfer, top>>

-----------------------------------------------------------------------------
(* A transfer: transfer_timeline_for_rpc and apply_transfer_plan.           *)

Step(w, x) == xfer' = [xfer EXCEPT ![w] = x]
Graceful(x) == x.reason # "Failover"
Local(w, x) == Home(x.rec.gen) = w /\ Home(x.to) = w

\* load_timeline.
Begin(w, from, to, reason) ==
    /\ xfer[w].at = "idle" /\ up[w] /\ rev > 0
    /\ rec.gen = from /\ rec.epoch < MaxEpoch
    /\ Step(w, [IdleXfer EXCEPT !.at = "prepare", !.reason = reason, !.to = to,
                               !.rec = rec, !.rev = rev])
    /\ UNCHANGED <<store, gens, up, cache, hs, flight, inval, req, top>>

\* prepare_transfer_application, the old generator's record: a failover waits
\* until its lease is over, and needs a floor.
Prepare(w) ==
    LET x == xfer[w] IN
    /\ x.at = "prepare"
    /\ ~Graceful(x) => ~gens[x.rec.gen].held /\ GeneratorFloor(x.rec.gen) > 0
    /\ Step(w, [x EXCEPT !.at = "graceful", !.floor = GeneratorFloor(x.rec.gen)])
    /\ UNCHANGED <<store, gens, up, cache, hs, flight, inval, req, top>>

\* prepare_transfer_application, the rest: what the cached state has issued
\* takes the place of last_graceful_issued.
TakeGraceful(w) ==
    LET x == xfer[w]  h == cache[w]
        reads == Graceful(x) /\ Home(x.rec.gen) = w /\ h # None
        last == IF reads /\ hs[h].last > 0 THEN hs[h].last ELSE x.rec.grace
    IN  /\ x.at = "graceful"
        /\ reads => ~Locked(h)
        /\ Step(w, [x EXCEPT !.at = "fence", !.rec.grace = last,
                            !.floor = SafeFloor(x.reason, last, x.floor)])
        /\ UNCHANGED <<store, gens, up, cache, hs, flight, inval, req, top>>

\* apply_fenced_local_transfer_plan: what the state has issued, or more.
FencedFloor(s, r) == Later(s.last, r.grace)

\* Both owners local and the cached state current: its mutex is kept.
Fence(w) ==
    LET x == xfer[w]  h == cache[w]
        looks == Graceful(x) /\ Local(w, x) /\ h # None
        s == hs[h]
        fits == s.gen = x.rec.gen /\ s.epoch = x.rec.epoch /\ s.rev = x.rev
        floor == FencedFloor(s, x.rec)
    IN  /\ x.at = "fence"
        /\ looks => ~Locked(h)
        /\ IF looks /\ fits
           THEN Step(w, [x EXCEPT !.at = "target", !.h = h, !.floor = floor,
                                  !.rec.grace = floor])
           ELSE Step(w, [x EXCEPT !.at = "target"])
        /\ UNCHANGED <<store, gens, up, cache, hs, flight, inval, req, top>>

\* select_transfer_target and, where the timeline will be active at once, the
\* lease of the target.
Target(w) ==
    LET x == xfer[w] IN
    /\ x.at = "target"
    /\ IF Graceful(x) /\ Home(x.to) = w THEN EnsureLease(x.to) ELSE UNCHANGED gens
    /\ Step(w, [x EXCEPT !.at = "commit"])
    /\ UNCHANGED <<store, up, cache, hs, flight, inval, req, top>>

\* A step of the transfer fails, or its caller goes away: nothing is written.
AbortTransfer(w) ==
    /\ "cancel" \in Faults
    /\ xfer[w].at \in {"prepare", "graceful", "fence", "target", "commit"}
    /\ Step(w, IdleXfer)
    /\ UNCHANGED <<store, gens, up, cache, hs, flight, inval, req, top>>

\* The record a transfer writes.
Moved(w, x) ==
    [gen |-> x.to, epoch |-> x.rec.epoch + 1,
     state |-> IF Graceful(x) /\ Home(x.to) = w THEN "Active" ELSE "Recovering",
     floor |-> x.floor, grace |-> x.rec.grace]

\* compare_exchange_timeline.
Commit(w) ==
    LET x == xfer[w] IN
    /\ x.at = "commit"
    /\ IF rev = x.rev
       THEN /\ Write(Moved(w, x))
            /\ Step(w, [x EXCEPT !.at = IF x.h # None THEN "fenced" ELSE "clear",
                                !.rec = Moved(w, x), !.rev = rev + 1])
       ELSE Step(w, IdleXfer) /\ UNCHANGED store
    /\ UNCHANGED <<gens, up, cache, hs, flight, inval, req, top>>

\* The fenced state takes the new route before its mutex is given back.
CompleteFenced(w) ==
    LET x == xfer[w] IN
    /\ x.at = "fenced"
    /\ hs' = [hs EXCEPT ![x.h] = BuildState(x.rec, x.rev, Later(hs[x.h].last, x.floor))]
    /\ Step(w, IdleXfer)
    /\ UNCHANGED <<store, gens, up, cache, flight, inval, req, top>>

\* Otherwise the cache is cleared; a local target that is not active yet goes
\* on to be activated.
CompleteClear(w) ==
    LET x == xfer[w] IN
    /\ x.at = "clear"
    /\ ClearCache(w)
    /\ Step(w, IF Home(x.to) # w THEN IdleXfer
               ELSE [x EXCEPT !.at = IF Ready(x.rec) THEN "insert" ELSE "lease"])
    /\ UNCHANGED <<store, gens, up, hs, flight, inval, req, top>>

\* synchronize_transfer_completion, the lease of the target ...
CompleteLease(w) ==
    LET x == xfer[w] IN
    /\ x.at = "lease"
    /\ IF CanEnsure(x.to)
       THEN EnsureLease(x.to) /\ Step(w, [x EXCEPT !.at = "activate"])
       ELSE Step(w, IdleXfer) /\ UNCHANGED gens
    /\ UNCHANGED <<store, up, cache, hs, flight, inval, req, top>>

\* ... the activation, which a clock too far behind leaves for later ...
CompleteActivate(w) ==
    LET x == xfer[w]  v == IF flight[w].on THEN flight[w] ELSE [rec |-> rec, rev |-> rev]
        mine == Home(x.rec.gen) = w
        active == [x.rec EXCEPT !.state = "Active"]
        done(r, revision) == Step(w, [x EXCEPT !.at = "insert", !.rec = r, !.rev = revision])
    IN  /\ x.at = "activate"
        /\ \/ /\ ~mine \/ (~Ready(x.rec) /\ RecoveredFloor(x.rec) > 0)
              /\ done(x.rec, x.rev)
              /\ UNCHANGED <<store, gens>>
           \/ /\ mine /\ Ready(x.rec) /\ EnsureLease(x.rec.gen)
              /\ done(x.rec, x.rev)
              /\ UNCHANGED store
           \/ /\ mine /\ ~Ready(x.rec) /\ rev = x.rev /\ EnsureLease(x.rec.gen)
              /\ Write(active)
              /\ done(active, rev + 1)
           \/ /\ mine /\ ~Ready(x.rec) /\ rev # x.rev /\ EnsureLease(x.rec.gen)
              /\ Step(w, [x EXCEPT !.rec = v.rec, !.rev = v.rev])
              /\ UNCHANGED store
           \/ /\ mine /\ ~CanEnsure(x.rec.gen)
              /\ Step(w, IdleXfer)
              /\ UNCHANGED <<store, gens>>
        /\ UNCHANGED <<up, cache, hs, flight, inval, req, top>>

\* ... and the new state goes into the cache, over whatever is there.
CompleteInsert(w, h) ==
    LET x == xfer[w] IN
    /\ x.at = "insert"
    /\ BestEffortInsert(w, h, BuildState(x.rec, x.rev, x.floor))
    /\ Step(w, IdleXfer)
    /\ UNCHANGED <<store, gens, up, flight, inval, req, top>>

-----------------------------------------------------------------------------
(* The worker around them.                                                  *)

\* invalidate_timeline_cache_for_route_update, the comparison ...
RouteUpdate(w) ==
    LET h == cache[w]  u == Head(watch[w])  s == hs[h] IN
    /\ watch[w] # <<>> /\ ~inval[w]
    /\ h # None => ~Locked(h)
    /\ inval' = [inval EXCEPT ![w] = /\ h # None
                                     /\ s.gen # u.gen \/ s.epoch # u.epoch
                                     /\ u.epoch >= s.epoch]
    /\ watch' = [watch EXCEPT ![w] = Tail(@)]
    /\ UNCHANGED <<rec, rev, gens, up, cache, hs, flight, req, xfer, top>>

\* ... and, after another await, the removal of what is cached by then.
RouteInvalidate(w) ==
    /\ inval[w]
    /\ inval' = [inval EXCEPT ![w] = FALSE]
    /\ ClearCache(w)
    /\ UNCHANGED <<store, gens, up, hs, flight, req, xfer, top>>

\* The watch restarts, or has lagged: the whole cache goes.
WatchReset(w) ==
    /\ "reset" \in Faults /\ up[w]
    /\ watch' = [watch EXCEPT ![w] = <<>>]
    /\ ClearCache(w)
    /\ UNCHANGED <<rec, rev, gens, up, hs, flight, inval, req, xfer, top>>

\* The cache is full and the entry idle.
Evict(w) ==
    /\ "evict" \in Faults /\ cache[w] # None
    /\ ~\E r \in Requests : req[r].h = cache[w]
    /\ ~Locked(cache[w])
    /\ ClearCache(w)
    /\ UNCHANGED <<store, gens, up, hs, flight, inval, req, xfer, top>>

\* The lease of a generator is renewed with a later bound, or runs out.
Extend(g) ==
    /\ gens[g].held /\ gens[g].bound < MaxMs
    /\ gens' = [gens EXCEPT ![g].bound = @ + 1]
    /\ UNCHANGED <<store, up, cache, hs, flight, inval, req, xfer, top>>
Lapse(g) ==
    /\ "lapse" \in Faults /\ gens[g].held
    /\ gens' = [gens EXCEPT ![g].held = FALSE]
    /\ UNCHANGED <<store, up, cache, hs, flight, inval, req, xfer, top>>

\* The process dies, with everything in its memory; a new one may start.
Crash(w) ==
    /\ "crash" \in Faults /\ up[w]
    /\ up' = [up EXCEPT ![w] = FALSE]
    /\ cache' = [cache EXCEPT ![w] = None]
    /\ flight' = [flight EXCEPT ![w] = NoFlight]
    /\ watch' = [watch EXCEPT ![w] = <<>>]
    /\ inval' = [inval EXCEPT ![w] = FALSE]
    /\ req' = [r \in Requests |-> IF req[r].w = w THEN IdleReq ELSE req[r]]
    /\ xfer' = [xfer EXCEPT ![w] = IdleXfer]
    /\ gens' = [g \in Gens |-> IF Home(g) = w THEN [gens[g] EXCEPT !.held = FALSE]
                                              ELSE gens[g]]
    /\ UNCHANGED <<rec, rev, hs, top>>
Restart(w) ==
    /\ "return" \in Faults /\ ~up[w]
    /\ up' = [up EXCEPT ![w] = TRUE]
    /\ UNCHANGED <<store, gens, cache, hs, flight, inval, req, xfer, top>>

Next ==
    \/ \E r \in Requests :
          \/ \E w \in Workers, k \in Kinds, n \in 0 .. MaxEpoch : Arrive(r, w, k, n)
          \/ LookUp(r) \/ StartFlight(r) \/ Authorize(r) \/ Load(r) \/ (\E g \in Gens : Create(r, g))
          \/ Activate(r) \/ CasActive(r) \/ Reload(r) \/ (\E h \in Handles : TakeHandle(r, h) \/ Upsert(r, h))
          \/ Guard(r) \/ Revalidate(r) \/ PostCheck(r)
          \/ (\E ms \in 0 .. MaxMs : Serve(r, ms)) \/ HitBound(r) \/ Finish(r)
    \/ \E m \in Moves, reason \in Reasons : Begin(m[1], m[2], m[3], reason)
    \/ \E w \in Workers :
          \/ Prepare(w) \/ TakeGraceful(w) \/ Fence(w) \/ Target(w) \/ AbortTransfer(w)
          \/ Commit(w) \/ CompleteFenced(w) \/ CompleteClear(w) \/ CompleteLease(w) \/ CompleteActivate(w)
          \/ (\E h \in Handles : CompleteInsert(w, h))
          \/ RouteUpdate(w) \/ RouteInvalidate(w) \/ WatchReset(w) \/ Evict(w)
          \/ Crash(w) \/ Restart(w)
    \/ \E g \in Gens : Extend(g) \/ Lapse(g)

Spec == Init /\ [][Next]_vars

\* One thing at a time: no request or transfer starts before the one before it
\* is over.
Alone == Cardinality({r \in Requests : req[r].at # "idle"})
           + Cardinality({w \in Workers : xfer[w].at # "idle"}) <= 1

\* What tells two states apart: an object nobody holds has no contents.
Reachable == <<rec, rev, gens, up, cache, [h \in Handles |-> IF Held(h) THEN hs[h] ELSE Free],
               flight, watch, inval, req, xfer, top>>

-----------------------------------------------------------------------------
Reqs == [at : {"idle", "cached", "auth", "load", "create", "insert", "upsert", "activate",
               "cas", "reload", "ready", "guard", "reval", "post", "serve", "done"},
         kind : Kinds \cup {"allocate"}, w : Workers, want : 0 .. MaxEpoch,
         h : Handles \cup {None}, rec : Record, rev : Nat, gen : Gens, bound : -1 .. MaxMs,
         reval : BOOLEAN, seen : Times, got : Times]
Xfers == [at : {"idle", "prepare", "graceful", "fence", "target", "commit", "fenced",
                "clear", "lease", "activate", "insert"},
          reason : {"Manual", "Failover"}, to : Gens, rec : Record, rev : Nat,
          floor : Times, h : Handles \cup {None}]

\* Every variable has its type, and a served request was within its bound.
TypeOK ==
    /\ rec \in Record /\ rev \in Nat
    /\ gens \in [Gens -> [held : BOOLEAN, next : 0 .. MaxMs + 1, bound : -1 .. MaxMs]]
    /\ up \in [Workers -> BOOLEAN] /\ inval \in [Workers -> BOOLEAN]
    /\ cache \in [Workers -> Handles \cup {None}]
    /\ hs \in [Handles -> TimelineState]
    /\ flight \in [Workers -> [on : BOOLEAN, by : Requests \cup {None}, rec : Record, rev : Nat]]
    /\ \A w \in Workers : watch[w] \in Seq([gen : Gens, epoch : 1 .. MaxEpoch])
    /\ req \in [Requests -> Reqs] /\ xfer \in [Workers -> Xfers] /\ top \in Times

\* What the service promises for a timeline, through eviction, failover and
\* transfer: a timestamp is above all that had been given out when it was asked
\* for (allocate_after on a floor that transfers hand on).
Ordered == \A r \in Requests : req[r].at = "done" => req[r].got > req[r].seen

\* What one TimelineState has issued is never forgotten by it, whatever
\* activations, reloads and transfers do to its route: the floor under which
\* it issues nothing (allocate_after(last_issued_tso)) only grows.
FloorGrows == \A h \in Handles : Held(h) /\ Held(h)' => hs'[h].last >= hs[h].last

\* A route change is a new epoch, and nothing else is: activations and
\* transfers that worked on an older record do not undo one.
RouteKept ==
    rev > 0 => /\ rec'.epoch \in {rec.epoch, rec.epoch + 1}
               /\ rec'.gen # rec.gen => rec'.epoch = rec.epoch + 1
               /\ rec'.epoch = rec.epoch => RecoveredFloor(rec') = RecoveredFloor(rec)
=============================================================================
