---------------------------- MODULE DedicatedClaims ----------------------------
(***************************************************************************)
(* Dedicated generators: each is meant for one timeline.  A worker claims  *)
(* one in memory (runtime/generator_lease.rs: dedicated_claims) before it  *)
(* creates a timeline (service/allocation/ensure.rs), transfers one        *)
(* (service/transfer.rs) or serves one it has loaded                       *)
(* (runtime_coordination/cache.rs: restore_dedicated_claim), and gives the *)
(* claim back when the operation fails or the route moves on.  The claims  *)
(* are not persisted; the routes are.                                      *)
(*                                                                         *)
(* Generator 0 stands for the shared and warm ones, which need no claim.   *)
(***************************************************************************)
EXTENDS Naturals, FiniteSets, FiniteSetsExt, TLC

CONSTANTS
    Workers, Timelines,
    Gens, OwnerOf,  \* dedicated generators, numbers; the worker each belongs to
    Tasks,          \* requests, at any worker
    Faults,         \* of "error", "restart", "reset", "overlap", "remote"
    Watching,       \* workers that are sent route updates
    MaxRev          \* bound: changes of one route

\* The constants fit together.
ClaimsAssumption ==
    /\ Gens \subseteq Nat \ {0} /\ OwnerOf \in [Gens -> Workers] /\ MaxRev \in Nat
    /\ Faults \subseteq {"error", "restart", "reset", "overlap", "remote"}

VARIABLES
    route,    \* metadata: timeline -> [gen, owner, rev]; rev = 0: none
    claims,   \* worker -> generator -> timeline or Nobody
    cached,   \* worker -> timeline -> route; rev = 0: not in the cache
    task,     \* requests
    loop      \* worker -> the route update its loop has taken

vars == <<route, claims, cached, task, loop>>

Nobody == "nobody"
NoRoute == [gen |-> 0, owner |-> CHOOSE w \in Workers : TRUE, rev |-> 0]
Idle == [at |-> "idle", w |-> NoRoute.owner, t |-> CHOOSE t \in Timelines : TRUE, tow |-> NoRoute.owner,
         gen |-> 0, claimed |-> FALSE, prev |-> NoRoute, fenced |-> FALSE, next |-> "idle", rel |-> 0]
NoUpdate == [at |-> "recv", t |-> Idle.t, route |-> NoRoute, seen |-> NoRoute]

Init ==
    /\ route = [t \in Timelines |-> NoRoute]
    /\ claims = [w \in Workers |-> [g \in Gens |-> Nobody]]
    /\ cached = [w \in Workers |-> [t \in Timelines |-> NoRoute]]
    /\ task = [k \in Tasks |-> Idle] /\ loop = [w \in Workers |-> NoUpdate]

Put(k, r) == task' = [task EXCEPT ![k] = r]
Done(k) == Put(k, Idle)
Goto(k, label) == Put(k, [task[k] EXCEPT !.at = label])
Cache(w, t, r) == cached' = [cached EXCEPT ![w][t] = r]

\* No fenced transfer holds the lock of the cached state.
Unlocked(w, t) == \A k \in Tasks : task[k].w = w /\ task[k].t = t => ~task[k].fenced

\* GeneratorRuntimeState::claim_dedicated.
MayClaim(w, g, t) == claims[w][g] \in {Nobody, t}
Claim(w, g, t) == claims' = [claims EXCEPT ![w][g] = t]

\* TsoService::claim_dedicated: what the timeline has already, or the first own
\* generator that nobody has; none: GeneratorPoolExhausted.
Picks(w, t) ==
    LET own == {g \in Gens : claims[w][g] = t}
        free == {g \in Gens : OwnerOf[g] = w /\ MayClaim(w, g, t)}
    IN  IF own # {} THEN own ELSE IF free # {} THEN {Min(free)} ELSE {}

\* release_dedicated looks, and then removes in a second step.
Release(k, g, next) ==
    LET x == task[k] IN
    IF g \in Gens /\ claims[x.w][g] = x.t
    THEN Put(k, [x EXCEPT !.at = "remove", !.rel = g, !.next = next])
    ELSE Put(k, IF next = "idle" THEN Idle ELSE [x EXCEPT !.at = next])
Remove(k) ==
    LET x == task[k] IN
    /\ x.at = "remove"
    /\ Claim(x.w, x.rel, Nobody)
    /\ Put(k, IF x.next = "idle" THEN Idle ELSE [x EXCEPT !.at = x.next, !.rel = 0, !.next = "idle"])
    /\ UNCHANGED <<route, cached, loop>>

-----------------------------------------------------------------------------
(* ensure_timeline_with_tier, and loading a record to serve it.            *)

\* Requests for one timeline come one after the other, or overlap.
MayStart(t) == "overlap" \in Faults \/ \A j \in Tasks : task[j] = Idle \/ task[j].t # t

StartEnsure(k, w, t) ==
    /\ task[k] = Idle /\ MayStart(t)
    /\ Put(k, [Idle EXCEPT !.at = "ensure", !.w = w, !.t = t])
    /\ UNCHANGED <<route, claims, cached, loop>>

Ensure(k) ==
    LET x == task[k]
        r == route[x.t]
    IN
    /\ x.at = "ensure"
    /\ \/ /\ cached[x.w][x.t].rev > 0 \/ (r.rev > 0 /\ r.owner # x.w)
          /\ Done(k) /\ UNCHANGED claims
       \/ /\ cached[x.w][x.t].rev = 0 /\ r.rev > 0 /\ r.owner = x.w
          /\ Put(k, [x EXCEPT !.at = "restore", !.prev = r]) /\ UNCHANGED claims
       \/ /\ cached[x.w][x.t].rev = 0 /\ r.rev = 0
          /\ IF Picks(x.w, x.t) = {} THEN Done(k) /\ UNCHANGED claims
             ELSE \E g \in Picks(x.w, x.t) :
                     Claim(x.w, g, x.t) /\ Put(k, [x EXCEPT !.at = "create", !.gen = g])
       \/ /\ cached[x.w][x.t].rev = 0 /\ r.rev = 0 /\ "overlap" \in Faults
          /\ Goto(k, "create") /\ UNCHANGED claims
    /\ UNCHANGED <<route, cached, loop>>

\* The lease and the creation; whoever fails keeps the claim.
Create(k) ==
    LET x == task[k]
        new == [gen |-> x.gen, owner |-> x.w, rev |-> 1]
    IN
    /\ x.at = "create"
    /\ \/ /\ route[x.t].rev = 0
          /\ route' = [route EXCEPT ![x.t] = new] /\ Cache(x.w, x.t, new) /\ Done(k)
       \/ /\ route[x.t].rev > 0
          /\ Put(k, [x EXCEPT !.at = "ensure", !.gen = 0]) /\ UNCHANGED <<route, cached>>
       \/ /\ "error" \in Faults
          /\ Done(k) /\ UNCHANGED <<route, cached>>
    /\ UNCHANGED <<claims, loop>>

\* timeline_state_handle_from_record: restore_dedicated_claim, and then, with the
\* lock of the state if there is one, the record as it was read.
Restore(k) ==
    LET x == task[k] IN
    /\ x.at = "restore"
    /\ IF x.prev.gen = 0 THEN Goto(k, "fill") /\ UNCHANGED claims
       ELSE IF MayClaim(x.w, x.prev.gen, x.t) THEN Goto(k, "fill") /\ Claim(x.w, x.prev.gen, x.t)
       ELSE Done(k) /\ UNCHANGED claims
    /\ UNCHANGED <<route, cached, loop>>
Fill(k) ==
    LET x == task[k] IN
    /\ x.at = "fill" /\ Unlocked(x.w, x.t)
    /\ Cache(x.w, x.t, x.prev) /\ Done(k)
    /\ UNCHANGED <<route, claims, loop>>

-----------------------------------------------------------------------------
(* transfer_timeline_for_rpc: w is asked to move t to tow, with generator  *)
(* want or, when it stays, with none named.                                *)

\* shutdown_transfer_target: some pair of another owner with the tier of t; a
\* remote target of a request names its generator (validate_transfer_target).
MayAsk(w, t, tow, want) ==
    tow # w => /\ "remote" \in Faults /\ want # {}
               /\ \E u \in Timelines : route[u].rev > 0 /\ route[u].owner = tow /\ want = {route[u].gen}

StartTransfer(k, w, t, tow, want) ==
    /\ task[k] = Idle /\ route[t].rev \in 1 .. MaxRev - 1 /\ route[t].owner = w
    /\ MayAsk(w, t, tow, want)
    /\ MayStart(t)
    /\ \E jump \in BOOLEAN :
          LET claimed == IF want # {} THEN want ELSE IF route[t].gen # 0 \/ jump THEN Gens ELSE {0}
          IN \E g \in claimed :
                Put(k, [Idle EXCEPT !.at = "plan", !.w = w, !.t = t, !.tow = tow, !.prev = route[t],
                                    !.gen = g, !.next = IF want = {} /\ g # 0 THEN "any" ELSE "idle"])
    /\ UNCHANGED <<route, claims, cached, loop>>

\* apply_transfer_plan: fenced by the lock of the cached state, if it is the one
\* the transfer has read; select_transfer_target up to the claim.
Plan(k) ==
    LET x == task[k]
        here == cached[x.w][x.t]
        picks == IF x.gen = 0 THEN {0}
                 ELSE IF x.next = "any" THEN Picks(x.w, x.t)
                 ELSE {g \in {x.gen} : MayClaim(x.w, g, x.t)}
    IN
    /\ x.at = "plan"
    /\ here.rev > 0 => Unlocked(x.w, x.t)
    /\ IF picks = {} THEN Done(k) /\ UNCHANGED claims
       ELSE \E g \in picks :
               /\ Put(k, [x EXCEPT !.at = "check", !.gen = g, !.next = "idle",
                                   !.fenced = (x.prev.owner = x.w /\ x.tow = x.w /\ here = x.prev),
                                   !.claimed = (g # 0 /\ claims[x.w][g] = Nobody)])
               /\ IF g = 0 THEN UNCHANGED claims ELSE Claim(x.w, g, x.t)
    /\ UNCHANGED <<route, cached, loop>>

GiveBack(k) ==
    LET x == task[k] IN
    IF x.claimed /\ x.prev.gen # x.gen THEN Release(k, x.gen, "idle") ELSE Done(k)

\* The rest of select_transfer_target, and the lease.
CheckTarget(k) ==
    LET x == task[k]
        owns == IF x.gen = 0 THEN TRUE ELSE OwnerOf[x.gen] = x.w
    IN
    /\ x.at = "check"
    /\ \/ GiveBack(k)
       \/ "error" \in Faults /\ Done(k)
       \/ (x.tow = x.w => owns) /\ (x.tow # x.w /\ x.gen # 0 => ~owns) /\ Goto(k, "commit")
    /\ UNCHANGED <<route, claims, cached, loop>>

\* should_release_previous_dedicated_generator_after_route_change.
\* Mutant of ReleasesPrevious: also when the route keeps its generator.
ReleasesAlways(prev, gen) == prev # 0
ReleasesPrevious(prev, gen) == prev # 0 /\ prev # gen

\* The compare-and-swap of the timeline.
Commit(k) ==
    LET x == task[k]
        new == [gen |-> x.gen, owner |-> x.tow, rev |-> x.prev.rev + 1]
    IN
    /\ x.at = "commit"
    /\ IF route[x.t] = x.prev
       THEN /\ route' = [route EXCEPT ![x.t] = new]
            /\ Cache(x.w, x.t, IF x.fenced THEN new ELSE NoRoute)
            /\ IF ReleasesPrevious(x.prev.gen, x.gen) THEN Release(k, x.prev.gen, "finish") ELSE Goto(k, "finish")
       ELSE GiveBack(k) /\ UNCHANGED <<route, cached>>
    /\ UNCHANGED <<claims, loop>>

\* synchronize_transfer_completion; the activation before it may fail.
Finish(k) ==
    LET x == task[k]
        new == [gen |-> x.gen, owner |-> x.tow, rev |-> x.prev.rev + 1]
    IN
    /\ x.at = "finish"
    /\ \/ x.fenced /\ Done(k) /\ UNCHANGED cached
       \/ ~x.fenced /\ x.tow = x.w /\ Cache(x.w, x.t, new) /\ Done(k)
       \/ ~x.fenced /\ x.tow = x.w /\ "error" \in Faults /\ Done(k) /\ UNCHANGED cached
       \/ ~x.fenced /\ x.tow # x.w /\ Cache(x.w, x.t, NoRoute) /\ Release(k, x.gen, "idle")
    /\ UNCHANGED <<route, claims, loop>>

-----------------------------------------------------------------------------
(* metadata_route_update_loop, one per worker.                             *)

TakeUpdate(w, t) ==
    /\ w \in Watching /\ loop[w] = NoUpdate /\ route[t].rev > 0
    /\ loop' = [loop EXCEPT ![w] = [at |-> "look", t |-> t, route |-> route[t], seen |-> NoRoute]]
    /\ UNCHANGED <<route, claims, cached, task>>
\* should_clear_timeline_cache_for_route_update, with the lock.
LookAtUpdate(w) ==
    LET l == loop[w]
        here == cached[w][l.t]
    IN
    /\ l.at = "look" /\ Unlocked(w, l.t)
    /\ loop' = [loop EXCEPT ![w] = IF here.rev > 0 /\ here # l.route /\ l.route.rev >= here.rev
                                   THEN [l EXCEPT !.at = "clear", !.seen = here] ELSE NoUpdate]
    /\ UNCHANGED <<route, claims, cached, task>>
\* The state is locked again, its claim given back, the entry removed.
ClearForUpdate(w) ==
    LET l == loop[w]
        now == IF cached[w][l.t].rev > 0 THEN cached[w][l.t] ELSE l.seen
    IN
    /\ l.at = "clear" /\ Unlocked(w, l.t)
    /\ IF now.gen # 0 /\ claims[w][now.gen] = l.t
       THEN loop' = [loop EXCEPT ![w] = [l EXCEPT !.at = "remove", !.seen = now]] /\ UNCHANGED cached
       ELSE loop' = [loop EXCEPT ![w] = NoUpdate] /\ Cache(w, l.t, NoRoute)
    /\ UNCHANGED <<route, claims, task>>
RemoveForUpdate(w) ==
    LET l == loop[w] IN
    /\ l.at = "remove"
    /\ Claim(w, l.seen.gen, Nobody) /\ Cache(w, l.t, NoRoute)
    /\ loop' = [loop EXCEPT ![w] = NoUpdate]
    /\ UNCHANGED <<route, task>>

Evict(w, t) ==
    /\ cached[w][t].rev > 0 /\ Unlocked(w, t)
    /\ Cache(w, t, NoRoute)
    /\ UNCHANGED <<route, claims, task, loop>>

Cleared(w) ==
    /\ claims' = [claims EXCEPT ![w] = [g \in Gens |-> Nobody]]
    /\ cached' = [cached EXCEPT ![w] = [t \in Timelines |-> NoRoute]]
\* RouteUpdateSignal::Reset, or the loop has lagged behind.
Reset(w) ==
    /\ "reset" \in Faults /\ loop[w] = NoUpdate
    /\ Cleared(w) /\ UNCHANGED <<route, task, loop>>
Restart(w) ==
    /\ "restart" \in Faults
    /\ Cleared(w)
    /\ task' = [k \in Tasks |-> IF task[k].w = w THEN Idle ELSE task[k]]
    /\ loop' = [loop EXCEPT ![w] = NoUpdate]
    /\ UNCHANGED route

Next ==
    \/ \E k \in Tasks :
          \/ \E w \in Workers, t \in Timelines :
                \/ StartEnsure(k, w, t)
                \/ \E tow \in Workers, want \in {{}} \cup {{g} : g \in Gens \cup {0}} : StartTransfer(k, w, t, tow, want)
          \/ Ensure(k) \/ Create(k) \/ Restore(k) \/ Fill(k) \/ Plan(k) \/ CheckTarget(k) \/ Commit(k)
          \/ Finish(k) \/ Remove(k)
    \/ \E w \in Workers :
          \/ \E t \in Timelines : TakeUpdate(w, t) \/ Evict(w, t)
          \/ LookAtUpdate(w) \/ ClearForUpdate(w) \/ RemoveForUpdate(w) \/ Reset(w) \/ Restart(w)

Spec == Init /\ [][Next]_vars

-----------------------------------------------------------------------------
\* A fenced transfer is alone with its timeline at its worker, a new route has
\* the next revision, and a cached route is not newer than the record.
TypeOK ==
    /\ \A t \in Timelines : route[t].gen \in Gens \cup {0} /\ route[t].rev <= MaxRev
    /\ \A w \in Workers, g \in Gens : claims[w][g] \in Timelines \cup {Nobody}
    /\ \A w \in Workers, t \in Timelines : cached[w][t].rev <= route[t].rev
    /\ \A j, k \in Tasks : task[j].fenced /\ task[k].fenced /\ task[j].w = task[k].w /\ task[j].t = task[k].t => j = k

\* A dedicated generator has one timeline.
Alone ==
    \A t, u \in Timelines :
        t # u /\ route[t].rev > 0 /\ route[u].rev > 0 /\ route[t].gen # 0 => route[t].gen # route[u].gen

\* A route stays in its owner's share of the generators, whatever is asked of
\* whom (select_transfer_target; claim_dedicated).
RoutesAtHome ==
    \A t \in Timelines : route[t].rev > 0 /\ route[t].gen # 0 => OwnerOf[route[t].gen] = route[t].owner

AtRest == (\A k \in Tasks : task[k] = Idle) /\ \A w \in Workers : loop[w] = NoUpdate

\* No generator is lost to the pool: once all requests have ended, a claim is that
\* of the timeline whose route has the generator.
NoneLeaks ==
    AtRest => \A w \in Workers, g \in Gens :
                 claims[w][g] # Nobody => route[claims[w][g]].gen = g /\ route[claims[w][g]].owner = w

\* What a worker serves from its cache it has claimed.
ServedIsClaimed ==
    AtRest => \A w \in Workers, t \in Timelines :
                 cached[w][t].rev > 0 /\ cached[w][t].gen # 0 => claims[w][cached[w][t].gen] = t
=============================================================================
