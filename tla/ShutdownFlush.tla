----------------------------- MODULE ShutdownFlush -----------------------------
(***************************************************************************)
(* TsoService::shutdown (service/facade.rs): the gate closes, the timelines *)
(* of this worker are listed page by page, what was issued is written into *)
(* their records, the timelines are handed over to the (endpoint,          *)
(* generator) pairs that other timelines were seen at, all of it within    *)
(* SHUTDOWN_FLUSH_TIMEOUT, and the memory is cleared.                      *)
(*                                                                         *)
(* Requests that were admitted before the gate go on; another worker may   *)
(* take a timeline over; a dropped call may still reach the store.  The    *)
(* generator's bound does not move here (Timeline and GeneratorLease have  *)
(* it), so that what a generator issues is at most Bound.                  *)
(***************************************************************************)
EXTENDS Naturals, FiniteSets, FiniteSetsExt, Sequences, SequencesExt

CONSTANTS
    Count,          \* timelines 1 .. Count, in the order of their keys
    Pairs,          \* (endpoint, generator) pairs of other workers
    Home, TierOf,   \* where each timeline is at first, and its tier
    Requests,
    PageSize, Concurrency,
    Bound,          \* bound: timestamps of a timeline
    MaxRev          \* bound: revisions of a record

Me == "me"
Timelines == 1 .. Count
Tiers == {TierOf[t] : t \in Timelines}

\* The constants fit together.
ShutdownAssumption ==
    /\ Count \in Nat /\ PageSize \in Nat \ {0} /\ Concurrency \in Nat \ {0} /\ Bound \in Nat
    /\ Me \notin Pairs /\ Home \in [Timelines -> Pairs \cup {Me}] /\ DOMAIN TierOf = Timelines

VARIABLES
    main,       \* where shutdown is
    rec,        \* the store: timeline -> [at, floor, grace, rev]
    issued,     \* last_issued_tso of the cached states
    cached,     \* timelines in the cache
    lapsed,     \* timelines whose generator lease this worker has lost
    request,    \* a request's timeline, 0: none
    cursor,     \* of the listing
    local, pool,    \* what it has found: routes of this worker, candidates per tier
    target,     \* where each timeline goes
    task,       \* a flush or a transfer of each timeline
    served,     \* history: the largest timestamp of each timeline
    excused     \* history: timelines the flush may have missed

vars == <<main, rec, issued, cached, lapsed, request, cursor, local, pool, target, task, served, excused>>

Todo == [at |-> "todo", val |-> 0, read |-> [at |-> Me, floor |-> 0, grace |-> 0, rev |-> 0]]
Ended == [Todo EXCEPT !.at = "ended"]

Init ==
    /\ main = "up" /\ cursor = 0 /\ local = <<>> /\ pool = [r \in Tiers |-> <<>>]
    /\ rec = [t \in Timelines |-> [at |-> Home[t], floor |-> 0, grace |-> 0, rev |-> 1]]
    /\ issued = [t \in Timelines |-> 0] /\ served = issued
    /\ cached = {t \in Timelines : Home[t] = Me} /\ lapsed = {} /\ excused = {}
    /\ request = [q \in Requests |-> 0] /\ target = [t \in Timelines |-> Me]
    /\ task = [t \in Timelines |-> Todo]

Larger(a, b) == Max({a, b})

-----------------------------------------------------------------------------
(* Around the shutdown.                                                    *)

\* Mutant of Closed: requests are turned away once the flush has ended.
ClosedLate == main \in {"drain", "down"}
\* request_local_shutdown_gate.
Closed == main \notin {"up", "gate"}
\* reject_new_work_if_shutting_down.
Admit(q, t) ==
    /\ request[q] = 0 /\ ~Closed /\ t \in cached \ lapsed
    /\ request' = [request EXCEPT ![q] = t]
    /\ UNCHANGED <<main, rec, issued, cached, lapsed, cursor, local, pool, target, task, served, excused>>
\* A request has the state's handle: it issues even when the cache has let go of it.
Issue(q) ==
    LET t == request[q] IN
    /\ t # 0
    /\ \/ /\ t \notin lapsed /\ issued[t] < Bound
          /\ issued' = [issued EXCEPT ![t] = @ + 1] /\ served' = [served EXCEPT ![t] = issued'[t]]
          /\ excused' = IF Closed THEN excused \cup {t} ELSE excused
       \/ UNCHANGED <<issued, served, excused>>
    /\ request' = [request EXCEPT ![q] = 0]
    /\ UNCHANGED <<main, rec, cached, lapsed, cursor, local, pool, target, task>>
\* A failover by another worker, after the lease; its floor is the generator's.
TakeOver(t, p) ==
    /\ rec[t].at = Me /\ rec[t].rev < MaxRev
    /\ rec' = [rec EXCEPT ![t] = [@ EXCEPT !.at = p, !.floor = Bound, !.rev = @ + 1]]
    /\ lapsed' = lapsed \cup {t}
    /\ UNCHANGED <<main, issued, cached, request, cursor, local, pool, target, task, served, excused>>

-----------------------------------------------------------------------------
(* shutdown and collect_shutdown_inventory.                                *)

Around == <<rec, issued, cached, lapsed, request, served>>

Begin ==
    /\ main = "up" /\ main' = "gate"
    /\ UNCHANGED <<Around, cursor, local, pool, target, task, excused>>
CloseGate ==
    /\ main = "gate" /\ main' = "list"
    /\ UNCHANGED <<Around, cursor, local, pool, target, task, excused>>

\* list_timeline_filters_page: the first records after the cursor, and where the
\* next page starts if there is one; 0: there is not.
Page(after) ==
    LET rest == {t \in Timelines : t > after}
        keys == {t \in rest : Cardinality({u \in rest : u < t}) < PageSize}
    IN  [keys |-> keys, next |-> IF keys # rest THEN Max(keys) ELSE 0]

\* A pair is a candidate once, in the order of the keys.
Candidates(keys, tier) ==
    LET add(seen, t) == IF rec[t].at = Me \/ TierOf[t] # tier \/ \E r \in Tiers : Contains(pool[r], rec[t].at) \/ Contains(seen, rec[t].at)
                        THEN seen ELSE Append(seen, rec[t].at)
    IN  FoldLeft(add, <<>>, SetToSortSeq(keys, <))
List ==
    LET page == Page(cursor) IN
    /\ main = "list"
    /\ \/ /\ local' = local \o SetToSortSeq({t \in page.keys : rec[t].at = Me}, <)
          /\ pool' = [r \in Tiers |-> pool[r] \o Candidates(page.keys, r)]
          /\ cursor' = page.next
          /\ main' = IF page.next = 0 THEN "timelines" ELSE "list"
          /\ UNCHANGED excused
       \/ /\ main' = "drain" /\ excused' = Timelines
          /\ UNCHANGED <<cursor, local, pool>>
    /\ UNCHANGED <<Around, target, task>>

-----------------------------------------------------------------------------
(* best_effort_persist_local_timeline_floor, for some timelines at a time. *)

Pending(t) == Contains(local, t)
Running == {t \in Timelines : task[t].at \notin {"todo", "ended", "stray", "straymove"}}
Step(t, r) == task' = [task EXCEPT ![t] = r]

\* A call of the metadata store fails.
Fails(t) == Step(t, Ended) /\ excused' = excused \cup {t} /\ UNCHANGED rec

FlushRead(t) ==
    /\ main = "timelines" /\ Pending(t) /\ task[t] = Todo /\ Cardinality(Running) < Concurrency
    /\ Step(t, IF t \in cached /\ issued[t] > 0 THEN [Todo EXCEPT !.at = "load", !.val = issued[t]] ELSE Ended)
    /\ UNCHANGED <<main, Around, cursor, local, pool, target, excused>>

Desired(r, last) ==
    LET grace == Larger(r.grace, last) IN [r EXCEPT !.grace = grace, !.floor = Larger(r.floor, grace)]
FlushLoad(t) ==
    /\ task[t].at = "load"
    /\ \/ /\ Step(t, IF rec[t].at # Me \/ Desired(rec[t], task[t].val) = rec[t] THEN Ended
                     ELSE [task[t] EXCEPT !.at = "cas", !.read = rec[t]])
          /\ UNCHANGED <<rec, excused>>
       \/ Fails(t)
    /\ UNCHANGED <<main, issued, cached, lapsed, request, served, cursor, local, pool, target>>

\* compare_exchange_timeline.
Same(t) == rec[t] = task[t].read
Flushed(t) == [Desired(task[t].read, task[t].val) EXCEPT !.rev = @ + 1]
FlushCas(t) ==
    /\ task[t].at = "cas"
    /\ \/ Same(t) /\ rec' = [rec EXCEPT ![t] = Flushed(t)] /\ Step(t, Ended) /\ UNCHANGED excused
       \/ ~Same(t) /\ Step(t, Ended) /\ UNCHANGED <<rec, excused>>
       \/ Fails(t)
    /\ UNCHANGED <<main, issued, cached, lapsed, request, served, cursor, local, pool, target>>

\* for_each_concurrent has ended; the generators' floors are flushed next.
AllDone == \A t \in Timelines : Pending(t) => task[t].at = "ended"
Generators ==
    /\ main = "timelines" /\ AllDone /\ main' = "assign"
    /\ task' = [t \in Timelines |-> Todo]
    /\ UNCHANGED <<Around, cursor, local, pool, target, excused>>

-----------------------------------------------------------------------------
(* best_effort_transfer_local_timelines_before_shutdown.                   *)

\* shutdown_transfer_target: the n-th timeline of a tier.
Turn(tier, n) == pool[tier][((n - 1) % Len(pool[tier])) + 1]
Assign ==
    /\ main = "assign" /\ main' = "transfer"
    /\ target' = [t \in Timelines |->
          IF ~Pending(t) \/ pool[TierOf[t]] = <<>> THEN Me
          ELSE Turn(TierOf[t], Cardinality({u \in ToSet(local) : TierOf[u] = TierOf[t] /\ u <= t}))]
    /\ task' = [t \in Timelines |-> IF target'[t] = Me THEN Ended ELSE Todo]
    /\ UNCHANGED <<Around, cursor, local, pool, excused>>

\* transfer_timeline_for_rpc: prepare_transfer_application of the record as it is
\* now, with the state's last timestamp if the route is still this worker's; the
\* checks of the target may fail.
MoveRead(t) ==
    /\ main = "transfer" /\ task[t] = Todo /\ Cardinality(Running) < Concurrency
    /\ \/ Step(t, [Todo EXCEPT !.at = "move", !.read = rec[t],
                       !.val = IF rec[t].at = Me /\ t \in cached /\ issued[t] > 0 THEN issued[t] ELSE rec[t].grace])
       \/ Step(t, Ended)
    /\ UNCHANGED <<main, Around, cursor, local, pool, target, excused>>

Moved(t) ==
    [at |-> target[t], grace |-> task[t].val, floor |-> Larger(task[t].val, Bound), rev |-> task[t].read.rev + 1]
MoveCas(t) ==
    /\ task[t].at = "move"
    /\ \/ /\ Same(t) /\ rec' = [rec EXCEPT ![t] = Moved(t)]
          /\ cached' = cached \ {t}
       \/ UNCHANGED <<rec, cached>>
    /\ Step(t, Ended)
    /\ UNCHANGED <<main, issued, lapsed, request, served, cursor, local, pool, target, excused>>

Transferred ==
    /\ main = "transfer" /\ \A t \in Timelines : task[t].at = "ended"
    /\ main' = "drain"
    /\ UNCHANGED <<Around, cursor, local, pool, target, task, excused>>

-----------------------------------------------------------------------------
\* A future is dropped; a compare-and-swap that was sent may still arrive.
Dropped(x) ==
    CASE x.at = "cas" -> [x EXCEPT !.at = "stray"]
      [] x.at = "move" -> [x EXCEPT !.at = "straymove"]
      [] OTHER -> Ended
\* SHUTDOWN_FLUSH_TIMEOUT.
TimeOut ==
    /\ main \in {"list", "timelines", "assign", "transfer"} /\ main' = "drain"
    /\ task' = [t \in Timelines |-> Dropped(task[t])]
    /\ excused' = IF main \in {"list", "timelines"} THEN Timelines ELSE excused
    /\ UNCHANGED <<Around, cursor, local, pool, target>>
Stray(t) ==
    /\ task[t].at \in {"stray", "straymove"}
    /\ \/ Same(t) /\ rec' = [rec EXCEPT ![t] = IF task[t].at = "stray" THEN Flushed(t) ELSE Moved(t)]
       \/ UNCHANGED rec
    /\ Step(t, Ended)
    /\ UNCHANGED <<main, issued, cached, lapsed, request, served, cursor, local, pool, target, excused>>

\* drain_tasks and invalidate_local_runtime_after_shutdown.
Clear ==
    /\ main = "drain" /\ main' = "down"
    /\ cached' = {}
    /\ UNCHANGED <<rec, issued, lapsed, request, served, cursor, local, pool, target, task, excused>>

Proceed == Begin \/ CloseGate \/ List \/ Generators \/ Assign \/ Transferred \/ Clear
Next ==
    \/ Proceed \/ TimeOut
    \/ \E t \in Timelines :
          \/ FlushRead(t) \/ FlushLoad(t) \/ FlushCas(t) \/ MoveRead(t) \/ MoveCas(t) \/ Stray(t)
          \/ \E q \in Requests : Admit(q, t)
          \/ \E p \in Pairs : TakeOver(t, p)
    \/ \E q \in Requests : Issue(q)

Spec == Init /\ [][Next]_vars

-----------------------------------------------------------------------------
\* What runs keeps the limit of for_each_concurrent, and only for what was listed.
TypeOK ==
    /\ Cardinality(Running) <= Concurrency
    /\ \A t \in Timelines : rec[t].rev <= MaxRev + 2 /\ issued[t] <= served[t]
    /\ \A t \in Running : Contains(local, t)
    /\ IsInjective(local)

\* When the shutdown has ended, the record of a timeline that is still routed to
\* this worker has everything that was issued for it before the gate, unless a
\* call of the store failed or the time was over.
Covers ==
    main \in {"drain", "down"} =>
       \A t \in Timelines \ excused : rec[t].at = Me => Larger(rec[t].floor, rec[t].grace) >= served[t]

\* Whoever has a timeline next starts above everything this worker has issued and,
\* with a request that is still running, can issue.
Handed == \A t \in Timelines : Home[t] = Me /\ rec[t].at # Me => rec[t].floor >= served[t]

\* The inventory has every timeline that has been this worker's all along.
Inventoried == main = "timelines" => \A t \in Timelines : rec[t].at = Me => Contains(local, t)

\* No write of the shutdown lowers a floor, and none touches a record that has
\* changed since it was read.
FloorsNeverFall ==
    \A t \in Timelines : rec'[t].floor >= rec[t].floor /\ (rec'[t] # rec[t] => rec'[t].rev = rec[t].rev + 1)
=============================================================================
