-------------------------- MODULE GeneratorCursor --------------------------
(***************************************************************************)
(* The atomics of one generator in one process (runtime/generator_lease.rs)*)
(* under threads: next_index, which allocate_after advances in a load and  *)
(* compare_exchange loop and init_after_floor by fetch_max;                *)
(* ready_lease_token; and the lease entry, which is published after them.  *)
(*                                                                         *)
(* A lease operation installs, refreshes or removes the entry in separate  *)
(* stores.  Installing runs under the singleflight (module LeaseFlight),   *)
(* so one writer at a time does it; the batch refresh and the shutdown run *)
(* beside it.  Timestamps are indices, as in GeneratorLease.               *)
(***************************************************************************)
EXTENDS Integers

CONSTANTS
    Threads,    \* requests that allocate at the same time
    Cap,        \* sequence_capacity()
    Nows,       \* readings of the clock
    Floors,     \* first indices a timeline's floor may ask for
    Counts,     \* batch sizes
    Borrow,     \* max_future_borrow_ms
    Rewind,     \* max_clock_rewind_ms
    Retries,    \* MAX_GENERATOR_CONTENTION_RETRIES
    Starts,     \* first indices above a recovery floor
    Bounds,     \* issued_upper_bound of a lease, when it has one
    Writers,    \* "flight" holds the singleflight, "beside" does not
    MaxToken    \* bound on the fencing tokens

None == -1

ASSUME CursorAssumption ==
    /\ Cap \in Nat \ {0} /\ Borrow \in Nat /\ Rewind \in Nat
    /\ "flight" \in Writers
    /\ Retries \in Nat \ {0} /\ MaxToken \in Nat
    /\ Nows \subseteq Nat /\ Floors \subseteq Nat /\ Starts \subseteq Nat
    /\ Counts \subseteq Nat \ {0} /\ Bounds \subseteq Nat

VARIABLES
    next,       \* next_index
    ready,      \* ready_lease_token
    lease,      \* the lease entry (token 0: none), and the index it starts from
    token,      \* the last token this process has claimed
    writer,     \* the lease operation in each writer
    call,       \* the allocation in each thread
    granted     \* the indices given away

vars == <<next, ready, lease, token, writer, call, granted>>

Later(a, b) == IF a >= b THEN a ELSE b
Phys(i) == i \div Cap

Lease == [tok : Nat, start : Nat, ub : Nat \cup {None}]
NoLease == [tok |-> 0, start |-> 0, ub |-> None]
Writer == [at : {"idle", "floor", "ready", "publish", "clear"}, put : Lease]
Resting == [at |-> "idle", put |-> NoLease]
Call == [at : {"idle", "load", "cas"}, now : Nat, floor : Nat, count : Nat \ {0}, under : Lease,
         old : Nat, tries : Nat]
NoCall == [at |-> "idle", now |-> 0, floor |-> 0, count |-> 1, under |-> NoLease,
           old |-> 0, tries |-> 0]

Init ==
    /\ next = 0 /\ ready = 0 /\ lease = NoLease /\ token = 0 /\ granted = {}
    /\ writer = [w \in Writers |-> Resting]
    /\ call = [t \in Threads |-> NoCall]

-----------------------------------------------------------------------------
(* Lease operations *)

\* A claimed or reloaded lease is about to be installed: its own token again, or
\* the next one, with the index its recovery floor asks for.
Install(start, ub) ==
    /\ writer["flight"].at = "idle"
    /\ \E k \in {token, token + 1} \ {0} :
          /\ k <= MaxToken
          /\ token' = k
          /\ writer' = [writer EXCEPT !["flight"] =
                           [at |-> "floor", put |-> [tok |-> k, start |-> start, ub |-> ub]]]
    /\ UNCHANGED <<next, ready, lease, call, granted>>

\* init_after_floor.
InitAfterFloor(w) ==
    /\ writer[w].at = "floor"
    /\ next' = Later(next, writer[w].put.start)
    /\ writer' = [writer EXCEPT ![w] = [at |-> "ready", put |-> writer[w].put]]
    /\ UNCHANGED <<ready, lease, token, call, granted>>

\* An accepted refresh of the entry as it was: no floor, a new bound.
Refresh(w, ub) ==
    /\ writer[w].at = "idle" /\ lease.tok # 0
    /\ writer' = [writer EXCEPT ![w] =
                     [at |-> "ready", put |-> [tok |-> lease.tok, start |-> lease.start, ub |-> ub]]]
    /\ UNCHANGED <<next, ready, lease, token, call, granted>>

\* mark_ready_for_lease.
MarkReady(w) ==
    /\ writer[w].at = "ready"
    /\ ready' = writer[w].put.tok
    /\ writer' = [writer EXCEPT ![w] = [at |-> "publish", put |-> writer[w].put]]
    /\ UNCHANGED <<next, lease, token, call, granted>>

\* upsert_lease.
UpsertLease(w) ==
    /\ writer[w].at = "publish"
    /\ lease' = writer[w].put
    /\ writer' = [writer EXCEPT ![w] = Resting]
    /\ UNCHANGED <<next, ready, token, call, granted>>

\* remove_lease and clear_leases: the entry, then the token.
RemoveLease(w) ==
    /\ writer[w].at = "idle"
    /\ lease' = NoLease
    /\ writer' = [writer EXCEPT ![w] = [at |-> "clear", put |-> NoLease]]
    /\ UNCHANGED <<next, ready, token, call, granted>>

ClearReady(w) ==
    /\ writer[w].at = "clear"
    /\ ready' = 0
    /\ writer' = [writer EXCEPT ![w] = Resting]
    /\ UNCHANGED <<next, lease, token, call, granted>>

-----------------------------------------------------------------------------
(* allocate_after *)

\* valid_lease_upper_bound_for_owner: the entry is locked while the token is
\* read; then allocate_after is called with the entry's bound.
Capture(t, now, floor, count) ==
    /\ call[t].at = "idle"
    /\ lease.tok # 0 /\ ready = lease.tok
    /\ call' = [call EXCEPT ![t] =
                   [at |-> "load", now |-> now, floor |-> floor, count |-> count,
                    under |-> lease, old |-> 0, tries |-> 0]]
    /\ UNCHANGED <<next, ready, lease, token, writer, granted>>

\* The range a call would take if the cursor is old, and what may forbid it:
\* ClockBackwards, FutureBorrowExceeded, IssuedUpperBoundExceeded.
First(c, old) == Later(Later(old, Later(c.now, Phys(old)) * Cap), c.floor)
Last(c, old) == First(c, old) + c.count - 1
Allowed(c, old) == Later(Phys(old), c.now + Borrow)
Fits(c, old) ==
    /\ Phys(old) - c.now <= Rewind
    /\ Phys(First(c, old)) <= Allowed(c, old)
    /\ Phys(Last(c, old)) <= Allowed(c, old)
    /\ c.under.ub # None => Last(c, old) <= c.under.ub

\* One turn of the loop loads the cursor and checks the range.
Load(t) ==
    /\ call[t].at = "load"
    /\ call' = [call EXCEPT ![t] =
                   IF Fits(call[t], next)
                   THEN [at |-> "cas", now |-> @.now, floor |-> @.floor, count |-> @.count,
                         under |-> @.under, old |-> next, tries |-> @.tries]
                   ELSE NoCall]
    /\ UNCHANGED <<next, ready, lease, token, writer, granted>>

\* Mutant of Exchange: the cursor is stored without comparing it.
ExchangeBlind(t) ==
    /\ call[t].at = "cas"
    /\ next' = Last(call[t], call[t].old) + 1
    /\ granted' = granted \cup First(call[t], call[t].old)..Last(call[t], call[t].old)
    /\ call' = [call EXCEPT ![t] = NoCall]
    /\ UNCHANGED <<ready, lease, token, writer>>

\* The compare_exchange succeeds.
Exchange(t) ==
    /\ call[t].at = "cas"
    /\ next = call[t].old
    /\ next' = Last(call[t], call[t].old) + 1
    /\ granted' = granted \cup First(call[t], call[t].old)..Last(call[t], call[t].old)
    /\ call' = [call EXCEPT ![t] = NoCall]
    /\ UNCHANGED <<ready, lease, token, writer>>

\* Mutant of LoseRace: the value the failed exchange returned is used in the
\* next one without checking the range again.
LoseRaceKeepsRange(t) ==
    /\ call[t].at = "cas"
    /\ next # call[t].old
    /\ call' = [call EXCEPT ![t] = [@ EXCEPT !.old = next, !.tries = @ + 1]]
    /\ call[t].tries + 1 < Retries
    /\ UNCHANGED <<next, ready, lease, token, writer, granted>>

\* It fails: another turn, or Contended after too many.
LoseRace(t) ==
    /\ call[t].at = "cas"
    /\ next # call[t].old
    /\ call' = [call EXCEPT ![t] =
                   IF @.tries + 1 >= Retries THEN NoCall
                   ELSE [at |-> "load", now |-> @.now, floor |-> @.floor, count |-> @.count,
                         under |-> @.under, old |-> 0, tries |-> @.tries + 1]]
    /\ UNCHANGED <<next, ready, lease, token, writer, granted>>

-----------------------------------------------------------------------------
Next ==
    \/ \E start \in Starts, ub \in Bounds \cup {None} : Install(start, ub)
    \/ \E w \in Writers :
          \/ \E ub \in Bounds \cup {None} : Refresh(w, ub)
          \/ InitAfterFloor(w) \/ MarkReady(w) \/ UpsertLease(w)
          \/ RemoveLease(w) \/ ClearReady(w)
    \/ \E t \in Threads :
          \/ \E now \in Nows, floor \in Floors, count \in Counts : Capture(t, now, floor, count)
          \/ Load(t) \/ Exchange(t) \/ LoseRace(t)

Spec == Init /\ [][Next]_vars

-----------------------------------------------------------------------------
TypeOK ==
    /\ next \in Nat /\ ready \in Nat /\ lease \in Lease /\ token \in Nat
    /\ writer \in [Writers -> Writer]
    /\ call \in [Threads -> Call]
    /\ granted \subseteq Nat

\* However the threads interleave, the loop of allocate_after is one atomic
\* allocation and init_after_floor only raises the cursor, so no index is given
\* away twice.
Atomic == INSTANCE AtomicCursor WITH next <- next, granted <- granted
AllocatesAtomically == Atomic!Spec

\* A call that saw a lease gets indices that lease allows: at or above the
\* index its recovery floor asked for, although floor, token and entry are three
\* stores, and within its bound, although the cursor may have moved on.
GrantsWithinLease ==
    [][\A t \in Threads : \A i \in granted' \ granted :
          call'[t].at # call[t].at =>
              /\ i >= call[t].under.start
              /\ call[t].under.ub # None => i <= call[t].under.ub]_vars

\* Every lease that is in the map, in a call or on its way there has had its
\* floor applied, and a call about to exchange fits the cursor it has loaded:
\* the inductive invariant.
Inv ==
    /\ lease.start <= next
    /\ \A w \in Writers : writer[w].at \in {"ready", "publish"} => writer[w].put.start <= next
    /\ \A t \in Threads : call[t].under.start <= next
    /\ \A t \in Threads : call[t].at = "cas" => Fits(call[t], call[t].old)
=============================================================================
