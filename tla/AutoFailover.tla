------------------------------ MODULE AutoFailover ------------------------------
(***************************************************************************)
(* The background failover of one worker (service/background.rs): at each  *)
(* tick it walks over the active timelines of other owners, page by page   *)
(* and owner by owner, and tries to take each one over.  A pass ends after *)
(* a number of attempts; the next one goes on with the next owner and, for *)
(* each owner, after the last key tried.                                   *)
(*                                                                         *)
(* Every record of a page is an attempt, so the limit on scanned records,  *)
(* eight times the limit on attempts, is never the one that ends a pass.   *)
(* Each timeline has a generator of its own.  Other workers stop renewing  *)
(* the lease of one, which runs out, and move timelines between them.      *)
(***************************************************************************)
EXTENDS Naturals, Sequences, SequencesExt

CONSTANTS
    NOwners,      \* other workers 1 .. NOwners, in the order of their endpoints
    NTimelines,   \* timelines 1 .. NTimelines, in the order of their keys
    BatchSize,    \* auto_failover_batch_size
    Floors,       \* which timelines may have a recovery floor at first
    MaxEvents     \* bound: moves by others and attempts that fail for the moment

Owners == 1 .. NOwners
Timelines == 1 .. NTimelines
Local == 0
NoCursor == 0

\* The constants fit together.
FailoverAssumption == NOwners > 0 /\ BatchSize > 0

VARIABLES
    owner,      \* timeline -> who owns it
    floor,      \* timelines whose record has a recovery floor
    renewed,    \* timelines whose generator's lease is renewed
    expired,    \* those whose generator's lease is over, safety gap included
    issued,     \* those whose generator record has a floor
    named,      \* owners in some generator record
    endpoints, fresh,  \* the cached list of other owners, and whether it may be used
    index, cursor,     \* AutoFailoverScanState
    pc, attempted, idle, at,
    page, more,        \* the rest of the page, and whether another follows
    events

vars == <<owner, floor, renewed, expired, issued, named, endpoints, fresh, index, cursor,
          pc, attempted, idle, at, page, more, events>>
scan == <<endpoints, fresh, index, cursor>>
pass == <<pc, attempted, idle, at, page, more>>
cluster == <<owner, floor, renewed, expired, issued, named, events>>

\* The generator of timeline 1 never issued a timestamp; the last owner takes its first generator later.
Init ==
    /\ owner \in {f \in [Timelines -> Owners] : f[1] = 1}
    /\ floor \in Floors /\ issued = Timelines \ {1}
    /\ renewed = Timelines /\ expired = {} /\ named = Owners \ {NOwners}
    /\ endpoints = <<>> /\ fresh = FALSE /\ index = 1
    /\ cursor = [o \in Owners |-> NoCursor]
    /\ pc = "off" /\ attempted = 0 /\ idle = 0 /\ at = 1 /\ page = <<>> /\ more = FALSE
    /\ events = 0

-----------------------------------------------------------------------------
(* The rest of the cluster.                                                *)

Abandon(t) ==
    /\ t \in renewed
    /\ renewed' = renewed \ {t}
    /\ UNCHANGED <<owner, floor, expired, issued, named, events>> /\ UNCHANGED scan /\ UNCHANGED pass

LeaseRunsOut(t) ==
    /\ t \notin renewed \cup expired
    /\ expired' = expired \cup {t}
    /\ UNCHANGED <<owner, floor, renewed, issued, named, events>> /\ UNCHANGED scan /\ UNCHANGED pass

\* Another worker takes a generator, and timelines.
Join(o) ==
    /\ o \notin named
    /\ named' = named \cup {o}
    /\ UNCHANGED <<owner, floor, renewed, expired, issued, events>> /\ UNCHANGED scan /\ UNCHANGED pass
Move(t, o) ==
    /\ events < MaxEvents
    /\ events' = events + 1
    /\ owner[t] \notin {Local, o} /\ o \in named
    /\ owner' = [owner EXCEPT ![t] = o]
    /\ floor' = floor \cup {t}
    /\ renewed' = renewed \cup {t} /\ expired' = expired \ {t}
    /\ UNCHANGED <<issued, named>> /\ UNCHANGED scan /\ UNCHANGED pass

CacheRunsOut ==
    /\ fresh
    /\ fresh' = FALSE
    /\ UNCHANGED <<endpoints, index, cursor>> /\ UNCHANGED pass /\ UNCHANGED cluster

-----------------------------------------------------------------------------
(* The pass.                                                               *)

\* auto_failover_remote_owner_endpoints and load_auto_failover_owner_index.
BeginPass ==
    LET known == IF fresh THEN endpoints ELSE SetToSortSeq(named, <) IN
    /\ pc = "off"
    /\ endpoints' = known /\ fresh' = TRUE
    /\ pc' = IF known = <<>> THEN "off" ELSE "list"
    /\ at' = IF known = <<>> THEN 1 ELSE ((index - 1) % Len(known)) + 1
    /\ UNCHANGED <<index, cursor, attempted, idle, page, more>> /\ UNCHANGED cluster

NextOwner(i) == (i % Len(endpoints)) + 1

\* The counters of a pass begin at 0 in the next one.
Proceed(ends, tries, empty, next) ==
    /\ pc' = IF ends THEN "off" ELSE "list"
    /\ attempted' = IF ends THEN 0 ELSE tries
    /\ idle' = IF ends THEN 0 ELSE empty
    /\ at' = IF ends THEN 1 ELSE next

\* list_timelines_by_status_filter_page: active timelines of one owner.
OwnerPage(o) ==
    LET all == SetToSortSeq({t \in Timelines : owner[t] = o /\ t > cursor[o]}, <)
    IN  [rows |-> SubSeq(all, 1, IF Len(all) < BatchSize THEN Len(all) ELSE BatchSize),
         more |-> Len(all) > BatchSize]

\* The owner has nothing after its cursor: the next walk begins anew.
ListEmpty ==
    LET o == endpoints[at] IN
    /\ pc = "list" /\ OwnerPage(o).rows = <<>>
    /\ cursor' = [cursor EXCEPT ![o] = NoCursor]
    /\ Proceed(idle + 1 = Len(endpoints), attempted, idle + 1, NextOwner(at))
    /\ UNCHANGED <<endpoints, fresh, index, page, more>> /\ UNCHANGED cluster

ListPage ==
    LET p == OwnerPage(endpoints[at]) IN
    /\ pc = "list" /\ p.rows # <<>>
    /\ page' = p.rows /\ more' = p.more
    /\ idle' = 0
    /\ pc' = "try"
    /\ UNCHANGED <<attempted, at>> /\ UNCHANGED scan /\ UNCHANGED cluster

\* The listing fails, and with it the pass.
ListFails ==
    /\ pc = "list" /\ events < MaxEvents
    /\ events' = events + 1
    /\ Proceed(TRUE, 0, 0, 1)
    /\ UNCHANGED <<page, more, owner, floor, renewed, expired, issued, named>>
    /\ UNCHANGED scan

\* prepare_transfer_application for a failover: what it finds of the timeline's
\* generator now.
Attempt(t) ==
    CASE owner[t] # Local /\ t \notin expired -> "unexpired"
      [] owner[t] # Local /\ t \in expired \ issued -> "blocked"
      [] OTHER -> "moved"

\* Mutant of CursorAfter: a timeline whose owner lives is tried again first.
CursorAfterStays(t, rest, deferred) ==
    IF deferred THEN cursor[endpoints[at]]
    ELSE IF rest = <<>> /\ ~more THEN NoCursor ELSE t
\* The cursor goes to the key tried, or starts anew after the last page.
CursorAfter(t, rest, deferred) ==
    IF ~deferred /\ rest = <<>> /\ ~more THEN NoCursor ELSE t

\* store_auto_failover_owner_index, after a page that was not empty.
IndexAfter == NextOwner(at)

\* The loop over the page breaks, or the page ends.
PageDone(rest, deferred) == attempted + 1 >= BatchSize \/ deferred \/ rest = <<>>

\* One record of the page.  A failed attempt may also be a conflict, an
\* exhausted pool or an error of the store.
TryNext ==
    LET t == Head(page)
        rest == Tail(page)
        result == Attempt(t)
        deferred == result = "unexpired"
    IN  /\ pc = "try"
        /\ \/ /\ owner' = IF result = "moved" THEN [owner EXCEPT ![t] = Local] ELSE owner
              /\ UNCHANGED events
           \/ /\ events < MaxEvents /\ result = "moved"
              /\ events' = events + 1
              /\ UNCHANGED owner
        /\ \/ /\ PageDone(rest, deferred)
              /\ cursor' = [cursor EXCEPT ![endpoints[at]] = CursorAfter(t, rest, deferred)]
              /\ index' = IndexAfter
              /\ page' = <<>> /\ more' = FALSE
              /\ Proceed(attempted + 1 >= BatchSize, attempted + 1, idle, NextOwner(at))
           \/ /\ ~PageDone(rest, deferred)
              /\ page' = rest
              /\ attempted' = attempted + 1
              /\ UNCHANGED <<cursor, index, at, more, pc, idle>>
        /\ UNCHANGED <<floor, renewed, expired, issued, named, endpoints, fresh>>

Work == BeginPass \/ ListEmpty \/ ListPage \/ TryNext

Next ==
    \/ Work \/ ListFails \/ CacheRunsOut
    \/ \E t \in Timelines : Abandon(t) \/ LeaseRunsOut(t)
    \/ \E o \in Owners : Join(o) \/ \E t \in Timelines : Move(t, o)

Spec == Init /\ [][Next]_vars

-----------------------------------------------------------------------------
\* A pass makes at most auto_failover_batch_size attempts.
TypeOK ==
    /\ owner \in [Timelines -> Owners \cup {Local}]
    /\ index \in 1 .. NOwners /\ at \in 1 .. NOwners
    /\ cursor \in [Owners -> Timelines \cup {NoCursor}]
    /\ attempted < BatchSize
    /\ pc = "try" <=> page # <<>>
=============================================================================
