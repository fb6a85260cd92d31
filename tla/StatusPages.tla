------------------------------ MODULE StatusPages ------------------------------
(***************************************************************************)
(* Paged listing of timelines by status: the page tokens of the RPC        *)
(* (rpc/timeline_status_query.rs), the listing over etcd's status indexes  *)
(* (metadata/etcd/timeline.rs, status_index.rs) and the listing of the     *)
(* in-memory store (metadata/types.rs, memory.rs) with its cache of sorted *)
(* keys.                                                                   *)
(*                                                                         *)
(* One client walks through all pages while timelines are created and      *)
(* change.  Every read of the store is a step.  Timeline keys are numbers; *)
(* an index is exact, which StatusIndex is about.                          *)
(***************************************************************************)
EXTENDS Naturals, Sequences, FiniteSets, SequencesExt

CONSTANTS
    Backend,           \* "etcd" or "memory"
    NKeys,             \* timeline keys 1 .. NKeys
    Owners,
    Sizes,             \* page sizes a client asks for
    DefaultPageSize, MaxPageSize,
    MaxChanges,        \* bound: creations and changes of records
    SeveralStates,     \* whether filters name more than one state and no owner
    CreateDuringList   \* whether a creation may overlap the build of a key list

TimelineKeys == 1 .. NKeys
States == {"active", "locked"}
AnyOwner == "any"
None == 0                                      \* no cursor

VARIABLES
    records,   \* key -> [state, owner], state "absent" when there is none
    cache,     \* sorted_timeline_keys: a set of keys, or TimelineKeys \cup {None} for none
    creating,  \* keys inserted and not yet announced to the cache
    filter,    \* [states, owner] of the request
    size,      \* its page size
    token,     \* [states, owner, last] of the last answer; last None when empty
    pc,        \* "idle", "scan" (etcd), "keys", "store", "page" (memory), "done"
    todo,      \* etcd: indexes still to be listed for this page
    from,      \* where the next read begins: 2 k at key k, 2 k + 1 after it
    got,       \* keys of the page so far
    merged,    \* etcd: keys found in the indexes of the states before
    built,     \* memory: the key list a reader has built and not yet stored
    listed,    \* history: all keys given to the client
    stable,    \* history: keys that have matched since the walk began
    changes

vars == <<records, cache, creating, filter, size, token, pc, todo, from, got, merged,
          built, listed, stable, changes>>
client == <<filter, size, token, pc, todo, from, got, merged, built, listed>>

NoCache == TimelineKeys \cup {None}
Present == {k \in TimelineKeys : records[k].state # "absent"}

\* timeline_matches_status_filter.
Matches(k, f) ==
    /\ k \in Present
    /\ f.states = {} \/ records[k].state \in f.states
    /\ f.owner = AnyOwner \/ records[k].owner = f.owner

Filters ==
    {f \in [states : SUBSET States, owner : Owners \cup {AnyOwner}] :
        Cardinality(f.states) > 1 /\ f.owner = AnyOwner => SeveralStates}

Init ==
    /\ records \in [TimelineKeys -> {[state |-> s, owner |-> o] : s \in States, o \in Owners}
                            \cup {[state |-> "absent", owner |-> CHOOSE o \in Owners : TRUE]}]
    /\ cache = NoCache /\ creating = {}
    /\ filter \in Filters
    /\ size = 1
    /\ token = [states |-> filter.states, owner |-> filter.owner, last |-> None]
    /\ pc = "idle" /\ todo = <<>> /\ from = None /\ got = <<>> /\ merged = {} /\ built = {}
    /\ listed = <<>>
    /\ stable = {k \in TimelineKeys : Matches(k, filter)}
    /\ changes = 0

-----------------------------------------------------------------------------
(* The RPC.                                                                *)

PageSize(n) ==
    IF n = 0 THEN DefaultPageSize ELSE IF n > MaxPageSize THEN MaxPageSize ELSE n

TokenMatches(t, f) == t.last = None \/ (t.states = f.states /\ t.owner = f.owner)

\* list_timelines_by_status_filter_page of etcd: the owner index when an owner
\* is given, else the index of each state, else the routes themselves.
Indexes(f) ==
    IF f.owner # AnyOwner THEN <<"owner">>
    ELSE IF f.states = {} THEN <<"routes">> ELSE SetToSeq(f.states)

\* Positions in a range of keys: a range starts at a key, next_etcd_key_after
\* steps over it.
At(k) == 2 * k
After(k) == 2 * k + 1

Begin(f, n, after) ==
    /\ size' = PageSize(n)
    /\ from' = IF Backend = "etcd" THEN At(after) ELSE After(after)
    /\ got' = <<>> /\ merged' = {}
    /\ todo' = IF Backend = "etcd" THEN Indexes(f) ELSE <<>>
    /\ pc' = IF Backend = "etcd" THEN "scan" ELSE "keys"

Ask(n) ==
    /\ pc = "idle"
    /\ TokenMatches(token, filter)
    /\ Begin(filter, n, token.last)
    /\ UNCHANGED <<records, cache, creating, filter, token, built, listed, stable, changes>>

\* The client goes on with another filter and the old token.  A token that does
\* not match is refused and the client starts again.
OtherFilter(f) ==
    /\ pc = "idle" /\ token.last # None /\ f # filter
    /\ filter' = f
    /\ stable' = {k \in TimelineKeys : Matches(k, f) /\ k \notin creating}
    /\ listed' = <<>>
    /\ token' = IF TokenMatches(token, f) THEN [token EXCEPT !.states = f.states, !.owner = f.owner]
                ELSE [states |-> f.states, owner |-> f.owner, last |-> None]
    /\ UNCHANGED <<records, cache, creating, size, pc, todo, from, got, merged, built, changes>>

\* The answer: the page and, when there is more, the token for the next one.
Answer(keys, more) ==
    LET page == SubSeq(keys, 1, IF Len(keys) < size THEN Len(keys) ELSE size) IN
    /\ listed' = listed \o page
    /\ token' = [states |-> filter.states, owner |-> filter.owner,
                 last |-> IF more THEN keys[size] ELSE None]
    /\ pc' = IF more THEN "idle" ELSE "done"
    /\ got' = <<>> /\ merged' = {} /\ from' = None /\ todo' = <<>>

-----------------------------------------------------------------------------
(* etcd.                                                                   *)

InIndex(k, index) ==
    /\ k \in Present
    /\ index = "owner" => records[k].owner = filter.owner
    /\ index \in States => records[k].state = index

SortedSeq(S) == SetToSortSeq(S, <)

\* Mutant of FetchLimit: no extra record to tell whether there is more.
FetchLimitExact == size
\* limit + 1, and one more for the key the range starts at.
FetchLimit == size + 1 + (IF token.last # None THEN 1 ELSE 0)

\* One range read.  The first starts at the key of the token, which is dropped
\* from the answer.
Rows(index) ==
    LET rows == SortedSeq({k \in TimelineKeys : InIndex(k, index) /\ At(k) >= from})
    IN  SubSeq(rows, 1, IF Len(rows) < FetchLimit THEN Len(rows) ELSE FetchLimit)

\* Only the owner index holds records of other states.
Wanted(k, index) == index = "owner" /\ filter.states # {} => records[k].state \in filter.states

Skipped(k) == k = token.last

\* The end of one index: its page has at most the limit, and what is beyond the
\* limit is known only to the listing of this index.
IndexEnds(keys) ==
    LET page == SubSeq(keys, 1, IF Len(keys) < size THEN Len(keys) ELSE size)
        all == SortedSeq(merged \cup Range(page))
    IN  IF Len(todo) > 1
        THEN /\ merged' = merged \cup Range(page)
             /\ todo' = Tail(todo) /\ from' = At(token.last) /\ got' = <<>>
             /\ UNCHANGED <<listed, token, pc>>
        ELSE IF Cardinality(filter.states) < 2 \/ filter.owner # AnyOwner
        THEN Answer(keys, Len(keys) > size)
        ELSE Answer(all, Len(all) > size)

\* list_timelines_page for the routes, a single read, and
\* list_timelines_from_status_index_prefix, which reads on until it has more
\* than the limit or nothing comes.
FetchRows ==
    LET index == Head(todo)
        rows == Rows(index)
        keep == SelectSeq(rows, LAMBDA k : ~Skipped(k) /\ Wanted(k, index))
        keys == got \o keep
        enough == SubSeq(keys, 1, IF Len(keys) < size + 1 THEN Len(keys) ELSE size + 1)
    IN  /\ pc = "scan"
        /\ IF rows = <<>> \/ index = "routes" \/ Len(keys) > size
           THEN IndexEnds(enough)
           ELSE /\ got' = keys
                /\ from' = After(Last(rows))
                /\ UNCHANGED <<todo, merged, listed, token, pc>>
        /\ UNCHANGED <<records, cache, creating, filter, size, built, stable, changes>>

-----------------------------------------------------------------------------
(* The in-memory store.                                                    *)

\* sorted_timeline_keys: the cached list, or one that is built from the records
\* and then stored unless another reader has stored one meanwhile.
TakeKeys ==
    /\ pc = "keys"
    /\ built' = IF cache = NoCache THEN Present ELSE cache
    /\ pc' = IF cache = NoCache THEN "store" ELSE "page"
    /\ UNCHANGED <<records, cache, creating, filter, size, token, todo, from, got, merged,
                   listed, stable, changes>>

StoreKeys ==
    /\ pc = "store"
    /\ cache' = IF cache = NoCache THEN built ELSE cache
    /\ built' = cache'
    /\ pc' = "page"
    /\ UNCHANGED <<records, creating, filter, size, token, todo, from, got, merged, listed,
                   stable, changes>>

\* list_timelines_by_status_filter_page goes on to the next page of all records
\* until it has more than the limit of matching ones.
ScanOn(page, keys) == Len(page) > size /\ Len(keys) <= size

\* list_timelines_page over the key list, and the filter on what it returns.
\* Without a filter the page is the answer.
ReadPage ==
    LET page == SubSeq(SortedSeq({k \in built : At(k) >= from}), 1,
                       IF Cardinality({k \in built : At(k) >= from}) < size + 1
                       THEN Cardinality({k \in built : At(k) >= from}) ELSE size + 1)
        first == SubSeq(page, 1, IF Len(page) < size THEN Len(page) ELSE size)
        keys == got \o SelectSeq(first, LAMBDA k : Matches(k, filter))
    IN  /\ pc = "page"
        /\ IF filter.states = {} /\ filter.owner = AnyOwner THEN Answer(page, Len(page) > size)
           ELSE IF ScanOn(page, keys)
           THEN /\ got' = keys /\ from' = After(page[size]) /\ pc' = "keys"
                /\ UNCHANGED <<todo, merged, listed, token>>
           ELSE Answer(keys, Len(keys) > size)
        /\ built' = {}
        /\ UNCHANGED <<records, cache, creating, filter, size, stable, changes>>

-----------------------------------------------------------------------------
(* Other requests.                                                         *)

Write(k, s, o) ==
    /\ changes < MaxChanges
    /\ changes' = changes + 1
    /\ records' = [records EXCEPT ![k] = [state |-> s, owner |-> o]]

Still(k, s, o) ==
    stable' = IF (filter.states = {} \/ s \in filter.states) /\ (filter.owner = AnyOwner \/ o = filter.owner)
              THEN stable ELSE stable \ {k}

\* create_timeline_with_limit: the record is inserted, then the cached list is
\* dropped, then the caller has its answer.
Create(k, s, o) ==
    /\ k \notin Present
    /\ ~CreateDuringList => pc # "store"
    /\ Write(k, s, o)
    /\ IF Backend = "memory" THEN creating' = creating \cup {k} ELSE UNCHANGED creating
    /\ UNCHANGED <<cache, stable>> /\ UNCHANGED client

\* invalidate_sorted_timeline_keys.
Created(k) ==
    /\ k \in creating
    /\ creating' = creating \ {k}
    /\ cache' = NoCache
    /\ UNCHANGED <<records, stable, changes>> /\ UNCHANGED client

\* compare_exchange_timeline: the key stays.
Change(k, s, o) ==
    /\ k \in Present /\ [state |-> s, owner |-> o] # records[k]
    /\ Write(k, s, o)
    /\ Still(k, s, o)
    /\ UNCHANGED <<cache, creating>> /\ UNCHANGED client

\* The client begins a new walk.
Restart ==
    /\ pc = "done"
    /\ listed' = <<>> /\ pc' = "idle"
    /\ stable' = {k \in TimelineKeys : Matches(k, filter) /\ k \notin creating}
    /\ UNCHANGED <<records, cache, creating, filter, size, token, todo, from, got, merged,
                   built, changes>>

Walk == (\E n \in Sizes : Ask(n)) \/ FetchRows \/ TakeKeys \/ StoreKeys \/ ReadPage

Next ==
    \/ Walk \/ Restart
    \/ \E f \in Filters : OtherFilter(f)
    \/ \E k \in TimelineKeys : Created(k)
                       \/ \E s \in States, o \in Owners : Create(k, s, o) \/ Change(k, s, o)

Spec == Init /\ [][Next]_vars

-----------------------------------------------------------------------------
\* A page never holds more than the client asked for or the server allows, and
\* a listing in progress belongs to a request (list_timeline_statuses_response).
TypeOK ==
    /\ cache \in SUBSET TimelineKeys \cup {NoCache} /\ creating \subseteq TimelineKeys /\ built \subseteq TimelineKeys
    /\ size \in 1 .. MaxPageSize /\ Len(got) <= size + 1
    /\ from \in 0 .. After(NKeys) /\ token.last \in TimelineKeys \cup {None}
    /\ pc \in {"idle", "scan", "keys", "store", "page", "done"}
    /\ pc = "scan" <=> todo # <<>>

\* The pages give the keys in ascending order, none twice, although records
\* move between the reads (next_start_after_timeline_key, start_after).
ListedInOrder == \A i, j \in 1 .. Len(listed) : i < j => listed[i] < listed[j]

\* A walk to the last page lists every timeline that matched the filter all the
\* time: no change of another record and no page boundary hides it
\* (list_timelines_by_status_filter_page and the page token).
WalkComplete == pc = "done" => stable \subseteq Range(listed)
=============================================================================
