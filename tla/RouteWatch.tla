------------------------------ MODULE RouteWatch ------------------------------
(***************************************************************************)
(* How a worker's cache follows the routes: the etcd watch                 *)
(* (metadata/etcd/route_watch.rs) turns events into signals on a broadcast *)
(* channel, and metadata_route_update_loop                                 *)
(* (service/runtime_coordination/cache.rs) clears what they are about.     *)
(*                                                                         *)
(* Every revision of the store is a new version of a timeline's route, and *)
(* a signal is a revision, or 0 for RouteUpdateSignal::Reset.              *)
(***************************************************************************)
EXTENDS Naturals, Sequences, FiniteSets, FiniteSetsExt

CONSTANTS
    Faults,         \* of "compact", "cancel", "decode", "burst", "ensure"
    Count,          \* timelines
    Capacity,       \* of the broadcast channel
    MaxVersion,     \* bound: revisions
    MaxBreaks       \* bound: times the watch breaks

\* The constants fit together.
WatchAssumption ==
    /\ Faults \subseteq {"compact", "cancel", "decode", "burst", "ensure"}
    /\ Count \in Nat \ {0} /\ Capacity \in Nat \ {0} /\ MaxVersion \in Nat /\ MaxBreaks \in Nat

VARIABLES
    log,        \* etcd's revisions: whose route was changed
    compacted,  \* revisions up to this one are gone
    up,         \* the stream is open
    pos,        \* the next revision the stream has
    next,       \* next_watch_revision; 0: None
    sent,       \* reset_sent_for_outage
    queue, lagged,  \* the channel; signals were dropped from it
    cooling,    \* within ROUTE_WATCH_LAG_CLEAR_COOLDOWN
    cache,      \* timeline -> revision of its route in the cache; 0: none
    load,       \* a request that loads the record
    breaks,     \* history: of the watch
    last        \* history: last version signalled

vars == <<log, compacted, up, pos, next, sent, queue, lagged, cooling, cache, load, breaks, last>>

store == <<log, compacted>>
watch == <<up, pos, next, sent, queue, lagged, breaks, last>>
worker == <<cooling, cache, load>>

Timelines == 1 .. Count
\* etcd's revision, and that of the last change of a route.
version == Len(log)
Newest(t) == Max({r \in DOMAIN log : log[r] = t})

NoLoad == [at |-> "idle", t |-> 1, v |-> 0, ensure |-> FALSE]

\* The worker is up: its stream is open and has told it the revision.
Init ==
    /\ log = [t \in Timelines |-> t] /\ compacted = 0 /\ up = TRUE /\ pos = Count + 1 /\ next = Count + 1 /\ sent = FALSE
    /\ queue = <<>> /\ lagged = FALSE /\ cooling = FALSE /\ cache = [t \in Timelines |-> 0] /\ load = NoLoad
    /\ breaks = 0 /\ last = Count

Change ==
    /\ version < MaxVersion /\ \E t \in Timelines : log' = Append(log, t)
    /\ "burst" \in Faults \/ Len(queue) + version - last < Capacity
    /\ UNCHANGED <<compacted, watch, worker>>
Compact ==
    /\ "compact" \in Faults /\ compacted < version
    /\ compacted' = version
    /\ UNCHANGED <<log, watch, worker>>

-----------------------------------------------------------------------------
(* spawn_route_watch_loop.                                                 *)

\* broadcast::Sender::send, for several signals: the oldest are overwritten.
Send(signals) ==
    LET all == queue \o signals IN
    /\ queue' = SubSeq(all, Max({1, Len(all) - Capacity + 1}), Len(all))
    /\ lagged' = (lagged \/ Len(all) > Capacity)
\* send_route_watch_reset_once.
SendReset(events) == Send(events \o IF sent THEN <<>> ELSE <<0>>) /\ sent' = TRUE

\* watch() succeeds: from the revision after the last seen, or from now on.
Connect ==
    /\ ~up /\ up' = TRUE
    /\ pos' = IF next = 0 THEN version + 1 ELSE next
    /\ sent' = FALSE
    /\ UNCHANGED <<store, next, queue, lagged, breaks, last, worker>>
ConnectFails ==
    /\ ~up /\ breaks < MaxBreaks /\ breaks' = breaks + 1
    /\ SendReset(<<>>)
    /\ UNCHANGED <<store, up, pos, next, last, worker>>

\* The response with the events of the revisions from pos to n.
Events(n) == [i \in 1 .. n - pos + 1 |-> pos + i - 1]
\* checked_add(1) of the header's revision.
Seen(n) == n + 1
Deliver(n) ==
    /\ up /\ n \in pos .. version /\ pos > compacted
    /\ Send(Events(n)) /\ pos' = n + 1 /\ next' = Seen(n) /\ last' = n
    /\ UNCHANGED <<store, up, sent, breaks, worker>>
\* A response without events (with_progress_notify).
Progress ==
    /\ up /\ pos = version + 1 /\ next # pos /\ next' = Seen(version)
    /\ UNCHANGED <<store, up, pos, sent, queue, lagged, breaks, last, worker>>

\* The stream ends without next_watch_revision.
Lost(events) == up' = FALSE /\ next' = 0 /\ SendReset(events) /\ UNCHANGED pos
\* compact_revision() > 0.
Compacted ==
    /\ up /\ pos <= compacted
    /\ Lost(<<>>) /\ UNCHANGED <<store, breaks, last, worker>>
\* canceled().
Cancelled ==
    /\ "cancel" \in Faults /\ up /\ breaks < MaxBreaks /\ breaks' = breaks + 1
    /\ Lost(<<>>) /\ UNCHANGED <<store, last, worker>>
\* An event without a value, or one that cannot be decoded, after some that can.
Undecodable(n) ==
    /\ "decode" \in Faults /\ up /\ n \in pos .. version /\ pos > compacted
    /\ breaks < MaxBreaks /\ breaks' = breaks + 1
    /\ Lost(Events(n - 1)) /\ last' = n - 1
    /\ UNCHANGED <<store, worker>>
\* Mutant of Broken: the watch starts again from now.
BrokenForgets ==
    /\ up /\ breaks < MaxBreaks /\ breaks' = breaks + 1
    /\ up' = FALSE /\ next' = 0 /\ SendReset(<<>>)
    /\ UNCHANGED <<store, pos, last, worker>>
\* Ok(None) or Err(_): the stream ends, and is resumed.
Broken ==
    /\ up /\ breaks < MaxBreaks /\ breaks' = breaks + 1
    /\ up' = FALSE /\ SendReset(<<>>)
    /\ UNCHANGED <<store, pos, next, last, worker>>

-----------------------------------------------------------------------------
(* metadata_route_update_loop.                                             *)

Cleared == [t \in Timelines |-> 0]
\* invalidate_timeline_cache_for_route_update.
Invalidated(r) == IF r > cache[log[r]] THEN [cache EXCEPT ![log[r]] = 0] ELSE cache
Lagged ==
    /\ lagged /\ lagged' = FALSE
    /\ IF cooling THEN UNCHANGED <<cooling, cache>> ELSE cooling' = TRUE /\ cache' = Cleared
    /\ UNCHANGED <<store, up, pos, next, sent, queue, breaks, last, load>>
CooledDown ==
    /\ cooling /\ cooling' = FALSE
    /\ UNCHANGED <<store, watch, cache, load>>
Receive ==
    /\ ~lagged /\ queue # <<>> /\ queue' = Tail(queue)
    /\ cache' = IF Head(queue) = 0 THEN Cleared ELSE Invalidated(Head(queue))
    /\ UNCHANGED <<store, up, pos, next, sent, lagged, breaks, last, cooling, load>>

-----------------------------------------------------------------------------
(* A request finds nothing in the cache: the record is read, brought into  *)
(* the cache and, by an allocation, read again before it is served.        *)

LoadRead ==
    /\ load = NoLoad
    /\ \E t \in Timelines, e \in BOOLEAN :
          /\ cache[t] = 0 /\ (e => "ensure" \in Faults)
          /\ load' = [at |-> "read", t |-> t, v |-> Newest(t), ensure |-> e]
    /\ UNCHANGED <<store, watch, cooling, cache>>
LoadInsert ==
    /\ load.at = "read" /\ cache' = [cache EXCEPT ![load.t] = load.v]
    /\ load' = IF load.ensure THEN NoLoad ELSE [load EXCEPT !.at = "check"]
    /\ UNCHANGED <<store, watch, cooling>>
\* revalidate_authority.
Revalidate ==
    /\ load.at = "check" /\ load' = NoLoad
    /\ cache' = IF Newest(load.t) # load.v THEN [cache EXCEPT ![load.t] = 0] ELSE cache
    /\ UNCHANGED <<store, watch, cooling>>

Watching == Connect \/ Compacted \/ Progress \/ \E n \in 1 .. MaxVersion : Deliver(n)
Looping == Lagged \/ Receive
Loading == LoadInsert \/ Revalidate

Next ==
    \/ Change \/ Compact \/ Watching \/ ConnectFails \/ Cancelled \/ Broken \/ Looping \/ CooledDown
    \/ LoadRead \/ Loading \/ \E n \in 1 .. MaxVersion : Undecodable(n)

Spec == Init /\ [][Next]_vars

-----------------------------------------------------------------------------
\* No more signals than the channel has room for; an outage has had its reset.
TypeOK ==
    /\ version <= MaxVersion /\ compacted <= version /\ next <= version + 1 /\ pos <= version + 1
    /\ Len(queue) <= Capacity /\ (\A t \in Timelines : cache[t] <= Newest(t)) /\ last <= version
    /\ ~up => sent

\* The watch tells the changes in their order and none twice, across reconnections.
SignalsAscend ==
    \A i, j \in DOMAIN queue : i < j /\ queue[i] # 0 /\ queue[j] # 0 => queue[i] < queue[j]
=============================================================================
