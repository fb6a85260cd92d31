------------------------------ MODULE StatusIndex ------------------------------
(***************************************************************************)
(* The status indexes of timelines in etcd and their rebuild under a lease *)
(* lock (metadata/etcd/status_index.rs, lease_lock.rs).                    *)
(*                                                                         *)
(* Starting workers rebuild the indexes unless a marker says that they are *)
(* current, while other workers create and change timelines.  Writers read *)
(* the record first and then write record and index entries in one         *)
(* transaction.  A revision stands for the record it was written with.     *)
(***************************************************************************)
EXTENDS Naturals, FiniteSets, Sequences, SequencesExt, TLC

CONSTANTS
    Workers,      \* starting workers
    Writers,      \* requests that write timelines
    NTimelines,   \* timelines 1 .. NTimelines, in the order of their keys
    States, Owners,
    Batch,        \* STATUS_INDEX_REBUILD_BATCH_RECORDS
    MaxRevision   \* bound: writes

Timelines == 1 .. NTimelines
Values == States \cup Owners
Free == "free"

\* The constants fit together.
IndexAssumption == States \cap Owners = {} /\ Free \notin Workers /\ Batch > 0

VARIABLES
    revision,  \* of the store
    route,     \* timeline -> [state, owner, rev], rev 0 when there is none
    index,     \* <<value, timeline>> -> revision of the record kept there, 0 when none
    marker,    \* timeline_status/__ready holds the current version
    lock,      \* whose token the rebuild lock holds
    pc,        \* of the starting workers
    rows,      \* routes read and not yet indexed
    from,      \* where the next read of routes begins
    prev       \* what a writer has read: [t, state, owner, rev]; rev MaxRevision + 1 when idle

vars == <<revision, route, index, marker, lock, pc, rows, from, prev>>
store == <<revision, route, index, marker>>

Pcs == {"marker", "lock", "recheck", "wait", "clean", "scan", "put", "publish", "done", "failed"}
Idle == MaxRevision + 1
NoRead == [t |-> 1, state |-> CHOOSE s \in States : TRUE, owner |-> CHOOSE o \in Owners : TRUE,
           rev |-> Idle]

\* What an older version has left: routes, and no index, or one of other keys.
Init ==
    /\ route \in [Timelines -> {[state |-> s, owner |-> o, rev |-> 1] : s \in States, o \in Owners}
                               \cup {[state |-> NoRead.state, owner |-> NoRead.owner, rev |-> 0]}]
    /\ revision = 1
    /\ index \in {[k \in Values \X Timelines |-> r] : r \in {0, 1}}
    /\ marker = FALSE /\ lock = Free
    /\ pc = [p \in Workers |-> "marker"]
    /\ rows = [p \in Workers |-> <<>>]
    /\ from = [p \in Workers |-> 1]
    /\ prev = [w \in Writers |-> NoRead]

-----------------------------------------------------------------------------
(* Writers.                                                                *)

\* timeline_status_index_keys.
IndexKeys(t, r) == {<<r.state, t>>, <<r.owner, t>>}

\* timeline_status_index_put_ops.
PutOps(ix, t, r, rev) == [k \in DOMAIN ix |-> IF k \in IndexKeys(t, r) THEN rev ELSE ix[k]]

\* Mutant of ReplaceOps: the entries of the previous record stay.
ReplaceOpsPutOnly(t, old, new) == PutOps(index, t, new, revision + 1)
\* timeline_status_index_replace_ops.
ReplaceOps(t, old, new) ==
    PutOps([k \in DOMAIN index |->
               IF k \in IndexKeys(t, old) \ IndexKeys(t, new) THEN 0 ELSE index[k]],
           t, new, revision + 1)

WriteRoute(t, r) ==
    /\ revision < MaxRevision
    /\ revision' = revision + 1
    /\ route' = [route EXCEPT ![t] = [state |-> r.state, owner |-> r.owner, rev |-> revision + 1]]

Record(s, o) == [state |-> s, owner |-> o]

\* create_timeline_with_indexes: the key must not exist.
Create(t, s, o) ==
    /\ route[t].rev = 0
    /\ WriteRoute(t, Record(s, o))
    /\ index' = PutOps(index, t, Record(s, o), revision + 1)
    /\ UNCHANGED <<marker, lock, pc, rows, from, prev>>

\* compare_exchange_timeline_with_indexes: the previous record is read ...
LoadPrevious(w, t) ==
    /\ prev[w].rev = Idle /\ route[t].rev # 0
    /\ prev' = [prev EXCEPT ![w] = [t |-> t, state |-> route[t].state, owner |-> route[t].owner,
                                    rev |-> route[t].rev]]
    /\ UNCHANGED <<revision, route, index, marker, lock, pc, rows, from>>

SameRevision(t, rev) == route[t].rev = rev

\* ... and record and indexes are written if the route has that revision still.
CompareExchange(w, s, o) ==
    LET p == prev[w] IN
    /\ p.rev # Idle
    /\ prev' = [prev EXCEPT ![w] = NoRead]
    /\ \/ /\ SameRevision(p.t, p.rev)
          /\ WriteRoute(p.t, Record(s, o))
          /\ index' = ReplaceOps(p.t, p, Record(s, o))
       \/ /\ ~SameRevision(p.t, p.rev) \/ revision = MaxRevision
          /\ UNCHANGED <<revision, route, index>>
    /\ UNCHANGED <<marker, lock, pc, rows, from>>

\* compare_exchange_timelines_with_indexes: two routes read at the same time,
\* in one transaction.
CompareExchangeBoth(w, v, s, o) ==
    LET p == prev[w]
        q == prev[v]
        new == revision + 1
        one == ReplaceOps(p.t, p, Record(s, o))
    IN  /\ p.rev # Idle /\ q.rev # Idle /\ p.t < q.t
        /\ revision < MaxRevision
        /\ SameRevision(p.t, p.rev) /\ SameRevision(q.t, q.rev)
        /\ revision' = new
        /\ route' = [t \in Timelines |->
                        IF t \in {p.t, q.t} THEN [state |-> s, owner |-> o, rev |-> new] ELSE route[t]]
        /\ index' = [k \in DOMAIN index |->
                        IF k[2] = q.t THEN ReplaceOps(q.t, q, Record(s, o))[k] ELSE one[k]]
        /\ prev' = [prev EXCEPT ![w] = NoRead, ![v] = NoRead]
        /\ UNCHANGED <<marker, lock, pc, rows, from>>

-----------------------------------------------------------------------------
(* The rebuild.                                                            *)

Goto(p, label) == pc' = [pc EXCEPT ![p] = label]

\* status_index_marker_is_current, before the lock and under it.
CheckMarker(p) ==
    /\ pc[p] = "marker"
    /\ Goto(p, IF marker THEN "done" ELSE "lock")
    /\ UNCHANGED <<lock, rows, from, prev>> /\ UNCHANGED store

\* try_acquire_lease_lock: the key must not exist.
TryLock(p) ==
    /\ pc[p] = "lock"
    /\ lock' = IF lock = Free THEN p ELSE lock
    /\ Goto(p, IF lock = Free THEN "recheck" ELSE "wait")
    /\ UNCHANGED <<rows, from, prev>> /\ UNCHANGED store

\* Mutant of Recheck: the marker is not read again.
RecheckNot(p) ==
    /\ pc[p] = "recheck"
    /\ Goto(p, "clean")
    /\ UNCHANGED <<lock, rows, from, prev>> /\ UNCHANGED store

Release(p) == lock' = IF lock = p THEN Free ELSE lock

Recheck(p) ==
    /\ pc[p] = "recheck"
    /\ \/ /\ marker
          /\ Goto(p, "done")
          /\ Release(p)
       \/ /\ ~marker
          /\ Goto(p, "clean")
          /\ UNCHANGED lock
    /\ UNCHANGED <<rows, from, prev>> /\ UNCHANGED store

\* wait_for_status_index_rebuild: until the marker is there, or the lock is
\* gone; its deadline is among the failures.
Wait(p) ==
    /\ pc[p] = "wait"
    /\ \/ marker /\ Goto(p, "done")
       \/ ~marker /\ lock = Free /\ Goto(p, "marker")
    /\ UNCHANGED <<lock, rows, from, prev>> /\ UNCHANGED store

\* fence_compare.
Fenced(p) == lock = p

\* Everything under timeline_status/ is deleted, the marker included.
Clean(p) ==
    /\ pc[p] = "clean" /\ Fenced(p)
    /\ index' = [k \in DOMAIN index |-> 0]
    /\ marker' = FALSE
    /\ Goto(p, "scan")
    /\ UNCHANGED <<revision, route, lock, rows, from, prev>>

\* The key after the last one read.
NextFrom(batch) == Last(batch) + 1

\* One read of routes.
Scan(p) ==
    LET found == SetToSortSeq({t \in Timelines : t >= from[p] /\ route[t].rev # 0}, <)
        batch == SubSeq(found, 1, IF Len(found) < Batch THEN Len(found) ELSE Batch)
    IN  /\ pc[p] = "scan"
        /\ \/ /\ batch = <<>>
              /\ Goto(p, "publish")
              /\ UNCHANGED <<rows, from>>
           \/ /\ batch # <<>>
              /\ rows' = [rows EXCEPT ![p] = [i \in DOMAIN batch |->
                            [t |-> batch[i], state |-> route[batch[i]].state,
                             owner |-> route[batch[i]].owner, rev |-> route[batch[i]].rev]]]
              /\ from' = [from EXCEPT ![p] = NextFrom(batch)]
              /\ Goto(p, "put")
        /\ UNCHANGED <<lock, prev>> /\ UNCHANGED store

\* The entries of one route, if lock and route are as they were.  A route that
\* has changed was indexed by its writer.
PutRow(p) ==
    LET r == Head(rows[p]) IN
    /\ pc[p] = "put" /\ Fenced(p)
    /\ index' = IF SameRevision(r.t, r.rev) THEN PutOps(index, r.t, r, r.rev) ELSE index
    /\ rows' = [rows EXCEPT ![p] = Tail(rows[p])]
    /\ Goto(p, IF Len(rows[p]) = 1 THEN "scan" ELSE "put")
    /\ UNCHANGED <<revision, route, marker, lock, from, prev>>

\* Marker and lock in one transaction.  When its answer is lost, the repeated
\* one finds no lock and the worker fails although the marker is there.
Publish(p) ==
    /\ pc[p] = "publish" /\ Fenced(p)
    /\ marker' = TRUE /\ lock' = Free
    /\ \E end \in {"done", "failed"} : Goto(p, end)
    /\ from' = [from EXCEPT ![p] = 1]
    /\ UNCHANGED <<revision, route, index, rows, prev>>

\* An error, a lost lock or the end of the process.  The lock is given up, or it
\* stays until its lease runs out.
Fail(p) ==
    /\ pc[p] \notin {"done", "failed"}
    /\ Goto(p, "failed")
    /\ Release(p) \/ UNCHANGED lock
    /\ rows' = [rows EXCEPT ![p] = <<>>]
    /\ from' = [from EXCEPT ![p] = 1]
    /\ UNCHANGED prev /\ UNCHANGED store

\* The lease of the lock runs out, whether its holder works on or not.
ExpireLock ==
    /\ lock # Free
    /\ lock' = Free
    /\ UNCHANGED <<pc, rows, from, prev>> /\ UNCHANGED store

Rebuild(p) ==
    CheckMarker(p) \/ TryLock(p) \/ Recheck(p) \/ Wait(p) \/ Clean(p) \/ Scan(p) \/ PutRow(p) \/ Publish(p)

Next ==
    \/ \E p \in Workers : Rebuild(p) \/ Fail(p)
    \/ ExpireLock
    \/ \E s \in States, o \in Owners :
          \/ \E t \in Timelines : Create(t, s, o)
          \/ \E w \in Writers : CompareExchange(w, s, o)
          \/ \E w, v \in Writers : CompareExchangeBoth(w, v, s, o)
    \/ \E w \in Writers, t \in Timelines : LoadPrevious(w, t)

Spec == Init /\ [][Next]_vars

-----------------------------------------------------------------------------
\* A worker has rows to index exactly in that phase.
TypeOK ==
    /\ lock \in Workers \cup {Free} /\ marker \in BOOLEAN
    /\ revision \in 1 .. MaxRevision
    /\ index \in [Values \X Timelines -> 0 .. MaxRevision]
    /\ pc \in [Workers -> Pcs]
    /\ \A p \in Workers : rows[p] # <<>> <=> pc[p] = "put"

Current(t, k) == IF route[t].rev # 0 /\ k \in IndexKeys(t, route[t]) THEN route[t].rev ELSE 0

\* Once the marker is set the indexes are exact: every timeline is under its
\* state and its owner with its current record, and nowhere else, whatever
\* writers did during the rebuild (rebuild_timeline_status_indexes_with_lock
\* and the write transactions).
MarkedIndexExact == marker => \A k \in DOMAIN index : index[k] = Current(k[2], k)

\* Between the cleanup and the marker nothing wrong is in the indexes: the
\* holder of the lock finds missing entries only.
RebuiltIndexSound ==
    \A p \in Workers : lock = p /\ pc[p] \in {"scan", "put", "publish"} =>
        \A k \in DOMAIN index : index[k] \in {0, Current(k[2], k)}

\* A current index is not deleted again, by a worker that waited for the lock or
\* that held it before ("so a waiter never performs a redundant destructive
\* rebuild", status_index.rs).
MarkerStays == marker => marker'
=============================================================================
