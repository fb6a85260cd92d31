---------------------------- MODULE MemoryRequests ----------------------------
(***************************************************************************)
(* The request records of MemoryMetadataStore (metadata/memory.rs): two    *)
(* key layouts, the cleanup index of completed records and their pruning.  *)
(* Writers hold request_cas_lock; load_request_record does not and reads   *)
(* two keys one after the other.                                           *)
(*                                                                         *)
(* An index entry is the time of a record and its request: that is its     *)
(* key, and it always points to the current layout.  A record of the old   *)
(* layout, or one without an index entry, is as the tests put them there.  *)
(***************************************************************************)
EXTENDS Naturals, FiniteSets, FiniteSetsExt, TLC

CONSTANTS
    Requests,   \* (timeline, client request id)
    Times,      \* values of updated_at_ms
    Limit,      \* of a pruning
    MaxRev      \* bound: revisions

\* The constants fit together.
RequestsAssumption == Times \subseteq Nat /\ Limit \in Nat \ {0} /\ MaxRev \in Nat

VARIABLES
    old, cur,   \* the records under the old and the current key; rev = 0: none
    index,      \* request_cleanup_index: entries [at, request]
    moving,     \* records taken out of the old layout and not yet in the new one
    reader,     \* load_request_record of one request
    pruned      \* how the last pruning ended

vars == <<old, cur, index, moving, reader, pruned>>

NoRecord == [rev |-> 0, done |-> FALSE, at |-> 0]
Record(rev, done, at) == [rev |-> rev, done |-> done, at |-> at]
Records == {Record(1, done, at) : done \in BOOLEAN, at \in Times}
NoReader == [on |-> FALSE, request |-> CHOOSE r \in Requests : TRUE, still |-> FALSE,
             missed |-> FALSE, moved |-> FALSE]
NotPruned == [cutoff |-> 0, count |-> 0]

Init ==
    /\ \E r \in Requests, x \in Records :
          \/ old = [q \in Requests |-> IF q = r THEN x ELSE NoRecord] /\ cur = [q \in Requests |-> NoRecord]
          \/ cur = [q \in Requests |-> IF q = r THEN x ELSE NoRecord] /\ old = [q \in Requests |-> NoRecord]
    /\ index = {} /\ moving = [q \in Requests |-> NoRecord]
    /\ reader = NoReader /\ pruned = NotPruned

Locked == \E q \in Requests : moving[q] # NoRecord
Here(r) == old[r].rev > 0 \/ cur[r].rev > 0
Entry(r, x) == [at |-> x.at, request |-> r]
\* insert_request_cleanup_index, remove_request_cleanup_index.
Indexed(r, x) == IF x.done THEN {Entry(r, x)} ELSE {}

\* A reader sees of the writers only that its record goes or moves.
Goes(r) == reader' = IF reader.request = r THEN [reader EXCEPT !.still = FALSE] ELSE reader

\* create_request_record.
CreateRecord(r, done, at) ==
    /\ ~Locked /\ ~Here(r)
    /\ cur' = [cur EXCEPT ![r] = Record(1, done, at)]
    /\ index' = index \cup Indexed(r, cur'[r])
    /\ pruned' = NotPruned
    /\ UNCHANGED <<old, moving, reader>>

\* compare_exchange_request_record of a record of the current layout.
Replace(r, rev, done, at) ==
    /\ ~Locked /\ cur[r].rev = rev /\ rev \in 1 .. MaxRev - 1
    /\ cur' = [cur EXCEPT ![r] = Record(rev + 1, done, at)]
    /\ index' = (index \ Indexed(r, cur[r])) \cup Indexed(r, cur'[r])
    /\ pruned' = NotPruned
    /\ UNCHANGED <<old, moving, reader>>

\* The same with the flag of the old layout in the revision: the record is taken
\* out, and put under its new key.
MoveOut(r, rev, done, at) ==
    /\ ~Locked /\ old[r].rev = rev /\ rev \in 1 .. MaxRev - 1 /\ cur[r].rev = 0
    /\ old' = [old EXCEPT ![r] = NoRecord]
    /\ moving' = [moving EXCEPT ![r] = Record(rev + 1, done, at)]
    /\ reader' = IF reader.request = r THEN [reader EXCEPT !.moved = TRUE] ELSE reader
    /\ pruned' = NotPruned
    /\ UNCHANGED <<cur, index>>
MoveIn(r) ==
    /\ moving[r] # NoRecord
    /\ cur' = [cur EXCEPT ![r] = moving[r]]
    /\ moving' = [moving EXCEPT ![r] = NoRecord]
    /\ index' = index \cup Indexed(r, moving[r])
    /\ UNCHANGED <<old, reader, pruned>>

\* Mutant of DeleteCurrent: the index entry stays.
DeleteCurrentOnly(r, rev) ==
    /\ ~Locked /\ rev > 0 /\ cur[r].rev = rev
    /\ cur' = [cur EXCEPT ![r] = NoRecord]
    /\ Goes(r) /\ pruned' = NotPruned
    /\ UNCHANGED <<old, index, moving>>
\* compare_delete_request_record.
DeleteCurrent(r, rev) ==
    /\ ~Locked /\ rev > 0 /\ cur[r].rev = rev
    /\ cur' = [cur EXCEPT ![r] = NoRecord] /\ index' = index \ Indexed(r, cur[r])
    /\ Goes(r) /\ pruned' = NotPruned
    /\ UNCHANGED <<old, moving>>
DeleteOld(r, rev) ==
    /\ ~Locked /\ rev > 0 /\ old[r].rev = rev
    /\ old' = [old EXCEPT ![r] = NoRecord]
    /\ Goes(r) /\ pruned' = NotPruned
    /\ UNCHANGED <<cur, index, moving>>

-----------------------------------------------------------------------------
(* prune_completed_request_records, under the lock.                        *)

Prunable(x, cutoff) == x.rev > 0 /\ x.done /\ x.at < cutoff

\* Entries below the cutoff, oldest first; those of one time in the order of the
\* keys, which here is any.
Candidates(cutoff) == {e \in index : e.at < cutoff}

\* Entries the loop gets to: of those whose record is prunable, at most Limit.
Reached(cutoff, S) ==
    /\ S \subseteq Candidates(cutoff)
    /\ \A e \in S, f \in Candidates(cutoff) : f.at < e.at => f \in S
    /\ LET taken == {e \in S : Prunable(cur[e.request], cutoff)} IN
          /\ Cardinality(taken) <= Limit
          /\ Cardinality(taken) < Limit => S = Candidates(cutoff)

\* The loop over the records, for those that no entry points to: any that fit.
Leftover(cutoff, gone) ==
    {[key |-> "old", request |-> r] : r \in {r \in Requests : Prunable(old[r], cutoff)}}
    \cup {[key |-> "cur", request |-> r] : r \in {r \in Requests \ gone : Prunable(cur[r], cutoff)}}

Prune(cutoff) ==
    /\ ~Locked
    /\ \E S \in SUBSET index :
          /\ Reached(cutoff, S)
          /\ LET gone == {e.request : e \in {e \in S : Prunable(cur[e.request], cutoff)}}
                 left == Limit - Cardinality(gone)
             IN \E T \in SUBSET Leftover(cutoff, gone) :
                /\ Cardinality(T) = Min({left, Cardinality(Leftover(cutoff, gone))})
                /\ LET goneOld == {t.request : t \in {t \in T : t.key = "old"}}
                       goneCur == gone \cup {t.request : t \in {t \in T : t.key = "cur"}}
                   IN
                   /\ old' = [r \in Requests |-> IF r \in goneOld THEN NoRecord ELSE old[r]]
                   /\ cur' = [r \in Requests |-> IF r \in goneCur THEN NoRecord ELSE cur[r]]
                   /\ index' = {e \in index \ S : e.request \notin goneCur \ gone}
                   /\ pruned' = [cutoff |-> cutoff, count |-> Cardinality(gone) + Cardinality(T)]
                   /\ reader' = IF reader.request \in goneOld \cup goneCur
                                THEN [reader EXCEPT !.still = FALSE] ELSE reader
    /\ UNCHANGED moving

-----------------------------------------------------------------------------
(* load_request_record; still: the record has been there since it began.   *)

LoadCurrent(r) ==
    /\ ~reader.on
    /\ reader' = [NoReader EXCEPT !.on = (cur[r].rev = 0), !.request = r,
                                  !.still = (Here(r) \/ moving[r] # NoRecord),
                                  !.moved = (moving[r] # NoRecord)]
    /\ UNCHANGED <<old, cur, index, moving, pruned>>
LoadOld ==
    /\ reader.on
    /\ reader' = [reader EXCEPT !.on = FALSE, !.missed = (old[reader.request].rev = 0)]
    /\ UNCHANGED <<old, cur, index, moving, pruned>>
Forget ==
    /\ ~reader.on /\ reader # NoReader /\ reader' = NoReader
    /\ UNCHANGED <<old, cur, index, moving, pruned>>

Next ==
    \/ \E r \in Requests :
          \/ \E done \in BOOLEAN, at \in Times :
                \/ CreateRecord(r, done, at)
                \/ \E rev \in 1 .. MaxRev : Replace(r, rev, done, at) \/ MoveOut(r, rev, done, at)
          \/ MoveIn(r) \/ LoadCurrent(r)
          \/ \E rev \in 1 .. MaxRev : DeleteCurrent(r, rev) \/ DeleteOld(r, rev)
    \/ \E cutoff \in Times : Prune(cutoff)
    \/ LoadOld \/ Forget

Spec == Init /\ [][Next]_vars

-----------------------------------------------------------------------------
\* A request has one record at most, in one layout (create_request_record looks
\* at the old key, a move takes the record out first), and types.
TypeOK ==
    /\ \A r \in Requests : Cardinality({x \in {old[r], cur[r], moving[r]} : x.rev > 0}) <= 1
    /\ \A r \in Requests : old[r].rev <= MaxRev /\ cur[r].rev <= MaxRev
    /\ index \subseteq [at : Times, request : Requests]
    /\ pruned.count <= Limit

\* The index points to completed records, by their time: a replacement or a
\* deletion takes the entry of the value before with it.
NoEntryDangles == \A e \in index : cur[e.request].done /\ cur[e.request].at = e.at

\* A completed record written here is in the index.  One with revision 1 may be
\* one of the records the process began with.
CompletedIsIndexed ==
    \A r \in Requests : cur[r].rev > 1 /\ cur[r].done => Entry(r, cur[r]) \in index

\* A pruning that had room for more has left nothing that is older than its
\* cutoff, in either layout, indexed or not.
PruneFinishes ==
    pruned.cutoff > 0 /\ pruned.count < Limit =>
        \A r \in Requests : \A x \in {old[r], cur[r]} : x.done => x.at >= pruned.cutoff

\* Pruning takes completed records older than the cutoff and nothing else.
PruneTakesOld ==
    pruned' # pruned /\ pruned'.cutoff > 0 =>
       \A r \in Requests :
          /\ cur'[r] # cur[r] => cur[r].done /\ cur[r].at < pruned'.cutoff
          /\ old'[r] # old[r] => old[r].done /\ old[r].at < pruned'.cutoff

\* A load finds a record that was there all the time, unless it moved to the
\* current layout between the two reads.
MissesOnlyMoves == reader.missed /\ reader.still => reader.moved
=============================================================================
