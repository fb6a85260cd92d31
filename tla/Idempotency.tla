----------------------------- MODULE Idempotency -----------------------------
(***************************************************************************)
(* Idempotent allocation (service/allocation/idempotency.rs) over request  *)
(* records in etcd (metadata/etcd/request_records.rs, request_index.rs).   *)
(*                                                                         *)
(* One timeline and one client request id, tried by several attempts, at   *)
(* any worker.  The record lives under its key, or under the key of the    *)
(* layout before it (v1) until a write moves it.  A completed record has   *)
(* an entry in the cleanup index, by which it is pruned after its          *)
(* retention.  A request to etcd may be applied although its answer is     *)
(* lost: retry_etcd_request then sends it again, or gives up.              *)
(*                                                                         *)
(* Time is what it is used for: a record becomes old, that is pending for  *)
(* longer than its timeout or completed for longer than the retention.     *)
(***************************************************************************)
EXTENDS Naturals, FiniteSets, TLC

CONSTANTS
    Attempts,   \* calls with the same client request id
    Counts,     \* the counts they ask for
    Faults,     \* of "lost", "crash", "prune", "legacy"
    MaxIssued,  \* bound: allocations
    MaxRev      \* bound: revisions up to which records are created

\* The constants fit together.
IdempotencyAssumption ==
    /\ Counts # {} /\ MaxIssued \in Nat /\ MaxRev \in Nat
    /\ Faults \subseteq {"lost", "crash", "prune", "legacy"}

VARIABLES
    db,         \* the record under each key; rev = 0: none
    nrev,       \* the revision of the last write
    idx,        \* cleanup index: entries [key, stamp]
    task,       \* the attempts
    issued,     \* allocations so far
    pruner,     \* prune_completed_request_records, between two requests
    answers     \* history: responses given out, until the retention has passed

vars == <<db, nrev, idx, task, issued, pruner, answers>>

RecordKeys == {"v1", "v2"}
NoRecord == [rev |-> 0, state |-> "Pending", count |-> CHOOSE c \in Counts : TRUE,
             resp |-> 0, old |-> FALSE]
NewTask(count) == [at |-> "create", phase |-> "prepare", count |-> count, key |-> "v2",
                   rev |-> 0, stale |-> 0, resp |-> 0]
IdlePruner == [at |-> "idle", entry |-> [key |-> "v2", stamp |-> 0], key |-> "v2",
               rec |-> NoRecord]

\* A worker of an earlier version may have left a record under its key, with
\* or without an index entry.
Legacy == {NoRecord} \cup
    IF "legacy" \in Faults
    THEN {[NoRecord EXCEPT !.rev = 1, !.old = TRUE],
          [NoRecord EXCEPT !.rev = 1, !.state = "Completed", !.resp = 1]}
    ELSE {}

Init ==
    /\ \E r \in Legacy :
          /\ db = [v1 |-> r, v2 |-> NoRecord]
          /\ idx \in IF r.state = "Completed" THEN {{}, {[key |-> "v1", stamp |-> 1]}} ELSE {{}}
          /\ nrev = r.rev /\ issued = r.resp
          /\ answers = IF r.resp = 0 THEN {} ELSE {r.resp}
    /\ \E counts \in [Attempts -> Counts] : task = [a \in Attempts |-> NewTask(counts[a])]
    /\ pruner = IdlePruner

-----------------------------------------------------------------------------
(* The authority for request records.                                       *)

\* Mutant of Absent: the key of the old layout is not compared.
AbsentNew == db.v2.rev = 0
\* Fresh key in the new layout and none in the old one.
Absent == db.v1.rev = 0 /\ db.v2.rev = 0
Entry(key, r) == [key |-> key, stamp |-> r.rev]

\* create_request_record_with_index.
Put(r) ==
    LET new == [r EXCEPT !.rev = nrev + 1] IN
    /\ db' = [db EXCEPT !.v2 = new]
    /\ nrev' = nrev + 1
    /\ idx' = IF r.state = "Completed" THEN idx \cup {Entry("v2", new)} ELSE idx

\* compare_exchange_request_record_with_index, once it has matched: a record
\* of the old layout moves to the new one.
Replace(key, r) ==
    LET new == [r EXCEPT !.rev = nrev + 1] IN
    /\ db' = [db EXCEPT ![key] = NoRecord, !.v2 = new]
    /\ nrev' = nrev + 1
    /\ idx' = (idx \ {Entry(key, db[key])})
                \cup IF r.state = "Completed" THEN {Entry("v2", new)} ELSE {}
Matches(key, rev) == db[key].rev = rev /\ rev > 0 /\ (key = "v1" => db.v2.rev = 0)

\* compare_delete_request_record_with_index, once it has matched.
Delete(key) ==
    /\ db' = [db EXCEPT ![key] = NoRecord]
    /\ idx' = idx \ {Entry(key, db[key])}
    /\ UNCHANGED nrev

Store == <<db, nrev, idx>>

-----------------------------------------------------------------------------
(* An attempt.                                                              *)

To(a, label) == task' = [task EXCEPT ![a].at = label]
Fail(a) == task' = [task EXCEPT ![a] = [NewTask(NoRecord.count) EXCEPT !.at = "done"]]
Answer(a, resp) == Fail(a) /\ answers' = answers \cup {resp}

Pending(t) == [NoRecord EXCEPT !.count = t.count]
Completed(t) == [NoRecord EXCEPT !.state = "Completed", !.count = t.count, !.resp = t.resp]

\* prepare_idempotent_allocation: create a pending record.  The clock is read
\* before that, so which record it will find stale is decided here.
TryCreate(a) ==
    LET t == task[a]
        r == IF db.v2.rev > 0 THEN db.v2 ELSE db.v1
        exists(rev) == [t EXCEPT !.at = "load", !.stale = rev, !.key = "v2", !.rev = 0]
    IN  /\ t.at = "create" /\ nrev < MaxRev
        /\ \/ /\ Absent
              /\ Put(Pending(t))
              /\ task' = [task EXCEPT ![a] = [t EXCEPT !.at = "allocate", !.rev = nrev + 1, !.stale = 0]]
           \/ /\ Absent /\ "lost" \in Faults
              /\ Put(Pending(t))
              /\ task' = [task EXCEPT ![a] = exists(0)]
           \/ /\ ~Absent
              /\ task' = [task EXCEPT ![a] = exists(IF r.old THEN r.rev ELSE 0)]
              /\ UNCHANGED Store
        /\ UNCHANGED <<issued, pruner, answers>>

\* What becomes of an attempt that has found the record.
Judge(a, key, r) ==
    LET t == task[a]
        stale == t.stale = r.rev
    IN  \/ /\ r.count # t.count
           /\ Fail(a) /\ UNCHANGED answers
        \/ /\ r.count = t.count /\ r.state = "Completed"
           /\ Answer(a, r.resp)
        \/ /\ r.count = t.count /\ r.state = "Pending" /\ t.phase = "recover"
           /\ task' = [task EXCEPT ![a] = [t EXCEPT !.at = "repair", !.key = key, !.rev = r.rev]]
           /\ UNCHANGED answers
        \/ /\ r.count = t.count /\ r.state = "Pending" /\ t.phase = "prepare"
           /\ IF stale
              THEN task' = [task EXCEPT ![a] = [t EXCEPT !.at = "delete", !.key = key, !.rev = r.rev]]
              ELSE Fail(a)
           /\ UNCHANGED answers

\* load_request_record: the new key, and in another request the old one.
LoadNew(a) ==
    /\ task[a].at = "load"
    /\ IF db.v2.rev > 0 THEN Judge(a, "v2", db.v2) ELSE To(a, "loadold") /\ UNCHANGED answers
    /\ UNCHANGED <<Store, issued, pruner>>
LoadOld(a) ==
    /\ task[a].at = "loadold"
    /\ IF db.v1.rev > 0
       THEN Judge(a, "v1", db.v1)
       ELSE /\ To(a, IF task[a].phase = "prepare" THEN "create" ELSE "recreate")
            /\ UNCHANGED answers
    /\ UNCHANGED <<Store, issued, pruner>>

\* The stale pending record of another attempt goes; in any case once more.
DeleteStale(a) ==
    LET t == task[a] IN
    /\ t.at = "delete"
    /\ IF db[t.key].rev = t.rev THEN Delete(t.key) ELSE UNCHANGED Store
    /\ To(a, "create")
    /\ UNCHANGED <<issued, pruner, answers>>

\* The allocation itself.
Allocate(a) ==
    /\ task[a].at = "allocate"
    /\ \/ /\ issued < MaxIssued
          /\ issued' = issued + 1
          /\ task' = [task EXCEPT ![a].at = "complete", ![a].resp = issued + 1]
       \/ To(a, "cleanup") /\ UNCHANGED issued
    /\ UNCHANGED <<Store, pruner, answers>>

\* finish_idempotent_allocation after a failure.
Cleanup(a) ==
    LET t == task[a] IN
    /\ t.at = "cleanup"
    /\ IF db.v2.rev = t.rev THEN Delete("v2") ELSE UNCHANGED Store
    /\ Fail(a)
    /\ UNCHANGED <<issued, pruner, answers>>

\* finish_idempotent_allocation after a success.
Complete(a) ==
    LET t == task[a]
        recover == task' = [task EXCEPT ![a] = [t EXCEPT !.at = "load", !.phase = "recover", !.rev = 0]]
    IN  /\ t.at = "complete"
        /\ \/ /\ db.v2.rev = t.rev
              /\ Replace("v2", Completed(t))
              /\ \/ Answer(a, t.resp)
                 \/ "lost" \in Faults /\ recover /\ UNCHANGED answers
           \/ /\ db.v2.rev # t.rev
              /\ recover
              /\ UNCHANGED <<Store, answers>>
        /\ UNCHANGED <<issued, pruner>>

\* recover_idempotent_completion_after_cas_failure: over the pending record of
\* another attempt ...
Repair(a) ==
    LET t == task[a] IN
    /\ t.at = "repair"
    /\ \/ /\ Matches(t.key, t.rev)
          /\ Replace(t.key, Completed(t))
          /\ Answer(a, t.resp) \/ ("lost" \in Faults /\ Fail(a) /\ UNCHANGED answers)
       \/ /\ ~Matches(t.key, t.rev)
          /\ Fail(a)
          /\ UNCHANGED <<Store, answers>>
    /\ UNCHANGED <<issued, pruner>>

\* ... or in place of one that is gone.
Recreate(a) ==
    LET t == task[a] IN
    /\ t.at = "recreate"
    /\ \/ /\ Absent
          /\ Put(Completed(t))
          /\ Answer(a, t.resp) \/ ("lost" \in Faults /\ Fail(a) /\ UNCHANGED answers)
       \/ /\ ~Absent
          /\ Fail(a)
          /\ UNCHANGED <<Store, answers>>
    /\ UNCHANGED <<issued, pruner>>

\* The worker dies, or drops the call.
CrashAttempt(a) ==
    /\ "crash" \in Faults
    /\ task[a].at # "done"
    /\ Fail(a)
    /\ UNCHANGED <<Store, issued, pruner, answers>>

-----------------------------------------------------------------------------
(* Time and cleanup.                                                        *)

Age(key) ==
    /\ db[key].rev > 0 /\ ~db[key].old
    /\ db' = [db EXCEPT ![key].old = TRUE]
    /\ UNCHANGED <<nrev, idx, task, issued, pruner, answers>>

Prunable(r) == r.rev > 0 /\ r.state = "Completed" /\ r.old

\* What was answered is forgotten with the record only after its retention.
Forget(key) == answers' = IF db[key].old THEN {} ELSE answers
BeforeCutoff(e) == db[e.key].rev = e.stamp => db[e.key].old

\* prune_completed_request_records, first the index: an entry from before the
\* cutoff, and the record that load_request_record finds for it.
PruneEntry(e) ==
    /\ "prune" \in Faults /\ pruner.at = "idle" /\ e.key = "v2" /\ BeforeCutoff(e)
    /\ LET key == IF db.v2.rev > 0 THEN "v2" ELSE "v1"
       IN  pruner' = [at |-> "entry", entry |-> e, key |-> key, rec |-> db[key]]
    /\ UNCHANGED <<Store, task, issued, answers>>

\* prune_legacy_completed_request_records: the old index, the old key only.
PruneLegacyEntry(e) ==
    /\ "prune" \in Faults /\ pruner.at = "idle" /\ e.key = "v1" /\ BeforeCutoff(e)
    /\ pruner' = [at |-> "legacy", entry |-> e, key |-> "v1", rec |-> db.v1]
    /\ UNCHANGED <<Store, task, issued, answers>>

DropEntry(e) == idx' = idx \ {e} /\ UNCHANGED <<db, nrev, answers>>
PruneBoth(p) ==
    IF db[p.key].rev = p.rec.rev /\ p.entry \in idx
    THEN /\ db' = [db EXCEPT ![p.key] = NoRecord]
         /\ idx' = idx \ {p.entry}
         /\ Forget(p.key)
         /\ UNCHANGED nrev
    ELSE UNCHANGED <<Store, answers>>

\* Mutant of PruneEntryEnds: an entry without a record is left alone.
PruneEntrySkips ==
    LET p == pruner  e == p.entry
        fits == p.key = "v2" /\ p.rec.rev = e.stamp /\ Prunable(p.rec)
    IN  /\ p.at = "entry"
        /\ \/ p.rec.rev = 0 /\ UNCHANGED <<Store, answers>>
           \/ p.rec.rev > 0 /\ ~fits /\ DropEntry(e)
           \/ fits /\ PruneBoth(p)
        /\ pruner' = IdlePruner
        /\ UNCHANGED <<task, issued>>

\* No record, one of the old layout, another one or a young one: the entry
\* goes.  Otherwise the record and the entry go together.
PruneEntryEnds ==
    LET p == pruner  e == p.entry
        fits == p.key = "v2" /\ p.rec.rev = e.stamp /\ Prunable(p.rec)
    IN  /\ p.at = "entry"
        /\ \/ ~fits /\ DropEntry(e)
           \/ fits /\ PruneBoth(p)
        /\ pruner' = IdlePruner
        /\ UNCHANGED <<task, issued>>
PruneLegacyEntryEnds ==
    LET p == pruner  e == p.entry
        fits == p.rec.rev = e.stamp /\ Prunable(p.rec)
    IN  /\ p.at = "legacy"
        /\ \/ ~fits /\ DropEntry(e)
           \/ fits /\ PruneBoth(p)
        /\ pruner' = IdlePruner
        /\ UNCHANGED <<task, issued>>

\* ... then the records themselves: these are deleted without their entries.
Scan(key) ==
    /\ "prune" \in Faults /\ pruner.at = "idle" /\ Prunable(db[key])
    /\ pruner' = [IdlePruner EXCEPT !.at = "scan", !.key = key, !.rec = db[key]]
    /\ UNCHANGED <<Store, task, issued, answers>>
PruneScan == Scan("v2")
PruneLegacyScan == Scan("v1")
PruneScanEnds ==
    LET p == pruner IN
    /\ p.at = "scan"
    /\ IF db[p.key].rev = p.rec.rev
       THEN db' = [db EXCEPT ![p.key] = NoRecord] /\ Forget(p.key)
       ELSE UNCHANGED <<db, answers>>
    /\ pruner' = IdlePruner
    /\ UNCHANGED <<nrev, idx, task, issued>>

Proceed(a) ==
    \/ TryCreate(a) \/ LoadNew(a) \/ LoadOld(a) \/ DeleteStale(a) \/ Allocate(a)
    \/ Cleanup(a) \/ Complete(a) \/ Repair(a) \/ Recreate(a)

Next ==
    \/ \E a \in Attempts : Proceed(a) \/ CrashAttempt(a)
    \/ \E k \in RecordKeys : Age(k)
    \/ \E e \in idx : PruneEntry(e) \/ PruneLegacyEntry(e)
    \/ PruneEntryEnds \/ PruneLegacyEntryEnds
    \/ PruneScan \/ PruneLegacyScan \/ PruneScanEnds

Spec == Init /\ [][Next]_vars

-----------------------------------------------------------------------------
Rec == [rev : Nat, state : {"Pending", "Completed"}, count : Counts, resp : 0 .. MaxIssued,
        old : BOOLEAN]

\* A completed record has a response (completed_response treats one without as
\* an error), a pending one has none.
TypeOK ==
    /\ \A k \in RecordKeys : db[k] \in Rec /\ (db[k].state = "Completed" <=> db[k].resp > 0)
    /\ nrev \in Nat /\ issued \in 0 .. MaxIssued /\ answers \subseteq 1 .. MaxIssued
    /\ \A e \in idx : e.key \in RecordKeys /\ e.stamp \in 1 .. nrev

\* What a client was told is what it is told again (finish_idempotent_allocation
\* and its recovery, against stale records, repairs by others, lost answers and
\* moves to the new layout): every response given out is the recorded one.
ReplayGivesTheAnswer ==
    \A x \in answers :
       LET r == IF db.v2.rev > 0 THEN db.v2 ELSE db.v1
       IN  r.rev > 0 /\ r.state = "Completed" /\ r.resp = x

\* The record is under one of the keys, never under both, so that no reader
\* finds another one than the writers compare with.
OneRecord == db.v1.rev = 0 \/ db.v2.rev = 0
=============================================================================
