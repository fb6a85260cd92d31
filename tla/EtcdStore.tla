------------------------------- MODULE EtcdStore -------------------------------
(***************************************************************************)
(* The calls of EtcdMetadataStore (metadata/etcd/json.rs, retry.rs,        *)
(* generator.rs, timeline.rs and status_index.rs): a transaction that      *)
(* compares the mod_revision of each key and puts them all, sent up to     *)
(* four times within a budget.  An attempt that seems to have failed may   *)
(* have been applied, or be applied later.                                 *)
(*                                                                         *)
(* Timelines ask for their record first and again after a failed           *)
(* comparison (Recovers); generators do not.                               *)
(***************************************************************************)
EXTENDS Naturals, FiniteSets

CONSTANTS
    Keys, Calls,
    Recovers,      \* the calls of the timeline authority, not the generator one
    MaxAttempts    \* ETCD_REQUEST_MAX_ATTEMPTS

VARIABLES
    store, head,   \* etcd: key -> [val, rev], its revision
    pc, want,      \* a call: where it is, key -> previous_revision
    attempt,       \* the attempt of the request it is in
    reply,         \* what etcd did for this attempt: "none", "yes" or "no"
    seen,          \* the keys whose record a timeline call has loaded itself
    wire,          \* abandoned attempts that etcd may still apply
    answer, got,   \* what the caller is told, the revision of an ok
    wrote, times   \* history: the revision of the call's puts, how often they were made

vars == <<store, head, pc, want, attempt, reply, seen, wire, answer, got, wrote, times>>

NoKeys == [k \in {} |-> 0]
None == "start"

ASSUME CallsAssumption == None \notin Calls /\ MaxAttempts \in Nat \ {0}

Init ==
    /\ store \in [Keys -> [val : {None}, rev : {0, 1}]] /\ head = 1
    /\ pc = [c \in Calls |-> "load"] /\ want = [c \in Calls |-> NoKeys]
    /\ attempt = [c \in Calls |-> 1] /\ reply = [c \in Calls |-> "none"]
    /\ seen = [c \in Calls |-> {}] /\ wire = [c \in Calls |-> 0]
    /\ answer = [c \in Calls |-> "none"] /\ got = [c \in Calls |-> 0]
    /\ wrote = [c \in Calls |-> 0] /\ times = [c \in Calls |-> 0]

etcd == <<store, head, wrote, times>>
Goto(c, label) == pc' = [pc EXCEPT ![c] = label]

\* get_json_record by the caller: the revision it will give.
Load(c, k) ==
    /\ pc[c] = "load" /\ k \notin DOMAIN want[c]
    /\ store[k].rev = 0 => want[c] = NoKeys
    /\ \A j \in DOMAIN want[c] : want[c][j] # 0
    /\ want' = [want EXCEPT ![c] = [j \in DOMAIN @ \cup {k} |->
                                        IF j = k THEN store[k].rev ELSE @[j]]]
    /\ UNCHANGED <<pc, attempt, reply, seen, wire, answer, got>> /\ UNCHANGED etcd

Creates(c) == \E k \in DOMAIN want[c] : want[c][k] = 0

\* create_generator, compare_exchange_generator and compare_exchange_generators,
\* and the same of timelines, which load the records first.
Begin(c) ==
    /\ pc[c] = "load" /\ want[c] # NoKeys
    /\ Goto(c, IF Recovers /\ ~Creates(c) THEN "check" ELSE "send")
    /\ UNCHANGED <<want, attempt, reply, seen, wire, answer, got>> /\ UNCHANGED etcd

Finish(c, what, rev) ==
    /\ Goto(c, "done")
    /\ answer' = [answer EXCEPT ![c] = what]
    /\ got' = [got EXCEPT ![c] = rev]
    /\ attempt' = [attempt EXCEPT ![c] = 1]
    /\ reply' = [reply EXCEPT ![c] = "none"]
    /\ seen' = [seen EXCEPT ![c] = {}]

\* The call loads one more of its records; after the last one it goes on.
See(c, k, label) ==
    /\ seen' = [seen EXCEPT ![c] = IF @ \cup {k} = DOMAIN want[c] THEN {} ELSE @ \cup {k}]
    /\ IF seen[c] \cup {k} = DOMAIN want[c] THEN Goto(c, label) ELSE UNCHANGED pc
    /\ UNCHANGED <<attempt, reply, answer, got>>

\* The revisions at the start of compare_exchange_timeline_with_indexes.
Check(c) ==
    /\ pc[c] = "check"
    /\ \E k \in DOMAIN want[c] \ seen[c] :
          IF store[k].rev = want[c][k] THEN See(c, k, "send") ELSE Finish(c, "conflict", 0)
    /\ UNCHANGED <<want, wire>> /\ UNCHANGED etcd

Send(c) ==
    /\ pc[c] = "send"
    /\ Goto(c, "wait")
    /\ UNCHANGED <<want, attempt, reply, seen, wire, answer, got>> /\ UNCHANGED etcd

\* The comparisons of the transaction.
Compares(c) == \A k \in DOMAIN want[c] : store[k].rev = want[c][k]

\* Mutant of Transact: only the first put is made.
TransactOne(c) ==
    IF Compares(c)
    THEN /\ head' = head + 1
         /\ store' = [store EXCEPT ![CHOOSE k \in DOMAIN want[c] : TRUE] = [val |-> c, rev |-> head + 1]]
         /\ wrote' = [wrote EXCEPT ![c] = head + 1]
         /\ times' = [times EXCEPT ![c] = @ + 1]
    ELSE UNCHANGED etcd
\* etcd applies a transaction: all puts, with one revision, or none.
Transact(c) ==
    IF Compares(c)
    THEN /\ head' = head + 1
         /\ store' = [k \in Keys |-> IF k \in DOMAIN want[c] THEN [val |-> c, rev |-> head + 1] ELSE store[k]]
         /\ wrote' = [wrote EXCEPT ![c] = head + 1]
         /\ times' = [times EXCEPT ![c] = @ + 1]
    ELSE UNCHANGED etcd

Apply(c) ==
    /\ pc[c] = "wait" /\ reply[c] = "none"
    /\ Transact(c)
    /\ reply' = [reply EXCEPT ![c] = IF Compares(c) THEN "yes" ELSE "no"]
    /\ UNCHANGED <<pc, want, attempt, seen, wire, answer, got>>
ApplyLate(c) ==
    /\ wire[c] > 0
    /\ Transact(c)
    /\ wire' = [wire EXCEPT ![c] = @ - 1]
    /\ UNCHANGED <<pc, want, attempt, reply, seen, answer, got>>
LoseLate(c) ==
    /\ wire[c] > 0
    /\ wire' = [wire EXCEPT ![c] = @ - 1]
    /\ UNCHANGED <<pc, want, attempt, reply, seen, answer, got>> /\ UNCHANGED etcd

\* Mutant of Respond: the revision etcd has now is taken for that of the put.
RespondHead(c) ==
    /\ pc[c] = "wait" /\ reply[c] # "none"
    /\ IF reply[c] = "yes" THEN Finish(c, "ok", head) ELSE Finish(c, "conflict", 0)
    /\ UNCHANGED <<want, wire>> /\ UNCHANGED etcd
\* The response arrives: extract_put_revision, or a failed comparison.
Respond(c) ==
    /\ pc[c] = "wait" /\ reply[c] # "none"
    /\ IF reply[c] = "yes" THEN Finish(c, "ok", wrote[c])
       ELSE IF Recovers /\ ~Creates(c)
       THEN Goto(c, "recover") /\ UNCHANGED <<attempt, reply, seen, answer, got>>
       ELSE Finish(c, "conflict", 0)
    /\ UNCHANGED <<want, wire>> /\ UNCHANGED etcd

\* Mutant of Recover: the request is sent again.
RecoverResend(c) ==
    /\ pc[c] = "recover"
    /\ Goto(c, "send")
    /\ reply' = [reply EXCEPT ![c] = "none"]
    /\ UNCHANGED <<want, attempt, seen, wire, answer, got>> /\ UNCHANGED etcd

\* The records after a failed comparison: they are the ones to be written, so an
\* earlier attempt of this call was applied.
Recover(c) ==
    /\ pc[c] = "recover"
    /\ \E k \in DOMAIN want[c] \ seen[c] :
          IF store[k].val # c THEN Finish(c, "conflict", 0)
          ELSE IF seen[c] \cup {k} = DOMAIN want[c] THEN Finish(c, "ok", store[k].rev)
          ELSE See(c, k, "recover")
    /\ UNCHANGED <<want, wire>> /\ UNCHANGED etcd

\* retry_etcd_request after a retryable error: the next attempt, or the error of
\* the last one.
Retry(c) ==
    IF attempt[c] < MaxAttempts
    THEN /\ attempt' = [attempt EXCEPT ![c] = @ + 1]
         /\ reply' = [reply EXCEPT ![c] = "none"]
         /\ Goto(c, "send")
         /\ UNCHANGED <<seen, answer, got>>
    ELSE Finish(c, "error", 0)

\* The attempt fails for the caller, with its transaction applied, lost or still
\* on its way.
Abandon(c) ==
    /\ pc[c] = "wait"
    /\ wire' = [wire EXCEPT ![c] = IF reply[c] = "none" THEN @ + 1 ELSE @]
    /\ UNCHANGED want /\ UNCHANGED etcd
AttemptFails(c) == Abandon(c) /\ Retry(c)
\* The budget is used up, or the error is not retryable.
GiveUp(c) == Abandon(c) /\ Finish(c, "error", 0)
\* A load of the call itself fails.
LoadFails(c) ==
    /\ pc[c] \in {"check", "recover"}
    /\ Finish(c, "error", 0)
    /\ UNCHANGED <<want, wire>> /\ UNCHANGED etcd

Proceed(c) ==
    \/ Begin(c) \/ Check(c) \/ Send(c) \/ Apply(c) \/ Respond(c) \/ Recover(c) \/ AttemptFails(c)
    \/ GiveUp(c) \/ LoadFails(c)

Next ==
    \/ \E c \in Calls : Proceed(c) \/ ApplyLate(c) \/ LoseLate(c) \/ \E k \in Keys : Load(c, k)
    \/ (\A c \in Calls : pc[c] = "done" /\ wire[c] = 0) /\ UNCHANGED vars

Spec == Init /\ [][Next]_vars

-----------------------------------------------------------------------------
\* No more attempts than the limit are made or left on the wire, and no reply
\* outlives its request (retry_etcd_request).
TypeOK ==
    /\ \A k \in Keys : store[k].rev \in 0 .. head /\ store[k].val \in Calls \cup {None}
    /\ \A c \in Calls :
          /\ DOMAIN want[c] \subseteq Keys
          /\ attempt[c] \in 1 .. MaxAttempts /\ wire[c] \in 0 .. MaxAttempts
          /\ reply[c] # "none" => pc[c] \in {"wait", "recover"}
          /\ answer[c] # "none" <=> pc[c] = "done"

\* A call is applied once at most, however often it was sent and however late
\* etcd applies what was abandoned.
AppliedOnce == \A c \in Calls : times[c] <= 1

\* The revision of an ok is that of the call's own puts.
OkIsOwn == \A c \in Calls : answer[c] = "ok" => wrote[c] # 0 /\ got[c] = wrote[c]

\* A timeline call that reports a conflict has not written, or what it wrote has
\* been replaced meanwhile: a lost answer alone is no conflict.
ConflictIsReal ==
    Recovers => \A c \in Calls : answer[c] = "conflict" /\ ~Creates(c) =>
        \E k \in DOMAIN want[c] : store[k].val # c

\* The two records of a batch are replaced together.
BatchTogether ==
    \A c \in Calls : wrote'[c] # wrote[c] =>
        \A k \in DOMAIN want[c] : store'[k] = [val |-> c, rev |-> wrote'[c]]

\* The promise of the authorities.
Promise == INSTANCE RecordStore WITH
    want <- [c \in Calls |-> IF pc[c] = "load" THEN NoKeys ELSE want[c]],
    wrote <- [c \in Calls |-> IF wrote[c] = 0 THEN {} ELSE DOMAIN want[c]]
\* Every step of the calls is a step of the promise or none.
PromisedStep == Promise!Next \/ UNCHANGED Promise!vars
Promised == Promise!Init /\ [][vars' = vars \/ PromisedStep]_vars
=============================================================================
