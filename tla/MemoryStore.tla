------------------------------ MODULE MemoryStore ------------------------------
(***************************************************************************)
(* The records of MemoryMetadataStore (metadata/memory.rs): concurrent     *)
(* maps whose entries are read and written one at a time, a lock for       *)
(* compare-and-swap that creation and reading do not take.  The cached key *)
(* list is in StatusPages.                                                 *)
(***************************************************************************)
EXTENDS Naturals, FiniteSets, FiniteSetsExt, TLC

CONSTANTS
    Keys, Old,  \* keys of the records; those that may exist at first
    Calls,      \* tasks that write
    MaxTimelines

\* The constants fit together.
MemoryAssumption == Old \subseteq Keys /\ MaxTimelines \in Nat

VARIABLES
    store, lock,   \* records: key -> [val, rev]; who holds timeline_cas_lock
    pc, want,      \* a call: where it is, key -> revision it replaces (0: creates)
    todo,          \* keys the loop of a batch has still to look at or to write
    published,     \* calls whose route update was sent
    answer, wrote  \* what the call returned, the keys it has written

vars == <<store, lock, pc, want, todo, published, answer, wrote>>

NoKeys == [k \in {} |-> 0]
Free == "free"
\* Keys with a record.
Existing == {k \in Keys : store[k].rev > 0}

Init ==
    /\ \E K \in SUBSET Old : store = [k \in Keys |-> [val |-> "start", rev |-> IF k \in K THEN 1 ELSE 0]]
    /\ lock = Free
    /\ pc = [c \in Calls |-> "load"] /\ want = [c \in Calls |-> NoKeys]
    /\ todo = [c \in Calls |-> {}] /\ published = {}
    /\ answer = [c \in Calls |-> "none"] /\ wrote = [c \in Calls |-> {}]

Goto(c, label) == pc' = [pc EXCEPT ![c] = label]
Return(c, what) == Goto(c, "done") /\ answer' = [answer EXCEPT ![c] = what]
Unlock(c) == lock' = IF lock = c THEN Free ELSE lock

\* load_timeline, load_generator.
Load(c, k) ==
    /\ pc[c] = "load" /\ k \notin DOMAIN want[c]
    /\ store[k].rev = 0 => want[c] = NoKeys
    /\ \A j \in DOMAIN want[c] : want[c][j] # 0
    /\ want' = [want EXCEPT ![c] = @ @@ (k :> store[k].rev)]
    /\ UNCHANGED <<store, lock, pc, todo, published, answer, wrote>>

Creates(c) == \E k \in DOMAIN want[c] : want[c][k] = 0
TheKey(c) == CHOOSE k \in DOMAIN want[c] : TRUE

\* The call: create_timeline takes no lock, create_timeline_with_limit and the
\* compare-and-swaps do.
Begin(c, limited) ==
    /\ pc[c] = "load" /\ want[c] # NoKeys
    /\ limited => Creates(c)
    /\ Goto(c, IF Creates(c) /\ ~limited THEN "create" ELSE IF limited THEN "limit" ELSE "lock")
    /\ UNCHANGED <<store, lock, want, todo, published, answer, wrote>>

Put(c, k) ==
    /\ store' = [store EXCEPT ![k] = [val |-> c, rev |-> @.rev + 1]]
    /\ wrote' = [wrote EXCEPT ![c] = @ \cup {k}]

\* Mutant of CreateEntry: the entry is replaced when there is one.
CreateEntryAnyway(c) ==
    LET k == TheKey(c) IN
    /\ pc[c] \in {"create", "create locked"}
    /\ Put(c, k) /\ Goto(c, "publish") /\ UNCHANGED <<answer, lock>>
    /\ UNCHANGED <<want, todo, published>>
\* create_entry: the entry is there already, or it is inserted.
CreateEntry(c) ==
    LET k == TheKey(c) IN
    /\ pc[c] \in {"create", "create locked"}
    /\ IF store[k].rev > 0
       THEN Return(c, "conflict") /\ Unlock(c) /\ UNCHANGED <<store, wrote>>
       ELSE Put(c, k) /\ Goto(c, "publish") /\ UNCHANGED <<answer, lock>>
    /\ UNCHANGED <<want, todo, published>>

\* create_timeline_with_limit, up to the insertion.
LimitedCreate(c) ==
    /\ pc[c] = "limit" /\ lock = Free
    /\ IF store[TheKey(c)].rev > 0 THEN Return(c, "conflict") /\ UNCHANGED lock
       ELSE IF Cardinality(Existing) >= MaxTimelines THEN Return(c, "error") /\ UNCHANGED lock
       ELSE lock' = c /\ Goto(c, "create locked") /\ UNCHANGED answer
    /\ UNCHANGED <<store, want, todo, published, wrote>>

\* timeline_cas_lock, generator_cas_lock: compare_exchange_timeline is a batch of
\* one.
TakeLock(c) ==
    /\ pc[c] = "lock" /\ lock = Free
    /\ lock' = c
    /\ todo' = [todo EXCEPT ![c] = DOMAIN want[c]]
    /\ Goto(c, "compare")
    /\ UNCHANGED <<store, want, published, answer, wrote>>

\* The first loop of a batch, and the comparison of a single call.
Compare(c) ==
    /\ pc[c] = "compare"
    /\ \E k \in todo[c] :
          IF store[k].rev # want[c][k]
          THEN /\ Return(c, "conflict") /\ Unlock(c)
               /\ todo' = [todo EXCEPT ![c] = {}]
          ELSE LET rest == todo[c] \ {k} IN
               /\ Goto(c, IF rest = {} THEN "write" ELSE "compare")
               /\ todo' = [todo EXCEPT ![c] = IF rest = {} THEN DOMAIN want[c] ELSE rest]
               /\ UNCHANGED <<lock, answer>>
    /\ UNCHANGED <<store, want, published, wrote>>

\* The second loop, one entry at a time.
WriteEntry(c) ==
    /\ pc[c] = "write"
    /\ \E k \in todo[c] :
          /\ Put(c, k)
          /\ todo' = [todo EXCEPT ![c] = @ \ {k}]
          /\ Goto(c, IF todo[c] = {k} THEN "publish" ELSE "write")
    /\ UNCHANGED <<lock, want, published, answer>>

\* collect_timeline_route_update and publish_route_update: every call here
\* changes the route.
Publish(c) ==
    /\ pc[c] = "publish"
    /\ published' = published \cup {c}
    /\ Return(c, "ok") /\ Unlock(c)
    /\ UNCHANGED <<store, want, todo, wrote>>

\* The steps of a call; those of the generator records are the same without
\* route updates.
Proceed(c) ==
    \/ CreateEntry(c) \/ LimitedCreate(c) \/ TakeLock(c) \/ Compare(c)
    \/ WriteEntry(c) \/ Publish(c)

Next ==
    \/ \E c \in Calls : \/ Proceed(c) \/ \E limited \in BOOLEAN : Begin(c, limited)
                        \/ \E k \in Keys : Load(c, k)
    \/ (\A c \in Calls : pc[c] = "done") /\ UNCHANGED vars

Spec == Init /\ [][Next]_vars

-----------------------------------------------------------------------------
\* Whoever compares holds the lock, a route update is sent only of what
\* was written, and before the call returns.
TypeOK ==
    /\ lock \in Calls \cup {Free}
    /\ \A c \in Calls :
          /\ DOMAIN want[c] \subseteq Keys /\ todo[c] \subseteq DOMAIN want[c]
          /\ pc[c] \in {"compare", "create locked"} => lock = c
          /\ c \in published => wrote[c] = DOMAIN want[c]
          /\ answer[c] = "ok" => c \in published

\* The promise of the authorities: no update is lost, ok and conflict are true.
Promise == INSTANCE RecordStore WITH
    want <- [c \in Calls |-> IF pc[c] = "load" THEN NoKeys ELSE want[c]]
\* A step of the calls is a step of the promise or none.
PromisedStep == Promise!Next \/ UNCHANGED Promise!vars

\* Batches do not mix: what a batch has compared is still so when it writes.
BatchesApart ==
    \A c \in Calls : pc[c] = "write" => \A k \in todo[c] : store[k].rev = want[c][k]
=============================================================================
