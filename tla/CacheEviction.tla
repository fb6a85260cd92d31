---------------------------- MODULE CacheEviction ----------------------------
(***************************************************************************)
(* The bounded cache of TimelineStates of a worker                         *)
(* (runtime/cache_eviction.rs): TimelineCacheStore.                        *)
(*                                                                         *)
(* Lookups and replacements take only the shard of the entry; insertions,  *)
(* removals and clear() hold capacity_lock, which guards the generations   *)
(* and the heap of eviction candidates.  An eviction looks at an entry and *)
(* removes it in two steps, with no shard lock between them.               *)
(*                                                                         *)
(* A candidate whose generation is not the current one of its key is       *)
(* skipped when popped and dropped by a compaction, so the model counts    *)
(* only the current ones.  Ticks are abstracted to whether the entry's     *)
(* differs from its candidate's; candidates are popped in any order.       *)
(***************************************************************************)
EXTENDS Naturals, FiniteSets, TLC

CONSTANTS
    Keys,       \* timelines
    States,     \* Arc<Mutex<TimelineState>>
    Tasks,      \* requests and background tasks
    MaxEntries  \* max_entries

None == "none"

\* The constants fit together.
CacheAssumption ==
    /\ None \notin States \cup Keys \cup Tasks
    /\ MaxEntries \in Nat \ {0}

VARIABLES
    timelines,  \* the entry of a key, or None
    touched,    \* keys whose last_access_tick is newer than the candidate's
    count,      \* entry_count
    gens,       \* keys in eviction_generations
    cands,      \* candidates of a key that carry its current generation
    lock,       \* the holder of capacity_lock
    pc, key, kind, \* where a task is, its timeline and its operation
    held,       \* the handle a task holds
    built,      \* the state a put brings along
    todo,       \* keys with a candidate the batch has not popped
    deferred,   \* keys the batch has popped and puts back
    answer,     \* of the last insertion of a task
    spared      \* history: 1 if a batch has deferred the idle entry, 2 once that batch
                \* is over, 0 again with the next access

vars == <<timelines, touched, count, gens, cands, lock, pc, key, kind, held, built, todo, deferred, answer, spared>>
entries == <<timelines, touched, count, gens, cands, spared>>
batch == <<todo, deferred>>
task == <<pc, key, kind, held, built, answer>>

Cached == {k \in Keys : timelines[k] # None}
\* Arc::strong_count(&entry.timeline) == 1.
IsIdle(k) == \A t \in Tasks : held[t] # timelines[k] /\ built[t] # timelines[k]
Spare(k) == spared' = [spared EXCEPT ![k] = IF @ = 0 /\ IsIdle(k) THEN 1 ELSE @]
BatchOver == [k \in Keys |-> IF spared[k] = 1 THEN 2 ELSE spared[k]]
Unused == {s \in States : (\A k \in Keys : timelines[k] # s) /\ (\A t \in Tasks : held[t] # s /\ built[t] # s)}
\* A new object; which of the unused ones it is makes no difference.
Fresh == {s \in Unused : s = CHOOSE u \in Unused : TRUE}

Init ==
    /\ timelines = [k \in Keys |-> None] /\ touched = {} /\ count = 0
    /\ gens = {} /\ cands = [k \in Keys |-> 0] /\ lock = None
    /\ pc = [t \in Tasks |-> "idle"] /\ key = [t \in Tasks |-> None]
    /\ kind = [t \in Tasks |-> "get"] /\ held = [t \in Tasks |-> None]
    /\ built = [t \in Tasks |-> None] /\ answer = [t \in Tasks |-> "ok"]
    /\ todo = {} /\ deferred = {} /\ spared = [k \in Keys |-> 0]

\* touch_entry: every sixteenth access takes a new tick.
TouchEntry(k) == touched' \in {touched, touched \cup {k}} /\ spared' = [spared EXCEPT ![k] = 0]

Goto(t, label) == pc' = [pc EXCEPT ![t] = label]
Answers(t, a) == answer' = [answer EXCEPT ![t] = a] /\ Goto(t, "idle")
Clone(t, s) == held' = [held EXCEPT ![t] = s]
DropHandle(t) ==
    /\ pc[t] = "idle" /\ held[t] # None
    /\ held' = [held EXCEPT ![t] = None]
    /\ UNCHANGED <<entries, batch, lock, pc, key, kind, built, answer>>

\* timeline_handle with a hit; a miss changes nothing.
TimelineHandle(t, k) ==
    /\ pc[t] = "idle" /\ held[t] = None /\ k \in Cached
    /\ TouchEntry(k) /\ Clone(t, timelines[k])
    /\ key' = [key EXCEPT ![t] = k]
    /\ UNCHANGED <<timelines, count, gens, cands, batch, lock, pc, kind, built, answer>>

\* timeline_handle_or_insert_with, and insert_timeline with its state, begin.
Begin(t, k, op) ==
    /\ pc[t] = "idle" /\ held[t] = None
    /\ key' = [key EXCEPT ![t] = k] /\ kind' = [kind EXCEPT ![t] = op]
    /\ \/ op = "get" /\ UNCHANGED built
       \/ op = "put" /\ \E s \in Fresh : built' = [built EXCEPT ![t] = s]
    /\ Goto(t, "look")
    /\ UNCHANGED <<entries, batch, lock, held, answer>>

\* What both do with an entry they find: a get takes the handle, a put replaces
\* the state and takes a new tick.
UseEntry(t) ==
    LET k == key[t] IN
    /\ IF kind[t] = "get"
       THEN /\ TouchEntry(k) /\ Clone(t, timelines[k])
            /\ UNCHANGED <<timelines, built>>
       ELSE /\ timelines' = [timelines EXCEPT ![k] = built[t]]
            /\ built' = [built EXCEPT ![t] = None]
            /\ touched' = touched \cup {k} /\ spared' = [spared EXCEPT ![k] = 0]
            /\ UNCHANGED held
    /\ Answers(t, "ok")

\* The look before the lock.
LookFirst(t) ==
    /\ pc[t] = "look"
    /\ \/ key[t] \in Cached /\ UseEntry(t)
       \/ key[t] \notin Cached /\ Goto(t, "lock") /\ UNCHANGED <<timelines, touched, spared, held, built, answer>>
    /\ UNCHANGED <<count, gens, cands, batch, lock, key, kind>>

\* capacity_lock(), the second look and the test of the capacity, which the lock
\* and the count keep true until the insertion.
TakeLock(t) ==
    /\ pc[t] = "lock" /\ lock = None
    /\ \/ key[t] \in Cached /\ UseEntry(t) /\ UNCHANGED <<batch, lock>>
       \/ /\ key[t] \notin Cached /\ count < MaxEntries
          /\ Goto(t, "insert") /\ lock' = t
          /\ UNCHANGED <<timelines, touched, spared, held, built, answer, batch>>
       \/ /\ key[t] \notin Cached /\ count >= MaxEntries
          /\ Goto(t, "evict") /\ lock' = t
          /\ todo' = {k \in Keys : cands[k] > 0} /\ deferred' = {}
          /\ UNCHANGED <<timelines, touched, spared, held, built, answer>>
    /\ UNCHANGED <<count, gens, cands, key, kind>>

\* A candidate is popped and its entry looked at: idle and not accessed since it
\* was recorded, it goes; otherwise it is deferred with the entry's tick.
LookAtCandidate(t, k) ==
    /\ pc[t] = "evict" /\ k \in todo
    /\ todo' = todo \ {k}
    /\ cands' = [cands EXCEPT ![k] = @ - 1]
    /\ IF k \in touched \/ ~IsIdle(k)
       THEN /\ deferred' = deferred \cup {k} /\ touched' = touched \ {k} /\ Spare(k)
            /\ UNCHANGED pc
       ELSE /\ Goto(t, "remove")
            /\ UNCHANGED <<deferred, touched, spared>>
    /\ UNCHANGED <<timelines, count, gens, lock, key, kind, held, built, answer>>

\* The candidate in hand: the one key with a generation that is in neither set.
InHand == {k \in gens : cands[k] = 0 /\ k \notin deferred}

\* The removal of the entry and of its generation, the deferred put back.
RemoveCandidate(t, k) ==
    /\ pc[t] = "remove" /\ k \in InHand
    /\ timelines' = [timelines EXCEPT ![k] = None] /\ touched' = touched \ {k}
    /\ spared' = [BatchOver EXCEPT ![k] = 0]
    /\ gens' = gens \ {k} /\ count' = count - 1
    /\ cands' = [c \in Keys |-> IF c \in deferred THEN cands[c] + 1 ELSE cands[c]]
    /\ todo' = {} /\ deferred' = {}
    /\ Goto(t, "insert")
    /\ UNCHANGED <<lock, key, kind, held, built, answer>>

\* The batch is through: the deferred are put back, TimelineRuntimeCacheSaturated.
Saturated(t) ==
    /\ pc[t] = "evict" /\ todo = {}
    /\ cands' = [c \in Keys |-> IF c \in deferred THEN cands[c] + 1 ELSE cands[c]]
    /\ deferred' = {} /\ lock' = None
    /\ spared' = BatchOver
    /\ built' = [built EXCEPT ![t] = None]
    /\ Answers(t, "saturated")
    /\ UNCHANGED <<timelines, touched, count, gens, todo, key, kind, held>>

\* record_eviction_candidate: ensure_eviction_generation keeps what it finds.
RecordEvictionCandidate(k) ==
    /\ gens' = gens \cup {k}
    /\ cands' = [cands EXCEPT ![k] = @ + 1]

\* Entry::Vacant: whoever inserts holds the lock, so the entry is still vacant.
Insert(t) ==
    LET k == key[t] IN
    /\ pc[t] = "insert"
    /\ \E s \in IF kind[t] = "get" THEN Fresh ELSE {built[t]} :
         /\ timelines' = [timelines EXCEPT ![k] = s]
         /\ held' = IF kind[t] = "get" THEN [held EXCEPT ![t] = s] ELSE held
    /\ built' = [built EXCEPT ![t] = None]
    /\ touched' = touched \ {k} /\ spared' = [spared EXCEPT ![k] = 0]
    /\ count' = count + 1
    /\ RecordEvictionCandidate(k)
    /\ lock' = None
    /\ Answers(t, "ok")
    /\ UNCHANGED <<batch, key, kind>>

\* Mutant of RemoveTimeline: the generation stays, and with it the candidate.
RemoveTimelineKeepsGeneration(k) ==
    /\ lock = None /\ k \in Cached
    /\ timelines' = [timelines EXCEPT ![k] = None] /\ touched' = touched \ {k} /\ spared' = [spared EXCEPT ![k] = 0]
    /\ count' = count - 1
    /\ UNCHANGED <<gens, cands, lock, batch, task>>

\* remove_timeline; without the generation the candidate is a stale one.
RemoveTimeline(k) ==
    /\ lock = None /\ k \in Cached
    /\ timelines' = [timelines EXCEPT ![k] = None] /\ touched' = touched \ {k} /\ spared' = [spared EXCEPT ![k] = 0]
    /\ gens' = gens \ {k} /\ cands' = [cands EXCEPT ![k] = 0]
    /\ count' = count - 1
    /\ UNCHANGED <<lock, batch, task>>

\* clear.
Clear ==
    /\ lock = None /\ Cached # {}
    /\ timelines' = [k \in Keys |-> None] /\ touched' = {} /\ spared' = [k \in Keys |-> 0]
    /\ gens' = {} /\ cands' = [k \in Keys |-> 0] /\ count' = 0
    /\ UNCHANGED <<lock, batch, task>>

Next ==
    \/ \E t \in Tasks :
         \/ DropHandle(t) \/ LookFirst(t) \/ TakeLock(t) \/ Saturated(t) \/ Insert(t)
         \/ \E k \in Keys :
              \/ TimelineHandle(t, k) \/ LookAtCandidate(t, k) \/ RemoveCandidate(t, k)
              \/ \E op \in {"get", "put"} : Begin(t, k, op)
    \/ Clear \/ \E k \in Keys : RemoveTimeline(k)

Spec == Init /\ [][Next]_vars

-----------------------------------------------------------------------------
\* A task holds the lock exactly in an eviction or before its insertion.
TypeOK ==
    /\ timelines \in [Keys -> States \cup {None}] /\ held \in [Tasks -> States \cup {None}]
    /\ touched \subseteq Cached /\ count \in 0 .. Cardinality(Keys)
    /\ cands \in [Keys -> 0 .. 2]
    /\ \A t \in Tasks : lock = t <=> pc[t] \in {"evict", "remove", "insert"}

\* The capacity is strict under racing insertions, and the count is the number
\* of entries whenever the lock is free, although entries come and go on four
\* paths that each adjust it (timeline_handle_or_insert_with, insert_timeline,
\* remove_timeline, try_evict_idle_entry_batch).
CapacityStrict ==
    /\ Cardinality(Cached) <= MaxEntries
    /\ lock = None => count = Cardinality(Cached)

\* No entry falls out of the eviction: with the lock free each cached entry has
\* exactly one current candidate, through deferrals, evictions, removals and
\* insertions of the same key again.  Without one it would hold its place for
\* good, with two the heap would grow (record_eviction_candidate, evict_one_idle_entry).
EveryEntryEvictable ==
    lock = None => gens = Cached /\ \A k \in Keys : cands[k] = IF k \in Cached THEN 1 ELSE 0
=============================================================================
