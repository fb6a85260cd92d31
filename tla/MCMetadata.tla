----------------------------- MODULE MCMetadata -----------------------------
(***************************************************************************)
(* The metadata stores and what is kept in them, for TLC: calls of etcd    *)
(* with retries (EtcdStore, which this module extends) and of the in-memory*)
(* store (MemoryStore, MemoryRequests), the keys (KeySpace), the status    *)
(* index and its pages (StatusIndex, StatusPages), the limit of timelines  *)
(* (CreationLimit), idempotent requests (Idempotency), the watch of routes *)
(* (RouteWatch) and the automatic failover (AutoFailover).  A behaviour    *)
(* stays in the one scenario it starts in; the variables of the components *)
(* that it leaves out stay at 0, those of EtcdStore in the initial state.  *)
(***************************************************************************)
EXTENDS EtcdStore

CONSTANTS a1, a2, a3, b1, b2

VARIABLES
    scenario,
    mStore, mLock, mPc, mWant, mTodo, mPublished, mAnswer, mWrote,
    old, cur, rIndex, moving, reader, pruned,
    first, second,
    iRevision, route, iIndex, marker, iLock, iPc, rows, iFrom, prev,
    pRecords, pCache, creating, filter, size, token, pPc, pTodo, pFrom, pGot, merged, built,
    listed, stable, changes,
    lTimelines, lLock, kept, lPc, tries, result, applied, lAnswer,
    db, nrev, idx, task, issued, pruner, answers,
    log, compacted, up, pos, next, sent, queue, lagged, cooling, wCache, load, breaks, last,
    owner, floor, renewed, expired, fIssued, named, endpoints, fresh, fIndex, cursor, fPc,
    attempted, idle, at, page, more, events

memoryVars == <<mStore, mLock, mPc, mWant, mTodo, mPublished, mAnswer, mWrote>>
requestsVars == <<old, cur, rIndex, moving, reader, pruned>>
keysVars == <<first, second>>
statusesVars == <<iRevision, route, iIndex, marker, iLock, iPc, rows, iFrom, prev>>
pagesVars == <<pRecords, pCache, creating, filter, size, token, pPc, pTodo, pFrom, pGot, merged,
                built, listed, stable, changes>>
limitVars == <<lTimelines, lLock, kept, lPc, tries, result, applied, lAnswer>>
idempotencyVars == <<db, nrev, idx, task, issued, pruner, answers>>
watchVars == <<log, compacted, up, pos, next, sent, queue, lagged, cooling, wCache, load,
                breaks, last>>
failoverVars == <<owner, floor, renewed, expired, fIssued, named, endpoints, fresh, fIndex,
                   cursor, fPc, attempted, idle, at, page, more, events>>
mcvars == <<scenario, vars, memoryVars, requestsVars, keysVars, statusesVars, pagesVars,
            limitVars, idempotencyVars, watchVars, failoverVars>>

-----------------------------------------------------------------------------
\* Calls of the timeline authority, which look at the records after a conflict.
Recovering == INSTANCE EtcdStore WITH Recovers <- TRUE, MaxAttempts <- 2

\* Three calls on two records.
Memory == INSTANCE MemoryStore WITH
    store <- mStore, lock <- mLock, pc <- mPc, want <- mWant, todo <- mTodo,
    published <- mPublished, answer <- mAnswer, wrote <- mWrote,
    Keys <- {1, 2}, Old <- {1, 2}, Calls <- {a1, a2, a3}, MaxTimelines <- 2

\* Two requests; a pruning takes one record at a time.
Requests == INSTANCE MemoryRequests WITH
    index <- rIndex, Requests <- {a1, a2}, Times <- {1, 2, 3}, Limit <- 1, MaxRev <- 2

\* Names of one and two words, times of three digits.
Keyed == INSTANCE KeySpace WITH p <- first, q <- second, MaxMs <- 4, Digits <- 3, NameLength <- 2

\* Two workers rebuild the index of two timelines under a writer, one under two.
Rebuilt == INSTANCE StatusIndex WITH
    revision <- iRevision, index <- iIndex, lock <- iLock, pc <- iPc, from <- iFrom,
    Workers <- {a1, a2}, Writers <- {b1}, NTimelines <- 2, States <- {"active", "locked"},
    Owners <- {"x"}, Batch <- 1, MaxRevision <- 2
Written == INSTANCE StatusIndex WITH
    revision <- iRevision, index <- iIndex, lock <- iLock, pc <- iPc, from <- iFrom,
    Workers <- {a1}, Writers <- {b1, b2}, NTimelines <- 2, States <- {"active", "locked"},
    Owners <- {"x"}, Batch <- 1, MaxRevision <- 3

\* A walk over the pages of a backend, while a record changes.
Listed == INSTANCE StatusPages WITH
    records <- pRecords, cache <- pCache, pc <- pPc, todo <- pTodo, from <- pFrom, got <- pGot,
    Backend <- "etcd", NKeys <- 3, Owners <- {"x", "y"}, Sizes <- {0, 1, 3},
    DefaultPageSize <- 2, MaxPageSize <- 2, MaxChanges <- 1, SeveralStates <- FALSE,
    CreateDuringList <- FALSE
Cached == INSTANCE StatusPages WITH
    records <- pRecords, cache <- pCache, pc <- pPc, todo <- pTodo, from <- pFrom, got <- pGot,
    Backend <- "memory", NKeys <- 3, Owners <- {"x"}, Sizes <- {0, 1},
    DefaultPageSize <- 2, MaxPageSize <- 2, MaxChanges <- 1, SeveralStates <- TRUE,
    CreateDuringList <- FALSE

\* Two calls for one timeline and one for another, two that try again; there is room
\* for one.
Wanted == [c \in {a1, a2, a3} |-> IF c = a3 THEN "y" ELSE "x"]
Limit == INSTANCE CreationLimit WITH
    timelines <- lTimelines, lock <- lLock, pc <- lPc, answer <- lAnswer,
    Calls <- {a1, a2, a3}, Key <- Wanted, Initial <- {"old"}, Max <- 2, Attempts <- 1
Again == INSTANCE CreationLimit WITH
    timelines <- lTimelines, lock <- lLock, pc <- lPc, answer <- lAnswer,
    Calls <- {a1, a3}, Key <- Wanted, Initial <- {"old"}, Max <- 2, Attempts <- 2

\* Three calls with one client request id; two, some for another count.
Crashes == INSTANCE Idempotency WITH
    Attempts <- {a1, a2, a3}, Counts <- {1}, Faults <- {"crash", "legacy"},
    MaxIssued <- 3, MaxRev <- 5
Counted == INSTANCE Idempotency WITH
    Attempts <- {a1, a2}, Counts <- {1, 2}, Faults <- {"lost", "crash", "legacy"},
    MaxIssued <- 3, MaxRev <- 5

\* Two, whose records are pruned.
Pruning == INSTANCE Idempotency WITH
    Attempts <- {a1, a2}, Counts <- {1}, Faults <- {"prune", "legacy", "lost"},
    MaxIssued <- 2, MaxRev <- 4

\* A watch that breaks off, and one with all the faults.
Resumed == INSTANCE RouteWatch WITH
    cache <- wCache, Faults <- {}, Count <- 2, Capacity <- 3, MaxVersion <- 4, MaxBreaks <- 2
Faulty == INSTANCE RouteWatch WITH
    cache <- wCache, Faults <- {"compact", "cancel", "decode", "burst", "ensure"},
    Count <- 2, Capacity <- 1, MaxVersion <- 3, MaxBreaks <- 2

\* Two owners and two timelines, one attempt in a pass.
Failover == INSTANCE AutoFailover WITH
    issued <- fIssued, index <- fIndex, pc <- fPc,
    NOwners <- 2, NTimelines <- 2, BatchSize <- 1, Floors <- {{}}, MaxEvents <- 1

ASSUME /\ Memory!MemoryAssumption /\ Requests!RequestsAssumption /\ Keyed!KeyAssumption
       /\ Rebuilt!IndexAssumption /\ Written!IndexAssumption /\ Limit!LimitAssumption /\ Again!LimitAssumption /\ Crashes!IdempotencyAssumption /\ Counted!IdempotencyAssumption
       /\ Pruning!IdempotencyAssumption /\ Resumed!WatchAssumption /\ Faulty!WatchAssumption
       /\ Failover!FailoverAssumption

-----------------------------------------------------------------------------
MemoryIdle ==
    /\ mStore = 0 /\ mLock = 0 /\ mPc = 0 /\ mWant = 0 /\ mTodo = 0 /\ mPublished = 0
    /\ mAnswer = 0 /\ mWrote = 0
RequestsIdle ==
    /\ old = 0 /\ cur = 0 /\ rIndex = 0 /\ moving = 0 /\ reader = 0 /\ pruned = 0
KeyedIdle ==
    /\ first = 0 /\ second = 0
StatusesIdle ==
    /\ iRevision = 0 /\ route = 0 /\ iIndex = 0 /\ marker = 0 /\ iLock = 0 /\ iPc = 0
    /\ rows = 0 /\ iFrom = 0 /\ prev = 0
PagesIdle ==
    /\ pRecords = 0 /\ pCache = 0 /\ creating = 0 /\ filter = 0 /\ size = 0 /\ token = 0
    /\ pPc = 0 /\ pTodo = 0 /\ pFrom = 0 /\ pGot = 0 /\ merged = 0 /\ built = 0 /\ listed = 0
    /\ stable = 0 /\ changes = 0
LimitIdle ==
    /\ lTimelines = 0 /\ lLock = 0 /\ kept = 0 /\ lPc = 0 /\ tries = 0 /\ result = 0
    /\ applied = 0 /\ lAnswer = 0
IdempotencyIdle ==
    /\ db = 0 /\ nrev = 0 /\ idx = 0 /\ task = 0 /\ issued = 0 /\ pruner = 0 /\ answers = 0
WatchIdle ==
    /\ log = 0 /\ compacted = 0 /\ up = 0 /\ pos = 0 /\ next = 0 /\ sent = 0 /\ queue = 0
    /\ lagged = 0 /\ cooling = 0 /\ wCache = 0 /\ load = 0 /\ breaks = 0 /\ last = 0
FailoverIdle ==
    /\ owner = 0 /\ floor = 0 /\ renewed = 0 /\ expired = 0 /\ fIssued = 0 /\ named = 0
    /\ endpoints = 0 /\ fresh = 0 /\ fIndex = 0 /\ cursor = 0 /\ fPc = 0 /\ attempted = 0
    /\ idle = 0 /\ at = 0 /\ page = 0 /\ more = 0 /\ events = 0

MCInit ==
    /\ Init
    /\ scenario \in {"etcd", "recovering", "memory", "requests", "keys", "rebuilt", "written",
                     "listed", "cached", "limit", "again", "crashes", "counted"}
    /\ scenario \notin {"etcd", "recovering"} => \A k \in Keys : store[k].rev = 0
    /\ IF scenario = "memory" THEN Memory!Init ELSE MemoryIdle
    /\ IF scenario = "requests" THEN Requests!Init ELSE RequestsIdle
    /\ IF scenario = "keys" THEN Keyed!Init ELSE KeyedIdle
    /\ CASE scenario = "rebuilt" -> Rebuilt!Init
         [] scenario = "written" -> Written!Init
         [] OTHER -> StatusesIdle
    /\ CASE scenario = "listed" -> Listed!Init
         [] scenario = "cached" -> Cached!Init
         [] OTHER -> PagesIdle
    /\ CASE scenario = "limit" -> Limit!Init
         [] scenario = "again" -> Again!Init
         [] OTHER -> LimitIdle
    /\ CASE scenario = "crashes" -> Crashes!Init
         [] scenario = "counted" -> Counted!Init
         [] OTHER -> IdempotencyIdle
    /\ WatchIdle /\ FailoverIdle

MCNext ==
    /\ UNCHANGED <<scenario, watchVars, failoverVars>>
    /\ \/ /\ scenario = "etcd" /\ Next
          /\ UNCHANGED <<memoryVars, requestsVars, keysVars, statusesVars, pagesVars, limitVars,
                         idempotencyVars>>
       \/ /\ scenario = "recovering" /\ Recovering!Next
          /\ UNCHANGED <<memoryVars, requestsVars, keysVars, statusesVars, pagesVars, limitVars,
                         idempotencyVars>>
       \/ /\ scenario = "memory" /\ Memory!Next
          /\ UNCHANGED <<vars, requestsVars, keysVars, statusesVars, pagesVars, limitVars,
                         idempotencyVars>>
       \/ /\ scenario = "requests" /\ Requests!Next
          /\ UNCHANGED <<vars, memoryVars, keysVars, statusesVars, pagesVars, limitVars,
                         idempotencyVars>>
       \/ /\ scenario = "keys" /\ Keyed!Next
          /\ UNCHANGED <<vars, memoryVars, requestsVars, statusesVars, pagesVars, limitVars,
                         idempotencyVars>>
       \/ /\ scenario = "rebuilt" /\ Rebuilt!Next
          /\ UNCHANGED <<vars, memoryVars, requestsVars, keysVars, pagesVars, limitVars,
                         idempotencyVars>>
       \/ /\ scenario = "written" /\ Written!Next
          /\ UNCHANGED <<vars, memoryVars, requestsVars, keysVars, pagesVars, limitVars,
                         idempotencyVars>>
       \/ /\ scenario = "listed" /\ Listed!Next
          /\ UNCHANGED <<vars, memoryVars, requestsVars, keysVars, statusesVars, limitVars,
                         idempotencyVars>>
       \/ /\ scenario = "cached" /\ Cached!Next
          /\ UNCHANGED <<vars, memoryVars, requestsVars, keysVars, statusesVars, limitVars,
                         idempotencyVars>>
       \/ /\ scenario = "limit" /\ Limit!Next
          /\ UNCHANGED <<vars, memoryVars, requestsVars, keysVars, statusesVars, pagesVars,
                         idempotencyVars>>
       \/ /\ scenario = "again" /\ Again!Next
          /\ UNCHANGED <<vars, memoryVars, requestsVars, keysVars, statusesVars, pagesVars,
                         idempotencyVars>>
       \/ /\ scenario = "crashes" /\ Crashes!Next
          /\ UNCHANGED <<vars, memoryVars, requestsVars, keysVars, statusesVars, pagesVars,
                         limitVars>>
       \/ /\ scenario = "counted" /\ Counted!Next
          /\ UNCHANGED <<vars, memoryVars, requestsVars, keysVars, statusesVars, pagesVars,
                         limitVars>>

MCSpec == MCInit /\ [][MCNext]_mcvars

LiveInit ==
    /\ Init
    /\ scenario \in {"recovering", "limit", "pruning", "resumed", "faulty", "failover"}
    /\ scenario \notin {"etcd", "recovering"} => \A k \in Keys : store[k].rev = 0
    /\ IF scenario = "limit" THEN Limit!Init ELSE LimitIdle
    /\ IF scenario = "pruning" THEN Pruning!Init ELSE IdempotencyIdle
    /\ CASE scenario = "resumed" -> Resumed!Init
         [] scenario = "faulty" -> Faulty!Init
         [] OTHER -> WatchIdle
    /\ IF scenario = "failover" THEN Failover!Init ELSE FailoverIdle
    /\ MemoryIdle /\ RequestsIdle /\ KeyedIdle /\ StatusesIdle /\ PagesIdle

LiveNext ==
    /\ UNCHANGED <<scenario, memoryVars, requestsVars, keysVars, statusesVars, pagesVars>>
    /\ \/ /\ scenario = "recovering" /\ Recovering!Next
          /\ UNCHANGED <<limitVars, idempotencyVars, watchVars, failoverVars>>
       \/ /\ scenario = "limit" /\ Limit!Next
          /\ UNCHANGED <<vars, idempotencyVars, watchVars, failoverVars>>
       \/ /\ scenario = "pruning" /\ Pruning!Next
          /\ UNCHANGED <<vars, limitVars, watchVars, failoverVars>>
       \/ /\ scenario = "resumed" /\ Resumed!Next
          /\ UNCHANGED <<vars, limitVars, idempotencyVars, failoverVars>>
       \/ /\ scenario = "faulty" /\ Faulty!Next
          /\ UNCHANGED <<vars, limitVars, idempotencyVars, failoverVars>>
       \/ /\ scenario = "failover" /\ Failover!Next
          /\ UNCHANGED <<vars, limitVars, idempotencyVars, watchVars>>

\* Tasks go on: calls of the stores end within their budget, the cleanup and the
\* failover run again and again, the watch reconnects and delivers.  Time passes
\* for records, leases, locks and caches.
Only(s, others) == scenario = s /\ UNCHANGED <<scenario, memoryVars, requestsVars, keysVars, statusesVars, pagesVars, others>>
Storing == Only("recovering", <<limitVars, idempotencyVars, watchVars, failoverVars>>)
Creating == Only("limit", <<vars, idempotencyVars, watchVars, failoverVars>>)
Cleaning == Only("pruning", <<vars, limitVars, watchVars, failoverVars>>)
Resuming == Only("resumed", <<vars, limitVars, idempotencyVars, failoverVars>>)
Failing == Only("faulty", <<vars, limitVars, idempotencyVars, failoverVars>>)
Moving == Only("failover", <<vars, limitVars, idempotencyVars, watchVars>>)

Going(c) ==
    \/ Storing /\ c # a3 /\ Recovering!Proceed(c)
    \/ Creating /\ Limit!Step(c)
    \/ Cleaning /\ c # a3 /\ Pruning!Proceed(c)
Aging ==
    \/ Creating /\ ~kept /\ Limit!ExpireLock
    \/ Cleaning /\ \E k \in {"v1", "v2"} : Pruning!Age(k)
    \/ Resuming /\ Resumed!CooledDown
    \/ Failing /\ Faulty!CooledDown
    \/ Moving /\ Failover!CacheRunsOut
Running ==
    \/ Cleaning /\ (Pruning!PruneEntryEnds \/ Pruning!PruneLegacyEntryEnds \/ Pruning!PruneScanEnds)
    \/ Resuming /\ Resumed!Watching
    \/ Failing /\ Faulty!Watching
    \/ Moving /\ Failover!Work
Taking ==
    \/ Cleaning /\ \E e \in idx : Pruning!PruneEntry(e) \/ Pruning!PruneLegacyEntry(e)
    \/ Resuming /\ Resumed!Looping
    \/ Failing /\ Faulty!Looping
Looking ==
    \/ Cleaning /\ (Pruning!PruneScan \/ Pruning!PruneLegacyScan)
    \/ Resuming /\ Resumed!Loading
    \/ Failing /\ Faulty!Loading
LiveSpec ==
    /\ LiveInit /\ [][LiveNext]_mcvars
    /\ \A c \in {a1, a2, a3} : WF_mcvars(Going(c))
    /\ WF_mcvars(Aging) /\ WF_mcvars(Running) /\ WF_mcvars(Taking) /\ WF_mcvars(Looking)
    /\ \A t \in 1 .. 2 : WF_mcvars(Moving /\ Failover!LeaseRunsOut(t))

-----------------------------------------------------------------------------
\* The steps of the stores keep their promises: etcd replaces the two records of a
\* batch together (compare_exchange_generators); every step of the in-memory store is one of
\* RecordStore or none and of one call's batch, and one of etcd's limited creation one of LimitedCreation,
\* although leases run out under their holders and answers are lost
\* (create_timeline_with_limit); an index that is current is not deleted again
\* (rebuild_timeline_status_indexes_with_lock); pruning takes completed records
\* older than the cutoff and nothing else (prune_completed_request_records).
StepsKeepPromises ==
    [][/\ scenario = "etcd" => BatchTogether
       /\ scenario = "memory" => Memory!PromisedStep /\ Memory!TypeOK /\ Memory!BatchesApart
       /\ scenario = "limit" => Limit!TypeOK /\ Limit!PromisedStep
       /\ scenario = "again" => Again!PromisedStep
       /\ scenario = "rebuilt" => Rebuilt!MarkerStays
       /\ scenario = "requests" => Requests!PruneTakesOld]_mcvars

\* What a caller is told is true and stays so: a call that is sent several times,
\* and applied late, is applied once, ok is said with the revision of its own puts,
\* and a lost answer alone is no conflict (retry_etcd_request, the recovery of
\* timeline calls); a client that repeats a request is told what it was told before
\* (finish_idempotent_allocation), from a record under one key.
AnswersAreTrue ==
    /\ TypeOK /\ AppliedOnce /\ OkIsOwn
    /\ scenario = "recovering" => Recovering!ConflictIsReal
    /\ scenario = "crashes" => Crashes!TypeOK /\ Crashes!ReplayGivesTheAnswer /\ Crashes!OneRecord
    /\ scenario = "counted" => Counted!ReplayGivesTheAnswer /\ Counted!OneRecord

\* The in-memory records and their cleanup index fit together, through moves to the
\* new layout and prunings: a request has one record, entries point to completed
\* records and each of them has one, a pruning with room for more leaves nothing
\* behind, and a load misses a record only while it moves (memory/requests.rs).
IndexFitsRecords ==
    scenario = "requests" =>
        /\ Requests!TypeOK /\ Requests!NoEntryDangles /\ Requests!CompletedIsIndexed
        /\ Requests!PruneFinishes /\ Requests!MissesOnlyMoves

\* Different things have different keys, whatever separators their names hold, and a
\* scan of a prefix or up to a cutoff meets exactly the keys it is meant for
\* (keyspace.rs).
KeysApart ==
    scenario = "keys" =>
        /\ Keyed!RequestsApart /\ Keyed!OldKeysOfOneRequest /\ Keyed!CutoffIsExact
        /\ Keyed!PrefixesApart /\ Keyed!OwnersApart

\* Once the marker is set every timeline is under its state and its owner with its
\* current record and nowhere else, whatever writers did during the rebuild, and
\* before that nothing wrong is in the index
\* (rebuild_timeline_status_indexes_with_lock and the write transactions).
MarkedIndexExact ==
    /\ scenario = "rebuilt" => Rebuilt!TypeOK /\ Rebuilt!MarkedIndexExact /\ Rebuilt!RebuiltIndexSound
    /\ scenario = "written" => Written!MarkedIndexExact /\ Written!RebuiltIndexSound

\* The pages give the timelines in order and none twice, and a walk to the last page
\* has every one that matched the filter all the time
\* (list_timelines_by_status_filter_page and the page token).
WalkComplete ==
    /\ scenario = "listed" => Listed!TypeOK /\ Listed!ListedInOrder /\ Listed!WalkComplete
    /\ scenario = "cached" => Cached!ListedInOrder /\ Cached!WalkComplete

\* What has to come about does, in the end and for good: calls of the store are
\* answered, after four attempts at most; the lock of a creation comes free,
\* although its call was dropped or its revocation failed; completed records are
\* pruned, with or without an index entry, and no entry is left; the cache has the
\* newest route or none once a watch that broke off has resumed, whose signals are
\* in the order of the revisions, and a watch that ended for whatever reason comes
\* back; a timeline whose owner no longer renews its generator's lease is taken
\* over, whatever else there is to try.
EverythingSettles ==
    /\ [](/\ scenario = "resumed" => Resumed!TypeOK /\ Resumed!SignalsAscend
          /\ scenario = "failover" => Failover!TypeOK)
    /\ <>[](CASE scenario = "recovering" -> \A c \in Calls : pc[c] \in {"load", "done"}
              [] scenario = "limit" -> lLock = "free"
              [] scenario = "pruning" -> idx = {} /\ \A k \in DOMAIN db : db[k].state # "Completed"
              [] scenario = "resumed" -> \A t \in DOMAIN wCache : wCache[t] \in {0, Resumed!Newest(t)}
              [] scenario = "faulty" -> up
              [] scenario = "failover" ->
                    \A t \in DOMAIN owner : owner[t] \in named /\ t \in fIssued => t \in renewed)
=============================================================================
