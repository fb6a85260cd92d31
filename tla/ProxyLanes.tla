------------------------------ MODULE ProxyLanes ------------------------------
(***************************************************************************)
(* The lanes that serialise the allocations of a timeline                  *)
(* (timeline_proxy.rs): TimelineScopedAllocator.                           *)
(*                                                                         *)
(* A request leases the TimelineSerializer of its timeline, or reserves a  *)
(* slot and inserts one, or prunes an idle one first; it then holds the    *)
(* serializer's mutex for its allocation, and a timeout may end it while   *)
(* it waits or allocates.  The lease and the pruning of a serializer each  *)
(* run under its lifecycle lock and are one step; everything else that     *)
(* another request can see is a step of its own.                           *)
(***************************************************************************)
EXTENDS Naturals, Sequences, FiniteSets, TLC

CONSTANTS
    Keys,           \* timelines
    Lanes,          \* TimelineSerializer objects
    Requests,       \* calls of allocate_timestamps_with_timeout
    MaxSerializers, \* max_serializers
    MaxQueue        \* bound: with more idle entries than this only a request that
                    \* finds no lane starts, and only alone

None == "none"

\* The constants fit together.
ProxyAssumption ==
    /\ None \notin Keys \cup Lanes \cup Requests
    /\ MaxSerializers \in Nat \ {0} /\ MaxQueue \in Nat

VARIABLES
    serializers,    \* timeline_serializers
    active,         \* active_references of a lane
    mutex,          \* the holder of a lane's mutex
    slots,          \* serializer_slots
    idle,           \* idle_serializers
    pc, key,        \* where a request is, and its timeline
    lane,           \* the lane it has looked up or leased
    after,          \* where it goes when lease_existing_serializer finds none
    seen,           \* the slots it has read
    attempts,       \* what is left of try_prune_idle_candidates
    victim, target  \* the key it has popped and the lane found for it

vars == <<serializers, active, mutex, slots, idle, pc, key, lane, after, seen, attempts, victim, target>>
shared == <<serializers, active, mutex, slots, idle>>
pruning == <<attempts, victim, target>>
mine == <<key, lane, after, seen, pruning>>

Init ==
    /\ serializers = [k \in Keys |-> None] /\ active = [l \in Lanes |-> 0]
    /\ mutex = [l \in Lanes |-> None] /\ slots = 0 /\ idle = <<>>
    /\ pc = [r \in Requests |-> "idle"] /\ key = [r \in Requests |-> None]
    /\ lane = [r \in Requests |-> None] /\ after = [r \in Requests |-> None]
    /\ seen = [r \in Requests |-> 0] /\ attempts = [r \in Requests |-> 0]
    /\ victim = [r \in Requests |-> None] /\ target = [r \in Requests |-> None]

Existing == {k \in Keys : serializers[k] # None}
Unused ==
    {l \in Lanes : (\A k \in Keys : serializers[k] # l) /\ (\A r \in Requests : lane[r] # l /\ target[r] # l)}
\* A new object; which of the unused ones it is makes no difference.
Fresh == {l \in Unused : l = CHOOSE u \in Unused : TRUE}
Goto(r, label) == pc' = [pc EXCEPT ![r] = label]
Ended(r) == pc[r] = "idle"
\* The locals of a request that ends are gone.
End(r) == key' = [key EXCEPT ![r] = None] /\ after' = [after EXCEPT ![r] = None] /\ Goto(r, "idle")

Start(r, k) ==
    /\ Ended(r)
    /\ \/ Len(idle) + Cardinality({q \in Requests : ~Ended(q)}) < MaxQueue
       \/ k \notin Existing /\ \A q \in Requests : Ended(q)
    /\ key' = [key EXCEPT ![r] = k]
    /\ after' = [after EXCEPT ![r] = "slots"]
    /\ Goto(r, "lookup")
    /\ UNCHANGED <<shared, lane, seen, pruning>>

\* lease_existing_serializer up to the lifecycle lock.
LookUp(r) ==
    /\ pc[r] = "lookup"
    /\ lane' = [lane EXCEPT ![r] = serializers[key[r]]]
    /\ Goto(r, IF serializers[key[r]] = None THEN after[r] ELSE "lease")
    /\ UNCHANGED <<shared, key, after, seen, pruning>>

\* serializer_still_current and the reference, under the lifecycle lock.
Lease(r) ==
    /\ pc[r] = "lease"
    /\ \/ /\ serializers[key[r]] = lane[r]
          /\ active' = [active EXCEPT ![lane[r]] = @ + 1]
          /\ after' = [after EXCEPT ![r] = None]
          /\ Goto(r, "wait") /\ UNCHANGED lane
       \/ /\ serializers[key[r]] # lane[r]
          /\ lane' = [lane EXCEPT ![r] = None]
          /\ Goto(r, after[r]) /\ UNCHANGED <<active, after>>
    /\ UNCHANGED <<serializers, mutex, slots, idle, key, seen, pruning>>

\* The top of the loop of serializer_for; at the limit an existing lane is tried
\* again before one is pruned.
ReadSlots(r) ==
    /\ pc[r] = "slots"
    /\ \/ slots < MaxSerializers /\ seen' = [seen EXCEPT ![r] = slots] /\ Goto(r, "reserve") /\ UNCHANGED after
       \/ slots >= MaxSerializers /\ after' = [after EXCEPT ![r] = "attempts"] /\ Goto(r, "lookup") /\ UNCHANGED seen
    /\ UNCHANGED <<shared, key, lane, pruning>>

\* Mutant of Reserve: a store instead of the compare_exchange.
ReserveBlind(r) ==
    /\ pc[r] = "reserve"
    /\ slots' = seen[r] + 1 /\ Goto(r, "entry")
    /\ UNCHANGED <<serializers, active, mutex, idle, mine>>

Reserve(r) ==
    /\ pc[r] = "reserve"
    /\ \/ slots = seen[r] /\ slots' = slots + 1 /\ Goto(r, "entry")
       \/ slots # seen[r] /\ Goto(r, "slots") /\ UNCHANGED slots
    /\ seen' = [seen EXCEPT ![r] = 0]
    /\ UNCHANGED <<serializers, active, mutex, idle, key, lane, after, pruning>>

\* entry(): the lane is inserted, already referenced, or another was faster.
Enter(r) ==
    /\ pc[r] = "entry"
    /\ \/ /\ key[r] \notin Existing
          /\ \E l \in Fresh :
               /\ serializers' = [serializers EXCEPT ![key[r]] = l]
               /\ active' = [active EXCEPT ![l] = 1]
               /\ lane' = [lane EXCEPT ![r] = l]
          /\ Goto(r, "wait")
       \/ key[r] \in Existing /\ Goto(r, "unreserve") /\ UNCHANGED <<serializers, active, lane>>
    /\ UNCHANGED <<mutex, slots, idle, key, after, seen, pruning>>

\* The slot is given back and the lane of the other is leased.
Unreserve(r) ==
    /\ pc[r] = "unreserve"
    /\ slots' = slots - 1
    /\ after' = [after EXCEPT ![r] = "slots"] /\ Goto(r, "lookup")
    /\ UNCHANGED <<serializers, active, mutex, idle, key, lane, seen, pruning>>

\* prune_one_idle_serializer: as many attempts as there are lanes.
BeginPrune(r) ==
    /\ pc[r] = "attempts"
    /\ attempts' = [attempts EXCEPT ![r] = IF Existing = {} THEN 1 ELSE Cardinality(Existing)]
    /\ Goto(r, "pop")
    /\ UNCHANGED <<shared, key, lane, after, seen, victim, target>>

PruneEnds(r) ==
    /\ after' = [after EXCEPT ![r] = "recheck"]
    /\ Goto(r, "lookup")

Pop(r) ==
    /\ pc[r] = "pop"
    /\ \/ /\ attempts[r] > 0 /\ idle # <<>>
          /\ victim' = [victim EXCEPT ![r] = Head(idle)] /\ idle' = Tail(idle)
          /\ attempts' = [attempts EXCEPT ![r] = @ - 1]
          /\ Goto(r, "peek") /\ UNCHANGED after
       \/ /\ attempts[r] = 0 \/ idle = <<>>
          /\ PruneEnds(r) /\ attempts' = [attempts EXCEPT ![r] = 0]
          /\ UNCHANGED <<victim, idle>>
    /\ UNCHANGED <<serializers, active, mutex, slots, key, lane, seen, target>>

NextVictim(r) ==
    /\ victim' = [victim EXCEPT ![r] = None] /\ target' = [target EXCEPT ![r] = None]
    /\ Goto(r, "pop")

\* The lane of the popped key, if there is one and nobody references it.
Peek(r) ==
    LET l == serializers[victim[r]] IN
    /\ pc[r] = "peek"
    /\ IF l = None \/ (l # None /\ active[l] # 0)
       THEN NextVictim(r)
       ELSE /\ target' = [target EXCEPT ![r] = l]
            /\ Goto(r, "prune") /\ UNCHANGED victim
    /\ UNCHANGED <<shared, key, lane, after, seen, attempts>>

\* Under the lifecycle lock: the references again, the identity, the removal.
Prune(r) ==
    /\ pc[r] = "prune"
    /\ IF active[target[r]] # 0 \/ serializers[victim[r]] # target[r]
       THEN NextVictim(r) /\ UNCHANGED serializers
       ELSE /\ serializers' = [serializers EXCEPT ![victim[r]] = None]
            /\ victim' = [victim EXCEPT ![r] = None] /\ target' = [target EXCEPT ![r] = None]
            /\ Goto(r, "release")
    /\ UNCHANGED <<active, mutex, slots, idle, key, lane, after, seen, attempts>>

\* serializer_slots.fetch_sub after the removal.
Release(r) ==
    /\ pc[r] = "release"
    /\ slots' = slots - 1
    /\ PruneEnds(r)
    /\ attempts' = [attempts EXCEPT ![r] = 0]
    /\ UNCHANGED <<serializers, active, mutex, idle, key, lane, seen, victim, target>>

\* TimelineIngressSaturated, or the loop once more.
Refuse(r) == pc[r] = "recheck" /\ slots >= MaxSerializers
Recheck(r) ==
    /\ pc[r] = "recheck"
    /\ IF Refuse(r) THEN End(r) ELSE Goto(r, "slots") /\ UNCHANGED <<key, after>>
    /\ UNCHANGED <<shared, lane, seen, pruning>>

\* try_lock, or lock_serializer_with_cancellation.
LockLane(r) ==
    /\ pc[r] = "wait" /\ mutex[lane[r]] = None
    /\ mutex' = [mutex EXCEPT ![lane[r]] = r]
    /\ Goto(r, "allocate")
    /\ UNCHANGED <<serializers, active, slots, idle, mine>>

\* The timeout of a request that waits for the mutex.
CancelWait(r) ==
    /\ pc[r] = "wait"
    /\ Goto(r, "drop")
    /\ UNCHANGED <<shared, mine>>

\* The allocation returns, with ranges or an error, or is dropped after the grace
\* period of the timeout: the guard of the mutex goes first.
Finish(r) ==
    /\ pc[r] = "allocate"
    /\ mutex' = [mutex EXCEPT ![lane[r]] = None]
    /\ Goto(r, "drop")
    /\ UNCHANGED <<serializers, active, slots, idle, mine>>

\* TimelineSerializerLease::drop: the reference, and then the queue.
DropLease(r) ==
    /\ pc[r] = "drop"
    /\ active' = [active EXCEPT ![lane[r]] = @ - 1]
    /\ IF active[lane[r]] = 1 THEN Goto(r, "push") /\ UNCHANGED <<key, after>> ELSE End(r)
    /\ lane' = [lane EXCEPT ![r] = None]
    /\ UNCHANGED <<serializers, mutex, slots, idle, seen, pruning>>

Push(r) ==
    /\ pc[r] = "push"
    /\ idle' = Append(idle, key[r])
    /\ End(r)
    /\ UNCHANGED <<serializers, active, mutex, slots, lane, seen, pruning>>

Proceed(r) ==
    \/ LookUp(r) \/ Lease(r) \/ ReadSlots(r) \/ Reserve(r) \/ Enter(r) \/ Unreserve(r) \/ BeginPrune(r)
    \/ Pop(r) \/ Peek(r) \/ Prune(r) \/ Release(r) \/ Recheck(r) \/ Finish(r) \/ DropLease(r) \/ Push(r)

Next == \E r \in Requests : Proceed(r) \/ LockLane(r) \/ CancelWait(r) \/ \E k \in Keys : Start(r, k)

Spec == Init /\ [][Next]_vars

-----------------------------------------------------------------------------
\* A lane's references are the leases on it, whether its mutex is held or not.
TypeOK ==
    /\ serializers \in [Keys -> Lanes \cup {None}] /\ slots \in Nat
    /\ \A l \in Lanes : mutex[l] # None => lane[mutex[l]] = l
    /\ \A l \in Lanes : (\E k \in Keys : serializers[k] = l) =>
         active[l] = Cardinality({r \in Requests : lane[r] = l /\ pc[r] \in {"wait", "allocate", "drop"}})

\* The allocations of one timeline run one at a time, although lanes are pruned
\* and inserted again under the requests (serializer_for, try_prune_idle_candidates).
OneAtATime ==
    \A q, r \in Requests : q # r /\ pc[q] = "allocate" /\ pc[r] = "allocate" => key[q] # key[r]

\* Lanes and slots stay together: each slot is a lane or in the hands of one
\* request, so that the limit holds and a slot is never lost (serializer_for).
SlotsAccounted ==
    /\ slots = Cardinality(Existing) + Cardinality({r \in Requests : pc[r] \in {"entry", "unreserve", "release"}})
    /\ slots <= MaxSerializers

\* A lane nobody references can be found by a pruning: its key is in the queue,
\* or about to be, or a pruning holds it (Drop, try_prune_idle_candidates).
IdleLanesFindable ==
    \A k \in Existing : active[serializers[k]] = 0 =>
      \/ \E i \in DOMAIN idle : idle[i] = k
      \/ \E r \in Requests : pc[r] = "push" /\ key[r] = k
      \/ \E r \in Requests : victim[r] = k
=============================================================================
