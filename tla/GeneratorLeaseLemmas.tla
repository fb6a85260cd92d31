------------------------ MODULE GeneratorLeaseLemmas ------------------------
(***************************************************************************)
(* The type invariant of GeneratorLease, for any number of processes, any  *)
(* clocks and any number of writes, and the lemmas its safety proof rests  *)
(* on: the types of the operators, what a step that writes nothing keeps,  *)
(* what a write keeps and what a served request keeps.                     *)
(***************************************************************************)
EXTENDS GeneratorLease, TLAPS

USE DEF None, Tso, NoOwner

\* The physical part of an index is an integer, and a natural one's a natural.
LEMMA PhysType ==
    ASSUME NEW i \in Int
    PROVE  Phys(i) \in Int /\ (i \in Nat => Phys(i) \in Nat)
BY ConstantsAssumption DEF Phys

\* compute_generator_upper_bound yields a timestamp or nothing.
LEMMA UpperBoundType ==
    ASSUME NEW base \in Nat
    PROVE  UpperBound(base) \in Tso
<1>1. base + PreBorrow \in Nat /\ Cap \in Nat /\ Cap - 1 \in Nat
    BY ConstantsAssumption
<1>2. (base + PreBorrow) * Cap \in Nat
    BY <1>1
<1>. QED  BY <1>1, <1>2 DEF UpperBound

LEMMA LaterType ==
    ASSUME NEW a \in Tso, NEW b \in Tso
    PROVE  Later(a, b) \in Tso /\ Later(a, b) >= a /\ Later(a, b) >= b
BY DEF Later

\* A refresh writes a well-formed record.
LEMMA RefreshRecordType ==
    ASSUME TypeOK, NEW p \in Procs, NEW reason
    PROVE  RefreshRecord(lease[p], p, reason) \in Record
<1>. DEFINE l == lease[p]
<1>1. /\ l \in Lease /\ clock[p] \in Nat /\ LocalLast(p) \in Tso
      /\ InstanceOf[p] \in Ids
    BY DEF TypeOK, LocalLast, Ids
<1>2. RefreshBase(l, p) \in Tso /\ Later(l.last, LocalLast(p)) \in Tso
    BY Zenon, <1>1, LaterType DEF RefreshBase, Lease
<1>3. Later(clock[p], Phys(RefreshBase(l, p))) \in Nat
    BY <1>1, <1>2, PhysType DEF Later
<1>4. Later(l.ub, UpperBound(Later(clock[p], Phys(RefreshBase(l, p))))) \in Tso
    BY Zenon, <1>1, <1>3, UpperBoundType, LaterType DEF Lease
<1>5. clock[p] + Ttl \in Nat
    BY <1>1, ConstantsAssumption
<1>. QED  BY Zenon, <1>1, <1>2, <1>4, <1>5 DEF RefreshRecord, Record, Lease

LEMMA RefreshOpType ==
    ASSUME TypeOK, NEW p \in Procs, NEW goal \in Goals, NEW reason
    PROVE  RefreshOp(p, goal, reason) \in Op
BY Zenon, RefreshRecordType DEF RefreshOp, Op, Pcs, Kinds, TypeOK, Lease

\* Replacing one operation by another keeps the table of operations.
LEMMA OpTable ==
    ASSUME op \in [Procs -> [Slots -> Op]], NEW p \in Procs, NEW s \in Slots,
           NEW o \in Op
    PROVE  [op EXCEPT ![p][s] = o] \in [Procs -> [Slots -> Op]]
OBVIOUS

LEMMA IdleType == Idle \in Op /\ NoReq \in Req /\ NoLease \in Lease /\ NoRecord \in Record
BY Zenon DEF Idle, NoReq, NoLease, NoRecord, Op, Pcs, Req, Lease, Record, Goals, Kinds, Ids

LEMMA AdvanceType ==
    ASSUME NEW o \in Op, NEW pc \in Pcs, NEW kind \in Kinds, NEW expect \in Nat,
           NEW rec \in Record
    PROVE  Advance(o, pc, kind, expect, rec) \in Op
BY Zenon DEF Advance, Op

LEMMA LoadingType ==
    ASSUME NEW goal \in Goals
    PROVE  Loading(goal) \in Op
BY Zenon, IdleType DEF Loading, Op, Pcs, Kinds

LEMMA TypeInit == Init => TypeOK
BY IdleType DEF Init, TypeOK

\* What the rest of a flight leaves behind is well-formed.
LEMMA EndTypes ==
    ASSUME TypeOK, NEW p \in Procs
    PROVE  /\ Succeed(p) => op' \in [Procs -> [Slots -> Op]] /\ req' \in [Procs -> Req]
           /\ Fail(p) => /\ op' \in [Procs -> [Slots -> Op]] /\ req' \in [Procs -> Req]
                         /\ lease' \in [Procs -> Lease]
<1>1. \A goal \in Goals, ok \in BOOLEAN : ReqAfter(p, goal, ok) \in [Procs -> Req]
    BY Zenon, IdleType DEF ReqAfter, Req, TypeOK
<1>2. [op EXCEPT ![p]["flight"] = Idle] \in [Procs -> [Slots -> Op]]
    BY Zenon, IdleType DEF TypeOK, Slots
<1>3. op[p]["flight"] \in Op
    BY Zenon DEF TypeOK, Slots
<1>4. op[p]["flight"].goal \in Goals /\ op[p]["flight"].base \in Lease
    BY Zenon, <1>3 DEF Op
<1>5. Fail(p) => lease' \in [Procs -> Lease]
    BY Zenon, <1>4 DEF Fail, TypeOK
<1>. QED  BY Zenon, <1>1, <1>2, <1>4, <1>5 DEF Succeed, Fail

LEMMA NoRecordFloor == Floor(NoRecord) = None /\ NoRecord.tok = 0
BY DEF NoRecord, Floor, Later

\* The index a request starts from.
LEMMA RangeStartType ==
    ASSUME TypeOK, NEW p \in Procs, NEW f \in Nat
    PROVE  RangeStart(p, f) \in Nat /\ RangeStart(p, f) >= next[p]
<1>1. next[p] \in Nat /\ clock[p] \in Nat /\ Cap \in Nat
    BY Zenon, ConstantsAssumption DEF TypeOK
<1>2. Later(clock[p], Phys(next[p])) \in Nat
    BY <1>1, PhysType DEF Later
<1>3. Later(clock[p], Phys(next[p])) * Cap \in Nat
    BY <1>1, <1>2
<1>. QED  BY <1>1, <1>3 DEF RangeStart, Later

LEMMA FloorType ==
    ASSUME NEW r \in Record \cup Lease
    PROVE  Floor(r) \in Tso /\ Floor(r) >= r.last /\ Floor(r) >= r.ub
BY Zenon, LaterType DEF Floor, Record, Lease

LEMMA StepType ==
    ASSUME TypeOK, NEW p \in Procs, Step(p)
    PROVE  TypeOK'
<1>. USE IdleType, OpTable
<1>. DEFINE f == op[p]["flight"]
<1>0. /\ \A s \in Slots : op[p][s] \in Op
      /\ f \in Op /\ f.rec \in Record /\ f.base \in Lease /\ f.expect \in Nat
      /\ clock[p] \in Nat /\ next[p] \in Nat /\ clock[p] + Ttl \in Nat
      /\ InstanceOf[p] \in Ids
    BY ConstantsAssumption DEF TypeOK, Slots, Op, Ids
<1>1. CASE Tick(p)
    BY <1>0, <1>1 DEF Tick, TypeOK, store, history
<1>2. ASSUME NEW s \in Slots, Commit(p, s) PROVE TypeOK'
  <2>. DEFINE o == op[p][s]
  <2>1. \A a \in {"ok", "conflict"} : Advance(o, a, o.kind, o.expect, o.rec) \in Op
    BY <1>0, AdvanceType DEF Op, Pcs
  <2>2. o.rec \in Record
    BY Zenon, <1>0 DEF Op
  <2>3. PICK a \in {"ok", "conflict"} :
            op' = [op EXCEPT ![p][s] = Advance(o, a, o.kind, o.expect, o.rec)]
    BY Zenon, <1>2 DEF Commit
  <2>4. op' \in [Procs -> [Slots -> Op]]
    BY Zenon, <2>1, <2>3 DEF TypeOK
  <2>. QED  BY <1>2, <2>2, <2>4 DEF Commit, TypeOK, history
<1>3. ASSUME NEW s \in Slots, Abandon(p, s) PROVE TypeOK'
    BY <1>0, <1>3 DEF Abandon, TypeOK, store, history, Op, Undelivered, Write, ReqAfter, Req
<1>4. CASE EnsureLease(p)
    BY Zenon, <1>0, <1>4
       DEF EnsureLease, TypeOK, store, history, Op, Pcs, Advance, Slots, Idle
<1>5. CASE LoadGenerator(p)
  <2>1. Advance(f, "loaded", "none", rev, record) \in Op
    BY Zenon, <1>0, AdvanceType DEF TypeOK, Pcs, Kinds
  <2>. QED  BY Zenon, <1>5, <2>1 DEF LoadGenerator, TypeOK, store, history, Slots
<1>6. CASE ReloadOwnLease(p)
  <2>1. /\ Floor(f.rec) \in Tso /\ Later(next[p], Floor(f.rec) + 1) \in Nat
        /\ f.rec.tok \in Nat /\ f.rec.exp \in Nat /\ f.rec.ub \in Tso
    BY <1>0, FloorType DEF Later, Record
  <2>. QED  BY Zenon, <1>0, <1>6, <2>1, EndTypes
               DEF ReloadOwnLease, TypeOK, store, history, Lease
<1>7. CASE RefuseLease(p)
    BY Zenon, <1>7, EndTypes DEF RefuseLease, TypeOK, store, history
<1>8. CASE SendTakeover(p)
  <2>. DEFINE floor == Floor(f.rec)
              base == IF floor = None THEN clock[p] ELSE Later(clock[p], Phys(floor + 1))
  <2>1. floor \in Tso /\ base \in Nat
    BY <1>0, FloorType, PhysType DEF Later
  <2>2. UpperBound(base) \in Tso
    BY Zenon, <2>1, UpperBoundType
  <2>3. f.rec.tok + 1 \in Nat
    BY <1>0 DEF Record
  <2>. HIDE DEF base, floor
  <2>4. [owner |-> InstanceOf[p], tok |-> f.rec.tok + 1, exp |-> clock[p] + Ttl,
         last |-> floor, ub |-> UpperBound(base)] \in Record
    BY Zenon, <1>0, <2>1, <2>2, <2>3 DEF Record
  <2>. QED  BY Zenon, <1>0, <1>8, <2>4
               DEF SendTakeover, TypeOK, store, history, Op, Pcs, Advance, Slots, Kinds, floor, base
<1>9. CASE SendCreate(p)
  <2>1. [owner |-> InstanceOf[p], tok |-> 1, exp |-> clock[p] + Ttl,
         last |-> None, ub |-> UpperBound(clock[p])] \in Record
    BY Zenon, <1>0, UpperBoundType DEF Record
  <2>. QED  BY Zenon, <1>0, <1>9, <2>1
               DEF SendCreate, TypeOK, store, history, Op, Pcs, Advance, Slots, Kinds
<1>10. CASE ClaimAccepted(p)
  <2>1. Later(next[p], Floor(f.rec) + 1) \in Nat
    BY <1>0, FloorType DEF Later
  <2>. QED  BY <1>0, <1>10, <2>1, EndTypes
               DEF ClaimAccepted, TypeOK, store, history, Lease, Record
<1>11. CASE ClaimConflict(p)
    BY Zenon, <1>0, <1>11
       DEF ClaimConflict, TypeOK, store, history, Op, Pcs, Advance, Slots, Kinds
<1>12. CASE RenewTimelineLease(p)
    BY Zenon, <1>12, RefreshOpType
       DEF RenewTimelineLease, TypeOK, store, history, Slots, Goals
<1>13. CASE RefreshAccepted(p)
    BY <1>0, <1>13, EndTypes DEF RefreshAccepted, TypeOK, store, history, Lease, Record
<1>14. CASE RefreshConflict(p)
    BY Zenon, <1>0, <1>14
       DEF RefreshConflict, TypeOK, store, history, Op, Pcs, Advance, Slots, Kinds
<1>15. CASE BatchRefresh(p)
    BY Zenon, <1>15, RefreshOpType DEF BatchRefresh, TypeOK, store, history, Slots, Goals
<1>16. CASE BatchAccepted(p)
  <2>. DEFINE b == op[p]["batch"]
  <2>1. b \in Op
    BY Zenon, <1>0 DEF Slots
  <2>2. [rev |-> b.expect + 1, tok |-> b.rec.tok, exp |-> b.rec.exp,
         last |-> b.rec.last, ub |-> b.rec.ub] \in Lease /\ b.rec.tok \in Nat
    BY <2>1 DEF Op, Record, Lease
  <2>. HIDE DEF b
  <2>. QED  BY Zenon, <1>16, <2>2 DEF BatchAccepted, TypeOK, store, history, Slots, b
<1>17. CASE BatchConflict(p)
  <2>1. RefreshOp(p, "lease", "Maintenance") \in Op
    BY Zenon, RefreshOpType DEF Goals
  <2>. QED  BY Zenon, <1>17, <2>1 DEF BatchConflict, TypeOK, store, history, Slots
<1>18. CASE Shutdown(p)
  <2>1. Later(record.last, LocalLast(p)) \in Tso
    BY LaterType DEF TypeOK, LocalLast, Record
  <2>. QED  BY ZenonT(40), <1>18, <2>1
               DEF Shutdown, TypeOK, store, history, Slots, Op, Pcs, Advance, Loading, Idle, Record, Kinds
<1>19. CASE ClearLeases(p)
    BY Zenon, <1>19 DEF ClearLeases, TypeOK, store, history, Slots
<1>20. CASE StoreError(p)
    BY <1>0, <1>20, EndTypes DEF StoreError, TypeOK, store, history, Undelivered, Write, Op
<1>21. CASE CaptureBound(p)
    BY Zenon, <1>21 DEF CaptureBound, TypeOK, store, history, ValidUpperBound, Lease, Req
<1>22. CASE AllocEnsure(p)
  <2>1. Loading("alloc") \in Op
    BY Zenon, LoadingType DEF Goals
  <2>2. op' \in [Procs -> [Slots -> Op]]
    <3>1. op' = op \/ op' = [op EXCEPT ![p]["flight"] = Loading("alloc")]
        BY Zenon, <1>22 DEF AllocEnsure
    <3>2. [op EXCEPT ![p]["flight"] = Loading("alloc")] \in [Procs -> [Slots -> Op]]
        BY Zenon, <2>1 DEF TypeOK, Slots
    <3>. QED  BY Zenon, <3>1, <3>2 DEF TypeOK
  <2>3. req' \in [Procs -> Req]
    <3>1. [st |-> "granted", ub |-> None] \in Req /\ [st |-> "ensuring", ub |-> None] \in Req
        BY DEF Req
    <3>. QED  BY Zenon, <1>22, <3>1 DEF AllocEnsure, TypeOK
  <2>. QED  BY Zenon, <1>22, <2>2, <2>3 DEF AllocEnsure, TypeOK, store, history
<1>23. CASE AllocGrant(p)
    BY Zenon, <1>23 DEF AllocGrant, TypeOK, store, history, ValidUpperBound, Lease, Req
<1>24. CASE Revalidate(p)
    BY Zenon, <1>24 DEF Revalidate, TypeOK, store, history, Req
<1>25. CASE Serve(p)
  <2>1. PICK count \in Counts, floorIndex \in FloorIndices, borrow \in FutureBorrows :
            AllocateAfter(p, count, floorIndex, borrow)
    BY Zenon, <1>25 DEF Serve
  <2>. DEFINE first == RangeStart(p, floorIndex)
              last == first + count - 1
  <2>2. first \in Nat /\ last \in Nat /\ last + 1 \in Nat
    BY RangeStartType, ConstantsAssumption
  <2>. HIDE DEF first, last
  <2>3. first..last \subseteq Nat
    BY <2>2
  <2>4. /\ next' = [next EXCEPT ![p] = last + 1]
        /\ issued' \subseteq Nat /\ dup' \subseteq Nat /\ stale' \subseteq Nat
    BY Zenon, <2>1, <2>3 DEF AllocateAfter, first, last, TypeOK
  <2>. QED  BY Zenon, <1>25, <2>2, <2>4 DEF Serve, TypeOK, store, history
<1>26. CASE HitBound(p)
    BY Zenon, <1>26 DEF HitBound, TypeOK, store, history, Req
<1>27. CASE ExtendHorizon(p)
  <2>1. RefreshOp(p, "horizon", "HorizonRequired") \in Op
    BY Zenon, RefreshOpType DEF Goals
  <2>2. Loading("horizon") \in Op
    BY Zenon, LoadingType DEF Goals
  <2>3. /\ \/ op' = [op EXCEPT ![p]["flight"] = Loading("horizon")]
           \/ op' = [op EXCEPT ![p]["flight"] = RefreshOp(p, "horizon", "HorizonRequired")]
           \/ op' = op
        /\ \/ req' = [req EXCEPT ![p] = [st |-> "ensuring", ub |-> None]]
           \/ req' = [req EXCEPT ![p] = NoReq]
    BY Zenon, <1>27, Zenon DEF ExtendHorizon
  <2>4. op' \in [Procs -> [Slots -> Op]]
    <3>1. CASE op' = [op EXCEPT ![p]["flight"] = Loading("horizon")]
        BY Zenon, <2>2, <3>1 DEF Slots, TypeOK
    <3>2. CASE op' = [op EXCEPT ![p]["flight"] = RefreshOp(p, "horizon", "HorizonRequired")]
        BY Zenon, <2>1, <3>2 DEF Slots, TypeOK
    <3>. QED  BY Zenon, <2>3, <3>1, <3>2, Zenon DEF TypeOK
  <2>5. req' \in [Procs -> Req]
    <3>1. [st |-> "ensuring", ub |-> None] \in Req /\ req \in [Procs -> Req]
        BY Zenon DEF Req, TypeOK
    <3>. QED  BY Zenon, <2>3, <3>1
  <2>. QED  BY Zenon, <1>27, <2>4, <2>5 DEF ExtendHorizon, TypeOK, store, history
<1>28. CASE DropRequest(p)
    BY Zenon, <1>28 DEF DropRequest, TypeOK, store, history
<1>. QED  BY Zenon, <1>1, <1>2, <1>3, <1>4, <1>5, <1>6, <1>7, <1>8, <1>9, <1>10, <1>11, <1>12,
             <1>13, <1>14, <1>15, <1>16, <1>17, <1>18, <1>19, <1>20, <1>21, <1>22, <1>23,
             <1>24, <1>25, <1>26, <1>27, <1>28 DEF Step

\* The state of every process, of the store and of the history stays well-formed.
THEOREM TypeCorrect == Spec => []TypeOK
<1>1. TypeOK /\ [Next]_vars => TypeOK'
  <2>. SUFFICES ASSUME TypeOK, [Next]_vars PROVE TypeOK'
    OBVIOUS
  <2>1. CASE UNCHANGED vars
    BY Zenon, <2>1 DEF vars, TypeOK
  <2>2. ASSUME NEW p \in Procs, Step(p) PROVE TypeOK'
    BY Zenon, <2>2, StepType
  <2>3. ASSUME NEW w \in orphans, CommitOrphan(w) PROVE TypeOK'
    BY <2>3 DEF CommitOrphan, TypeOK, history, Write
  <2>. QED  BY Zenon, <2>1, <2>2, <2>3 DEF Next
<1>. QED  BY <1>1, TypeInit, PTL DEF Spec

-----------------------------------------------------------------------------
(* No index is issued twice under a bound *)

\* A bound that may come up in a step of p: covered by the floor, and either one
\* p had already or one its cursor has passed.
Covered(p, b) == b <= Floor(record) /\ (b \in Bounds(p) \/ b < next'[p])

\* A step of p that writes nothing to the store and issues nothing.
Local(p) ==
    /\ UNCHANGED <<record, rev, issued, dup>>
    /\ next'[p] >= next[p]
    /\ \A q \in Procs : q # p => /\ next'[q] = next[q] /\ lease'[q] = lease[q]
                                 /\ op'[q] = op[q] /\ req'[q] = req[q]

\* The record and the history stay as they are.
Still == UNCHANGED <<record, rev, issued, dup>> /\ \A w \in orphans' : Fresh(w)

\* The parts of p's state, each either left alone or replaced soundly.
LeaseKept(p) ==
    lease'[p] = lease[p] \/ ((Held(p, lease[p]))' /\ Covered(p, lease'[p].ub))
ReqKept(p) == req'[p].ub = req[p].ub \/ Covered(p, req'[p].ub)
OpKept(p, s) ==
    \/ op'[p][s] = op[p][s]
    \/ /\ (OpSound(p, s))'
       /\ Covered(p, op'[p][s].base.ub)
       /\ Accepted(op'[p][s]) => Covered(p, op'[p][s].rec.ub)

LEMMA InBounds ==
    ASSUME NEW p, NEW b
    PROVE  b \in Bounds(p) <=>
             \/ b = lease[p].ub \/ b = req[p].ub
             \/ \E s \in Slots : \/ b = op[p][s].base.ub
                                 \/ Accepted(op[p][s]) /\ b = op[p][s].rec.ub
BY Zenon DEF Bounds

LEMMA InBoundsNext ==
    ASSUME NEW p, NEW b
    PROVE  b \in Bounds(p)' <=>
             \/ b = lease'[p].ub \/ b = req'[p].ub
             \/ \E s \in Slots : \/ b = op'[p][s].base.ub
                                 \/ Accepted(op'[p][s]) /\ b = op'[p][s].rec.ub
BY Zenon DEF Bounds, Accepted

\* The types of the parts of p's state.
Typed(p) ==
    /\ next[p] \in Nat /\ lease[p] \in Lease /\ req[p] \in Req
    /\ \A s \in Slots : op[p][s] \in Op

LEMMA Parts ==
    ASSUME TypeOK, NEW p \in Procs
    PROVE  Typed(p)
BY Zenon DEF TypeOK, Typed

LEMMA PartsNext ==
    ASSUME TypeOK', NEW p \in Procs
    PROVE  /\ next'[p] \in Nat /\ lease'[p] \in Lease /\ req'[p] \in Req
           /\ \A s \in Slots : op'[p][s] \in Op
BY Zenon DEF TypeOK

LEMMA LeaseFields ==
    ASSUME NEW l \in Lease
    PROVE  l.rev \in Nat /\ l.tok \in Nat /\ l.exp \in Nat /\ l.last \in Tso /\ l.ub \in Tso
BY Zenon DEF Lease

LEMMA RecordFields ==
    ASSUME NEW r \in Record
    PROVE  r.tok \in Nat /\ r.exp \in Nat /\ r.last \in Tso /\ r.ub \in Tso
BY Zenon DEF Record

LEMMA OpFields ==
    ASSUME NEW o \in Op
    PROVE  o.expect \in Nat /\ o.rec \in Record /\ o.base \in Lease
BY Zenon DEF Op

LEMMA BoundType ==
    ASSUME TypeOK, NEW p \in Procs
    PROVE  \A b \in Bounds(p) : b \in Tso
<1>1. req[p].ub \in Tso
    BY Zenon, Parts DEF Typed, Req
<1>. QED  BY <1>1, InBounds, Parts, LeaseFields, RecordFields, OpFields DEF Typed

LEMMA BoundTypeNext ==
    ASSUME TypeOK', NEW p \in Procs
    PROVE  \A b \in Bounds(p)' : b \in Tso
<1>1. req'[p].ub \in Tso
    BY Zenon, PartsNext DEF Req
<1>. QED  BY <1>1, InBoundsNext, PartsNext, LeaseFields, RecordFields, OpFields

LEMMA LocalKeepsBounds ==
    ASSUME TypeOK, TypeOK', Inv, NEW p \in Procs,
           Local(p), LeaseKept(p), ReqKept(p), \A s \in Slots : OpKept(p, s)
    PROVE  \A b \in Bounds(p)' : Covered(p, b)
<1>1. \A b \in Bounds(p) : Covered(p, b)
    BY Zenon DEF Inv, FloorCoversBounds, Covered
<1>. SUFFICES ASSUME NEW b \in Bounds(p)' PROVE Covered(p, b)
    OBVIOUS
<1>2. CASE b = lease'[p].ub
    BY Zenon, <1>1, <1>2, InBounds DEF LeaseKept
<1>3. CASE b = req'[p].ub
    BY Zenon, <1>1, <1>3, InBounds DEF ReqKept
<1>4. ASSUME NEW s \in Slots, b = op'[p][s].base.ub PROVE Covered(p, b)
    BY Zenon, <1>1, <1>4, InBounds DEF OpKept
<1>5. ASSUME NEW s \in Slots, Accepted(op'[p][s]), b = op'[p][s].rec.ub PROVE Covered(p, b)
    BY Zenon, <1>1, <1>5, InBounds DEF OpKept
<1>. QED  BY ZenonT(40), <1>2, <1>3, <1>4, <1>5, InBoundsNext

\* The part of an operation's soundness that the cursor can disturb only grows.
LEMMA SoundKeeps ==
    ASSUME TypeOK, TypeOK', NEW p \in Procs, NEW s \in Slots, OpSound(p, s),
           record' = record, rev' = rev, next'[p] >= next[p], op'[p][s] = op[p][s]
    PROVE  (OpSound(p, s))'
<1>. DEFINE o == op[p][s]
<1>1. o \in Op /\ next[p] \in Nat /\ next'[p] \in Nat
    BY Zenon, Parts, PartsNext DEF Typed
<1>2. o.base.last \in Tso /\ o.rec.last \in Tso
    BY Zenon, <1>1, OpFields, LeaseFields, RecordFields
<1>. HIDE DEF o
<1>3. /\ o.base.last < next[p] => o.base.last < next'[p]
      /\ o.rec.last < next[p] => o.rec.last < next'[p]
    BY <1>1, <1>2
<1>4. Held(p, o.base) => (Held(p, o.base))'
    BY Zenon, <1>3 DEF Held, o
<1>5. Fresh(o) => (Fresh(o))'
    BY Zenon DEF Fresh, o
<1>. QED  BY ZenonT(40), <1>3, <1>4, <1>5 DEF OpSound, SoundOp, o

LEMMA HeldKeeps ==
    ASSUME TypeOK, TypeOK', NEW p \in Procs, Held(p, lease[p]),
           record' = record, rev' = rev, next'[p] >= next[p], lease'[p] = lease[p]
    PROVE  (Held(p, lease[p]))'
<1>1. lease[p].last \in Tso /\ next[p] \in Nat /\ next'[p] \in Nat
    BY Zenon, Parts, PartsNext, LeaseFields DEF Typed
<1>. QED  BY <1>1 DEF Held

LEMMA SameBounds ==
    ASSUME NEW q \in Procs, lease'[q] = lease[q], req'[q] = req[q], op'[q] = op[q]
    PROVE  Bounds(q)' = Bounds(q)
BY Zenon DEF Bounds, Accepted

\* A step of p that keeps its own state sound keeps the invariant.
LEMMA LocalStep ==
    ASSUME TypeOK, TypeOK', Inv, NEW p \in Procs,
           Local(p), LeaseKept(p), ReqKept(p), \A s \in Slots : OpKept(p, s),
           \A w \in orphans' : Fresh(w)
    PROVE  Inv'
<1>. record' = record /\ rev' = rev /\ issued' = issued /\ dup' = dup
    BY Zenon DEF Local
<1>1. (rev = 0 => record = NoRecord)'
    BY Zenon DEF Inv
<1>2. (\A w \in orphans : Fresh(w))'
    BY Zenon DEF Fresh
<1>3. ASSUME NEW q \in Procs PROVE (Held(q, lease[q]))'
  <2>1. Held(q, lease[q]) /\ next[q] \in Nat
    BY Zenon, Parts DEF Inv, Typed
  <2>2. CASE q # p
    BY <2>1, <2>2, HeldKeeps DEF Local
  <2>3. CASE q = p
    BY Zenon, <2>1, <2>3, HeldKeeps DEF Local, LeaseKept
  <2>. QED  BY Zenon, <2>2, <2>3
<1>4. ASSUME NEW q \in Procs, NEW s \in Slots PROVE (OpSound(q, s))'
  <2>1. OpSound(q, s) /\ next[q] \in Nat
    BY Zenon, Parts DEF Inv, Typed
  <2>2. CASE q # p
    BY <2>1, <2>2, SoundKeeps DEF Local
  <2>3. CASE q = p
    BY Zenon, <2>1, <2>3, SoundKeeps DEF Local, OpKept
  <2>. QED  BY Zenon, <2>2, <2>3
<1>5. ASSUME NEW q \in Procs, NEW b \in Bounds(q)' PROVE b <= Floor(record)
  <2>1. CASE q # p
    BY Zenon, <1>5, <2>1, SameBounds DEF Local, Inv, FloorCoversBounds
  <2>2. CASE q = p
    BY Zenon, <1>5, <2>2, LocalKeepsBounds DEF Covered
  <2>. QED  BY Zenon, <2>1, <2>2
<1>6. ASSUME NEW q \in Procs, NEW i \in Nat, (CanIssue(q, i))' PROVE CanIssue(q, i)
  <2>1. PICK b \in Bounds(q)' : next'[q] <= i /\ i <= b
    BY Zenon, <1>6 DEF CanIssue
  <2>2. CASE q # p
    BY Zenon, <2>1, <2>2, SameBounds DEF Local, CanIssue
  <2>3. CASE q = p
    <3>1. Covered(p, b)
        BY Zenon, <2>1, <2>3, LocalKeepsBounds
    <3>2. next[p] \in Nat /\ next'[p] \in Nat /\ next'[p] >= next[p]
        BY Zenon, Parts, PartsNext DEF Typed, Local
    <3>3. b \in Bounds(p)
        BY <2>1, <2>3, <3>1, <3>2, BoundTypeNext DEF Covered
    <3>. QED  BY <2>1, <2>3, <3>2, <3>3 DEF CanIssue
  <2>. QED  BY Zenon, <2>2, <2>3
<1>7. Exclusive'
  <2>1. Floor(record) \in Tso
    BY Zenon, FloorType DEF TypeOK
  <2>. QED  BY <1>6, <2>1 DEF Inv, Exclusive
<1>. QED  BY Zenon, <1>1, <1>2, <1>3, <1>4, <1>5, <1>7
             DEF Inv, FloorCoversBounds, FencedUnique

LEMMA OneSlot ==
    ASSUME TypeOK, NEW p \in Procs, NEW s \in Slots, NEW o,
           op' = [op EXCEPT ![p][s] = o]
    PROVE  /\ op'[p][s] = o
           /\ \A t \in Slots : t # s => op'[p][t] = op[p][t]
           /\ \A q \in Procs : q # p => op'[q] = op[q]
BY Zenon DEF TypeOK

LEMMA NoLeaseHeld ==
    ASSUME TypeOK, NEW p \in Procs
    PROVE  /\ Held(p, NoLease)
           /\ None <= Floor(record) /\ None < next[p]
<1>1. Floor(record) \in Tso /\ rev \in Nat /\ next[p] \in Nat
    BY Zenon, FloorType DEF TypeOK
<1>. QED  BY <1>1 DEF Held, NoLease

\* Bounds that are there already are covered.
LEMMA KnownCovered ==
    ASSUME TypeOK, Inv, NEW p \in Procs, next'[p] \in Nat
    PROVE  /\ Covered(p, lease[p].ub) /\ Covered(p, req[p].ub) /\ Covered(p, None)
           /\ \A s \in Slots : Covered(p, op[p][s].base.ub)
           /\ \A s \in Slots : Accepted(op[p][s]) => Covered(p, op[p][s].rec.ub)
<1>1. Floor(record) \in Tso
    BY Zenon, FloorType DEF TypeOK
<1>. QED  BY <1>1, InBounds DEF Covered, Inv, FloorCoversBounds

\* An operation that moves on, while the rest of p's state but its request stays.
LEMMA SlotStep ==
    ASSUME TypeOK, TypeOK', Inv, NEW p \in Procs, NEW s \in Slots, NEW o \in Op,
           op' = [op EXCEPT ![p][s] = o],
           record' = record, rev' = rev, orphans' = orphans, next' = next,
           lease' = lease, issued' = issued, dup' = dup,
           \A q \in Procs : q # p => req'[q] = req[q], ReqKept(p),
           SoundOp(p, s, o), ~Accepted(o), Covered(p, o.base.ub)
    PROVE  Inv'
<1>1. op'[p][s] = o /\ next[p] \in Nat
    BY Zenon DEF TypeOK
<1>2. (OpSound(p, s))'
    BY ZenonT(40), <1>1 DEF OpSound, SoundOp, Held, Fresh
<1>3. \A t \in Slots : OpKept(p, t)
    BY <1>1, <1>2, OneSlot DEF OpKept
<1>4. Local(p) /\ LeaseKept(p)
    BY <1>1, OneSlot DEF Local, LeaseKept
<1>. QED  BY Zenon, <1>3, <1>4, LocalStep DEF Inv

\* The store answers a load: the operation knows the record as it is.
LEMMA LoadedSound ==
    ASSUME TypeOK, NEW p \in Procs, NEW s \in Slots, NEW o \in Op, Held(p, o.base)
    PROVE  SoundOp(p, s, Advance(o, "loaded", "none", rev, record))
<1>1. Floor(record) \in Tso /\ rev \in Nat
    BY Zenon, FloorType DEF TypeOK
<1>. QED  BY <1>1 DEF SoundOp, Advance

\* An operation without a write or an answer is sound if its old entry is.
LEMMA QuietSound ==
    ASSUME NEW p \in Procs, NEW s \in Slots, NEW o \in Op, Held(p, o.base),
           o.pc \notin {"cas", "loaded", "ok"}
    PROVE  SoundOp(p, s, o) /\ ~Accepted(o)
BY Zenon DEF SoundOp, Accepted

\* A refresh of the entry held is a sound write: it raises the floor of the record
\* it was made from and keeps its owner and token.
LEMMA RefreshSound ==
    ASSUME TypeOK, NEW p \in Procs, NEW s \in Slots, Held(p, lease[p]), lease[p].rev # 0,
           NEW goal \in Goals, NEW reason
    PROVE  SoundOp(p, s, RefreshOp(p, goal, reason))
<1>. DEFINE l == lease[p]
            r == RefreshRecord(l, p, reason)
            o == RefreshOp(p, goal, reason)
            bound == UpperBound(Later(clock[p], Phys(RefreshBase(l, p))))
<1>1. l \in Lease /\ l.last \in Tso /\ l.ub \in Tso /\ l.tok \in Nat /\ next[p] \in Nat
    BY Zenon, Parts, LeaseFields DEF Typed
<1>2. clock[p] \in Nat /\ LocalLast(p) \in Tso /\ LocalLast(p) < next[p]
    BY <1>1 DEF TypeOK, LocalLast
<1>3. r \in Record /\ r.last \in Tso /\ r.ub \in Tso
    BY Zenon, RefreshRecordType, RecordFields
<1>4. r.last = Later(l.last, LocalLast(p)) /\ r.tok = l.tok /\ r.owner = InstanceOf[p]
    BY Zenon DEF RefreshRecord
<1>5. r.last >= l.last /\ r.last < next[p]
    BY <1>1, <1>2, <1>4 DEF Later, Held
<1>6. bound \in Tso
  <2>1. Later(l.last, LocalLast(p)) \in Tso
    BY Zenon, <1>1, <1>2, LaterType
  <2>2. RefreshBase(l, p) \in Tso
    BY Zenon, <1>1, <2>1, LaterType DEF RefreshBase
  <2>3. Later(clock[p], Phys(RefreshBase(l, p))) \in Nat
    BY <1>2, <2>2, PhysType DEF Later
  <2>. QED  BY Zenon, <2>3, UpperBoundType
<1>7. r.ub = Later(l.ub, bound) \/ r.ub = l.ub
    BY Zenon DEF RefreshRecord
<1>8. r.ub >= l.ub
    BY <1>1, <1>6, <1>7, LaterType
<1>. HIDE DEF r, bound
<1>9. Floor(r) >= Floor(l)
    BY <1>1, <1>3, <1>5, <1>8 DEF Floor, Later
<1>10. /\ o.pc = "cas" /\ o.kind = "refresh" /\ o.expect = l.rev /\ o.rec = r /\ o.base = l
    BY Zenon DEF RefreshOp, r
<1>. HIDE DEF o
<1>11. Fresh(o)
    BY <1>1, <1>4, <1>9, <1>10 DEF Fresh, Held
<1>. QED  BY Zenon, <1>4, <1>5, <1>10, <1>11 DEF SoundOp, o

\* A refresh starts from a bound p has already.
LEMMA RefreshKnown ==
    ASSUME TypeOK, Inv, NEW p \in Procs, next'[p] \in Nat, NEW goal, NEW reason
    PROVE  /\ ~Accepted(RefreshOp(p, goal, reason))
           /\ Covered(p, RefreshOp(p, goal, reason).base.ub)
BY Zenon, KnownCovered DEF RefreshOp, Accepted

\* An operation that ends, or starts over, while p's entry, cursor and request
\* change soundly.
LEMMA QuietStep ==
    ASSUME TypeOK, TypeOK', Inv, NEW p \in Procs, NEW s \in Slots, NEW o \in Op,
           op' = [op EXCEPT ![p][s] = o],
           o.pc \in {"idle", "load"}, o.base = NoLease \/ o.base = op[p][s].base,
           Still,
           \A q \in Procs : q # p => /\ next'[q] = next[q] /\ lease'[q] = lease[q]
                                     /\ req'[q] = req[q],
           next'[p] >= next[p] \/ next' = next, LeaseKept(p), ReqKept(p)
    PROVE  Inv'
<1>. record' = record /\ rev' = rev /\ issued' = issued /\ dup' = dup
    BY Zenon DEF Still
<1>1. /\ op'[p][s] = o /\ next[p] \in Nat /\ next'[p] \in Nat /\ op[p][s] \in Op
      /\ o.base \in Lease /\ next'[p] >= next[p]
    BY Parts, PartsNext, OpFields DEF TypeOK, Typed
<1>2. Held(p, o.base)
    BY Zenon, NoLeaseHeld DEF Inv, OpSound, SoundOp
<1>3. (OpSound(p, s))'
    BY <1>1, <1>2, LeaseFields DEF OpSound, SoundOp, Held
<1>4. Covered(p, o.base.ub)
    BY <1>1, KnownCovered DEF NoLease
<1>5. \A t \in Slots : OpKept(p, t)
    BY <1>1, <1>3, <1>4, OneSlot DEF OpKept, Accepted
<1>6. Local(p)
    BY Zenon, <1>1, OneSlot DEF Local
<1>. QED  BY Zenon, <1>5, <1>6, LocalStep DEF Still

LEMMA IdleQuiet == Idle \in Op /\ Idle.pc = "idle" /\ Idle.base = NoLease
BY Zenon, IdleType DEF Idle

LEMMA IdleSound ==
    ASSUME TypeOK, Inv, NEW p \in Procs, next'[p] \in Nat, NEW s \in Slots
    PROVE  SoundOp(p, s, Idle) /\ ~Accepted(Idle) /\ Covered(p, Idle.base.ub)
<1>1. SoundOp(p, s, Idle) /\ ~Accepted(Idle)
    BY Zenon, IdleQuiet, QuietSound, NoLeaseHeld
<1>2. Idle.base.ub = None
    BY IdleQuiet DEF NoLease
<1>. QED  BY Zenon, <1>1, <1>2, KnownCovered

\* What ReqAfter leaves a request with.
LEMMA ReqAfterKept ==
    ASSUME TypeOK, Inv, NEW p \in Procs, next'[p] \in Nat, NEW goal, NEW ok,
           req' = ReqAfter(p, goal, ok)
    PROVE  ReqKept(p) /\ \A q \in Procs : q # p => req'[q] = req[q]
<1>1. req'[p] = req[p] \/ req'[p].ub = None
    BY Zenon DEF ReqAfter, TypeOK, NoReq
<1>2. \A q \in Procs : q # p => req'[q] = req[q]
    BY Zenon DEF ReqAfter, TypeOK
<1>. QED  BY Zenon, <1>1, <1>2, KnownCovered DEF ReqKept

\* A failed flight puts back its old entry or leaves the present one.
LEMMA FailKept ==
    ASSUME TypeOK, TypeOK', Inv, NEW p \in Procs, Fail(p),
           record' = record, rev' = rev, next' = next
    PROVE  LeaseKept(p) /\ \A q \in Procs : q # p => lease'[q] = lease[q]
<1>. DEFINE f == op[p]["flight"]
<1>1. "flight" \in Slots /\ next'[p] \in Nat
    BY Zenon, PartsNext DEF Slots
<1>2. \A q \in Procs : q # p => lease'[q] = lease[q]
    BY Zenon DEF Fail, TypeOK
<1>3. lease'[p] = lease[p] \/ lease'[p] = f.base
    BY Zenon DEF Fail, TypeOK
<1>4. Held(p, f.base) /\ Covered(p, f.base.ub)
    BY Zenon, <1>1, KnownCovered DEF Inv, OpSound, SoundOp
<1>5. ASSUME lease'[p] = f.base PROVE (Held(p, lease[p]))'
    BY Zenon, <1>4, <1>5 DEF Held
<1>. QED  BY Zenon, <1>2, <1>3, <1>4, <1>5 DEF LeaseKept

\* The entry made from a write the store has accepted.
LEMMA PublishedKept ==
    ASSUME TypeOK, TypeOK', Inv, NEW p \in Procs, NEW s \in Slots, NEW o \in Op,
           o = op[p][s], o.pc = "ok", o.kind \in {"create", "takeover", "refresh"},
           lease' = [lease EXCEPT ![p] =
                        [rev |-> o.expect + 1, tok |-> o.rec.tok, exp |-> o.rec.exp,
                         last |-> o.rec.last, ub |-> o.rec.ub]],
           record' = record, rev' = rev, next'[p] >= next[p],
           o.kind = "takeover" => next'[p] > Floor(o.rec)
    PROVE  LeaseKept(p) /\ \A q \in Procs : q # p => lease'[q] = lease[q]
<1>1. /\ o.rec \in Record /\ o.expect \in Nat /\ o.rec.last \in Tso /\ o.rec.ub \in Tso
      /\ next[p] \in Nat /\ next'[p] \in Nat /\ rev \in Nat
    BY Zenon, OpFields, RecordFields, Parts, PartsNext DEF Typed, TypeOK
<1>2. /\ Floor(o.rec) \in Tso /\ o.rec.last <= Floor(o.rec) /\ o.rec.ub <= Floor(o.rec)
      /\ Floor(record) \in Tso
    BY Zenon, <1>1, FloorType DEF TypeOK
<1>3. SoundOp(p, s, o)
    BY Zenon DEF Inv, OpSound
<1>4. /\ o.expect < rev /\ Floor(o.rec) <= Floor(record)
      /\ o.expect + 1 = rev => o.rec = record
      /\ o.rec.owner = InstanceOf[p]
    BY Zenon, <1>3 DEF SoundOp
<1>5. o.rec.last < next'[p]
  <2>1. CASE o.kind = "takeover"
    BY <1>1, <1>2, <2>1
  <2>2. CASE o.kind \in {"create", "refresh"}
    <3>1. o.rec.last = None \/ o.rec.last < next[p]
        BY Zenon, <1>3, <2>2 DEF SoundOp
    <3>. QED  BY <1>1, <3>1
  <2>. QED  BY Zenon, <2>1, <2>2
<1>6. /\ lease'[p].rev = o.expect + 1 /\ lease'[p].tok = o.rec.tok
      /\ lease'[p].last = o.rec.last /\ lease'[p].ub = o.rec.ub
      /\ \A q \in Procs : q # p => lease'[q] = lease[q]
    BY Zenon DEF TypeOK
<1>7. Floor(lease'[p]) = Floor(o.rec)
    BY Zenon, <1>6 DEF Floor
<1>8. (Held(p, lease[p]))'
    BY <1>1, <1>4, <1>5, <1>6, <1>7 DEF Held
<1>9. Covered(p, o.rec.ub)
  <2>1. CASE o.kind = "takeover"
    BY <1>1, <1>2, <1>4, <2>1 DEF Covered
  <2>2. CASE o.kind \in {"create", "refresh"}
    BY Zenon, <1>1, <2>2, KnownCovered DEF Accepted
  <2>. QED  BY Zenon, <2>1, <2>2
<1>. QED  BY Zenon, <1>6, <1>8, <1>9 DEF LeaseKept

\* A step that only concerns the request.
LEMMA ReqStep ==
    ASSUME TypeOK, TypeOK', Inv, NEW p \in Procs,
           Still, next' = next, lease' = lease, op' = op,
           \A q \in Procs : q # p => req'[q] = req[q], ReqKept(p)
    PROVE  Inv'
<1>1. Local(p) /\ LeaseKept(p) /\ \A s \in Slots : OpKept(p, s)
  <2>1. next'[p] = next[p] /\ next[p] \in Nat
    BY Zenon, Parts DEF Typed
  <2>2. next'[p] >= next[p]
    BY <2>1
  <2>. QED  BY Zenon, <2>2 DEF Local, LeaseKept, OpKept, Still
<1>. QED  BY Zenon, <1>1, LocalStep DEF Still

\* A write p gives up on was fresh when it was sent, and still is.
LEMMA UndeliveredFresh ==
    ASSUME TypeOK, Inv, NEW p \in Procs, NEW s \in Slots
    PROVE  \A w \in orphans \cup Undelivered(p, s) : Fresh(w)
<1>1. op[p][s].pc = "cas" => Fresh(op[p][s])
    BY Zenon DEF Inv, OpSound, SoundOp
<1>2. ASSUME NEW w \in Undelivered(p, s) PROVE Fresh(w)
  <2>1. op[p][s].pc = "cas" /\ w = [expect |-> op[p][s].expect, rec |-> op[p][s].rec]
    BY Zenon, <1>2 DEF Undelivered
  <2>2. w.expect = op[p][s].expect /\ w.rec = op[p][s].rec
    BY Zenon, <2>1
  <2>. QED  BY Zenon, <1>1, <2>1, <2>2 DEF Fresh
<1>. QED  BY Zenon, <1>2 DEF Inv

\* A write moves the revision on: what was known of the record becomes old.
LEMMA WriteKeeps ==
    ASSUME TypeOK, TypeOK', NEW w, Fresh(w), w.expect = rev,
           record' = w.rec, rev' = rev + 1, next' = next
    PROVE  /\ Floor(record) \in Tso /\ Floor(record') \in Tso
           /\ Floor(record') >= Floor(record)
           /\ \A v : v.expect \in Nat /\ Fresh(v) => (Fresh(v))'
           /\ \A q \in Procs, l \in Lease : Held(q, l) => (Held(q, l))'
<1>1. rev \in Nat /\ Floor(record) \in Tso
    BY Zenon, FloorType DEF TypeOK
<1>2. Floor(record') \in Tso
    BY Zenon, FloorType DEF TypeOK
<1>3. Floor(record') >= Floor(record)
    BY Zenon DEF Fresh
<1>4. ASSUME NEW v, v.expect \in Nat, Fresh(v) PROVE (Fresh(v))'
    BY <1>1, <1>4 DEF Fresh
<1>5. ASSUME NEW q \in Procs, NEW l \in Lease, Held(q, l) PROVE (Held(q, l))'
    BY <1>1, <1>5, LeaseFields DEF Held
<1>. QED  BY Zenon, <1>1, <1>2, <1>3, <1>4, <1>5

LEMMA WriteKeepsOp ==
    ASSUME TypeOK, TypeOK', NEW w, Fresh(w), w.expect = rev,
           record' = w.rec, rev' = rev + 1, next' = next,
           NEW q \in Procs, NEW t \in Slots, NEW o \in Op, SoundOp(q, t, o)
    PROVE  (SoundOp(q, t, o))'
<1>1. /\ o.expect \in Nat /\ o.rec \in Record /\ o.base \in Lease /\ rev \in Nat
      /\ Floor(o.rec) \in Tso
    BY Zenon, OpFields, FloorType DEF TypeOK
<1>2. (Held(q, o.base))'
    BY Zenon, <1>1, WriteKeeps DEF SoundOp
<1>3. o.pc = "cas" => (Fresh(o))'
    BY Zenon, <1>1, WriteKeeps DEF SoundOp
<1>4. Floor(record) \in Tso /\ Floor(record') \in Tso /\ Floor(record') >= Floor(record)
    BY Zenon, WriteKeeps
<1>5. o.pc = "loaded" => /\ o.expect <= rev' /\ Floor(o.rec) <= Floor(record')
                         /\ o.expect # rev'
    BY <1>1, <1>4 DEF SoundOp
<1>6. o.pc = "ok" => /\ o.expect < rev' /\ Floor(o.rec) <= Floor(record')
                     /\ o.expect + 1 # rev'
    BY <1>1, <1>4 DEF SoundOp
<1>. QED  BY Zenon, <1>2, <1>3, <1>5, <1>6 DEF SoundOp

\* A write keeps the invariant if only p, the writer, gains bounds by it, all of
\* them within the new floor, and the indices it gains lie above the old one.
LEMMA WriteInv ==
    ASSUME TypeOK, TypeOK', Inv, NEW p, NEW w, Fresh(w), w.expect = rev,
           record' = w.rec, rev' = rev + 1, next' = next, lease' = lease,
           issued' = issued, dup' = dup, orphans' \subseteq orphans,
           \A q \in Procs, t \in Slots : (OpSound(q, t))',
           \A q \in Procs : q # p => Bounds(q)' = Bounds(q),
           p \in Procs => \A b \in Bounds(p)' : b <= Floor(record'),
           p \in Procs => \A i \in Nat : (CanIssue(p, i))' => CanIssue(p, i) \/ i > Floor(record)
    PROVE  Inv'
<1>1. /\ Floor(record) \in Tso /\ Floor(record') \in Tso /\ Floor(record') >= Floor(record)
      /\ rev \in Nat
    BY Zenon, WriteKeeps DEF TypeOK
<1>2. (rev = 0 => record = NoRecord)'
    BY <1>1
<1>3. (\A v \in orphans : Fresh(v))'
    BY Zenon, WriteKeeps DEF Inv, TypeOK, Write
<1>4. ASSUME NEW q \in Procs PROVE (Held(q, lease[q]))'
  <2>1. lease[q] \in Lease /\ Held(q, lease[q])
    BY Zenon, Parts DEF Inv, Typed
  <2>2. \A l \in Lease : Held(q, l) => (Held(q, l))'
    BY Zenon, WriteKeeps
  <2>. QED  BY Zenon, <2>1, <2>2
<1>5. ASSUME NEW q \in Procs, NEW b \in Bounds(q)' PROVE b <= Floor(record')
  <2>1. CASE q = p
    BY Zenon, <1>5, <2>1
  <2>2. CASE q # p
    <3>1. b \in Tso /\ b <= Floor(record)
        BY Zenon, <1>5, <2>2, BoundType DEF Inv, FloorCoversBounds
    <3>. QED  BY <1>1, <3>1
  <2>. QED  BY Zenon, <2>1, <2>2
<1>6. \A i \in issued' : i <= Floor(record')
  <2>1. \A i \in issued : i \in Nat /\ i <= Floor(record)
    BY Zenon DEF Inv, TypeOK
  <2>. QED  BY <1>1, <2>1
<1>7. ASSUME NEW q \in Procs, NEW i \in Nat, CanIssue(q, i) PROVE i <= Floor(record)
    BY <1>1, <1>7, BoundType DEF CanIssue, Inv, FloorCoversBounds
<1>8. ASSUME NEW q \in Procs, q # p, NEW i \in Nat, (CanIssue(q, i))' PROVE CanIssue(q, i)
    BY Zenon, <1>8 DEF CanIssue
<1>9. Exclusive'
  <2>. SUFFICES ASSUME NEW i \in 0..Floor(record'), NEW q \in Procs, (CanIssue(q, i))'
                PROVE  /\ i \notin issued'
                       /\ \A r \in Procs : (CanIssue(r, i))' => r = q
    BY Zenon DEF Exclusive
  <2>1. i \in Nat
    BY <1>1
  <2>2. CASE i <= Floor(record)
    <3>1. i \in 0..Floor(record)
        BY <1>1, <2>1, <2>2
    <3>2. \A r \in Procs : (CanIssue(r, i))' => CanIssue(r, i)
        BY <1>1, <1>8, <2>1, <2>2
    <3>. QED  BY Zenon, <3>1, <3>2 DEF Inv, Exclusive
  <2>3. CASE i > Floor(record)
    <3>1. \A r \in Procs : (CanIssue(r, i))' => r = p
        BY <1>1, <1>7, <1>8, <2>1, <2>3
    <3>2. i \notin issued
        BY <1>1, <2>1, <2>3 DEF Inv
    <3>. QED  BY Zenon, <3>1, <3>2
  <2>. QED  BY <1>1, <2>1, <2>2, <2>3
<1>. QED  BY Zenon, <1>2, <1>3, <1>4, <1>5, <1>6, <1>9
             DEF Inv, FloorCoversBounds, FencedUnique

\* The store takes the write in one of p's slots and answers.
LEMMA AcceptInv ==
    ASSUME TypeOK, TypeOK', Inv, NEW p \in Procs, NEW s \in Slots, NEW o \in Op,
           NEW n \in Op, o = op[p][s], o.pc = "cas", o.expect = rev,
           record' = o.rec, rev' = rev + 1, UNCHANGED <<orphans, next, lease, req, issued, dup>>,
           op' = [op EXCEPT ![p][s] = n],
           n.pc \in {"ok", "conflict"}, n.kind = o.kind, n.expect = o.expect, n.rec = o.rec,
           n.base = o.base
    PROVE  Inv'
<1>1. /\ o.expect \in Nat /\ o.rec \in Record /\ o.base \in Lease /\ rev \in Nat
      /\ next[p] \in Nat /\ o.rec.ub \in Tso /\ o.base.last \in Tso /\ o.base.ub \in Tso
    BY Zenon, OpFields, RecordFields, LeaseFields DEF TypeOK
<1>2. SoundOp(p, s, o) /\ Fresh(o)
    BY Zenon DEF Inv, OpSound, SoundOp
<1>3. /\ op'[p][s] = n /\ \A t \in Slots : t # s => op'[p][t] = op[p][t]
      /\ \A q \in Procs : q # p => op'[q] = op[q]
    BY Zenon DEF TypeOK
<1>4. Floor(record') \in Tso /\ Floor(record) \in Tso /\ Floor(record') >= Floor(record)
    BY Zenon, <1>2, WriteKeeps
<1>5. (SoundOp(p, s, n))'
  <2>1. (SoundOp(p, s, o))'
    BY Zenon, <1>2, WriteKeepsOp
  <2>2. n.pc = "ok" => n.expect < rev' /\ Floor(n.rec) <= Floor(record') /\ n.rec = record'
    BY <1>1, <1>4
  <2>. QED  BY Zenon, <2>1, <2>2 DEF SoundOp
<1>6. ASSUME NEW q \in Procs, NEW t \in Slots PROVE (OpSound(q, t))'
  <2>1. op[q][t] \in Op /\ SoundOp(q, t, op[q][t])
    BY Zenon, Parts DEF Inv, OpSound, Typed
  <2>2. (SoundOp(q, t, op[q][t]))' \/ (q = p /\ t = s)
    <3>1. ASSUME q # p \/ t # s PROVE op'[q][t] = op[q][t]
        BY Zenon, <1>3, <3>1
    <3>2. \A x \in Op : SoundOp(q, t, x) => (SoundOp(q, t, x))'
        BY Zenon, <1>2, WriteKeepsOp
    <3>. QED  BY Zenon, <2>1, <3>1, <3>2
  <2>. QED  BY Zenon, <1>3, <1>5, <2>2 DEF OpSound
<1>7. \A q \in Procs : q # p => Bounds(q)' = Bounds(q)
    BY Zenon, <1>3, SameBounds
<1>8. ASSUME NEW b \in Bounds(p)'
      PROVE  b \in Bounds(p) \/ (b = o.rec.ub /\ o.kind \in {"create", "refresh"})
  <2>1. CASE b = lease'[p].ub \/ b = req'[p].ub
    BY Zenon, <2>1, InBounds
  <2>2. ASSUME NEW t \in Slots, b = op'[p][t].base.ub PROVE b \in Bounds(p)
    BY <1>3, <2>2, InBounds
  <2>3. ASSUME NEW t \in Slots, Accepted(op'[p][t]), b = op'[p][t].rec.ub
        PROVE  b \in Bounds(p) \/ (b = o.rec.ub /\ o.kind \in {"create", "refresh"})
    BY <1>3, <2>3, InBounds DEF Accepted
  <2>. QED  BY <1>8, <2>1, <2>2, <2>3, InBoundsNext
<1>9. ASSUME NEW b \in Bounds(p)' PROVE b <= Floor(record')
  <2>1. o.rec.ub <= Floor(o.rec)
    BY Zenon, <1>1, FloorType
  <2>2. b \in Bounds(p) => b \in Tso /\ b <= Floor(record)
    BY Zenon, BoundType DEF Inv, FloorCoversBounds
  <2>. QED  BY <1>4, <1>8, <1>9, <2>1, <2>2
<1>10. ASSUME NEW i \in Nat, (CanIssue(p, i))' PROVE CanIssue(p, i) \/ i > Floor(record)
  <2>. SUFFICES ASSUME i <= Floor(record) PROVE CanIssue(p, i)
    BY <1>4
  <2>1. PICK b \in Bounds(p)' : next[p] <= i /\ i <= b
    BY Zenon, <1>10 DEF CanIssue
  <2>2. CASE b \in Bounds(p)
    BY Zenon, <2>1, <2>2 DEF CanIssue
  <2>3. CASE o.kind = "create"
    <3>1. record = NoRecord
        BY Zenon, <1>2, <2>3 DEF SoundOp, Inv
    <3>. QED  BY <3>1, NoRecordFloor
  <2>4. CASE o.kind = "refresh"
    <3>1. o.base.rev # 0 /\ o.base.rev = rev /\ Held(p, o.base)
        BY Zenon, <1>2, <2>4 DEF SoundOp
    <3>2. Floor(o.base) = Floor(record) /\ o.base.last < next[p]
        BY Zenon, <3>1 DEF Held
    <3>3. i <= o.base.ub
        BY <1>1, <2>1, <3>2 DEF Floor, Later
    <3>4. o.base.ub \in Bounds(p)
        BY Zenon, InBounds
    <3>. QED  BY Zenon, <2>1, <3>3, <3>4 DEF CanIssue
  <2>. QED  BY Zenon, <1>8, <2>1, <2>2, <2>3, <2>4
<1>. QED  BY Zenon, <1>2, <1>6, <1>7, <1>9, <1>10, WriteInv

\* Indices issued under a bound were p's alone, and leave its reach at once.
LEMMA ServeInv ==
    ASSUME TypeOK, TypeOK', Inv, NEW p \in Procs, NEW first \in Nat, NEW last \in Nat,
           next[p] <= first, first <= last, last <= req[p].ub,
           record' = record, rev' = rev, orphans' = orphans, lease' = lease, op' = op,
           next'[p] = last + 1, req'[p].ub = None,
           \A q \in Procs : q # p => next'[q] = next[q] /\ req'[q] = req[q],
           issued' = issued \cup first..last, dup' = dup \cup (issued \cap first..last)
    PROVE  Inv'
<1>1. /\ next[p] \in Nat /\ next'[p] >= next[p] /\ Floor(record) \in Tso
      /\ req[p].ub \in Bounds(p) /\ req[p].ub \in Tso /\ req[p].ub <= Floor(record)
  <2>1. next[p] \in Nat /\ Floor(record) \in Tso
    BY Zenon, Parts, FloorType DEF TypeOK, Typed
  <2>2. req[p].ub \in Bounds(p) /\ req[p].ub \in Tso /\ req[p].ub <= Floor(record)
    BY Zenon, InBounds, BoundType DEF Inv, FloorCoversBounds
  <2>3. next'[p] >= next[p]
    BY <2>1
  <2>. QED  BY Zenon, <2>1, <2>2, <2>3
<1>2. ASSUME NEW i \in first..last
      PROVE  i \in 0..Floor(record) /\ CanIssue(p, i) /\ i \notin issued
  <2>1. i \in Nat /\ next[p] <= i /\ i <= req[p].ub
    BY <1>1
  <2>2. CanIssue(p, i) /\ i \in 0..Floor(record)
    BY <1>1, <2>1 DEF CanIssue
  <2>. QED  BY Zenon, <2>2 DEF Inv, Exclusive
<1>3. dup' = {}
    BY Zenon, <1>2 DEF Inv, FencedUnique
<1>4. ASSUME NEW q \in Procs PROVE (Held(q, lease[q]))'
  <2>1. next'[q] >= next[q]
    BY <1>1, Parts DEF Typed
  <2>. QED  BY Zenon, <2>1, HeldKeeps DEF Inv
<1>5. ASSUME NEW q \in Procs, NEW s \in Slots PROVE (OpSound(q, s))'
  <2>1. next'[q] >= next[q]
    BY <1>1, Parts DEF Typed
  <2>. QED  BY Zenon, <2>1, SoundKeeps DEF Inv
<1>6. ASSUME NEW q \in Procs, NEW b \in Bounds(q)' PROVE b \in Bounds(q) \/ b = None
    BY <1>6, InBounds, InBoundsNext
<1>7. FloorCoversBounds'
  <2>1. None <= Floor(record)
    BY <1>1
  <2>. QED  BY Zenon, <1>6, <2>1 DEF FloorCoversBounds, Inv
<1>8. \A i \in issued' : i <= Floor(record)
  <2>1. \A i \in issued : i <= Floor(record)
    BY Zenon DEF Inv
  <2>2. \A i \in first..last : i <= Floor(record)
    BY <1>1, <1>2
  <2>. QED  BY Zenon, <2>1, <2>2
<1>9. ASSUME NEW q \in Procs, NEW i \in Nat, (CanIssue(q, i))'
      PROVE  CanIssue(q, i) /\ (q = p => i > last)
  <2>1. PICK b \in Bounds(q)' : next'[q] <= i /\ i <= b
    BY Zenon, <1>9 DEF CanIssue
  <2>2. b \in Bounds(q) /\ next[q] <= i
    BY <1>1, <1>6, <2>1, Parts DEF Typed
  <2>. QED  BY <2>1, <2>2 DEF CanIssue
<1>10. Exclusive'
  <2>. SUFFICES ASSUME NEW i \in 0..Floor(record), NEW q \in Procs, (CanIssue(q, i))'
                PROVE  /\ i \notin issued'
                       /\ \A r \in Procs : (CanIssue(r, i))' => r = q
    BY Zenon DEF Exclusive
  <2>1. i \in Nat
    BY <1>1
  <2>2. CanIssue(q, i) /\ (q = p => i > last)
    BY Zenon, <1>9, <2>1
  <2>3. i \notin issued /\ \A r \in Procs : CanIssue(r, i) => r = q
    BY Zenon, <2>2 DEF Inv, Exclusive
  <2>4. i \notin first..last
    BY <1>2, <2>1, <2>2, <2>3
  <2>. QED  BY Zenon, <1>9, <2>1, <2>3, <2>4
<1>11. (rev = 0 => record = NoRecord)' /\ (\A w \in orphans : Fresh(w))'
    BY Zenon DEF Inv, Fresh
<1>. QED  BY Zenon, <1>3, <1>4, <1>5, <1>7, <1>8, <1>10, <1>11 DEF Inv, FencedUnique

=============================================================================
