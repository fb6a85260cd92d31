------------------------- MODULE GeneratorLeaseProofs -------------------------
(***************************************************************************)
(* The bounded part of the lease protocol never issues an index twice, the *)
(* stored floor only grows and tokens fence: theorems about GeneratorLease *)
(* for any number of processes, any clocks and any number of writes.       *)
(*                                                                         *)
(* The second half is about time.  What a process knows of a lease is the  *)
(* record's or an extension of it followed, or the lease has been replaced *)
(* and has run out on every clock (TimeInv); so no two processes hold a    *)
(* valid lease at once, if the safety gap covers the skew of the clocks.   *)
(***************************************************************************)
EXTENDS GeneratorLeaseLemmas

USE DEF None, Tso, NoOwner

LEMMA StepInv ==
    ASSUME TypeOK, Inv, NEW p \in Procs, Step(p)
    PROVE  Inv'
<1>. DEFINE f == op[p]["flight"]
<1>0. /\ TypeOK' /\ next'[p] \in Nat /\ "flight" \in Slots /\ "batch" \in Slots
      /\ f \in Op /\ f.rec \in Record /\ f.base \in Lease /\ f.expect \in Nat
      /\ Typed(p) /\ Held(p, lease[p]) /\ \A s \in Slots : OpSound(p, s)
    BY Zenon, StepType, Parts, PartsNext, OpFields DEF Slots, Inv, Typed
<1>. HIDE DEF f
<1>1. CASE Tick(p)
  <2>1. Local(p) /\ LeaseKept(p) /\ ReqKept(p) /\ \A s \in Slots : OpKept(p, s)
    BY <1>0, <1>1 DEF Tick, Local, LeaseKept, ReqKept, OpKept, history, store, Typed
  <2>. QED  BY Zenon, <1>0, <1>1, <2>1, LocalStep DEF Tick, store, Inv
<1>4. CASE EnsureLease(p)
  <2>. DEFINE o == Advance(Idle, "loaded", "none", rev, record)
  <2>1. o \in Op /\ o.pc = "loaded" /\ o.base = NoLease
    BY Zenon, IdleType, AdvanceType DEF TypeOK, Pcs, Kinds, Advance, Idle
  <2>2. SoundOp(p, "flight", o)
    BY Zenon, <1>0, IdleType, NoLeaseHeld, LoadedSound DEF Idle
  <2>3. ~Accepted(o) /\ Covered(p, o.base.ub)
    BY <1>0, <2>1, KnownCovered DEF Accepted, NoLease
  <2>. HIDE DEF o
  <2>. QED  BY Zenon, <1>0, <1>4, <2>1, <2>2, <2>3, SlotStep
               DEF EnsureLease, store, history, ReqKept, o
<1>5. CASE LoadGenerator(p)
  <2>. DEFINE o == Advance(f, "loaded", "none", rev, record)
  <2>1. o \in Op /\ o.pc = "loaded" /\ o.base = f.base
    BY Zenon, <1>0, AdvanceType DEF TypeOK, Pcs, Kinds, Advance
  <2>2. SoundOp(p, "flight", o)
    BY ZenonT(40), <1>0, LoadedSound DEF OpSound, SoundOp, f
  <2>3. ~Accepted(o) /\ Covered(p, o.base.ub)
    BY Zenon, <1>0, <2>1, KnownCovered DEF Accepted, f
  <2>4. op' = [op EXCEPT ![p]["flight"] = o]
    BY Zenon, <1>5 DEF LoadGenerator, f
  <2>. HIDE DEF o
  <2>. QED  BY Zenon, <1>0, <1>5, <2>1, <2>2, <2>3, <2>4, SlotStep
               DEF LoadGenerator, store, history, ReqKept
<1>8. CASE SendTakeover(p)
  <2>. DEFINE floor == Floor(f.rec)
              base == IF floor = None THEN clock[p] ELSE Later(clock[p], Phys(floor + 1))
              r == [owner |-> InstanceOf[p], tok |-> f.rec.tok + 1,
                    exp |-> clock[p] + Ttl, last |-> floor, ub |-> UpperBound(base)]
              o == Advance(f, "cas", "takeover", f.expect, r)
  <2>1. op' = [op EXCEPT ![p]["flight"] = o]
    BY Zenon, <1>8 DEF SendTakeover, f
  <2>2. o \in Op
    BY <1>0, <2>1 DEF TypeOK
  <2>3. /\ o.pc = "cas" /\ o.kind = "takeover" /\ o.expect = f.expect /\ o.rec = r
        /\ o.base = f.base /\ r.last = floor /\ r.tok = f.rec.tok + 1
        /\ r.owner = InstanceOf[p]
    BY Zenon DEF Advance
  <2>. HIDE DEF o
  <2>4. r \in Record
    BY Zenon, <2>2, <2>3, OpFields
  <2>. HIDE DEF r, base
  <2>5. Floor(r) >= floor /\ f.rec.tok \in Nat
    BY Zenon, <1>0, <2>3, <2>4, FloorType, RecordFields
  <2>6. f.expect <= rev /\ (f.expect = rev => f.rec = record) /\ Held(p, f.base)
    BY Zenon, <1>0, <1>8 DEF SendTakeover, OpSound, SoundOp, f
  <2>7. SoundOp(p, "flight", o)
    BY <2>3, <2>5, <2>6 DEF SoundOp, Fresh
  <2>8. ~Accepted(o) /\ Covered(p, o.base.ub)
    BY Zenon, <1>0, <2>3, KnownCovered DEF Accepted, f
  <2>. QED  BY Zenon, <1>0, <1>8, <2>1, <2>2, <2>7, <2>8, SlotStep
               DEF SendTakeover, store, history, ReqKept
<1>9. CASE SendCreate(p)
  <2>. DEFINE r == [owner |-> InstanceOf[p], tok |-> 1, exp |-> clock[p] + Ttl,
                    last |-> None, ub |-> UpperBound(clock[p])]
              o == Advance(f, "cas", "create", 0, r)
  <2>1. op' = [op EXCEPT ![p]["flight"] = o]
    BY Zenon, <1>9 DEF SendCreate, f
  <2>2. o \in Op
    BY <1>0, <2>1 DEF TypeOK
  <2>3. /\ o.pc = "cas" /\ o.kind = "create" /\ o.expect = 0 /\ o.rec = r
        /\ o.base = f.base /\ r.last = None /\ r.tok = 1 /\ r.owner = InstanceOf[p]
    BY Zenon DEF Advance
  <2>. HIDE DEF o
  <2>4. r \in Record
    BY Zenon, <2>2, <2>3, OpFields
  <2>. HIDE DEF r
  <2>5. Floor(r) >= None /\ rev \in Nat /\ (rev = 0 => Floor(record) = None /\ record.tok = 0)
    <3>1. Floor(r) >= None
        BY <2>4, FloorType
    <3>. QED  BY Zenon, <3>1, NoRecordFloor DEF TypeOK, Inv
  <2>6. SoundOp(p, "flight", o)
    BY <1>0, <2>3, <2>5 DEF SoundOp, Fresh, OpSound, f
  <2>7. ~Accepted(o) /\ Covered(p, o.base.ub)
    BY Zenon, <1>0, <2>3, KnownCovered DEF Accepted, f
  <2>. QED  BY Zenon, <1>0, <1>9, <2>1, <2>2, <2>6, <2>7, SlotStep
               DEF SendCreate, store, history, ReqKept
<1>11. CASE ClaimConflict(p)
  <2>. DEFINE o == Advance(f, "load", "none", 0, NoRecord)
  <2>1. o \in Op /\ o.pc = "load" /\ o.base = f.base
    BY Zenon, <1>0, IdleType, AdvanceType DEF Pcs, Kinds, Advance
  <2>2. SoundOp(p, "flight", o) /\ ~Accepted(o)
    BY Zenon, <1>0, <2>1, QuietSound DEF OpSound, SoundOp, f
  <2>3. Covered(p, o.base.ub)
    BY Zenon, <1>0, <2>1, KnownCovered DEF f
  <2>4. op' = [op EXCEPT ![p]["flight"] = o]
    BY Zenon, <1>11 DEF ClaimConflict, f
  <2>. HIDE DEF o
  <2>. QED  BY Zenon, <1>0, <1>11, <2>1, <2>2, <2>3, <2>4, SlotStep
               DEF ClaimConflict, store, history, ReqKept
<1>12. CASE RenewTimelineLease(p)
  <2>1. RefreshOp(p, "lease", "ExplicitRenewal") \in Op
    BY Zenon, RefreshOpType DEF Goals
  <2>2. SoundOp(p, "flight", RefreshOp(p, "lease", "ExplicitRenewal"))
    BY Zenon, <1>0, <1>12, RefreshSound DEF RenewTimelineLease, CanRefresh, Goals
  <2>. QED  BY Zenon, <1>0, <1>12, <2>1, <2>2, RefreshKnown, SlotStep
            DEF RenewTimelineLease, store, history, ReqKept
<1>15. CASE BatchRefresh(p)
  <2>1. RefreshOp(p, "lease", "Maintenance") \in Op
    BY Zenon, RefreshOpType DEF Goals
  <2>2. SoundOp(p, "batch", RefreshOp(p, "lease", "Maintenance"))
    BY Zenon, <1>0, <1>15, RefreshSound DEF BatchRefresh, CanRefresh, Goals
  <2>. QED  BY Zenon, <1>0, <1>15, <2>1, <2>2, RefreshKnown, SlotStep
            DEF BatchRefresh, store, history, ReqKept
<1>6. CASE ReloadOwnLease(p)
  <2>. DEFINE l == [rev |-> f.expect, tok |-> f.rec.tok, exp |-> f.rec.exp,
                    last |-> Floor(f.rec), ub |-> f.rec.ub]
  <2>1. /\ lease' = [lease EXCEPT ![p] = l]
        /\ next' = [next EXCEPT ![p] = Later(@, Floor(f.rec) + 1)]
        /\ op' = [op EXCEPT ![p]["flight"] = Idle]
        /\ req' = ReqAfter(p, f.goal, TRUE)
    BY Zenon, <1>6 DEF ReloadOwnLease, Succeed, f
  <2>2. /\ f.expect <= rev /\ Floor(f.rec) <= Floor(record)
        /\ f.expect = rev => f.rec = record
        /\ f.rec.owner = InstanceOf[p]
    BY Zenon, <1>0, <1>6 DEF ReloadOwnLease, LocalOwner, OpSound, SoundOp, f
  <2>3. /\ next'[p] >= next[p] /\ next'[p] > Floor(f.rec) /\ lease'[p] = l
        /\ f.rec.ub \in Tso /\ Floor(f.rec) \in Tso /\ f.rec.ub <= Floor(f.rec)
        /\ Floor(record) \in Tso /\ record \in Record
    BY <1>0, <2>1, FloorType, RecordFields DEF TypeOK, Typed, Later
  <2>4. Floor(l) = Floor(f.rec)
    BY Zenon, <2>3 DEF Floor, Later
  <2>5. Covered(p, f.rec.ub)
    BY <1>0, <2>2, <2>3 DEF Covered
  <2>6. (Held(p, lease[p]))'
    <3>1. lease'[p].rev = f.expect /\ lease'[p].tok = f.rec.tok /\ lease'[p].last = Floor(f.rec)
        BY <2>3
    <3>2. rev' = rev /\ record' = record
        BY Zenon, <1>6 DEF ReloadOwnLease, store
    <3>3. Floor(lease'[p]) = Floor(f.rec)
        BY Zenon, <2>3, <2>4
    <3>. HIDE DEF l
    <3>. QED  BY Zenon, <2>2, <2>3, <3>1, <3>2, <3>3 DEF Held
  <2>7. LeaseKept(p)
    BY <2>3, <2>5, <2>6 DEF LeaseKept
  <2>8. ReqKept(p) /\ \A q \in Procs : q # p => req'[q] = req[q]
    BY Zenon, <1>0, <2>1, ReqAfterKept
  <2>. HIDE DEF l
  <2>9. \A q \in Procs : q # p => next'[q] = next[q] /\ lease'[q] = lease[q]
    BY Zenon, <2>1 DEF TypeOK
  <2>10. Still
    BY Zenon, <1>6 DEF ReloadOwnLease, store, history, Still, Inv
  <2>. QED  BY Zenon, <1>0, <2>1, <2>3, <2>7, <2>8, <2>9, <2>10, IdleQuiet, QuietStep
<1>7. CASE RefuseLease(p)
  <2>1. LeaseKept(p) /\ \A q \in Procs : q # p => lease'[q] = lease[q]
    BY Zenon, <1>0, <1>7, FailKept DEF RefuseLease, store
  <2>2. ReqKept(p) /\ \A q \in Procs : q # p => req'[q] = req[q]
    BY Zenon, <1>0, <1>7, ReqAfterKept DEF RefuseLease, Fail
  <2>3. Still /\ next' = next /\ op' = [op EXCEPT ![p]["flight"] = Idle]
    BY Zenon, <1>7 DEF RefuseLease, Fail, store, history, Still, Inv
  <2>. QED  BY Zenon, <1>0, <2>1, <2>2, <2>3, IdleQuiet, QuietStep
<1>14. CASE RefreshConflict(p)
  <2>. DEFINE o == Advance(f, "load", "none", 0, NoRecord)
  <2>1. o \in Op /\ o.pc = "load" /\ o.base = f.base
    BY Zenon, <1>0, IdleType, AdvanceType DEF Pcs, Kinds, Advance
  <2>2. op' = [op EXCEPT ![p]["flight"] = o] /\ lease' = [lease EXCEPT ![p] = NoLease]
    BY Zenon, <1>14 DEF RefreshConflict, f
  <2>3. lease'[p] = NoLease /\ \A q \in Procs : q # p => lease'[q] = lease[q]
    BY Zenon, <2>2 DEF TypeOK
  <2>4. LeaseKept(p)
    BY <1>0, <1>14, <2>3, NoLeaseHeld, KnownCovered
       DEF RefreshConflict, store, LeaseKept, Held, NoLease
  <2>. HIDE DEF o
  <2>5. Still /\ next' = next /\ req' = req /\ ReqKept(p)
    BY Zenon, <1>14 DEF RefreshConflict, store, history, Still, Inv, ReqKept
  <2>. QED  BY Zenon, <1>0, <2>1, <2>2, <2>3, <2>4, <2>5, QuietStep DEF f
<1>19. CASE ClearLeases(p)
  <2>1. op' = [op EXCEPT ![p]["flush"] = Idle] /\ lease' = [lease EXCEPT ![p] = NoLease]
    BY Zenon, <1>19 DEF ClearLeases
  <2>2. lease'[p] = NoLease /\ \A q \in Procs : q # p => lease'[q] = lease[q]
    BY Zenon, <2>1 DEF TypeOK
  <2>3. LeaseKept(p)
    BY <1>0, <1>19, <2>2, NoLeaseHeld, KnownCovered
       DEF ClearLeases, store, LeaseKept, Held, NoLease
  <2>4. "flush" \in Slots
    BY Zenon DEF Slots
  <2>5. Still /\ next' = next /\ req' = req /\ ReqKept(p)
    BY Zenon, <1>19 DEF ClearLeases, store, history, Still, Inv, ReqKept
  <2>. QED  BY Zenon, <1>0, <2>1, <2>2, <2>3, <2>4, <2>5, IdleQuiet, QuietStep
<1>10. CASE ClaimAccepted(p)
  <2>1. /\ next' = IF f.kind = "takeover"
                   THEN [next EXCEPT ![p] = Later(@, Floor(f.rec) + 1)] ELSE next
        /\ op' = [op EXCEPT ![p]["flight"] = Idle]
        /\ req' = ReqAfter(p, f.goal, TRUE)
        /\ f.pc = "ok" /\ f.kind \in {"create", "takeover"}
    BY Zenon, <1>10 DEF ClaimAccepted, Succeed, f
  <2>2. /\ next'[p] >= next[p]
        /\ f.kind = "takeover" => next'[p] > Floor(f.rec)
        /\ \A q \in Procs : q # p => next'[q] = next[q]
    <3>1. Floor(f.rec) \in Tso /\ next[p] \in Nat
        BY Zenon, <1>0, FloorType DEF Typed
    <3>2. CASE f.kind = "takeover"
        BY <2>1, <3>1, <3>2 DEF Later, TypeOK
    <3>3. CASE f.kind # "takeover"
        BY <2>1, <3>1, <3>3
    <3>. QED  BY Zenon, <3>2, <3>3
  <2>3. Still
    BY Zenon, <1>10 DEF ClaimAccepted, store, history, Still, Inv
  <2>4. LeaseKept(p) /\ \A q \in Procs : q # p => lease'[q] = lease[q]
    BY Zenon, <1>0, <1>10, <2>1, <2>2, <2>3, PublishedKept DEF ClaimAccepted, Still, f
  <2>5. ReqKept(p) /\ \A q \in Procs : q # p => req'[q] = req[q]
    BY Zenon, <1>0, <2>1, ReqAfterKept
  <2>. QED  BY Zenon, <1>0, <2>1, <2>2, <2>3, <2>4, <2>5, IdleQuiet, QuietStep
<1>13. CASE RefreshAccepted(p)
  <2>1. /\ next' = next /\ op' = [op EXCEPT ![p]["flight"] = Idle]
        /\ req' = ReqAfter(p, f.goal, TRUE)
        /\ f.pc = "ok" /\ f.kind = "refresh"
    BY Zenon, <1>13 DEF RefreshAccepted, Succeed, f
  <2>2. Still
    BY Zenon, <1>13 DEF RefreshAccepted, store, history, Still, Inv
  <2>3. LeaseKept(p) /\ \A q \in Procs : q # p => lease'[q] = lease[q]
    <3>1. next'[p] >= next[p] /\ record' = record /\ rev' = rev
        BY <1>0, <2>1, <2>2 DEF Still, Typed
    <3>2. lease' = [lease EXCEPT ![p] =
                      [rev |-> f.expect + 1, tok |-> f.rec.tok, exp |-> f.rec.exp,
                       last |-> f.rec.last, ub |-> f.rec.ub]]
        BY Zenon, <1>13 DEF RefreshAccepted, f
    <3>3. f = op[p]["flight"]
        BY Zenon DEF f
    <3>. QED  BY Zenon, <1>0, <2>1, <3>1, <3>2, <3>3, PublishedKept
  <2>4. ReqKept(p) /\ \A q \in Procs : q # p => req'[q] = req[q]
    BY Zenon, <1>0, <2>1, ReqAfterKept
  <2>. QED  BY Zenon, <1>0, <2>1, <2>2, <2>3, <2>4, IdleQuiet, QuietStep
<1>16. CASE BatchAccepted(p)
  <2>. DEFINE b == op[p]["batch"]
  <2>1. b \in Op /\ b.pc = "ok" /\ b.kind = "refresh"
    BY Zenon, <1>0, <1>16 DEF BatchAccepted, OpSound, SoundOp, Typed
  <2>2. /\ next' = next /\ req' = req /\ op' = [op EXCEPT ![p]["batch"] = Idle]
        /\ Still /\ ReqKept(p)
    BY Zenon, <1>16 DEF BatchAccepted, store, history, Still, Inv, ReqKept
  <2>3. LeaseKept(p) /\ \A q \in Procs : q # p => lease'[q] = lease[q]
    <3>1. next'[p] >= next[p] /\ record' = record /\ rev' = rev
        BY <1>0, <2>2 DEF Still, Typed
    <3>2. lease' = [lease EXCEPT ![p] =
                      [rev |-> b.expect + 1, tok |-> b.rec.tok, exp |-> b.rec.exp,
                       last |-> b.rec.last, ub |-> b.rec.ub]]
        BY Zenon, <1>16 DEF BatchAccepted
    <3>. QED  BY Zenon, <1>0, <2>1, <3>1, <3>2, PublishedKept
  <2>. QED  BY Zenon, <1>0, <2>2, <2>3, IdleQuiet, QuietStep
<1>20. CASE StoreError(p)
  <2>1. /\ next' = next /\ op' = [op EXCEPT ![p]["flight"] = Idle] /\ Fail(p)
        /\ req' = ReqAfter(p, f.goal, FALSE)
        /\ record' = record /\ rev' = rev /\ issued' = issued /\ dup' = dup
    BY Zenon, <1>20 DEF StoreError, Fail, history, f
  <2>2. Still
    BY Zenon, <1>0, <1>20, <2>1, UndeliveredFresh DEF StoreError, Still
  <2>3. LeaseKept(p) /\ \A q \in Procs : q # p => lease'[q] = lease[q]
    BY Zenon, <1>0, <2>1, FailKept
  <2>4. ReqKept(p) /\ \A q \in Procs : q # p => req'[q] = req[q]
    BY Zenon, <1>0, <2>1, ReqAfterKept
  <2>. QED  BY Zenon, <1>0, <2>1, <2>2, <2>3, <2>4, IdleQuiet, QuietStep
<1>3. ASSUME NEW s \in Slots, Abandon(p, s) PROVE Inv'
  <2>1. /\ next' = next /\ lease' = lease /\ op' = [op EXCEPT ![p][s] = Idle]
        /\ req' = ReqAfter(p, op[p][s].goal, FALSE) /\ LeaseKept(p)
        /\ record' = record /\ rev' = rev /\ issued' = issued /\ dup' = dup
    BY Zenon, <1>3 DEF Abandon, history, LeaseKept
  <2>2. Still
    BY Zenon, <1>3, <2>1, UndeliveredFresh DEF Abandon, Still
  <2>3. ReqKept(p) /\ \A q \in Procs : q # p => req'[q] = req[q]
    BY Zenon, <1>0, <2>1, ReqAfterKept
  <2>. QED  BY Zenon, <1>0, <2>1, <2>2, <2>3, IdleQuiet, QuietStep
<1>21. CASE CaptureBound(p)
  <2>1. /\ Still /\ next' = next /\ lease' = lease /\ op' = op
        /\ req' = [req EXCEPT ![p] = [st |-> "serve", ub |-> ValidUpperBound(p)]]
    BY Zenon, <1>21 DEF CaptureBound, store, history, Still, Inv
  <2>2. ReqKept(p) /\ \A q \in Procs : q # p => req'[q] = req[q]
    BY Zenon, <1>0, <2>1, KnownCovered DEF ReqKept, ValidUpperBound, TypeOK
  <2>. QED  BY Zenon, <1>0, <2>1, <2>2, ReqStep
<1>23. CASE AllocGrant(p)
  <2>1. /\ Still /\ next' = next /\ lease' = lease /\ op' = op
        /\ req' = [req EXCEPT ![p] = [st |-> "guard", ub |-> ValidUpperBound(p)]]
    BY Zenon, <1>23 DEF AllocGrant, store, history, Still, Inv
  <2>2. ReqKept(p) /\ \A q \in Procs : q # p => req'[q] = req[q]
    BY Zenon, <1>0, <2>1, KnownCovered DEF ReqKept, ValidUpperBound, TypeOK
  <2>. QED  BY Zenon, <1>0, <2>1, <2>2, ReqStep
<1>24. CASE Revalidate(p) \/ HitBound(p) \/ DropRequest(p)
  <2>1. /\ Still /\ next' = next /\ lease' = lease /\ op' = op
        /\ \/ req' = [req EXCEPT ![p] = NoReq]
           \/ \E st : req' = [req EXCEPT ![p] = [st |-> st, ub |-> req[p].ub]]
    BY Zenon, <1>24 DEF Revalidate, HitBound, DropRequest, store, history, Still, Inv
  <2>2. ReqKept(p) /\ \A q \in Procs : q # p => req'[q] = req[q]
    BY <1>0, <2>1, KnownCovered DEF ReqKept, NoReq, TypeOK
  <2>. QED  BY Zenon, <1>0, <2>1, <2>2, ReqStep
<1>22. CASE AllocEnsure(p)
  <2>1. /\ Still /\ next' = next /\ lease' = lease
        /\ \/ op' = op \/ op' = [op EXCEPT ![p]["flight"] = Loading("alloc")]
        /\ \E st : req' = [req EXCEPT ![p] = [st |-> st, ub |-> None]]
    BY Zenon, <1>22 DEF AllocEnsure, store, history, Still, Inv
  <2>2. ReqKept(p) /\ \A q \in Procs : q # p => req'[q] = req[q]
    BY <1>0, <2>1, KnownCovered DEF ReqKept, TypeOK
  <2>3. CASE op' = op
    BY Zenon, <1>0, <2>1, <2>2, <2>3, ReqStep
  <2>4. CASE op' = [op EXCEPT ![p]["flight"] = Loading("alloc")]
    <3>1. Loading("alloc") \in Op /\ Loading("alloc").pc = "load" /\ Loading("alloc").base = NoLease
        BY Zenon, LoadingType DEF Loading, Goals
    <3>. QED  BY Zenon, <1>0, <2>1, <2>2, <2>4, <3>1, QuietStep DEF LeaseKept
  <2>. QED  BY Zenon, <2>1, <2>3, <2>4
<1>27. CASE ExtendHorizon(p)
  <2>1. /\ Still /\ next' = next /\ lease' = lease
        /\ \/ req' = [req EXCEPT ![p] = NoReq]
           \/ req' = [req EXCEPT ![p] = [st |-> "ensuring", ub |-> None]]
    BY Zenon, <1>27 DEF ExtendHorizon, store, history, Still, Inv
  <2>2. ReqKept(p) /\ \A q \in Procs : q # p => req'[q] = req[q]
    BY <1>0, <2>1, KnownCovered DEF ReqKept, NoReq, TypeOK
  <2>3. CASE op' = op
    BY Zenon, <1>0, <2>1, <2>2, <2>3, ReqStep
  <2>4. CASE op' = [op EXCEPT ![p]["flight"] = Loading("horizon")]
    <3>1. /\ Loading("horizon") \in Op /\ Loading("horizon").pc = "load"
          /\ Loading("horizon").base = NoLease
        BY Zenon, LoadingType DEF Loading, Goals
    <3>. QED  BY Zenon, <1>0, <2>1, <2>2, <2>4, <3>1, QuietStep DEF LeaseKept
  <2>5. CASE /\ CanRefresh(p, "HorizonRequired")
             /\ op' = [op EXCEPT ![p]["flight"] = RefreshOp(p, "horizon", "HorizonRequired")]
    <3>1. RefreshOp(p, "horizon", "HorizonRequired") \in Op
        BY Zenon, RefreshOpType DEF Goals
    <3>2. SoundOp(p, "flight", RefreshOp(p, "horizon", "HorizonRequired"))
        BY Zenon, <1>0, <2>5, RefreshSound DEF CanRefresh, Goals
    <3>3. orphans' = orphans /\ record' = record /\ rev' = rev /\ issued' = issued /\ dup' = dup
        BY Zenon, <1>27 DEF ExtendHorizon, store, history
    <3>. QED  BY Zenon, <1>0, <2>1, <2>2, <2>5, <3>1, <3>2, <3>3, RefreshKnown, SlotStep
  <2>. QED  BY Zenon, <1>27, <2>3, <2>4, <2>5 DEF ExtendHorizon
<1>18. CASE Shutdown(p)
  <2>. DEFINE desired == Later(record.last, LocalLast(p))
              r == [owner |-> record.owner, tok |-> record.tok, exp |-> record.exp,
                    last |-> desired, ub |-> record.ub]
              o == Advance(Idle, "cas", "flush", rev, r)
  <2>1. /\ Still /\ next' = next /\ lease' = lease /\ req' = req /\ orphans' = orphans
        /\ ReqKept(p) /\ "flush" \in Slots
    BY Zenon, <1>18 DEF Shutdown, store, history, Still, Inv, ReqKept, Slots
  <2>2. CASE op' = op
    BY Zenon, <1>0, <2>1, <2>2, ReqStep
  <2>3. CASE op' = [op EXCEPT ![p]["flush"] = o]
    <3>1. record \in Record /\ LocalLast(p) \in Tso /\ rev \in Nat
        BY <1>0 DEF TypeOK, LocalLast, Typed
    <3>2. desired \in Tso /\ desired >= record.last /\ record.last \in Tso /\ record.ub \in Tso
        BY Zenon, <3>1, RecordFields, LaterType
    <3>3. r \in Record /\ Floor(r) >= Floor(record) /\ r.tok = record.tok /\ r.owner = record.owner
        <4>1. r \in Record
            BY Zenon, <3>1, <3>2 DEF Record
        <4>2. r.last = desired /\ r.ub = record.ub /\ r.tok = record.tok /\ r.owner = record.owner
            BY Zenon
        <4>. HIDE DEF r, desired
        <4>3. Floor(r) >= Floor(record)
            BY <3>2, <4>2 DEF Floor, Later
        <4>. QED  BY Zenon, <4>1, <4>2, <4>3
    <3>4. o \in Op
        BY <2>1, <2>3, <1>0 DEF TypeOK
    <3>5. /\ o.pc = "cas" /\ o.kind = "flush" /\ o.expect = rev /\ o.rec = r /\ o.base = NoLease
        BY Zenon DEF Advance, Idle
    <3>. HIDE DEF o, r, desired
    <3>6. Fresh(o)
        BY <3>1, <3>3, <3>5, RecordFields DEF Fresh
    <3>7. SoundOp(p, "flush", o)
        BY Zenon, <3>5, <3>6, NoLeaseHeld DEF SoundOp
    <3>8. ~Accepted(o) /\ Covered(p, o.base.ub)
        BY <1>0, <3>5, KnownCovered DEF Accepted, NoLease
    <3>. QED  BY Zenon, <1>0, <2>1, <2>3, <3>4, <3>7, <3>8, SlotStep DEF Still
  <2>. QED  BY Zenon, <1>18, <2>2, <2>3 DEF Shutdown
<1>17. CASE BatchConflict(p)
  <2>. DEFINE o == IF CanRefresh(p, "Maintenance")
                   THEN RefreshOp(p, "lease", "Maintenance") ELSE Idle
  <2>1. op' = [op EXCEPT ![p]["batch"] = Idle, ![p]["flight"] = o]
    BY Zenon, <1>17 DEF BatchConflict
  <2>2. SoundOp(p, "flight", o) /\ ~Accepted(o) /\ Covered(p, o.base.ub)
    <3>1. CASE CanRefresh(p, "Maintenance")
        BY Zenon, <1>0, <3>1, RefreshSound, RefreshKnown DEF CanRefresh, Goals
    <3>2. CASE ~CanRefresh(p, "Maintenance")
        BY Zenon, <1>0, <3>2, IdleSound
    <3>. QED  BY Zenon, <3>1, <3>2
  <2>. HIDE DEF o
  <2>3. SoundOp(p, "batch", Idle) /\ ~Accepted(Idle) /\ Covered(p, Idle.base.ub)
    BY Zenon, <1>0, IdleSound
  <2>4. /\ op'[p]["flight"] = o /\ op'[p]["batch"] = Idle /\ op'[p]["flush"] = op[p]["flush"]
        /\ \A q \in Procs : q # p => op'[q] = op[q]
    BY ZenonT(40), <1>0, <2>1 DEF TypeOK, Slots
  <2>5. Still /\ next' = next /\ lease' = lease /\ req' = req /\ ReqKept(p) /\ LeaseKept(p)
    BY Zenon, <1>17 DEF BatchConflict, store, history, Still, Inv, ReqKept, LeaseKept
  <2>6. OpKept(p, "flight")
    BY Zenon, <2>2, <2>4, <2>5 DEF OpKept, OpSound, SoundOp, Held, Fresh, Still
  <2>7. OpKept(p, "batch")
    BY Zenon, <2>3, <2>4, <2>5 DEF OpKept, OpSound, SoundOp, Held, Fresh, Still
  <2>8. \A s \in Slots : OpKept(p, s)
    BY Zenon, <2>4, <2>6, <2>7 DEF OpKept, Slots
  <2>9. Local(p)
    <3>1. next'[p] = next[p] /\ next[p] \in Nat
        BY Zenon, <1>0, <2>5 DEF Typed
    <3>2. next'[p] >= next[p]
        BY <3>1
    <3>. QED  BY Zenon, <2>4, <2>5, <3>2 DEF Local, Still
  <2>. QED  BY Zenon, <1>0, <2>5, <2>8, <2>9, LocalStep DEF Still
<1>2. ASSUME NEW s \in Slots, Commit(p, s) PROVE Inv'
  <2>. DEFINE o == op[p][s]
              ok == Advance(o, "ok", o.kind, o.expect, o.rec)
              conflict == Advance(o, "conflict", o.kind, o.expect, o.rec)
  <2>1. o \in Op /\ o.pc = "cas" /\ SoundOp(p, s, o)
    BY Zenon, <1>0, <1>2 DEF Typed, Commit, OpSound
  <2>2. o.kind \in Kinds /\ o.expect \in Nat /\ o.rec \in Record
    BY Zenon, <2>1 DEF Op
  <2>3. /\ ok \in Op /\ ok.pc = "ok" /\ ok.kind = o.kind /\ ok.expect = o.expect
        /\ ok.rec = o.rec /\ ok.base = o.base
    BY Zenon, <2>1, <2>2, AdvanceType DEF Pcs, Advance
  <2>4. /\ conflict \in Op /\ conflict.pc = "conflict" /\ conflict.kind = o.kind
        /\ conflict.expect = o.expect /\ conflict.rec = o.rec /\ conflict.base = o.base
    BY Zenon, <2>1, <2>2, AdvanceType DEF Pcs, Advance
  <2>5. /\ orphans' = orphans /\ next' = next /\ lease' = lease /\ req' = req
        /\ issued' = issued /\ dup' = dup
    BY Zenon, <1>2 DEF Commit, history
  <2>6. CASE /\ o.expect = rev /\ record' = o.rec /\ rev' = rev + 1
             /\ op' = [op EXCEPT ![p][s] = ok] \/ op' = [op EXCEPT ![p][s] = conflict]
    <3>. HIDE DEF ok, conflict
    <3>1. CASE op' = [op EXCEPT ![p][s] = ok]
        BY Zenon, <1>0, <2>1, <2>3, <2>5, <2>6, <3>1, AcceptInv
    <3>2. CASE op' = [op EXCEPT ![p][s] = conflict]
        BY Zenon, <1>0, <2>1, <2>4, <2>5, <2>6, <3>2, AcceptInv
    <3>. QED  BY Zenon, <2>6, <3>1, <3>2
  <2>7. CASE record' = record /\ rev' = rev /\ op' = [op EXCEPT ![p][s] = conflict]
    <3>1. SoundOp(p, s, conflict) /\ ~Accepted(conflict)
        BY Zenon, <2>1, <2>4, QuietSound DEF SoundOp
    <3>2. Covered(p, conflict.base.ub)
        BY Zenon, <1>0, <2>4, KnownCovered
    <3>3. ReqKept(p)
        BY Zenon, <2>5 DEF ReqKept
    <3>. HIDE DEF conflict
    <3>. QED  BY Zenon, <1>0, <2>4, <2>5, <2>7, <3>1, <3>2, <3>3, SlotStep
  <2>. QED  BY Zenon, <1>2, <2>6, <2>7 DEF Commit
<1>25. CASE Serve(p)
  <2>1. PICK count \in Counts, floorIndex \in FloorIndices, borrow \in FutureBorrows :
            AllocateAfter(p, count, floorIndex, borrow)
    BY Zenon, <1>25 DEF Serve
  <2>. DEFINE first == RangeStart(p, floorIndex)
              last == first + count - 1
  <2>2. first \in Nat /\ last \in Nat /\ next[p] <= first /\ first <= last /\ count \in Nat \ {0}
    <3>1. first \in Nat /\ next[p] <= first
        BY Zenon, <1>0, ConstantsAssumption, RangeStartType DEF Typed
    <3>2. count \in Nat \ {0}
        BY Zenon, ConstantsAssumption
    <3>. HIDE DEF first
    <3>. QED  BY <3>1, <3>2
  <2>3. /\ next' = [next EXCEPT ![p] = last + 1]
        /\ \/ /\ req[p].ub # None /\ last <= req[p].ub
              /\ issued' = issued \cup first..last
              /\ dup' = dup \cup (issued \cap first..last)
           \/ issued' = issued /\ dup' = dup
    BY Zenon, <2>1 DEF AllocateAfter
  <2>4. /\ record' = record /\ rev' = rev /\ orphans' = orphans /\ lease' = lease /\ op' = op
        /\ req' = [req EXCEPT ![p] = NoReq]
    BY Zenon, <1>25 DEF Serve, store
  <2>. HIDE DEF first, last
  <2>5. /\ next'[p] = last + 1 /\ next[p] \in Nat /\ next'[p] >= next[p]
        /\ \A q \in Procs : q # p => next'[q] = next[q] /\ req'[q] = req[q]
        /\ req'[p].ub = None
    <3>1. next[p] \in Nat /\ next'[p] = last + 1
        BY Zenon, <1>0, <2>3 DEF Typed, TypeOK
    <3>2. next'[p] >= next[p]
        BY <2>2, <3>1
    <3>3. \A q \in Procs : q # p => next'[q] = next[q] /\ req'[q] = req[q]
        BY Zenon, <2>3, <2>4 DEF TypeOK
    <3>4. req'[p].ub = None
        BY Zenon, <2>4 DEF TypeOK, NoReq
    <3>. QED  BY Zenon, <3>1, <3>2, <3>3, <3>4
  <2>6. LeaseKept(p) /\ ReqKept(p) /\ \A s \in Slots : OpKept(p, s)
    BY Zenon, <1>0, <2>4, <2>5, KnownCovered DEF LeaseKept, ReqKept, OpKept
  <2>7. CASE issued' = issued /\ dup' = dup
    <3>1. Local(p)
        BY Zenon, <2>4, <2>5, <2>7 DEF Local
    <3>. QED  BY Zenon, <1>0, <2>4, <2>6, <3>1, LocalStep DEF Inv
  <2>8. CASE /\ req[p].ub # None /\ last <= req[p].ub
             /\ issued' = issued \cup first..last
             /\ dup' = dup \cup (issued \cap first..last)
    BY Zenon, <1>0, <2>2, <2>4, <2>5, <2>8, ServeInv
  <2>. QED  BY Zenon, <2>3, <2>7, <2>8
<1>. QED
  BY ZenonT(40), <1>1, <1>2, <1>3, <1>4, <1>5, <1>6, <1>7, <1>8, <1>9, <1>10, <1>11, <1>12, <1>13,
     <1>14, <1>15, <1>16, <1>17, <1>18, <1>19, <1>20, <1>21, <1>22, <1>23, <1>24, <1>25,
     <1>27 DEF Step

LEMMA OrphanInv ==
    ASSUME TypeOK, TypeOK', Inv, NEW w \in orphans, CommitOrphan(w)
    PROVE  Inv'
<1>1. /\ Fresh(w) /\ w.expect = rev /\ record' = w.rec /\ rev' = rev + 1
      /\ next' = next /\ lease' = lease /\ op' = op /\ req' = req
      /\ issued' = issued /\ dup' = dup /\ orphans' \subseteq orphans
    BY Zenon DEF CommitOrphan, Inv, history
<1>2. PICK p : p \notin Procs
    BY Zenon, NoSetContainsEverything
<1>3. ASSUME NEW q \in Procs, NEW t \in Slots PROVE (OpSound(q, t))'
  <2>1. op[q][t] \in Op /\ SoundOp(q, t, op[q][t])
    BY Zenon, Parts DEF Inv, OpSound, Typed
  <2>2. \A x \in Op : SoundOp(q, t, x) => (SoundOp(q, t, x))'
    BY Zenon, <1>1, WriteKeepsOp
  <2>. QED  BY Zenon, <1>1, <2>1, <2>2 DEF OpSound
<1>4. \A q \in Procs : Bounds(q)' = Bounds(q)
    BY Zenon, <1>1, SameBounds
<1>. QED  BY Zenon, <1>1, <1>2, <1>3, <1>4, WriteInv

LEMMA InitInv == Init => Inv
<1>. SUFFICES ASSUME Init PROVE Inv
    OBVIOUS
<1>1. TypeOK
    BY Zenon, TypeInit
<1>2. /\ record = NoRecord /\ rev = 0 /\ orphans = {} /\ issued = {} /\ dup = {}
      /\ \A p \in Procs : lease[p] = NoLease /\ req[p] = NoReq
      /\ \A p \in Procs, s \in Slots : op[p][s] = Idle
    BY Zenon DEF Init
<1>3. Floor(record) = None
    BY Zenon, <1>2 DEF Floor, Later, NoRecord
<1>4. \A p \in Procs : Held(p, NoLease)
    BY Zenon, <1>1, NoLeaseHeld
<1>5. \A p \in Procs, s \in Slots : OpSound(p, s)
    BY Zenon, <1>2, <1>4, IdleQuiet, QuietSound DEF OpSound
<1>6. \A p \in Procs : \A b \in Bounds(p) : b = None
    BY <1>2, InBounds, IdleQuiet DEF NoLease, NoReq, Accepted
<1>7. FloorCoversBounds
    BY <1>3, <1>6 DEF FloorCoversBounds
<1>8. Exclusive
    BY <1>3 DEF Exclusive
<1>. QED  BY Zenon, <1>2, <1>4, <1>5, <1>7, <1>8 DEF Inv, FencedUnique

\* The inductive invariant of the generator lease.
THEOREM InvHolds == Spec => []Inv
<1>1. Init => Inv
    BY Zenon, InitInv
<1>2. TypeOK /\ TypeOK' /\ Inv /\ [Next]_vars => Inv'
  <2>. SUFFICES ASSUME TypeOK, TypeOK', Inv, [Next]_vars PROVE Inv'
    OBVIOUS
  <2>1. ASSUME NEW p \in Procs, Step(p) PROVE Inv'
    BY Zenon, <2>1, StepInv
  <2>2. ASSUME NEW w \in orphans, CommitOrphan(w) PROVE Inv'
    BY Zenon, <2>2, OrphanInv
  <2>3. CASE UNCHANGED vars
    <3>1. \A p \in Procs : Bounds(p)' = Bounds(p)
        BY Zenon, <2>3, SameBounds DEF vars
    <3>2. /\ (rev = 0 => record = NoRecord)' /\ (\A w \in orphans : Fresh(w))'
          /\ (\A p \in Procs : Held(p, lease[p]))'
        BY Zenon, <2>3 DEF vars, Inv, Fresh, Held
    <3>3. (\A p \in Procs, s \in Slots : OpSound(p, s))'
      <4>1. op' = op /\ rev' = rev /\ record' = record /\ next' = next
          BY Zenon, <2>3 DEF vars
      <4>2. ASSUME NEW p \in Procs, NEW s \in Slots PROVE (OpSound(p, s))'
        <5>1. OpSound(p, s)
            BY Zenon DEF Inv
        <5>. QED  BY ZenonT(40), <4>1, <5>1 DEF OpSound, SoundOp, Fresh, Held
      <4>. QED  BY Zenon, <4>2
    <3>4. FloorCoversBounds' /\ (\A i \in issued : i <= Floor(record))' /\ FencedUnique'
        BY Zenon, <2>3, <3>1 DEF vars, Inv, FloorCoversBounds, FencedUnique
    <3>5. Exclusive'
        BY <2>3, <3>1 DEF vars, Inv, Exclusive, CanIssue
    <3>. QED  BY Zenon, <3>2, <3>3, <3>4, <3>5 DEF Inv
  <2>. QED  BY Zenon, <2>1, <2>2, <2>3 DEF Next
<1>. QED  BY <1>1, <1>2, TypeCorrect, PTL DEF Spec

\* No index is issued twice under a bound: the fence of allocate_after and the
\* floor a new owner starts above, for any number of processes, any clocks, any
\* lease length and any delay or loss of writes.
THEOREM NoFencedReissue == Spec => []FencedUnique
<1>1. Inv => FencedUnique
    BY Zenon DEF Inv
<1>. QED  BY <1>1, InvHolds, PTL

\* The floor in the record covers every bound a process may still issue under,
\* whatever became of the writes that carried them.
THEOREM FloorCovers == Spec => []FloorCoversBounds
<1>1. Inv => FloorCoversBounds
    BY Zenon DEF Inv
<1>. QED  BY <1>1, InvHolds, PTL

\* The record changes only by a write that was fresh.
LEMMA RecordStep ==
    ASSUME Inv, [Next]_vars
    PROVE  \/ record' = record
           \/ \E w : Fresh(w) /\ w.expect = rev /\ record' = w.rec
<1>1. ASSUME NEW p \in Procs, NEW s \in Slots, Commit(p, s)
      PROVE  record' = record \/ \E w : Fresh(w) /\ w.expect = rev /\ record' = w.rec
  <2>1. op[p][s].pc = "cas" /\ OpSound(p, s)
    BY Zenon, <1>1 DEF Commit, Inv
  <2>2. Fresh(op[p][s])
    BY Zenon, <2>1 DEF OpSound, SoundOp
  <2>3. record' = record \/ (op[p][s].expect = rev /\ record' = op[p][s].rec)
    BY Zenon, <1>1 DEF Commit
  <2>. QED  BY Zenon, <2>2, <2>3
<1>2. ASSUME NEW p \in Procs, Step(p), \A s \in Slots : ~Commit(p, s) PROVE record' = record
  <2>1. CASE \/ Tick(p) \/ EnsureLease(p) \/ LoadGenerator(p) \/ ReloadOwnLease(p)
             \/ RefuseLease(p) \/ SendTakeover(p) \/ SendCreate(p) \/ ClaimAccepted(p)
             \/ ClaimConflict(p)
    BY Zenon, <2>1
       DEF Tick, EnsureLease, LoadGenerator, ReloadOwnLease, RefuseLease, SendTakeover,
                SendCreate, ClaimAccepted, ClaimConflict, store
  <2>2. CASE \/ RenewTimelineLease(p) \/ RefreshAccepted(p) \/ RefreshConflict(p)
             \/ BatchRefresh(p) \/ BatchAccepted(p) \/ BatchConflict(p)
             \/ Shutdown(p) \/ ClearLeases(p)
    BY Zenon, <2>2 DEF RenewTimelineLease, RefreshAccepted, RefreshConflict, BatchRefresh,
                BatchAccepted, BatchConflict, Shutdown, ClearLeases, store
  <2>3. CASE \/ StoreError(p) \/ \E s \in Slots : Abandon(p, s)
    BY Zenon, <2>3 DEF StoreError, Abandon
  <2>4. CASE \/ CaptureBound(p) \/ AllocEnsure(p) \/ AllocGrant(p) \/ Revalidate(p)
             \/ Serve(p) \/ HitBound(p) \/ ExtendHorizon(p) \/ DropRequest(p)
    BY Zenon, <2>4 DEF CaptureBound, AllocEnsure, AllocGrant, Revalidate, Serve, HitBound,
                ExtendHorizon, DropRequest, store
  <2>. QED  BY Zenon, <1>2, <2>1, <2>2, <2>3, <2>4 DEF Step
<1>3. ASSUME NEW w \in orphans, CommitOrphan(w)
      PROVE  Fresh(w) /\ w.expect = rev /\ record' = w.rec
    BY Zenon, <1>3 DEF CommitOrphan, Inv
<1>4. CASE UNCHANGED vars
    BY Zenon, <1>4 DEF vars
<1>. QED  BY Zenon, <1>1, <1>2, <1>3, <1>4 DEF Next

\* No write, however late or often repeated, lowers the floor a new owner starts
\* above (last_issued_tso and issued_upper_bound of the record).
THEOREM FloorMonotone == Spec => FloorNeverFalls
<1>1. TypeOK /\ Inv /\ [Next]_vars => [Floor(record') >= Floor(record)]_vars
  <2>. SUFFICES ASSUME TypeOK, Inv, [Next]_vars PROVE Floor(record') >= Floor(record)
    OBVIOUS
  <2>1. Floor(record) \in Tso
    BY Zenon, FloorType DEF TypeOK
  <2>. QED  BY <2>1, RecordStep DEF Fresh
<1>. QED  BY <1>1, TypeCorrect, InvHolds, PTL DEF Spec, FloorNeverFalls

\* A write that changes the owner carries a larger fencing_token.
THEOREM TokenFences == Spec => TokenFencesOwner
<1>. DEFINE A == /\ record'.tok >= record.tok
                 /\ rev # 0 /\ record'.owner # record.owner => record'.tok > record.tok
<1>1. TypeOK /\ Inv /\ [Next]_vars => [A]_vars
  <2>. SUFFICES ASSUME TypeOK, Inv, [Next]_vars PROVE A
    OBVIOUS
  <2>1. record.tok \in Nat
    BY Zenon, RecordFields DEF TypeOK
  <2>. QED  BY <2>1, RecordStep DEF Fresh
<1>. QED  BY <1>1, TypeCorrect, InvHolds, PTL DEF Spec, TokenFencesOwner

-----------------------------------------------------------------------------
(* No two leases are valid at once *)

LEMMA ClockType ==
    ASSUME TypeOK
    PROVE  /\ \A q \in Procs : clock[q] \in Nat /\ clock[q] + Ttl \in Nat
           /\ record \in Record /\ record.tok \in Nat /\ record.exp \in Nat /\ rev \in Nat
<1>1. \A q \in Procs : clock[q] \in Nat
    BY Zenon DEF TypeOK
<1>2. record \in Record /\ rev \in Nat
    BY Zenon DEF TypeOK
<1>. QED  BY <1>1, <1>2, RecordFields, ConstantsAssumption

\* A process that is alone under its id wrote what carries that id.
LEMMA SoleOwner ==
    ASSUME NEW p \in Procs, NEW q \in Procs, Sole(q), InstanceOf[p] = InstanceOf[q]
    PROVE  p = q
BY Zenon DEF Sole

\* A lease read while it is on record.
LEMMA KnownNow ==
    ASSUME TypeOK, TimeInv, NEW p \in Procs, Sole(p), record.owner = InstanceOf[p]
    PROVE  Known(p, rev, record.tok, record.exp)
<1>1. record.exp <= clock[p] + Ttl
    BY Zenon DEF TimeInv
<1>. QED  BY <1>1, ClockType DEF Known

\* While the record stays as it is, time only brings the end of a lease closer.
LEMMA KnownKeeps ==
    ASSUME TypeOK, TypeOK', record' = record, rev' = rev,
           \A q \in Procs : clock[q] <= clock'[q],
           NEW p \in Procs, NEW at, NEW tok \in Nat, NEW exp \in Nat, Known(p, at, tok, exp)
    PROVE  (Known(p, at, tok, exp))'
<1>1. \A q \in Procs : clock[q] \in Nat /\ clock'[q] \in Nat
    BY Zenon DEF TypeOK
<1>2. Over(exp) => (Over(exp))'
    BY <1>1 DEF Over
<1>3. exp <= clock'[p] + Ttl
  <2>1. exp <= clock[p] + Ttl
    BY Zenon DEF Known
  <2>. QED  BY <1>1, <2>1, ConstantsAssumption
<1>. QED  BY Zenon, <1>2, <1>3 DEF Known

LEMMA AheadKeeps ==
    ASSUME TypeOK, TypeOK', record' = record, rev' = rev,
           \A q \in Procs : clock[q] <= clock'[q],
           NEW w, w.rec \in Record, Ahead(w)
    PROVE  (Ahead(w))'
<1>1. \A q \in Procs : clock[q] \in Nat /\ clock'[q] \in Nat
    BY Zenon DEF TypeOK
<1>2. Over(record.exp) => (Over(record.exp))'
    BY <1>1, ClockType DEF Over
<1>3. ASSUME NEW p \in Procs, Sole(p), w.rec.owner = InstanceOf[p] PROVE w.rec.exp <= clock'[p] + Ttl
  <2>1. w.rec.exp <= clock[p] + Ttl
    BY Zenon, <1>3 DEF Ahead
  <2>. QED  BY <1>1, <2>1, RecordFields, ConstantsAssumption
<1>. QED  BY ZenonT(40), <1>2, <1>3 DEF Ahead, Sole

\* The leases and operations of a process, then.
LEMMA TimedKeeps ==
    ASSUME TypeOK, TypeOK', record' = record, rev' = rev,
           \A q \in Procs : clock[q] <= clock'[q], NEW p \in Procs
    PROVE  /\ \A l \in Lease : TimedLease(p, l) => (TimedLease(p, l))'
           /\ \A o \in Op : TimedOp(p, o) => (TimedOp(p, o))'
<1>1. ASSUME NEW l \in Lease, TimedLease(p, l) PROVE (TimedLease(p, l))'
    BY Zenon, <1>1, LeaseFields, KnownKeeps DEF TimedLease, Sole
<1>2. ASSUME NEW o \in Op, TimedOp(p, o) PROVE (TimedOp(p, o))'
  <2>1. o.base \in Lease /\ o.rec \in Record /\ o.rec.tok \in Nat /\ o.rec.exp \in Nat
    BY Zenon, OpFields, RecordFields
  <2>2. (TimedLease(p, o.base))'
    BY Zenon, <1>1, <1>2, <2>1 DEF TimedOp
  <2>3. o.pc = "cas" => (Ahead(o))'
    BY Zenon, <1>2, <2>1, AheadKeeps DEF TimedOp
  <2>4. \A at : Known(p, at, o.rec.tok, o.rec.exp) => (Known(p, at, o.rec.tok, o.rec.exp))'
    BY Zenon, <2>1, KnownKeeps
  <2>. QED  BY ZenonT(40), <1>2, <2>2, <2>3, <2>4 DEF TimedOp, Sole, LocalOwner
<1>. QED  BY Zenon, <1>1, <1>2

\* A step of p that writes nothing to the store.
LEMMA TimeLocal ==
    ASSUME TypeOK, TypeOK', TimeInv, NEW p \in Procs,
           record' = record, rev' = rev, clock' = clock,
           \A q \in Procs : q # p => lease'[q] = lease[q] /\ op'[q] = op[q],
           lease'[p] = lease[p] \/ TimedLease(p, lease'[p]),
           \A s \in Slots : op'[p][s] = op[p][s] \/ TimedOp(p, op'[p][s]),
           \A w \in orphans' : Ahead(w)
    PROVE  TimeInv'
<1>1. \A q \in Procs : clock[q] \in Nat /\ clock[q] <= clock'[q]
    BY ClockType
<1>2. ASSUME NEW q \in Procs PROVE (TimedLease(q, lease[q]))'
  <2>1. lease'[q] \in Lease /\ TimedLease(q, lease'[q])
    BY Zenon, PartsNext DEF TimeInv
  <2>. QED  BY Zenon, <1>1, <2>1, TimedKeeps
<1>3. ASSUME NEW q \in Procs, NEW s \in Slots PROVE (TimedOp(q, op[q][s]))'
  <2>1. op'[q][s] \in Op /\ TimedOp(q, op'[q][s])
    BY Zenon, PartsNext DEF TimeInv
  <2>. QED  BY Zenon, <1>1, <2>1, TimedKeeps
<1>4. (\A w \in orphans : Ahead(w))'
  <2>. SUFFICES ASSUME NEW w \in orphans' PROVE (Ahead(w))'
    OBVIOUS
  <2>1. w.rec \in Record
    BY Zenon DEF TypeOK, Write
  <2>. QED  BY Zenon, <1>1, <2>1, AheadKeeps
<1>5. (\A r, q \in Procs : clock[r] <= clock[q] + MaxSkew)'
    BY Zenon DEF TimeInv
<1>6. (\A q \in Procs : Sole(q) /\ record.owner = InstanceOf[q] => record.exp <= clock[q] + Ttl)'
    BY Zenon DEF TimeInv, Sole
<1>. QED  BY Zenon, <1>2, <1>3, <1>4, <1>5, <1>6 DEF TimeInv

\* An operation that moves on, while p's entry stays or changes in a known way.
LEMMA TimeSlot ==
    ASSUME TypeOK, TypeOK', TimeInv, NEW p \in Procs, NEW s \in Slots, NEW o \in Op,
           op' = [op EXCEPT ![p][s] = o], TimedOp(p, o),
           record' = record, rev' = rev, clock' = clock,
           \A q \in Procs : q # p => lease'[q] = lease[q],
           lease'[p] = lease[p] \/ TimedLease(p, lease'[p]),
           \A w \in orphans' : Ahead(w)
    PROVE  TimeInv'
<1>1. /\ op'[p][s] = o /\ \A t \in Slots : t # s => op'[p][t] = op[p][t]
      /\ \A q \in Procs : q # p => op'[q] = op[q]
    BY Zenon DEF TypeOK
<1>2. \A t \in Slots : op'[p][t] = op[p][t] \/ TimedOp(p, op'[p][t])
    BY Zenon, <1>1
<1>. QED  BY Zenon, <1>1, <1>2, TimeLocal

LEMMA QuietTimed ==
    ASSUME NEW p \in Procs, NEW o \in Op, TimedLease(p, o.base),
           o.pc \notin {"cas", "loaded", "ok"}
    PROVE  TimedOp(p, o)
BY Zenon DEF TimedOp

LEMMA IdleTimed ==
    ASSUME NEW p \in Procs
    PROVE  TimedOp(p, Idle) /\ TimedLease(p, NoLease)
<1>1. NoLease.rev = 0
    BY DEF NoLease
<1>2. TimedLease(p, NoLease)
    BY Zenon, <1>1 DEF TimedLease
<1>. QED  BY Zenon, <1>2, IdleQuiet, QuietTimed

LEMMA LoadedTimed ==
    ASSUME TypeOK, TimeInv, NEW p \in Procs, NEW o \in Op, TimedLease(p, o.base)
    PROVE  TimedOp(p, Advance(o, "loaded", "none", rev, record))
<1>. DEFINE n == Advance(o, "loaded", "none", rev, record)
<1>1. n.pc = "loaded" /\ n.base = o.base /\ n.expect = rev /\ n.rec = record
    BY Zenon DEF Advance
<1>. HIDE DEF n
<1>2. Sole(p) /\ record.owner = InstanceOf[p] => Known(p, rev, record.tok, record.exp)
    BY Zenon, KnownNow
<1>3. n.pc # "cas" /\ n.pc # "ok"
    BY <1>1
<1>. QED  BY Zenon, <1>1, <1>2, <1>3 DEF TimedOp, LocalOwner, n


\* A refresh of the entry held does not shorten the lease it was made from.
LEMMA RefreshTimed ==
    ASSUME TypeOK, NEW p \in Procs, Held(p, lease[p]), lease[p].rev # 0,
           TimedLease(p, lease[p]), NEW goal \in Goals, NEW reason
    PROVE  TimedOp(p, RefreshOp(p, goal, reason))
<1>. DEFINE l == lease[p]
            o == RefreshOp(p, goal, reason)
<1>1. l \in Lease /\ l.exp \in Nat /\ l.tok \in Nat
    BY Zenon, Parts, LeaseFields DEF Typed
<1>2. /\ o.pc = "cas" /\ o.expect = l.rev /\ o.base = l
      /\ o.rec = RefreshRecord(l, p, reason)
    BY Zenon DEF RefreshOp
<1>3. /\ o.rec.tok = l.tok /\ o.rec.owner = InstanceOf[p]
      /\ o.rec.exp = clock[p] + Ttl \/ o.rec.exp = l.exp
  <2>. DEFINE r == RefreshRecord(l, p, reason)
  <2>1. /\ r.tok = l.tok /\ r.owner = InstanceOf[p]
        /\ r.exp = IF RenewsLease(l, p, reason) THEN clock[p] + Ttl ELSE l.exp
    BY Zenon DEF RefreshRecord
  <2>. HIDE DEF r
  <2>. QED  BY <1>2, <2>1 DEF r
<1>. HIDE DEF o
<1>4. l.rev = rev => record.owner = InstanceOf[p] /\ l.tok = record.tok
    BY Zenon DEF Held
<1>5. Sole(p) => /\ l.exp <= clock[p] + Ttl
                 /\ l.rev = rev => l.exp = record.exp
    BY Zenon DEF TimedLease, Known
<1>6. Sole(p) => o.rec.exp <= clock[p] + Ttl /\ (l.rev = rev => record.exp <= o.rec.exp)
    BY <1>1, <1>3, <1>5, ClockType
<1>7. o.expect = rev => ~(o.rec.tok > record.tok)
    BY <1>1, <1>2, <1>3, <1>4, ClockType
<1>8. ASSUME NEW q \in Procs, Sole(q), o.rec.owner = InstanceOf[q] PROVE o.rec.exp <= clock[q] + Ttl
    BY Zenon, <1>3, <1>6, <1>8, SoleOwner
<1>9. ASSUME o.expect = rev, NEW q \in Procs, Sole(q), record.owner = InstanceOf[q]
      PROVE  record.exp <= o.rec.exp
    BY Zenon, <1>2, <1>4, <1>6, <1>9, SoleOwner
<1>10. Ahead(o)
    BY Zenon, <1>7, <1>8, <1>9 DEF Ahead
<1>11. o.pc # "loaded" /\ o.pc # "ok"
    BY <1>2
<1>. QED  BY Zenon, <1>2, <1>10, <1>11 DEF TimedOp, o

\* The entry made from a lease that is known.
LEMMA PublishedTimed ==
    ASSUME TypeOK, NEW p \in Procs, NEW at, NEW r \in Record,
           Sole(p) => Known(p, at, r.tok, r.exp), NEW last, NEW ub,
           lease' = [lease EXCEPT ![p] = [rev |-> at, tok |-> r.tok, exp |-> r.exp,
                                          last |-> last, ub |-> ub]]
    PROVE  TimedLease(p, lease'[p]) /\ \A q \in Procs : q # p => lease'[q] = lease[q]
<1>1. lease'[p].rev = at /\ lease'[p].tok = r.tok /\ lease'[p].exp = r.exp
    BY Zenon DEF TypeOK
<1>2. \A q \in Procs : q # p => lease'[q] = lease[q]
    BY Zenon DEF TypeOK
<1>. QED  BY Zenon, <1>1, <1>2 DEF TimedLease

\* The writes p may leave behind when it gives up.
LEMMA UndeliveredAhead ==
    ASSUME TimeInv, NEW p \in Procs, NEW s \in Slots
    PROVE  \A w \in orphans \cup Undelivered(p, s) : Ahead(w)
<1>1. op[p][s].pc = "cas" => Ahead(op[p][s])
    BY Zenon DEF TimeInv, TimedOp
<1>2. ASSUME NEW w \in Undelivered(p, s) PROVE Ahead(w)
  <2>1. op[p][s].pc = "cas" /\ w = [expect |-> op[p][s].expect, rec |-> op[p][s].rec]
    BY Zenon, <1>2 DEF Undelivered
  <2>2. w.expect = op[p][s].expect /\ w.rec = op[p][s].rec
    BY Zenon, <2>1
  <2>. QED  BY Zenon, <1>1, <2>1, <2>2 DEF Ahead
<1>. QED  BY Zenon, <1>2 DEF TimeInv

\* A failed flight.
LEMMA FailTimed ==
    ASSUME TypeOK, TimeInv, NEW p \in Procs, Fail(p)
    PROVE  /\ lease'[p] = lease[p] \/ TimedLease(p, lease'[p])
           /\ \A q \in Procs : q # p => lease'[q] = lease[q]
           /\ op' = [op EXCEPT ![p]["flight"] = Idle]
<1>1. lease'[p] = lease[p] \/ lease'[p] = op[p]["flight"].base
    BY Zenon DEF Fail, TypeOK
<1>2. TimedLease(p, op[p]["flight"].base)
    BY Zenon DEF TimeInv, TimedOp, Slots
<1>3. \A q \in Procs : q # p => lease'[q] = lease[q]
    BY Zenon DEF Fail, TypeOK
<1>. QED  BY Zenon, <1>1, <1>2, <1>3 DEF Fail

\* A write that succeeds: a lease on record is replaced only when it is over, and
\* extended otherwise.
LEMMA KnownWrite ==
    ASSUME TypeOK, TypeOK', NEW w, w.rec \in Record, Fresh(w), Ahead(w), w.expect = rev,
           record' = w.rec, rev' = rev + 1, clock' = clock,
           NEW q \in Procs, Sole(q), NEW at \in Nat, at # 0, at <= rev,
           NEW tok \in Nat, NEW exp \in Nat, Known(q, at, tok, exp)
    PROVE  (Known(q, at, tok, exp))'
<1>1. /\ w.rec.tok \in Nat /\ w.rec.exp \in Nat /\ record.tok \in Nat /\ record.exp \in Nat
      /\ rev \in Nat /\ rev # 0 /\ at # rev'
    BY ClockType, RecordFields
<1>2. w.rec.tok >= record.tok /\ (w.rec.owner # record.owner => w.rec.tok > record.tok)
    BY Zenon, <1>1 DEF Fresh
<1>3. tok <= record.tok /\ exp <= clock[q] + Ttl
    BY Zenon DEF Known
<1>4. ASSUME tok < w.rec.tok PROVE Over(exp)
  <2>1. CASE tok < record.tok
    BY Zenon, <2>1 DEF Known
  <2>2. CASE tok = record.tok
    <3>1. exp <= record.exp /\ Over(record.exp)
        BY <1>1, <1>4, <2>2 DEF Known, Ahead
    <3>. QED  BY <1>1, <3>1, ClockType DEF Over
  <2>. QED  BY <1>1, <1>3, <2>1, <2>2
<1>5. ASSUME tok = w.rec.tok PROVE w.rec.owner = InstanceOf[q] /\ exp <= w.rec.exp
  <2>1. tok = record.tok /\ w.rec.tok = record.tok
    BY <1>1, <1>2, <1>3, <1>5
  <2>2. w.rec.owner = record.owner
    BY <1>1, <1>2, <2>1
  <2>3. record.owner = InstanceOf[q] /\ exp <= record.exp
    BY Zenon, <2>1 DEF Known
  <2>4. record.exp <= w.rec.exp
    BY Zenon, <1>1, <2>1, <2>3 DEF Ahead
  <2>. QED  BY <1>1, <2>2, <2>3, <2>4
<1>6. tok <= w.rec.tok
    BY <1>1, <1>2, <1>3
<1>. QED  BY Zenon, <1>1, <1>3, <1>4, <1>5, <1>6 DEF Known, Over

\* A write moves the revision on: another one on its way will no longer succeed.
LEMMA AheadWrite ==
    ASSUME TypeOK, rev' = rev + 1, clock' = clock, NEW v, v.expect \in Nat, Fresh(v), Ahead(v)
    PROVE  (Ahead(v))'
<1>1. v.expect # rev'
    BY ClockType DEF Fresh
<1>. QED  BY Zenon, <1>1 DEF Ahead, Sole

LEMMA TimedWrite ==
    ASSUME TypeOK, TypeOK', NEW w, w.rec \in Record, Fresh(w), Ahead(w), w.expect = rev,
           record' = w.rec, rev' = rev + 1, clock' = clock, NEW q \in Procs
    PROVE  /\ \A l \in Lease : Held(q, l) /\ TimedLease(q, l) => (TimedLease(q, l))'
           /\ \A s \in Slots, o \in Op : SoundOp(q, s, o) /\ TimedOp(q, o) => (TimedOp(q, o))'
<1>1. ASSUME NEW l \in Lease, Held(q, l), TimedLease(q, l) PROVE (TimedLease(q, l))'
    BY Zenon, <1>1, LeaseFields, KnownWrite DEF Held, TimedLease, Sole
<1>2. ASSUME NEW s \in Slots, NEW o \in Op, SoundOp(q, s, o), TimedOp(q, o)
      PROVE  (TimedOp(q, o))'
  <2>1. /\ o.base \in Lease /\ o.rec \in Record /\ o.rec.tok \in Nat /\ o.rec.exp \in Nat
        /\ o.expect \in Nat /\ o.expect + 1 \in Nat /\ o.expect + 1 # 0
    BY OpFields, RecordFields
  <2>2. (TimedLease(q, o.base))'
    BY Zenon, <1>1, <1>2, <2>1 DEF TimedOp, SoundOp
  <2>3. o.pc = "cas" => (Ahead(o))'
    BY Zenon, <1>2, <2>1, AheadWrite DEF TimedOp, SoundOp
  <2>4. ASSUME Sole(q), o.pc = "loaded", o.expect # 0, LocalOwner(q, o.rec)
        PROVE  (Known(q, o.expect, o.rec.tok, o.rec.exp))'
    <3>1. o.expect <= rev /\ Known(q, o.expect, o.rec.tok, o.rec.exp)
        BY Zenon, <1>2, <2>4 DEF TimedOp, SoundOp
    <3>. QED  BY Zenon, <2>1, <2>4, <3>1, KnownWrite
  <2>5. ASSUME Sole(q), o.pc = "ok", o.kind # "flush"
        PROVE  (Known(q, o.expect + 1, o.rec.tok, o.rec.exp))'
    <3>1. o.expect < rev /\ Known(q, o.expect + 1, o.rec.tok, o.rec.exp)
        BY Zenon, <1>2, <2>5 DEF TimedOp, SoundOp
    <3>2. o.expect + 1 <= rev
        BY <2>1, <3>1, ClockType
    <3>. QED  BY Zenon, <2>1, <2>5, <3>1, <3>2, KnownWrite
  <2>. QED  BY ZenonT(40), <2>2, <2>3, <2>4, <2>5 DEF TimedOp, Sole, LocalOwner
<1>. QED  BY Zenon, <1>1, <1>2

\* A write keeps the invariant if the operations do.
LEMMA TimeWrite ==
    ASSUME TypeOK, TypeOK', Inv, TimeInv, NEW w, w.rec \in Record, Fresh(w), Ahead(w),
           w.expect = rev, record' = w.rec, rev' = rev + 1, clock' = clock, lease' = lease,
           orphans' \subseteq orphans,
           \A q \in Procs, s \in Slots : op'[q][s] = op[q][s] \/ (TimedOp(q, op[q][s]))'
    PROVE  TimeInv'
<1>1. ASSUME NEW q \in Procs PROVE (TimedLease(q, lease[q]))'
  <2>1. lease[q] \in Lease /\ Held(q, lease[q]) /\ TimedLease(q, lease[q])
    BY Zenon, Parts DEF Inv, TimeInv, Typed
  <2>2. \A l \in Lease : Held(q, l) /\ TimedLease(q, l) => (TimedLease(q, l))'
    BY Zenon, TimedWrite
  <2>. QED  BY Zenon, <2>1, <2>2
<1>2. ASSUME NEW q \in Procs, NEW s \in Slots PROVE (TimedOp(q, op[q][s]))'
  <2>1. op[q][s] \in Op /\ SoundOp(q, s, op[q][s]) /\ TimedOp(q, op[q][s])
    BY Zenon, Parts DEF Inv, TimeInv, Typed, OpSound
  <2>2. \A o \in Op : SoundOp(q, s, o) /\ TimedOp(q, o) => (TimedOp(q, o))'
    BY Zenon, TimedWrite
  <2>. QED  BY Zenon, <2>1, <2>2
<1>3. (\A v \in orphans : Ahead(v))'
  <2>. SUFFICES ASSUME NEW v \in orphans' PROVE (Ahead(v))'
    OBVIOUS
  <2>1. v \in orphans /\ v.expect \in Nat /\ Fresh(v) /\ Ahead(v)
    BY Zenon DEF TypeOK, Write, Inv, TimeInv
  <2>. QED  BY Zenon, <2>1, AheadWrite
<1>4. (\A r, q \in Procs : clock[r] <= clock[q] + MaxSkew)'
    BY Zenon DEF TimeInv
<1>5. (\A q \in Procs : Sole(q) /\ record.owner = InstanceOf[q] => record.exp <= clock[q] + Ttl)'
    BY Zenon DEF Ahead, Sole
<1>. QED  BY Zenon, <1>1, <1>2, <1>3, <1>4, <1>5 DEF TimeInv


LEMMA TickTime ==
    ASSUME TypeOK, TypeOK', TimeInv, NEW p \in Procs, Tick(p)
    PROVE  TimeInv'
<1>1. /\ record' = record /\ rev' = rev /\ orphans' = orphans /\ lease' = lease /\ op' = op
      /\ clock' = [clock EXCEPT ![p] = @ + 1]
      /\ \A q \in Procs : clock[p] + 1 - clock[q] <= MaxSkew
    BY Zenon DEF Tick, store
<1>2. /\ \A q \in Procs : clock[q] \in Nat
      /\ \A q \in Procs : clock'[q] = IF q = p THEN clock[q] + 1 ELSE clock[q]
    BY <1>1 DEF TypeOK
<1>3. \A q \in Procs : clock[q] <= clock'[q]
    BY <1>2
<1>4. ASSUME NEW r \in Procs, NEW q \in Procs PROVE clock'[r] <= clock'[q] + MaxSkew
  <2>1. clock[r] <= clock[q] + MaxSkew
    BY Zenon DEF TimeInv
  <2>. QED  BY <1>1, <1>2, <2>1, ConstantsAssumption
<1>5. ASSUME NEW q \in Procs, Sole(q), record.owner = InstanceOf[q]
      PROVE  record.exp <= clock'[q] + Ttl
  <2>1. record.exp <= clock[q] + Ttl
    BY Zenon, <1>5 DEF TimeInv
  <2>. QED  BY <1>2, <2>1, ClockType, ConstantsAssumption
<1>6. (\A w \in orphans : Ahead(w))'
    BY Zenon, <1>1, <1>3, AheadKeeps DEF TimeInv, TypeOK, Write
<1>7. ASSUME NEW q \in Procs
      PROVE  (TimedLease(q, lease[q]))' /\ \A s \in Slots : (TimedOp(q, op[q][s]))'
  <2>1. lease[q] \in Lease /\ TimedLease(q, lease[q])
        /\ \A s \in Slots : op[q][s] \in Op /\ TimedOp(q, op[q][s])
    BY Zenon, Parts DEF Typed, TimeInv
  <2>2. /\ \A l \in Lease : TimedLease(q, l) => (TimedLease(q, l))'
        /\ \A o \in Op : TimedOp(q, o) => (TimedOp(q, o))'
    BY Zenon, <1>1, <1>3, TimedKeeps
  <2>. QED  BY Zenon, <1>1, <2>1, <2>2
<1>. QED  BY Zenon, <1>1, <1>4, <1>5, <1>6, <1>7 DEF TimeInv, Sole

\* A takeover is ahead: the safety gap covers the skew of the clocks, so the lease it
\* replaces is over on every one of them.
LEMMA TakeoverTime ==
    ASSUME TypeOK, TypeOK', Inv, TimeInv, NEW p \in Procs, SendTakeover(p)
    PROVE  TimeInv'
<1>. DEFINE f == op[p]["flight"]
            floor == Floor(f.rec)
            base == IF floor = None THEN clock[p] ELSE Later(clock[p], Phys(floor + 1))
            r == [owner |-> InstanceOf[p], tok |-> f.rec.tok + 1,
                  exp |-> clock[p] + Ttl, last |-> floor, ub |-> UpperBound(base)]
            o == Advance(f, "cas", "takeover", f.expect, r)
<1>1. /\ op' = [op EXCEPT ![p]["flight"] = o] /\ f.pc = "loaded"
      /\ LeaseExpiredWithSafetyGap(f.rec.exp, clock[p])
    BY Zenon DEF SendTakeover
<1>2. /\ record' = record /\ rev' = rev /\ clock' = clock /\ lease' = lease /\ orphans' = orphans
      /\ "flight" \in Slots
    BY Zenon DEF SendTakeover, store, Slots
<1>3. o \in Op
    BY <1>1, <1>2 DEF TypeOK
<1>4. /\ o.pc = "cas" /\ o.expect = f.expect /\ o.rec = r /\ o.base = f.base
      /\ r.tok = f.rec.tok + 1 /\ r.owner = InstanceOf[p] /\ r.exp = clock[p] + Ttl
    BY Zenon DEF Advance
<1>. HIDE DEF o, r
<1>5. f \in Op /\ f.rec.exp \in Nat /\ f.rec.tok \in Nat /\ (f.expect = rev => f.rec = record)
      /\ TimedLease(p, f.base)
    BY Zenon, <1>1, <1>2, Parts, OpFields, RecordFields
       DEF Typed, Inv, OpSound, SoundOp, TimeInv, TimedOp
<1>. HIDE DEF f
<1>6. o.expect = rev => Over(record.exp) /\ o.rec.tok # record.tok
  <2>. SUFFICES ASSUME o.expect = rev PROVE Over(record.exp) /\ o.rec.tok # record.tok
    OBVIOUS
  <2>1. f.rec = record
    BY Zenon, <1>4, <1>5
  <2>2. \A q \in Procs : clock[p] <= clock[q] + MaxSkew
    BY Zenon DEF TimeInv
  <2>3. record.exp + SafetyGap <= clock[p]
    BY Zenon, <1>1, <2>1 DEF LeaseExpiredWithSafetyGap
  <2>. QED  BY <1>4, <2>1, <2>2, <2>3, ClockType, ConstantsAssumption,
            SkewAssumption DEF Over
<1>7. ASSUME NEW q \in Procs, Sole(q), o.rec.owner = InstanceOf[q] PROVE o.rec.exp <= clock[q] + Ttl
  <2>1. q = p
    BY Zenon, <1>4, <1>7, SoleOwner
  <2>. QED  BY <1>4, <2>1, ClockType
<1>8. Ahead(o)
    BY Zenon, <1>6, <1>7 DEF Ahead
<1>9. TimedOp(p, o)
  <2>1. o.pc # "loaded" /\ o.pc # "ok"
    BY <1>4
  <2>. QED  BY Zenon, <1>4, <1>5, <1>8, <2>1 DEF TimedOp
<1>. QED  BY Zenon, <1>1, <1>2, <1>3, <1>9, TimeSlot DEF TimeInv

LEMMA CreateTime ==
    ASSUME TypeOK, TypeOK', Inv, TimeInv, NEW p \in Procs, SendCreate(p)
    PROVE  TimeInv'
<1>. DEFINE f == op[p]["flight"]
            r == [owner |-> InstanceOf[p], tok |-> 1, exp |-> clock[p] + Ttl,
                  last |-> None, ub |-> UpperBound(clock[p])]
            o == Advance(f, "cas", "create", 0, r)
<1>1. op' = [op EXCEPT ![p]["flight"] = o]
    BY Zenon DEF SendCreate
<1>2. /\ record' = record /\ rev' = rev /\ clock' = clock /\ lease' = lease /\ orphans' = orphans
      /\ "flight" \in Slots
    BY Zenon DEF SendCreate, store, Slots
<1>3. o \in Op
    BY <1>1, <1>2 DEF TypeOK
<1>4. /\ o.pc = "cas" /\ o.expect = 0 /\ o.rec = r /\ o.base = f.base
      /\ r.owner = InstanceOf[p] /\ r.exp = clock[p] + Ttl
    BY Zenon DEF Advance
<1>. HIDE DEF o, r
<1>5. TimedLease(p, f.base)
    BY Zenon, <1>2 DEF TimeInv, TimedOp
<1>. HIDE DEF f
<1>6. ASSUME NEW q \in Procs, Sole(q), o.rec.owner = InstanceOf[q] PROVE o.rec.exp <= clock[q] + Ttl
  <2>1. q = p
    BY Zenon, <1>4, <1>6, SoleOwner
  <2>. QED  BY <1>4, <2>1, ClockType
<1>7. Ahead(o)
    BY Zenon, <1>4, <1>6 DEF Ahead
<1>8. o.pc # "loaded" /\ o.pc # "ok"
    BY <1>4
<1>9. TimedOp(p, o)
    BY Zenon, <1>4, <1>5, <1>7, <1>8 DEF TimedOp
<1>. QED  BY Zenon, <1>1, <1>2, <1>3, <1>9, TimeSlot DEF TimeInv

\* The shutdown flush keeps the owner, the token and the expiry on record.
LEMMA ShutdownTime ==
    ASSUME TypeOK, TypeOK', Inv, TimeInv, NEW p \in Procs, Shutdown(p)
    PROVE  TimeInv'
<1>. DEFINE r == [owner |-> record.owner, tok |-> record.tok, exp |-> record.exp,
                  last |-> Later(record.last, LocalLast(p)), ub |-> record.ub]
            o == Advance(Idle, "cas", "flush", rev, r)
<1>1. /\ record' = record /\ rev' = rev /\ clock' = clock /\ lease' = lease /\ orphans' = orphans
      /\ "flush" \in Slots /\ (op' = op \/ op' = [op EXCEPT ![p]["flush"] = o])
    BY Zenon DEF Shutdown, store, Slots
<1>2. CASE op' = op
    BY Zenon, <1>1, <1>2, TimeLocal DEF TimeInv
<1>3. CASE op' = [op EXCEPT ![p]["flush"] = o]
  <2>1. o \in Op
    BY <1>1, <1>3 DEF TypeOK
  <2>2. /\ o.pc = "cas" /\ o.rec = r /\ o.base = NoLease
        /\ r.owner = record.owner /\ r.exp = record.exp /\ r.tok = record.tok
    BY Zenon DEF Advance, Idle
  <2>. HIDE DEF o, r
  <2>3. ~(o.rec.tok > record.tok) /\ record.exp <= o.rec.exp /\ o.pc # "loaded" /\ o.pc # "ok"
    BY <2>2, ClockType
  <2>4. \A q \in Procs : Sole(q) /\ o.rec.owner = InstanceOf[q] => o.rec.exp <= clock[q] + Ttl
    BY Zenon, <2>2 DEF TimeInv
  <2>5. TimedOp(p, o)
    BY Zenon, <2>2, <2>3, <2>4, IdleTimed DEF TimedOp, Ahead
  <2>. QED  BY Zenon, <1>1, <1>3, <2>1, <2>5, TimeSlot DEF TimeInv
<1>. QED  BY Zenon, <1>1, <1>2, <1>3

\* The store takes the write in one of p's slots, or refuses it, and answers.
LEMMA CommitTime ==
    ASSUME TypeOK, TypeOK', Inv, TimeInv, NEW p \in Procs, NEW s \in Slots, Commit(p, s)
    PROVE  TimeInv'
<1>. DEFINE o == op[p][s]
            ok == Advance(o, "ok", o.kind, o.expect, o.rec)
            conflict == Advance(o, "conflict", o.kind, o.expect, o.rec)
<1>1. /\ o \in Op /\ o.pc = "cas" /\ SoundOp(p, s, o) /\ TimedOp(p, o)
    BY Zenon, Parts DEF Typed, Commit, Inv, OpSound, TimeInv
<1>2. o.kind \in Kinds /\ o.expect \in Nat /\ o.rec \in Record /\ o.base \in Lease
    BY Zenon, <1>1 DEF Op
<1>3. /\ ok \in Op /\ ok.pc = "ok" /\ ok.kind = o.kind /\ ok.expect = o.expect
      /\ ok.rec = o.rec /\ ok.base = o.base
    BY Zenon, <1>1, <1>2, AdvanceType DEF Pcs, Advance
<1>4. /\ conflict \in Op /\ conflict.pc = "conflict" /\ conflict.base = o.base
    BY Zenon, <1>1, <1>2, AdvanceType DEF Pcs, Advance
<1>5. orphans' = orphans /\ lease' = lease /\ clock' = clock
    BY Zenon DEF Commit
<1>6. Fresh(o) /\ Ahead(o) /\ TimedLease(p, o.base) /\ Held(p, o.base)
    BY Zenon, <1>1 DEF SoundOp, TimedOp
<1>7. \/ /\ o.expect = rev /\ record' = o.rec /\ rev' = rev + 1
         /\ op' = [op EXCEPT ![p][s] = ok] \/ op' = [op EXCEPT ![p][s] = conflict]
      \/ record' = record /\ rev' = rev /\ op' = [op EXCEPT ![p][s] = conflict]
    BY Zenon DEF Commit
<1>. HIDE DEF ok, conflict
<1>8. CASE record' = record /\ rev' = rev /\ op' = [op EXCEPT ![p][s] = conflict]
  <2>1. conflict.pc \notin {"cas", "loaded", "ok"}
    BY <1>4
  <2>2. TimedOp(p, conflict)
    BY Zenon, <1>4, <1>6, <2>1, QuietTimed
  <2>. QED  BY Zenon, <1>4, <1>5, <1>8, <2>2, TimeSlot DEF TimeInv
<1>9. ASSUME o.expect = rev, record' = o.rec, rev' = rev + 1,
             NEW n \in {ok, conflict}, op' = [op EXCEPT ![p][s] = n]
      PROVE  TimeInv'
  <2>1. /\ op'[p][s] = n /\ \A t \in Slots : t # s => op'[p][t] = op[p][t]
        /\ \A q \in Procs : q # p => op'[q] = op[q]
    BY Zenon, <1>9 DEF TypeOK
  <2>2. n.base = o.base /\ n.pc \in {"ok", "conflict"}
        /\ (n.pc = "ok" => n.expect + 1 = rev' /\ n.rec = record' /\ n.kind = o.kind)
    BY <1>3, <1>4, <1>9
  <2>3. (TimedLease(p, n.base))'
    <3>1. \A l \in Lease : Held(p, l) /\ TimedLease(p, l) => (TimedLease(p, l))'
        BY Zenon, <1>2, <1>5, <1>6, <1>9, TimedWrite
    <3>2. n.base \in Lease /\ Held(p, n.base) /\ TimedLease(p, n.base)
        BY Zenon, <1>2, <1>6, <2>2
    <3>. QED  BY Zenon, <3>1, <3>2
  <2>4. Sole(p) /\ o.kind # "flush" => (Known(p, rev, record.tok, record.exp))'
    <3>. SUFFICES ASSUME Sole(p), o.kind # "flush" PROVE (Known(p, rev, record.tok, record.exp))'
        OBVIOUS
    <3>1. record'.owner = InstanceOf[p]
        BY Zenon, <1>1, <1>9 DEF SoundOp
    <3>2. record'.exp <= clock'[p] + Ttl
        BY Zenon, <1>5, <1>6, <1>9, <3>1 DEF Ahead
    <3>3. record'.tok \in Nat /\ record'.exp \in Nat
        BY Zenon, <1>2, <1>9, RecordFields
    <3>. QED  BY <3>1, <3>2, <3>3 DEF Known
  <2>5. (TimedOp(p, n))'
    <3>1. n.pc # "cas" /\ n.pc # "loaded"
        BY <2>2
    <3>. QED  BY ZenonT(40), <2>2, <2>3, <2>4, <3>1 DEF TimedOp, Sole
  <2>6. \A q \in Procs, t \in Slots : op'[q][t] = op[q][t] \/ (TimedOp(q, op[q][t]))'
    BY Zenon, <2>1, <2>5
  <2>. QED  BY Zenon, <1>2, <1>5, <1>6, <1>9, <2>6, TimeWrite
<1>. QED  BY Zenon, <1>7, <1>8, <1>9


\* An accepted write is published as p's entry.
LEMMA AcceptedTime ==
    ASSUME TypeOK, TypeOK', TimeInv, NEW p \in Procs, NEW s \in Slots,
           op[p][s].pc = "ok", op[p][s].kind # "flush",
           NEW last, NEW ub,
           lease' = [lease EXCEPT ![p] =
                        [rev |-> op[p][s].expect + 1, tok |-> op[p][s].rec.tok,
                         exp |-> op[p][s].rec.exp, last |-> last, ub |-> ub]],
           op' = [op EXCEPT ![p][s] = Idle], store' = store, clock' = clock
    PROVE  TimeInv'
<1>1. op[p][s].rec \in Record
    BY Zenon, Parts, OpFields DEF Typed
<1>2. Sole(p) => Known(p, op[p][s].expect + 1, op[p][s].rec.tok, op[p][s].rec.exp)
    BY Zenon DEF TimeInv, TimedOp
<1>3. TimedLease(p, lease'[p]) /\ \A q \in Procs : q # p => lease'[q] = lease[q]
    BY Zenon, <1>1, <1>2, PublishedTimed
<1>4. record' = record /\ rev' = rev /\ orphans' = orphans
    BY DEF store
<1>. QED  BY Zenon, <1>3, <1>4, IdleQuiet, IdleTimed, TimeSlot DEF TimeInv

\* An operation that starts over, or ends, and may take p's entry with it.
LEMMA OverTime ==
    ASSUME TypeOK, TypeOK', TimeInv, NEW p \in Procs, NEW s \in Slots, NEW o \in Op,
           op' = [op EXCEPT ![p][s] = o], o.base \in {NoLease, op[p][s].base},
           o.pc \notin {"cas", "loaded", "ok"},
           record' = record, rev' = rev, clock' = clock,
           lease' = lease \/ lease' = [lease EXCEPT ![p] = NoLease],
           \A w \in orphans' : Ahead(w)
    PROVE  TimeInv'
<1>1. TimedLease(p, op[p][s].base) /\ TimedLease(p, NoLease)
    BY Zenon, IdleTimed DEF TimeInv, TimedOp
<1>2. TimedOp(p, o)
    BY Zenon, <1>1, QuietTimed
<1>3. /\ \A q \in Procs : q # p => lease'[q] = lease[q]
      /\ lease'[p] = lease[p] \/ TimedLease(p, lease'[p])
    BY Zenon, <1>1 DEF TypeOK
<1>. QED  BY Zenon, <1>2, <1>3, TimeSlot

\* A refresh is sent.
LEMMA RefreshTime ==
    ASSUME TypeOK, TypeOK', Inv, TimeInv, NEW p \in Procs, NEW s \in Slots,
           NEW goal \in Goals, NEW reason, CanRefresh(p, reason),
           op' = [op EXCEPT ![p][s] = RefreshOp(p, goal, reason)],
           store' = store, clock' = clock, lease' = lease
    PROVE  TimeInv'
<1>1. Held(p, lease[p]) /\ lease[p].rev # 0 /\ TimedLease(p, lease[p])
    BY Zenon DEF Inv, TimeInv, CanRefresh
<1>2. TimedOp(p, RefreshOp(p, goal, reason)) /\ RefreshOp(p, goal, reason) \in Op
    BY Zenon, <1>1, RefreshTimed, RefreshOpType
<1>3. record' = record /\ rev' = rev /\ orphans' = orphans
    BY DEF store
<1>. QED  BY Zenon, <1>2, <1>3, TimeSlot DEF TimeInv

LEMMA StillTime ==
    ASSUME TypeOK, TypeOK', TimeInv, store' = store, clock' = clock, lease' = lease, op' = op
    PROVE  TimeInv'
<1>1. record' = record /\ rev' = rev /\ orphans' = orphans
    BY DEF store
<1>2. \A q \in Procs : clock[q] \in Nat /\ clock[q] <= clock'[q]
    BY ClockType
<1>3. ASSUME NEW q \in Procs
      PROVE  (TimedLease(q, lease[q]))' /\ \A s \in Slots : (TimedOp(q, op[q][s]))'
  <2>1. lease[q] \in Lease /\ TimedLease(q, lease[q])
        /\ \A s \in Slots : op[q][s] \in Op /\ TimedOp(q, op[q][s])
    BY Zenon, Parts DEF Typed, TimeInv
  <2>2. /\ \A l \in Lease : TimedLease(q, l) => (TimedLease(q, l))'
        /\ \A o \in Op : TimedOp(q, o) => (TimedOp(q, o))'
    BY Zenon, <1>1, <1>2, TimedKeeps
  <2>. QED  BY Zenon, <2>1, <2>2
<1>4. (\A w \in orphans : Ahead(w))'
    BY Zenon, <1>1, <1>2, AheadKeeps DEF TimeInv, TypeOK, Write
<1>. QED  BY Zenon, <1>1, <1>3, <1>4 DEF TimeInv, Sole

LEMMA TimeStep ==
    ASSUME TypeOK, TypeOK', Inv, TimeInv, NEW p \in Procs, Step(p)
    PROVE  TimeInv'
<1>. DEFINE f == op[p]["flight"]
<1>0. /\ "flight" \in Slots /\ "batch" \in Slots /\ "flush" \in Slots
      /\ \A q \in Procs, s \in Slots : op[q][s] \in Op /\ TimedOp(q, op[q][s])
                                       /\ SoundOp(q, s, op[q][s])
      /\ \A w \in orphans : Ahead(w)
    BY Zenon, Parts DEF Typed, TimeInv, Slots, Inv, OpSound
<1>1. CASE Tick(p)
    BY Zenon, <1>1, TickTime
<1>2. ASSUME NEW s \in Slots, Commit(p, s) PROVE TimeInv'
    BY Zenon, <1>2, CommitTime
<1>3. ASSUME NEW s \in Slots, Abandon(p, s) PROVE TimeInv'
  <2>1. /\ record' = record /\ rev' = rev /\ clock' = clock /\ lease' = lease
        /\ orphans' = orphans \cup Undelivered(p, s) /\ op' = [op EXCEPT ![p][s] = Idle]
    BY Zenon, <1>3 DEF Abandon
  <2>2. Idle \in Op /\ Idle.base = NoLease /\ Idle.pc \notin {"cas", "loaded", "ok"}
    BY IdleQuiet
  <2>3. \A w \in orphans' : Ahead(w)
    BY Zenon, <2>1, UndeliveredAhead
  <2>. QED  BY Zenon, <2>1, <2>2, <2>3, OverTime
<1>4. CASE EnsureLease(p)
  <2>1. /\ store' = store /\ clock' = clock /\ lease' = lease
        /\ op' = [op EXCEPT ![p]["flight"] = Advance(Idle, "loaded", "none", rev, record)]
    BY Zenon, <1>4 DEF EnsureLease
  <2>2. TimedOp(p, Advance(Idle, "loaded", "none", rev, record))
    BY Zenon, IdleQuiet, IdleTimed, LoadedTimed
  <2>3. Advance(Idle, "loaded", "none", rev, record) \in Op
    BY <1>0, <2>1 DEF TypeOK
  <2>4. record' = record /\ rev' = rev /\ orphans' = orphans
    BY <2>1 DEF store
  <2>. QED  BY Zenon, <1>0, <2>1, <2>2, <2>3, <2>4, TimeSlot
<1>5. CASE LoadGenerator(p)
  <2>1. /\ store' = store /\ clock' = clock /\ lease' = lease
        /\ op' = [op EXCEPT ![p]["flight"] = Advance(f, "loaded", "none", rev, record)]
    BY Zenon, <1>5 DEF LoadGenerator
  <2>2. TimedOp(p, Advance(f, "loaded", "none", rev, record))
    BY Zenon, <1>0, LoadedTimed DEF TimedOp
  <2>3. Advance(f, "loaded", "none", rev, record) \in Op
    BY <1>0, <2>1 DEF TypeOK
  <2>4. record' = record /\ rev' = rev /\ orphans' = orphans
    BY <2>1 DEF store
  <2>. QED  BY Zenon, <1>0, <2>1, <2>2, <2>3, <2>4, TimeSlot
<1>6. CASE ReloadOwnLease(p)
  <2>1. /\ store' = store /\ clock' = clock /\ f.pc = "loaded" /\ f.expect # 0
        /\ LocalOwner(p, f.rec) /\ op' = [op EXCEPT ![p]["flight"] = Idle]
        /\ lease' = [lease EXCEPT ![p] = [rev |-> f.expect, tok |-> f.rec.tok, exp |-> f.rec.exp,
                                          last |-> Floor(f.rec), ub |-> f.rec.ub]]
    BY Zenon, <1>6 DEF ReloadOwnLease, Succeed
  <2>2. f.rec \in Record /\ (Sole(p) => Known(p, f.expect, f.rec.tok, f.rec.exp))
    BY Zenon, <1>0, <2>1, OpFields DEF TimedOp
  <2>3. TimedLease(p, lease'[p]) /\ \A q \in Procs : q # p => lease'[q] = lease[q]
    BY Zenon, <2>1, <2>2, PublishedTimed
  <2>4. record' = record /\ rev' = rev /\ orphans' = orphans
    BY <2>1 DEF store
  <2>. QED  BY Zenon, <1>0, <2>1, <2>3, <2>4, IdleQuiet, IdleTimed, TimeSlot
<1>7. CASE RefuseLease(p)
  <2>1. store' = store /\ clock' = clock /\ Fail(p)
    BY Zenon, <1>7 DEF RefuseLease
  <2>2. record' = record /\ rev' = rev /\ orphans' = orphans
    BY <2>1 DEF store
  <2>. QED  BY Zenon, <1>0, <2>1, <2>2, FailTimed, IdleQuiet, IdleTimed, TimeSlot
<1>8. CASE StoreError(p)
  <2>1. /\ record' = record /\ rev' = rev /\ clock' = clock /\ Fail(p)
        /\ orphans' = orphans \cup Undelivered(p, "flight")
    BY Zenon, <1>8 DEF StoreError
  <2>2. \A w \in orphans' : Ahead(w)
    BY Zenon, <1>0, <2>1, UndeliveredAhead
  <2>. QED  BY Zenon, <1>0, <2>1, <2>2, FailTimed, IdleQuiet, IdleTimed, TimeSlot
<1>9. CASE SendTakeover(p)
    BY Zenon, <1>9, TakeoverTime
<1>10. CASE SendCreate(p)
    BY Zenon, <1>10, CreateTime
<1>11. CASE ClaimAccepted(p)
  <2>1. /\ f.pc = "ok" /\ f.kind # "flush" /\ store' = store /\ clock' = clock
    BY <1>11 DEF ClaimAccepted
  <2>2. /\ op' = [op EXCEPT ![p]["flight"] = Idle]
        /\ lease' = [lease EXCEPT ![p] = [rev |-> f.expect + 1, tok |-> f.rec.tok, exp |-> f.rec.exp,
                                          last |-> f.rec.last, ub |-> f.rec.ub]]
    BY Zenon, <1>11 DEF ClaimAccepted, Succeed
  <2>. QED  BY Zenon, <1>0, <2>1, <2>2, AcceptedTime
<1>12. CASE RefreshAccepted(p)
  <2>1. /\ f.pc = "ok" /\ f.kind # "flush" /\ store' = store /\ clock' = clock
    BY <1>12 DEF RefreshAccepted
  <2>2. /\ op' = [op EXCEPT ![p]["flight"] = Idle]
        /\ lease' = [lease EXCEPT ![p] = [rev |-> f.expect + 1, tok |-> f.rec.tok, exp |-> f.rec.exp,
                                          last |-> f.rec.last, ub |-> f.rec.ub]]
    BY Zenon, <1>12 DEF RefreshAccepted, Succeed
  <2>. QED  BY Zenon, <1>0, <2>1, <2>2, AcceptedTime
<1>13. CASE BatchAccepted(p)
  <2>. DEFINE b == op[p]["batch"]
  <2>1. b.pc = "ok" /\ store' = store /\ clock' = clock
    BY Zenon, <1>13 DEF BatchAccepted
  <2>2. b.kind = "refresh"
    BY Zenon, <1>0, <2>1 DEF SoundOp
  <2>3. /\ op' = [op EXCEPT ![p]["batch"] = Idle]
        /\ lease' = [lease EXCEPT ![p] = [rev |-> b.expect + 1, tok |-> b.rec.tok, exp |-> b.rec.exp,
                                          last |-> b.rec.last, ub |-> b.rec.ub]]
    BY Zenon, <1>13 DEF BatchAccepted
  <2>4. b.kind # "flush"
    BY <2>2
  <2>. QED  BY Zenon, <1>0, <2>1, <2>3, <2>4, AcceptedTime
<1>14. CASE ClaimConflict(p) \/ RefreshConflict(p)
  <2>. DEFINE o == Advance(f, "load", "none", 0, NoRecord)
  <2>1. /\ store' = store /\ clock' = clock /\ op' = [op EXCEPT ![p]["flight"] = o]
        /\ lease' = lease \/ lease' = [lease EXCEPT ![p] = NoLease]
    BY Zenon, <1>14 DEF ClaimConflict, RefreshConflict
  <2>2. o \in Op
    BY <1>0, <2>1 DEF TypeOK
  <2>3. o.pc = "load" /\ o.base = f.base
    BY Zenon DEF Advance
  <2>. HIDE DEF o
  <2>4. record' = record /\ rev' = rev /\ orphans' = orphans /\ o.pc \notin {"cas", "loaded", "ok"}
    BY <2>1, <2>3 DEF store
  <2>. QED  BY Zenon, <1>0, <2>1, <2>2, <2>3, <2>4, OverTime
<1>15. CASE ClearLeases(p)
  <2>1. /\ store' = store /\ clock' = clock /\ op' = [op EXCEPT ![p]["flush"] = Idle]
        /\ lease' = [lease EXCEPT ![p] = NoLease]
    BY Zenon, <1>15 DEF ClearLeases
  <2>2. Idle \in Op /\ Idle.base = NoLease /\ Idle.pc \notin {"cas", "loaded", "ok"}
    BY IdleQuiet
  <2>3. record' = record /\ rev' = rev /\ orphans' = orphans
    BY <2>1 DEF store
  <2>. QED  BY Zenon, <1>0, <2>1, <2>2, <2>3, OverTime
<1>16. CASE RenewTimelineLease(p)
  <2>1. "lease" \in Goals
    BY DEF Goals
  <2>. QED  BY Zenon, <1>0, <1>16, <2>1, RefreshTime DEF RenewTimelineLease
<1>17. CASE BatchRefresh(p)
  <2>1. "lease" \in Goals
    BY DEF Goals
  <2>. QED  BY Zenon, <1>0, <1>17, <2>1, RefreshTime DEF BatchRefresh
<1>18. CASE Shutdown(p)
    BY Zenon, <1>18, ShutdownTime
<1>19. CASE BatchConflict(p)
  <2>. DEFINE o == IF CanRefresh(p, "Maintenance")
                   THEN RefreshOp(p, "lease", "Maintenance") ELSE Idle
  <2>1. /\ op' = [op EXCEPT ![p]["batch"] = Idle, ![p]["flight"] = o]
        /\ store' = store /\ clock' = clock /\ lease' = lease
    BY Zenon, <1>19 DEF BatchConflict
  <2>2. TimedOp(p, o)
    <3>1. CASE CanRefresh(p, "Maintenance")
      <4>1. Held(p, lease[p]) /\ lease[p].rev # 0 /\ TimedLease(p, lease[p]) /\ "lease" \in Goals
          BY Zenon, <3>1 DEF Inv, TimeInv, CanRefresh, Goals
      <4>. QED  BY Zenon, <3>1, <4>1, RefreshTimed
    <3>2. CASE ~CanRefresh(p, "Maintenance")
        BY Zenon, <3>2, IdleTimed
    <3>. QED  BY Zenon, <3>1, <3>2
  <2>. HIDE DEF o
  <2>3. /\ op'[p]["flight"] = o /\ op'[p]["batch"] = Idle /\ op'[p]["flush"] = op[p]["flush"]
        /\ \A q \in Procs : q # p => op'[q] = op[q]
    BY ZenonT(40), <2>1 DEF TypeOK, Slots
  <2>4. \A s \in Slots : op'[p][s] = op[p][s] \/ TimedOp(p, op'[p][s])
    BY Zenon, <2>2, <2>3, IdleTimed DEF Slots
  <2>5. record' = record /\ rev' = rev /\ orphans' = orphans
    BY <2>1 DEF store
  <2>. QED  BY Zenon, <1>0, <2>1, <2>3, <2>4, <2>5, TimeLocal
<1>20. CASE AllocEnsure(p)
  <2>1. store' = store /\ clock' = clock /\ lease' = lease
    BY Zenon, <1>20 DEF AllocEnsure
  <2>2. CASE op' = op
    BY Zenon, <2>1, <2>2, StillTime
  <2>3. CASE op' = [op EXCEPT ![p]["flight"] = Loading("alloc")]
    <3>1. /\ Loading("alloc") \in Op /\ Loading("alloc").base = NoLease
          /\ Loading("alloc").pc \notin {"cas", "loaded", "ok"}
        BY LoadingType DEF Loading, Goals
    <3>2. record' = record /\ rev' = rev /\ orphans' = orphans
        BY <2>1 DEF store
    <3>. QED  BY Zenon, <1>0, <2>1, <2>3, <3>1, <3>2, OverTime
  <2>. QED  BY Zenon, <1>20, <2>2, <2>3 DEF AllocEnsure
<1>21. CASE ExtendHorizon(p)
  <2>1. store' = store /\ clock' = clock /\ lease' = lease
    BY Zenon, <1>21 DEF ExtendHorizon
  <2>2. CASE op' = op
    BY Zenon, <2>1, <2>2, StillTime
  <2>3. CASE op' = [op EXCEPT ![p]["flight"] = Loading("horizon")]
    <3>1. /\ Loading("horizon") \in Op /\ Loading("horizon").base = NoLease
          /\ Loading("horizon").pc \notin {"cas", "loaded", "ok"}
        BY LoadingType DEF Loading, Goals
    <3>2. record' = record /\ rev' = rev /\ orphans' = orphans
        BY <2>1 DEF store
    <3>. QED  BY Zenon, <1>0, <2>1, <2>3, <3>1, <3>2, OverTime
  <2>4. CASE /\ CanRefresh(p, "HorizonRequired")
             /\ op' = [op EXCEPT ![p]["flight"] = RefreshOp(p, "horizon", "HorizonRequired")]
    <3>1. "horizon" \in Goals
        BY DEF Goals
    <3>. QED  BY Zenon, <1>0, <2>1, <2>4, <3>1, RefreshTime
  <2>. QED  BY Zenon, <1>21, <2>2, <2>3, <2>4 DEF ExtendHorizon
<1>22. CASE \/ CaptureBound(p) \/ AllocGrant(p) \/ Revalidate(p) \/ Serve(p) \/ HitBound(p)
            \/ DropRequest(p)
  <2>1. store' = store /\ clock' = clock /\ lease' = lease /\ op' = op
    BY Zenon, <1>22 DEF CaptureBound, AllocGrant, Revalidate, Serve, HitBound, DropRequest
  <2>. QED  BY Zenon, <2>1, StillTime
<1>. QED
  BY ZenonT(40), <1>1, <1>2, <1>3, <1>4, <1>5, <1>6, <1>7, <1>8, <1>9, <1>10, <1>11, <1>12, <1>13,
     <1>14, <1>15, <1>16, <1>17, <1>18, <1>19, <1>20, <1>21, <1>22 DEF Step

LEMMA OrphanTime ==
    ASSUME TypeOK, TypeOK', Inv, TimeInv, NEW w \in orphans, CommitOrphan(w)
    PROVE  TimeInv'
<1>1. /\ Fresh(w) /\ Ahead(w) /\ w.rec \in Record /\ w.expect = rev /\ record' = w.rec
      /\ rev' = rev + 1 /\ clock' = clock /\ lease' = lease /\ op' = op
      /\ orphans' \subseteq orphans
    BY Zenon DEF CommitOrphan, Inv, TimeInv, TypeOK, Write
<1>. QED  BY Zenon, <1>1, TimeWrite

LEMMA InitTime == Init => TimeInv
<1>. SUFFICES ASSUME Init PROVE TimeInv
    OBVIOUS
<1>1. /\ record = NoRecord /\ orphans = {} /\ \A p \in Procs : lease[p] = NoLease /\ clock[p] = 0
      /\ \A p \in Procs, s \in Slots : op[p][s] = Idle
    BY Zenon DEF Init
<1>2. record.exp = 0
    BY Zenon, <1>1 DEF NoRecord
<1>3. \A p, q \in Procs : clock[p] <= clock[q] + MaxSkew /\ record.exp <= clock[p] + Ttl
    BY <1>1, <1>2, ConstantsAssumption
<1>. QED  BY Zenon, <1>1, <1>3, IdleTimed DEF TimeInv

\* What every process knows of the lease it holds stays true while others take it
\* over: the token it knows is on record, or its lease is over on every clock.
THEOREM TimeHolds == Spec => []TimeInv
<1>1. Init => TimeInv
    BY Zenon, InitTime
<1>2. TypeOK /\ TypeOK' /\ Inv /\ TimeInv /\ [Next]_vars => TimeInv'
  <2>. SUFFICES ASSUME TypeOK, TypeOK', Inv, TimeInv, [Next]_vars PROVE TimeInv'
    OBVIOUS
  <2>1. ASSUME NEW p \in Procs, Step(p) PROVE TimeInv'
    BY Zenon, <2>1, TimeStep
  <2>2. ASSUME NEW w \in orphans, CommitOrphan(w) PROVE TimeInv'
    BY Zenon, <2>2, OrphanTime
  <2>3. CASE UNCHANGED vars
    BY Zenon, <2>3, StillTime DEF vars, store
  <2>. QED  BY Zenon, <2>1, <2>2, <2>3 DEF Next
<1>. QED  BY <1>1, <1>2, TypeCorrect, InvHolds, PTL DEF Spec

\* At most one process believes it holds the lease (is_generator_lease_valid): a
\* takeover waits until the safety gap has passed the recorded expiry, which covers
\* the skew of the clocks, and no refresh, late or repeated, shortens a lease that
\* somebody still counts on.
THEOREM LeaseIsExclusive == Spec => []LeaseExclusive
<1>1. TypeOK /\ TimeInv => LeaseExclusive
  <2>. SUFFICES ASSUME TypeOK, TimeInv, NEW p \in Procs, NEW q \in Procs,
                       Sole(p), Sole(q), LeaseValid(p), LeaseValid(q)
                PROVE  p = q
    BY Zenon DEF LeaseExclusive
  <2>1. ASSUME NEW r \in Procs, Sole(r), LeaseValid(r) PROVE record.owner = InstanceOf[r]
    <3>1. Known(r, lease[r].rev, lease[r].tok, lease[r].exp) /\ lease[r].exp > clock[r]
        BY Zenon, <2>1 DEF TimeInv, TimedLease, LeaseValid
    <3>2. lease[r].exp \in Nat /\ lease[r].tok \in Nat /\ clock[r] \in Nat /\ record.tok \in Nat
        BY Zenon, Parts, LeaseFields, ClockType DEF Typed
    <3>3. ~Over(lease[r].exp)
        BY <3>1, <3>2 DEF Over
    <3>4. lease[r].tok <= record.tok /\ ~(lease[r].tok < record.tok)
        BY Zenon, <3>1, <3>3 DEF Known
    <3>5. lease[r].tok = record.tok
        BY <3>2, <3>4
    <3>. QED  BY Zenon, <3>1, <3>5 DEF Known
  <2>2. InstanceOf[p] = InstanceOf[q]
    BY Zenon, <2>1
  <2>. QED  BY Zenon, <2>2, SoleOwner
<1>. QED  BY <1>1, TypeCorrect, TimeHolds, PTL
===============================================================================
