-------------------------- MODULE LeaseFlightProofs --------------------------
(***************************************************************************)
(* The singleflight of lease operations is exclusive for any number of     *)
(* callers and calls.                                                      *)
(***************************************************************************)
EXTENDS LeaseFlight, TLAPS

Acts(c) == Call(c) \/ Cancel(c) \/ GiveUp(c) \/ Proceed(c)

\* A guard is never empty while it is held, so Send stores a channel.
LEMMA TypeStep ==
    ASSUME TypeOK, Inv, NEW c \in Callers, Acts(c)
    PROVE  TypeOK'
<1>1. CASE Call(c) \/ Cancel(c) \/ GiveUp(c)
  BY <1>1 DEF Call, Cancel, GiveUp, Goto, TypeOK, Pcs
<1>2. CASE Refuse(c) \/ Subscribe(c) \/ CheckValue(c) \/ Wake(c)
  BY <1>2 DEF Refuse, Subscribe, CheckValue, Wake, Goto, TypeOK, Pcs
<1>3. ASSUME NEW f \in Flights, Acquire(c, f) PROVE TypeOK'
  BY <1>3 DEF Acquire, Goto, TypeOK, Pcs
<1>4. CASE Send(c)
  <2>1. own[c] \in Flights
    BY <1>4 DEF Send, Inv, TypeOK
  <2> QED BY <1>4, <2>1 DEF Send, Goto, TypeOK, Pcs
<1>5. CASE Remove(c) \/ Release(c)
  BY <1>5 DEF Remove, Release, Goto, TypeOK, Pcs
<1> QED BY <1>1, <1>2, <1>3, <1>4, <1>5 DEF Acts, Proceed

\* Only a caller that meets a vacant entry comes to hold it, and only its
\* holder vacates it.
LEMMA InvStep ==
    ASSUME TypeOK, Inv, NEW c \in Callers, Acts(c)
    PROVE  Inv'
<1>1. CASE Call(c) \/ Cancel(c) \/ GiveUp(c)
  BY <1>1 DEF Call, Cancel, GiveUp, Goto, TypeOK, Inv, OneFlight
<1>2. CASE Refuse(c) \/ Subscribe(c) \/ CheckValue(c) \/ Wake(c)
  BY <1>2 DEF Refuse, Subscribe, CheckValue, Wake, Goto, TypeOK, Inv, OneFlight
<1>3. ASSUME NEW f \in Flights, Acquire(c, f) PROVE Inv'
  BY <1>3, FlightAssumption DEF Acquire, Goto, TypeOK, Inv, OneFlight
<1>4. CASE Send(c)
  BY <1>4 DEF Send, Goto, TypeOK, Inv, OneFlight
<1>5. CASE Remove(c) \/ Release(c)
  BY <1>5 DEF Remove, Release, Goto, TypeOK, Inv, OneFlight
<1> QED BY <1>1, <1>2, <1>3, <1>4, <1>5 DEF Acts, Proceed

\* The types and the invariant hold together.
THEOREM Safe == Spec => [](TypeOK /\ Inv)
<1>1. Init => TypeOK /\ Inv
  BY DEF Init, TypeOK, Inv, OneFlight, Pcs
<1>2. TypeOK /\ Inv /\ [Next]_vars => (TypeOK /\ Inv)'
  <2> SUFFICES ASSUME TypeOK, Inv, [Next]_vars PROVE (TypeOK /\ Inv)'
    OBVIOUS
  <2>1. CASE UNCHANGED vars
    BY <2>1 DEF vars, TypeOK, Inv, OneFlight
  <2>2. CASE Next
    BY <2>2, TypeStep, InvStep DEF Next, Acts
  <2> QED BY <2>1, <2>2
<1> QED BY <1>1, <1>2, PTL DEF Spec

\* A guard and a receiver always belong to a flight (acquire_with_cancellation).
THEOREM FlightTypes == Spec => []TypeOK
<1> QED BY Safe, PTL

\* Two lease operations of one generator never run at the same time: the guard
\* of coordination.rs gives what lease.rs:371 asks for.
THEOREM Exclusion == Spec => []OneFlight
<1>1. Inv => OneFlight
  BY DEF Inv
<1> QED BY <1>1, Safe, PTL

\* flights.remove in the guard's Drop only ever removes the guard's own entry.
THEOREM OwnEntry == Spec => []RemovesOwnEntry
<1>1. Inv => RemovesOwnEntry
  BY DEF Inv, RemovesOwnEntry
<1> QED BY <1>1, Safe, PTL
=============================================================================
