------------------------ MODULE IdentityLeaseProofs ------------------------
(***************************************************************************)
(* The theorem that a process with a running confirmation holds the        *)
(* identity key (IdentityLease.AuthorityIsReal), for any number of         *)
(* processes and leases and any TTL.                                       *)
(*                                                                         *)
(* The argument: what etcd has left of a lease is never less than what its *)
(* process believes in (Covered), because a confirmation is counted from   *)
(* before its request was handled (InFlight); and the key of a process     *)
(* that has claimed goes only with its lease (KeyFollowsLease).            *)
(***************************************************************************)
EXTENDS IdentityLease, TLAPS

Lasts(p, n) == held[p] \in live /\ ttl[held[p]] >= n

\* A process has a lease from the grant on, a keepalive task after the claim,
\* and an answer only while it waits for it.
Stages ==
    \A p \in Processes :
        /\ pc[p] \in {"off", "grant"} <=> held[p] = NoLease
        /\ pc[p] \in {"off", "grant", "granted"} => left[p] = 0
        /\ ka[p] # "over" => pc[p] \in {"startup", "serve", "close"}
        /\ answer[p] # NoAnswer => ka[p] = "wait"
        /\ answer[p] \in {0, Ttl, NoAnswer}

Distinct == \A p, q \in Processes : p # q /\ held[p] # NoLease => held[p] # held[q]

Covered == \A p \in Processes : left[p] > 0 => Lasts(p, left[p])

\* A confirmation that is on its way: the grant's, or a keepalive's.
InFlight ==
    \A p \in Processes :
        (pc[p] = "granted" \/ answer[p] = Ttl) /\ age[p] < Ttl => Lasts(p, Ttl - age[p])

KeyFollowsLease == \A p \in Processes : Claimed(p) /\ held[p] \in live => key = held[p]

IInv == TypeOK /\ Stages /\ Distinct /\ Covered /\ InFlight /\ KeyFollowsLease

-----------------------------------------------------------------------------
\* The identity's inductive invariant holds when no process has started.
LEMMA InitIInv == Init => IInv
  BY IdentityAssumption
  DEF Init, IInv, TypeOK, Stages, Distinct, Covered, InFlight, KeyFollowsLease, Claimed,
      Pcs, KeepaliveStates, NoAnswer

\* A process that ends and takes its lease with it, or leaves it behind,
\* disturbs nobody else's (Ends, Revoke).
LEMMA EndPreserves ==
  ASSUME IInv, NEW p \in Processes, Ends(p), UNCHANGED server \/ DropLease(held[p]),
         held[p] \in Leases \/ UNCHANGED server
  PROVE  IInv'
<1>1. TypeOK'
  BY IdentityAssumption DEF IInv, TypeOK, Ends, Goto, DropLease, server, Pcs, KeepaliveStates, NoAnswer
<1>2. Stages'
  BY IdentityAssumption DEF IInv, TypeOK, Stages, Ends, Goto, NoAnswer
<1>3. Distinct'
  BY DEF IInv, TypeOK, Distinct, Ends
<1>4. \A q \in Processes : q # p =>
        /\ held'[q] = held[q] /\ left'[q] = left[q] /\ age'[q] = age[q]
        /\ pc'[q] = pc[q] /\ answer'[q] = answer[q]
        /\ held[q] # NoLease => (held[q] \in live' <=> held[q] \in live) /\ ttl'[held[q]] = ttl[held[q]]
        /\ held[q] # NoLease /\ key = held[q] => key' = held[q]
  BY DEF IInv, TypeOK, Distinct, Ends, Goto, DropLease, server
<1>5. Covered'
  BY <1>4, IdentityAssumption DEF IInv, TypeOK, Covered, Lasts, Stages, Ends
<1>6. InFlight'
  BY <1>4, IdentityAssumption DEF IInv, TypeOK, InFlight, Lasts, Stages, Ends, Goto, NoAnswer
<1>7. KeyFollowsLease'
  BY <1>4, IdentityAssumption DEF IInv, TypeOK, KeyFollowsLease, Claimed, Stages, Ends, Goto
<1> QED  BY <1>1, <1>2, <1>3, <1>5, <1>6, <1>7 DEF IInv

\* Time takes as much from etcd's lease as from the process's window.
LEMMA TickPreserves ==
  ASSUME IInv, Tick
  PROVE  IInv'
<1> USE IdentityAssumption
<1> USE DEF IInv, TypeOK, Tick, task
<1>1. TypeOK'  BY DEF Pcs, KeepaliveStates, NoAnswer
<1>2. Stages'  BY DEF Stages, NoAnswer
<1>3. Distinct'  BY DEF Distinct, Stages
<1>4. Covered'  BY DEF Covered, Lasts, Stages, Distinct, InFlight, NoAnswer
<1>5. InFlight'  BY DEF InFlight, Lasts, Stages, Distinct, NoAnswer
<1>6. KeyFollowsLease'  BY DEF KeyFollowsLease, Claimed, Stages, Distinct
<1> QED  BY <1>1, <1>2, <1>3, <1>4, <1>5, <1>6

\* An expired lease covers nothing: its process has no window left.
LEMMA ExpirePreserves ==
  ASSUME IInv, NEW l \in Leases, Expire(l)
  PROVE  IInv'
<1> USE IdentityAssumption
<1> USE DEF IInv, TypeOK, Expire, DropLease, task
<1>1. TypeOK'  BY DEF Pcs, KeepaliveStates, NoAnswer
<1>2. Stages'  BY DEF Stages, NoAnswer
<1>3. Distinct'  BY DEF Distinct, Stages
<1>4. Covered'  BY DEF Covered, Lasts, Stages, Distinct, InFlight, NoAnswer
<1>5. InFlight'  BY DEF InFlight, Lasts, Stages, Distinct, NoAnswer
<1>6. KeyFollowsLease'  BY DEF KeyFollowsLease, Claimed, Stages, Distinct
<1> QED  BY <1>1, <1>2, <1>3, <1>4, <1>5, <1>6

\* A new request.
LEMMA AskGrantPreserves ==
  ASSUME IInv, NEW p \in Processes, AskGrant(p)
  PROVE  IInv'
<1> USE IdentityAssumption
<1> USE DEF IInv, TypeOK, AskGrant, Goto, server, task
<1>1. TypeOK'  BY DEF Pcs, KeepaliveStates, NoAnswer
<1>2. Stages'  BY DEF Stages, NoAnswer
<1>3. Distinct'  BY DEF Distinct, Stages
<1>4. Covered'  BY DEF Covered, Lasts, Stages, Distinct, InFlight, NoAnswer
<1>5. InFlight'  BY DEF InFlight, Lasts, Stages, Distinct, NoAnswer
<1>6. KeyFollowsLease'  BY DEF KeyFollowsLease, Claimed, Stages, Distinct
<1> QED  BY <1>1, <1>2, <1>3, <1>4, <1>5, <1>6

\* The granted lease is new to everybody.
LEMMA GrantPreserves ==
  ASSUME IInv, NEW p \in Processes, NEW l \in Leases, Grant(p, l)
  PROVE  IInv'
<1> USE IdentityAssumption
<1> USE DEF IInv, TypeOK, Grant, Goto, task
<1>1. TypeOK'  BY DEF Pcs, KeepaliveStates, NoAnswer
<1>2. Stages'  BY DEF Stages, NoAnswer
<1>3. Distinct'  BY DEF Distinct, Stages
<1>4. Covered'  BY DEF Covered, Lasts, Stages, Distinct, InFlight, NoAnswer
<1>5. InFlight'  BY DEF InFlight, Lasts, Stages, Distinct, NoAnswer
<1>6. KeyFollowsLease'  BY DEF KeyFollowsLease, Claimed, Stages, Distinct
<1> QED  BY <1>1, <1>2, <1>3, <1>4, <1>5, <1>6

\* The key is taken only when nobody's lease has it.
LEMMA ClaimPreserves ==
  ASSUME IInv, NEW p \in Processes, Claim(p)
  PROVE  IInv'
<1> USE IdentityAssumption
<1> USE DEF IInv, TypeOK, Claim, Goto, task
<1>1. TypeOK'  BY DEF Pcs, KeepaliveStates, NoAnswer
<1>2. Stages'  BY DEF Stages, NoAnswer
<1>3. Distinct'  BY DEF Distinct, Stages
<1>4. Covered'  BY DEF Covered, Lasts, Stages, Distinct, InFlight, NoAnswer
<1>5. InFlight'  BY DEF InFlight, Lasts, Stages, Distinct, NoAnswer
<1>6. KeyFollowsLease'  BY DEF KeyFollowsLease, Claimed, Stages, Distinct
<1> QED  BY <1>1, <1>2, <1>3, <1>4, <1>5, <1>6

\* The request's age starts at zero.
LEMMA SendKeepalivePreserves ==
  ASSUME IInv, NEW p \in Processes, SendKeepalive(p)
  PROVE  IInv'
<1> USE IdentityAssumption
<1> USE DEF IInv, TypeOK, SendKeepalive, server
<1>1. TypeOK'  BY DEF Pcs, KeepaliveStates, NoAnswer
<1>2. Stages'  BY DEF Stages, NoAnswer
<1>3. Distinct'  BY DEF Distinct, Stages
<1>4. Covered'  BY DEF Covered, Lasts, Stages, Distinct, InFlight, NoAnswer
<1>5. InFlight'  BY DEF InFlight, Lasts, Stages, Distinct, NoAnswer
<1>6. KeyFollowsLease'  BY DEF KeyFollowsLease, Claimed, Stages, Distinct
<1> QED  BY <1>1, <1>2, <1>3, <1>4, <1>5, <1>6

\* etcd restarts the lease before it answers.
LEMMA RenewPreserves ==
  ASSUME IInv, NEW p \in Processes, Renew(p)
  PROVE  IInv'
<1> USE IdentityAssumption
<1> USE DEF IInv, TypeOK, Renew
<1>1. TypeOK'  BY DEF Pcs, KeepaliveStates, NoAnswer
<1>2. Stages'  BY DEF Stages, NoAnswer
<1>3. Distinct'  BY DEF Distinct, Stages
<1>4. Covered'  BY DEF Covered, Lasts, Stages, Distinct, InFlight, NoAnswer
<1>5. InFlight'  BY DEF InFlight, Lasts, Stages, Distinct, NoAnswer
<1>6. KeyFollowsLease'  BY DEF KeyFollowsLease, Claimed, Stages, Distinct
<1> QED  BY <1>1, <1>2, <1>3, <1>4, <1>5, <1>6

\* The new window is what the answer has left.
LEMMA ReceiveAnswerPreserves ==
  ASSUME IInv, NEW p \in Processes, ReceiveAnswer(p)
  PROVE  IInv'
<1> USE IdentityAssumption
<1> USE DEF IInv, TypeOK, ReceiveAnswer, Confirms, ConfirmedWindow, server
<1>0. lost' \in [Processes -> BOOLEAN]  BY Zenon
<1>1. TypeOK'
  <2>1. left' \in [Processes -> 0 .. Ttl] /\ answer' \in [Processes -> 0 .. NoAnswer]
    BY DEF NoAnswer
  <2>2. ka' \in [Processes -> KeepaliveStates]  BY DEF KeepaliveStates
  <2> QED  BY <1>0, <2>1, <2>2, Zenon
<1>2. Stages'  BY DEF Stages, NoAnswer
<1>3. Distinct'  BY DEF Distinct, Stages
<1>4. Covered'  BY DEF Covered, Lasts, Stages, Distinct, InFlight, NoAnswer
<1>5. InFlight'  BY DEF InFlight, Lasts, Stages, Distinct, NoAnswer
<1>6. KeyFollowsLease'  BY DEF KeyFollowsLease, Claimed, Stages, Distinct
<1> QED  BY <1>1, <1>2, <1>3, <1>4, <1>5, <1>6

\* The other steps of the task move no window.
LEMMA TaskStepPreserves ==
  ASSUME IInv, NEW p \in Processes, Heartbeat(p) \/ KeepaliveFails(p) \/ Reconnect(p)
  PROVE  IInv'
<1> USE IdentityAssumption
<1> USE DEF IInv, TypeOK, Heartbeat, KeepaliveFails, Reconnect, server
<1>0. lost' \in [Processes -> BOOLEAN]  BY Zenon
<1>1. TypeOK'
  <2>1. left' \in [Processes -> 0 .. Ttl] /\ answer' \in [Processes -> 0 .. NoAnswer]
    BY DEF NoAnswer
  <2>2. ka' \in [Processes -> KeepaliveStates]  BY DEF KeepaliveStates
  <2> QED  BY <1>0, <2>1, <2>2, Zenon
<1>2. Stages'  BY DEF Stages, NoAnswer
<1>3. Distinct'  BY DEF Distinct, Stages
<1>4. Covered'  BY DEF Covered, Lasts, Stages, Distinct, InFlight, NoAnswer
<1>5. InFlight'  BY DEF InFlight, Lasts, Stages, Distinct, NoAnswer
<1>6. KeyFollowsLease'  BY DEF KeyFollowsLease, Claimed, Stages, Distinct
<1> QED  BY <1>1, <1>2, <1>3, <1>4, <1>5, <1>6

\* The gate closes before the identity is given up.
LEMMA StopStepPreserves ==
  ASSUME IInv, NEW p \in Processes, LossMonitor(p) \/ StopServing(p)
  PROVE  IInv'
<1> USE IdentityAssumption
<1> USE DEF IInv, TypeOK, LossMonitor, StopServing, Goto, server, task
<1>1. TypeOK'  BY DEF Pcs, KeepaliveStates, NoAnswer
<1>2. Stages'  BY DEF Stages, NoAnswer
<1>3. Distinct'  BY DEF Distinct, Stages
<1>4. Covered'  BY DEF Covered, Lasts, Stages, Distinct, InFlight, NoAnswer
<1>5. InFlight'  BY DEF InFlight, Lasts, Stages, Distinct, NoAnswer
<1>6. KeyFollowsLease'  BY DEF KeyFollowsLease, Claimed, Stages, Distinct
<1> QED  BY <1>1, <1>2, <1>3, <1>4, <1>5, <1>6

\* A grant that is confirmed opens the first window.
LEMMA ConfirmPreserves ==
  ASSUME IInv, NEW p \in Processes, pc[p] = "granted", Confirms(p, Ttl),
         left' = [left EXCEPT ![p] = ConfirmedWindow(p, Ttl)], Goto(p, "claim"),
         UNCHANGED <<server, held, age, task>>
  PROVE  IInv'
<1> USE IdentityAssumption
<1> USE DEF IInv, TypeOK, Confirms, ConfirmedWindow, Goto, server, task
<1>1. TypeOK'  BY DEF Pcs, KeepaliveStates, NoAnswer
<1>2. Stages'  BY DEF Stages, NoAnswer
<1>3. Distinct'  BY DEF Distinct, Stages
<1>4. Covered'  BY DEF Covered, Lasts, Stages, Distinct, InFlight, NoAnswer
<1>5. InFlight'  BY DEF InFlight, Lasts, Stages, Distinct, NoAnswer
<1>6. KeyFollowsLease'  BY DEF KeyFollowsLease, Claimed, Stages, Distinct
<1> QED  BY <1>1, <1>2, <1>3, <1>4, <1>5, <1>6

\* Whoever goes on past the claim holds the key.
LEMMA ProceedPreserves ==
  ASSUME IInv, NEW p \in Processes, Claimed(p) \/ (pc[p] = "verify" /\ key = held[p]),
         pc' \in {[pc EXCEPT ![p] = "open"], [pc EXCEPT ![p] = "startup"], [pc EXCEPT ![p] = "serve"]},
         \/ ka' = ka
         \/ ka[p] = "over" /\ ka' = [ka EXCEPT ![p] = "send"] /\ pc' # [pc EXCEPT ![p] = "open"],
         ka[p] # "over" => pc' # [pc EXCEPT ![p] = "open"],
         UNCHANGED <<server, held, left, age, answer, lost>>
  PROVE  IInv'
<1> USE IdentityAssumption
<1> USE DEF IInv, TypeOK, Claimed, server
<1>1. TypeOK'  BY DEF Pcs, KeepaliveStates, NoAnswer
<1>2. Stages'  BY DEF Stages, NoAnswer
<1>3. Distinct'  BY DEF Distinct, Stages
<1>4. Covered'  BY DEF Covered, Lasts, Stages, Distinct, InFlight, NoAnswer
<1>5. InFlight'  BY DEF InFlight, Lasts, Stages, Distinct, NoAnswer
<1>6. KeyFollowsLease'  BY DEF KeyFollowsLease, Claimed, Stages, Distinct
<1> QED  BY <1>1, <1>2, <1>3, <1>4, <1>5, <1>6

\* Each step of the identity keeps the inductive invariant.
LEMMA NextIInv == IInv /\ [Next]_vars => IInv'
<1> SUFFICES ASSUME IInv, [Next]_vars PROVE IInv'
  OBVIOUS
<1>1. CASE UNCHANGED vars
  BY <1>1 DEF vars, IInv, TypeOK, Stages, Distinct, Covered, InFlight, KeyFollowsLease, Claimed, Lasts
<1>2. CASE Tick  BY <1>2, TickPreserves
<1>3. CASE \E l \in Leases : Expire(l)  BY <1>3, ExpirePreserves
<1>4. ASSUME NEW p \in Processes, Acquire(p)  PROVE IInv'
  <2>0. pc[p] \notin {"off", "grant"} => held[p] \in Leases
    BY DEF IInv, TypeOK, Stages
  <2>1. CASE AskGrant(p)  BY <2>1, AskGrantPreserves
  <2>2. CASE \E l \in Leases : Grant(p, l)  BY <2>2, GrantPreserves
  <2>3. CASE CheckGrant(p)
    <3>1. CASE Confirms(p, Ttl)
      BY <2>3, <3>1, ConfirmPreserves DEF CheckGrant
    <3>2. CASE ~Confirms(p, Ttl)
      BY <2>0, <2>3, <3>2, EndPreserves DEF CheckGrant, Revoke
    <3> QED  BY <3>1, <3>2
  <2>4. CASE Claim(p)  BY <2>4, ClaimPreserves
  <2>5. CASE Verify(p)
    <3>1. CASE ClaimMatches(p) /\ Goto(p, "open") /\ UNCHANGED <<server, held, left, age, task>>
      BY <2>5, <3>1, ProceedPreserves DEF Verify, ClaimMatches, Goto, task, IInv, Stages
    <3>2. CASE (Revoke(held[p]) \/ UNCHANGED server) /\ Ends(p)
      BY <2>0, <2>5, <3>2, EndPreserves DEF Verify, Revoke
    <3> QED  BY <2>5, <3>1, <3>2 DEF Verify
  <2>6. CASE OpenKeepalive(p)
    <3>1. CASE UNCHANGED server /\ Ends(p)  BY <3>1, EndPreserves
    <3>2. CASE ~(UNCHANGED server /\ Ends(p))
      BY <2>6, <3>2, ProceedPreserves DEF OpenKeepalive, Claimed, Goto, IInv, TypeOK, Stages
    <3> QED  BY <3>1, <3>2
  <2>7. CASE FinishStartup(p)
    <3>1. CASE Revoke(held[p]) /\ Ends(p)
      BY <2>0, <2>7, <3>1, EndPreserves DEF FinishStartup, Revoke
    <3>2. CASE ~(Revoke(held[p]) /\ Ends(p))
      BY <2>7, <3>2, ProceedPreserves DEF FinishStartup, Claimed, Goto, task, IInv, TypeOK, Stages
    <3> QED  BY <3>1, <3>2
  <2> QED  BY <1>4, <2>1, <2>2, <2>3, <2>4, <2>5, <2>6, <2>7 DEF Acquire
<1>5. ASSUME NEW p \in Processes, KeepaliveTask(p) \/ Renew(p)  PROVE IInv'
  BY <1>5, SendKeepalivePreserves, ReceiveAnswerPreserves, TaskStepPreserves, RenewPreserves
  DEF KeepaliveTask
<1>6. ASSUME NEW p \in Processes, LossMonitor(p) \/ StopServing(p)  PROVE IInv'
  BY <1>6, StopStepPreserves
<1>7. ASSUME NEW p \in Processes, ShutdownIdentity(p) \/ Crash(p)  PROVE IInv'
  BY <1>7, EndPreserves DEF ShutdownIdentity, Crash, Revoke, IInv, TypeOK, Stages
<1> QED  BY <1>1, <1>2, <1>3, <1>4, <1>5, <1>6, <1>7 DEF Next

\* For any number of processes and leases and any TTL: a process whose last
\* confirmation still runs by its own clock holds the identity key, so no other
\* process can claim the instance (identity_lease_confirmed_window).
THEOREM IdentityAuthority == Spec => []AuthorityIsReal
<1>1. IInv => AuthorityIsReal
  BY DEF IInv, AuthorityIsReal, Authority, Covered, Lasts, KeyFollowsLease
<1> QED  BY InitIInv, NextIInv, <1>1, PTL DEF Spec

\* The identity's state keeps its type.
THEOREM IdentityTypes == Spec => []TypeOK
<1>1. IInv => TypeOK  BY DEF IInv
<1> QED  BY InitIInv, NextIInv, <1>1, PTL DEF Spec
=============================================================================
