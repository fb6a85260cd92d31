---------------------------- MODULE IdentityLease ----------------------------
(***************************************************************************)
(* The instance identity of a worker: a key of etcd under a lease that the *)
(* process keeps alive (metadata/etcd/identity_lifecycle.rs and            *)
(* metadata/identity.rs), the part of the startup that claims and verifies *)
(* it (startup/bootstrap.rs) and the monitor that stops the worker when it *)
(* is lost (startup/runtime.rs).                                           *)
(*                                                                         *)
(* All Processes are configured with the same instance id.  Instants are   *)
(* modelled by the time that is left until them, or that has passed since  *)
(* them, so that time never has to end: a process knows how long its last  *)
(* confirmation lasts (`left`, until lease_alive_until) and etcd how long  *)
(* the lease does (`ttl`).  Both clocks run at one rate; requests, answers *)
(* and tasks are delayed as long as they like, and etcd deletes an expired *)
(* lease late or at once.                                                  *)
(***************************************************************************)
EXTENDS Naturals, FiniteSets

CONSTANTS
    Processes,  \* that run, one after the other or together, as the instance
    Leases,     \* lease ids of etcd; an id that is free again may be reused
    Ttl         \* confirmed_ttl_seconds of the grant and of each keepalive

NoLease == "no lease"
NoAnswer == Ttl + 1

ASSUME IdentityAssumption == Ttl \in Nat \ {0} /\ NoLease \notin Leases

VARIABLES
    live,       \* etcd: the leases it holds
    ttl,        \* etcd: what is left of each
    key,        \* etcd: the lease of the instance's identity key, or NoLease
    pc,         \* where each process is
    held,       \* the lease of a process
    left,       \* time until its lease_alive_until
    age,        \* time since request_started_at, up to Ttl
    ka,         \* the keepalive task
    answer,     \* the answer in its stream
    lost        \* lost_tx

vars == <<live, ttl, key, pc, held, left, age, ka, answer, lost>>
server == <<live, ttl, key>>
task == <<ka, answer, lost>>

\* off: not running; grant, granted, claim, verify, open: in
\* acquire_identity_lease_internal; startup: in finalize_etcd_startup; serve:
\* behind the open serving gate; close: the gate is closed, shutting down.
Pcs == {"off", "grant", "granted", "claim", "verify", "open", "startup", "serve", "close"}
\* The states of the keepalive task; over: not running or ended.
KeepaliveStates == {"over", "send", "wait", "sleep", "reconnect"}

Init ==
    /\ live = {} /\ ttl = [l \in Leases |-> 0] /\ key = NoLease
    /\ pc = [p \in Processes |-> "off"]
    /\ held = [p \in Processes |-> NoLease]
    /\ left = [p \in Processes |-> 0]
    /\ age = [p \in Processes |-> 0]
    /\ ka = [p \in Processes |-> "over"]
    /\ answer = [p \in Processes |-> NoAnswer]
    /\ lost = [p \in Processes |-> FALSE]

Goto(p, label) == pc' = [pc EXCEPT ![p] = label]

\* The process is gone, or has given its lease up, and with it its task.
Ends(p) ==
    /\ Goto(p, "off")
    /\ held' = [held EXCEPT ![p] = NoLease]
    /\ left' = [left EXCEPT ![p] = 0]
    /\ age' = [age EXCEPT ![p] = 0]
    /\ ka' = [ka EXCEPT ![p] = "over"]
    /\ answer' = [answer EXCEPT ![p] = NoAnswer]
    /\ lost' = [lost EXCEPT ![p] = FALSE]

\* etcd drops a lease and the key attached to it.
DropLease(l) ==
    /\ live' = live \ {l}
    /\ ttl' = [ttl EXCEPT ![l] = 0]
    /\ key' = IF key = l THEN NoLease ELSE key

\* lease_revoke, whose failure or timeout is only logged.
Revoke(l) == DropLease(l) \/ UNCHANGED server

-----------------------------------------------------------------------------
\* etcd and time.

Tick ==
    /\ ttl' = [l \in Leases |-> IF ttl[l] > 0 THEN ttl[l] - 1 ELSE 0]
    /\ left' = [p \in Processes |-> IF left[p] > 0 THEN left[p] - 1 ELSE 0]
    /\ age' = [p \in Processes |-> IF pc[p] # "off" /\ age[p] < Ttl THEN age[p] + 1 ELSE age[p]]
    /\ UNCHANGED <<live, key, pc, held, task>>

Expire(l) ==
    /\ l \in live /\ ttl[l] = 0
    /\ DropLease(l)
    /\ UNCHANGED <<pc, held, left, age, task>>

-----------------------------------------------------------------------------
\* The claim.

\* Mutants of ConfirmedWindow: it counts from the arrival of the answer; the
\* time the request took is added.
WindowFromArrival(p, confirmed) == confirmed
\* identity_lease_confirmed_window: a confirmation counts from the moment the
\* request was made, and not at all when it is used up on arrival.
ConfirmedWindow(p, confirmed) == IF confirmed > age[p] THEN confirmed - age[p] ELSE 0

\* identity_keepalive_response_decision, and the same choice for the grant.
Confirms(p, confirmed) == ConfirmedWindow(p, confirmed) > 0

\* claimed_instance_identity_matches: the key with this very lease.
ClaimMatches(p) == key = held[p]
\* verify_instance_identity_write_path reads the key once more.
WritePathVerified(p) == key = held[p]

AskGrant(p) ==
    /\ pc[p] = "off"
    /\ Goto(p, "grant")
    /\ age' = [age EXCEPT ![p] = 0]
    /\ UNCHANGED <<server, held, left, task>>

\* etcd grants a lease.  When the answer is lost the request is repeated and
\* the lease is left to expire.
Grant(p, l) ==
    /\ pc[p] = "grant" /\ l \notin live /\ \A q \in Processes : held[q] # l
    /\ live' = live \cup {l}
    /\ ttl' = [ttl EXCEPT ![l] = Ttl]
    /\ \/ Goto(p, "granted") /\ held' = [held EXCEPT ![p] = l]
       \/ UNCHANGED <<pc, held>>
    /\ UNCHANGED <<key, left, age, task>>

\* validate_identity_lease_grant_or_revoke.
CheckGrant(p) ==
    /\ pc[p] = "granted"
    /\ \/ /\ Confirms(p, Ttl)
          /\ left' = [left EXCEPT ![p] = ConfirmedWindow(p, Ttl)]
          /\ Goto(p, "claim")
          /\ UNCHANGED <<server, held, age, task>>
       \/ /\ ~Confirms(p, Ttl)
          /\ Revoke(held[p])
          /\ Ends(p)

\* The transaction of claim_instance_identity_with_lease: create the key if it
\* is not there.  The answer may be lost, after which the transaction is tried
\* again or, with the budget used up, the key is looked at.
Claim(p) ==
    /\ pc[p] = "claim"
    /\ \/ /\ key = NoLease /\ held[p] \in live
          /\ key' = held[p]
          /\ \E next \in {"open", "claim", "verify"} : Goto(p, next)
       \/ /\ key # NoLease \/ held[p] \notin live
          /\ \E next \in {"claim", "verify"} : Goto(p, next)
          /\ UNCHANGED key
       \/ /\ Goto(p, "verify")
          /\ UNCHANGED key
    /\ UNCHANGED <<live, ttl, held, left, age, task>>

\* An exact match is success after all.  The lease is revoked otherwise, except
\* when the lookup itself fails.
Verify(p) ==
    /\ pc[p] = "verify"
    /\ \/ /\ ClaimMatches(p)
          /\ Goto(p, "open")
          /\ UNCHANGED <<server, held, left, age, task>>
       \/ ~ClaimMatches(p) /\ Revoke(held[p]) /\ Ends(p)
       \/ UNCHANGED server /\ Ends(p)

\* The keepalive stream opens and the task starts; an error returns at once.
OpenKeepalive(p) ==
    /\ pc[p] = "open"
    /\ \/ /\ Goto(p, "startup")
          /\ ka' = [ka EXCEPT ![p] = "send"]
          /\ UNCHANGED <<server, held, left, age, answer, lost>>
       \/ UNCHANGED server /\ Ends(p)

\* finalize_etcd_startup: the key is read back; whatever fails shuts the
\* identity down.
FinishStartup(p) ==
    /\ pc[p] = "startup"
    /\ \/ /\ WritePathVerified(p)
          /\ Goto(p, "serve")
          /\ UNCHANGED <<server, held, left, age, task>>
       \/ Revoke(held[p]) /\ Ends(p)

-----------------------------------------------------------------------------
\* The keepalive task.

\* keeper.keep_alive(): sent, or failed.
SendKeepalive(p) ==
    /\ ka[p] = "send"
    /\ age' = [age EXCEPT ![p] = 0]
    /\ \E next \in {"wait", "reconnect"} : ka' = [ka EXCEPT ![p] = next]
    /\ UNCHANGED <<server, pc, held, left, answer, lost>>

\* etcd handles the request: a live lease starts again, of any other the answer
\* says a TTL of zero.
Renew(p) ==
    /\ ka[p] = "wait" /\ answer[p] = NoAnswer
    /\ IF held[p] \in live
       THEN ttl' = [ttl EXCEPT ![held[p]] = Ttl] /\ answer' = [answer EXCEPT ![p] = Ttl]
       ELSE UNCHANGED ttl /\ answer' = [answer EXCEPT ![p] = 0]
    /\ UNCHANGED <<live, key, pc, held, left, age, ka, lost>>

\* identity_keepalive_response_decision.  timeout_at polls the stream before
\* the timer, so that an answer that is there counts, however late it is.
ReceiveAnswer(p) ==
    /\ ka[p] = "wait" /\ answer[p] # NoAnswer
    /\ answer' = [answer EXCEPT ![p] = NoAnswer]
    /\ \/ /\ Confirms(p, answer[p])
          /\ left' = [left EXCEPT ![p] = ConfirmedWindow(p, answer[p])]
          /\ ka' = [ka EXCEPT ![p] = "sleep"]
          /\ UNCHANGED lost
       \/ /\ ~Confirms(p, answer[p])
          /\ lost' = [lost EXCEPT ![p] = TRUE]
          /\ ka' = [ka EXCEPT ![p] = "over"]
          /\ UNCHANGED left
    /\ UNCHANGED <<server, pc, held, age>>

\* The heartbeat interval, a third of what remains, is over.
Heartbeat(p) ==
    /\ ka[p] = "sleep"
    /\ ka' = [ka EXCEPT ![p] = "send"]
    /\ UNCHANGED <<server, pc, held, left, age, answer, lost>>

\* The stream ends or fails, or a step takes until lease_alive_until.
KeepaliveFails(p) ==
    /\ ka[p] = "wait" \/ (ka[p] \in {"send", "sleep"} /\ left[p] = 0)
    /\ ka' = [ka EXCEPT ![p] = "reconnect"]
    /\ answer' = [answer EXCEPT ![p] = NoAnswer]
    /\ UNCHANGED <<server, pc, held, left, age, lost>>

\* Mutant of Reconnect: it goes on trying past lease_alive_until.
ReconnectForever(p) ==
    /\ ka[p] = "reconnect"
    /\ ka' = [ka EXCEPT ![p] = "send"]
    /\ UNCHANGED <<server, pc, held, left, age, answer, lost>>

\* One round of the reconnect loop: past lease_alive_until the identity is
\* lost; before it a new stream is opened (a failure goes round again).
Reconnect(p) ==
    /\ ka[p] = "reconnect"
    /\ IF left[p] = 0
       THEN ka' = [ka EXCEPT ![p] = "over"] /\ lost' = [lost EXCEPT ![p] = TRUE]
       ELSE ka' = [ka EXCEPT ![p] = "send"] /\ UNCHANGED lost
    /\ UNCHANGED <<server, pc, held, left, age, answer>>

-----------------------------------------------------------------------------
\* The end.

\* spawn_identity_lease_loss_monitor: request_local_shutdown_gate.
LossMonitor(p) ==
    /\ pc[p] = "serve" /\ lost[p]
    /\ Goto(p, "close")
    /\ UNCHANGED <<server, held, left, age, task>>

\* A signal or a failed server ends supervise_critical_servers.
StopServing(p) ==
    /\ pc[p] = "serve"
    /\ Goto(p, "close")
    /\ UNCHANGED <<server, held, left, age, task>>

\* InstanceIdentityLease::shutdown: abort the task, revoke the lease.
ShutdownIdentity(p) ==
    /\ pc[p] = "close"
    /\ Revoke(held[p])
    /\ Ends(p)

\* The process dies, or a failed request ends its startup.
Crash(p) == pc[p] # "off" /\ Ends(p) /\ UNCHANGED server

Acquire(p) ==
    AskGrant(p) \/ (\E l \in Leases : Grant(p, l)) \/ CheckGrant(p) \/ Claim(p) \/ Verify(p)
    \/ OpenKeepalive(p) \/ FinishStartup(p)

KeepaliveTask(p) ==
    SendKeepalive(p) \/ ReceiveAnswer(p) \/ Heartbeat(p) \/ KeepaliveFails(p) \/ Reconnect(p)

Next ==
    \/ Tick
    \/ \E l \in Leases : Expire(l)
    \/ \E p \in Processes :
           \/ Acquire(p) \/ KeepaliveTask(p) \/ Renew(p)
           \/ LossMonitor(p) \/ StopServing(p) \/ ShutdownIdentity(p) \/ Crash(p)

Spec == Init /\ [][Next]_vars

-----------------------------------------------------------------------------
TypeOK ==
    /\ live \subseteq Leases /\ ttl \in [Leases -> 0 .. Ttl] /\ key \in Leases \cup {NoLease}
    /\ pc \in [Processes -> Pcs] /\ held \in [Processes -> Leases \cup {NoLease}]
    /\ left \in [Processes -> 0 .. Ttl] /\ age \in [Processes -> 0 .. Ttl]
    /\ ka \in [Processes -> KeepaliveStates] /\ answer \in [Processes -> 0 .. NoAnswer]
    /\ lost \in [Processes -> BOOLEAN]

Claimed(p) == pc[p] \in {"open", "startup", "serve", "close"}
Authority(p) == Claimed(p) /\ left[p] > 0

\* A process never outlives its identity: as long as its own clock says that the
\* last confirmation holds, the key in etcd is its own, so that no other process
\* can have claimed the instance (identity_lease_confirmed_window,
\* claim_instance_identity_with_lease).
AuthorityIsReal == \A p \in Processes : Authority(p) => key = held[p]
=============================================================================
