----------------------------- MODULE LeaseFlight -----------------------------
(***************************************************************************)
(* The singleflight of one generator's lease operations                    *)
(* (service/lease/coordination.rs): GeneratorLeaseCoordinator::            *)
(* acquire_with_cancellation and the Drop of GeneratorLeaseFlightGuard.    *)
(*                                                                         *)
(* The map holds, for the generator, the sender of a watch channel.  A     *)
(* caller that finds the entry vacant puts a new sender there and works    *)
(* under a guard; one that finds it occupied subscribes and waits.  The    *)
(* guard's Drop sends true, removes the entry, and gives its sender up, in *)
(* three steps that others may come between.                               *)
(*                                                                         *)
(* tokio's watch channel: send stores the value only if somebody is        *)
(* subscribed; changed() returns on a value newer than the subscription,   *)
(* or once every sender is gone.                                           *)
(***************************************************************************)
CONSTANTS
    Callers,    \* tasks that run lease operations of this generator
    Flights     \* watch channels

None == "none"

ASSUME FlightAssumption == None \notin Flights

VARIABLES
    entry,      \* flights[generator_id]: a channel, or None
    sent,       \* the channels whose value is true
    pc,         \* where each caller is
    own,        \* the channel in a caller's guard
    sub,        \* the channel a caller is subscribed to
    cancelled   \* the callers whose RequestCancellation has fired

vars == <<entry, sent, pc, own, sub, cancelled>>

\* loop: top of the loop; check: subscribed, value not read yet; wait: in
\* changed(); hold: under the guard; drop, gone: in its Drop, after the send
\* and after the remove.
Pcs == {"idle", "loop", "check", "wait", "hold", "drop", "gone"}

-----------------------------------------------------------------------------
Init ==
    /\ entry = None /\ sent = {} /\ cancelled = {}
    /\ pc = [c \in Callers |-> "idle"]
    /\ own = [c \in Callers |-> None]
    /\ sub = [c \in Callers |-> None]

\* A sender lives in the map and in guards.
SenderAlive(f) == entry = f \/ \E c \in Callers : own[c] = f
Subscribed(f) == \E c \in Callers : sub[c] = f

Goto(c, label) == pc' = [pc EXCEPT ![c] = label]

\* A lease operation begins, with a cancellation that has not fired.
Call(c) ==
    /\ pc[c] = "idle"
    /\ Goto(c, "loop")
    /\ cancelled' = cancelled \ {c}
    /\ UNCHANGED <<entry, sent, own, sub>>

\* The request behind it is cancelled; whoever looks notices later.
Cancel(c) ==
    /\ pc[c] \in {"loop", "check", "wait"} /\ c \notin cancelled
    /\ cancelled' = cancelled \cup {c}
    /\ UNCHANGED <<entry, sent, pc, own, sub>>

\* RequestCancelled at the top of the loop.
Refuse(c) ==
    /\ pc[c] = "loop" /\ c \in cancelled
    /\ Goto(c, "idle")
    /\ UNCHANGED <<entry, sent, own, sub, cancelled>>

\* Mutant of Acquire: a flight that has announced its end no longer counts.
AcquireOverSent(c, f) ==
    /\ pc[c] = "loop"
    /\ entry = None \/ entry \in sent
    /\ ~SenderAlive(f) /\ ~Subscribed(f)
    /\ entry' = f /\ sent' = sent \ {f}
    /\ own' = [own EXCEPT ![c] = f]
    /\ Goto(c, "hold")
    /\ UNCHANGED <<sub, cancelled>>

\* Vacant: a new channel f goes into the map and into the guard.  A
\* cancellation that fires after the check above is not noticed here.
Acquire(c, f) ==
    /\ pc[c] = "loop"
    /\ entry = None
    /\ ~SenderAlive(f) /\ ~Subscribed(f)
    /\ entry' = f /\ sent' = sent \ {f}
    /\ own' = [own EXCEPT ![c] = f]
    /\ Goto(c, "hold")
    /\ UNCHANGED <<sub, cancelled>>

\* Occupied: subscribe while the entry is locked.
Subscribe(c) ==
    /\ pc[c] = "loop"
    /\ entry # None
    /\ sub' = [sub EXCEPT ![c] = entry]
    /\ Goto(c, "check")
    /\ UNCHANGED <<entry, sent, own, cancelled>>

\* Read the value: true means the flight is over, go round again.
CheckValue(c) ==
    /\ pc[c] = "check"
    /\ IF sub[c] \in sent
       THEN Goto(c, "loop") /\ sub' = [sub EXCEPT ![c] = None]
       ELSE Goto(c, "wait") /\ UNCHANGED sub
    /\ UNCHANGED <<entry, sent, own, cancelled>>

\* Mutant of Wake: the end of the channel itself does not wake a waiter.
WakeOnValue(c) ==
    /\ pc[c] = "wait"
    /\ sub[c] \in sent
    /\ Goto(c, "loop")
    /\ sub' = [sub EXCEPT ![c] = None]
    /\ UNCHANGED <<entry, sent, own, cancelled>>

\* changed() returns.
Wake(c) ==
    /\ pc[c] = "wait"
    /\ sub[c] \in sent \/ ~SenderAlive(sub[c])
    /\ Goto(c, "loop")
    /\ sub' = [sub EXCEPT ![c] = None]
    /\ UNCHANGED <<entry, sent, own, cancelled>>

\* The select! sees the cancellation, or the caller's future is dropped.
GiveUp(c) ==
    /\ pc[c] = "wait" /\ c \in cancelled
    /\ Goto(c, "idle")
    /\ sub' = [sub EXCEPT ![c] = None]
    /\ UNCHANGED <<entry, sent, own, cancelled>>

\* The work is over, failed or dropped: the guard's Drop sends true.
Send(c) ==
    /\ pc[c] = "hold"
    /\ sent' = IF Subscribed(own[c]) THEN sent \cup {own[c]} ELSE sent
    /\ Goto(c, "drop")
    /\ UNCHANGED <<entry, own, sub, cancelled>>

\* flights.remove(generator_id): whatever entry is there.
Remove(c) ==
    /\ pc[c] = "drop"
    /\ entry' = None
    /\ Goto(c, "gone")
    /\ UNCHANGED <<sent, own, sub, cancelled>>

\* The guard's own sender is dropped last.
Release(c) ==
    /\ pc[c] = "gone"
    /\ own' = [own EXCEPT ![c] = None]
    /\ Goto(c, "idle")
    /\ UNCHANGED <<entry, sent, sub, cancelled>>

\* What a caller does by itself once it has begun.
Proceed(c) ==
    \/ Refuse(c) \/ (\E f \in Flights : Acquire(c, f)) \/ Subscribe(c)
    \/ CheckValue(c) \/ Wake(c) \/ Send(c) \/ Remove(c) \/ Release(c)

Next == \E c \in Callers : Call(c) \/ Cancel(c) \/ GiveUp(c) \/ Proceed(c)

Spec == Init /\ [][Next]_vars

-----------------------------------------------------------------------------
TypeOK ==
    /\ entry \in Flights \cup {None} /\ sent \subseteq Flights
    /\ pc \in [Callers -> Pcs]
    /\ own \in [Callers -> Flights \cup {None}]
    /\ sub \in [Callers -> Flights \cup {None}]
    /\ cancelled \subseteq Callers

\* At most one lease operation of the generator runs at a time: what
\* lease.rs:371 asks of the callers of a refresh is what the guard gives.
OneFlight ==
    \A c, d \in Callers : pc[c] \in {"hold", "drop"} /\ pc[d] \in {"hold", "drop"} => c = d

\* The entry a guard's Drop removes is its own, never that of a later flight
\* (coordination.rs:25 does not look).
RemovesOwnEntry == \A c \in Callers : pc[c] = "drop" => entry = own[c]

-----------------------------------------------------------------------------
\* Who holds the entry, and with which channel: the inductive invariant.
Inv ==
    /\ \A c \in Callers : pc[c] \in {"hold", "drop"} => entry = own[c] /\ entry # None
    /\ entry # None => \E c \in Callers : pc[c] \in {"hold", "drop"}
    /\ OneFlight
=============================================================================
