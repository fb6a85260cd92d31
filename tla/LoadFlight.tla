------------------------------ MODULE LoadFlight ------------------------------
(***************************************************************************)
(* The singleflight of loads of one timeline record                        *)
(* (service/runtime_coordination/loading.rs): TimelineLoadCoordinator::    *)
(* load_once and wait_for_flight_result.                                   *)
(*                                                                         *)
(* Whoever finds no flight in the map owns the next one: it reads the      *)
(* store, puts the result into the flight, takes the flight out of the map *)
(* and notifies.  The others wait for the result, or for the flight to be  *)
(* gone, with tokio's Notify, which wakes only those that were enabled     *)
(* before it fired.  What the store holds is a version that only grows.    *)
(***************************************************************************)
EXTENDS Naturals, FiniteSets, TLC

CONSTANTS
    Callers,    \* tasks that load the record
    Flights,    \* TimelineLoadFlight objects
    MaxVersion  \* bound: writes of the record

None == "none"
NoResult == MaxVersion + 1
Failed == MaxVersion + 2       \* an error of the store

\* The constants fit together.
LoadAssumption == None \notin Flights /\ MaxVersion \in Nat

VARIABLES
    version,    \* of the record in the store
    entry,      \* flights[key]
    result,     \* per flight
    pc,         \* where each caller is
    at,         \* the flight a caller owns or waits for
    asleep,     \* callers enabled in a Notify that has not fired since
    read,       \* what an owner has read, what a caller returns
    newest,     \* history: the newest version any caller has been given
    since       \* history: the newest of them when the caller came

vars == <<version, entry, result, pc, at, asleep, read, newest, since>>

\* loop: top of the loop; look, enable, again, sleep: in wait_for_flight_result,
\* before its first check, before enable(), before the second check, in the
\* await; load: the read; put: before the result is stored; out, wake: in
\* finish() or Drop, before the removal and before the notification.
Pcs == {"idle", "loop", "look", "enable", "again", "sleep", "load", "put", "out", "wake", "done"}

Init ==
    /\ version = 0 /\ entry = None /\ asleep = {}
    /\ result = [f \in Flights |-> NoResult]
    /\ pc = [c \in Callers |-> "idle"]
    /\ at = [c \in Callers |-> None]
    /\ read = [c \in Callers |-> NoResult]
    /\ since = [c \in Callers |-> 0]
    /\ newest = 0

Returns(c, v) ==
    /\ read' = [read EXCEPT ![c] = v]
    /\ newest' = IF v <= MaxVersion /\ v > newest THEN v ELSE newest
Goto(c, label) == pc' = [pc EXCEPT ![c] = label]
InUse(f) == entry = f \/ \E c \in Callers : at[c] = f
\* A new object; which of the unused ones it is makes no difference.
IsFresh(f) == ~InUse(f) /\ f = CHOOSE g \in Flights : ~InUse(g)

\* Another worker writes the record.
WriteRecord ==
    /\ version < MaxVersion
    /\ version' = version + 1
    /\ UNCHANGED <<entry, result, pc, at, asleep, read, since, newest>>

Call(c) ==
    /\ pc[c] \in {"idle", "done"}
    /\ Goto(c, "loop")
    /\ since' = [since EXCEPT ![c] = newest]
    /\ read' = [read EXCEPT ![c] = NoResult]
    /\ UNCHANGED <<version, entry, result, at, asleep, newest>>

\* Mutant of Own: the entry is looked up and inserted in two steps.
OwnAnyway(c, f) ==
    /\ pc[c] = "loop" /\ IsFresh(f)
    /\ entry' = f
    /\ result' = [result EXCEPT ![f] = NoResult]
    /\ at' = [at EXCEPT ![c] = f]
    /\ Goto(c, "load")
    /\ UNCHANGED <<version, asleep, read, since, newest>>

\* Entry::Vacant.
Own(c, f) ==
    /\ pc[c] = "loop" /\ entry = None /\ IsFresh(f)
    /\ entry' = f
    /\ result' = [result EXCEPT ![f] = NoResult]
    /\ at' = [at EXCEPT ![c] = f]
    /\ Goto(c, "load")
    /\ UNCHANGED <<version, asleep, read, since, newest>>

\* Entry::Occupied.
Join(c) ==
    /\ pc[c] = "loop" /\ entry # None
    /\ at' = [at EXCEPT ![c] = entry]
    /\ Goto(c, "look")
    /\ UNCHANGED <<version, entry, result, asleep, read, since, newest>>

\* The store answers the owner or fails, which both are kept for the others, or
\* the load ends in RequestCancelled, which is not.
LoadReturns(c) ==
    /\ pc[c] = "load"
    /\ \/ /\ \E v \in {version, Failed} : read' = [read EXCEPT ![c] = v]
          /\ Goto(c, "put")
       \/ /\ Goto(c, "out")
          /\ UNCHANGED read
    /\ UNCHANGED <<version, entry, result, at, asleep, since, newest>>

PutResult(c) ==
    /\ pc[c] = "put"
    /\ result' = [result EXCEPT ![at[c]] = read[c]]
    /\ Goto(c, "out")
    /\ UNCHANGED <<version, entry, at, asleep, read, since, newest>>

\* The owner's future is dropped in the load or at the lock of the result: the
\* guard is armed still and does what finish() does.
DropOwner(c) ==
    /\ pc[c] \in {"load", "put"}
    /\ Goto(c, "out")
    /\ read' = [read EXCEPT ![c] = NoResult]
    /\ UNCHANGED <<version, entry, result, at, asleep, since, newest>>

\* remove_flight_if_current.
RemoveFlight(c) ==
    /\ pc[c] = "out"
    /\ entry' = IF entry = at[c] THEN None ELSE entry
    /\ Goto(c, "wake")
    /\ UNCHANGED <<version, result, at, asleep, read, since, newest>>

\* notify_waiters, and the owner returns its result or its error.
Notify(c) ==
    /\ pc[c] = "wake"
    /\ asleep' = {d \in asleep : at[d] # at[c]}
    /\ Goto(c, "done")
    /\ at' = [at EXCEPT ![c] = None]
    /\ Returns(c, read[c])
    /\ UNCHANGED <<version, entry, result, since>>

\* The two checks: a result is returned, a flight that is gone means another
\* round of load_once.
Check(c, from, next) ==
    LET f == at[c] IN
    /\ pc[c] = from
    /\ \/ /\ result[f] # NoResult
          /\ Returns(c, result[f])
          /\ at' = [at EXCEPT ![c] = None]
          /\ asleep' = asleep \ {c}
          /\ Goto(c, "done")
       \/ /\ result[f] = NoResult /\ entry # f
          /\ at' = [at EXCEPT ![c] = None]
          /\ asleep' = asleep \ {c}
          /\ Goto(c, "loop")
          /\ UNCHANGED <<read, newest>>
       \/ /\ result[f] = NoResult /\ entry = f
          /\ Goto(c, next)
          /\ UNCHANGED <<at, asleep, read, newest>>
    /\ UNCHANGED <<version, entry, result, since>>
Look(c) == Check(c, "look", "enable")

\* Mutant of Again: no second look after enable().
AgainNot(c) ==
    /\ pc[c] = "again"
    /\ Goto(c, "sleep")
    /\ UNCHANGED <<version, entry, result, at, asleep, read, since, newest>>

Again(c) == Check(c, "again", "sleep")

\* notified().enable().
Enable(c) ==
    /\ pc[c] = "enable"
    /\ asleep' = asleep \cup {c}
    /\ Goto(c, "again")
    /\ UNCHANGED <<version, entry, result, at, read, since, newest>>

Wake(c) ==
    /\ pc[c] = "sleep" /\ c \notin asleep
    /\ Goto(c, "look")
    /\ UNCHANGED <<version, entry, result, at, asleep, read, since, newest>>

\* The cancellation of a waiting request, at the top of the loop or in select!.
Cancelled(c) ==
    /\ pc[c] \in {"loop", "sleep"}
    /\ Goto(c, "done")
    /\ at' = [at EXCEPT ![c] = None]
    /\ asleep' = asleep \ {c}
    /\ UNCHANGED <<version, entry, result, read, since, newest>>

Proceed(c) ==
    \/ (\E f \in Flights : Own(c, f)) \/ Join(c) \/ LoadReturns(c) \/ PutResult(c)
    \/ RemoveFlight(c) \/ Notify(c) \/ Look(c) \/ Enable(c) \/ Again(c) \/ Wake(c)

Next == WriteRecord \/ \E c \in Callers : Call(c) \/ DropOwner(c) \/ Cancelled(c) \/ Proceed(c)

Spec == Init /\ [][Next]_vars

-----------------------------------------------------------------------------
\* Only a waiter of a flight is enabled in its Notify, and a caller holds a
\* flight exactly while it owns it or waits for it (load_once).
TypeOK ==
    /\ version \in 0 .. MaxVersion /\ entry \in Flights \cup {None}
    /\ result \in [Flights -> 0 .. Failed] /\ pc \in [Callers -> Pcs]
    /\ at \in [Callers -> Flights \cup {None}] /\ read \in [Callers -> 0 .. Failed]
    /\ asleep \subseteq {c \in Callers : pc[c] \in {"again", "sleep"}}
    /\ \A c \in Callers : at[c] = None <=> pc[c] \in {"idle", "loop", "done"}
    /\ since \in [Callers -> 0 .. MaxVersion] /\ newest \in 0 .. MaxVersion

\* Loads do not go back in time: one that begins after another has returned
\* gives a record at least as new, although it may join a flight that read
\* before it began (load_once).
NeverGoBack ==
    \A c \in Callers : pc[c] = "done" /\ read[c] <= MaxVersion => read[c] >= since[c]
=============================================================================
