-------------------------- MODULE MCGeneratorLease --------------------------
(***************************************************************************)
(* Scenarios of GeneratorLease.  A behaviour stays in the scenario it      *)
(* begins with; each scenario is GeneratorLease with its own constants,    *)
(* over the same variables.                                                *)
(***************************************************************************)
EXTENDS GeneratorLease, TLC

CONSTANTS p1, p2

VARIABLE scenario

\* Two workers with instance ids of their own, or two incarnations of one
\* worker whose instance id is stable.
TwoWorkers == [p \in {p1, p2} |-> p]
Restarted == [p \in {p1, p2} |-> p1]

\* What the two processes do beside taking the lease.
Serving == [p \in {p1, p2} |-> {"request"}]
RefreshTasks == (p1 :> {"batch"}) @@ (p2 :> {"request"})
LateTasks == (p1 :> {"request", "error", "abort"}) @@ (p2 :> {"request"})
ShutdownTasks == (p1 :> {"request", "shutdown"}) @@ (p2 :> {"request"})

\* Explicit renewals and the batch refresh race with takeovers.  With a Ttl of 1
\* the batch refresh would never find a lease it may renew.
Renewals == INSTANCE GeneratorLease WITH
    Tasks <- [p \in {p1, p2} |-> {"batch", "renew"}], Ttl <- 2, MaxClock <- 3, MaxRev <- 3

\* The last milliseconds of the layout, where a new bound no longer encodes.
LayoutEnd == INSTANCE GeneratorLease WITH
    Tasks <- [p \in {p1, p2} |-> {"request", "renew"}], Cap <- 2, MaxPhysical <- 2, MaxClock <- 2,
    MaxClockRewind <- 1, FutureBorrows <- {0, 1}, FloorIndices <- {3}, Counts <- {1, 3}, MaxRev <- 3

\* The batch refresh of one incarnation, while the other serves.
Refreshes == INSTANCE GeneratorLease WITH Tasks <- RefreshTasks

\* A worker shuts down with a request in flight, and its successor starts.
Shutdowns == INSTANCE GeneratorLease WITH Tasks <- ShutdownTasks, MaxRev <- 2

\* Writes that time out and arrive later, tasks dropped at their awaits.
LateWrites == INSTANCE GeneratorLease WITH
    Tasks <- LateTasks, InstanceOf <- TwoWorkers, Ttl <- 1, MaxClock <- 2, MaxOrphans <- 1

\* The scenarios with two workers; the constants are those of the handover.
WorkersInit == Init /\ scenario \in {"handover", "renewals", "layout_end"}
WorkersNext ==
    /\ \/ scenario = "handover" /\ Next
       \/ scenario = "renewals" /\ Renewals!Next
       \/ scenario = "layout_end" /\ LayoutEnd!Next
    /\ UNCHANGED scenario
WorkersSpec == WorkersInit /\ [][WorkersNext]_<<vars, scenario>>

\* The scenarios with faults; the constants are those of the restart, in which
\* two incarnations of one worker share an instance id.
FaultsInit == Init /\ scenario \in {"restart", "refresh", "shutdown", "late_writes"}
FaultsNext ==
    /\ \/ scenario = "restart" /\ Next
       \/ scenario = "refresh" /\ Refreshes!Next
       \/ scenario = "shutdown" /\ Shutdowns!Next
       \/ scenario = "late_writes" /\ LateWrites!Next
    /\ UNCHANGED scenario
FaultsSpec == FaultsInit /\ [][FaultsNext]_<<vars, scenario>>

\* One scenario alone, with the constants of the configuration.
AloneSpec == Init /\ scenario = "alone" /\ [][Next /\ UNCHANGED scenario]_<<vars, scenario>>

MCSymmetry == Permutations({p1, p2})
=============================================================================
