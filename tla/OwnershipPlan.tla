---------------------------- MODULE OwnershipPlan ----------------------------
(***************************************************************************)
(* The ownership plan: which worker owns which remainders of the generator *)
(* ids (OwnershipPlanRecord in metadata/types.rs), and how a starting      *)
(* worker is admitted to it (admit_ownership_plan_member in                *)
(* metadata/etcd/identity_lifecycle.rs).                                   *)
(*                                                                         *)
(* A worker first has its identity key, then lists the identity keys,      *)
(* reads the plan, drops the members without an identity, adds itself and  *)
(* writes with a compare on the revision it has read.  `current` holds the *)
(* workers whose revision is still the record's, so that revisions need    *)
(* not be counted.  A process stops before its identity key goes away      *)
(* (IdentityLease), so only the key of a process that is off can expire.   *)
(***************************************************************************)
EXTENDS Naturals, FiniteSets

CONSTANTS
    Workers,        \* processes, each with an instance id of its own
    Id,             \* worker_id of each
    Endpoint,       \* advertise_endpoint
    Plan,           \* ownership_plan_id
    Modulo,         \* generator_ownership_modulo
    Remainders,     \* effective_generator_ownership_remainders
    Legacy,         \* workers of a version whose identity does not declare its plan
    OneAtATime,     \* a worker starts only when no other is starting
    MaxAttempts     \* of the admission

None == "none"

\* The constants fit together.
PlanAssumption ==
    /\ Legacy \subseteq Workers /\ OneAtATime \in BOOLEAN /\ MaxAttempts \in Nat \ {0}
    /\ \A w \in Workers : Modulo[w] \in Nat /\ Remainders[w] \subseteq Nat

VARIABLES
    active,     \* workers whose identity key exists
    record,     \* the plan record; its plan is None before there is one
    current,    \* workers whose read of the record is not outdated
    pc,         \* where each worker is
    seen,       \* active_identities of a worker
    proposal,   \* the record it will write
    attempt     \* of the loop

vars == <<active, record, current, pc, seen, proposal, attempt>>

Member(w, r) == [remainder |-> r, id |-> Id[w], endpoint |-> Endpoint[w]]
Members(w) == {Member(w, r) : r \in Remainders[w]}
NoRecord == [plan |-> None, modulo |-> 0, members |-> {}]

\* The workers of an older version were admitted by it and are running.
Init ==
    /\ active = Legacy
    /\ record = IF Legacy = {} THEN NoRecord
                ELSE LET w == CHOOSE w \in Legacy : TRUE IN
                     [plan |-> Plan[w], modulo |-> Modulo[w], members |-> UNION {Members(v) : v \in Legacy}]
    /\ current = {}
    /\ pc = [w \in Workers |-> IF w \in Legacy THEN "serve" ELSE "off"]
    /\ seen = [w \in Workers |-> {}]
    /\ proposal = [w \in Workers |-> NoRecord]
    /\ attempt = [w \in Workers |-> 0]

Starting(w) == pc[w] \in {"list", "read", "write"}
Goto(w, label) == pc' = [pc EXCEPT ![w] = label]

-----------------------------------------------------------------------------
\* The record.

\* identity_record_belongs_to_ownership_plan.
Belongs(w, rec) == w \in Legacy \/ (Plan[w] = rec.plan /\ Modulo[w] = rec.modulo)

\* prune_inactive_members: a member stays when an identity of the plan has its
\* worker id and its endpoint.
PruneInactive(rec, identities) ==
    [rec EXCEPT !.members = {m \in @ : \E i \in identities :
                                 Belongs(i, rec) /\ Id[i] = m.id /\ Endpoint[i] = m.endpoint}]

\* replace_if_empty.
ReplaceIfEmpty(rec, w) ==
    IF rec.members = {} THEN [rec EXCEPT !.plan = Plan[w], !.modulo = Modulo[w]] ELSE rec

\* Mutant of Admissible: the remainders of others are not looked at.
AdmissibleAnyRemainder(rec, w) ==
    /\ rec.plan = Plan[w] /\ rec.modulo = Modulo[w]
    /\ \A r \in Remainders[w] : r < rec.modulo

\* The errors of admit_member: another plan or modulo, a remainder out of range,
\* a remainder of somebody else.
Admissible(rec, w) ==
    /\ rec.plan = Plan[w] /\ rec.modulo = Modulo[w]
    /\ \A r \in Remainders[w] : r < rec.modulo
    /\ \A m \in rec.members : m.remainder \in Remainders[w] => m = Member(w, m.remainder)

\* admit_member for each remainder.
Admit(rec, w) == [rec EXCEPT !.members = @ \cup Members(w)]
\* OwnershipPlanRecord::new, and admit_member for the rest.
NewRecord(w) == [plan |-> Plan[w], modulo |-> Modulo[w], members |-> Members(w)]

-----------------------------------------------------------------------------
\* The startup of a worker.

AcquireIdentity(w) ==
    /\ pc[w] = "off" /\ w \notin active
    /\ OneAtATime => \A v \in Workers : ~Starting(v)
    /\ active' = active \cup {w}
    /\ Goto(w, "list")
    /\ attempt' = [attempt EXCEPT ![w] = 1]
    /\ UNCHANGED <<record, current, seen, proposal>>

\* finalize_etcd_startup gives the identity up; the revocation may fail.
Ends(w) ==
    /\ Goto(w, "off")
    /\ active' \in {active, active \ {w}}
    /\ seen' = [seen EXCEPT ![w] = {}]
    /\ proposal' = [proposal EXCEPT ![w] = NoRecord]
    /\ attempt' = [attempt EXCEPT ![w] = 0]

\* generator_ownership_modulo <= 1: the plan is not looked at.
SkipPlan(w) ==
    /\ pc[w] = "list" /\ Modulo[w] <= 1
    /\ Goto(w, "serve")
    /\ UNCHANGED <<active, record, current, seen, proposal, attempt>>

\* active_identity_records, and the two checks: one identity of this worker id
\* and endpoint, and it declares the plan.
Twins(w) == {v \in active : Id[v] = Id[w] /\ Endpoint[v] = Endpoint[w]}
DeclaresPlan(w) ==
    /\ Cardinality(Twins(w)) <= 1
    /\ \E v \in Twins(w) \ Legacy : Plan[v] = Plan[w] /\ Modulo[v] = Modulo[w]
ListIdentities(w) ==
    /\ pc[w] = "list" /\ Modulo[w] > 1
    /\ \/ /\ DeclaresPlan(w)
          /\ seen' = [seen EXCEPT ![w] = active]
          /\ Goto(w, "read")
          /\ UNCHANGED <<active, record, current, proposal, attempt>>
       \/ ~DeclaresPlan(w) /\ Ends(w) /\ UNCHANGED <<record, current>>

Remaining(w) == ReplaceIfEmpty(PruneInactive(record, seen[w]), w)
Acceptable(w) == record.plan = None \/ Admissible(Remaining(w), w)
Proposed(w) == IF record.plan = None THEN NewRecord(w) ELSE Admit(Remaining(w), w)

\* get_json_record and the new record: an error, nothing to do, or a write.
ReadPlan(w) ==
    /\ pc[w] = "read"
    /\ \/ ~Acceptable(w) /\ Ends(w) /\ UNCHANGED <<record, current>>
       \/ /\ Acceptable(w) /\ Proposed(w) = record
          /\ Goto(w, "serve")
          /\ UNCHANGED <<active, record, current, seen, proposal, attempt>>
       \/ /\ Acceptable(w) /\ Proposed(w) # record
          /\ proposal' = [proposal EXCEPT ![w] = Proposed(w)]
          /\ current' = current \cup {w}
          /\ Goto(w, "write")
          /\ UNCHANGED <<active, record, seen, attempt>>

\* The transaction: the record is replaced if it has the revision that was
\* read, or if there is none still.
Commit(w) == w \in current /\ record' = proposal[w] /\ current' = {}
Conflict(w) == w \notin current /\ UNCHANGED <<record, current>>

\* Another round, or CasFailed after the last one.
Again(w) ==
    \/ /\ attempt[w] < MaxAttempts
       /\ attempt' = [attempt EXCEPT ![w] = @ + 1]
       /\ Goto(w, "list")
       /\ UNCHANGED <<active, seen, proposal>>
    \/ attempt[w] = MaxAttempts /\ Ends(w)

\* cas_json_record or create_json_record.  A write whose answer is lost is
\* repeated and conflicts with itself.
WritePlan(w) ==
    /\ pc[w] = "write"
    /\ \/ Commit(w) /\ Goto(w, "serve") /\ UNCHANGED <<active, seen, proposal, attempt>>
       \/ Commit(w) /\ Again(w)
       \/ Conflict(w) /\ Again(w)

\* Another error ends the startup, whether the write was applied or not.
WriteFails(w) ==
    /\ pc[w] = "write"
    /\ Commit(w) \/ (current' = current \ {w} /\ UNCHANGED record)
    /\ Ends(w)

\* The process is told to stop, loses its identity or dies.
Stop(w) ==
    /\ pc[w] # "off"
    /\ Ends(w)
    /\ current' = current \ {w}
    /\ UNCHANGED record

\* What a process left behind expires.
ExpireIdentity(w) ==
    /\ pc[w] = "off" /\ w \in active
    /\ active' = active \ {w}
    /\ UNCHANGED <<record, current, pc, seen, proposal, attempt>>

Next ==
    \E w \in Workers :
        \/ AcquireIdentity(w) /\ w \notin Legacy
        \/ SkipPlan(w) \/ ListIdentities(w) \/ ReadPlan(w) \/ WritePlan(w) \/ WriteFails(w)
        \/ Stop(w) \/ ExpireIdentity(w)

Spec == Init /\ [][Next]_vars

-----------------------------------------------------------------------------
TypeOK ==
    /\ active \subseteq Workers /\ current \subseteq {w \in Workers : pc[w] = "write"}
    /\ pc \in [Workers -> {"off", "list", "read", "write", "serve"}]
    /\ seen \in [Workers -> SUBSET Workers] /\ attempt \in [Workers -> 0 .. MaxAttempts]
    /\ \A w \in Workers : w \notin active => pc[w] = "off"

Serving == {w \in Workers : pc[w] = "serve"}

\* The record is never one that validate_integrity would refuse, whoever writes:
\* a remainder has one member and is below the modulo.
RecordIntegrity ==
    \A m, n \in record.members :
        m.remainder < record.modulo /\ (m # n => m.remainder # n.remainder)

\* The remainders are divided among the workers that run: no two of them own
\* the same one (docs/production.md:39-41, admit_ownership_plan_member).
OneOwner == \A v, w \in Serving : v # w => Remainders[v] \cap Remainders[w] = {}

\* The workers that run agree on the plan and on its modulo
\* (docs/production.md:39-41, replace_if_empty and admit_member).
OnePlan == \A v, w \in Serving : Plan[v] = Plan[w] /\ Modulo[v] = Modulo[w]

\* A worker that runs is in the plan, so that whoever wants one of its
\* remainders is refused (prune_inactive_members keeps active members).
ServingIsMember == \A w \in Serving : Members(w) \subseteq record.members
=============================================================================
