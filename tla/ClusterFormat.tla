----------------------------- MODULE ClusterFormat -----------------------------
(***************************************************************************)
(* The cluster format of a metadata prefix                                 *)
(* (metadata/etcd/cluster_format.rs): before it serves, a worker checks    *)
(* the active identities, finds, migrates or creates the marker of the     *)
(* format and of the timestamp layout, and checks the identities again.    *)
(*                                                                         *)
(* Workers may die and start again.  Legacy workers are of a version       *)
(* before the current format, issue timestamps in the default layout and   *)
(* may be started until the current marker is there; their own marker is   *)
(* the one of format 2, or none for the versions before it.                *)
(***************************************************************************)
EXTENDS Naturals, FiniteSets

CONSTANTS
    Workers,
    Layout,         \* Workers -> the configured timestamp layout
    Default,        \* DEFAULT_TIMESTAMP_LAYOUT
    LegacyFormats,  \* formats of legacy workers: 2 writes a marker, 1 does not
    Attempts        \* 8 in ensure_cluster_format_marker

None == "none"
Current == 3        \* CURRENT_CLUSTER_FORMAT_VERSION
Prefixes == {"routes", "requests"}

\* The constants fit together.
FormatAssumption == Current \notin LegacyFormats /\ Attempts > 0

VARIABLES
    format,     \* cluster/format_version, 0 when there is none
    layout,     \* cluster/timestamp_layout
    data,       \* prefix -> layouts of the timestamps kept there
    legacy,     \* formats of the legacy workers with an active identity
    pc,
    left,       \* prefixes the probe has yet to read
    tries

vars == <<format, layout, data, legacy, pc, left, tries>>

Pcs == {"off", "check", "marker", "probe", "create", "migrate", "recheck", "serving", "refused"}

\* An empty prefix, or one of a version before format 2.
Init ==
    /\ format = 0 /\ layout = None
    /\ data \in [Prefixes -> {{}, {Default}}]
    /\ legacy = {}
    /\ pc = [w \in Workers |-> "off"]
    /\ left = [w \in Workers |-> {}]
    /\ tries = [w \in Workers |-> 0]

-----------------------------------------------------------------------------
Goto(w, label) == pc' = [pc EXCEPT ![w] = label]

Start(w) ==
    /\ pc[w] = "off"
    /\ Goto(w, "check")
    /\ tries' = [tries EXCEPT ![w] = 0]
    /\ UNCHANGED <<format, layout, data, legacy, left>>

\* active_identity_formats_are_compatible.
Compatible(identities) == identities \subseteq {Current}

\* The check before the marker, and the one after it.
CheckIdentities(w) ==
    /\ pc[w] = "check"
    /\ Goto(w, IF Compatible(legacy) THEN "marker" ELSE "refused")
    /\ UNCHANGED <<format, layout, data, legacy, left, tries>>

Recheck(w) ==
    /\ pc[w] = "recheck"
    /\ Goto(w, IF Compatible(legacy) THEN "serving" ELSE "refused")
    /\ UNCHANGED <<format, layout, data, legacy, left, tries>>

SameLayout(w) == layout = Layout[w]

\* ensure_cluster_format_marker reads both keys at once: current, to migrate,
\* to create (after the probe for a custom layout), or refused.
ReadMarker(w) ==
    /\ pc[w] = "marker"
    /\ Goto(w, IF tries[w] = Attempts THEN "refused"
               ELSE IF format = Current /\ SameLayout(w) THEN "recheck"
               ELSE IF format = 2 /\ layout = None /\ Layout[w] = Default THEN "migrate"
               ELSE IF format # 0 \/ layout # None THEN "refused"
               ELSE IF Layout[w] = Default THEN "create" ELSE "probe")
    /\ left' = [left EXCEPT ![w] = Prefixes]
    /\ tries' = [tries EXCEPT ![w] = IF @ = Attempts THEN @ ELSE @ + 1]
    /\ UNCHANGED <<format, layout, data, legacy>>

\* Mutant of Probe: a custom layout is taken whatever is there.
ProbeNot(w) ==
    /\ pc[w] = "probe"
    /\ Goto(w, "create")
    /\ left' = [left EXCEPT ![w] = {}]
    /\ UNCHANGED <<format, layout, data, legacy, tries>>

\* timestamp_data_exists: one prefix after the other.
Probe(w) ==
    /\ pc[w] = "probe"
    /\ \E p \in left[w] :
          \/ /\ data[p] # {}
             /\ Goto(w, "refused")
             /\ left' = [left EXCEPT ![w] = {}]
          \/ /\ data[p] = {}
             /\ left' = [left EXCEPT ![w] = @ \ {p}]
             /\ Goto(w, IF left[w] = {p} THEN "create" ELSE "probe")
    /\ UNCHANGED <<format, layout, data, legacy, tries>>

\* The create transaction; when it does not succeed, or its answer is lost and
\* the repeated one does not, the marker is read again.
CreateMarker(w) ==
    /\ pc[w] = "create"
    /\ \/ /\ format = 0 /\ layout = None
          /\ format' = Current /\ layout' = Layout[w]
          /\ Goto(w, "recheck") \/ Goto(w, "marker")
       \/ /\ format # 0 \/ layout # None
          /\ Goto(w, "marker")
          /\ UNCHANGED <<format, layout>>
    /\ UNCHANGED <<data, legacy, left, tries>>

MigrateMarker(w) ==
    /\ pc[w] = "migrate"
    /\ \/ /\ format = 2 /\ layout = None
          /\ format' = Current /\ layout' = Layout[w]
          /\ Goto(w, "recheck") \/ Goto(w, "marker")
       \/ /\ format # 2 \/ layout # None
          /\ Goto(w, "marker")
          /\ UNCHANGED <<format, layout>>
    /\ UNCHANGED <<data, legacy, left, tries>>

\* A serving worker keeps timestamps of its layout in routes, leases and requests.
Issue(w, p) ==
    /\ pc[w] = "serving"
    /\ data' = [data EXCEPT ![p] = @ \cup {Layout[w]}]
    /\ UNCHANGED <<format, layout, legacy, pc, left, tries>>

\* The process ends, after a refusal or at any time.
Stop(w) ==
    /\ pc[w] # "off"
    /\ Goto(w, "off")
    /\ left' = [left EXCEPT ![w] = {}]
    /\ UNCHANGED <<format, layout, data, legacy, tries>>

\* "Deployment guards prevent old binaries from being launched after this point".
LegacyStart(f) ==
    /\ f \notin legacy
    /\ format \in IF f = 2 THEN {0, 2} ELSE {0}
    /\ legacy' = legacy \cup {f}
    /\ format' = IF f = 2 THEN 2 ELSE format
    /\ UNCHANGED <<layout, data, pc, left, tries>>
LegacyIssue(p) ==
    /\ legacy # {}
    /\ data' = [data EXCEPT ![p] = @ \cup {Default}]
    /\ UNCHANGED <<format, layout, legacy, pc, left, tries>>
LegacyStop(f) ==
    /\ f \in legacy
    /\ legacy' = legacy \ {f}
    /\ UNCHANGED <<format, layout, data, pc, left, tries>>

Next ==
    \/ \E w \in Workers :
          \/ Start(w) \/ CheckIdentities(w) \/ ReadMarker(w) \/ Probe(w) \/ CreateMarker(w)
          \/ MigrateMarker(w) \/ Recheck(w) \/ Stop(w)
          \/ \E p \in Prefixes : Issue(w, p)
    \/ \E f \in LegacyFormats : LegacyStart(f) \/ LegacyStop(f)
    \/ \E p \in Prefixes : LegacyIssue(p)

Spec == Init /\ [][Next]_vars

-----------------------------------------------------------------------------
\* A layout is stored exactly with the current format (the marker transactions).
TypeOK ==
    /\ format \in {0, 2, Current} /\ layout \in {Layout[w] : w \in Workers} \cup {None}
    /\ legacy \subseteq LegacyFormats /\ pc \in [Workers -> Pcs]
    /\ \A w \in Workers : tries[w] <= Attempts
    /\ layout # None <=> format = Current

\* Timestamps of one prefix are all in one layout, through migrations, refused
\* and repeated starts and workers with other configurations ("so previously
\* issued timestamps cannot be decoded under a different format",
\* docs/production.md).
OneLayout == Cardinality(UNION {data[p] : p \in Prefixes}) <= 1

\* A worker of the current format never serves beside a legacy one: one that
\* started after the first check is seen by the second.
NoMixedFormats == (\E w \in Workers : pc[w] = "serving") => legacy = {}
=============================================================================
