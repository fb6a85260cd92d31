----------------------------- MODULE Configuration -----------------------------
(***************************************************************************)
(* From the environment of a process to the configuration it serves with:  *)
(* loading (startup/config.rs), validation (config.rs), the preflight      *)
(* (startup/preflight.rs) and the checks the metadata store and TsoService *)
(* repeat later.                                                           *)
(*                                                                         *)
(* Numbers are the program's.  Names, addresses and files are abstracted to *)
(* what the checks tell apart: a host is "localhost" for every local one,  *)
(* a bundle of TLS files is "none", "partial", "complete", or "broken" when *)
(* a file cannot be read or a key is open to others.                       *)
(***************************************************************************)
EXTENDS Integers, Sequences, FiniteSetsExt, TLC

CONSTANT Audited     \* the build knows its commit

Unset == -1
NotANumber == -2

LimitKeys == {"batch", "lanes", "entries", "loads", "records", "connections", "interval", "failover"}
OptionalKeys == {"grpc_limits", "etcd_timeout"}
TimingKeys == {"borrow", "skew", "gap", "ttl", "gttl", "maint", "pending", "retention"}
CapacityKeys == {"shared", "warm"}
LayoutKeys == {"physical", "generator", "sequence"}
NumericKeys == LimitKeys \cup OptionalKeys \cup TimingKeys \cup CapacityKeys \cup LayoutKeys
                 \cup {"modulo", "remainder"}
IdentityKeys == {"worker", "advertise", "bind", "health", "metrics"}
SurfaceKeys == {"mode", "grpc_tls", "metrics_tls", "etcd_tls", "allow"}

Default ==
    [production |-> FALSE, kind |-> "memory", endpoints |-> {}, prefix |-> "absolute",
     worker |-> "default", advertise |-> "default", bind |-> "loopback",
     health |-> "none", metrics |-> "loopback",
     mode |-> "unset", grpc_tls |-> "none", metrics_tls |-> "none", etcd_tls |-> "none",
     allow |-> "none", grpc_limits |-> Unset, etcd_timeout |-> Unset,
     batch |-> 4096, lanes |-> 8192, entries |-> 16384, loads |-> 64, records |-> 100000,
     connections |-> 1024, interval |-> 1000, failover |-> 16,
     physical |-> 40, generator |-> 13, sequence |-> 11,
     shared |-> 128, warm |-> 128, tier |-> "shared",
     plan |-> "default", modulo |-> 1, remainder |-> 0, remainders |-> <<>>,
     borrow |-> 100, skew |-> 500, gap |-> 0, ttl |-> 3000, gttl |-> 0, maint |-> 200,
     pending |-> 300000, retention |-> 3600000]

-----------------------------------------------------------------------------
(* Environments to start in: each group varies what one concern depends on,*)
(* around an environment that is accepted.                                 *)

Nothing ==
    [removed |-> FALSE, format |-> "unset", epoch |-> "default", profile |-> "unset",
     kind |-> "unset", endpoints |-> {}, prefix |-> "unset", tier |-> "unset", plan |-> "unset",
     remainders |-> <<>>]
Names == [k \in IdentityKeys \cup SurfaceKeys |-> "unset"]
Numbers == [k \in NumericKeys |-> Unset]

At(scheme, host) == [scheme |-> scheme, host |-> host]

\* CHRONOS_SECURITY_MODE=dev-insecure on one machine, the environment template.
Dev == [[Nothing @@ Names @@ Numbers EXCEPT !.mode = "dev-insecure"] EXCEPT !.advertise = "localhost"]
DevEtcd == [Dev EXCEPT !.kind = "etcd", !.endpoints = {At("none", "localhost")},
                       !.worker = "set", !.gap = 500]
Prod == [DevEtcd EXCEPT !.profile = "production", !.mode = "unset", !.advertise = "routable",
                        !.bind = "wildcard", !.metrics = "wildcard", !.grpc_tls = "complete",
                        !.metrics_tls = "complete", !.etcd_tls = "complete", !.allow = "some",
                        !.grpc_limits = 1, !.etcd_timeout = 1, !.gap = Unset,
                        !.endpoints = {At("https", "routable")}]
Bases == {Dev, DevEtcd, Prod}

One(b, keys, values) == {[b EXCEPT ![k] = v] : k \in keys, v \in values}

Timing ==
    {[b EXCEPT !.skew = s, !.gap = g, !.ttl = t, !.gttl = u, !.maint = m, !.borrow = w] :
        b \in Bases, s \in {Unset, 0, 501}, g \in {Unset, 0, 501}, t \in {Unset, 2, 3},
        u \in {Unset, 1, 3, 5}, m \in {Unset, 0, 1, 2}, w \in {Unset, 0, 5}}

Surfaces ==
    {[b EXCEPT !.mode = o, !.advertise = a, !.bind = l, !.metrics = m, !.grpc_tls = g,
               !.metrics_tls = n, !.etcd_tls = e, !.endpoints = p, !.kind = k] :
        b \in {DevEtcd, Prod}, o \in {"unset", "required", "dev-insecure"},
        a \in {"localhost", "wildcard", "routable"}, l \in {"loopback", "wildcard"},
        m \in {"loopback", "wildcard"}, g \in {"none", "complete"}, n \in {"none", "complete"},
        e \in {"none", "complete"}, k \in {"unset", "etcd"},
        p \in {{At("none", "localhost")}, {At("http", "localhost")}, {At("none", "routable")},
               {At("none", "localhost"), At("http", "routable")}, {At("https", "routable")}}}

Singles ==
    UNION {One(b, NumericKeys, {NotANumber, 0, 1, 3, 14}) \cup
           One(b, {"grpc_tls", "metrics_tls", "etcd_tls"}, {"none", "partial", "broken", "complete"}) \cup
           One(b, {"allow"}, {"none", "some", "malformed"}) \cup One(b, {"mode", "tier", "format", "profile"}, {"other"}) \cup
           One(b, {"health"}, {"own", "grpc", "metrics", "malformed"}) \cup
           One(b, {"bind", "metrics", "advertise"}, {"malformed"}) \cup
           One(b, {"worker", "advertise", "plan"}, {"blank", "unset"}) \cup
           One(b, {"kind"}, {"other"}) \cup One(b, {"prefix"}, {"relative"}) \cup
           One(b, {"endpoints"}, {{}, {At("none", "malformed")}}) \cup
           One(b, {"tier"}, {"warm", "dedicated"}) \cup
           {[b EXCEPT !.removed = TRUE], [b EXCEPT !.epoch = "overflow"]} : b \in Bases}

Shards ==
    {[b EXCEPT !.modulo = n, !.remainder = r, !.remainders = q, !.plan = p] :
        b \in Bases, n \in {0, 1, 2, 3}, r \in {Unset, 1, 2}, p \in {"unset", "blank", "set"},
        q \in {<<>>, <<0>>, <<1, 0>>, <<2, 0>>, <<1, 1>>}}
Layouts ==
    {[b EXCEPT !.physical = p, !.generator = g, !.sequence = s, !.shared = h, !.warm = w, !.tier = t] :
        b \in Bases, p \in {Unset, 46, 63}, g \in {Unset, 0, 7}, s \in {Unset, 1, 31},
        h \in {0, 1, 64}, w \in {0, 1, 64}, t \in {"unset", "warm"}}
Records ==
    {[b EXCEPT !.pending = p, !.retention = r] :
        b \in Bases, p \in {Unset, 1, 2, 300001}, r \in {Unset, 1, 2, 300000}}

Envs == Timing \cup Surfaces \cup Singles \cup Shards \cup Layouts \cup Records

-----------------------------------------------------------------------------
VARIABLES
    env,        \* the environment variables
    config,     \* TsoConfig as far as it is filled in
    at          \* what comes next

vars == <<env, config, at>>

Init == env \in Envs /\ config = Default /\ at = "environment"

\* One function of the program: it hands on a configuration or ends the start.
Stage(from, to, ok, new, else) ==
    /\ at = from
    /\ IF ok THEN at' = to /\ config' = new ELSE at' = else /\ UNCHANGED config
    /\ UNCHANGED env

-----------------------------------------------------------------------------
(* Loading *)

\* apply_parsed_env and its kin: what is set wins over what the profile or the
\* default put there.
Parsed(keys) == \A k \in keys : env[k] # NotANumber
Overlay(keys) ==
    [k \in DOMAIN config |-> IF k \in keys THEN IF env[k] = Unset THEN config[k] ELSE env[k]
                             ELSE config[k]]
OverlayNames(keys) ==
    [k \in DOMAIN config |-> IF k \in keys THEN IF env[k] = "unset" THEN config[k] ELSE env[k]
                             ELSE config[k]]

\* Variables that are no longer supported, and the format of the cluster.
CheckEnvironment ==
    Stage("environment", "profile", ~env.removed /\ env.format # "other", config, "refused")

Production(c) ==
    [c EXCEPT !.production = TRUE, !.batch = 4096, !.lanes = 8192, !.entries = 16384,
              !.gap = Max({@, 500, c.skew})]
ApplyProfile ==
    Stage("profile", "identity", env.profile # "other",
          IF env.profile = "production" THEN Production(config) ELSE config, "refused")

ApplyIdentity == Stage("identity", "metadata", TRUE, OverlayNames(IdentityKeys), "refused")
ApplyMetadata ==
    Stage("metadata", "security", TRUE,
          [config EXCEPT !.kind = IF env.kind = "unset" THEN "memory" ELSE env.kind,
                         !.endpoints = env.endpoints,
                         !.prefix = IF env.prefix = "unset" THEN @ ELSE env.prefix], "refused")
ApplySecuritySurface ==
    Stage("security", "transport", env.mode # "other", OverlayNames(SurfaceKeys), "refused")
ApplyTransportLimits ==
    LET keys == OptionalKeys \cup {"connections"} IN
    Stage("transport", "layout", Parsed(keys), Overlay(keys), "refused")

LayoutValid(c) ==
    /\ c.physical > 0 /\ c.sequence > 0 /\ c.generator <= 13 /\ c.sequence <= 31
    /\ c.generator + c.sequence <= 32
    /\ c.physical + c.generator + c.sequence = 64
ApplyLayout ==
    Stage("layout", "capacity",
          Parsed(LayoutKeys) /\ LayoutValid(Overlay(LayoutKeys)) /\ env.epoch # "overflow",
          Overlay(LayoutKeys), "refused")

ApplyCapacity ==
    LET keys == CapacityKeys \cup (LimitKeys \ {"connections", "interval"}) IN
    Stage("capacity", "ownership", Parsed(keys) /\ env.tier # "other",
          [Overlay(keys) EXCEPT !.tier = IF env.tier = "unset" THEN @ ELSE env.tier], "refused")

ApplyOwnership ==
    LET read == [Overlay({"modulo", "remainder"}) EXCEPT
                    !.plan = IF env.plan = "unset" THEN @ ELSE env.plan] IN
    Stage("ownership", "timing", Parsed({"modulo", "remainder"}),
          IF env.remainders = <<>> THEN read
          ELSE [read EXCEPT !.remainder = env.remainders[1], !.remainders = env.remainders],
          "refused")

ApplyTiming ==
    LET keys == TimingKeys \cup {"interval"} IN
    Stage("timing", "backend", Parsed(keys), Overlay(keys), "refused")

ChooseBackend ==
    Stage("backend", "validate", config.kind \in {"memory", "etcd"}, config, "refused")

-----------------------------------------------------------------------------
(* Validation *)

EffectiveTtl(c) == IF c.gttl = 0 THEN c.ttl ELSE c.gttl

Cadence(c) ==
    Min({c.maint, Max({c.borrow \div 2, 1}), Max({EffectiveTtl(c) \div 2, 1})})
EffectiveRemainders(c) == IF c.remainders = <<>> THEN <<c.remainder>> ELSE c.remainders

Local(host) == host = "localhost"
Loopback(addr) == addr = "loopback"

\* With a scheme in front no host is recognised as local.
EtcdExposed(c) ==
    c.kind = "etcd" /\ \E e \in c.endpoints : ~(e.scheme = "none" /\ Local(e.host))
GrpcExposed(c) == ~Loopback(c.bind) \/ ~Local(c.advertise)
MetricsExposed(c) == ~Loopback(c.metrics)
NonlocalTopology(c) == GrpcExposed(c) \/ MetricsExposed(c) \/ EtcdExposed(c)

ResolvedMode(c) ==
    CASE "malformed" \in {c.bind, c.metrics} -> "refused"
      [] c.mode = "dev-insecure" -> IF c.production \/ NonlocalTopology(c) THEN "refused" ELSE "dev-insecure"
      [] c.mode = "required" -> "required"
      [] OTHER -> IF c.production \/ NonlocalTopology(c) THEN "required" ELSE "refused"

\* validate_tls_bundle, validate_readable_files and validate_private_key_files.
BundleValid(bundle) == bundle \in {"none", "complete"}
SecurityMet(c) ==
    /\ \A s \in {"grpc_tls", "metrics_tls", "etcd_tls"} : BundleValid(c[s])
    /\ \A k \in OptionalKeys : c[k] # 0
    /\ c.allow # "malformed" /\ (c.grpc_tls # "none" => c.allow # "none")
    /\ ResolvedMode(c) = "required" =>
        /\ GrpcExposed(c) => c.grpc_tls = "complete" /\ c.grpc_limits > 0
        /\ MetricsExposed(c) => c.metrics_tls = "complete"
        /\ EtcdExposed(c) => c.etcd_tls = "complete" /\ c.etcd_timeout > 0

\* The health listener has an address of its own; "grpc" and "metrics" say whose
\* address it reuses.
HealthBindValid(c) ==
    c.health # "none" => c.health = "own" /\ "malformed" \notin {c.bind, c.metrics}

OwnershipValid(c) ==
    LET r == EffectiveRemainders(c) IN
    /\ c.modulo > 0 /\ c.plan # "blank"
    /\ \A i \in DOMAIN r : r[i] < c.modulo /\ \A j \in DOMAIN r : r[i] = r[j] => i = j

LeaseTimingValid(c) ==
    /\ c.ttl > 0 /\ c.maint > 0 /\ c.maint < c.ttl
    /\ c.gttl # 0 => c.gttl > c.maint

LimitsValid(c) ==
    /\ \A k \in LimitKeys \cup {"pending", "retention"} : c[k] > 0
    /\ c.retention >= c.pending

TiersValid(c) ==
    /\ c.shared + c.warm <= 2 ^ c.generator
    /\ c.tier = "shared" => c.shared > 0
    /\ c.tier = "warm" => c.warm > 0

ValidForStartup(c) ==
    /\ LayoutValid(c) /\ c.worker # "blank" /\ c.advertise \notin {"blank", "malformed"}
    /\ HealthBindValid(c) /\ TiersValid(c) /\ OwnershipValid(c)
    /\ LeaseTimingValid(c) /\ LimitsValid(c)
    /\ ResolvedMode(c) # "refused" /\ SecurityMet(c)

ValidateForStartup ==
    Stage("validate", "contract", ValidForStartup(config), config, "refused")

-----------------------------------------------------------------------------
(* Preflight, and the checks that follow it *)

\* Mutant of RuntimeContract: the profile is trusted to have set the gap.
RuntimeContractTrusting(c) ==
    /\ c.worker # "default" /\ c.advertise # "default"
    /\ (c.mode = "dev-insecure" /\ ~c.production) \/ c.advertise \notin {"localhost", "wildcard"}
    /\ c.gap > 0 /\ c.skew > 0
    /\ c.modulo > 1 => c.plan # "default"

RuntimeContract(c) ==
    /\ c.worker # "default" /\ c.advertise # "default"
    /\ (c.mode = "dev-insecure" /\ ~c.production) \/ c.advertise \notin {"localhost", "wildcard"}
    /\ c.gap > 0 /\ c.skew > 0 /\ c.gap >= c.skew
    /\ c.modulo > 1 => c.plan # "default"

EndpointValid(e, tls) == e.host # "malformed" /\ ~(tls /\ e.scheme = "http")
StoreContract(c) ==
    /\ c.endpoints # {} /\ c.prefix = "absolute"
    /\ \A e \in c.endpoints : EndpointValid(e, c.etcd_tls # "none")

ProductionContract(c) == c.production => Audited /\ c.kind = "etcd"

Preflight ==
    Stage("contract", "connect",
          /\ ProductionContract(config)
          /\ config.kind = "etcd" => StoreContract(config) /\ RuntimeContract(config),
          config, "refused")

\* EtcdMetadataStore::from_config_with_endpoints; nothing to connect to in memory.
Connect ==
    Stage("connect", "service",
          config.kind = "etcd" => RuntimeContract(config) /\ StoreContract(config),
          config, "failed")

\* TsoService::new takes the generators' lease time over from the identity's and
\* validates again.
NewService ==
    LET c == [config EXCEPT !.gttl = IF @ = 0 THEN config.ttl ELSE @] IN
    Stage("service", "serving",
          ValidForStartup(c) /\ (c.kind = "etcd" => RuntimeContract(c)), c, "failed")

Next ==
    \/ CheckEnvironment \/ ApplyProfile \/ ApplyIdentity \/ ApplyMetadata \/ ApplySecuritySurface
    \/ ApplyTransportLimits \/ ApplyLayout \/ ApplyCapacity \/ ApplyOwnership \/ ApplyTiming
    \/ ChooseBackend \/ ValidateForStartup \/ Preflight \/ Connect \/ NewService

Spec == Init /\ [][Next]_vars

-----------------------------------------------------------------------------
Checked == at \in {"connect", "service", "serving"}

\* What is read from the environment has the form the checks expect of it, and
\* only a configuration validate_for_startup has let through goes on.
TypeOK ==
    /\ at \in {"environment", "profile", "identity", "metadata", "security", "transport", "layout",
               "capacity", "ownership", "timing", "backend", "validate", "contract", "connect",
               "service", "serving", "refused", "failed"}
    /\ DOMAIN config = DOMAIN Default /\ \A k \in NumericKeys : config[k] >= Unset
    /\ at \in {"contract", "connect", "service", "serving"} => ValidForStartup(config)

\* What preflight accepts keeps the assumptions the protocol is built on
\* (ConstantsAssumption of GeneratorLease and those of the other modules): over
\* etcd two clocks are never further apart than the safety gap, whatever the
\* profile had set and a variable has overridden; limits leave room for one; an
\* idempotent request's record is kept until it has timed out.
AssumptionsMet ==
    Checked =>
        /\ config.kind = "etcd" => 0 < config.skew /\ config.skew <= config.gap
        /\ EffectiveTtl(config) > 0 /\ \A k \in LimitKeys : config[k] > 0
        /\ config.retention >= config.pending

\* The generator maintenance of an accepted configuration comes round twice in
\* the time of a generator's lease and in the issued horizon, so that one missed
\* round loses neither (effective_generator_maintenance_cadence).
RenewalsFit ==
    Checked =>
        /\ Cadence(config) >= 1 /\ 2 * Cadence(config) <= EffectiveTtl(config)
        /\ config.borrow >= 2 => 2 * Cadence(config) <= config.borrow

\* A variable that is set is what the process runs with; otherwise the profile
\* decides, and after it the default (build_config_and_metadata_env).
EnvironmentWins ==
    Checked /\ at # "serving" =>
        \A k \in NumericKeys \ {"remainder"} :
            config[k] = CASE env[k] # Unset -> env[k]
                          [] env[k] = Unset /\ k = "gap" /\ env.profile = "production" -> 500
                          [] OTHER -> Default[k]

\* Whatever mode was asked for or resolved, a listener others can reach, and a
\* connection to an etcd elsewhere, has its complete set of TLS files
\* (validate_security_requirements).
SurfacesProtected ==
    Checked =>
        /\ config.bind # "loopback" => config.grpc_tls = "complete" /\ config.allow = "some"
        /\ config.metrics # "loopback" => config.metrics_tls = "complete"
        /\ config.kind = "etcd" =>
            \A e \in config.endpoints : e.host = "routable" => config.etcd_tls = "complete" /\ e.scheme # "http"

\* A configuration that passed preflight, as --check-config runs it, is not
\* refused by the store or the service afterwards (Connect, NewService).
StartsAsChecked == at # "failed"
=============================================================================
