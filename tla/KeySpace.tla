------------------------------- MODULE KeySpace -------------------------------
(***************************************************************************)
(* The keys of the metadata store (metadata/keys.rs, and the ranges of     *)
(* metadata/etcd.rs) as sequences of words, which are ordered like the     *)
(* bytes they begin with.  No word is a prefix of another: where a string  *)
(* is one ("requests", "requests_v2"), it is several words.  Names that    *)
(* come from outside (timelines, client request ids, endpoints) may hold   *)
(* the separator, and endpoints both cases of a letter.                    *)
(*                                                                         *)
(* A state is a pair of index entries; the properties compare their keys.  *)
(***************************************************************************)
EXTENDS Integers, Sequences, FiniteSets, SequencesExt

CONSTANTS
    MaxMs,      \* times 0 .. MaxMs
    Digits,     \* of a time, in base 2; {:020} has room for every u64
    NameLength  \* bound: words of a name

\* The constants fit together.
KeyAssumption == MaxMs < 2 ^ Digits /\ NameLength \in Nat \ {0}

VARIABLES p, q  \* [timeline, request, ms]
vars == <<p, q>>

Words == <<"/", "0", "1", "A", "__ready", "_cleanup", "_index_rebuild_lock", "_v2", "a",
           "by_owner", "by_state", "cluster", "format_version", "generators", "identity",
           "instances", "ownership_plan", "request", "routes", "s", "timeline_creation_lock",
           "timeline_status", "timestamp_layout", "max">>
Rank(w) == CHOOSE i \in DOMAIN Words : Words[i] = w
Below(k, l) ==
    \/ IsStrictPrefix(k, l)
    \/ \E i \in DOMAIN k \cap DOMAIN l :
          SubSeq(k, 1, i - 1) = SubSeq(l, 1, i - 1) /\ Rank(k[i]) < Rank(l[i])

\* A number in a fixed number of digits.
Fixed(n, width) == [i \in 1 .. width |-> IF (n \div 2 ^ (width - i)) % 2 = 0 THEN "0" ELSE "1"]
Padded(ms) == Fixed(ms, Digits)

\* encode_component: as many digits for each byte.
encode_component(name) == FlattenSeq([i \in DOMAIN name |-> Fixed(Rank(name[i]), 5)])
normalize_endpoint_component(name) == [i \in DOMAIN name |-> IF name[i] = "A" THEN "a" ELSE name[i]]

-----------------------------------------------------------------------------
(* The keys below the prefix of the cluster, which they all share.          *)

timeline_key(t) == <<"routes", "/">> \o t
route_prefix == <<"routes", "/">>
generator_key(id) == <<"generators", "/">> \o Fixed(id, 2)
generator_prefix == <<"generators", "/">>
timeline_status_index_prefix == <<"timeline_status", "/">>
timeline_status_index_marker_key == <<"timeline_status", "/", "__ready">>
timeline_status_index_rebuild_lock_key == <<"cluster", "/", "timeline_status", "_index_rebuild_lock">>
owner_component(e) == encode_component(normalize_endpoint_component(e))
timeline_status_owner_index_prefix(e) == <<"timeline_status", "/", "by_owner", "/">> \o owner_component(e) \o <<"/">>
timeline_status_owner_index_key(e, t) == timeline_status_owner_index_prefix(e) \o t
timeline_status_state_index_prefix(s) == <<"timeline_status", "/", "by_state", "/">> \o s \o <<"/">>
timeline_status_state_index_key(s, t) == timeline_status_state_index_prefix(s) \o t
\* Mutant of request_key: the names as they are.
request_key_plain(t, c) == <<"request", "s", "_v2", "/">> \o t \o <<"/">> \o c
request_key(t, c) == <<"request", "s", "_v2", "/">> \o encode_component(t) \o <<"/">> \o encode_component(c)
request_prefix == <<"request", "s", "_v2", "/">>
legacy_request_key(t, c) == <<"request", "s", "/">> \o t \o <<"/">> \o c
legacy_request_prefix == <<"request", "s", "/">>
legacy_request_key_is_unambiguous(t, c) == ~Contains(t, "/") /\ ~Contains(c, "/")
request_cleanup_index_key(ms, t, c) ==
    <<"request", "_cleanup", "_v2", "/">> \o Padded(ms) \o <<"/">> \o encode_component(t) \o <<"/">> \o encode_component(c)
request_cleanup_index_prefix == <<"request", "_cleanup", "_v2", "/">>
request_cleanup_index_cutoff(ms) == <<"request", "_cleanup", "_v2", "/">> \o Padded(ms) \o <<"/">>
legacy_request_cleanup_index_key(ms, t, c) ==
    <<"request", "_cleanup", "/">> \o Padded(ms) \o <<"/">> \o t \o <<"/">> \o c
legacy_request_cleanup_index_prefix == <<"request", "_cleanup", "/">>
legacy_request_cleanup_index_cutoff(ms) == <<"request", "_cleanup", "/">> \o Padded(ms) \o <<"/">>
instance_identity_key(i) == <<"identity", "/", "instances", "/">> \o i
instance_identity_prefix == <<"identity", "/", "instances", "/">>
cluster_prefix == <<"cluster", "/">>
cluster_keys ==
    {<<"cluster", "/", "ownership_plan">>, <<"cluster", "/", "format_version">>,
     <<"cluster", "/", "timestamp_layout">>, <<"cluster", "/", "timeline_creation_lock">>}

\* The last byte that can be incremented is; all prefixes here end with a
\* separator, whose successor is the digit zero.
prefix_range_end(k) ==
    LET i == CHOOSE i \in DOMAIN k : k[i] # "max" /\ \A j \in i + 1 .. Len(k) : k[j] = "max"
    IN  SubSeq(k, 1, i - 1) \o <<Words[Rank(k[i]) + 1]>>
InRange(k, from, end) == ~Below(k, from) /\ Below(k, end)

-----------------------------------------------------------------------------
Names == UNION {[1 .. n -> {"a", "/"}] : n \in 1 .. NameLength}
Endpoints == {<<"a">>, <<"A">>, <<"a", "/">>, <<"a", "/", "a">>}
States == {<<"a">>, <<"s">>}
Entries == [timeline : Names, request : Names, ms : 0 .. MaxMs]

\* The prefixes that EtcdMetadataStore scans or deletes, each with the keys that
\* are meant by it.
Kinds(e) ==
    {<<route_prefix, {timeline_key(e.timeline)}>>,
     <<generator_prefix, {generator_key(i) : i \in 0 .. 3}>>,
     <<timeline_status_index_prefix,
       {timeline_status_index_marker_key}
       \cup {timeline_status_owner_index_key(o, e.timeline) : o \in Endpoints}
       \cup {timeline_status_state_index_key(s, e.timeline) : s \in States}>>,
     <<request_prefix, {request_key(e.timeline, e.request)}>>,
     <<legacy_request_prefix, {legacy_request_key(e.timeline, e.request)}>>,
     <<request_cleanup_index_prefix, {request_cleanup_index_key(e.ms, e.timeline, e.request)}>>,
     <<legacy_request_cleanup_index_prefix, {legacy_request_cleanup_index_key(e.ms, e.timeline, e.request)}>>,
     <<instance_identity_prefix, {instance_identity_key(e.timeline)}>>,
     <<cluster_prefix, cluster_keys \cup {timeline_status_index_rebuild_lock_key}>>}

Init == p \in Entries /\ q \in Entries
\* Only the second entry changes.
Next == \E ms \in 0 .. MaxMs : q' = [q EXCEPT !.ms = ms] /\ UNCHANGED p
Spec == Init /\ [][Next]_vars

\* Different requests have different records and different index entries,
\* whatever separators their names hold (request_key, request_cleanup_index_key).
RequestsApart ==
    /\ <<p.timeline, p.request>> # <<q.timeline, q.request>> =>
          request_key(p.timeline, p.request) # request_key(q.timeline, q.request)
    /\ p # q => request_cleanup_index_key(p.ms, p.timeline, p.request)
                # request_cleanup_index_key(q.ms, q.timeline, q.request)

\* A record of the old layout is taken for that of one request only: two requests
\* that share an old key are never both unambiguous.
OldKeysOfOneRequest ==
    /\ <<p.timeline, p.request>> # <<q.timeline, q.request>>
    /\ legacy_request_key(p.timeline, p.request) = legacy_request_key(q.timeline, q.request)
    => \A e \in {p, q} : ~legacy_request_key_is_unambiguous(e.timeline, e.request)

\* The range up to a cutoff has exactly the index entries with an earlier time, in
\* the order of the times, in both layouts (prune_completed_request_records).
CutoffIsExact ==
    <<p.timeline, p.request>> = <<q.timeline, q.request>> =>
    /\ InRange(request_cleanup_index_key(p.ms, p.timeline, p.request),
               request_cleanup_index_prefix, request_cleanup_index_cutoff(q.ms)) <=> p.ms < q.ms
    /\ InRange(legacy_request_cleanup_index_key(p.ms, p.timeline, p.request),
               legacy_request_cleanup_index_prefix, legacy_request_cleanup_index_cutoff(q.ms)) <=> p.ms < q.ms

\* A scan of a prefix, and the deletion of the whole status index, meets the keys
\* it is about and no other, also as the range that ends at prefix_range_end.
PrefixesApart ==
    p = q =>
    \A K, L \in Kinds(p) : \A k \in L[2] :
        /\ IsPrefix(K[1], k) <=> K = L
        /\ InRange(k, K[1], prefix_range_end(K[1])) <=> IsPrefix(K[1], k)

\* The index of an owner has the timelines of that owner, however its endpoint is
\* written, and of no other.
OwnersApart ==
    p = q =>
    \A e, f \in Endpoints :
        IsPrefix(timeline_status_owner_index_prefix(e), timeline_status_owner_index_key(f, p.timeline))
        <=> normalize_endpoint_component(e) = normalize_endpoint_component(f)
=============================================================================
