----------------------------- MODULE Listeners -----------------------------
(***************************************************************************)
(* The listeners of a worker (startup/transport.rs) and the admin server   *)
(* that joins two of them (startup/runtime.rs): metrics and health accept  *)
(* a connection and then ask for one of a few permits, and give each       *)
(* connection a task with timeouts; gRPC asks for a permit and then        *)
(* accepts, and the permit lives as long as the connection.                *)
(*                                                                         *)
(* Clients connect, say nothing, fail, or make their request, as they      *)
(* like.  What goes over a connection is left out; the flag that probes    *)
(* are answered with is in WorkerReadiness.                                *)
(***************************************************************************)
EXTENDS Naturals, FiniteSets

CONSTANTS
    Clients,
    Limit,      \* permits: AUXILIARY_LISTENER_MAX_CONNECTIONS, grpc_max_connections
    Tls         \* whether the metrics listener has a TLS acceptor

Aux == {"metrics", "health"}
All == Aux \cup {"grpc"}

\* The constants fit together.
ListenersAssumption == Limit \in [All -> Nat \ {0}] /\ Tls \in BOOLEAN

VARIABLES
    loop,       \* accept; abort: after the loop; ended; failed: returned the error
                \* of an accept; dropped: by try_join! because the other failed
    conn,       \* away; backlog: not accepted yet; tls, http: in its task; open: a
                \* gRPC connection; done: the task has ended and is not joined yet
    used,       \* permits given out
    spare,      \* whether gRPC holds the permit for its next connection
    shutdown    \* the watch

vars == <<loop, conn, used, spare, shutdown>>

Init ==
    /\ loop = [l \in All |-> "accept"]
    /\ conn = [l \in All |-> [c \in Clients |-> "away"]]
    /\ used = [l \in All |-> 0]
    /\ spare = FALSE /\ shutdown = FALSE

Put(l, c, s) == conn' = [conn EXCEPT ![l][c] = s]
Release(l) == used' = [used EXCEPT ![l] = @ - 1]
Live(l) == {c \in Clients : conn[l][c] \in {"tls", "http", "open"}}

-----------------------------------------------------------------------------
(* Clients and the process *)

Connect(l, c) ==
    /\ conn[l][c] = "away" /\ loop[l] = "accept"
    /\ Put(l, c, "backlog")
    /\ UNCHANGED <<loop, used, spare, shutdown>>

\* request_shutdown: by a signal, or because the admin server has failed.
RequestShutdown ==
    /\ ~shutdown
    /\ shutdown' = TRUE
    /\ UNCHANGED <<loop, conn, used, spare>>

-----------------------------------------------------------------------------
(* Metrics and health *)

Start(l) == IF l = "metrics" /\ Tls THEN "tls" ELSE "http"

\* accept, then try_acquire_owned: beyond the limit the connection is dropped.
Accept(l, c) ==
    /\ loop[l] = "accept" /\ conn[l][c] = "backlog"
    /\ \/ /\ used[l] < Limit[l]
          /\ used' = [used EXCEPT ![l] = @ + 1]
          /\ Put(l, c, Start(l))
       \/ /\ used[l] = Limit[l]
          /\ Put(l, c, "away")
          /\ UNCHANGED used
    /\ UNCHANGED <<loop, spare, shutdown>>

\* An error of accept() ends the listener, and try_join! drops the other one; the
\* JoinSets abort what they hold without waiting for it.
AcceptFails(l) ==
    /\ loop[l] = "accept"
    /\ loop' = [m \in All |->
          CASE m = l -> "failed"
            [] m \in Aux \ {l} /\ loop[m] \in {"accept", "abort"} -> "dropped"
            [] OTHER -> loop[m]]
    /\ UNCHANGED <<conn, used, spare, shutdown>>

\* The end of a connection's task, for whatever reason: its permit goes with it.
TaskEnds(l, c) ==
    /\ Put(l, c, "done")
    /\ Release(l)

HandshakeDone(c) ==
    /\ conn["metrics"][c] = "tls"
    /\ Put("metrics", c, "http")
    /\ UNCHANGED <<loop, used, spare, shutdown>>

\* serve_connection returns: the request is answered, and the connection is not
\* kept alive, or the client fails the handshake or breaks the connection.
ConnectionEnds(l, c) ==
    /\ conn[l][c] \in {"tls", "http"}
    /\ TaskEnds(l, c)
    /\ UNCHANGED <<loop, spare, shutdown>>

\* AUXILIARY_TLS_HANDSHAKE_TIMEOUT.
HandshakeTimeout(c) ==
    /\ conn["metrics"][c] = "tls"
    /\ TaskEnds("metrics", c)
    /\ UNCHANGED <<loop, spare, shutdown>>

\* AUXILIARY_HTTP_CONNECTION_TIMEOUT.
HttpTimeout(l, c) ==
    /\ conn[l][c] = "http"
    /\ TaskEnds(l, c)
    /\ UNCHANGED <<loop, spare, shutdown>>

\* Mutant of Join: nothing is joined after the loop.
JoinInLoop(l, c) ==
    /\ conn[l][c] = "done" /\ loop[l] = "accept"
    /\ Put(l, c, "away")
    /\ UNCHANGED <<loop, used, spare, shutdown>>

\* join_next, in the loop and after it.
Join(l, c) ==
    /\ conn[l][c] = "done" /\ loop[l] \in {"accept", "abort"}
    /\ Put(l, c, "away")
    /\ UNCHANGED <<loop, used, spare, shutdown>>

\* wait_for_shutdown_signal, and abort_all; what was not accepted is closed.
SeeShutdown(l) ==
    /\ loop[l] = "accept" /\ shutdown
    /\ loop' = [loop EXCEPT ![l] = "abort"]
    /\ conn' = [conn EXCEPT ![l] = [c \in Clients |-> IF @[c] = "backlog" THEN "away" ELSE @[c]]]
    /\ UNCHANGED <<used, spare, shutdown>>

\* An aborted task ends at its next await.
Aborted(l, c) ==
    /\ conn[l][c] \in {"tls", "http"}
    /\ loop[l] \in {"abort", "failed", "dropped"}
    /\ TaskEnds(l, c)
    /\ UNCHANGED <<loop, spare, shutdown>>

Finish(l) ==
    /\ loop[l] = "abort"
    /\ \A c \in Clients : conn[l][c] = "away"
    /\ loop' = [loop EXCEPT ![l] = "ended"]
    /\ UNCHANGED <<conn, used, spare, shutdown>>

-----------------------------------------------------------------------------
(* gRPC *)

\* grpc_listener_stream_with_limit: a permit first, ...
AcquirePermit ==
    /\ loop["grpc"] = "accept" /\ ~spare /\ used["grpc"] < Limit["grpc"]
    /\ spare' = TRUE
    /\ used' = [used EXCEPT !["grpc"] = @ + 1]
    /\ UNCHANGED <<loop, conn, shutdown>>

\* ... then the connection, which takes it along.
AcceptGrpc(c) ==
    /\ loop["grpc"] = "accept" /\ spare /\ conn["grpc"][c] = "backlog"
    /\ spare' = FALSE
    /\ Put("grpc", c, "open")
    /\ UNCHANGED <<loop, used, shutdown>>

\* An error of accept() ends the stream; the permit in hand goes with it.
AcceptGrpcFails ==
    /\ loop["grpc"] = "accept" /\ spare
    /\ loop' = [loop EXCEPT !["grpc"] = "failed"]
    /\ spare' = FALSE
    /\ Release("grpc")
    /\ UNCHANGED <<conn, shutdown>>

\* The connection is closed: ConnectionLimitedTcpStream is dropped.
CloseGrpc(c) ==
    /\ conn["grpc"][c] = "open"
    /\ Put("grpc", c, "away")
    /\ Release("grpc")
    /\ UNCHANGED <<loop, spare, shutdown>>

\* serve_with_incoming_shutdown drops the stream of connections.
StopGrpc ==
    /\ loop["grpc"] = "accept" /\ shutdown
    /\ loop' = [loop EXCEPT !["grpc"] = "ended"]
    /\ used' = [used EXCEPT !["grpc"] = IF spare THEN @ - 1 ELSE @]
    /\ spare' = FALSE
    /\ UNCHANGED <<conn, shutdown>>

-----------------------------------------------------------------------------
Expire(l, c) == HttpTimeout(l, c) \/ (l = "metrics" /\ HandshakeTimeout(c))

Next ==
    \/ RequestShutdown \/ AcquirePermit \/ AcceptGrpcFails \/ StopGrpc
    \/ \E l \in Aux : AcceptFails(l) \/ SeeShutdown(l) \/ Finish(l)
    \/ \E c \in Clients :
          \/ \E l \in All : Connect(l, c)
          \/ \E l \in Aux : Accept(l, c) \/ Join(l, c) \/ Aborted(l, c)
                            \/ ConnectionEnds(l, c) \/ HttpTimeout(l, c)
          \/ HandshakeDone(c) \/ HandshakeTimeout(c) \/ AcceptGrpc(c) \/ CloseGrpc(c)

Spec == Init /\ [][Next]_vars

-----------------------------------------------------------------------------
\* The permits given out are those of the live connections and the one gRPC has
\* in hand, so none is lost on any way a connection ends, and never more than the
\* limit (serve_metrics_listener, grpc_listener_stream_with_limit).
TypeOK ==
    /\ loop \in [All -> {"accept", "abort", "ended", "failed", "dropped"}]
    /\ conn \in [All -> [Clients -> {"away", "backlog", "tls", "http", "open", "done"}]]
    /\ \A l \in All :
          /\ used[l] = Cardinality(Live(l)) + (IF l = "grpc" /\ spare THEN 1 ELSE 0)
          /\ used[l] <= Limit[l]

\* A listener that ended in order has no task left that could still answer
\* (join_next after abort_all).
EndedIsQuiet == \A l \in Aux : loop[l] = "ended" => Live(l) = {}
=============================================================================
