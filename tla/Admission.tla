----------------------------- MODULE Admission -----------------------------
(***************************************************************************)
(* From a TCP connection to a running miner handler, and back to an empty  *)
(* process (main.go).                                                      *)
(*                                                                         *)
(* Two accept loops share the reconnect tracker, the miner registry and    *)
(* two wait groups; AcceptLimiter has their token bucket.  A connection is *)
(* refused when the node has been degraded for too long, when its host     *)
(* reconnects too often, or when the registry is full; then its first      *)
(* byte, which may take for ever, tells Stratum V1 from V2.                *)
(* enforceStratumFreshness closes all registered miners when the node      *)
(* stays degraded.  Shutdown closes the listeners, waits for the loops,    *)
(* closes the registered miners, waits for the handlers and then closes    *)
(* the submission workers.                                                 *)
(***************************************************************************)
EXTENDS Integers, FiniteSets

CONSTANTS
    Listeners,      \* "tcp" and "tls"
    Conns,          \* connections that will be made, with one host each
    HostOf,         \* the host of a connection
    MaxConns,       \* cfg.MaxConns
    Threshold       \* the reconnect tracker's threshold

ASSUME AdmissionAssumption ==
    /\ "tcp" \in Listeners /\ IsFiniteSet(Listeners) /\ IsFiniteSet(Conns)
    /\ 0 \notin Conns /\ MaxConns \in Nat
    /\ Threshold \in Nat \ {0}

VARIABLES
    loop,       \* accept loop: where it is, and its connection
    since,      \* each loop's unhealthySince: "none", "recent" or "old"
    health,     \* stratumHealthStatus: "ok", "syncing" or "stale"
    gated,      \* enforceStratumFreshness: not wasHealthy
    attempts, banned,           \* the reconnect tracker
    conn,       \* the state of each connection
    registry,   \* MinerRegistry.conns
    closing,    \* connections whose mc.Close was called
    main        \* what main is doing

admissionVars == <<loop, since, health, gated, attempts, banned, conn, registry, closing,
                   main>>
trackerVars == <<attempts, banned>>

Hosts == {HostOf[c] : c \in Conns}
NoConn == 0
Stopping == main # "serving"       \* ctx is done

AdmissionTypeOK ==
    /\ loop \in [Listeners -> [at : {"accept", "peek", "done"}, conn : Conns \cup {NoConn}]]
    /\ since \in [Listeners -> {"none", "recent", "old"}]
    /\ health \in {"ok", "syncing", "stale"} /\ gated \in BOOLEAN
    /\ attempts \in [Hosts -> 0..Threshold + 1] /\ banned \subseteq Hosts
    /\ conn \in [Conns -> {"new", "peeking", "v1", "v2", "gone"}]
    /\ registry \subseteq Conns /\ closing \subseteq Conns
    /\ main \in {"serving", "stopping", "draining", "drained"}

AdmissionInit ==
    /\ loop = [l \in Listeners |-> [at |-> "accept", conn |-> NoConn]]
    /\ since = [l \in Listeners |-> "none"] /\ health = "ok" /\ gated = FALSE
    /\ attempts = [h \in Hosts |-> 0] /\ banned = {}
    /\ conn = [c \in Conns |-> "new"] /\ registry = {} /\ closing = {}
    /\ main = "serving"

GoTo(l, where, c) == loop' = [loop EXCEPT ![l] = [at |-> where, conn |-> c]]

-----------------------------------------------------------------------------
(* serveStratum                                                             *)
\* Unhealthy for stratumStaleJobGrace.  A failing job feed is reported only when
\* it is that old; a syncing node is counted from the first refusal decision.
SinceNow(l) ==
    IF since[l] # "none" THEN since[l]
    ELSE IF health = "stale" THEN "old" ELSE "recent"

\* reconnectTracker.allow
Allowed(h) == h \notin banned /\ attempts[h] < Threshold
Attempt(h) ==
    /\ attempts' = IF h \in banned THEN attempts ELSE [attempts EXCEPT ![h] = @ + 1]
    /\ banned' = IF h \notin banned /\ attempts[h] >= Threshold THEN banned \cup {h} ELSE banned

AtCapacity == MaxConns > 0 /\ Cardinality(registry) >= MaxConns

\* Accept, then the three refusals in the order of the code
Accept(l, c) ==
    /\ loop[l].at = "accept" /\ ~Stopping /\ conn[c] = "new"
    /\ since' = [since EXCEPT ![l] = IF health = "ok" THEN "none" ELSE SinceNow(l)]
    /\ LET refusedByHealth == health # "ok" /\ SinceNow(l) = "old"
           refusedByTracker == ~Allowed(HostOf[c])
       IN  /\ IF refusedByHealth THEN UNCHANGED trackerVars ELSE Attempt(HostOf[c])
           /\ IF refusedByHealth \/ refusedByTracker \/ AtCapacity
              THEN GoTo(l, "accept", NoConn) /\ conn' = [conn EXCEPT ![c] = "gone"]
              ELSE GoTo(l, "peek", c) /\ conn' = [conn EXCEPT ![c] = "peeking"]
    /\ UNCHANGED <<health, gated, registry, closing, main>>

\* The limiter's wait is cancelled, or the listener is closed.
AcceptFails(l) ==
    /\ loop[l].at = "accept" /\ Stopping
    /\ GoTo(l, "done", NoConn)
    /\ UNCHANGED <<since, health, gated, trackerVars, conn, registry, closing, main>>

\* The first byte arrives: V1 is registered, V2 is only counted in connWg.  Or
\* the peer goes, or the noise handshake fails.
FirstByte(l) ==
    /\ loop[l].at = "peek"
    /\ \E kind \in {"v1", "v2", "gone"} :
         /\ conn' = [conn EXCEPT ![loop[l].conn] = kind]
         /\ registry' = IF kind = "v1" THEN registry \cup {loop[l].conn} ELSE registry
    /\ GoTo(l, "accept", NoConn)
    /\ UNCHANGED <<since, health, gated, trackerVars, closing, main>>

\* The handler returns: the peer left, or the connection was closed.
HandlerEnds(c) ==
    /\ conn[c] \in {"v1", "v2"}
    /\ conn' = [conn EXCEPT ![c] = "gone"] /\ registry' = registry \ {c}
    /\ UNCHANGED <<loop, since, health, gated, trackerVars, closing, main>>

-----------------------------------------------------------------------------
NodeChanges ==
    /\ health' \in {"ok", "syncing", "stale"} \ {health}
    /\ UNCHANGED <<loop, since, gated, trackerVars, conn, registry, closing, main>>

GracePasses(l) ==
    /\ since[l] = "recent" /\ since' = [since EXCEPT ![l] = "old"]
    /\ UNCHANGED <<loop, health, gated, trackerVars, conn, registry, closing, main>>

\* The window or the ban of the reconnect tracker ends.
TrackerForgets(h) ==
    /\ attempts[h] > 0
    /\ attempts' = [attempts EXCEPT ![h] = 0] /\ banned' = banned \ {h}
    /\ UNCHANGED <<loop, since, health, gated, conn, registry, closing, main>>

\* enforceStratumFreshness
Safeguard ==
    /\ health # "ok" /\ ~gated /\ ~Stopping
    /\ closing' = closing \cup registry /\ gated' = TRUE
    /\ UNCHANGED <<loop, since, health, trackerVars, conn, registry, main>>
Ungate ==
    /\ health = "ok" /\ gated /\ gated' = FALSE
    /\ UNCHANGED <<loop, since, health, trackerVars, conn, registry, closing, main>>

-----------------------------------------------------------------------------
\* A signal, or the primary listener's end; the other listener is closed too.
StopRequested ==
    /\ main = "serving" /\ main' = "stopping"
    /\ UNCHANGED <<loop, since, health, gated, trackerVars, conn, registry, closing>>

\* Mutant: only the primary loop is waited for.
CloseMinersEarly ==
    /\ main = "stopping" /\ loop["tcp"].at = "done"
    /\ closing' = closing \cup registry /\ main' = "draining"
    /\ UNCHANGED <<loop, since, health, gated, trackerVars, conn, registry>>

\* Both loops have returned: close the registered miners.
CloseMiners ==
    /\ main = "stopping" /\ \A l \in Listeners : loop[l].at = "done"
    /\ closing' = closing \cup registry /\ main' = "draining"
    /\ UNCHANGED <<loop, since, health, gated, trackerVars, conn, registry>>

\* connWg.Wait, then drainAndClose
Drained ==
    /\ main = "draining" /\ \A c \in Conns : conn[c] \notin {"v1", "v2"}
    /\ main' = "drained"
    /\ UNCHANGED <<loop, since, health, gated, trackerVars, conn, registry, closing>>

AdmissionNext ==
    \/ \E l \in Listeners :
         \/ \E c \in Conns : Accept(l, c)
         \/ AcceptFails(l) \/ FirstByte(l) \/ GracePasses(l)
    \/ \E c \in Conns : HandlerEnds(c)
    \/ \E h \in Hosts : TrackerForgets(h)
    \/ NodeChanges \/ Safeguard \/ Ungate
    \/ StopRequested \/ CloseMiners \/ Drained

AdmissionSpec == AdmissionInit /\ [][AdmissionNext]_admissionVars

-----------------------------------------------------------------------------
\* The registry exceeds its capacity at most by the connections that were past
\* the check, one for each other loop.
RegistryBounded == MaxConns > 0 =>
    Cardinality(registry) <= MaxConns + Cardinality(Listeners) - 1

(* While connections come in through two listeners and the process is       *)
(* stopped at any moment: the registry keeps its bound; once the loops are  *)
(* done nothing registers, so that every registered miner is told to close; *)
(* and the submission workers are closed only when no handler is left and   *)
(* none can start.                                                          *)
AdmissionSafe ==
    /\ RegistryBounded
    /\ main \in {"draining", "drained"} => registry \subseteq closing
    /\ main = "drained" => /\ registry = {}
                           /\ \A c \in Conns : conn[c] \in {"new", "gone"}
                           /\ \A l \in Listeners : loop[l].at = "done"
=============================================================================
