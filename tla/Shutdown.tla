------------------------------ MODULE Shutdown ------------------------------
(***************************************************************************)
(* The life of one API process: cmd/api/main.go run and httpapi.Serve,     *)
(* with what they use of net/http (accept loop, Shutdown, Close), pgxpool  *)
(* (Close) and os/signal (NotifyContext).                                  *)
(***************************************************************************)
EXTENDS Naturals

CONSTANTS
    Conn,             \* client connections
    MaxSignals,       \* bound: signals the process is sent
    ListenerMayFail   \* whether accepting can fail for good

ASSUME ShutdownAssumption == MaxSignals \in Nat /\ ListenerMayFail \in BOOLEAN

VARIABLES
    main,       \* where the main goroutine is
    result,     \* what run will return
    timedOut,   \* Serve's shutdownErr # nil
    notified,   \* signals go to NotifyContext's channel, not to their default
    signals,    \* how many have arrived
    cancelled,  \* run's ctx is done
    listener,
    serveErr,   \* the channel of the goroutine that runs srv.Serve
    grace,      \* the timer of shutdownCtx
    conn,       \* connections, and the handler that runs on each
    pool,       \* the pgx pool
    cut         \* history: connections whose request lost its answer

vars == <<main, result, timedOut, notified, signals, cancelled,
          listener, serveErr, grace, conn, pool, cut>>

process == <<notified, signals, cancelled>>
server  == <<listener, serveErr, grace, conn, cut>>

Ended == {"exited", "killed"}

\* A handler runs: with its client waiting, or on a connection srv.Close closed;
\* while it queries, it holds one of the pool's connections.
Waiting  == {c \in Conn : conn[c] \in {"handling", "querying"}}
Querying == {c \in Conn : conn[c] \in {"querying", "closedQuerying"}}

TypeOK ==
    /\ main \in {"connect", "migrate", "listen", "serve", "drain", "close", "wait",
                 "closePool", "poolWait", "stop", "exit"} \cup Ended
    /\ result \in {"none", "ok", "error"}
    /\ main \in {"stop", "exit", "exited"} => result # "none"
    /\ timedOut \in BOOLEAN /\ notified \in BOOLEAN /\ cancelled \in BOOLEAN
    /\ signals \in 0..MaxSignals
    /\ listener \in {"unbound", "open", "closed", "failed"}
    /\ serveErr \in {"empty", "nil", "error"}
    /\ grace \in {"off", "running", "elapsed"}
    /\ conn \in [Conn -> {"none", "idle", "handling", "querying",
                          "closedHandling", "closedQuerying"}]
    /\ pool \in {"none", "open", "closing", "closed"}
    /\ cut \subseteq Conn

Init ==
    /\ main = "connect" /\ result = "none" /\ timedOut = FALSE
    /\ notified = TRUE /\ signals = 0 /\ cancelled = FALSE
    /\ listener = "unbound" /\ serveErr = "empty" /\ grace = "off"
    /\ conn = [c \in Conn |-> "none"]
    /\ pool = "none"
    /\ cut = {}

-----------------------------------------------------------------------------
(* Startup.  Each part can fail, with a cancelled ctx as without one.        *)

ConnectDatabase ==
    /\ main = "connect"
    /\ \/ main' = "migrate" /\ pool' = "open" /\ UNCHANGED result
       \/ main' = "stop" /\ result' = "error" /\ UNCHANGED pool
    /\ UNCHANGED <<timedOut, process, server>>

\* Mutation: run returns without the error.
MigrateSilently ==
    /\ main = "migrate"
    /\ main' \in {"listen", "closePool"}
    /\ UNCHANGED <<result, timedOut, process, server, pool>>

MigrateSchema ==
    /\ main = "migrate"
    /\ \/ main' = "listen" /\ UNCHANGED result
       \/ main' = "closePool" /\ result' = "error"
    /\ UNCHANGED <<timedOut, process, server, pool>>

Listen ==
    /\ main = "listen"
    /\ \/ main' = "serve" /\ listener' = "open" /\ UNCHANGED result
       \/ main' = "closePool" /\ result' = "error" /\ UNCHANGED listener
    /\ UNCHANGED <<timedOut, process, serveErr, grace, conn, cut, pool>>

-----------------------------------------------------------------------------
(* Serve.                                                                    *)

\* The select takes the server's own end.
ServerStopped ==
    /\ main = "serve"
    /\ serveErr # "empty"
    /\ result' = IF serveErr = "error" THEN "error" ELSE "ok"
    /\ serveErr' = "empty"
    /\ main' = "closePool"
    /\ UNCHANGED <<timedOut, process, listener, grace, conn, cut, pool>>

\* The select takes ctx.Done; Shutdown begins by closing the listener.
BeginShutdown ==
    /\ main = "serve"
    /\ cancelled
    /\ grace' = "running"
    /\ listener' = IF listener = "open" THEN "closed" ELSE listener
    /\ main' = "drain"
    /\ UNCHANGED <<result, timedOut, process, serveErr, conn, cut, pool>>

\* Mutation: Shutdown closes the idle connections and returns.
DrainOnce ==
    /\ main = "drain"
    /\ conn' = [c \in Conn |-> IF conn[c] = "idle" THEN "none" ELSE conn[c]]
    /\ main' = "wait"
    /\ UNCHANGED <<result, timedOut, process, listener, serveErr, grace, cut, pool>>

\* Shutdown's loop: idle connections are closed, and none is left or it waits.
Drain ==
    /\ main = "drain"
    /\ conn' = [c \in Conn |-> IF conn[c] = "idle" THEN "none" ELSE conn[c]]
    /\ main' = IF Waiting = {} THEN "wait" ELSE "drain"
    /\ UNCHANGED <<result, timedOut, process, listener, serveErr, grace, cut, pool>>

\* Mutation: shutdownCtx is derived from the cancelled ctx.
DrainTimeoutAtOnce ==
    /\ main = "drain"
    /\ timedOut' = TRUE
    /\ main' = "close"
    /\ UNCHANGED <<result, process, server, pool>>

DrainTimeout ==
    /\ main = "drain"
    /\ grace = "elapsed"
    /\ timedOut' = TRUE
    /\ main' = "close"
    /\ UNCHANGED <<result, process, server, pool>>

\* Mutation: the connections are left to themselves.
CloseNothing ==
    /\ main = "close"
    /\ main' = "wait"
    /\ UNCHANGED <<result, timedOut, process, server, pool>>

\* srv.Close closes the connections, which cancels the requests' contexts.  Their
\* handlers go on until they notice.
CloseServer ==
    /\ main = "close"
    /\ conn' = [c \in Conn |-> CASE conn[c] = "handling" -> "closedHandling"
                                 [] conn[c] = "querying" -> "closedQuerying"
                                 [] conn[c] = "idle" -> "none"
                                 [] OTHER -> conn[c]]
    /\ cut' = cut \cup Waiting
    /\ main' = "wait"
    /\ UNCHANGED <<result, timedOut, process, listener, serveErr, grace, pool>>

\* Mutation: only the server's own error is reported.
WaitForServeOnly ==
    /\ main = "wait"
    /\ serveErr # "empty"
    /\ result' = IF serveErr = "error" THEN "error" ELSE "ok"
    /\ serveErr' = "empty"
    /\ main' = "closePool"
    /\ UNCHANGED <<timedOut, process, listener, grace, conn, cut, pool>>

WaitForServe ==
    /\ main = "wait"
    /\ serveErr # "empty"
    /\ result' = IF serveErr = "error" \/ timedOut THEN "error" ELSE "ok"
    /\ serveErr' = "empty"
    /\ main' = "closePool"
    /\ UNCHANGED <<timedOut, process, listener, grace, conn, cut, pool>>

-----------------------------------------------------------------------------
(* run's deferred calls: db.Close, which refuses new users and waits for the *)
(* present ones, then stop, which restores the signals' default action.      *)

ClosePool ==
    /\ main = "closePool"
    /\ pool' = "closing"
    /\ main' = "poolWait"
    /\ UNCHANGED <<result, timedOut, process, server>>

PoolClosed ==
    /\ main = "poolWait"
    /\ Querying = {}
    /\ pool' = "closed"
    /\ main' = "stop"
    /\ UNCHANGED <<result, timedOut, process, server>>

StopNotify ==
    /\ main = "stop"
    /\ notified' = FALSE
    /\ cancelled' = TRUE
    /\ main' = "exit"
    /\ UNCHANGED <<result, timedOut, signals, server, pool>>

\* The process ends, and with it every handler that still runs.
Exit ==
    /\ main = "exit"
    /\ main' = "exited"
    /\ cut' = cut \cup Waiting
    /\ UNCHANGED <<result, timedOut, process, listener, serveErr, grace, conn, pool>>

-----------------------------------------------------------------------------
(* The goroutine that runs srv.Serve, the timer, and the signals.            *)

ServeReturns ==
    /\ main \notin Ended
    /\ listener = "closed" /\ serveErr = "empty" /\ main \in {"drain", "close", "wait"}
    /\ serveErr' = "nil"
    /\ UNCHANGED <<main, result, timedOut, process, listener, grace, conn, cut, pool>>

AcceptFails ==
    /\ ListenerMayFail
    /\ main \notin Ended
    /\ listener = "open"
    /\ listener' = "failed"
    /\ serveErr' = "error"
    /\ UNCHANGED <<main, result, timedOut, process, grace, conn, cut, pool>>

GraceElapses ==
    /\ main \in {"drain", "close", "wait"}
    /\ grace = "running"
    /\ grace' = "elapsed"
    /\ UNCHANGED <<main, result, timedOut, process, listener, serveErr, conn, cut, pool>>

\* SIGINT or SIGTERM.  NotifyContext reads the first and keeps the others.
Signal ==
    /\ main \notin Ended
    /\ signals < MaxSignals
    /\ signals' = signals + 1
    /\ \/ /\ notified
          /\ cancelled' = TRUE
          /\ UNCHANGED <<main, cut>>
       \/ /\ ~notified
          /\ main' = "killed"
          /\ cut' = cut \cup Waiting
          /\ UNCHANGED cancelled
    /\ UNCHANGED <<result, timedOut, notified, listener, serveErr, grace, conn, pool>>

-----------------------------------------------------------------------------
(* Connections and handlers.                                                 *)

Becomes(c, s) ==
    /\ main \notin Ended
    /\ conn' = [conn EXCEPT ![c] = s]
    /\ UNCHANGED <<main, result, timedOut, process, listener, serveErr, grace, cut, pool>>

Connect(c) == listener = "open" /\ conn[c] = "none" /\ Becomes(c, "idle")

Request(c) == conn[c] = "idle" /\ Becomes(c, "handling")

\* A closed pool gives out no connection, and neither does a cancelled request.
Acquire(c) == conn[c] = "handling" /\ pool = "open" /\ Becomes(c, "querying")

Release(c) == conn[c] = "querying" /\ Becomes(c, "handling")

\* Shutdown ends keep-alive.
Answer(c) ==
    /\ conn[c] = "handling"
    /\ Becomes(c, IF grace = "off" THEN "idle" ELSE "none")

\* The client leaves, or IdleTimeout passes.
Disconnect(c) == conn[c] = "idle" /\ Becomes(c, "none")

\* A query whose request was cancelled fails and gives its connection back.
QueryCancelled(c) == conn[c] = "closedQuerying" /\ Becomes(c, "closedHandling")

HandlerGivesUp(c) == conn[c] = "closedHandling" /\ Becomes(c, "none")

-----------------------------------------------------------------------------

Main ==
    \/ ConnectDatabase \/ MigrateSchema \/ Listen
    \/ ServerStopped \/ BeginShutdown \/ Drain \/ DrainTimeout
    \/ CloseServer \/ WaitForServe
    \/ ClosePool \/ PoolClosed \/ StopNotify \/ Exit

Terminated == main \in Ended /\ UNCHANGED vars

Next ==
    \/ Main \/ ServeReturns \/ AcceptFails \/ GraceElapses \/ Signal
    \/ \E c \in Conn :
          \/ Connect(c) \/ Request(c) \/ Acquire(c) \/ Release(c) \/ Answer(c)
          \/ Disconnect(c) \/ QueryCancelled(c) \/ HandlerGivesUp(c)
    \/ Terminated

Spec == Init /\ [][Next]_vars

\* Goroutines that can run do, timers fire, and a cancelled query returns.  A query
\* that nobody cancels, and a handler, may take for ever.
Fairness ==
    /\ WF_vars(Main) /\ WF_vars(ServeReturns) /\ WF_vars(GraceElapses)
    /\ \A c \in Conn : WF_vars(QueryCancelled(c))

FairSpec == Spec /\ Fairness

-----------------------------------------------------------------------------
(* Properties                                                                *)

\* A request loses its answer only when it outlasts the grace period or the
\* listener broke: neither the drain nor the exit overtakes a handler, on whatever
\* connection and however late its request came in.
CutOnlyLate == cut # {} => grace = "elapsed" \/ listener = "failed"

\* The pool is open as long as a client waits for a handler that may need it.
PoolOutlivesRequests ==
    pool \in {"closing", "closed"} /\ Waiting # {} => listener = "failed"

\* Serve's nil, which becomes exit status 0, means that the process was told to
\* stop, that every request was answered, and that no handler is left.
CleanExit ==
    main = "exited" /\ result = "ok" =>
        signals > 0 /\ cut = {} /\ \A c \in Conn : conn[c] = "none"

\* A signal ends the process however long its requests take, unless the listener
\* broke, when nothing cancels them.
SignalStops == cancelled ~> main \in Ended \/ listener = "failed"

\* src/backend/README.md:321: "A second signal kills the process immediately
\* instead of being swallowed."
SecondSignalKills == signals > 1 => main = "killed"

\* main.go:64, of the pool: "Closed only after the server has fully stopped, so no
\* handler can be using a connection at the time."
PoolClosedUnused == pool = "closing" => Querying = {}

=============================================================================
