-------------------------- MODULE Shutdown_proofs --------------------------
(***************************************************************************)
(* Theorems about Shutdown, for any number of connections and signals, and *)
(* for listeners that break and those that do not.                         *)
(***************************************************************************)
EXTENDS Shutdown, TLAPS

-----------------------------------------------------------------------------
(* The inductive invariant                                                 *)

Starting == {"connect", "migrate", "listen"}
Draining == {"drain", "close", "wait"}

\* Serve has returned, or was never called.
Leaving == {"closePool", "poolWait", "stop", "exit"} \cup Ended

\* The listener is open just while Serve waits, a broken one stays broken, and
\* what srv.Serve reports is the end of its listener.
ListenerInv ==
    /\ main \in Starting => listener = "unbound"
    /\ main = "serve" => listener \in {"open", "failed"}
    /\ listener = "open" => main = "serve"
    /\ main \in Draining => listener # "unbound"
    /\ serveErr = "error" => listener = "failed"
    /\ serveErr = "nil" => listener = "closed"

\* Serve gives up only after its grace period, which begins with a signal.
GraceInv ==
    /\ main \in {"close"} \/ timedOut => grace = "elapsed"
    /\ timedOut => main \notin Starting \cup {"serve", "drain"}
    /\ main = "close" => timedOut
    /\ cancelled => signals > 0 \/ main \in {"exit"} \cup Ended
    /\ main \in Draining => signals > 0
    /\ ~notified => main \in {"exit"} \cup Ended

\* A connection is closed under its handler only by srv.Close; once Serve has
\* drained or closed them, no connection has a client, and with the listener
\* closed none can come.
ConnInv ==
    /\ listener = "unbound" => \A c \in Conn : conn[c] = "none"
    /\ \A c \in Conn : conn[c] \in {"closedHandling", "closedQuerying"} => timedOut
    /\ main \in {"wait"} \cup Leaving /\ listener # "failed" =>
          \A c \in Conn : conn[c] \in {"none", "closedHandling", "closedQuerying"}
    /\ cut # {} => timedOut \/ listener = "failed"

\* What run returns is known when its deferred calls begin, and success is what
\* Serve reports of a server that was told to stop and drained in time.
ResultInv ==
    /\ main \in Leaving \ {"killed"} => result # "none"
    /\ result = "ok" => /\ main \in Leaving
                        /\ listener = "closed" /\ ~timedOut /\ signals > 0
    /\ pool \in {"closing", "closed"} => main \in Leaving

\* The timer runs as long as Serve drains, a broken listener is reported once, and
\* the pool is closing while it is waited for.
HangInv ==
    /\ main \in Starting \cup {"serve"} => grace = "off"
    /\ main \in Draining => grace # "off"
    /\ main = "poolWait" => pool = "closing"
    /\ main \in {"serve"} \cup Draining /\ listener = "failed" => serveErr = "error"

IInv == TypeOK /\ ListenerInv /\ GraceInv /\ ConnInv /\ ResultInv /\ HangInv

-----------------------------------------------------------------------------
(* What the steps leave alone                                              *)

\* A step on one connection.
OnConn(c) ==
    \/ Connect(c) \/ Request(c) \/ Acquire(c) \/ Release(c) \/ Answer(c)
    \/ Disconnect(c) \/ QueryCancelled(c) \/ HandlerGivesUp(c)

\* Connections and handlers change their own connection and nothing else, and a
\* client comes to one only while the listener is open or it was there before.
LEMMA OnConnStep ==
    ASSUME TypeOK, NEW c \in Conn, OnConn(c)
    PROVE  /\ UNCHANGED <<main, result, timedOut, process, listener, serveErr, grace,
                          cut, pool>>
           /\ \A d \in Conn \ {c} : conn'[d] = conn[d]
           /\ conn'[c] \in {"none", "idle", "handling", "querying", "closedHandling"}
           /\ conn[c] = "none" => listener = "open"
           /\ conn'[c] = "closedHandling" => conn[c] = "closedQuerying"
           /\ conn[c] \in {"closedHandling", "closedQuerying"} =>
                 conn'[c] \in {"none", "closedHandling"}
BY DEF TypeOK, OnConn, Connect, Request, Acquire, Release, Answer, Disconnect,
   QueryCancelled, HandlerGivesUp, Becomes

\* The steps of the main goroutine that end no connection and no request.
Quick ==
    \/ ConnectDatabase \/ MigrateSchema \/ Listen \/ ServerStopped \/ BeginShutdown
    \/ DrainTimeout \/ WaitForServe \/ ClosePool \/ PoolClosed \/ StopNotify

\* They touch no connection.
LEMMA QuickStep == Quick => conn' = conn /\ cut' = cut
BY DEF Quick, server, ConnectDatabase, MigrateSchema, Listen, ServerStopped,
   BeginShutdown, DrainTimeout, WaitForServe, ClosePool, PoolClosed, StopNotify

\* What goes on besides the main goroutine and the connections.
Around == ServeReturns \/ AcceptFails \/ GraceElapses \/ Signal

\* A step is one of the main goroutine, of one connection, or around them.
LEMMA NextCases ==
    ASSUME [Next]_vars
    PROVE  \/ Quick \/ Drain \/ CloseServer \/ Exit
           \/ Around
           \/ \E c \in Conn : OnConn(c)
           \/ UNCHANGED vars
BY DEF Next, Main, Quick, Around, OnConn, Terminated

-----------------------------------------------------------------------------
(* The parts of the invariant, one by one                                  *)

\* Every step keeps the variables in their types.
LEMMA TypeStep == IInv /\ [Next]_vars => TypeOK'
<1> SUFFICES ASSUME IInv, [Next]_vars PROVE TypeOK'
    OBVIOUS
<1> USE DEF IInv, TypeOK, process, server
<1>1. CASE Quick
  <2>1. CASE ConnectDatabase \/ MigrateSchema \/ Listen
    BY <2>1 DEF ConnectDatabase, MigrateSchema, Listen, Ended
  <2>2. CASE ServerStopped \/ BeginShutdown \/ DrainTimeout \/ WaitForServe
    BY <2>2 DEF ServerStopped, BeginShutdown, DrainTimeout, WaitForServe, Ended
  <2>3. CASE ClosePool \/ PoolClosed \/ StopNotify
    BY <2>3 DEF ClosePool, PoolClosed, StopNotify, ResultInv, Leaving, Ended
  <2> QED BY <1>1, <2>1, <2>2, <2>3 DEF Quick
<1>2. CASE Drain
  BY <1>2 DEF Drain, Ended
<1>3. CASE CloseServer
  BY <1>3 DEF CloseServer, Waiting, Ended
<1>4. CASE Exit
  BY <1>4 DEF Exit, Waiting, Ended
<1>5. CASE Around
  <2>1. CASE ServeReturns \/ AcceptFails \/ GraceElapses
    BY <2>1 DEF ServeReturns, AcceptFails, GraceElapses
  <2>2. CASE Signal
    <3>1. signals' \in 0..MaxSignals
      BY <2>2, ShutdownAssumption DEF Signal
    <3>2. cut' \subseteq Conn
      BY <2>2 DEF Signal, Waiting
    <3>3. main' \in {main, "killed"} /\ cancelled' \in BOOLEAN
      BY <2>2 DEF Signal
    <3>4. UNCHANGED <<result, timedOut, notified, listener, serveErr, grace, conn, pool>>
      BY <2>2 DEF Signal
    <3> QED BY <3>1, <3>2, <3>3, <3>4 DEF Ended
  <2> QED BY <1>5, <2>1, <2>2 DEF Around
<1>6. ASSUME NEW c \in Conn, OnConn(c) PROVE TypeOK'
  <2>1. conn' \in [Conn -> {"none", "idle", "handling", "querying",
                            "closedHandling", "closedQuerying"}]
    BY <1>6 DEF OnConn, Connect, Request, Acquire, Release, Answer, Disconnect,
       QueryCancelled, HandlerGivesUp, Becomes
  <2> QED BY <1>6, <2>1, OnConnStep
<1>7. CASE UNCHANGED vars
  BY <1>7 DEF vars
<1> QED BY <1>1, <1>2, <1>3, <1>4, <1>5, <1>6, <1>7, NextCases

\* Main opens the listener and closes it, an error of accept breaks it.
LEMMA ListenerStep == IInv /\ [Next]_vars => ListenerInv'
<1> SUFFICES ASSUME IInv, [Next]_vars PROVE ListenerInv'
    OBVIOUS
<1> USE DEF IInv, TypeOK, ListenerInv, Starting, Draining, Ended, process, server
<1>1. CASE Quick
  BY <1>1 DEF Quick, ConnectDatabase, MigrateSchema, Listen, ServerStopped,
     BeginShutdown, DrainTimeout, WaitForServe, ClosePool, PoolClosed, StopNotify
<1>2. CASE Drain \/ CloseServer \/ Exit
  BY <1>2 DEF Drain, CloseServer, Exit
<1>3. CASE Around
  BY <1>3 DEF Around, ServeReturns, AcceptFails, GraceElapses, Signal, GraceInv
<1>4. ASSUME NEW c \in Conn, OnConn(c) PROVE ListenerInv'
  BY <1>4, OnConnStep
<1>5. CASE UNCHANGED vars
  BY <1>5 DEF vars
<1> QED BY <1>1, <1>2, <1>3, <1>4, <1>5, NextCases

\* Serve drains on a signal, and stops draining when the timer has run out.
LEMMA GraceStep == IInv /\ [Next]_vars => GraceInv'
<1> SUFFICES ASSUME IInv, [Next]_vars PROVE GraceInv'
    OBVIOUS
<1> USE DEF IInv, TypeOK, GraceInv, Starting, Draining, Ended, process, server
<1>1. CASE Quick
  BY <1>1 DEF Quick, ConnectDatabase, MigrateSchema, Listen, ServerStopped,
     BeginShutdown, DrainTimeout, WaitForServe, ClosePool, PoolClosed, StopNotify
<1>2. CASE Drain \/ CloseServer \/ Exit
  BY <1>2 DEF Drain, CloseServer, Exit
<1>3. CASE Around
  BY <1>3 DEF Around, ServeReturns, AcceptFails, GraceElapses, Signal
<1>4. ASSUME NEW c \in Conn, OnConn(c) PROVE GraceInv'
  BY <1>4, OnConnStep
<1>5. CASE UNCHANGED vars
  BY <1>5 DEF vars
<1> QED BY <1>1, <1>2, <1>3, <1>4, <1>5, NextCases

\* Once Serve has returned from a listener that is closed, nobody waits.
LEMMA NobodyWaits ==
    ASSUME IInv, main \in {"wait"} \cup Leaving, listener # "failed"
    PROVE  Waiting = {}
BY DEF IInv, ConnInv, Waiting

\* The drain empties every connection that was not closed, srv.Close closes the
\* others, and nothing comes afterwards.
LEMMA ConnStep == IInv /\ ListenerInv' /\ [Next]_vars => ConnInv'
<1> SUFFICES ASSUME IInv, ListenerInv', [Next]_vars PROVE ConnInv'
    OBVIOUS
<1> USE DEF Leaving, Ended
<1>1. CASE Quick
  <2>1. conn' = conn /\ cut' = cut
    BY <1>1, QuickStep
  <2>2. timedOut => timedOut'
    BY <1>1 DEF Quick, ConnectDatabase, MigrateSchema, Listen, ServerStopped,
       BeginShutdown, DrainTimeout, WaitForServe, ClosePool, PoolClosed, StopNotify
  <2>3. listener = "failed" => listener' = "failed"
    BY <1>1 DEF Quick, ConnectDatabase, MigrateSchema, Listen, ServerStopped,
       BeginShutdown, DrainTimeout, WaitForServe, ClosePool, PoolClosed, StopNotify,
       server, IInv, ListenerInv, Starting
  <2>4. listener' = "unbound" => listener = "unbound"
    BY <1>1 DEF Quick, ConnectDatabase, MigrateSchema, Listen, ServerStopped,
       BeginShutdown, DrainTimeout, WaitForServe, ClosePool, PoolClosed, StopNotify, server
  <2>5. main' \in {"wait"} \cup Leaving =>
          main \in {"wait"} \cup Leaving \/ listener \in {"unbound", "failed"}
    BY <1>1 DEF Quick, ConnectDatabase, MigrateSchema, Listen, ServerStopped,
       BeginShutdown, DrainTimeout, WaitForServe, ClosePool, PoolClosed, StopNotify,
       IInv, ListenerInv, Starting
  <2> QED BY <2>1, <2>2, <2>3, <2>4, <2>5 DEF IInv, ConnInv
<1>2. CASE Drain
  <2>1. /\ main = "drain" /\ UNCHANGED <<timedOut, listener, cut>>
        /\ \A c \in Conn : conn'[c] = IF conn[c] = "idle" THEN "none" ELSE conn[c]
        /\ main' = IF Waiting = {} THEN "wait" ELSE "drain"
    BY <1>2 DEF Drain
  <2>2. Waiting = {} => \A c \in Conn : conn'[c] = "none"
    BY <2>1 DEF Waiting, IInv, TypeOK, GraceInv, ConnInv
  <2> QED BY <2>1, <2>2 DEF IInv, ConnInv
<1>3. CASE CloseServer
  <2>1. /\ main = "close" /\ timedOut' /\ UNCHANGED listener
        /\ \A c \in Conn : /\ conn[c] = "none" => conn'[c] = "none"
                           /\ conn'[c] \in {"none", "closedHandling", "closedQuerying"}
    BY <1>3 DEF CloseServer, IInv, GraceInv, TypeOK
  <2> QED BY <2>1 DEF IInv, ConnInv
<1>4. CASE Exit
  BY <1>4, NobodyWaits DEF Exit, IInv, ConnInv
<1>5. CASE Around
  <2>1. CASE ServeReturns \/ GraceElapses
    BY <2>1 DEF ServeReturns, GraceElapses, IInv, ConnInv, process
  <2>2. CASE AcceptFails
    BY <2>2 DEF AcceptFails, IInv, ConnInv, process
  <2>3. CASE Signal
    <3>1. UNCHANGED <<timedOut, listener, conn>>
      BY <2>3 DEF Signal
    <3>2. CASE main' = main /\ cut' = cut
      BY <3>1, <3>2 DEF IInv, ConnInv
    <3>3. CASE ~notified /\ main' = "killed" /\ cut' = cut \cup Waiting
      <4>1. main \in {"wait"} \cup Leaving
        BY <3>3 DEF IInv, GraceInv
      <4> QED BY <3>1, <3>3, <4>1, NobodyWaits DEF IInv, ConnInv
    <3> QED BY <2>3, <3>2, <3>3 DEF Signal
  <2> QED BY <1>5, <2>1, <2>2, <2>3 DEF Around
<1>6. ASSUME NEW c \in Conn, OnConn(c) PROVE ConnInv'
  <2>1. UNCHANGED <<main, timedOut, listener, cut>>
    BY <1>6, OnConnStep DEF IInv
  <2>2. listener = "open" => main = "serve"
    BY DEF IInv, ListenerInv
  <2> QED BY <1>6, <2>1, <2>2, OnConnStep DEF IInv, ConnInv
<1>7. CASE UNCHANGED vars
  BY <1>7 DEF vars, IInv, ConnInv
<1> QED BY <1>1, <1>2, <1>3, <1>4, <1>5, <1>6, <1>7, NextCases

\* Every way to the deferred calls leaves a result, and that of a clean drain is
\* the only success.
LEMMA ResultStep == IInv /\ [Next]_vars => ResultInv'
<1> SUFFICES ASSUME IInv, [Next]_vars PROVE ResultInv'
    OBVIOUS
<1> USE DEF IInv, TypeOK, ListenerInv, GraceInv, ResultInv, Starting, Draining,
            Leaving, Ended, process, server
<1>1. CASE Quick
  <2>1. CASE ConnectDatabase \/ MigrateSchema \/ Listen
    BY <2>1 DEF ConnectDatabase, MigrateSchema, Listen
  <2>2. CASE ServerStopped \/ BeginShutdown \/ DrainTimeout
    BY <2>2 DEF ServerStopped, BeginShutdown, DrainTimeout
  <2>3. CASE WaitForServe
    BY <2>3 DEF WaitForServe
  <2>4. CASE ClosePool \/ PoolClosed \/ StopNotify
    BY <2>4 DEF ClosePool, PoolClosed, StopNotify
  <2> QED BY <1>1, <2>1, <2>2, <2>3, <2>4 DEF Quick
<1>2. CASE Drain \/ CloseServer \/ Exit
  BY <1>2 DEF Drain, CloseServer, Exit
<1>3. CASE Around
  BY <1>3 DEF Around, ServeReturns, AcceptFails, GraceElapses, Signal
<1>4. ASSUME NEW c \in Conn, OnConn(c) PROVE ResultInv'
  BY <1>4, OnConnStep
<1>5. CASE UNCHANGED vars
  BY <1>5 DEF vars
<1> QED BY <1>1, <1>2, <1>3, <1>4, <1>5, NextCases

\* BeginShutdown starts the timer, and only Serve takes its goroutine's report.
LEMMA HangStep == IInv /\ [Next]_vars => HangInv'
<1> SUFFICES ASSUME IInv, [Next]_vars PROVE HangInv'
    OBVIOUS
<1> USE DEF IInv, TypeOK, ListenerInv, HangInv, Starting, Draining, Ended, process,
            server
<1>1. CASE Quick
  BY <1>1 DEF Quick, ConnectDatabase, MigrateSchema, Listen, ServerStopped,
     BeginShutdown, DrainTimeout, WaitForServe, ClosePool, PoolClosed, StopNotify
<1>2. CASE Drain \/ CloseServer \/ Exit
  BY <1>2 DEF Drain, CloseServer, Exit
<1>3. CASE Around
  BY <1>3 DEF Around, ServeReturns, AcceptFails, GraceElapses, Signal
<1>4. ASSUME NEW c \in Conn, OnConn(c) PROVE HangInv'
  BY <1>4, OnConnStep
<1>5. CASE UNCHANGED vars
  BY <1>5 DEF vars
<1> QED BY <1>1, <1>2, <1>3, <1>4, <1>5, NextCases

-----------------------------------------------------------------------------
(* The theorems                                                            *)

\* The inductive invariant, in whatever order signals, the timer, the listener's
\* end and the handlers come.
THEOREM Invariance == Spec => []IInv
<1>1. Init => IInv
  <2> SUFFICES ASSUME Init PROVE IInv
      OBVIOUS
  <2>1. TypeOK
    <3>1. signals \in 0..MaxSignals
      BY ShutdownAssumption DEF Init
    <3> QED BY <3>1 DEF Init, TypeOK
  <2>2. ListenerInv /\ GraceInv /\ ConnInv /\ ResultInv /\ HangInv
    BY DEF Init, ListenerInv, GraceInv, ConnInv, ResultInv, HangInv, Starting, Draining,
       Leaving, Ended
  <2> QED BY <2>1, <2>2 DEF IInv
<1>2. IInv /\ [Next]_vars => IInv'
  BY TypeStep, ListenerStep, GraceStep, ConnStep, ResultStep, HangStep DEF IInv
<1> QED BY <1>1, <1>2, PTL DEF Spec

\* Every variable of the process stays in its type.
THEOREM TypeCorrect == Spec => []TypeOK
BY Invariance, PTL DEF IInv

\* With a listener that did not break, only a request that outlasts the grace
\* period loses its answer, on however many connections.
THEOREM CutOnlyLateHolds == Spec => []CutOnlyLate
<1>1. IInv => CutOnlyLate
  BY DEF IInv, ConnInv, GraceInv, CutOnlyLate
<1> QED BY <1>1, Invariance, PTL

\* db.Close comes after the last client has its answer or was cut off.
THEOREM PoolOutlivesRequestsHolds == Spec => []PoolOutlivesRequests
<1>1. IInv => PoolOutlivesRequests
  BY NobodyWaits DEF IInv, ResultInv, PoolOutlivesRequests
<1> QED BY <1>1, Invariance, PTL

\* Exit status 0 is the truth: told to stop, all answered, nothing left.
THEOREM CleanExitHolds == Spec => []CleanExit
<1>1. IInv => CleanExit
  BY DEF IInv, TypeOK, ConnInv, ResultInv, CleanExit, Leaving, Ended
<1> QED BY <1>1, Invariance, PTL

-----------------------------------------------------------------------------
(* What SignalStops rests on: wherever the main goroutine waits, something *)
(* that ends its wait is on its way, and it never goes back.               *)

\* The drain waits for the timer too; srv.Serve has a closed listener to return
\* from, or has reported; and the pool waits only for queries that srv.Close
\* cancelled, unless the listener broke.
NothingHangs ==
    /\ main = "drain" => grace \in {"running", "elapsed"}
    /\ main = "wait" /\ serveErr = "empty" => listener = "closed"
    /\ main = "poolWait" /\ listener # "failed" =>
          \A c \in Querying : conn[c] = "closedQuerying"

\* Every wait of a shutdown has an end that does not depend on a client, or on a
\* query that nobody cancels, for any number of connections.
THEOREM NothingHangsHolds == Spec => []NothingHangs
<1>1. IInv => NothingHangs
  BY DEF IInv, TypeOK, ListenerInv, ConnInv, HangInv, NothingHangs, Querying,
     Draining, Leaving
<1> QED BY <1>1, Invariance, PTL

\* How far the main goroutine has come on its way through run.
Stage == CASE main = "connect"   -> 0
           [] main = "migrate"   -> 1
           [] main = "listen"    -> 2
           [] main = "serve"     -> 3
           [] main = "drain"     -> 4
           [] main = "close"     -> 5
           [] main = "wait"      -> 6
           [] main = "closePool" -> 7
           [] main = "poolWait"  -> 8
           [] main = "stop"      -> 9
           [] main = "exit"      -> 10
           [] OTHER              -> 11

\* The main goroutine goes on or stays, a signal stays received, a timer that ran
\* out stays so, and no query begins while the pool is being closed.
OnlyOn ==
    /\ main' = main \/ Stage' > Stage
    /\ cancelled => cancelled'
    /\ grace = "elapsed" => grace' = "elapsed"
    /\ main = "poolWait" => Querying' \subseteq Querying

\* No step of a process undoes what its shutdown has reached.
THEOREM OnlyOnHolds == Spec => [][OnlyOn]_vars
<1>1. IInv /\ [Next]_vars => [OnlyOn]_vars
  <2> SUFFICES ASSUME IInv, [Next]_vars, ~ UNCHANGED vars PROVE OnlyOn
      OBVIOUS
  <2> USE DEF IInv, TypeOK, Ended
  <2>1. CASE Quick
    <3>1. Querying' = Querying
      BY <2>1, QuickStep DEF Querying
    <3>2. main' # main /\ Stage' > Stage
      BY <2>1 DEF Stage, Quick, ConnectDatabase, MigrateSchema, Listen, ServerStopped,
         BeginShutdown, DrainTimeout, WaitForServe, ClosePool, PoolClosed, StopNotify
    <3>3. (cancelled => cancelled') /\ (grace = "elapsed" => grace' = "elapsed")
      BY <2>1 DEF Quick, ConnectDatabase, MigrateSchema, Listen, ServerStopped,
         BeginShutdown, DrainTimeout, WaitForServe, ClosePool, PoolClosed, StopNotify,
         process, server, HangInv, Starting
    <3> QED BY <3>1, <3>2, <3>3 DEF OnlyOn
  <2>2. CASE Drain \/ CloseServer \/ Exit
    BY <2>2 DEF OnlyOn, Stage, Drain, CloseServer, Exit, process
  <2>3. CASE Around
    BY <2>3 DEF OnlyOn, Stage, Around, ServeReturns, AcceptFails, GraceElapses,
       Signal, process, Querying
  <2>4. ASSUME NEW c \in Conn, OnConn(c) PROVE OnlyOn
    <3>1. UNCHANGED <<main, cancelled, grace, pool>>
      BY <2>4, OnConnStep DEF process
    <3>2. main = "poolWait" => Querying' \subseteq Querying
      BY <2>4 DEF Querying, OnConn, Connect, Request, Acquire, Release, Answer,
         Disconnect, QueryCancelled, HandlerGivesUp, Becomes, HangInv
    <3> QED BY <3>1, <3>2 DEF OnlyOn
  <2> QED BY <2>1, <2>2, <2>3, <2>4, NextCases
<1> QED BY <1>1, Invariance, PTL DEF Spec

=============================================================================
