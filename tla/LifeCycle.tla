----------------------------- MODULE LifeCycle -----------------------------
(***************************************************************************)
(* One process of the service from main to its exit: the start-up, the two *)
(* HTTP servers, the signals, and the shutdown, in which a Closer stops    *)
(* the API server while requests are open.  The process is one of a        *)
(* container: docker stop sends SIGINT and, after the grace period,        *)
(* SIGKILL.  No middleware recovers, so a request can also end it.         *)
(***************************************************************************)
EXTENDS Integers, Sequences

CONSTANTS
  Requests,         \* requests that clients may send
  ShutdownTimeout,  \* APP_SHUTDOWN_TIMEOUT, in ticks
  Grace             \* stop_grace_period, in ticks

ASSUME LifeCycleAssumption == ShutdownTimeout \in Nat \ {0} /\ Grace \in Nat \ {0}

VARIABLES
  main,      \* app.Run: a stage of the start-up, "wait", "closing" or "gone"
  end,       \* how the process ended: "exit", "panic", "crash", "signal", "killed"
  logged,    \* what the shutdown wrote to the log
  pool,      \* the database handle that the repositories use is not nil
  ctxDone,   \* the context of signal.NotifyContext has ended
  relay,     \* signals go to that context; else they end the process
  api,       \* the API server: "none", "new", "serving", "failed", "stopping", "over"
  metrics,   \* the metrics server: "none", "up", "over"
  broken,    \* history: servers that ended with an error
  late,      \* history: the API server began to serve after its Stop
  request,   \* per request: "none", "open", "answered", "cut"
  deadline,  \* ticks left to the shutdown, Off before it
  grace,     \* ticks left to SIGKILL, Off without docker stop
  funcs, caller, runner, msgs, complete, expired, answer, returned  \* of Closer

Off == -1

Shutdown == INSTANCE Closer WITH Funcs <- <<"httpServer.Stop">>, ctxDone <- expired

closer  == <<funcs, caller, runner, msgs, complete, expired, answer, returned>>
servers == <<api, metrics, broken, late>>
timers  == <<deadline, grace>>
vars    == <<main, end, logged, pool, ctxDone, relay, servers, request, timers, closer>>

StartUp == <<"config", "connect", "migrate", "reconnect", "boot", "wait">>

TypeOK ==
  /\ main \in {"config", "connect", "migrate", "reconnect", "boot", "wait", "closing", "gone"}
  /\ end \in {"", "exit", "panic", "crash", "signal", "killed"}
  /\ logged \in {"", "Fatal", "Closer", "Shutdown success"}
  /\ pool \in BOOLEAN /\ ctxDone \in BOOLEAN /\ relay \in BOOLEAN /\ late \in BOOLEAN
  /\ api \in {"none", "new", "serving", "failed", "stopping", "over"}
  /\ metrics \in {"none", "up", "over"} /\ broken \subseteq {"api", "metrics"}
  /\ request \in [Requests -> {"none", "open", "answered", "cut"}]
  /\ deadline \in Off .. ShutdownTimeout /\ grace \in Off .. Grace
  /\ Shutdown!TypeOK

Init ==
  /\ main = "config" /\ end = "" /\ logged = "" /\ pool = FALSE
  /\ ctxDone = FALSE /\ relay = TRUE
  /\ api = "none" /\ metrics = "none" /\ broken = {} /\ late = FALSE
  /\ request = [r \in Requests |-> "none"]
  /\ deadline = Off /\ grace = Off
  /\ Shutdown!Init

Alive == main # "gone"

\* The process is gone, and with it the requests it has not answered.
Ends(how) ==
  /\ main' = "gone" /\ end' = how
  /\ request' = [r \in Requests |-> IF request[r] = "open" THEN "cut" ELSE request[r]]
  /\ UNCHANGED <<pool, ctxDone, relay, servers, timers, closer>>

-----------------------------------------------------------------------------
(* app.Run up to the wait for its context.                                 *)

Stage == CHOOSE k \in 1 .. 5 : StartUp[k] = main
Starting == \E k \in 1 .. 5 : StartUp[k] = main

\* The stages in order: config.Get, NewPostgres, RunMigrations, NewPostgres
\* again, and the services; the last stage starts the two servers.
StartUpStep ==
  /\ Starting
  /\ main' = StartUp[Stage + 1]
  /\ pool' = (pool \/ main = "reconnect")
  /\ IF main = "boot" THEN api' = "new" /\ metrics' = "up" ELSE UNCHANGED <<api, metrics>>
  /\ UNCHANGED <<end, logged, ctxDone, relay, broken, late, request, timers, closer>>

\* log.Fatal: the process ends, its deferred functions do not run.
StartUpFails ==
  /\ main \in {"config", "connect", "migrate"}
  /\ logged' = "Fatal"
  /\ Ends("exit")

\* The error of the second NewPostgres is not checked: NewAuthRepo panics on
\* its nil result, and main's deferred os.Exit ends the process before the
\* panic is printed.  If NewAuthRepo bore the nil, the start-up would go on.
GoesOnWithoutPool ==
  /\ main' = "boot"
  /\ UNCHANGED <<end, logged, pool, ctxDone, relay, servers, request, timers, closer>>
PanicsWithoutPool == UNCHANGED logged /\ Ends("panic")

ReconnectFails == main = "reconnect" /\ PanicsWithoutPool

-----------------------------------------------------------------------------
(* The servers.                                                            *)

\* The goroutine of a server that ended with an error calls stop, which ends
\* the context and restores the default action of the signals.  Without the
\* test of the error a stopped server would call it too.
StopsAnyway(err) == ctxDone' = TRUE /\ relay' = FALSE
GoroutineOver(err) ==
  IF err THEN ctxDone' = TRUE /\ relay' = FALSE ELSE UNCHANGED <<ctxDone, relay>>

\* Listen: the port is bound, also after a Stop that found nothing to stop.
Listen ==
  /\ Alive /\ api = "new"
  /\ api' = "serving" /\ late' = (returned # <<>>)
  /\ UNCHANGED <<main, end, logged, pool, ctxDone, relay, metrics, broken, request, timers, closer>>

\* Listen returns an error: the port is not bound, or is lost while requests
\* are open, which go on.
ListenFails ==
  /\ Alive
  /\ \/ api = "new" /\ api' = "over"
     \/ api = "serving" /\ api' = "failed"
  /\ broken' = broken \cup {"api"}
  /\ GoroutineOver(TRUE)
  /\ UNCHANGED <<main, end, logged, pool, metrics, late, request, timers, closer>>

MetricsFail ==
  /\ Alive /\ metrics = "up"
  /\ metrics' = "over" /\ broken' = broken \cup {"metrics"}
  /\ GoroutineOver(TRUE)
  /\ UNCHANGED <<main, end, logged, pool, api, late, request, timers, closer>>

Accept(r) ==
  /\ Alive /\ api = "serving" /\ request[r] = "none"
  /\ request' = [request EXCEPT ![r] = "open"]
  /\ UNCHANGED <<main, end, logged, pool, ctxDone, relay, servers, timers, closer>>

Answer(r) ==
  /\ Alive /\ request[r] = "open"
  /\ request' = [request EXCEPT ![r] = "answered"]
  /\ UNCHANGED <<main, end, logged, pool, ctxDone, relay, servers, timers, closer>>

\* The handler of a request panics, or the runtime finds a map read while it is
\* written: the process ends at once, with every other open request.
Crash(r) ==
  /\ Alive /\ request[r] = "open"
  /\ UNCHANGED logged /\ Ends("crash")

-----------------------------------------------------------------------------
(* Signals and time.                                                       *)

\* An operator's or docker's SIGINT, SIGTERM or SIGQUIT.  It is received in
\* the start-up too, but nothing looks at the context before the wait.
Signalled ==
  IF relay
  THEN /\ ctxDone' = TRUE
       /\ UNCHANGED <<main, end, logged, pool, relay, servers, request, deadline, closer>>
  ELSE /\ main' = "gone" /\ end' = "signal"
       /\ request' = [r \in Requests |-> IF request[r] = "open" THEN "cut" ELSE request[r]]
       /\ UNCHANGED <<logged, pool, ctxDone, relay, servers, deadline, closer>>

Signal     == Alive /\ Signalled /\ UNCHANGED grace
DockerStop == Alive /\ grace = Off /\ Signalled /\ grace' = Grace

Kill == Alive /\ grace = 0 /\ UNCHANGED logged /\ Ends("killed")

\* Starting the shutdown and the kill at the end of the grace take no time.
Waking == main = "wait" /\ ctxDone
Elapsed(t) == t - 1
Passed(t)  == IF t > 0 THEN t - 1 ELSE t

Tick ==
  /\ Alive /\ ~ Waking /\ grace # 0
  /\ deadline > 0 \/ grace > 0
  /\ deadline' = Passed(deadline) /\ grace' = Passed(grace)
  /\ expired' = (expired \/ deadline' = 0)
  /\ UNCHANGED <<main, end, logged, pool, ctxDone, relay, servers, request,
                 funcs, caller, runner, msgs, complete, answer, returned>>

-----------------------------------------------------------------------------
(* The shutdown.                                                           *)

unmoved == <<end, pool, ctxDone, relay, metrics, broken, late, request, grace>>

AddStop ==
  /\ Waking /\ Shutdown!Add
  /\ UNCHANGED <<main, logged, api, deadline, unmoved>>

\* WithTimeout of the background context; of the ended one it would be over
\* at once, and of the background context itself never.
TimeoutOfEnded == deadline' = ShutdownTimeout /\ expired' = TRUE
NoTimeout      == UNCHANGED <<deadline, expired>>
TimeoutOfNew   == deadline' = ShutdownTimeout /\ UNCHANGED expired

BeginShutdown ==
  /\ Waking /\ caller = "adding" /\ funcs = <<"httpServer.Stop">>
  /\ main' = "closing" /\ TimeoutOfNew
  /\ caller' = "select" /\ runner' = "next"
  /\ UNCHANGED <<logged, api, unmoved, funcs, msgs, complete, answer, returned>>

Inside(action) ==
  /\ main = "closing" /\ action
  /\ UNCHANGED <<main, logged, api, deadline, unmoved>>

\* httpServer.Stop: a server that does not listen yet, or never did, has nothing
\* to stop; one that does accepts no more, and Stop waits for its open requests.
StopFindsNothing ==
  /\ main = "closing" /\ api \notin {"serving", "failed", "stopping"}
  /\ Shutdown!Return("nil")
  /\ UNCHANGED <<main, logged, api, deadline, unmoved>>

StopListening ==
  /\ main = "closing" /\ runner = "call" /\ api \in {"serving", "failed"}
  /\ api' = "stopping"
  /\ UNCHANGED <<main, logged, deadline, unmoved, closer>>

NoDrain == TRUE
Drained == \A r \in Requests : request[r] # "open"

\* Listen returns nil once its server is stopped.
StopDone ==
  /\ main = "closing" /\ api = "stopping" /\ Drained
  /\ Shutdown!Return("nil")
  /\ api' = "over" /\ GoroutineOver(FALSE)
  /\ UNCHANGED <<main, logged, deadline, end, pool, metrics, broken, late, request, grace>>

\* The context ends first.
StopLate ==
  /\ main = "closing" /\ api = "stopping" /\ expired
  /\ Shutdown!Return("error")
  /\ api' = "over" /\ GoroutineOver(FALSE)
  /\ UNCHANGED <<main, logged, deadline, end, pool, metrics, broken, late, request, grace>>

LogShutdown ==
  /\ main = "closing" /\ caller = "returned" /\ logged = ""
  /\ logged' = IF answer = "nil" THEN "Shutdown success" ELSE "Closer"
  /\ UNCHANGED <<main, api, deadline, unmoved, closer>>

Exit == main = "closing" /\ logged # "" /\ UNCHANGED logged /\ Ends("exit")

-----------------------------------------------------------------------------

Start == StartUpStep \/ StartUpFails \/ ReconnectFails

\* The steps of the goroutine that main's exit leaves no time for.
Close ==
  \/ AddStop \/ BeginShutdown
  \/ Inside(Shutdown!Runner) \/ Inside(Shutdown!Caller)
  \/ LogShutdown \/ Exit

Stop == StopFindsNothing \/ StopListening \/ StopDone \/ StopLate

Next ==
  \/ Start \/ Close \/ Stop
  \/ Listen \/ ListenFails \/ MetricsFail
  \/ \E r \in Requests : Accept(r) \/ Answer(r) \/ Crash(r)
  \/ Signal \/ DockerStop \/ Kill \/ Tick

Spec == Init /\ [][Next]_vars

\* The statements of the start-up are answered or fail, main and time go on,
\* and docker keeps its word.  Requests need not end.
FairSpec ==
  Spec /\ WF_vars(Start) /\ WF_vars(Close) /\ WF_vars(Tick) /\ WF_vars(Kill)

-----------------------------------------------------------------------------
(* Properties.                                                             *)

Cut == \E r \in Requests : request[r] = "cut"

\* No request is accepted before the repositories have a database handle.
ServedWithPool == \A r \in Requests : request[r] # "none" => pool

\* "Shutdown success" is written only when every request was answered, and
\* none is lost after it, unless the server began to listen after its Stop.
SuccessDrained ==
  logged = "Shutdown success" /\ ~ late => \A r \in Requests : request[r] \notin {"open", "cut"}

\* Nothing but these loses an accepted request: a shutdown that ran to its end
\* and gave the request the whole of ShutdownTimeout, but for a server that
\* began to listen after its Stop, whose requests get no time at all; a crash,
\* at any moment; docker's SIGKILL at the end of the grace period, whether the
\* timeout was over or not; and a signal after a server had failed.
CutOnlyBy ==
  Cut =>
    \/ end = "exit" /\ (deadline = 0 \/ late)
    \/ end = "crash"
    \/ end = "killed" /\ grace = 0
    \/ end = "signal" /\ broken # {}

\* However many signals come, they end the process outright only if one of
\* its servers had failed: a graceful shutdown is not cut short by another.
SignalsAreGraceful == end = "signal" => broken # {}

\* One signal at any moment, the start-up included, ends the process, though
\* requests never end and docker sends no SIGKILL after it; and so does the
\* loss of one of its servers, without which it must not live on.
SignalEndsProcess == ctxDone \/ broken # {} ~> ~ Alive

=============================================================================
