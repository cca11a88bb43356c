-------------------------- MODULE LifeCycleProofs --------------------------
(***************************************************************************)
(* What the life of one process guarantees for every set of requests and   *)
(* every pair of timeouts.  The inductive invariant has four layers: the   *)
(* types (Typed); how far Close and its goroutine have come (Stopping);    *)
(* what each stage of the process has behind it (Staged); and what the     *)
(* Stop of the API server has left of the requests (Served).               *)
(***************************************************************************)
EXTENDS LifeCycle, SequenceTheorems, TLAPS

Stops == "httpServer.Stop"

ServiceTyped ==
  /\ main \in {"config", "connect", "migrate", "reconnect", "boot", "wait", "closing", "gone"}
  /\ end \in {"", "exit", "panic", "crash", "signal", "killed"}
  /\ logged \in {"", "Fatal", "Closer", "Shutdown success"}
  /\ pool \in BOOLEAN /\ ctxDone \in BOOLEAN /\ relay \in BOOLEAN /\ late \in BOOLEAN
  /\ api \in {"none", "new", "serving", "failed", "stopping", "over"}
  /\ metrics \in {"none", "up", "over"} /\ broken \subseteq {"api", "metrics"}
  /\ request \in [Requests -> {"none", "open", "answered", "cut"}]
  /\ deadline \in Off .. ShutdownTimeout /\ grace \in Off .. Grace

CloserTyped ==
  /\ funcs \in {<<>>, <<Stops>>}
  /\ caller \in {"adding", "select", "join", "returned"}
  /\ runner \in {"none", "next", "call", "done"}
  /\ msgs \in {<<>>, <<Stops>>}
  /\ complete \in {0, 1} /\ expired \in BOOLEAN
  /\ answer \in {"none", "nil", "errors", "cancelled"}
  /\ returned \in {<<>>, <<"none">>, <<"nil">>, <<"error">>}

Typed == ServiceTyped /\ CloserTyped

\* Close and its goroutine: the one function is called once, its result and
\* msgs agree, and the answer is the result, or the deadline's.
Stopping ==
  /\ caller = "adding" <=> runner = "none"
  /\ runner # "none" => funcs = <<Stops>>
  /\ runner = "none" => returned = <<>> /\ complete = 0 /\ deadline = Off
  /\ runner = "call" <=> returned = <<"none">>
  /\ runner = "done" => returned # <<>>
  /\ msgs = <<>> <=> returned # <<"error">>
  /\ complete = 1 \/ caller = "join" => runner = "done"
  /\ caller = "returned" <=> answer # "none"
  /\ answer = "nil" => returned = <<"nil">>
  /\ answer = "errors" => returned = <<"error">>
  /\ answer = "cancelled" \/ returned = <<"error">> => expired
  /\ expired => deadline = 0

\* What each stage of the process has behind it.
Staged ==
  /\ main = "gone" <=> end # ""
  /\ main # "gone" => (main = "closing" <=> caller # "adding")
  /\ main \in {"config", "connect", "migrate", "reconnect", "boot"} => api = "none"
  /\ main \in {"boot", "wait", "closing"} \/ api # "none" => pool
  /\ logged # "" /\ main # "gone" => answer # "none"
  /\ logged = "Shutdown success" => answer = "nil"
  /\ relay \/ broken # {}
  /\ end = "signal" => broken # {}
  /\ end = "killed" => grace = 0

\* The requests: they come to an API server that listens and are cut by the
\* end of the process only, and by none in the start-up; a Stop that returned
\* nil, of a server that was not late, has left none open.
Served ==
  /\ api \in {"none", "new"} => \A r \in Requests : request[r] = "none"
  /\ api = "over" /\ returned \in {<<>>, <<"none">>} => \A r \in Requests : request[r] = "none"
  /\ api = "stopping" => runner = "call"
  /\ main # "gone" => \A r \in Requests : request[r] # "cut"
  /\ returned = <<"nil">> /\ ~ late =>
       /\ api \in {"none", "new", "over"}
       /\ \A r \in Requests : request[r] \in {"none", "answered"}
  /\ end = "exit" /\ (\E r \in Requests : request[r] = "cut") => deadline = 0 \/ late
  /\ end = "panic" => \A r \in Requests : request[r] # "cut"

IInv == Typed /\ Stopping /\ Staged /\ Served

-----------------------------------------------------------------------------
(* What the parts of Close do, with the one function that app.Run adds.    *)

LEMMA AddEffect ==
  ASSUME CloserTyped, Shutdown!Add
  PROVE  /\ caller = "adding" /\ funcs' = <<Stops>>
         /\ UNCHANGED <<caller, runner, msgs, complete, expired, answer, returned>>
<1>1. Len(<<Stops>>) = 1 /\ <<Stops>>[0 + 1] = Stops /\ Append(<<>>, Stops) = <<Stops>>
  OBVIOUS
<1>2. funcs # <<Stops>>
  BY <1>1 DEF Shutdown!Add, Stops
<1>3. funcs = <<>> /\ Len(funcs) = 0
  BY <1>2 DEF CloserTyped
<1>4. QED
  BY <1>1, <1>3 DEF Shutdown!Add, Stops

LEMMA CallEffect ==
  ASSUME CloserTyped, Stopping, Shutdown!Call
  PROVE  /\ runner = "next" /\ returned = <<>>
         /\ runner' = "call" /\ returned' = <<"none">>
         /\ UNCHANGED <<funcs, caller, msgs, complete, expired, answer>>
<1>1. /\ Len(<<Stops>>) = 1 /\ Append(<<>>, "none") = <<"none">>
      /\ Len(<<"none">>) = 1 /\ Len(<<"nil">>) = 1 /\ Len(<<"error">>) = 1
  OBVIOUS
<1>2. funcs = <<Stops>> /\ runner = "next" /\ Len(returned) < 1
  BY <1>1 DEF Stopping, Shutdown!Call, Shutdown!Left, Shutdown!Called
<1>3. returned = <<>>
  BY <1>1, <1>2 DEF CloserTyped
<1>4. QED
  BY <1>1, <1>2, <1>3 DEF Shutdown!Call

LEMMA ReturnEffect ==
  ASSUME CloserTyped, Stopping, NEW result \in {"nil", "error"}, Shutdown!Return(result)
  PROVE  /\ runner = "call" /\ returned = <<"none">>
         /\ runner' = "next" /\ returned' = <<result>>
         /\ msgs' = IF result = "nil" THEN <<>> ELSE <<Stops>>
         /\ UNCHANGED <<funcs, caller, complete, expired, answer>>
<1>1. /\ Len(<<"none">>) = 1 /\ [<<"none">> EXCEPT ![1] = result] = <<result>>
      /\ <<Stops>>[1] = Stops /\ Append(<<>>, Stops) = <<Stops>>
  OBVIOUS
<1>2. runner = "call" /\ returned = <<"none">> /\ funcs = <<Stops>> /\ Shutdown!Called = 1
  BY <1>1 DEF Stopping, Shutdown!Return, Shutdown!Called
<1>3. msgs = <<>>
  BY <1>2 DEF Stopping
<1>4. QED
  BY <1>1, <1>2, <1>3 DEF Shutdown!Return, Shutdown!Noted

LEMMA SendEffect ==
  ASSUME CloserTyped, Stopping, Shutdown!Send
  PROVE  /\ runner = "next" /\ returned # <<>>
         /\ runner' = "done" /\ complete' = 1
         /\ UNCHANGED <<funcs, caller, msgs, expired, answer, returned>>
<1>1. Len(<<Stops>>) = 1 /\ Len(<<>>) = 0
  OBVIOUS
<1>2. funcs = <<Stops>> /\ runner = "next" /\ ~ (Len(returned) < 1)
  BY <1>1 DEF Stopping, Shutdown!Send, Shutdown!Left, Shutdown!Called
<1>3. returned # <<>> /\ complete = 0
  BY <1>1, <1>2 DEF CloserTyped, Shutdown!Send, Shutdown!HasRoom
<1>4. QED
  BY <1>2, <1>3 DEF Shutdown!Send

LEMMA CallerEffect ==
  ASSUME CloserTyped, Stopping, Shutdown!Caller
  PROVE  /\ caller \in {"select", "join"}
         /\ UNCHANGED <<funcs, runner, msgs, expired, returned>>
         /\ \/ caller' = "join" /\ complete = 1 /\ complete' = 0 /\ answer' = answer
            \/ /\ caller' = "returned" /\ complete' = complete
               /\ \/ answer' = "cancelled" /\ expired
                  \/ /\ caller = "join"
                     /\ answer' = IF msgs = <<>> THEN "nil" ELSE "errors"
BY DEF CloserTyped, Shutdown!Caller, Shutdown!Receive, Shutdown!Cancel, Shutdown!GivesUp, Shutdown!Join

-----------------------------------------------------------------------------
(* The layers are an invariant.                                            *)

LEMMA Bounds ==
  /\ ShutdownTimeout \in Nat \ {0} /\ Grace \in Nat \ {0}
  /\ Off \in Off .. ShutdownTimeout /\ ShutdownTimeout \in Off .. ShutdownTimeout
  /\ Off \in Off .. Grace /\ Grace \in Off .. Grace
  /\ ShutdownTimeout # 0 /\ Off # 0
BY LifeCycleAssumption DEF Off

LEMMA InitInv ==
  ASSUME Init
  PROVE  IInv
<1>1. ServiceTyped
  <2>1. request \in [Requests -> {"none", "open", "answered", "cut"}]
    BY DEF Init
  <2>2. /\ main = "config" /\ end = "" /\ logged = "" /\ api = "none" /\ metrics = "none"
        /\ broken = {} /\ deadline = Off /\ grace = Off
        /\ pool = FALSE /\ ctxDone = FALSE /\ relay = TRUE /\ late = FALSE
    BY DEF Init
  <2>3. deadline \in Off .. ShutdownTimeout /\ grace \in Off .. Grace
    BY <2>2, Bounds
  <2>4. QED
    BY <2>1, <2>2, <2>3 DEF ServiceTyped
<1>2. CloserTyped /\ Stopping
  <2>1. <<>> # <<"none">> /\ <<>> # <<"error">>
    OBVIOUS
  <2>2. CloserTyped
    BY DEF Init, Shutdown!Init, CloserTyped
  <2>3. Stopping
    <3>1. /\ caller = "adding" /\ runner = "none" /\ msgs = <<>> /\ complete = 0
          /\ expired = FALSE /\ answer = "none" /\ returned = <<>> /\ deadline = Off
      BY DEF Init, Shutdown!Init
    <3>2. returned # <<"none">> /\ returned # <<"error">>
      BY <2>1, <3>1
    <3>3. QED
      BY <3>1, <3>2 DEF Stopping
  <2>4. QED
    BY <2>2, <2>3
<1>3. Staged /\ Served
  BY DEF Init, Shutdown!Init, Staged, Served
<1>4. QED
  BY <1>1, <1>2, <1>3 DEF IInv, Typed

\* The end of the process, whatever the reason, cuts the open requests.
LEMMA DiesInv ==
  ASSUME IInv, Alive, NEW how \in {"exit", "panic", "crash", "signal", "killed"},
         main' = "gone", end' = how,
         request' = [r \in Requests |-> IF request[r] = "open" THEN "cut" ELSE request[r]],
         UNCHANGED <<pool, ctxDone, relay, servers, deadline, closer>>,
         logged' \in {logged, "Fatal"}, grace' \in Off .. Grace,
         how = "signal" => broken # {}, how = "killed" => grace' = 0,
         how = "panic" => \A r \in Requests : request[r] # "open",
         how = "exit" /\ (\E r \in Requests : request[r] = "open") => deadline = 0 \/ late
  PROVE  IInv'
<1>1. /\ UNCHANGED <<api, metrics, broken, late>> /\ UNCHANGED closer
      /\ UNCHANGED <<funcs, caller, runner, msgs, complete, expired, answer, returned>>
  BY DEF servers, closer
<1>2. request \in [Requests -> {"none", "open", "answered", "cut"}]
      /\ request' \in [Requests -> {"none", "open", "answered", "cut"}]
      /\ \A r \in Requests : request'[r] = IF request[r] = "open" THEN "cut" ELSE request[r]
  BY DEF IInv, Typed, ServiceTyped
<1>3. ServiceTyped'
  <2>1. /\ logged' \in {"", "Fatal", "Closer", "Shutdown success"}
        /\ pool' \in BOOLEAN /\ ctxDone' \in BOOLEAN /\ relay' \in BOOLEAN /\ late' \in BOOLEAN
    BY <1>1 DEF IInv, Typed, ServiceTyped
  <2>2. /\ api' \in {"none", "new", "serving", "failed", "stopping", "over"}
        /\ metrics' \in {"none", "up", "over"} /\ broken' \subseteq {"api", "metrics"}
        /\ deadline' \in Off .. ShutdownTimeout
    BY <1>1 DEF IInv, Typed, ServiceTyped
  <2>3. QED
    BY <1>2, <2>1, <2>2 DEF ServiceTyped
<1>4. CloserTyped' /\ Stopping'
  BY <1>1 DEF IInv, Typed, CloserTyped, Stopping
<1>5. Staged'
  BY <1>1 DEF IInv, Typed, ServiceTyped, Staged
<1>6. Served'
  <2>1. main # "gone" /\ \A r \in Requests : request[r] # "cut"
    BY DEF IInv, Served, Alive
  <2>2. \A r \in Requests : request'[r] = "cut" => request[r] = "open"
    BY <1>2, <2>1
  <2>3. /\ end' = "exit" /\ (\E r \in Requests : request'[r] = "cut") => deadline' = 0 \/ late'
        /\ end' = "panic" => \A r \in Requests : request'[r] # "cut"
    BY <1>1, <2>2
  <2>4. \A r \in Requests : request[r] = "none" => request'[r] = "none"
    BY <1>2
  <2>5. \A r \in Requests : request[r] \in {"none", "answered"} => request'[r] \in {"none", "answered"}
    BY <1>2
  <2>6. QED
    BY <1>1, <2>3, <2>4, <2>5 DEF IInv, Served
<1>7. QED
  BY <1>3, <1>4, <1>5, <1>6 DEF IInv, Typed

LEMMA EndsInv ==
  ASSUME IInv, Alive, NEW how \in {"exit", "panic", "crash", "killed"}, Ends(how),
         logged' \in {logged, "Fatal"}, how = "killed" => grace = 0,
         how = "panic" => \A r \in Requests : request[r] # "open",
         how = "exit" /\ (\E r \in Requests : request[r] = "open") => deadline = 0 \/ late
  PROVE  IInv'
<1>1. UNCHANGED <<pool, ctxDone, relay, servers, deadline, grace, closer>>
      /\ main' = "gone" /\ end' = how
      /\ request' = [r \in Requests |-> IF request[r] = "open" THEN "cut" ELSE request[r]]
  BY DEF Ends, timers
<1>2. grace' \in Off .. Grace
  BY <1>1 DEF IInv, Typed, ServiceTyped
<1>3. QED
  BY <1>1, <1>2, DiesInv

LEMMA StartInv ==
  ASSUME IInv, Start
  PROVE  IInv'
<1>1. CASE StartUpStep
  <2>1. main \in {"config", "connect", "migrate", "reconnect", "boot"}
    BY <1>1 DEF StartUpStep, Starting, StartUp
  <2>2. \/ main = "config" /\ main' = "connect"
        \/ main = "connect" /\ main' = "migrate"
        \/ main = "migrate" /\ main' = "reconnect"
        \/ main = "reconnect" /\ main' = "boot"
        \/ main = "boot" /\ main' = "wait"
    <3>1. PICK k \in 1 .. 5 : StartUp[k] = main
      BY <1>1 DEF StartUpStep, Starting
    <3>2. Stage \in 1 .. 5 /\ StartUp[Stage] = main /\ main' = StartUp[Stage + 1]
      BY <1>1, <3>1 DEF StartUpStep, Stage
    <3>3. QED
      <4>1. /\ StartUp[1] = "config" /\ StartUp[2] = "connect" /\ StartUp[3] = "migrate"
            /\ StartUp[4] = "reconnect" /\ StartUp[5] = "boot" /\ StartUp[6] = "wait"
        BY DEF StartUp
      <4>2. Stage = 1 \/ Stage = 2 \/ Stage = 3 \/ Stage = 4 \/ Stage = 5
        BY <3>2
      <4>3. \/ Stage = 1 /\ Stage + 1 = 2
            \/ Stage = 2 /\ Stage + 1 = 3
            \/ Stage = 3 /\ Stage + 1 = 4
            \/ Stage = 4 /\ Stage + 1 = 5
            \/ Stage = 5 /\ Stage + 1 = 6
        BY <4>2
      <4>4. QED
        BY <3>2, <4>1, <4>3, Zenon
  <2>3. /\ pool' = (pool \/ main = "reconnect") /\ api = "none"
        /\ IF main = "boot" THEN api' = "new" /\ metrics' = "up" ELSE UNCHANGED <<api, metrics>>
        /\ UNCHANGED <<end, logged, ctxDone, relay, broken, late, request, deadline, grace>>
        /\ UNCHANGED <<funcs, caller, runner, msgs, complete, expired, answer, returned>>
    BY <1>1, <2>1 DEF StartUpStep, timers, closer, IInv, Staged
  <2>4. ServiceTyped'
    <3>1. main' \in {"connect", "migrate", "reconnect", "boot", "wait"}
      BY <2>2
    <3>2. pool' \in BOOLEAN
      BY <2>3
    <3>3. api' \in {"none", "new"} /\ metrics' \in {metrics, "up"}
      <4>1. CASE main = "boot"
        BY <2>3, <4>1
      <4>2. CASE main # "boot"
        BY <2>3, <4>2
      <4>3. QED
        BY <4>1, <4>2
    <3>4. UNCHANGED <<end, logged, ctxDone, relay, broken, late, request, deadline, grace>>
      BY <2>3
    <3>5. ServiceTyped
      BY DEF IInv, Typed
    <3>6. /\ end' \in {"", "exit", "panic", "crash", "signal", "killed"}
          /\ logged' \in {"", "Fatal", "Closer", "Shutdown success"}
          /\ ctxDone' \in BOOLEAN /\ relay' \in BOOLEAN /\ late' \in BOOLEAN
          /\ broken' \subseteq {"api", "metrics"}
      BY <3>4, <3>5 DEF ServiceTyped
    <3>7. /\ request' \in [Requests -> {"none", "open", "answered", "cut"}]
          /\ deadline' \in Off .. ShutdownTimeout /\ grace' \in Off .. Grace
          /\ metrics' \in {"none", "up", "over"}
      BY <3>3, <3>4, <3>5 DEF ServiceTyped
    <3>8. QED
      BY <3>1, <3>2, <3>3, <3>6, <3>7 DEF ServiceTyped
  <2>5. CloserTyped' /\ Stopping'
    BY <2>3 DEF IInv, Typed, CloserTyped, Stopping
  <2>6. Staged'
    BY <2>2, <2>3 DEF IInv, Staged
  <2>7. Served'
    BY <2>1, <2>2, <2>3 DEF IInv, Served
  <2>8. QED
    BY <2>4, <2>5, <2>6, <2>7 DEF IInv, Typed
<1>2. CASE StartUpFails
  <2>1. Alive /\ \A r \in Requests : request[r] = "none"
    BY <1>2 DEF StartUpFails, Alive, IInv, Staged, Served
  <2>2. QED
    BY <1>2, <2>1, EndsInv DEF StartUpFails
<1>3. CASE ReconnectFails
  <2>1. Alive /\ \A r \in Requests : request[r] = "none"
    BY <1>3 DEF ReconnectFails, Alive, IInv, Staged, Served
  <2>2. QED
    BY <1>3, <2>1, EndsInv DEF ReconnectFails, PanicsWithoutPool
<1>4. QED
  BY <1>1, <1>2, <1>3 DEF Start

\* What is left to show of the types when main goes on.
LEMMA TypedStays ==
  ASSUME ServiceTyped, UNCHANGED <<end, pool>>,
         main' \in {main, "closing"}, logged' \in {logged, "Closer", "Shutdown success"},
         late' \in BOOLEAN, ctxDone' \in BOOLEAN, relay' \in BOOLEAN,
         api' \in {"none", "new", "serving", "failed", "stopping", "over"},
         metrics' \in {"none", "up", "over"}, broken' \subseteq {"api", "metrics"},
         request' \in [Requests -> {"none", "open", "answered", "cut"}],
         deadline' \in Off .. ShutdownTimeout, grace' \in Off .. Grace
  PROVE  ServiceTyped'
BY DEF ServiceTyped

LEMMA TypesOf ==
  ASSUME IInv
  PROVE  /\ ServiceTyped /\ CloserTyped
         /\ late \in BOOLEAN /\ ctxDone \in BOOLEAN /\ relay \in BOOLEAN
         /\ api \in {"none", "new", "serving", "failed", "stopping", "over"}
         /\ metrics \in {"none", "up", "over"} /\ broken \subseteq {"api", "metrics"}
         /\ request \in [Requests -> {"none", "open", "answered", "cut"}]
         /\ deadline \in Off .. ShutdownTimeout /\ grace \in Off .. Grace
BY DEF IInv, Typed, ServiceTyped

\* The servers and the requests; nothing of Close moves.
LEMMA ServersInv ==
  ASSUME IInv,
         \/ Listen \/ ListenFails \/ MetricsFail
         \/ \E r \in Requests : Accept(r) \/ Answer(r)
  PROVE  IInv'
<1>1. /\ UNCHANGED <<main, end, logged, pool, deadline, grace>> /\ main # "gone" /\ end = ""
      /\ UNCHANGED <<funcs, caller, runner, msgs, complete, expired, answer, returned>>
  BY DEF IInv, Staged, Listen, ListenFails, MetricsFail, Accept, Answer, Alive, timers, closer
<1>2. CloserTyped' /\ Stopping'
  BY <1>1 DEF IInv, Typed, CloserTyped, Stopping
<1>3. CASE Listen
  <2>1. /\ api = "new" /\ api' = "serving" /\ late' = (returned # <<>>)
        /\ UNCHANGED <<ctxDone, relay, metrics, broken, request>>
    BY <1>3 DEF Listen
  <2>2. ServiceTyped' /\ Staged'
    <3>1. late' \in BOOLEAN
      BY <2>1
    <3>2. ServiceTyped'
      BY <1>1, <2>1, <3>1, TypesOf, TypedStays
    <3>3. QED
      BY <1>1, <2>1, <3>2 DEF IInv, Staged
  <2>3. returned' = <<"nil">> => late'
    <3>1. <<"nil">> # <<>>
      OBVIOUS
    <3>2. QED
      BY <1>1, <2>1, <3>1
  <2>4. Served'
    BY <1>1, <2>1, <2>3 DEF IInv, Served
  <2>5. QED
    BY <1>2, <2>2, <2>4 DEF IInv, Typed
<1>4. CASE ListenFails \/ MetricsFail
  <2>1. /\ \/ api = "new" /\ api' = "over" /\ metrics' = metrics
           \/ api = "serving" /\ api' = "failed" /\ metrics' = metrics
           \/ api' = api /\ metrics' = "over"
        /\ broken' \subseteq broken \cup {"api", "metrics"} /\ broken' # {}
        /\ ctxDone' = TRUE /\ relay' = FALSE /\ UNCHANGED <<late, request>>
    BY <1>4 DEF ListenFails, MetricsFail, GoroutineOver
  <2>2. ServiceTyped'
    BY <1>1, <2>1, TypesOf, TypedStays
  <2>3. Staged'
    BY <1>1, <2>1 DEF IInv, Staged
  <2>4. Served'
    BY <1>1, <2>1 DEF IInv, Served
  <2>5. QED
    BY <1>2, <2>2, <2>3, <2>4 DEF IInv, Typed
<1>5. ASSUME NEW r \in Requests, Accept(r) \/ Answer(r) PROVE IInv'
  <2>1. UNCHANGED <<ctxDone, relay, api, metrics, broken, late>>
    BY <1>5 DEF Accept, Answer, servers
  <2>2. /\ request \in [Requests -> {"none", "open", "answered", "cut"}]
        /\ \A s \in Requests : request[s] # "cut"
    BY <1>1 DEF IInv, Typed, ServiceTyped, Served
  <2>3. \/ api = "serving" /\ request' = [request EXCEPT ![r] = "open"]
        \/ request[r] = "open" /\ request' = [request EXCEPT ![r] = "answered"]
    BY <1>5 DEF Accept, Answer
  <2>4. /\ request' \in [Requests -> {"none", "open", "answered", "cut"}]
        /\ \A s \in Requests : s # r => request'[s] = request[s]
        /\ \/ api = "serving" /\ request'[r] = "open"
           \/ request[r] = "open" /\ request'[r] = "answered"
    BY <2>2, <2>3
  <2>5. ServiceTyped' /\ Staged'
    <3>1. ServiceTyped'
      BY <1>1, <2>1, <2>4, TypesOf, TypedStays
    <3>2. QED
      BY <1>1, <2>1, <3>1 DEF IInv, Staged
  <2>6. Served'
    <3>1. \A s \in Requests : request'[s] # "cut"
      BY <2>2, <2>4
    <3>2. api # "serving" => \A s \in Requests : request[s] = "none" => request'[s] = "none"
      BY <2>4
    <3>3. api # "serving" =>
            \A s \in Requests : request[s] \in {"none", "answered"} => request'[s] \in {"none", "answered"}
      BY <2>4
    <3>4. QED
      BY <1>1, <2>1, <3>1, <3>2, <3>3 DEF IInv, Served
  <2>7. QED
    BY <1>2, <2>5, <2>6 DEF IInv, Typed
<1>6. QED
  BY <1>3, <1>4, <1>5

\* Signals, the kill, a crash and the clock.
LEMMA OutsideInv ==
  ASSUME IInv, Signal \/ DockerStop \/ Kill \/ Tick \/ \E r \in Requests : Crash(r)
  PROVE  IInv'
<1>1. CASE Signal \/ DockerStop
  <2>1. Alive /\ Signalled /\ grace' \in Off .. Grace
    BY <1>1, Bounds DEF Signal, DockerStop, IInv, Typed, ServiceTyped
  <2>2. CASE relay
    <3>1. /\ UNCHANGED <<main, end, logged, pool, relay, api, metrics, broken, late, request, deadline>>
          /\ ctxDone' = TRUE
          /\ UNCHANGED <<funcs, caller, runner, msgs, complete, expired, answer, returned>>
      BY <2>1, <2>2 DEF Signalled, servers, closer
    <3>2. ServiceTyped'
      <4>1. ctxDone' \in BOOLEAN
        BY <3>1
      <4>2. QED
        BY <2>1, <3>1, <4>1, TypesOf, TypedStays
    <3>3. CloserTyped' /\ Stopping'
      BY <3>1 DEF IInv, Typed, CloserTyped, Stopping
    <3>4. Staged' /\ Served'
      <4>1. end = "" /\ main # "gone"
        BY <2>1 DEF Alive, IInv, Staged
      <4>2. QED
        BY <3>1, <4>1 DEF IInv, Staged, Served
    <3>5. QED
      BY <3>2, <3>3, <3>4 DEF IInv, Typed
  <2>3. CASE ~ relay
    <3>1. broken # {}
      BY <2>3 DEF IInv, Staged
    <3>2. /\ main' = "gone" /\ end' = "signal"
          /\ request' = [r \in Requests |-> IF request[r] = "open" THEN "cut" ELSE request[r]]
          /\ UNCHANGED <<logged, pool, ctxDone, relay, servers, deadline, closer>>
      BY <2>1, <2>3 DEF Signalled
    <3>3. QED
      BY <2>1, <3>1, <3>2, DiesInv
  <2>4. QED
    BY <2>2, <2>3
<1>2. CASE Kill \/ \E r \in Requests : Crash(r)
  BY <1>2, EndsInv DEF Kill, Crash
<1>3. CASE Tick
  <2>1. /\ UNCHANGED <<main, end, logged, pool, ctxDone, relay, api, metrics, broken, late, request>>
        /\ UNCHANGED <<funcs, caller, runner, msgs, complete, answer, returned>>
        /\ deadline' = Passed(deadline) /\ grace' = Passed(grace)
        /\ expired' = (expired \/ deadline' = 0)
    BY <1>3 DEF Tick, servers
  <2>2. /\ deadline \in Off .. ShutdownTimeout /\ grace \in Off .. Grace
        /\ expired \in BOOLEAN /\ expired => deadline = 0
    BY DEF IInv, Typed, ServiceTyped, CloserTyped, Stopping
  <2>3. /\ deadline' \in Off .. ShutdownTimeout /\ grace' \in Off .. Grace
        /\ deadline = Off => deadline' = Off
        /\ deadline = 0 => deadline' = 0
    BY <2>1, <2>2, Bounds DEF Passed, Off
  <2>4. ServiceTyped'
    BY <2>1, <2>3, TypesOf, TypedStays
  <2>5. CloserTyped'
    <3>1. expired' \in BOOLEAN
      BY <2>1
    <3>2. QED
      BY <2>1, <3>1 DEF IInv, Typed, CloserTyped
  <2>6. Staged'
    <3>1. end = "" /\ main # "gone"
      BY <1>3 DEF Tick, Alive, IInv, Staged
    <3>2. QED
      BY <2>1, <3>1 DEF IInv, Staged
  <2>7. Served'
    BY <2>1, <2>3 DEF IInv, Served
  <2>8. Stopping'
    <3>1. expired => expired'
      BY <2>1
    <3>2. expired' => deadline' = 0
      BY <2>1, <2>2, <2>3
    <3>3. QED
      BY <2>1, <2>3, <3>1, <3>2 DEF IInv, Stopping
  <2>9. QED
    BY <2>4, <2>5, <2>6, <2>7, <2>8 DEF IInv, Typed
<1>4. QED
  BY <1>1, <1>2, <1>3

LEMMA Results ==
  /\ <<>> # <<"none">> /\ <<>> # <<"nil">> /\ <<>> # <<"error">> /\ <<>> # <<Stops>>
  /\ <<"none">> # <<"nil">> /\ <<"none">> # <<"error">> /\ <<"nil">> # <<"error">>
<1>1. <<"none">>[1] = "none" /\ <<"nil">>[1] = "nil" /\ <<"error">>[1] = "error"
  OBVIOUS
<1>2. <<>> # <<"none">> /\ <<>> # <<"nil">> /\ <<>> # <<"error">> /\ <<>> # <<Stops>>
  OBVIOUS
<1>3. QED
  BY <1>1, <1>2

\* Main adds the Stop, starts the shutdown, and logs its answer.
LEMMA MainInv ==
  ASSUME IInv, AddStop \/ BeginShutdown \/ LogShutdown \/ Exit
  PROVE  IInv'
<1>1. CASE AddStop
  <2>1. /\ UNCHANGED <<main, logged, api, deadline, end, pool, ctxDone, relay, metrics, broken>>
        /\ UNCHANGED <<late, request, grace>> /\ Shutdown!Add
    BY <1>1 DEF AddStop, unmoved
  <2>2. /\ caller = "adding" /\ funcs' = <<Stops>>
        /\ UNCHANGED <<caller, runner, msgs, complete, expired, answer, returned>>
    BY <2>1, TypesOf, AddEffect
  <2>3. ServiceTyped'
    BY <2>1, TypesOf, TypedStays
  <2>4. CloserTyped' /\ Stopping'
    BY <2>1, <2>2 DEF IInv, Typed, CloserTyped, Stopping
  <2>5. Staged' /\ Served'
    BY <2>1, <2>2 DEF IInv, Staged, Served
  <2>6. QED
    BY <2>3, <2>4, <2>5 DEF IInv, Typed
<1>2. CASE BeginShutdown
  <2>1. /\ main = "wait" /\ caller = "adding" /\ funcs = <<Stops>>
        /\ main' = "closing" /\ deadline' = ShutdownTimeout
        /\ caller' = "select" /\ runner' = "next"
        /\ UNCHANGED <<logged, api, end, pool, ctxDone, relay, metrics, broken, late, request, grace>>
        /\ UNCHANGED <<funcs, msgs, complete, expired, answer, returned>>
    BY <1>2 DEF BeginShutdown, Waking, TimeoutOfNew, unmoved, Stops
  <2>2. /\ runner = "none" /\ returned = <<>> /\ deadline = Off /\ ~ expired
        /\ answer = "none" /\ msgs = <<>> /\ complete = 0
    BY <2>1, Bounds, Results DEF IInv, Typed, CloserTyped, Stopping
  <2>3. ServiceTyped'
    BY <2>1, Bounds, TypesOf, TypedStays
  <2>4. CloserTyped'
    BY <2>1 DEF IInv, Typed, CloserTyped
  <2>5. Stopping'
    BY <2>1, <2>2, Results DEF Stopping
  <2>6. Staged'
    BY <2>1, <2>2 DEF IInv, Staged
  <2>7. Served'
    BY <2>1, <2>2, Results DEF IInv, Staged, Served
  <2>8. QED
    BY <2>3, <2>4, <2>5, <2>6, <2>7 DEF IInv, Typed
<1>3. CASE LogShutdown
  <2>1. /\ main = "closing" /\ caller = "returned"
        /\ logged' = IF answer = "nil" THEN "Shutdown success" ELSE "Closer"
        /\ UNCHANGED <<main, api, deadline, end, pool, ctxDone, relay, metrics, broken, late, request, grace>>
        /\ UNCHANGED <<funcs, caller, runner, msgs, complete, expired, answer, returned>>
    BY <1>3 DEF LogShutdown, unmoved, closer
  <2>2. logged' \in {"Closer", "Shutdown success"} /\ (logged' = "Shutdown success" => answer = "nil")
    BY <2>1
  <2>3. ServiceTyped'
    BY <2>1, <2>2, TypesOf, TypedStays
  <2>4. CloserTyped' /\ Stopping'
    BY <2>1 DEF IInv, Typed, CloserTyped, Stopping
  <2>5. Staged' /\ Served'
    BY <2>1, <2>2 DEF IInv, Stopping, Staged, Served
  <2>6. QED
    BY <2>3, <2>4, <2>5 DEF IInv, Typed
<1>4. CASE Exit
  <2>1. Alive /\ answer # "none" /\ Ends("exit") /\ logged' = logged
    BY <1>4 DEF Exit, Alive, IInv, Staged
  <2>2. ASSUME \E r \in Requests : request[r] = "open" PROVE deadline = 0 \/ late
    <3>1. returned = <<"nil">> => late
      BY <2>2 DEF IInv, Served
    <3>2. answer \in {"nil", "errors", "cancelled"}
      BY <2>1 DEF IInv, Typed, CloserTyped
    <3>3. QED
      BY <3>1, <3>2 DEF IInv, Stopping
  <2>3. QED
    BY <2>1, <2>2, EndsInv
<1>5. QED
  BY <1>1, <1>2, <1>3, <1>4

\* The steps inside Close: nothing of the servers moves.
LEMMA InsideInv ==
  ASSUME IInv, Inside(Shutdown!Runner) \/ Inside(Shutdown!Caller)
  PROVE  IInv'
<1>1. /\ main = "closing" /\ runner # "none" /\ main # "gone"
      /\ UNCHANGED <<main, logged, api, deadline, end, pool, ctxDone, relay, metrics, broken>>
      /\ UNCHANGED <<late, request, grace>>
  BY DEF Inside, unmoved, IInv, Staged, Stopping
<1>2. ServiceTyped'
  BY <1>1, TypesOf, TypedStays
<1>3. CloserTyped /\ Stopping
  BY DEF IInv, Typed
<1>4. CASE Inside(Shutdown!Call)
  <2>1. /\ runner = "next" /\ returned = <<>>
        /\ runner' = "call" /\ returned' = <<"none">>
        /\ UNCHANGED <<funcs, caller, msgs, complete, expired, answer>>
    BY <1>3, <1>4, CallEffect DEF Inside
  <2>2. CloserTyped'
    BY <1>3, <2>1 DEF CloserTyped
  <2>3. Stopping'
    BY <1>1, <1>3, <2>1, Results DEF Stopping
  <2>4. Staged' /\ Served'
    BY <1>1, <2>1, Results DEF IInv, Staged, Served
  <2>5. QED
    BY <1>2, <2>2, <2>3, <2>4 DEF IInv, Typed
<1>5. CASE Inside(Shutdown!Send)
  <2>1. /\ runner = "next" /\ returned # <<>> /\ runner' = "done" /\ complete' = 1
        /\ UNCHANGED <<funcs, caller, msgs, expired, answer, returned>>
    BY <1>3, <1>5, SendEffect DEF Inside
  <2>2. CloserTyped'
    BY <1>3, <2>1 DEF CloserTyped
  <2>3. Stopping'
    BY <1>1, <1>3, <2>1 DEF Stopping
  <2>4. Staged' /\ Served'
    BY <1>1, <2>1 DEF IInv, Staged, Served
  <2>5. QED
    BY <1>2, <2>2, <2>3, <2>4 DEF IInv, Typed
<1>6. CASE Inside(Shutdown!Caller)
  <2>1. /\ caller \in {"select", "join"} /\ UNCHANGED <<funcs, runner, msgs, expired, returned>>
        /\ \/ caller' = "join" /\ complete = 1 /\ complete' = 0 /\ answer' = answer
           \/ /\ caller' = "returned" /\ complete' = complete
              /\ \/ answer' = "cancelled" /\ expired
                 \/ /\ caller = "join"
                    /\ answer' = IF msgs = <<>> THEN "nil" ELSE "errors"
    BY <1>3, <1>6, CallerEffect DEF Inside
  <2>2. CloserTyped'
    BY <1>3, <2>1 DEF CloserTyped
  <2>3. Stopping'
    <3>1. caller = "join" => IF msgs = <<>> THEN returned = <<"nil">> ELSE returned = <<"error">>
      BY <1>3 DEF CloserTyped, Stopping
    <3>2. /\ caller' \in {"join", "returned"} /\ (caller' = "returned" <=> answer' # "none")
          /\ caller' = "join" \/ complete' = 1 => runner = "done"
          /\ answer' = "nil" => returned = <<"nil">>
          /\ answer' = "errors" => returned = <<"error">>
          /\ answer' = "cancelled" => expired
      BY <1>3, <2>1, <3>1 DEF CloserTyped, Stopping
    <3>3. QED
      BY <1>1, <1>3, <2>1, <3>2 DEF Stopping
  <2>4. Staged' /\ Served'
    BY <1>1, <1>3, <2>1 DEF IInv, Stopping, Staged, Served
  <2>5. QED
    BY <1>2, <2>2, <2>3, <2>4 DEF IInv, Typed
<1>7. QED
  BY <1>4, <1>5, <1>6 DEF Inside, Shutdown!Runner

\* The Stop of the API server returns: at once if it serves nothing, when its
\* requests are answered, or with the context's error.
LEMMA StopInv ==
  ASSUME IInv, Stop
  PROVE  IInv'
<1>1. /\ main = "closing" /\ main # "gone" /\ runner = "call" /\ end = ""
      /\ UNCHANGED <<main, logged, deadline, end, pool, metrics, broken, late, request, grace>>
      /\ UNCHANGED <<ctxDone, relay>>
  BY DEF Stop, StopFindsNothing, StopListening, StopDone, StopLate, unmoved, GoroutineOver,
         Shutdown!Return, IInv, Staged
<1>2. CloserTyped /\ Stopping
  BY DEF IInv, Typed
<1>3. returned = <<"none">> /\ complete = 0 /\ caller # "join"
  BY <1>1, <1>2 DEF CloserTyped, Stopping
<1>4. CASE StopListening
  <2>1. /\ api \in {"serving", "failed"} /\ api' = "stopping"
        /\ UNCHANGED <<funcs, caller, runner, msgs, complete, expired, answer, returned>>
    BY <1>4 DEF StopListening, closer
  <2>2. ServiceTyped'
    BY <1>1, <2>1, TypesOf, TypedStays
  <2>3. CloserTyped' /\ Stopping'
    BY <1>1, <1>2, <2>1 DEF CloserTyped, Stopping
  <2>4. Staged'
    BY <1>1, <2>1 DEF IInv, Staged
  <2>5. Served'
    BY <1>1, <1>3, <2>1, Results DEF IInv, Served
  <2>6. QED
    BY <2>2, <2>3, <2>4, <2>5 DEF IInv, Typed
<1>5. ASSUME NEW result \in {"nil", "error"}, Shutdown!Return(result), result = "error" => expired,
             \/ api' = api /\ api \in {"none", "new", "over"}
             \/ api = "stopping" /\ api' = "over",
             result = "nil" => \A r \in Requests : request[r] # "open"
      PROVE  IInv'
  <2>1. /\ runner' = "next" /\ returned' = <<result>>
        /\ msgs' = IF result = "nil" THEN <<>> ELSE <<Stops>>
        /\ UNCHANGED <<funcs, caller, complete, expired, answer>>
    BY <1>2, <1>5, ReturnEffect
  <2>2. returned' \in {<<"nil">>, <<"error">>} /\ returned' # <<"none">> /\ returned' # <<>>
        /\ (msgs' = <<>> <=> returned' # <<"error">>) /\ msgs' \in {<<>>, <<Stops>>}
        /\ (returned' = <<"error">> <=> result = "error")
        /\ (returned' = <<"nil">> <=> result = "nil")
    BY <2>1, Results
  <2>3. ServiceTyped'
    BY <1>1, <1>5, TypesOf, TypedStays
  <2>4. CloserTyped'
    BY <1>2, <2>1, <2>2 DEF CloserTyped
  <2>5. answer \notin {"nil", "errors"}
    BY <1>2, <1>3, Results DEF Stopping
  <2>6. Stopping'
    <3>1. caller # "adding" /\ (caller = "returned" <=> answer # "none")
          /\ (expired => deadline = 0) /\ (answer = "cancelled" => expired) /\ funcs = <<Stops>>
      BY <1>1, <1>2 DEF Stopping
    <3>2. QED
      <4>1. /\ caller' # "adding" /\ runner' = "next" /\ funcs' = <<Stops>> /\ complete' = 0
            /\ returned' # <<>> /\ returned' # <<"none">>
            /\ (msgs' = <<>> <=> returned' # <<"error">>)
            /\ caller' # "join" /\ answer' \notin {"nil", "errors"}
            /\ (caller' = "returned" <=> answer' # "none")
        BY <1>1, <1>3, <2>1, <2>2, <2>5, <3>1
      <4>2. /\ answer' = "cancelled" \/ returned' = <<"error">> => expired'
            /\ expired' => deadline' = 0
        BY <1>1, <1>5, <2>1, <2>2, <3>1
      <4>3. QED
        BY <4>1, <4>2 DEF Stopping
  <2>7. Staged'
    BY <1>1, <1>5, <2>1 DEF IInv, Staged
  <2>8. Served'
    <3>1. api' \in {"none", "new"} => \A r \in Requests : request[r] = "none"
      BY <1>5 DEF IInv, Served
    <3>2. (\A r \in Requests : request[r] # "cut") /\ api' \in {"none", "new", "over"}
      BY <1>1, <1>5, TypesOf DEF IInv, Served
    <3>3. result = "nil" => \A r \in Requests : request[r] \in {"none", "answered"}
      BY <1>5, <3>2, TypesOf
    <3>4. QED
      BY <1>1, <2>2, <3>1, <3>2, <3>3 DEF Served
  <2>9. QED
    BY <2>3, <2>4, <2>6, <2>7, <2>8 DEF IInv, Typed
<1>6. CASE StopFindsNothing
  <2>1. api \in {"none", "new", "over"} /\ api' = api /\ Shutdown!Return("nil")
    BY <1>6, TypesOf DEF StopFindsNothing
  <2>2. \A r \in Requests : request[r] = "none"
    BY <1>3, <2>1 DEF IInv, Served
  <2>3. QED
    BY <1>5, <2>1, <2>2
<1>7. CASE StopDone
  BY <1>5, <1>7 DEF StopDone, Drained
<1>8. CASE StopLate
  BY <1>5, <1>8 DEF StopLate
<1>9. QED
  BY <1>4, <1>6, <1>7, <1>8 DEF Stop

LEMMA InvAlways == Spec => []IInv
<1>1. Init => IInv
  BY InitInv
<1>2. ASSUME IInv, [Next]_vars PROVE IInv'
  <2>1. CASE UNCHANGED vars
    <3>1. /\ UNCHANGED <<main, end, logged, pool, ctxDone, relay, api, metrics, broken, late, request>>
          /\ UNCHANGED <<deadline, grace, funcs, caller, runner, msgs, complete, expired, answer, returned>>
      BY <2>1 DEF vars, servers, timers, closer
    <3>2. ServiceTyped'
      BY <1>2, <3>1, TypesOf, TypedStays
    <3>3. CloserTyped' /\ Stopping'
      BY <1>2, <3>1 DEF IInv, Typed, CloserTyped, Stopping
    <3>4. Staged'
      BY <1>2, <3>1 DEF IInv, Staged
    <3>5. Served'
      BY <1>2, <3>1 DEF IInv, Served
    <3>6. QED
      BY <3>2, <3>3, <3>4, <3>5 DEF IInv, Typed
  <2>2. CASE Start
    BY <1>2, <2>2, StartInv
  <2>3. CASE Close
    BY <1>2, <2>3, MainInv, InsideInv DEF Close
  <2>4. CASE Stop
    BY <1>2, <2>4, StopInv
  <2>5. CASE Listen \/ ListenFails \/ MetricsFail \/ \E r \in Requests : Accept(r) \/ Answer(r)
    BY <1>2, <2>5, ServersInv
  <2>6. CASE Signal \/ DockerStop \/ Kill \/ Tick \/ \E r \in Requests : Crash(r)
    BY <1>2, <2>6, OutsideInv
  <2>7. QED
    BY <1>2, <2>1, <2>2, <2>3, <2>4, <2>5, <2>6 DEF Next
<1>3. QED
  BY <1>1, <1>2, PTL DEF Spec

-----------------------------------------------------------------------------

\* The variables of the process and of its Closer keep to their types.
THEOREM TypeCorrect == Spec => []TypeOK
<1>1. ASSUME IInv PROVE TypeOK
  <2>1. ServiceTyped /\ CloserTyped /\ Stopping
    BY <1>1 DEF IInv, Typed
  <2>2. Shutdown!IsPrefix(funcs, <<"httpServer.Stop">>)
    <3>1. funcs = <<>> \/ funcs = <<"httpServer.Stop">>
      BY <2>1 DEF CloserTyped, Stops
    <3>2. Len(<<>>) = 0 /\ Len(<<"httpServer.Stop">>) = 1
      OBVIOUS
    <3>3. SubSeq(<<>>, 1, 0) = <<>> /\ SubSeq(<<"httpServer.Stop">>, 1, 0) = <<>>
      BY SubSeqEmpty
    <3>4. QED
      BY <3>1, <3>2, <3>3 DEF Shutdown!IsPrefix
  <2>3. msgs \in Seq(Shutdown!ToSet(<<"httpServer.Stop">>))
    <3>1. DOMAIN <<"httpServer.Stop">> = 1 .. 1 /\ <<"httpServer.Stop">>[1] = "httpServer.Stop"
      OBVIOUS
    <3>2. "httpServer.Stop" \in Shutdown!ToSet(<<"httpServer.Stop">>)
      BY <3>1 DEF Shutdown!ToSet
    <3>3. \A S : <<>> \in Seq(S) /\ \A x \in S : <<x>> \in Seq(S)
      OBVIOUS
    <3>4. msgs = <<>> \/ msgs = <<"httpServer.Stop">>
      BY <2>1 DEF CloserTyped, Stops
    <3>5. QED
      BY <3>2, <3>3, <3>4
  <2>4. returned \in Seq({"none", "nil", "error"}) /\ Len(returned) <= Len(funcs)
    <3>1. CASE returned = <<>>
      BY <2>1, <3>1 DEF CloserTyped
    <3>2. CASE returned # <<>>
      <4>1. funcs = <<Stops>>
        BY <2>1, <3>2 DEF Stopping
      <4>2. \A x : Len(<<x>>) = 1 /\ \A S : x \in S => <<x>> \in Seq(S)
        OBVIOUS
      <4>3. PICK x \in {"none", "nil", "error"} : returned = <<x>>
        BY <2>1, <3>2 DEF CloserTyped
      <4>4. QED
        BY <4>1, <4>2, <4>3
    <3>3. QED
      BY <3>1, <3>2
  <2>5. QED
    BY <2>1, <2>2, <2>3, <2>4
    DEF TypeOK, ServiceTyped, CloserTyped, Shutdown!TypeOK, Shutdown!Called
<1>2. QED
  BY <1>1, InvAlways, PTL

\* A request is accepted only by a process whose repositories have a handle of
\* the database, though the error of the second NewPostgres is not checked.
THEOREM PoolBeforeRequests == Spec => []ServedWithPool
<1>1. IInv => ServedWithPool
  BY DEF IInv, Staged, Served, ServedWithPool, Typed, ServiceTyped
<1>2. QED
  BY <1>1, InvAlways, PTL

\* "Shutdown success" is written when every request is answered, if the API
\* server did not begin to listen after its Stop.
THEOREM SuccessIsDrained == Spec => []SuccessDrained
<1>1. IInv => SuccessDrained
  BY DEF IInv, Stopping, Staged, Served, SuccessDrained
<1>2. QED
  BY <1>1, InvAlways, PTL

\* A request that was accepted and not answered was lost to a shutdown that
\* lasted the whole timeout, to a server that began to listen after its Stop,
\* to a crash, to docker's SIGKILL, or to a signal after a server had failed.
THEOREM CutsHaveCause == Spec => []CutOnlyBy
<1>1. IInv => CutOnlyBy
  <2>1. SUFFICES ASSUME IInv, Cut PROVE CutOnlyBy
    BY DEF CutOnlyBy
  <2>2. end \in {"exit", "panic", "crash", "signal", "killed"}
    BY <2>1 DEF Cut, IInv, Typed, ServiceTyped, Staged, Served
  <2>3. QED
    BY <2>1, <2>2 DEF Cut, CutOnlyBy, IInv, Staged, Served
<1>2. QED
  BY <1>1, InvAlways, PTL

\* A signal ends the process outright only after the failure of a server: a
\* second signal cannot cut a graceful shutdown short.
THEOREM GracefulSignals == Spec => []SignalsAreGraceful
<1>1. IInv => SignalsAreGraceful
  BY DEF IInv, Staged, SignalsAreGraceful
<1>2. QED
  BY <1>1, InvAlways, PTL
=============================================================================
