--------------------------- MODULE ServerLifecycle ---------------------------
(***************************************************************************)
(* The server process from main to exit (cmd/server/main.go): run starts   *)
(* what the configuration asks for, waits for a signal or for a listener   *)
(* to fail, drains, and undoes in its deferred calls what it has done.     *)
(*                                                                         *)
(* Beside run there are the goroutine of each server, which serves and     *)
(* then sends its error to errCh, the calls those servers are handling,    *)
(* and the goroutine that reloads the log level on SIGHUP.                 *)
(***************************************************************************)
EXTENDS Config, Sequences

CONSTANTS
  Starts,     \* the file and the environment the process may be started with
  Edits,      \* what the file may be when it is read again
  Faulty,     \* the servers whose listener may fail
  MaxCalls,   \* bound on the calls each server handles at once
  None

Servers == {"grpc", "health", "metrics", "gateway"}

Errors == {"auth", "tracing", "storage", "tls", "listen", "failed", "closed", "shutdown"}

ASSUME LifecycleAssumption ==
  /\ Faulty \subseteq Servers /\ MaxCalls \in [Servers -> Nat]
  /\ None \notin Errors /\ None \notin {0, 1}
  /\ \A f \in {s.file : s \in Starts} \cup Edits : f # Bad => "logging.level" \in DOMAIN f

ErrChCap == 4

Auth == INSTANCE Authenticator WITH
  AuthConfig <- None, Policy <- None, DefaultDeny <- FALSE, Skew <- 0

VARIABLES
  pc,              \* where run is
  cfg, env,        \* the configuration, and the environment it was loaded in
  todo,            \* the servers run has still to open or to shut down
  open,            \* what is open: the listeners, and what else run opens
  deferred,        \* the deferred calls, the next one first
  srv,             \* the goroutine of each server
  stopped,         \* servers that were told to stop
  calls,           \* the calls each server is handling
  errCh,
  ready, status,   \* readinessState, and the status of the gRPC health service
  expired, forced, \* drainCtx is done; server.Stop was called
  err, exit,       \* runErr, and the exit code of the process
  sig,             \* ctx is done: SIGTERM or SIGINT
  watcher,         \* watchLogLevel
  level            \* the log level

setup == <<cfg, env>>
resources == <<todo, open, deferred>>
serving == <<srv, stopped, calls, errCh>>
probes == <<ready, status>>
drain == <<expired, forced>>
outcome == <<err, exit>>
signals == <<sig, watcher, level>>
vars == <<pc, setup, resources, serving, probes, drain, outcome, signals>>

Init ==
  /\ pc = "load" /\ cfg = None /\ env = None
  /\ todo = <<>> /\ open = {} /\ deferred = <<>>
  /\ srv = [s \in Servers |-> "off"] /\ stopped = {}
  /\ calls = [s \in Servers |-> 0] /\ errCh = <<>>
  /\ ready = FALSE /\ status = FALSE
  /\ expired = FALSE /\ forced = FALSE
  /\ err = None /\ exit = None
  /\ sig = FALSE /\ watcher = "off" /\ level = None

Alive == pc \notin {"exited", "killed"}

Enabled(s) ==
  CASE s = "metrics" -> cfg["metrics.enabled"]
    [] s = "gateway" -> cfg["gateway.enabled"]
    [] OTHER -> TRUE
Optional(s) == IF Enabled(s) THEN <<s>> ELSE <<>>
Started == <<"grpc", "health">> \o Optional("metrics") \o Optional("gateway")
Port(s) == cfg[IF s = "grpc" THEN "server.port" ELSE s \o ".port"]
-----------------------------------------------------------------------------
(* Starting *)

Goto(from, to) == pc = from /\ pc' = to
Fail(e) == pc' = "return" /\ err' = e
Acquire(r) == open' = open \cup {r} /\ deferred' = <<r>> \o deferred

\* main
LoadConfig ==
  /\ pc = "load"
  /\ \E s \in Starts :
       LET c == Load(s.file, s.env) IN
       \/ c = Bad /\ pc' = "exited" /\ exit' = 1 /\ UNCHANGED <<cfg, env>>
       \/ c # Bad /\ pc' = "start" /\ cfg' = c /\ env' = s.env /\ UNCHANGED exit
  /\ UNCHANGED <<resources, serving, probes, drain, err, signals>>

\* zerolog.ParseLevel also knows the empty level and "disabled".
ParseLevel(l) == isLogLevel(l) \/ l \in {Absent, "disabled"}

\* logging.Init, go watchLogLevel, NewAuthenticator
Start ==
  /\ pc = "start"
  /\ level' = IF ParseLevel(cfg["logging.level"]) THEN cfg["logging.level"] ELSE "info"
  /\ watcher' = "starting"
  /\ LET a == Auth!NewAuthenticator(
                [jwtSecret |-> cfg["auth.jwt_secret"], apiKeys |-> cfg["auth.api_keys"],
                 jwtPublicKey |-> cfg["auth.jwt_public_key"], jwtIssuer |-> Absent,
                 jwtAudience |-> Absent, apiKeyScopes |-> {}])
     IN  IF a = Absent THEN Fail("auth") ELSE pc' = "tracing" /\ UNCHANGED err
  /\ UNCHANGED <<setup, resources, serving, probes, drain, exit, sig>>

startFrame == <<cfg, env, serving, probes, drain, exit, signals>>

InitTracing ==
  /\ pc = "tracing"
  /\ \/ cfg["tracing.enabled"] /\ Acquire("tracing") /\ pc' = "storage" /\ UNCHANGED err
     \/ cfg["tracing.enabled"] /\ Fail("tracing") /\ UNCHANGED <<open, deferred>>
     \/ ~cfg["tracing.enabled"] /\ pc' = "storage" /\ UNCHANGED <<open, deferred, err>>
  /\ UNCHANGED <<todo, startFrame>>

openRepository ==
  /\ pc = "storage"
  /\ \/ Acquire("repository") /\ pc' = "server" /\ UNCHANGED err
     \/ cfg["storage.backend"] = "postgres" /\ Fail("storage") /\ UNCHANGED <<open, deferred>>
  /\ UNCHANGED <<todo, startFrame>>

\* It has started the per-client limiter when it loads the certificates; run
\* defers limiter.Stop only after it has succeeded.
newGRPCServer ==
  /\ pc = "server"
  /\ \/ Acquire("limiter") /\ pc' = "listen" /\ todo' = Started /\ UNCHANGED err
     \/ /\ cfg["tls.enabled"] /\ Fail("tls")
        /\ open' = open \cup {"limiter"} /\ UNCHANGED <<todo, deferred>>
  /\ UNCHANGED startFrame

\* net.Listen for the next server, which fails if the port is taken: by run
\* itself, or by someone else.
Listen ==
  /\ pc = "listen" /\ todo # <<>>
  /\ LET s == Head(todo)
         own == \E t \in Servers \cap open : Port(t) = Port(s)
     IN  \/ /\ ~own /\ Acquire(s) /\ todo' = Tail(todo)
            /\ UNCHANGED <<pc, err>>
         \/ Fail("listen") /\ UNCHANGED resources
  /\ UNCHANGED startFrame

StartServing ==
  /\ Goto("listen", "ready") /\ todo = <<>>
  /\ srv' = [s \in Servers |-> IF Enabled(s) THEN "starting" ELSE "off"]
  /\ UNCHANGED <<setup, resources, stopped, calls, errCh, probes, drain, outcome, signals>>

runFrame == <<setup, resources, serving, drain, outcome, signals>>

MarkReady == Goto("ready", "serving") /\ ready' = TRUE /\ UNCHANGED <<status, runFrame>>
MarkServing == Goto("serving", "wait") /\ status' = TRUE /\ UNCHANGED <<ready, runFrame>>
-----------------------------------------------------------------------------
(* Stopping *)

\* The select: a signal or an error, whichever is picked if there are both.
Await(to) ==
  /\ \/ sig /\ Goto("wait", to) /\ UNCHANGED <<errCh, err>>
     \/ errCh # <<>> /\ Goto("wait", to) /\ err' = Head(errCh) /\ errCh' = Tail(errCh)
  /\ UNCHANGED <<setup, resources, srv, stopped, calls, probes, drain, exit, signals>>

AwaitAndDrain == Await("drain")
AwaitStop == Await("unready")

MarkUnready == Goto("unready", "notserving") /\ ready' = FALSE /\ UNCHANGED <<status, runFrame>>
MarkNotServing == Goto("notserving", "drain") /\ status' = FALSE /\ UNCHANGED <<ready, runFrame>>

Stop(s) == stopped' = stopped \cup {s} /\ open' = open \ {s}

\* GracefulStop: no new calls, and it returns when there is none left.
DrainGRPC ==
  /\ Goto("drain", "draining") /\ Stop("grpc")
  /\ UNCHANGED <<setup, todo, deferred, srv, calls, errCh, probes, drain, outcome, signals>>

GracefulOnly == FALSE /\ UNCHANGED vars

\* Stop closes the connections, which ends the contexts of the calls.
ForceStop ==
  /\ pc = "draining" /\ expired /\ ~forced /\ forced' = TRUE
  /\ UNCHANGED <<pc, setup, resources, serving, probes, expired, outcome, signals>>

DrainedOrForced ==
  /\ Goto("draining", "shutdown") /\ (calls["grpc"] = 0 \/ forced)
  /\ todo' = Tail(Started)
  /\ UNCHANGED <<setup, open, deferred, serving, probes, drain, outcome, signals>>

\* <-done, in both cases
Drained ==
  /\ Goto("draining", "shutdown") /\ calls["grpc"] = 0
  /\ todo' = Tail(Started)
  /\ UNCHANGED <<setup, open, deferred, serving, probes, drain, outcome, signals>>

\* Shutdown of the next HTTP server closes its listener, and returns when there
\* are no calls left or drainCtx is done.
Shutdown ==
  /\ Goto("shutdown", "closing") /\ todo # <<>> /\ Stop(Head(todo))
  /\ UNCHANGED <<setup, todo, deferred, srv, calls, errCh, probes, drain, outcome, signals>>

ShutdownSilently ==
  /\ Goto("closing", "shutdown") /\ (calls[Head(todo)] = 0 \/ expired)
  /\ todo' = Tail(todo)
  /\ UNCHANGED <<setup, open, deferred, serving, probes, drain, outcome, signals>>

ShutdownReturns ==
  /\ Goto("closing", "shutdown")
  /\ \/ calls[Head(todo)] = 0 /\ UNCHANGED err
     \/ calls[Head(todo)] > 0 /\ expired /\ err' = IF err = None THEN "shutdown" ELSE err
  /\ todo' = Tail(todo)
  /\ UNCHANGED <<setup, open, deferred, serving, probes, drain, exit, signals>>

EndDrain == Goto("shutdown", "return") /\ todo = <<>> /\ UNCHANGED <<probes, runFrame>>

ReturnSkipsLimiter ==
  /\ pc = "return" /\ deferred # <<>>
  /\ open' = open \ ({Head(deferred)} \ {"limiter"}) /\ deferred' = Tail(deferred)
  /\ UNCHANGED <<pc, setup, todo, serving, probes, drain, outcome, signals>>

Return ==
  /\ pc = "return" /\ deferred # <<>>
  /\ open' = open \ {Head(deferred)} /\ deferred' = Tail(deferred)
  /\ UNCHANGED <<pc, setup, todo, serving, probes, drain, outcome, signals>>

\* normalizeServeError, and main
Exit ==
  /\ Goto("return", "exited") /\ deferred = <<>>
  /\ exit' = IF err \in {None, "closed"} THEN 0 ELSE 1
  /\ UNCHANGED <<setup, resources, serving, probes, drain, err, signals>>
-----------------------------------------------------------------------------
(* The other goroutines *)

others == <<pc, setup, resources, probes, drain, outcome, signals>>

\* Serve is called, and returns at once if the server was stopped before.
BeginServe(s) ==
  /\ Alive /\ srv[s] = "starting"
  /\ srv' = [srv EXCEPT ![s] = IF s \in stopped THEN "closed" ELSE "serving"]
  /\ UNCHANGED <<stopped, calls, errCh, others>>

\* Accept fails: Serve closes the listener and returns the error.
ListenerFails(s) ==
  /\ Alive /\ s \in Faulty /\ srv[s] = "serving" /\ s \notin stopped
  /\ srv' = [srv EXCEPT ![s] = "failed"] /\ open' = open \ {s}
  /\ UNCHANGED <<pc, setup, todo, deferred, stopped, calls, errCh, probes, drain, outcome, signals>>

ServeReturns(s) ==
  /\ Alive /\ srv[s] = "serving" /\ s \in stopped
  /\ srv' = [srv EXCEPT ![s] = "closed"]
  /\ UNCHANGED <<stopped, calls, errCh, others>>

Report(s) ==
  /\ Alive /\ srv[s] \in {"failed", "closed"} /\ Len(errCh) < ErrChCap
  /\ errCh' = Append(errCh, srv[s]) /\ srv' = [srv EXCEPT ![s] = "reported"]
  /\ UNCHANGED <<stopped, calls, others>>

CallStarts(s) ==
  /\ Alive /\ srv[s] \notin {"off", "starting"} /\ s \notin stopped /\ calls[s] < MaxCalls[s]
  /\ calls' = [calls EXCEPT ![s] = @ + 1]
  /\ UNCHANGED <<srv, stopped, errCh, others>>

CallEnds(s) ==
  /\ Alive /\ calls[s] > 0
  /\ calls' = [calls EXCEPT ![s] = @ - 1]
  /\ UNCHANGED <<srv, stopped, errCh, others>>

Expire ==
  /\ pc \in {"draining", "shutdown", "closing"} /\ ~expired /\ expired' = TRUE
  /\ UNCHANGED <<pc, setup, resources, serving, probes, forced, outcome, signals>>

Signal ==
  /\ Alive /\ pc # "load" /\ ~sig /\ sig' = TRUE
  /\ UNCHANGED <<pc, setup, resources, serving, probes, drain, outcome, watcher, level>>

watcherFrame == <<setup, resources, serving, probes, drain, outcome, sig>>

Watch ==
  /\ Alive /\ watcher = "starting" /\ watcher' = "on"
  /\ UNCHANGED <<pc, level, watcherFrame>>

Unwatch ==
  /\ Alive /\ watcher = "on" /\ sig /\ watcher' = "off"
  /\ UNCHANGED <<pc, level, watcherFrame>>

\* It leaves the level alone if it does not know the new one.
SetLevel(l) == level' = IF ParseLevel(l) THEN l ELSE level

ReloadUnvalidated ==
  /\ Alive /\ watcher = "on"
  /\ \E f \in Edits : LET c == LoadUnvalidated(f, env) IN
       IF c = Bad THEN UNCHANGED level ELSE SetLevel(c["logging.level"])
  /\ UNCHANGED <<pc, watcher, watcherFrame>>

\* SIGHUP
Reload ==
  /\ Alive /\ watcher = "on"
  /\ \E f \in Edits : LET c == Load(f, env) IN
       IF c = Bad THEN UNCHANGED level ELSE SetLevel(c["logging.level"])
  /\ UNCHANGED <<pc, watcher, watcherFrame>>

\* SIGHUP while nobody is notified of it ends the process, and leaves nothing.
Hangup ==
  /\ Alive /\ watcher # "on" /\ pc' = "killed"
  /\ cfg' = None /\ env' = None
  /\ todo' = <<>> /\ open' = {} /\ deferred' = <<>>
  /\ srv' = [s \in Servers |-> "off"] /\ stopped' = {}
  /\ calls' = [s \in Servers |-> 0] /\ errCh' = <<>>
  /\ ready' = FALSE /\ status' = FALSE /\ expired' = FALSE /\ forced' = FALSE
  /\ err' = None /\ exit' = None /\ sig' = FALSE /\ watcher' = "off" /\ level' = None
-----------------------------------------------------------------------------
Run ==
  \/ LoadConfig \/ Start \/ InitTracing \/ openRepository \/ newGRPCServer
  \/ Listen \/ StartServing \/ MarkReady \/ MarkServing
  \/ AwaitStop \/ MarkUnready \/ MarkNotServing
  \/ DrainGRPC \/ ForceStop \/ Drained \/ Shutdown \/ ShutdownReturns \/ EndDrain
  \/ Return \/ Exit

Serve(s) == BeginServe(s) \/ ServeReturns(s) \/ Report(s)

Next ==
  \/ Run \/ Expire \/ Signal \/ Hangup \/ Watch \/ Unwatch \/ Reload
  \/ \E s \in Servers : Serve(s) \/ ListenerFails(s) \/ CallStarts(s) \/ CallEnds(s)

\* Goroutines go on, the timer of drainCtx fires, and a call whose context has
\* ended returns.  Nothing else ends a call, or sends a signal.
Fairness ==
  /\ WF_vars(Run) /\ WF_vars(Expire)
  /\ \A s \in Servers : WF_vars(Serve(s))
  /\ WF_vars(forced /\ CallEnds("grpc"))

Spec == Init /\ [][Next]_vars /\ Fairness
-----------------------------------------------------------------------------
(* Properties *)

\* "The readiness gate flips to not-ready before the drain begins": while either
\* probe says ready, every server the configuration asks for has its listener
\* and takes calls, or its listener has failed and the error is on its way to run.
ReadyOnlyWhileServing ==
  ready \/ status =>
    /\ stopped = {} /\ "repository" \in open
    /\ \A s \in Servers : Enabled(s) =>
         \/ srv[s] \in {"starting", "serving"} /\ s \in open
         \/ srv[s] = "failed"
         \/ srv[s] = "reported" /\ (errCh # <<>> \/ err # None)

\* The repository is closed under no gRPC call, and under a call of an HTTP
\* server only if the drain took too long, which run reports.
RepositoryOutlivesCalls ==
  \A s \in Servers : Alive /\ calls[s] > 0 /\ "repository" \notin open =>
    s # "grpc" /\ expired /\ err # None

\* What run has opened it closes, whichever step fails, except that the limiter
\* keeps its cleanup goroutine if the certificates cannot be loaded.
NothingLeftOpen ==
  pc = "exited" => open = IF err = "tls" THEN {"limiter"} ELSE {}

\* Exit code 0: somebody asked for it, and no call is abandoned.
CleanExit == exit = 0 => sig /\ \A s \in Servers : calls[s] = 0

\* errCh is read once at most, and yet has room for every server: no goroutine
\* is left waiting to send.
ErrChHasRoom ==
  \A s \in Servers : srv[s] \in {"failed", "closed"} => Len(errCh) < ErrChCap

\* SIGHUP "applies only logging.level": the level is the one the process was
\* started with, or that of a file which, read in the environment of the
\* process, is valid as a whole; and the environment has precedence over it.
LevelIsConfigured ==
  level # None =>
    /\ \/ level = cfg["logging.level"]
       \/ \E f \in Edits : Load(f, env) # Bad /\ level = Load(f, env)["logging.level"]
    /\ "logging.level" \in DOMAIN env => level = env["logging.level"]

\* "SIGTERM marks the instance unready, drains ... and then exits", also if it
\* comes while run is starting; and a listener that fails ends the process too.
StopsWhenAsked ==
  (sig \/ \E s \in Servers : srv[s] = "failed") ~> ~Alive
=============================================================================
