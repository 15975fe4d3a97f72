------------------------------- MODULE Server -------------------------------
(***************************************************************************)
(* sparkflow-server: what main, Server.New, Start and Shutdown do, beside  *)
(* the goroutines they start: the scheduler's ticker loop, the HTTP        *)
(* handlers and the gRPC calls.  Every blocking call of main is a step, so *)
(* a signal, a tick and requests fall between any two of them.             *)
(*                                                                         *)
(* Nothing registers a DAG with the server's scheduler, so its cron has no *)
(* entries.  The metrics server serves memory only and is never shut down. *)
(***************************************************************************)
EXTENDS FiniteSets

CONSTANTS
  Conns,      \* HTTP connections, each used for one request after another
  Channels    \* gRPC connections, likewise

VARIABLES
  mainAt,      \* where the main goroutine stands
  dsn,         \* Config.StoreDSN is given
  store,       \* "none", "memory", "postgres", or "closed"
  loop,        \* the goroutine of FIFOScheduler.Start
  ctxDone,     \* main has called cancel
  stopClosed,  \* stopCh is closed
  http,        \* the HTTP server
  grpc,        \* the gRPC server
  request,     \* request[q]: whether a handler is at work
  rpc,         \* rpc[c]: "none", a "unary" call or a "stream" under way
  late         \* history: who has called the store after it was closed

serverVars == <<mainAt, dsn, store, loop, ctxDone, stopClosed, http, grpc,
                request, rpc, late>>
goroutines == <<loop, request, rpc, late>>
settings == <<dsn, ctxDone, stopClosed>>

\* The points where main may stand; "failed" is os.Exit(1) and "exited" the
\* return of main.
Mains == {"new", "start", "listen", "serve", "signal", "stop", "drain", "http",
          "handlers", "close", "exited", "failed"}

ServerTypeOK ==
  /\ mainAt \in Mains
  /\ store \in {"none", "memory", "postgres", "closed"}
  /\ loop \in {"none", "select", "schedule", "gone"}
  /\ http \in {"none", "starting", "listening", "failed", "down"}
  /\ grpc \in {"none", "serving", "stopping"}
  /\ {dsn, ctxDone, stopClosed} \subseteq BOOLEAN
  /\ request \in [Conns -> BOOLEAN]
  /\ rpc \in [Channels -> {"none", "unary", "stream"}]
  /\ late \subseteq {"loop", "handler"}

ServerInit ==
  /\ mainAt = "new" /\ store = "none" /\ loop = "none"
  /\ dsn \in BOOLEAN
  /\ ctxDone = FALSE /\ stopClosed = FALSE
  /\ http = "none" /\ grpc = "none"
  /\ request = [q \in Conns |-> FALSE]
  /\ rpc = [c \in Channels |-> "none"]
  /\ late = {}

Alive == mainAt \notin {"exited", "failed"}
-----------------------------------------------------------------------------
(* The main goroutine *)

Main(from, to) == mainAt = from /\ mainAt' = to

\* Server.New: without a DSN, or when PostgreSQL cannot be reached, the store
\* is in memory; a failed migration ends the program.
New ==
  /\ \/ Main("new", "start") /\ store' = "memory"
     \/ dsn /\ Main("new", "start") /\ store' = "postgres"
     \/ dsn /\ Main("new", "failed") /\ store' = "postgres"
  /\ UNCHANGED <<settings, goroutines, http, grpc>>

\* Server.Start, first the scheduler, whose Start does not fail.
StartScheduler ==
  /\ Main("start", "listen")
  /\ loop' = "select"
  /\ UNCHANGED <<settings, store, http, grpc, request, rpc, late>>

\* The gRPC port is taken: Start returns the error and main exits, whatever
\* the scheduler is doing.
ListenFails ==
  /\ Main("listen", "failed")
  /\ UNCHANGED <<settings, goroutines, store, http, grpc>>

ListenGRPC ==
  /\ Main("listen", "serve")
  /\ grpc' = "serving"
  /\ UNCHANGED <<settings, goroutines, store, http>>

\* The HTTP server gets a goroutine of its own, and Start returns.
StartHTTP ==
  /\ Main("serve", "signal")
  /\ http' = "starting"
  /\ UNCHANGED <<settings, goroutines, store, grpc>>

\* A signal arrives and main cancels the context.
Signal ==
  /\ Main("signal", "stop")
  /\ ctxDone' = TRUE
  /\ UNCHANGED <<dsn, stopClosed, goroutines, store, http, grpc>>

\* Shutdown: FIFOScheduler.Stop closes stopCh and waits for nothing, and
\* GracefulStop begins to refuse connections.
StopScheduler ==
  /\ Main("stop", "drain")
  /\ stopClosed' = TRUE
  /\ grpc' = "stopping"
  /\ UNCHANGED <<dsn, ctxDone, goroutines, store, http>>

\* GracefulStop returns when the last call has ended.
GracefulStop ==
  /\ Main("drain", "http")
  /\ \A c \in Channels : rpc[c] = "none"
  /\ UNCHANGED <<settings, goroutines, store, http, grpc>>

\* Mutant of ShutdownHTTP: the listener stays open.
ShutdownHTTP_KeepsListening ==
  /\ Main("http", "handlers")
  /\ UNCHANGED <<settings, goroutines, store, http, grpc>>

\* http.Server.Shutdown first closes the listener,
ShutdownHTTP ==
  /\ Main("http", "handlers")
  /\ http' = "down"
  /\ UNCHANGED <<settings, goroutines, store, grpc>>

\* Mutant of AwaitHandlers: handlers under way are not waited for.
AwaitHandlers_AtOnce ==
  /\ Main("handlers", "close")
  /\ UNCHANGED <<settings, goroutines, store, http, grpc>>

\* then waits for the handlers, without a deadline.
AwaitHandlers ==
  /\ Main("handlers", "close")
  /\ \A q \in Conns : ~request[q]
  /\ UNCHANGED <<settings, goroutines, store, http, grpc>>

\* store.Close, which does nothing to a MemoryStore; then main returns.
CloseStore ==
  /\ mainAt = "close" /\ store # "closed"
  /\ \/ store = "postgres" /\ store' = "closed" /\ UNCHANGED mainAt
     \/ store = "memory" /\ mainAt' = "exited" /\ UNCHANGED store
  /\ UNCHANGED <<settings, goroutines, http, grpc>>

Exit ==
  /\ Main("close", "exited")
  /\ store = "closed"
  /\ UNCHANGED <<settings, goroutines, store, http, grpc>>
-----------------------------------------------------------------------------
(* The scheduler's loop *)

Loop(from, to) == Alive /\ loop = from /\ loop' = to

LateIfClosed(who) == late' = IF store = "closed" THEN late \cup {who} ELSE late

\* The select may take the ticker although the loop is to end.
Tick ==
  /\ Loop("select", "schedule")
  /\ UNCHANGED <<mainAt, settings, store, http, grpc, request, rpc, late>>

\* One store call of Schedule, which may be its last.
ScheduleCall ==
  /\ Loop("schedule", "schedule") \/ Loop("schedule", "select")
  /\ LateIfClosed("loop")
  /\ UNCHANGED <<mainAt, settings, store, http, grpc, request, rpc>>

LoopEnds ==
  /\ Loop("select", "gone")
  /\ ctxDone \/ stopClosed
  /\ UNCHANGED <<mainAt, settings, store, http, grpc, request, rpc, late>>
-----------------------------------------------------------------------------
(* The HTTP and gRPC servers *)

\* ListenAndServe: an error is logged and the program goes on without HTTP;
\* after Shutdown it returns at once.
ListenHTTP ==
  /\ Alive /\ http = "starting"
  /\ http' \in {"listening", "failed"}
  /\ UNCHANGED <<mainAt, settings, store, grpc, goroutines>>

Request(q) ==
  /\ Alive /\ http = "listening" /\ ~request[q]
  /\ request' = [request EXCEPT ![q] = TRUE]
  /\ UNCHANGED <<mainAt, settings, store, loop, http, grpc, rpc, late>>

\* handleReadyz, handleDAGs and handleRuns make one store call.
HandleWithStore(q) ==
  /\ Alive /\ request[q]
  /\ request' = [request EXCEPT ![q] = FALSE]
  /\ LateIfClosed("handler")
  /\ UNCHANGED <<mainAt, settings, store, loop, http, grpc, rpc>>

\* handleHealthz, and any method but GET.
HandleWithoutStore(q) ==
  /\ Alive /\ request[q]
  /\ request' = [request EXCEPT ![q] = FALSE]
  /\ UNCHANGED <<mainAt, settings, store, loop, http, grpc, rpc, late>>

\* The health and reflection services: Check is unary; Watch and reflection
\* are streams that end when the client ends them.
OpenRPC(c, kind) ==
  /\ Alive /\ grpc = "serving" /\ rpc[c] = "none"
  /\ rpc' = [rpc EXCEPT ![c] = kind]
  /\ UNCHANGED <<mainAt, settings, store, loop, http, grpc, request, late>>

EndRPC(c, kind) ==
  /\ Alive /\ rpc[c] = kind
  /\ rpc' = [rpc EXCEPT ![c] = "none"]
  /\ UNCHANGED <<mainAt, settings, store, loop, http, grpc, request, late>>
-----------------------------------------------------------------------------
MainStep ==
  \/ New \/ StartScheduler \/ ListenFails \/ ListenGRPC \/ StartHTTP
  \/ StopScheduler \/ GracefulStop \/ ShutdownHTTP \/ AwaitHandlers
  \/ CloseStore \/ Exit

Handle(q) == HandleWithStore(q) \/ HandleWithoutStore(q)

ServerNext ==
  \/ MainStep \/ Signal
  \/ Tick \/ ScheduleCall \/ LoopEnds
  \/ ListenHTTP
  \/ \E q \in Conns : Request(q) \/ Handle(q)
  \/ \E c \in Channels, kind \in {"unary", "stream"} :
       OpenRPC(c, kind) \/ EndRPC(c, kind)

ServerSpec == ServerInit /\ [][ServerNext]_serverVars

\* Main goes on, handlers and unary calls return.  Nobody has to send a
\* signal, and a client may keep its stream for ever.
ServerFairness ==
  /\ WF_serverVars(MainStep)
  /\ \A q \in Conns : WF_serverVars(Handle(q))
  /\ \A c \in Channels : WF_serverVars(EndRPC(c, "unary"))
-----------------------------------------------------------------------------
(* Properties *)

\* After store.Close nobody uses the store but the scheduler's loop, which
\* nothing waits for: a request is never answered from a closed store.
OnlyLoopIsLate == late \subseteq {"loop"}

\* A signal ends the program, unless some client keeps a stream open: then
\* GracefulStop, which has no deadline, waits for ever.
ShutdownEnds ==
  ctxDone ~> mainAt = "exited" \/ [](\E c \in Channels : rpc[c] = "stream")
=============================================================================
