------------------------------ MODULE Process -------------------------------
(***************************************************************************)
(* One api, bot or worker process from start to exit: configuration        *)
(* (config/config.go), the dependencies it opens (bootstrap.go,            *)
(* postgres.go, redis.go, chain.Dial), the services it runs in an          *)
(* errgroup (cmd/*/main.go, httpapi/server.go, queue/server.go,            *)
(* telegram/bot.go), the handlers they run, and the way down after a       *)
(* signal or a failure. Handlers and the dial use ChainClient.             *)
(***************************************************************************)
EXTENDS ChainClient, Sequences

CONSTANTS
  Boot,      \* the caller that dials: New's goroutine
  Handlers,  \* handlers that may be in flight at once
  Envs,      \* environments: records with the fields num (a value for each
             \* setting), url, token, ids and ws
  IntWidth   \* bits of an int32

ASSUME ProcessAssumption ==
  /\ Callers = {Boot} \cup Handlers /\ Boot \notin Handlers
  /\ IntWidth \in Nat \ {0}

VARIABLES
  env,       \* the environment
  kind,      \* "api", "bot" or "worker"
  stage,     \* where run is
  alive,     \* the handles that hold connections
  opened,    \* what will be closed, oldest first: Deps.closers and run's defers
  svc,       \* the services in the errgroup
  signal,    \* SIGINT or SIGTERM has arrived
  first,     \* the first error any of it has returned
  serving,   \* handlers in flight
  conns,     \* those that hold a connection of the Postgres pool
  left,      \* a server has returned with handlers in flight
  failed,    \* history: something failed that was not the shutdown itself
  code       \* the exit code

procVars == <<env, kind, stage, alive, opened, svc, signal, first, serving, conns, left, failed, code>>
vars     == <<procVars, ctx, callVars>>

Services == {"http", "head", "queue", "scheduler", "bot"}
Deps     == {"postgres", "redis", "chain", "queue"}

-----------------------------------------------------------------------------
(* Configuration                                                           *)

\* The numeric settings with their defaults, and the limits validate holds them
\* to; it has none for the risk limits that only WalletPolicy.Validate looks at.
Default ==
  [chainId |-> 4663, maxConns |-> 10, minConns |-> 1, maxRetries |-> 3, timeout |-> 10,
   concurrency |-> 10, stopLoss |-> 5, capitalRecovery |-> 100, openPositions |-> 5,
   slippage |-> 100, initDataTTL |-> 15, rateLimit |-> 20, maxPosition |-> 5]
AtLeast ==
  [chainId |-> 1, maxConns |-> 1, minConns |-> 0, maxRetries |-> 0, timeout |-> 1, concurrency |-> 1,
   stopLoss |-> 1, capitalRecovery |-> 1, openPositions |-> 1, slippage |-> 0, initDataTTL |-> 1,
   rateLimit |-> 1]
AtMost == [stopLoss |-> 99, slippage |-> 10000]
Int32  == {"maxConns", "minConns"}

\* getInt32 drops the bits that do not fit.
Cut(k, n) == IF k \in Int32 THEN Signed(n, IntWidth) ELSE n

\* The getters: an unset variable takes its default, junk is an error.
Parses(v)    == v.form # "junk"
Setting(e, k) == IF e.num[k].form = "unset" THEN Default[k] ELSE Cut(k, e.num[k].n)

\* Load and validate. The allowlist is parsed by getInt64List.
Valid(e) ==
  /\ \A k \in DOMAIN Default : Parses(e.num[k])
  /\ e.ids # "junk"
  /\ e.url
  /\ \A k \in DOMAIN AtLeast : Setting(e, k) >= AtLeast[k]
  /\ \A k \in DOMAIN AtMost : Setting(e, k) <= AtMost[k]
  /\ Setting(e, "minConns") <= Setting(e, "maxConns")
  /\ e.token => e.ids = "listed"

-----------------------------------------------------------------------------
(* Starting                                                                *)

Goto(from, to) == stage = from /\ stage' = to

\* The first error is kept.
Return(e) == first' = IF first = "none" THEN e ELSE first

\* run starts: an invalid environment, or a bot without a token, ends it.
LoadConfig ==
  /\ stage = "load"
  /\ IF Valid(env) /\ (kind = "bot" => env.token)
     THEN stage' = "postgres" /\ UNCHANGED <<first, failed>>
     ELSE stage' = "unwind" /\ Return("error") /\ failed' = TRUE
  /\ UNCHANGED <<env, kind, alive, opened, svc, signal, serving, conns, left, code, ctx, callVars>>

NextDep(d) == IF d = "postgres" THEN "redis" ELSE "chain"

\* Connect builds a client or a pool ...
Open(d) ==
  /\ stage = d /\ d \notin alive
  /\ alive' = alive \cup {d}
  /\ UNCHANGED <<env, kind, stage, opened, svc, signal, first, serving, conns, left, failed, code, ctx,
                 callVars>>

\* ... pings, and New keeps what will close it ...
Connect(d) ==
  /\ d \in alive
  /\ Goto(d, NextDep(d))
  /\ opened' = Append(opened, d)
  /\ UNCHANGED <<env, kind, alive, svc, signal, first, serving, conns, left, failed, code, ctx, callVars>>

\* An error after the signal may be the cancelled context, which run's caller
\* does not count as a failure, or one of its own.
Gives(e) ==
  /\ e = "cancelled" => signal
  /\ Return(e)
  /\ failed' = (failed \/ e = "error")

\* ... or closes it again when the ping fails. A pool may also fail to be built,
\* from an URL that does not parse.
ConnectFails(d) ==
  /\ d \in alive \/ d = "postgres"
  /\ Goto(d, "unwind")
  /\ alive' = alive \ {d}
  /\ \E e \in {"cancelled", "error"} : Gives(e)
  /\ UNCHANGED <<env, kind, opened, svc, signal, serving, conns, left, code, ctx, callVars>>

\* Dial opens a client and asks for the chain id ...
Dial ==
  /\ stage = "chain" /\ phase[Boot] = "idle"
  /\ alive' = alive \cup {"chain"}
  /\ Begin(Boot, "chain_id")
  /\ UNCHANGED <<env, kind, stage, opened, svc, signal, first, serving, conns, left, failed, code>>

\* ... keeps it when the node is on our chain ...
DialVerified ==
  /\ phase[Boot] = "done" /\ result[Boot] = "ok"
  /\ Goto("chain", "wire")
  /\ opened' = Append(opened, "chain")
  /\ Taken(Boot)
  /\ UNCHANGED <<env, kind, alive, svc, signal, first, serving, conns, left, failed, code, ctx>>

\* Mutation: the client of a refused chain stays open.
DialFails_KeepsClient ==
  /\ \/ phase[Boot] = "done" /\ result[Boot] # "ok"
     \/ phase[Boot] = "idle"
  /\ Goto("chain", "unwind")
  /\ \E e \in {"cancelled", "error"} : Gives(e)
  /\ Taken(Boot)
  /\ UNCHANGED <<env, kind, alive, opened, svc, signal, serving, conns, left, code, ctx>>

\* ... and closes it otherwise, or cannot even open it.
DialFails ==
  /\ \/ phase[Boot] = "done" /\ result[Boot] # "ok"
     \/ phase[Boot] = "idle"
  /\ Goto("chain", "unwind")
  /\ alive' = alive \ {"chain"}
  /\ \E e \in {"cancelled", "error"} : Gives(e)
  /\ Taken(Boot)
  /\ UNCHANGED <<env, kind, opened, svc, signal, serving, conns, left, code, ctx>>

Own == CASE kind = "api"    -> IF env.ws THEN {"http", "head"} ELSE {"http"}
         [] kind = "worker" -> {"queue", "scheduler"}
         [] kind = "bot"    -> {"bot"}

\* run opens the queue client, with a defer that closes it ...
OpenQueue ==
  /\ alive'  = alive \cup {"queue"}
  /\ opened' = Append(opened, "queue")

\* ... and starts its services ...
Wire ==
  /\ Goto("wire", "run")
  /\ OpenQueue
  /\ svc' = [s \in Services |-> IF s \in Own THEN "starting" ELSE "off"]
  /\ UNCHANGED <<env, kind, signal, first, serving, conns, left, failed, code, ctx, callVars>>

\* ... unless NewBot or NewNotifier, which call Telegram, fails.
WireFails ==
  /\ kind = "bot" \/ (kind = "worker" /\ env.token)
  /\ Goto("wire", "unwind")
  /\ OpenQueue
  /\ Gives("error")
  /\ UNCHANGED <<env, kind, svc, signal, serving, conns, left, code, ctx, callVars>>

-----------------------------------------------------------------------------
(* Running                                                                 *)

Front == {"http", "queue", "bot"}

\* A request, task or update arrives; the bot's handlers run under its context.
HandlerStarts(h) ==
  /\ stage = "run" /\ ~serving[h] /\ \E s \in Front : svc[s] = "up"
  /\ serving' = [serving EXCEPT ![h] = TRUE]
  /\ ctx'     = [ctx EXCEPT ![h] = IF kind = "bot" /\ signal THEN "cancelled" ELSE "live"]
  /\ UNCHANGED <<env, kind, stage, alive, opened, svc, signal, first, conns, left, failed, code, callVars>>

HandlerCalls(h, o) ==
  /\ stage # "exited" /\ serving[h] /\ h \notin conns
  /\ Begin(h, o)
  /\ UNCHANGED procVars

\* A repository takes a connection of the pool for its statements, none while it
\* waits for the node, and none once the pool is being closed.
HandlerQueries(h) ==
  /\ stage # "exited" /\ serving[h] /\ h \notin conns /\ phase[h] \in {"idle", "done"}
  /\ "postgres" \in alive
  /\ conns' = conns \cup {h}
  /\ UNCHANGED <<env, kind, stage, alive, opened, svc, signal, first, serving, left, failed, code, ctx,
                 callVars>>

QueryEnds(h) ==
  /\ stage # "exited" /\ h \in conns
  /\ conns' = conns \ {h}
  /\ UNCHANGED <<env, kind, stage, alive, opened, svc, signal, first, serving, left, failed, code, ctx,
                 callVars>>

HandlerEnds(h) ==
  /\ stage # "exited" /\ serving[h] /\ h \notin conns /\ phase[h] \in {"idle", "done"}
  /\ serving' = [serving EXCEPT ![h] = FALSE]
  /\ Taken(h)
  /\ UNCHANGED <<env, kind, stage, alive, opened, svc, signal, first, conns, left, failed, code, ctx>>

\* The service listens, polls or has called getMe ...
Started(s) ==
  /\ stage = "run" /\ svc[s] = "starting"
  /\ svc' = [svc EXCEPT ![s] = "up"]
  /\ UNCHANGED <<env, kind, stage, alive, opened, signal, first, serving, conns, left, failed, code, ctx, callVars>>

\* ... or cannot. The http server may also stop accepting later, and then
\* returns without draining. The subscriber never gives up.
ServiceFails(s) ==
  /\ stage = "run" /\ s # "head"
  /\ svc[s] = "starting" \/ (svc[s] = "up" /\ s = "http")
  /\ svc'  = [svc EXCEPT ![s] = "down"]
  /\ left' = (left \/ (s = "http" /\ \E h \in Handlers : serving[h]))
  /\ \E e \in {"cancelled", "error"} : (e = "cancelled" => s = "bot") /\ Gives(e)
  /\ UNCHANGED <<env, kind, stage, alive, opened, signal, serving, conns, code, ctx, callVars>>

\* The errgroup's context: a signal, or a service that has returned an error.
Stopping == stage = "run" /\ (signal \/ first # "none")

\* Mutation: the subscriber returns the context's error as it is.
Stop_HeadCancelled(s) ==
  /\ Stopping /\ svc[s] = "up"
  /\ svc' = [svc EXCEPT ![s] = IF s \in {"http", "queue"} THEN "draining" ELSE "down"]
  /\ IF s = "head" THEN Return("cancelled") ELSE UNCHANGED first
  /\ UNCHANGED <<env, kind, stage, alive, opened, signal, serving, conns, left, failed, code, ctx, callVars>>

\* Services with requests or tasks under way drain them; the subscriber, the
\* scheduler and the bot just return, the bot's handlers notwithstanding.
Stop(s) ==
  /\ Stopping /\ svc[s] = "up"
  /\ svc' = [svc EXCEPT ![s] = IF s \in {"http", "queue"} THEN "draining" ELSE "down"]
  /\ UNCHANGED <<env, kind, stage, alive, opened, signal, first, serving, conns, left, failed, code, ctx, callVars>>

\* Mutation: the server is closed without waiting.
Drained_AtOnce(s) ==
  /\ svc[s] = "draining"
  /\ svc' = [svc EXCEPT ![s] = "down"]
  /\ UNCHANGED <<env, kind, stage, alive, opened, signal, first, serving, conns, left, failed, code, ctx, callVars>>

Drained(s) ==
  /\ svc[s] = "draining" /\ \A h \in Handlers : ~serving[h]
  /\ svc' = [svc EXCEPT ![s] = "down"]
  /\ UNCHANGED <<env, kind, stage, alive, opened, signal, first, serving, conns, left, failed, code, ctx, callVars>>

\* Mutation: Shutdown gets a context without a deadline.
DrainTimesOut_Never(s) == FALSE /\ UNCHANGED vars

\* SHUTDOWN_TIMEOUT or WORKER_SHUTDOWN_TIMEOUT passes with handlers in flight:
\* an error of the http server, none of the queue's, which gives the tasks back.
DrainTimesOut(s) ==
  /\ svc[s] = "draining" /\ \E h \in Handlers : serving[h]
  /\ svc'     = [svc EXCEPT ![s] = "down"]
  /\ left' = TRUE
  /\ IF s = "http" THEN Gives("error") ELSE UNCHANGED <<first, failed>>
  /\ UNCHANGED <<env, kind, stage, alive, opened, signal, serving, conns, code, ctx, callVars>>

\* Wait returns once every service has.
Joined ==
  /\ \A s \in Services : svc[s] \in {"off", "down"}
  /\ Goto("run", "unwind")
  /\ UNCHANGED <<env, kind, alive, opened, svc, signal, first, serving, conns, left, failed, code, ctx, callVars>>

Last == opened[Len(opened)]

\* The defers, last opened first closed. The pool gives out no connection any
\* more ...
ClosePool ==
  /\ stage = "unwind" /\ opened # <<>> /\ Last = "postgres" /\ "postgres" \in alive
  /\ alive' = alive \ {"postgres"}
  /\ UNCHANGED <<env, kind, stage, opened, svc, signal, first, serving, conns, left, failed, code, ctx,
                 callVars>>

\* ... and its Close returns when it has got back those it has given.
CloseLast ==
  /\ stage = "unwind" /\ opened # <<>>
  /\ Last = "postgres" => "postgres" \notin alive /\ conns = {}
  /\ alive'  = alive \ {Last}
  /\ opened' = SubSeq(opened, 1, Len(opened) - 1)
  /\ UNCHANGED <<env, kind, stage, svc, signal, first, serving, conns, left, failed, code, ctx, callVars>>

\* main: a cancelled context is a clean exit. Handlers still running die here.
Exit ==
  /\ opened = <<>>
  /\ Goto("unwind", "exited")
  /\ code' = IF first = "error" THEN 1 ELSE 0
  /\ UNCHANGED <<env, kind, alive, opened, svc, signal, first, serving, conns, left, failed, ctx, callVars>>

\* The signal cancels what New and the bot's handlers run under; requests and
\* tasks have contexts of their own.
Signal ==
  /\ stage # "exited" /\ ~signal
  /\ signal' = TRUE
  /\ ctx' = [c \in Callers |-> IF ctx[c] = "live" /\ (c = Boot \/ kind = "bot")
                               THEN "cancelled" ELSE ctx[c]]
  /\ UNCHANGED <<env, kind, stage, alive, opened, svc, first, serving, conns, left, failed, code, callVars>>

-----------------------------------------------------------------------------
Init ==
  /\ env     \in Envs
  /\ kind    \in {"api", "bot", "worker"}
  /\ stage   = "load"
  /\ alive   = {}
  /\ opened  = <<>>
  /\ svc     = [s \in Services |-> "off"]
  /\ signal  = FALSE
  /\ first   = "none"
  /\ serving = [h \in Handlers |-> FALSE]
  /\ conns   = {}
  /\ left    = FALSE
  /\ failed  = FALSE
  /\ code    = -1
  /\ CallInit

\* What a process does of itself, one thing after another.
Progress ==
  \/ LoadConfig
  \/ \E d \in {"postgres", "redis"} : Open(d) \/ Connect(d) \/ ConnectFails(d)
  \/ Dial \/ DialVerified \/ DialFails
  \/ Wire \/ WireFails
  \/ \E s \in Services : Started(s) \/ Stop(s) \/ Drained(s) \/ DrainTimesOut(s)
  \/ Joined \/ ClosePool \/ CloseLast \/ Exit

Calling(c) == stage # "exited" /\ CallStep(c) /\ UNCHANGED procVars

Next ==
  \/ Progress \/ Signal
  \/ \E s \in Services : ServiceFails(s)
  \/ \E h \in Handlers : \/ HandlerStarts(h) \/ HandlerEnds(h)
                         \/ HandlerQueries(h) \/ QueryEnds(h)
                         \/ \E o \in Ops : HandlerCalls(h, o)
                         \/ stage # "exited" /\ serving[h] /\ CtxEnds(h) /\ UNCHANGED procVars
  \/ \E c \in Callers : Calling(c)

Spec == Init /\ [][Next]_vars

\* The process is scheduled, timeouts end every request to the node, every
\* connect, every drain and, through the context of its request, task or bot,
\* every statement. Nothing is assumed of signals, failures, nor of how long a
\* handler takes.
FairSpec ==
  /\ Spec
  /\ WF_vars(Progress)
  /\ \A c \in Callers : WF_vars(Calling(c))
  /\ \A h \in Handlers : WF_vars(QueryEnds(h))

-----------------------------------------------------------------------------
(* Correctness                                                             *)

\* However far a process has come when something fails or a signal arrives, no
\* handle is left open when it exits: not one that was opened and not yet handed
\* over to the closers either, as the client of a node on another chain or a pool
\* that does not answer its ping (New: "On any failure it closes whatever it
\* already opened, so a partial startup never leaks connections").
NothingLeaks == stage = "exited" => alive = {} /\ conns = {}

\* A handler finds a dependency closed under it only when its server has left
\* it behind, because the drain timed out or accepting failed, or in the bot,
\* whose handlers nobody waits for (Server.Run of httpapi: "drains connections
\* within timeout"; of queue: "drains in-flight tasks").
HandlersKeepTheirDeps ==
  \A h \in Handlers : serving[h] /\ alive # Deps => left \/ kind = "bot"

\* A process that exits with 0 has met no failure but its own shutdown: a drain
\* that ran over is not lost behind the errors of services that were cancelled
\* (run of cmd/api: context.Canceled from the subscriber is mapped to nil).
CleanExitIsTrue == stage = "exited" => (code = 0 <=> ~failed)

\* What validate says of a configured number of connections ("POSTGRES_MAX_CONNS
\* must be >= 1"), of the number in the environment.
MaxConnsAsConfigured ==
  stage = "run" => env.num["maxConns"].form = "unset" \/ env.num["maxConns"].n >= 1

\* A signal, or the failure of any service, ends the process, from whatever
\* stage and however long its handlers take (DrainTimesOut bounds the wait, the
\* dial gives up with its context, the pool waits for statements only).
StopsWhenTold == (signal \/ first # "none") ~> (stage = "exited")

\* Every call returns while the process lives: retries are bounded and each
\* request has a timeout (Client.call).
CallsEnd == \A c \in Callers : (phase[c] = "check") ~> (phase[c] = "done" \/ stage = "exited")
=============================================================================
