# hoodalpha in TLA+: wallets, chain head, requests and processes

hoodalpha is a Telegram trading bot backend. Three long-running processes share
one Postgres, one Redis (Asynq queues, replay guard, rate limits) and one chain
RPC endpoint: `cmd/api` (HTTP and Mini App), `cmd/bot` (Telegram long polling)
and `cmd/worker` (Asynq task handlers and cron). `cmd/migrate` and
`cmd/healthcheck` are one-shot tools. No process keeps money; what has to be
right is who may do what, which wallet is usable, which limits bind it, and
what the audit trail says about it.

## Inventory

| Component | State | Operations | Interacts through | What is hard |
|---|---|---|---|---|
| Wallet service (`application/wallet.go`, `postgres/wallets.go`, `domain/wallet.go`, migration 00005) | `wallets`, `wallet_policies`, `audit_logs` rows | Link, Verify, UpdatePolicy, Disable, List, Get | called by the Mini App and by `/connect`; enqueues `wallet:verify` | several statements per operation, no transaction around them; audit after the fact |
| Verification tasks (`queue/tasks/wallet.go`, `queue/enqueuer.go`, `queue/server.go`) | Asynq task states in Redis | enqueue, execute, retry, archive | runs `Verify` in workers | at-least-once delivery, stale executions, retries, crashes |
| Head tracking (`chain/subscriber.go`, `application/chainsync.go`, `postgres/syncstate.go`) | last head per process, `chain_sync_state` row | subscribe, reconnect, record, periodic sync | api and worker write one row | out-of-order heads, reorgs, reconnects |
| Chain client (`chain/client.go`, `chain/retry.go`) | attempt and last error of a call | calls with retry and backoff | used by everything that reads the chain | shift overflow, cancellation |
| Onboarding (`application/onboarding.go`, `postgres/users.go`, `domain/user.go`) | `users`, `telegram_users` | Authorize | first step of every command and Mini App request | concurrent first contact, suspension |
| Mini App authentication (`telegram/initdata`, `redis/guard.go`, `application/miniapp.go`, `httpapi/miniapp.go`) | one-use keys in Redis | Verify, FirstUse | in front of every Mini App route | clocks, expiry, several replicas |
| Front ends (`httpapi/miniapp.go`, `telegram/commands.go`) | none | POST and PUT wallet routes, `/connect` | turn the wallet service's errors into answers | errors recognised by their text, writes that fail after their effect |
| Router and rate limiter (`telegram/router.go`, `telegram/commands.go`, `redis/guard.go`) | window counters in Redis | Dispatch, Allow | in front of every command | window boundaries, Redis down |
| Health (`application/health.go`, `domain/health.go`, `cmd/healthcheck`) | time of the last head | Check | reads all of the above | concurrent probes, torn reads |
| Notifications (`tasks/wallet.go`, `telegram/notifier.go`) | Asynq tasks | send | nobody enqueues them yet | duplicates |
| Processes (`cmd/*/main.go`, `bootstrap/bootstrap.go`, `config/config.go`, the servers) | open connections, services in an errgroup, first error | load, connect, dial, serve, drain, close | own everything above | partial start-up, a signal at any time, handlers that outlast the drain |
| Migrations, logging | | | | |

What makes each correct is stated under *Hazards* in `PROJECT.json`, each with
the properties that would catch it going wrong.

## Modules

Read them in this order.

* `WalletLifecycle` is the abstract specification: the onboarding state
  machine of `domain/wallet.go` for every wallet, and at most one active bot
  wallet per account.
* `WalletService` is the detailed system. One statement or transaction on
  Postgres, one Redis command or one chain read is one step.
  *Requests* (`pc`) are the goroutines of api and bot that run `Link`,
  `UpdatePolicy` or `Disable`; a request's inputs are the request itself, and
  each is made at most once. *Executions* (`wpc`) are runs of the
  `wallet:verify` handler in any worker. *Asynq* is external: a task has a
  state, a retry count and the one execution whose result still counts
  (`holder`); a timeout or an expired lease takes the task away from an
  execution that goes on running. Failures are nondeterministic: a database
  write can return an error having had its effect or not, an audit write can
  be lost, the enqueue can fail, a request or a worker can die between any two
  steps, the node can report another chain.
* `Frontends` composes `WalletService` with its two callers, the Mini App's
  wallet routes and `/connect`. `answer` is what the caller is told: every step
  that ends a request of the service gives the status code or reply that the
  transport makes of its error. `wrote` remembers whether the request changed
  a row, which is what the answers are compared with.
* `HeadTracking` is how the processes follow the chain: each api process's
  `HeadSubscriber` (`sess` is where its `Run` loop is: dialling, live,
  recording a head, ended, waiting), the executions of `chain:sync_head` in
  any worker (`sync`, `got`) and the one row of `chain_sync_state` they all
  write (`stored`). The chain grows and reorganises; a subscription buffers
  `InboxCap` heads and is cut off beyond that; sockets drop, saves fail,
  processes restart.
* `Health` composes the subscriber with the `Check` that reports on it. Every
  component is asked in a goroutine of its own (`probe`); the subscriber's last
  head, its connection and the clock are read in separate steps while sessions
  end and begin. Ages stand for timestamps and the clock. `witness` remembers
  what held at some moment of the Check under way.
* `CommandPipeline` is the way of a Telegram update or a Mini App request to
  its handler: `Dispatch`, `Authorize`, the transaction of
  `EnsureTelegramUser` statement by statement under READ COMMITTED, with the
  lock on the `telegram_users` row (`holder`), and the fixed window limiter,
  whose key is computed before the increment (`key`, `count`) and whose counters
  expire one window after their last increment (`touched`). Every update
  runs in a goroutine of its own, the api process runs beside the bot, and the
  operator suspends and reinstates accounts with an UPDATE (`Rule`).
* `MiniAppAuth` is what a Mini App request passes before that:
  `requireInitData`, `Verify` with its checks in order, and `FirstUse`'s SETNX.
  Any request may carry any payload, so copies of one payload reach several
  replicas. The guard goes by `Key`, the text of the hash field; what was signed
  is the payload's `id`, and one `id` may come with several texts. `now` is Redis's clock; a replica's clock is any of `Clocks`, up to
  `Drift` away, and `checked` is when a request read it. Redis may fail to
  answer having set the entry or not.
* `ChainClient` is a call of the chain reader: `Client.call` and `Do` with the
  context of the caller, the classification of errors, attempts, and the delay
  with the width of its shift. The node answers anything. `asked` and `vain`
  count the requests of a call and those that got no answer.
* `Process` composes it with the process that dials it: `Load` and `validate`
  (`env`, `Setting`), the dependencies opened one after another, the services of
  the errgroup (`svc`), handlers in flight (`serving`), a signal, draining,
  unwinding and the exit code. A handle is open (`alive`) before its ping or its
  chain id is known, and only then among those that will be closed (`opened`, in
  that order), so `Connect` and `Dial` have to close it themselves when they
  refuse it. Handlers hold connections of the Postgres pool (`conns`), for which
  the pool's `Close` waits. `left` and `failed` are history.
* `Words` is what both of them need of signed machine integers: powers of two,
  the number that is left of one that does not fit (`Signed`), and the numbers
  that do (`Word`).
* The theorems are in `WalletServiceProofs`, `FrontendsProofs` (which builds on
  it), `HeadTrackingProofs`, `HealthProofs` (which builds on it),
  `CommandPipelineProofs`, `MiniAppAuthProofs`, `WordsProofs` and
  `ProcessProofs` (which builds on it); the modules called `MC...` hold the
  constants of the runs.

Definitions called `X_Y` in a module are mutations of its definition `X`: the
bug that a property is known to catch. No specification uses them.

### Abstractions

*Wallets.* Rows are never deleted, so a wallet is its unique key
(user, chain, address) and stands for its id; `Disable` can therefore never
miss it once linked, and the handler's not-found branch is dead
(`TaskHasWallet`). `audit_logs` is a set of events, because no property counts
them. A policy is its trading switch and one percentage bounded strictly on
both sides (as `stop_loss_percent`), counted in tenths of the last digit that
the `NUMERIC` column keeps, so that rounding is visible. `SetStatus` is only
ever called with `disabled`; its other transitions are in the table
`CanTransitionTo` and unreachable today. Retry delays and the retention of
completed tasks are left out: no guard depends on them.

*Front ends.* An answer is its kind, not its wording. A body that does not
decode, an unknown role and a word that looks like key material are one case
(`Unreadable`): the transport answers without the service. Verification tasks
are left out of the composition: no answer depends on what they change.

*Head and health.* A block is its chain, its number and a fork number that
stands for the hash. The RPC endpoint of a running worker is taken to stay on
the network that was checked when it was dialled, and a WebSocket connection to
stay with the node that reported its chain id. Ages are counted no further than
"too old". Latencies and the details of a report are left out.

*Pipeline.* Display fields and the text of replies are left out, as is the work
of a command: it is known or not and ends well or not. Time is counted in
windows: a counter may expire at any moment of the windows after the one it was
last incremented in.

*Authentication.* A payload is what was signed (`id`), its date, the first check
it fails (`Forms`) and the text of its hash; that a signature cannot be forged is
not in question here. Texts are names: of two genuine payloads with one `id` and
different texts both decode to the same bytes, and a genuine text belongs to one
payload.

*Chain client and processes.* What is read (blocks, receipts, logs) is reduced
to whether its conversion can fail. Settings are numbers with their range;
durations, floats and booleans parse or do not. Widths of integers are
constants, so that small numbers overflow. Closing the Postgres pool is two
steps, of which the second waits for the connections in use; closing any other
dependency is one. An error it returns is only logged.

## Runs

| Run | Bounds | Shows |
|---|---|---|
| `wallet_verify` | 2 bot wallets of 1 account, 2 executions, 1 retry, fair | the race for the bot slot, conflicts that are retried and archived, stale executions: `OneActiveBot`, `CompletedMeansDecided`, `TaskHasWallet`; every enqueued task is completed or archived (`TaskSettles`) |
| `wallet_disable` | 1 wallet, 2 links, 3 disables (1 by a stranger), 2 updates (1 invalid), 2 executions, 1 retry | a disable that holds against late promotions (`DisabledStaysOff`), promotion only after our chain id was read (`ActivatedOnOurChain`), the refinement of `WalletLifecycle` (`ImplementsLifecycle`) |
| `wallet_front` | 1 address linked over both transports, the zero address, 5 updates around the boundaries (2 by a stranger, 1 of them invalid) | limits within bounds after rounding, trading only by the owner's request, nobody else moves anything; a refusal means that nothing changed (`RefusedIsUntouched`), one request at most is told it created a wallet (`CreatedIsTheirs`), a stranger learns nothing (`NotYoursIsNotFound`) |
| `head_tracking` | 1 api process, 2 overlapping sync tasks, height 3, 1 reorganisation, fair | the row never rewinds and never holds a foreign head (`HeadNeverRewinds`, `OnlyOurHeads`), a dead socket is noticed (`DropIsNoticed`), the row catches up without any subscription (`HeadCatchesUp`) |
| `health` | 1 api process, 1 pinged dependency, heads older than 1 are stale, height 2, 1 reorganisation, fair | a ready report was true at one moment of its own Check despite the torn reads (`ReadyIsEarned`), lasting silence and lasting outages are reported (`SilenceIsReported`, `OutageIsReported`) |
| `pipeline_meet` | 2 commands, a Mini App request and chatter of 1 person, 3 account ids, a suspension and a reinstatement | accounts and identities stay one to one, one welcome per person, a suspension stops every later request |
| `pipeline_burst` | 2 commands of 1 person, a bot account and a stranger, limit 1, 2 windows, fair | no counter lets more than the limit pass in a window, also when it expires under a command about to increment it (`WithinRate`), what is turned away leaves no row, lock or count (`StrangersLeaveNoTrace`), every request ends: no row lock outlives its transaction |
| `miniapp_auth` | 2 requests, 7 payloads (2 of them one signature under two texts), TTL 2, skew and grace 3, clocks within 1 of Redis's, a stall of 1, Telegram's clock up to 6 ahead, time to 9 | one acceptance per key (`AcceptedOnce`), no gap between the guard forgetting a payload and the TTL refusing it (`SpentWhileFresh`), no entry for a bad one (`EntriesAreEarned`) |
| `process` | each kind of process, 6 environments, 1 handler, 3 retries, 4-bit durations, 5-bit connection limits, fair | see below |

`process` asks of the whole life of a process: a request is sent only for a
caller that has not given up, and only when the node has answered none before it
(`AsksOnlyInVain`), the retries are all used before a call gives up without an
answer and never exceeded (`TriesAsConfigured`), the pause before a retry is
within its limits as long as the doubled delay fits (`PatientRetries`), no handle
is left open, also not one that was refused while it was being opened
(`NothingLeaks`), a handler loses its dependencies only when its server has left
it behind (`HandlersKeepTheirDeps`), exit code 0 means that nothing failed
(`CleanExitIsTrue`), a signal or a failing service ends the process although the
pool waits for its connections (`StopsWhenTold`) and every call returns
(`CallsEnd`).

`AcceptedOnce` and `SpentWhileFresh` are about payloads that are `Timely`: how
far Telegram's clock was ahead at the signing, the replicas' drift and the time
`FirstUse` may take fit together into the grace. Skew and grace are equal in the
run, as they are in the code (one minute), so a payload dated ahead by the whole
skew has no grace left for drift or delay; the run has such a payload, of which
only `EntriesAreEarned` speaks.

`WithinRate` is about one counter during one window, and no more is true. A
command that computes its key at the end of a window and increments after it is
counted with the window before, anew if that counter has expired: the comment on
`RateLimiter` accepts such a burst at a window edge.

*Why the bounds are enough.* Two wallets are enough for the slot, because a
conflict is between a pair. Two executions are enough for staleness, because a
third only repeats what the second does; one retry gives both a retried and an
archived failure. Two sync tasks and a subscriber already save heads in every
order; a second subscriber adds one more writer of the same kind (the proof
covers any number). A Check concerns one process, and heads that are fresh,
stale and missing all occur with `StaleAfter` 1. Three first contacts give a
winner, a loser that waited for its lock and one that finds the row; two
commands and a limit of 1 put one on either side of the limit, and two windows
one on either side of a boundary. Acceptance is about a pair of requests, and
time runs long enough for a payload to be fresh, stale, and for its entry to
expire. With 4 bits the delay overflows at the third attempt, and with 5 the
default connection limits still fit and others wrap onto legal and onto negative
numbers. A second handler or a
second service failure changes nothing that a process keeps.

`wallet_disable` identifies states that differ only in the limits remembered for
the audit trail and in events other than `wallet:disabled`, which
`DisabledStaysOff` speaks of (`MCView`): no step reads either back. `wallet_front`
leaves both out in the same way, as no property of it speaks of them.

Deadlock is not checked where requests or processes end and a system without
tasks is at rest. In `head_tracking` and `health` it is checked.

### Fairness

* `WalletService`: a goroutine that started a request or a task keeps running,
  Asynq keeps handing out tasks and gives up on executions that do not answer.
  Arrivals, crashes and failures are never forced, and success is not assumed:
  a fair execution may fail every time.
* `HeadTracking`: a subscriber's goroutine keeps running (weak fairness of
  `SubStep`, which may always fail to dial); cron keeps scheduling sync tasks
  (weak fairness of `SyncRead`); a save tried every minute succeeds sometime
  (strong fairness of `SyncSave`, as failures may come in between). The chain
  and the network owe nothing.
* `Health`: time passes, the subscriber's goroutine runs, and whoever probes
  goes on probing; each call of a Check has a timeout, so that its goroutines
  answer. That a dependency answers well is not assumed.
* `CommandPipeline`: every goroutine runs on unless it waits for a row's lock
  (weak fairness of `Step`). Failures may happen or not.
* `Process`: the process is scheduled (weak fairness of `Progress`), every
  request to the node ends with an answer or its timeout (weak fairness of
  `Calling`), and every statement ends, because the context it runs under does
  (weak fairness of `QueryEnds`): `middleware.Timeout` for http requests, the
  timeouts of Asynq tasks, the cancelled context of the bot. Signals, failures
  and the end of a handler are never forced; only the drain's timeout is.
* `Frontends` and `MiniAppAuth` are checked for safety alone.

### Claims the code does not keep

Three runs refute what a comment or the README says, each with its finding in
`PROJECT.json`. A verification of a disabled wallet is audited as
`wallet:verified` (`claim_verified_audit`). A wallet whose verification was not
enqueued, or failed for good, stays pending for ever, although comments speak
of a later verification and the state diagram of a failed wallet becoming
disabled (`claim_pending`). What was signed once is accepted again under another
text of its hash, because the guard's key is the text and the signature is
compared after decoding it, although the README has a captured payload refused on
second use (`claim_second_use`).

Three more configurations show smaller disagreements, one property each.
`ClaimBefore.cfg` (with `MCWalletService`): overlapping policy updates record a
wrong *before*, because the policy is read in an earlier statement than the
update. `ClaimMaxConns.cfg` (with `MCProcess`): a number of connections below one
passes `validate` when its low 32 bits are a legal number; `-4294967293` is taken
as 3. `ClaimBackoff.cfg` (with `MCProcess`): with more than 36 retries the backoff
of 250 ms does not double up to its limit but turns negative, and with more than
57 it is zero; in the model a narrower type needs fewer retries.

## Proofs

Every invariant and every action property of a passing run is the subject of a
theorem. Each holds for all values of the constants that satisfy the assumptions
named in the modules (`WalletAssumption`, `RequestAssumption`,
`BoundAssumption`; `HeadAssumption`, `HealthAssumption`; `PipelineAssumption`,
`FiniteRequests`; `AuthAssumption`; `ClientAssumption`, `ProcessAssumption`):
any number of accounts, wallets, requests, workers, payloads
and processes, and any bound.

**Wallets.** `TypeCorrect`, the safety invariants (`BotSlotExclusive`,
`CompletionDecides`, `DisableHolds`, `PoliciesHold`, `TradingAskedFor`,
`TasksHaveWallets`, `ActiveVerified`), the two action properties (`OwnersRule`,
`ChainConfirmed`) and the refinement of `WalletLifecycle` (`Refinement`). The
invariants are not inductive by themselves. `IInv` adds what a request has
established when it is at a step (`RequestInv`: the row exists, the caller owns
it, after SetStatus it is disabled) and what an execution has established
(`ExecutionInv`: the row exists, our chain id was read before the promotion,
and after it the wallet is decided), whether it still holds its lease or not.
The argument runs through the status machine: `LifecycleStep` shows that every
step is one of its steps or a stutter, `StatusMonotone` that rows do not vanish
and decisions are not taken back, and the rest follows because `RequestInv`,
`ExecutionInv` and the facts about tasks only speak of that. `RowStep` lists
the only ways in which a row is written.

**Front ends.** `RefusalsAreSafe`, `CreationIsTheirs`, `StrangersLearnNothing`,
and for the composition what `WalletService` promises by itself
(`FrontPoliciesHold`, `FrontOwnersRule`, and the refinement of
`WalletLifecycle`, `FrontRefinement`). `FrontSteps` shows that a step of a
transport is a step of the service, or ends a request early, or only reads;
early ends keep `IInv` (`EndsIInv`), so the service's invariant carries over.
On top of it `FrontInv` needs that nobody is answered before the end
(`EarlyInv`), and that of the requests that have inserted a row, whether they
are still writing their audit event or have been answered, no two are about the
same address (`LinkedInv`): without the first half `CreatedIsTheirs` would not
survive the answer.

**Head.** `HeadTypeCorrect`, `ForeignHeadsStayOut` and `HeadAdvances`. The
invariant `SessionInv` is what `OnlyOurHeads` needs: whatever a subscriber has
buffered or remembers comes from an endpoint whose chain id it has checked.

**Health.** `ReadinessIsEarned`, an action property: a Check that ends well has
its evidence. `EvidenceInv` carries it from read to read. The case that needs
care is a head that arrives between `Last` and the clock: the last head is
never older than the one the Check has seen, so a head that is recent by the
clock at the end was recent when `Connected` said yes. `ChecksOnlyRead` shows
that the composition implements `HeadTracking`'s `Spec`, fairness left aside, so
that whatever is proved of the subscriber holds while it is being checked.

**Pipeline.** `PipelineTypeCorrect`, `AccountsCorrespond`, `WelcomedOnce`,
`SuspensionStops`, `RateIsKept` and `NoTraceOfStrangers`. `OneAccountPerUser` is only preserved by a commit because of
what the transaction has relied on since its first statement: it still holds
the row's lock (`HolderInv`), the identity is still unlinked and the account it
inserted is its own and unseen (`PlaceInv`, `OwnAccountInv`). `EntitledInv`
carries the moment at which the account was active from the lookup through the
load to the handler. `WithinRate` counts requests and its invariant `BudgetInv`
compares the count with the counter: one that has let a command pass in the
present window was touched in it, so it has not expired since, and stands no
lower than the number of commands it has let pass in this window. Nothing is
assumed of when the increments come. `TraceInv` bounds the counter from above, by the
requests that were charged to it. Comparing cardinalities needs these sets to
be finite: `BudgetInv` carries that along for `WithinRate`, as a limit bounds
the requests that passed; only `NoTraceOfStrangers` uses `FiniteRequests`.

**Authentication.** `TypesHold`, `OneUse`, `NoGap` and `EntriesEarned`.
`CheckedInv` carries what the clock said from the check to the SETNX, which
comes at most `Stall` later; `EntryInv` says that the entry of an accepted
payload's key ends no earlier than the payload's signing plus TTL and grace. A
second acceptance under that key would need the payload to be fresh by some
clock after that, which the clocks do not allow for a payload that is `Timely`.
This is a condition of the two properties and not an assumption: in the code it
asks that Telegram's clock was ahead by less than a minute, less the drift and
the three seconds after which `FirstUse` gives up. `AuthAssumption` says only
that a genuine text belongs to one payload. The theorem is about keys: one
signature under two texts has two, which `claim_second_use` shows.

**Words.** The library's induction theorems take an operator as a parameter,
which the provers cannot instantiate. `WordsProofs` therefore derives induction
for a *set* of numbers from the well-foundedness of `<` (`LeastNatural`,
`Induction`), defines the graph of `Pow2` up to n and shows that it exists and
is unique (`PartExists`, `PartUnique`), and obtains the recursive equation
(`Pow2Def`). `SignedRange` and `SignedFits` say what the processes need: the
result is a word, and a number that fits is kept.

**Chain client and processes.** `AttemptsAreBounded`, `AsksForSomebody`,
`RetriesArePatient`, `ExitClosesAll`, `DepsOutliveHandlers` and `ExitCodeIsTrue`,
for any environments, handlers, retry settings and widths. `RetryInv` counts: at
the top of the loop every attempt so far has been one request in vain, and while
a request is out it is one ahead, so that the bound on attempts is one on
requests. It also ties the pause to the attempt it follows, and `DelayFacts` says
what the shift makes of it; nothing is said of a shift that has overflowed but
that the pause stays below its maximum. `HandleInv` is why nothing leaks: what is
alive is among the closers or is the one handle the present stage is opening,
whatever `Boot`'s call is doing, and connections are out only of a pool that has
not finished closing. `AwaitedInv` names who waits for a handler: a server of its
process that is up or draining. `VerdictInv` is why exit code 0 can be trusted:
errgroup keeps the first error, so a failure would be lost behind a
`context.Canceled` that came before it, and the invariant shows that only the
bot returns one and then has no other service left to fail. `ServicesInv` carries
which services exist.

**Only model-checked.** Liveness under fairness, which is out of the prover's
reach: `TaskSettles`, `DropIsNoticed`, `HeadCatchesUp`, `EveryRequestEnds`,
`SilenceIsReported`, `OutageIsReported`, `StopsWhenTold`, `CallsEnd`. The
refuted claims have nothing to prove.

## Not modelled

* Notifications: no code enqueues `telegram:notification` tasks, and the handler
  sends one message that nothing else depends on.
* Migrations: `cmd/migrate` is one call of goose, whose locking is its own.
* Logging, encoding of JSON, wording of replies.
* Routes and commands that only read, `List` and `Get`.
* `VerifyThirdParty` of `initdata`, which has no caller.
* `/connect`'s test for several words of key material: its caller passes the
  first word only, so it never applies.
* That the audit trail is complete: a failed write is only logged, and the
  models let any write be lost.
* How long a reconnect takes: the delay doubles with every session and a healthy
  one does not reset it. `HeadTracking` keeps the delay but nothing depends on
  its length.
* Latencies in health reports. (The one of `chain_rpc` is always 0: `checkChain`
  sets it in a deferred function, after its result has been copied.)

## Plan

Done: the models of every component that changes state, the runs, and a theorem
for each of their invariants and action properties. Left:

* The step lemmas behind the liveness properties (which step a waiting request
  can take next, what decreases) as safety theorems; the temporal conclusion
  stays with TLC.
* Notifications, once some code enqueues them.
