--------------------------- MODULE WalletService ---------------------------
(***************************************************************************)
(* Wallet onboarding: the requests that link, disable and re-limit wallets *)
(* (application/wallet.go over postgres/wallets.go, run by goroutines of   *)
(* the api and bot processes), the wallet:verify tasks they leave in       *)
(* Asynq, and the worker attempts that read the chain and promote a wallet *)
(* (queue/tasks/wallet.go).                                                *)
(*                                                                         *)
(* One statement or transaction against Postgres, one Redis command or one *)
(* chain read is one step; everything else interleaves between them. A     *)
(* database call can fail having had its effect or not, an audit write can *)
(* be lost (it is only logged), a request can die between two steps        *)
(* (process crash, cancelled request context), and Asynq can give a task   *)
(* to a second worker while the first still runs.                          *)
(***************************************************************************)
EXTENDS Integers

CONSTANTS
  Users,        \* accounts
  Wallets,      \* (user, chain, address) keys: rows are never deleted, so the
                \* key stands for the row's id
  Owner,        \* the account in a key
  BadAddrs,     \* keys whose address domain.NewWallet refuses
  Chains,       \* chain ids a node may report
  OurChain,     \* the configured chain id, which every row carries
  Reqs,         \* the requests that may arrive, each at most once
  Workers,      \* concurrent task executions, over all worker replicas
  MaxRetry,     \* asynq MaxRetry of a wallet:verify task (5 in the code)
  LimitTop,     \* the exclusive upper bound of a limit (100 %)
  DefaultLimit, \* the configured limit a new policy starts from
  NoWallet,     \* "no wallet"
  NoWorker      \* "no worker"

Roles == {"owner", "bot"}

\* WalletPolicy cut down to the switch and to one percentage that, like
\* stop_loss_percent, is bounded strictly on both sides.
Policies == [limit : Nat, trading : BOOLEAN]
NoPolicy == [limit |-> 0, trading |-> FALSE]

\* A request is what the transport hands to the service: who asks, for which
\* wallet, and the role (link) or policy (policy) asked for.
Requests ==
  [ id     : Nat,
    op     : {"link", "disable", "policy"},
    user   : Users,
    wallet : Wallets,
    role   : Roles,
    policy : Policies ]

ASSUME WalletAssumption ==
  /\ Owner \in [Wallets -> Users]
  /\ BadAddrs \subseteq Wallets
  /\ OurChain \in Chains
  /\ NoWallet \notin Wallets
  /\ NoWorker \notin Workers

\* A link request can only name a key of the account it is made for.
ASSUME RequestAssumption ==
  /\ Reqs \subseteq Requests
  /\ \A r \in Reqs : r.op = "link" => Owner[r.wallet] = r.user

ASSUME BoundAssumption ==
  /\ MaxRetry \in Nat
  /\ LimitTop \in Nat
  /\ DefaultLimit \in Nat

VARIABLES
  \* Postgres
  status,       \* wallets.status, "none" while there is no row
  role,         \* wallets.role
  verified,     \* wallets.verified_at IS NOT NULL
  policy,       \* the wallet_policies row, NoPolicy while there is none
  audit,        \* the events in audit_logs
  \* requests
  pc,           \* where each request is
  before,       \* UpdatePolicy's local variable of that name
  \* Asynq, in Redis
  task,         \* state of task "wallet-verify:<id>"
  retried,      \* how often it has been retried
  holder,       \* the execution whose result Asynq will accept
  \* workers
  wpc,          \* where each execution of the handler is
  job,          \* the wallet it verifies
  chainSeen     \* Verify's local variable id

db         == <<status, role, verified, policy>>
reqVars    == <<pc, before>>
queueVars  == <<task, retried, holder>>
workerVars == <<wpc, job, chainSeen>>
vars       == <<status, role, verified, policy, audit, pc, before,
                task, retried, holder, wpc, job, chainSeen>>

-----------------------------------------------------------------------------
(* Rules of domain/wallet.go and of the schema                             *)

\* WalletStatus.CanTransitionTo, the whole table.
CanTransitionTo(from, to) ==
  <<from, to>> \in { <<"pending",  "active">>,
                     <<"pending",  "disabled">>,
                     <<"active",   "disabled">>,
                     <<"disabled", "pending">> }

\* WalletPolicy.Validate, which both the service and the repository call.
Validate(p) == p.limit > 0 /\ p.limit < LimitTop

\* Limits are counted in units of 0.0001 %, of which ten make the last digit
\* that a NUMERIC(_, 3) column keeps.
Scale == 10

\* Such a column rounds what is written to it half up ...
Stored(p) == [p EXCEPT !.limit = ((@ + Scale \div 2) \div Scale) * Scale]

\* ... and the CHECK constraint sees the rounded value.
Check(p) == p.limit > 0 /\ p.limit < LimitTop

\* Mutation: the partial unique index is missing.
BotSlotTaken_NoIndex(w) == FALSE

\* The unique index wallets_one_active_bot_per_chain refuses to make w active.
BotSlotTaken(w) ==
  /\ role[w] = "bot"
  /\ \E v \in Wallets \ {w} :
       /\ Owner[v] = Owner[w]
       /\ role[v] = "bot"
       /\ status[v] = "active"

\* Mutation: Link takes the defaults as they are, trading switched on.
InitialPolicy_TradingKept == [limit |-> DefaultLimit, trading |-> TRUE]

\* The policy a new wallet starts with; trading is off whatever the defaults.
InitialPolicy == [limit |-> DefaultLimit, trading |-> FALSE]

Event(action, outcome, w) ==
  [ action |-> action, outcome |-> outcome, wallet |-> w,
    before |-> NoPolicy, after |-> NoPolicy ]

\* recordAudit: a failed write is logged and forgotten.
RecordAudit(e) == audit' \in {audit, audit \cup {e}}

-----------------------------------------------------------------------------
(* Requests                                                                *)

Step(r, from, to) ==
  /\ pc[r] = from
  /\ pc' = [pc EXCEPT ![r] = to]

New(r, op) == r.op = op /\ pc[r] = "new"

\* Link: NewWallet refuses the address, or the unique index the row.
LinkRejected(r) ==
  /\ New(r, "link")
  /\ r.wallet \in BadAddrs \/ (Validate(InitialPolicy) /\ status[r.wallet] # "none")
  /\ Step(r, "new", "done")
  /\ RecordAudit(Event("wallet:linked", "rejected", r.wallet))
  /\ UNCHANGED <<db, before, queueVars, workerVars>>

\* Mutation: the INSERT has an ON CONFLICT ... DO UPDATE clause.
InsertWallet_Upsert(r) ==
  /\ r.wallet \notin BadAddrs
  /\ status' = [status EXCEPT ![r.wallet] = "pending"]
  /\ role'   = [role EXCEPT ![r.wallet] = r.role]
  /\ policy' = [policy EXCEPT ![r.wallet] = Stored(InitialPolicy)]
  /\ UNCHANGED verified

\* The one transaction of WalletRepo.Link: a pending row and its policy.
InsertWallet(r) ==
  /\ r.wallet \notin BadAddrs
  /\ status[r.wallet] = "none"
  /\ Validate(InitialPolicy)
  /\ Check(Stored(InitialPolicy))
  /\ status' = [status EXCEPT ![r.wallet] = "pending"]
  /\ role'   = [role EXCEPT ![r.wallet] = r.role]
  /\ policy' = [policy EXCEPT ![r.wallet] = Stored(InitialPolicy)]
  /\ UNCHANGED verified

LinkStore(r) ==
  /\ New(r, "link")
  /\ InsertWallet(r)
  /\ Step(r, "new", "linked")
  /\ UNCHANGED <<audit, before, queueVars, workerVars>>

\* Mutation: the error path falls through to the enqueue.
LinkFailed_Enqueues(r) ==
  /\ New(r, "link")
  /\ r.wallet \notin BadAddrs
  /\ UNCHANGED db
  /\ Step(r, "new", "done")
  /\ task' = [task EXCEPT ![r.wallet] = "pending"]
  /\ UNCHANGED <<audit, before, retried, holder, workerVars>>

\* The store returns an error (bad default policy, database down, lost commit
\* acknowledgement): the rows may be there or not, nothing is enqueued.
LinkFailed(r) ==
  /\ New(r, "link")
  /\ r.wallet \notin BadAddrs
  /\ InsertWallet(r) \/ UNCHANGED db
  /\ Step(r, "new", "done")
  /\ RecordAudit(Event("wallet:linked", "failed", r.wallet))
  /\ UNCHANGED <<before, queueVars, workerVars>>

LinkAudit(r) ==
  /\ Step(r, "linked", "link_audited")
  /\ RecordAudit(Event("wallet:linked", "ok", r.wallet))
  /\ UNCHANGED <<db, before, queueVars, workerVars>>

\* EnqueueWalletVerify: a task ID already known to Asynq counts as success.
LinkEnqueue(r) ==
  /\ Step(r, "link_audited", "done")
  /\ task' = [task EXCEPT ![r.wallet] = IF @ = "none" THEN "pending" ELSE @]
  /\ UNCHANGED <<db, audit, before, retried, holder, workerVars>>

\* Redis refused the task; Link logs it and reports success to the user.
LinkEnqueueFails(r) ==
  /\ Step(r, "link_audited", "done")
  /\ UNCHANGED <<db, audit, before, queueVars, workerVars>>

\* Disable and UpdatePolicy: no such wallet, or somebody else's.
NotOwned(r) ==
  /\ r.op \in {"disable", "policy"}
  /\ status[r.wallet] = "none" \/ Owner[r.wallet] # r.user
  /\ Step(r, "new", "done")
  /\ UNCHANGED <<db, audit, before, queueVars, workerVars>>

\* Mutation: the ownership check is missing.
Owned_Anyone(r, op) ==
  /\ New(r, op)
  /\ status[r.wallet] # "none"

Owned(r, op) ==
  /\ New(r, op)
  /\ status[r.wallet] # "none"
  /\ Owner[r.wallet] = r.user

DisableGet(r) ==
  /\ Owned(r, "disable")
  /\ Step(r, "new", "disabling")
  /\ UNCHANGED <<db, audit, before, queueVars, workerVars>>

\* SetStatus reads the row: already disabled is success ...
SetStatusSame(r) ==
  /\ status[r.wallet] = "disabled"
  /\ Step(r, "disabling", "disabled")
  /\ UNCHANGED <<db, audit, before, queueVars, workerVars>>

\* ... a legal transition goes on to the UPDATE ...
SetStatusRead(r) ==
  /\ status[r.wallet] # "disabled"
  /\ CanTransitionTo(status[r.wallet], "disabled")
  /\ Step(r, "disabling", "disable_write")
  /\ UNCHANGED <<db, audit, before, queueVars, workerVars>>

\* Mutation: the UPDATE only matches an active row.
SetStatusWrite_IfActive(r) ==
  /\ Step(r, "disable_write", "disabled")
  /\ status' = [status EXCEPT ![r.wallet] = IF @ = "active" THEN "disabled" ELSE @]
  /\ UNCHANGED <<role, verified, policy, audit, before, queueVars, workerVars>>

\* ... which has only the id in its WHERE clause: it overwrites whatever the
\* status has become since.
SetStatusWrite(r) ==
  /\ Step(r, "disable_write", "disabled")
  /\ status' = [status EXCEPT ![r.wallet] = "disabled"]
  /\ UNCHANGED <<role, verified, policy, audit, before, queueVars, workerVars>>

\* The UPDATE returns an error, having had its effect or not; not audited.
SetStatusFails(r) ==
  /\ Step(r, "disable_write", "done")
  /\ status' \in {status, [status EXCEPT ![r.wallet] = "disabled"]}
  /\ UNCHANGED <<role, verified, policy, audit, before, queueVars, workerVars>>

DisableAudit(r) ==
  /\ Step(r, "disabled", "done")
  /\ RecordAudit(Event("wallet:disabled", "ok", r.wallet))
  /\ UNCHANGED <<db, before, queueVars, workerVars>>

\* Mutation: the limits are validated before the wallet is looked for.
PolicyInvalid_First(r) ==
  /\ New(r, "policy")
  /\ ~Validate(r.policy)
  /\ Step(r, "new", "done")
  /\ RecordAudit(Event("policy:changed", "rejected", r.wallet))
  /\ UNCHANGED <<db, before, queueVars, workerVars>>

PolicyInvalid(r) ==
  /\ Owned(r, "policy")
  /\ ~Validate(r.policy)
  /\ Step(r, "new", "done")
  /\ RecordAudit(Event("policy:changed", "rejected", r.wallet))
  /\ UNCHANGED <<db, before, queueVars, workerVars>>

PolicyGet(r) ==
  /\ Owned(r, "policy")
  /\ Validate(r.policy)
  /\ Step(r, "new", "policy_checked")
  /\ UNCHANGED <<db, audit, before, queueVars, workerVars>>

PolicyBefore(r) ==
  /\ Step(r, "policy_checked", "policy_read")
  /\ before' = [before EXCEPT ![r] = policy[r.wallet]]
  /\ UNCHANGED <<db, audit, queueVars, workerVars>>

\* Mutation: no CHECK constraint behind Validate.
WritePolicy_NoCheck(r) ==
  /\ policy' = [policy EXCEPT ![r.wallet] = Stored(r.policy)]
  /\ UNCHANGED <<status, role, verified>>

WritePolicy(r) ==
  /\ Check(Stored(r.policy))
  /\ policy' = [policy EXCEPT ![r.wallet] = Stored(r.policy)]
  /\ UNCHANGED <<status, role, verified>>

PolicyWrite(r) ==
  /\ WritePolicy(r)
  /\ Step(r, "policy_read", "policy_written")
  /\ UNCHANGED <<audit, before, queueVars, workerVars>>

\* The UPDATE returns an error: CHECK violation, or a database failure that
\* may have let it through. Audited as rejected either way.
PolicyRejected(r) ==
  /\ Step(r, "policy_read", "done")
  /\ WritePolicy(r) \/ UNCHANGED db
  /\ RecordAudit(Event("policy:changed", "rejected", r.wallet))
  /\ UNCHANGED <<before, queueVars, workerVars>>

\* The event carries the limits read earlier and the limits asked for.
PolicyAudit(r) ==
  /\ Step(r, "policy_written", "done")
  /\ RecordAudit([Event("policy:changed", "ok", r.wallet)
                    EXCEPT !.before = before[r], !.after = r.policy])
  /\ UNCHANGED <<db, before, queueVars, workerVars>>

\* The process crashes, the request's context is cancelled or a read fails
\* between two steps. Nothing is undone and nothing more is done.
RequestDies(r) ==
  /\ pc[r] \notin {"new", "done"}
  /\ pc' = [pc EXCEPT ![r] = "done"]
  /\ UNCHANGED <<db, audit, before, queueVars, workerVars>>

RequestStep(r) ==
  \/ LinkAudit(r) \/ LinkEnqueue(r) \/ LinkEnqueueFails(r)
  \/ SetStatusSame(r) \/ SetStatusRead(r) \/ SetStatusWrite(r)
  \/ SetStatusFails(r) \/ DisableAudit(r)
  \/ PolicyBefore(r) \/ PolicyWrite(r) \/ PolicyRejected(r) \/ PolicyAudit(r)

RequestArrives(r) ==
  \/ LinkRejected(r) \/ LinkStore(r) \/ LinkFailed(r)
  \/ NotOwned(r) \/ DisableGet(r) \/ PolicyInvalid(r) \/ PolicyGet(r)

-----------------------------------------------------------------------------
(* Asynq and the workers                                                   *)

\* Mutation: one retry too many.
Settle_OffByOne(w, result) ==
  LET again == result = "error" /\ retried[w] <= MaxRetry IN
  /\ task'    = [task EXCEPT ![w] = IF result = "ok" THEN "completed"
                                    ELSE IF again THEN "retry" ELSE "archived"]
  /\ retried' = IF again THEN [retried EXCEPT ![w] = @ + 1] ELSE retried
  /\ holder'  = [holder EXCEPT ![w] = NoWorker]

\* What Asynq does with the result of an execution it still waits for.
Settle(w, result) ==
  LET again == result = "error" /\ retried[w] < MaxRetry IN
  /\ task'    = [task EXCEPT ![w] = IF result = "ok" THEN "completed"
                                    ELSE IF again THEN "retry" ELSE "archived"]
  /\ retried' = IF again THEN [retried EXCEPT ![w] = @ + 1] ELSE retried
  /\ holder'  = [holder EXCEPT ![w] = NoWorker]

\* The handler returns: the result of an execution that lost its lease is
\* dropped.
Return(k, result) ==
  /\ wpc'       = [wpc EXCEPT ![k] = "idle"]
  /\ job'       = [job EXCEPT ![k] = NoWallet]
  /\ chainSeen' = [chainSeen EXCEPT ![k] = OurChain]
  /\ IF holder[job[k]] = k THEN Settle(job[k], result) ELSE UNCHANGED queueVars

Dequeue(k, w) ==
  /\ wpc[k] = "idle"
  /\ task[w] \in {"pending", "retry"}
  /\ task'   = [task EXCEPT ![w] = "active"]
  /\ holder' = [holder EXCEPT ![w] = k]
  /\ wpc'    = [wpc EXCEPT ![k] = "get"]
  /\ job'    = [job EXCEPT ![k] = w]
  /\ UNCHANGED <<db, audit, reqVars, retried, chainSeen>>

\* Timeout or lease expiry: Asynq gives up on the execution, whose handler
\* may be dead or still running.
Expire(w) ==
  /\ task[w] = "active"
  /\ Settle(w, "error")
  /\ UNCHANGED <<db, audit, reqVars, workerVars>>

WorkerStep(k, from, to) ==
  /\ wpc[k] = from
  /\ wpc' = [wpc EXCEPT ![k] = to]

\* The row is there: a task is only enqueued after its row is committed, so
\* the handler's ErrNotFound branch is dead (TaskHasWallet).
VerifyGet(k) ==
  /\ WorkerStep(k, "get", "chain")
  /\ status[job[k]] # "none"
  /\ UNCHANGED <<db, audit, reqVars, queueVars, job, chainSeen>>

VerifyChain(k, id) ==
  /\ WorkerStep(k, "chain", "check")
  /\ chainSeen' = [chainSeen EXCEPT ![k] = id]
  /\ UNCHANGED <<db, audit, reqVars, queueVars, job>>

\* ErrWrongChain is audited and not retried.
VerifyWrongChain(k) ==
  /\ wpc[k] = "check"
  /\ chainSeen[k] # OurChain
  /\ RecordAudit(Event("wallet:verify_failed", "failed", job[k]))
  /\ Return(k, "skip")
  /\ UNCHANGED <<db, reqVars>>

\* Mutation: the chain id is read but not compared.
VerifyBalance_AnyChain(k) ==
  /\ WorkerStep(k, "check", "mark")
  /\ UNCHANGED <<db, audit, reqVars, queueVars, job, chainSeen>>

\* The chain id matches and the balance, whatever it is, can be read.
VerifyBalance(k) ==
  /\ WorkerStep(k, "check", "mark")
  /\ chainSeen[k] = OurChain
  /\ UNCHANGED <<db, audit, reqVars, queueVars, job, chainSeen>>

VerifyBalanceFails(k) ==
  /\ wpc[k] = "check"
  /\ chainSeen[k] = OurChain
  /\ RecordAudit(Event("wallet:verify_failed", "failed", job[k]))
  /\ Return(k, "error")
  /\ UNCHANGED <<db, reqVars>>

\* Mutation: the UPDATE has no status in its WHERE clause.
PromotePending_Unguarded(w) ==
  /\ ~BotSlotTaken(w)
  /\ status'   = [status EXCEPT ![w] = "active"]
  /\ verified' = [verified EXCEPT ![w] = TRUE]
  /\ UNCHANGED <<role, policy>>

\* The UPDATE of WalletRepo.MarkVerified. Its WHERE clause leaves a wallet
\* that is no longer pending alone.
PromotePending(w) ==
  IF status[w] = "pending"
    THEN /\ ~BotSlotTaken(w)
         /\ status'   = [status EXCEPT ![w] = "active"]
         /\ verified' = [verified EXCEPT ![w] = TRUE]
         /\ UNCHANGED <<role, policy>>
    ELSE UNCHANGED db

MarkVerified(k) ==
  /\ WorkerStep(k, "mark", "marked")
  /\ PromotePending(job[k])
  /\ UNCHANGED <<audit, reqVars, queueVars, job, chainSeen>>

\* Mutation: the refused promotion is reported as done.
MarkConflict_Swallowed(k) ==
  /\ wpc[k] = "mark"
  /\ status[job[k]] = "pending"
  /\ BotSlotTaken(job[k])
  /\ Return(k, "ok")
  /\ UNCHANGED <<db, audit, reqVars>>

\* The unique index refuses the promotion: to the handler an error like any
\* other, to be retried.
MarkConflict(k) ==
  /\ wpc[k] = "mark"
  /\ status[job[k]] = "pending"
  /\ BotSlotTaken(job[k])
  /\ Return(k, "error")
  /\ UNCHANGED <<db, audit, reqVars>>

\* Mutation: the handler schedules itself afresh instead of returning the error.
VerifyFails_Requeues(k) ==
  /\ wpc[k] \in {"get", "chain", "mark", "reget"}
  /\ wpc'       = [wpc EXCEPT ![k] = "idle"]
  /\ job'       = [job EXCEPT ![k] = NoWallet]
  /\ chainSeen' = [chainSeen EXCEPT ![k] = OurChain]
  /\ task'      = [task EXCEPT ![job[k]] = "pending"]
  /\ retried'   = [retried EXCEPT ![job[k]] = 0]
  /\ holder'    = [holder EXCEPT ![job[k]] = NoWorker]
  /\ UNCHANGED <<db, audit, reqVars>>

\* The database or the chain fails a call; the promotion may have happened.
VerifyFails(k) ==
  /\ wpc[k] \in {"get", "chain", "mark", "reget"}
  /\ UNCHANGED db \/ (wpc[k] = "mark" /\ PromotePending(job[k]))
  /\ Return(k, "error")
  /\ UNCHANGED <<audit, reqVars>>

VerifyAudit(k) ==
  /\ WorkerStep(k, "marked", "reget")
  /\ RecordAudit(Event("wallet:verified", "ok", job[k]))
  /\ UNCHANGED <<db, reqVars, queueVars, job, chainSeen>>

VerifyDone(k) ==
  /\ wpc[k] = "reget"
  /\ Return(k, "ok")
  /\ UNCHANGED <<db, audit, reqVars>>

\* The worker process dies; Asynq learns of it when the lease expires.
WorkerDies(k) ==
  /\ wpc[k] # "idle"
  /\ wpc'       = [wpc EXCEPT ![k] = "idle"]
  /\ job'       = [job EXCEPT ![k] = NoWallet]
  /\ chainSeen' = [chainSeen EXCEPT ![k] = OurChain]
  /\ UNCHANGED <<db, audit, reqVars, queueVars>>

HandlerStep(k) ==
  \/ VerifyGet(k)
  \/ \E id \in Chains : VerifyChain(k, id)
  \/ VerifyWrongChain(k) \/ VerifyBalance(k) \/ VerifyBalanceFails(k)
  \/ MarkVerified(k) \/ MarkConflict(k) \/ VerifyFails(k)
  \/ VerifyAudit(k) \/ VerifyDone(k)

-----------------------------------------------------------------------------
Init ==
  /\ status    = [w \in Wallets |-> "none"]
  /\ role      = [w \in Wallets |-> "owner"]
  /\ verified  = [w \in Wallets |-> FALSE]
  /\ policy    = [w \in Wallets |-> NoPolicy]
  /\ audit     = {}
  /\ pc        = [r \in Reqs |-> "new"]
  /\ before    = [r \in Reqs |-> NoPolicy]
  /\ task      = [w \in Wallets |-> "none"]
  /\ retried   = [w \in Wallets |-> 0]
  /\ holder    = [w \in Wallets |-> NoWorker]
  /\ wpc       = [k \in Workers |-> "idle"]
  /\ job       = [k \in Workers |-> NoWallet]
  /\ chainSeen = [k \in Workers |-> OurChain]

RequestAction(r) == RequestArrives(r) \/ RequestStep(r) \/ RequestDies(r)

WorkerAction ==
  \/ \E w \in Wallets : Expire(w) \/ \E k \in Workers : Dequeue(k, w)
  \/ \E k \in Workers : HandlerStep(k) \/ WorkerDies(k)

Next == (\E r \in Reqs : RequestAction(r)) \/ WorkerAction

Spec == Init /\ [][Next]_vars

\* A goroutine that has started a request or a task keeps running, Asynq keeps
\* handing out tasks and giving up on executions. Arrivals, crashes and
\* expiries of healthy executions are not forced.
Fairness ==
  /\ \A r \in Reqs : WF_vars(RequestStep(r))
  /\ \A k \in Workers : WF_vars(HandlerStep(k))
  /\ \A w \in Wallets : /\ WF_vars(Expire(w))
                        /\ WF_vars(\E k \in Workers : Dequeue(k, w))

FairSpec == Spec /\ Fairness

-----------------------------------------------------------------------------
(* Correctness                                                             *)

PcStates == {"new", "linked", "link_audited", "disabling", "disable_write",
             "disabled", "policy_checked", "policy_read", "policy_written", "done"}

AuditEvents ==
  [ action  : {"wallet:linked", "wallet:disabled", "wallet:verified",
               "wallet:verify_failed", "policy:changed"},
    outcome : {"ok", "rejected", "failed"},
    wallet  : Wallets, before : Policies, after : Policies ]

\* Types of the rows, the audit trail, the queue and the local variables; an
\* execution has a wallet exactly while it runs.
TypeOK ==
  /\ status    \in [Wallets -> {"none", "pending", "active", "disabled"}]
  /\ role      \in [Wallets -> Roles]
  /\ verified  \in [Wallets -> BOOLEAN]
  /\ policy    \in [Wallets -> Policies]
  /\ audit     \subseteq AuditEvents
  /\ pc        \in [Reqs -> PcStates]
  /\ before    \in [Reqs -> Policies]
  /\ task      \in [Wallets -> {"none", "pending", "active", "retry", "completed", "archived"}]
  /\ retried   \in [Wallets -> 0 .. MaxRetry]
  /\ holder    \in [Wallets -> Workers \cup {NoWorker}]
  /\ wpc       \in [Workers -> {"idle", "get", "chain", "check", "mark", "marked", "reget"}]
  /\ job       \in [Workers -> Wallets \cup {NoWallet}]
  /\ chainSeen \in [Workers -> Chains]
  /\ \A k \in Workers : (job[k] = NoWallet) <=> (wpc[k] = "idle")

\* At most one active bot wallet per account, whatever verifications, retries
\* and disables overlap (migration 00005: "would make position and balance
\* accounting ambiguous").
OneActiveBot ==
  \A v, w \in Wallets :
    /\ Owner[v] = Owner[w]
    /\ role[v] = "bot" /\ role[w] = "bot"
    /\ status[v] = "active" /\ status[w] = "active"
    => v = w

\* A verification task never finds its wallet missing: Link enqueues only what
\* it has committed, so the worker's ErrNotFound branch stays unused.
TaskHasWallet ==
  \A w \in Wallets : task[w] # "none" => status[w] # "none"

\* A task that Asynq counts as completed has decided its wallet: no wallet is
\* left pending behind a success, although MarkVerified ignores that it
\* updated no row and another bot wallet can refuse the promotion.
CompletedMeansDecided ==
  \A w \in Wallets : task[w] = "completed" => status[w] \in {"active", "disabled"}

\* verified_at is the proof behind the status: every active wallet has it and
\* no pending one does (CHECK wallets_verified_implies_not_pending).
ActiveIsVerified ==
  \A w \in Wallets : /\ status[w] = "active" => verified[w]
                     /\ status[w] \in {"none", "pending"} => ~verified[w]

\* Once Disable has told its caller (and the audit trail) that a wallet is
\* off it is off, however many verifications were under way.
DisabledStaysOff ==
  \A w \in Wallets :
    Event("wallet:disabled", "ok", w) \in audit => status[w] = "disabled"

\* Every linked wallet has a policy within bounds, as stored: after the column
\* has rounded what Validate accepted ("a wallet without a policy would be a
\* wallet with no limits").
PolicyWithinBounds ==
  \A w \in Wallets :
    status[w] # "none" => Check(policy[w]) /\ policy[w].limit % Scale = 0

\* Trading is on only because the owner asked for it in a policy request of
\* their own: linking never sets it, nor does anybody else.
TradingIsExplicit ==
  \A w \in Wallets : policy[w].trading =>
    \E r \in Reqs : /\ r.op = "policy" /\ r.wallet = w /\ r.user = Owner[w]
                    /\ r.policy.trading
                    /\ pc[r] \in {"policy_written", "done"}

\* Only a request made by the wallet's owner disables it or moves its limits.
OnlyOwnerChanges ==
  [][ \A w \in Wallets :
        status[w] # "none" /\ (policy'[w] # policy[w]
                               \/ (status[w] # "disabled" /\ status'[w] = "disabled"))
        => \E r \in Reqs : /\ r.op # "link" /\ r.wallet = w /\ r.user = Owner[w]
                           /\ pc'[r] # pc[r] ]_vars

\* A wallet becomes active only through an execution that read our chain id
\* from the node, however stale that execution is by then.
ActivatedOnOurChain ==
  [][ \A w \in Wallets :
        status[w] # "active" /\ status'[w] = "active"
        => \E k \in Workers : job[k] = w /\ wpc[k] = "mark" /\ chainSeen[k] = OurChain ]_vars

\* The detailed system implements the status machine: in particular a
\* verification delivered late, twice or after a crash cannot bring back a
\* disabled wallet.
Lifecycle == INSTANCE WalletLifecycle WITH status <- status, role <- role
ImplementsLifecycle == Lifecycle!Spec

\* Every enqueued verification is settled: Asynq completes or archives it
\* after finitely many executions, through failures, conflicts over the bot
\* slot, worker crashes and expired leases.
TaskSettles ==
  \A w \in Wallets : task[w] = "pending" ~> task[w] \in {"completed", "archived"}

-----------------------------------------------------------------------------
(* The inductive invariant                                                 *)

\* What a request has established by the time it is at a step.
RequestInv ==
  \A r \in Reqs :
    /\ pc[r] \in {"linked", "link_audited"} =>
         r.op = "link" /\ status[r.wallet] # "none"
    /\ pc[r] \in {"disabling", "disable_write", "disabled"} =>
         r.op = "disable" /\ Owner[r.wallet] = r.user /\ status[r.wallet] # "none"
    /\ pc[r] \in {"policy_checked", "policy_read", "policy_written"} =>
         r.op = "policy" /\ Owner[r.wallet] = r.user /\ status[r.wallet] # "none"
    /\ pc[r] = "disabled" => status[r.wallet] = "disabled"

\* What an execution of the handler has established, holding its lease or not.
ExecutionInv ==
  \A k \in Workers :
    /\ wpc[k] # "idle" => status[job[k]] # "none"
    /\ wpc[k] = "mark" => chainSeen[k] = OurChain
    /\ wpc[k] \in {"marked", "reget"} => status[job[k]] \in {"active", "disabled"}

IInv ==
  /\ TypeOK
  /\ RequestInv
  /\ ExecutionInv
  /\ TaskHasWallet
  /\ OneActiveBot
  /\ ActiveIsVerified
  /\ CompletedMeansDecided
  /\ DisabledStaysOff
  /\ PolicyWithinBounds
  /\ TradingIsExplicit

-----------------------------------------------------------------------------
(* Claims of comments and docs that the code does not keep                 *)

\* tasks/wallet.go: "a duplicate delivery re-reads the chain and changes
\* nothing": then the trail says wallet:verified only of verified wallets.
VerifiedAuditIsTrue ==
  \A w \in Wallets : Event("wallet:verified", "ok", w) \in audit => verified[w]

\* application/wallet.go, of a wallet that was linked and whose verification
\* could not be enqueued: "a later manual or scheduled verification can still
\* promote it"; domain/wallet.go's diagram: one whose verification failed is
\* disabled. Something takes up a pending wallet that no task is left for.
PendingIsTakenUp ==
  \A w \in Wallets :
    (/\ status[w] = "pending"
     /\ task[w] \in {"none", "archived"}
     /\ Event("wallet:linked", "ok", w) \in audit
     /\ \A r \in Reqs : pc[r] # "link_audited")
    ~> (task[w] \notin {"none", "archived"} \/ status[w] # "pending")

\* application/wallet.go: "Record what changed": the limits UpdatePolicy will
\* record as "before" are the ones its UPDATE replaces.
AuditedBeforeIsReplaced ==
  [][ \A r \in Reqs :
        pc[r] = "policy_read" /\ pc'[r] = "policy_written"
        => before[r] = policy[r.wallet] ]_vars
=============================================================================
