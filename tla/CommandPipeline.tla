-------------------------- MODULE CommandPipeline ---------------------------
(***************************************************************************)
(* From a Telegram update or a Mini App request to a handler: Dispatch     *)
(* (telegram/router.go), Authorize (application/onboarding.go), the        *)
(* transaction of EnsureTelegramUser (postgres/users.go) and the fixed     *)
(* window limiter (redis/guard.go). The bot library runs each update in a  *)
(* goroutine of its own and the api process authorizes its requests over   *)
(* the same tables, so all of it interleaves. Display fields of the user,  *)
(* refreshed with every command, and the text of replies are left out.     *)
(***************************************************************************)
EXTENDS Integers, FiniteSets

CONSTANTS
  Requests,   \* updates and Mini App requests; records with the fields n, tid
              \* (Telegram id), via ("bot" or "miniapp"), bot (sent by a bot
              \* account) and text ("chatter", "known" or "unknown")
  Tids,       \* Telegram ids that occur
  Listed,     \* the ids of the configured allowlist
  Accounts,   \* ids for rows of users
  NoAccount, NoOne,
  RateLimit,  \* commands per window
  MaxWindow,  \* bound: windows
  MaxRulings  \* bound: suspensions and reinstatements by the operator

ASSUME PipelineAssumption ==
  /\ Tids \subseteq Int /\ Listed \subseteq Tids
  /\ \A q \in Requests : /\ q.tid \in Tids
                         /\ q.via \in {"bot", "miniapp"}
                         /\ q.bot \in BOOLEAN
                         /\ q.text \in {"chatter", "known", "unknown"}
  /\ NoAccount \notin Accounts
  /\ NoOne \notin Requests
  /\ RateLimit \in Nat \ {0}
  /\ MaxWindow \in Nat /\ MaxRulings \in Nat

\* Only where requests are counted.
ASSUME FiniteRequests == IsFiniteSet(Requests)

VARIABLES
  users,     \* users.status of each committed account
  links,     \* telegram_users: the account of each Telegram id
  holder,    \* who has written a row of telegram_users and not yet committed
  pc,        \* where each request is
  acct,      \* the account of the request's transaction
  created,   \* EnsureTelegramUser's result: this request made the account
  seen,      \* the status it has loaded
  out,       \* how the request ended
  window,    \* the current rate window
  key,       \* the window whose counter the request is about to increment
  count,     \* the counters in Redis
  touched,   \* the window of each counter's last increment
  passed,    \* how the request got past the limiter
  when,      \* history: the window in which its increment let it pass
  trail,     \* the audit events written
  rulings,   \* suspensions and reinstatements so far
  entitled   \* history: active, or without account, at some time since lookup

dbVars    == <<users, links, holder>>
txVars    == <<acct, created, seen>>
limitVars == <<window, key, count, touched, passed, when>>
vars      == <<users, links, holder, pc, acct, created, seen, out, window, key, count, touched,
               passed, when, trail, rulings, entitled>>

Windows == 0 .. MaxWindow
Steps   == {"new", "insert", "link", "refresh", "load", "commit", "decide", "limit", "incr",
            "handle", "done"}
InTx    == {"insert", "link", "refresh", "load", "commit"}
Ends    == {"ignored", "rejected", "error", "limited", "unknown", "failed", "ok", "dead"}
Events  == {"unauthorized", "onboarded", "rate_limited", "command", "auth", "auth_rejected"}

-----------------------------------------------------------------------------
Goto(q, from, to) ==
  /\ pc[q] = from
  /\ pc' = [pc EXCEPT ![q] = to]

Finish(q, result) ==
  /\ pc'  = [pc EXCEPT ![q] = "done"]
  /\ out' = [out EXCEPT ![q] = result]

\* recordAudit: the event is written, or its loss only logged.
RecordAudit(events) == trail' = trail \cup events \/ trail' = trail

Valid(t) == t > 0

\* NewAllowlist drops invalid ids, so an empty list allows nobody.
Allows(t) == t \in {u \in Listed : Valid(u)}

-----------------------------------------------------------------------------
(* Before the database                                                     *)

Ignored(q) == q.via = "bot" /\ (q.text = "chatter" \/ q.bot)

\* Chatter and other bots: Dispatch returns.
Ignore(q) ==
  /\ pc[q] = "new" /\ Ignored(q)
  /\ Finish(q, "ignored")
  /\ UNCHANGED <<dbVars, txVars, limitVars, trail, rulings, entitled>>

\* Authenticate refuses a bot account whose payload is genuine.
RefuseBot(q) ==
  /\ pc[q] = "new" /\ q.via = "miniapp" /\ q.bot
  /\ Finish(q, "rejected")
  /\ RecordAudit({<<q, "auth_rejected">>})
  /\ UNCHANGED <<dbVars, txVars, limitVars, rulings, entitled>>

\* Authorize, up to the allowlist: an id that cannot be Telegram's is refused
\* without an event.
RefuseStranger(q) ==
  /\ pc[q] = "new" /\ ~Ignored(q) /\ ~q.bot
  /\ ~Allows(q.tid)
  /\ Finish(q, "rejected")
  /\ IF Valid(q.tid) THEN RecordAudit({<<q, "unauthorized">>}) ELSE UNCHANGED trail
  /\ UNCHANGED <<dbVars, txVars, limitVars, rulings, entitled>>

-----------------------------------------------------------------------------
(* EnsureTelegramUser, one transaction under READ COMMITTED                *)

\* Mutation: the transaction is left open when a statement fails.
Rollback_Leaked(q) == UNCHANGED holder

\* What the transaction wrote is gone and its row locks with it.
Rollback(q) ==
  holder' = [t \in Tids |-> IF holder[t] = q THEN NoOne ELSE holder[t]]

\* Mutation: the account is looked up before the allowlist is asked.
Lookup_BeforeAllowlist(q) ==
  /\ pc[q] = "new" /\ ~Ignored(q) /\ ~q.bot
  /\ LET a == links[q.tid] IN
       /\ created'  = [created EXCEPT ![q] = (a = NoAccount)]
       /\ acct'     = [acct EXCEPT ![q] = a]
       /\ pc'       = [pc EXCEPT ![q] = IF a = NoAccount THEN "insert" ELSE "refresh"]
       /\ entitled' = [entitled EXCEPT ![q] = (a = NoAccount \/ users[a] = "active")]
  /\ UNCHANGED <<dbVars, seen, out, limitVars, trail, rulings>>

\* The first SELECT.
Lookup(q) ==
  /\ pc[q] = "new" /\ ~Ignored(q) /\ ~q.bot /\ Allows(q.tid)
  /\ LET a == links[q.tid] IN
       /\ created'  = [created EXCEPT ![q] = (a = NoAccount)]
       /\ acct'     = [acct EXCEPT ![q] = a]
       /\ pc'       = [pc EXCEPT ![q] = IF a = NoAccount THEN "insert" ELSE "refresh"]
       /\ entitled' = [entitled EXCEPT ![q] = (a = NoAccount \/ users[a] = "active")]
  /\ UNCHANGED <<dbVars, seen, out, limitVars, trail, rulings>>

\* Mutation: the account is inserted outside the transaction.
InsertUser_Autocommit(q) ==
  /\ Goto(q, "insert", "link")
  /\ \E a \in Accounts :
       /\ users[a] = "none" /\ \A r \in Requests : acct[r] # a
       /\ acct'  = [acct EXCEPT ![q] = a]
       /\ users' = [users EXCEPT ![a] = "active"]
  /\ UNCHANGED <<links, holder, created, seen, out, limitVars, trail, rulings, entitled>>

\* A new row of users with an id nobody else has, visible to nobody else yet.
InsertUser(q) ==
  /\ Goto(q, "insert", "link")
  /\ \E a \in Accounts :
       /\ users[a] = "none" /\ \A r \in Requests : acct[r] # a
       /\ acct' = [acct EXCEPT ![q] = a]
  /\ UNCHANGED <<dbVars, created, seen, out, limitVars, trail, rulings, entitled>>

\* The primary key makes the insert wait for a concurrent one, and fail when
\* that one commits.
InsertLink(q) ==
  /\ holder[q.tid] = NoOne /\ links[q.tid] = NoAccount
  /\ Goto(q, "link", "load")
  /\ holder' = [holder EXCEPT ![q.tid] = q]
  /\ UNCHANGED <<users, links, txVars, out, limitVars, trail, rulings, entitled>>

\* Mutation: INSERT ... ON CONFLICT DO UPDATE SET user_id.
LinkConflict_Upsert(q) ==
  /\ holder[q.tid] = NoOne /\ links[q.tid] # NoAccount
  /\ Goto(q, "link", "load")
  /\ holder' = [holder EXCEPT ![q.tid] = q]
  /\ UNCHANGED <<users, links, txVars, out, limitVars, trail, rulings, entitled>>

LinkConflict(q) ==
  /\ pc[q] = "link" /\ holder[q.tid] = NoOne /\ links[q.tid] # NoAccount
  /\ Rollback(q)
  /\ Finish(q, "error")
  /\ UNCHANGED <<users, links, txVars, limitVars, trail, rulings, entitled>>

\* The UPDATE of the display fields takes the row's lock.
Refresh(q) ==
  /\ holder[q.tid] = NoOne
  /\ Goto(q, "refresh", "load")
  /\ holder' = [holder EXCEPT ![q.tid] = q]
  /\ UNCHANGED <<users, links, txVars, out, limitVars, trail, rulings, entitled>>

\* Mutation: the account is loaded through the pool, outside the transaction.
LoadUser_OutsideTx(q) ==
  /\ Goto(q, "load", "commit")
  /\ seen' = [seen EXCEPT ![q] = users[acct[q]]]
  /\ UNCHANGED <<dbVars, acct, created, out, limitVars, trail, rulings, entitled>>

\* The account is read back; a transaction sees its own insert.
LoadUser(q) ==
  /\ Goto(q, "load", "commit")
  /\ seen' = [seen EXCEPT ![q] = IF created[q] THEN "active" ELSE users[acct[q]]]
  /\ UNCHANGED <<dbVars, acct, created, out, limitVars, trail, rulings, entitled>>

Apply(q) ==
  /\ users' = IF created[q] THEN [users EXCEPT ![acct[q]] = "active"] ELSE users
  /\ links' = IF created[q] THEN [links EXCEPT ![q.tid] = acct[q]] ELSE links
  /\ Rollback(q)

Commit(q) ==
  /\ Goto(q, "commit", "decide")
  /\ Apply(q)
  /\ UNCHANGED <<txVars, out, limitVars, trail, rulings, entitled>>

\* The commit is applied and its acknowledgement lost.
CommitAckLost(q) ==
  /\ pc[q] = "commit"
  /\ Apply(q)
  /\ Finish(q, "error")
  /\ UNCHANGED <<txVars, limitVars, trail, rulings, entitled>>

\* Begin or a statement fails, or the request's context is cancelled.
TxFails(q) ==
  /\ pc[q] \in InTx \/ (pc[q] = "new" /\ ~Ignored(q) /\ ~q.bot /\ Allows(q.tid))
  /\ Rollback(q)
  /\ Finish(q, "error")
  /\ UNCHANGED <<users, links, txVars, limitVars, trail, rulings, entitled>>

-----------------------------------------------------------------------------
(* After the database                                                      *)

\* Authorize refuses an account that is not active.
RefuseSuspended(q) ==
  /\ pc[q] = "decide" /\ seen[q] # "active"
  /\ Finish(q, "rejected")
  /\ RecordAudit({<<q, "unauthorized">>})
  /\ UNCHANGED <<dbVars, txVars, limitVars, rulings, entitled>>

\* Mutation: the account's status is not looked at.
Authorized_AnyStatus(q) ==
  /\ Goto(q, "decide", "limit")
  /\ RecordAudit(IF created[q] THEN {<<q, "onboarded">>} ELSE {})
  /\ UNCHANGED <<dbVars, txVars, out, limitVars, rulings, entitled>>

\* The end of Authorize.
Authorized(q) ==
  /\ seen[q] = "active"
  /\ Goto(q, "decide", "limit")
  /\ RecordAudit(IF created[q] THEN {<<q, "onboarded">>} ELSE {})
  /\ UNCHANGED <<dbVars, txVars, out, limitVars, rulings, entitled>>

\* Authenticate returns the identity and the Mini App's handler serves it.
ServeMiniApp(q) ==
  /\ pc[q] = "limit" /\ q.via = "miniapp"
  /\ Finish(q, "ok")
  /\ RecordAudit({<<q, "auth">>})
  /\ UNCHANGED <<dbVars, txVars, limitVars, rulings, entitled>>

\* Allow names the counter of the window it is called in ...
LimitKey(q) ==
  /\ q.via = "bot"
  /\ Goto(q, "limit", "incr")
  /\ key' = [key EXCEPT ![q] = window]
  /\ UNCHANGED <<dbVars, txVars, out, window, count, touched, passed, when, trail, rulings, entitled>>

Incremented(q) == [count EXCEPT ![<<q.tid, key[q]>>] = @ + 1]

\* Mutation: the test is made on the value before the increment.
Within_OffByOne(q) == Incremented(q)[<<q.tid, key[q]>>] <= RateLimit + 1

Within(q) == Incremented(q)[<<q.tid, key[q]>>] <= RateLimit

\* INCR and EXPIRE, one transaction: the counter's life starts anew.
Increment(q) ==
  /\ count'   = Incremented(q)
  /\ touched' = [touched EXCEPT ![<<q.tid, key[q]>>] = window]

\* ... increments it, in that window or, a little late, in the next, and goes by
\* what INCR returned ...
Allowed(q) ==
  /\ Within(q)
  /\ Goto(q, "incr", "handle")
  /\ Increment(q)
  /\ passed' = [passed EXCEPT ![q] = "counted"]
  /\ when'   = [when EXCEPT ![q] = window]
  /\ UNCHANGED <<dbVars, txVars, out, window, key, trail, rulings, entitled>>

Limited(q) ==
  /\ pc[q] = "incr" /\ ~Within(q)
  /\ Finish(q, "limited")
  /\ Increment(q)
  /\ RecordAudit({<<q, "rate_limited">>})
  /\ UNCHANGED <<dbVars, txVars, window, key, passed, when, rulings, entitled>>

\* ... and lets the command pass when Redis does not answer, whether or not it
\* has counted.
LimiterDown(q) ==
  /\ Goto(q, "incr", "handle")
  /\ Increment(q) \/ UNCHANGED <<count, touched>>
  /\ passed' = [passed EXCEPT ![q] = "unchecked"]
  /\ UNCHANGED <<dbVars, txVars, out, window, key, when, trail, rulings, entitled>>

\* The command runs, fails or does not exist; each way it is recorded.
Handle(q) ==
  /\ pc[q] = "handle"
  /\ \E result \in IF q.text = "known" THEN {"ok", "failed"} ELSE {"unknown"} : Finish(q, result)
  /\ RecordAudit({<<q, "command">>})
  /\ UNCHANGED <<dbVars, txVars, limitVars, rulings, entitled>>

-----------------------------------------------------------------------------
(* Around the requests                                                     *)

\* The process dies; Postgres rolls its transaction back.
Dies(q) ==
  /\ pc[q] \notin {"new", "done"}
  /\ Rollback(q)
  /\ Finish(q, "dead")
  /\ UNCHANGED <<users, links, txVars, limitVars, trail, rulings, entitled>>

\* The operator suspends or reinstates an account in the database.
Rule(a) ==
  /\ rulings < MaxRulings /\ users[a] # "none"
  /\ rulings' = rulings + 1
  /\ users'   = [users EXCEPT ![a] = IF @ = "active" THEN "suspended" ELSE "active"]
  /\ entitled' = [q \in Requests |->
                    entitled[q] \/ (users[a] = "suspended" /\ acct[q] = a /\ pc[q] # "done")]
  /\ UNCHANGED <<links, holder, pc, txVars, out, limitVars, trail>>

NextWindow ==
  /\ window < MaxWindow
  /\ window' = window + 1
  /\ UNCHANGED <<dbVars, pc, txVars, out, key, count, touched, passed, when, trail, rulings, entitled>>

\* EXPIRE drops a counter one window after its last increment, also under a
\* command that has named it and not yet incremented it.
CounterExpires(t, w) ==
  /\ touched[<<t, w>>] < window /\ count[<<t, w>>] > 0
  /\ count' = [count EXCEPT ![<<t, w>>] = 0]
  /\ UNCHANGED <<dbVars, pc, txVars, out, window, key, touched, passed, when, trail, rulings, entitled>>

-----------------------------------------------------------------------------
Init ==
  /\ users    = [a \in Accounts |-> "none"]
  /\ links    = [t \in Tids |-> NoAccount]
  /\ holder   = [t \in Tids |-> NoOne]
  /\ pc       = [q \in Requests |-> "new"]
  /\ acct     = [q \in Requests |-> NoAccount]
  /\ created  = [q \in Requests |-> FALSE]
  /\ seen     = [q \in Requests |-> "unread"]
  /\ out      = [q \in Requests |-> "pending"]
  /\ window   = 0
  /\ key      = [q \in Requests |-> 0]
  /\ count    = [tw \in Tids \X Windows |-> 0]
  /\ touched  = [tw \in Tids \X Windows |-> 0]
  /\ passed   = [q \in Requests |-> "no"]
  /\ when     = [q \in Requests |-> 0]
  /\ trail    = {}
  /\ rulings  = 0
  /\ entitled = [q \in Requests |-> FALSE]

Step(q) ==
  \/ Ignore(q) \/ RefuseBot(q) \/ RefuseStranger(q)
  \/ Lookup(q) \/ InsertUser(q) \/ InsertLink(q) \/ LinkConflict(q)
  \/ Refresh(q) \/ LoadUser(q) \/ Commit(q)
  \/ RefuseSuspended(q) \/ Authorized(q) \/ ServeMiniApp(q)
  \/ LimitKey(q) \/ Allowed(q) \/ Limited(q) \/ Handle(q)

Fault(q) == CommitAckLost(q) \/ TxFails(q) \/ LimiterDown(q) \/ Dies(q)

Next ==
  \/ \E q \in Requests : Step(q) \/ Fault(q)
  \/ \E a \in Accounts : Rule(a)
  \/ NextWindow
  \/ \E t \in Tids, w \in Windows : CounterExpires(t, w)

Spec == Init /\ [][Next]_vars

\* Every goroutine runs on when it does not wait for a row's lock. Nothing is
\* assumed of failures: they may happen or not.
FairSpec == Spec /\ \A q \in Requests : WF_vars(Step(q))

-----------------------------------------------------------------------------
(* Correctness                                                             *)

\* What each variable may hold. A request that got as far as loading a status
\* has loaded one that is in the table, its own insert included.
TypeOK ==
  /\ users    \in [Accounts -> {"none", "active", "suspended"}]
  /\ links    \in [Tids -> Accounts \cup {NoAccount}]
  /\ holder   \in [Tids -> Requests \cup {NoOne}]
  /\ pc       \in [Requests -> Steps]
  /\ acct     \in [Requests -> Accounts \cup {NoAccount}]
  /\ created  \in [Requests -> BOOLEAN]
  /\ seen     \in [Requests -> {"unread", "active", "suspended"}]
  /\ out      \in [Requests -> Ends \cup {"pending"}]
  /\ window   \in Windows
  /\ key      \in [Requests -> Windows]
  /\ count    \in [Tids \X Windows -> Nat]
  /\ touched  \in [Tids \X Windows -> Windows]
  /\ passed   \in [Requests -> {"no", "counted", "unchecked"}]
  /\ when     \in [Requests -> Windows]
  /\ trail    \subseteq Requests \X Events
  /\ rulings  \in 0 .. MaxRulings
  /\ entitled \in [Requests -> BOOLEAN]

\* Whatever first contacts run at once, and whenever processes die, accounts
\* and Telegram identities correspond one to one: no account is left without
\* an identity, none is shared and no identity points nowhere
\* (EnsureTelegramUser; telegram_users_user_id_key).
OneAccountPerUser ==
  /\ \A a \in Accounts : users[a] # "none" => \E t \in Tids : links[t] = a
  /\ \A t \in Tids : links[t] # NoAccount =>
       /\ users[links[t]] # "none"
       /\ \A u \in Tids : links[u] = links[t] => u = t

Welcomed(q) ==
  pc[q] \in {"limit", "incr", "handle"} \/ out[q] \in {"ok", "failed", "unknown", "limited"}

\* A person is welcomed, and user:onboarded recorded, at most once, also when
\* the bot and the Mini App meet them for the first time together.
OnboardedOnce ==
  \A q, r \in Requests :
    Welcomed(q) /\ Welcomed(r) /\ created[q] /\ created[r] /\ q.tid = r.tid => q = r

\* Whoever is not on the allowlist, or is there under an id that cannot be
\* Telegram's, leaves no row, takes no row lock and touches no counter; and
\* nobody's counter moves for a request that was turned away ("an unknown
\* caller cannot consume an authorized user's budget", Dispatch).
StrangersLeaveNoTrace ==
  /\ \A t \in Tids : ~(t \in Listed /\ t > 0) =>
       links[t] = NoAccount /\ holder[t] = NoOne /\ \A w \in Windows : count[<<t, w>>] = 0
  /\ \A t \in Tids, w \in Windows :
       count[<<t, w>>] <= Cardinality({q \in Requests : q.tid = t /\ out[q] \notin {"ignored", "rejected"}})

Served(q) == pc[q] = "handle" \/ out[q] \in {"ok", "failed", "unknown"}

\* A handler is reached only for an id of the allowlist whose account was
\* active at some time since the request was looked up: a suspension stops
\* every request that comes after it, without a restart, while one already
\* under way may still be served (Authorize).
RevocationHolds == \A q \in Requests : Served(q) => q.tid \in Listed /\ entitled[q]

\* The commands the counter of window k has let pass during window w.
Counted(t, k, w) ==
  {q \in Requests : q.tid = t /\ passed[q] = "counted" /\ key[q] = k /\ when[q] = w}

\* While Redis answers, a counter lets at most RateLimit commands of an identity
\* pass during any one window, however many are dispatched at once, whenever the
\* window turns between a command's key and its increment, and although counters
\* expire under commands about to increment them (Allow). A command that comes
\* so late is counted with its old window's, anew if that counter has expired:
\* the burst "at a window edge" the limiter accepts.
WithinRate ==
  \A t \in Tids, k, w \in Windows : Cardinality(Counted(t, k, w)) <= RateLimit

\* Every request comes to an end: no row lock of telegram_users outlives its
\* transaction, whatever fails (the deferred Rollback of EnsureTelegramUser).
EveryRequestEnds == \A q \in Requests : <>(pc[q] = "done")

-----------------------------------------------------------------------------
(* Inductive invariants                                                    *)

\* A row of telegram_users is locked only by a transaction that has written it.
HolderInv ==
  \A t \in Tids, q \in Requests :
    holder[t] = q => t = q.tid /\ pc[q] \in {"load", "commit"}

\* The account a transaction has inserted is its own and not yet visible; the
\* one it has found is linked, and so is the one it has committed.
Placed(q) ==
  /\ pc[q] \in {"insert", "link"} => created[q]
  /\ pc[q] = "refresh" => ~created[q]
  /\ pc[q] \in {"load", "commit"} => holder[q.tid] = q
  /\ pc[q] \in {"link", "load", "commit"} /\ created[q] =>
       acct[q] \in Accounts /\ users[acct[q]] = "none"
  /\ pc[q] \in {"load", "commit"} /\ created[q] => links[q.tid] = NoAccount
  /\ pc[q] \in {"refresh", "load", "commit"} /\ ~created[q] =>
       acct[q] \in Accounts /\ links[q.tid] = acct[q]
  /\ pc[q] = "decide" \/ Welcomed(q) => acct[q] \in Accounts /\ links[q.tid] = acct[q]
  /\ pc[q] # "done" => out[q] = "pending"

PlaceInv == \A q \in Requests : Placed(q)

\* No two requests insert the same account.
OwnAccountInv ==
  \A q, r \in Requests :
    created[q] /\ created[r] /\ acct[q] = acct[r] /\ acct[q] \in Accounts => q = r

TxInv == HolderInv /\ PlaceInv /\ OwnAccountInv

\* Whoever has been found active was entitled.
EntitledInv ==
  \A q \in Requests :
    /\ created[q] => entitled[q]
    /\ pc[q] \in {"refresh", "load"} /\ ~created[q] /\ users[acct[q]] = "active" => entitled[q]
    /\ pc[q] \in {"commit", "decide"} /\ seen[q] = "active" => entitled[q]
    /\ Welcomed(q) => entitled[q]
    /\ pc[q] \notin {"new", "done"} \/ Welcomed(q) => q.tid \in Listed

\* The commands a counter has counted, let pass or not.
Charged(t, w) ==
  {q \in Requests : q.tid = t /\ key[q] = w /\ (passed[q] # "no" \/ out[q] = "limited")}

\* A counter that has let someone pass in this window was touched in it, so it
\* has not expired since and stands no lower than the number it has let pass.
BudgetInv ==
  /\ \A q \in Requests : /\ passed[q] # "no" => pc[q] \in {"handle", "done"}
                         /\ passed[q] = "counted" => when[q] <= window
  /\ \A t \in Tids, k, w \in Windows :
       IsFiniteSet(Counted(t, k, w)) /\ Cardinality(Counted(t, k, w)) <= RateLimit
  /\ \A t \in Tids, k \in Windows :
       /\ Counted(t, k, window) # {} => touched[<<t, k>>] = window
       /\ Cardinality(Counted(t, k, window)) <= count[<<t, k>>]

\* Nobody gets past the allowlist who is not on it, and every increment is some
\* request's that was not turned away.
TraceInv ==
  /\ \A q \in Requests : /\ pc[q] \notin {"new", "done"} => Allows(q.tid)
                         /\ passed[q] # "no" => out[q] \notin {"ignored", "rejected"}
  /\ \A t \in Tids : ~Allows(t) =>
       links[t] = NoAccount /\ holder[t] = NoOne /\ \A w \in Windows : count[<<t, w>>] = 0
  /\ \A t \in Tids, w \in Windows : count[<<t, w>>] <= Cardinality(Charged(t, w))
=============================================================================
