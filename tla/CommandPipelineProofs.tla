----------------------- MODULE CommandPipelineProofs ------------------------
(***************************************************************************)
(* Theorems about CommandPipeline for any number of requests, identities   *)
(* and accounts, any limit and any number of windows and rulings.          *)
(***************************************************************************)
EXTENDS CommandPipeline, FiniteSetTheorems, TLAPS

IInv == TypeOK /\ TxInv /\ EntitledInv /\ OneAccountPerUser

-----------------------------------------------------------------------------
\* Facts about the constants.
LEMMA TidFacts ==
  /\ \A q \in Requests : q.tid \in Tids
  /\ NoAccount \notin Accounts
  /\ NoOne \notin Requests
BY PipelineAssumption

\* Counting a command yields counters again.
LEMMA IncrementedType ==
  ASSUME NEW q \in Requests, count \in [Tids \X Windows -> Nat], key \in [Requests -> Windows]
  PROVE  Incremented(q) \in [Tids \X Windows -> Nat]
BY TidFacts DEF Incremented

\* INCR and EXPIRE leave counters with a last window each.
LEMMA IncrementType ==
  ASSUME TypeOK, NEW q \in Requests, Increment(q)
  PROVE  count' \in [Tids \X Windows -> Nat] /\ touched' \in [Tids \X Windows -> Windows]
BY TidFacts, IncrementedType DEF Increment, TypeOK

\* The account a transaction found is in the table.
LEMMA FoundAccount ==
  ASSUME IInv, NEW q \in Requests, pc[q] \in {"refresh", "load", "commit"}, ~created[q]
  PROVE  acct[q] \in Accounts /\ users[acct[q]] \in {"active", "suspended"}
<1>1. acct[q] \in Accounts /\ links[q.tid] = acct[q]
  BY DEF IInv, TxInv, PlaceInv, Placed, OwnAccountInv
<1>2. users[acct[q]] # "none"
  BY <1>1, TidFacts DEF IInv, OneAccountPerUser
<1>. QED  BY <1>1, <1>2 DEF IInv, TypeOK

-----------------------------------------------------------------------------
\* Before any request there is no row, no lock and no verdict.
LEMMA InitIInv == Init => IInv
<1> SUFFICES ASSUME Init PROVE IInv
  OBVIOUS
<1> USE PipelineAssumption DEF Init
<1>1. TypeOK
  BY DEF TypeOK, Steps, Windows
<1>2. TxInv
  BY DEF TxInv, HolderInv, PlaceInv, Placed, OwnAccountInv, Welcomed
<1>3. EntitledInv
  BY DEF EntitledInv, Welcomed
<1>4. OneAccountPerUser
  BY DEF OneAccountPerUser
<1>. QED  BY <1>1, <1>2, <1>3, <1>4 DEF IInv

-----------------------------------------------------------------------------
\* Every step keeps the types.
LEMMA TypeNext == IInv /\ [Next]_vars => TypeOK'
<1> SUFFICES ASSUME IInv, [Next]_vars PROVE TypeOK'
  OBVIOUS
<1> USE PipelineAssumption DEF IInv, TypeOK, Goto, Finish, RecordAudit, Rollback,
        dbVars, txVars, limitVars, Steps, Ends, Events
<1>1. ASSUME NEW q \in Requests, Ignore(q) \/ RefuseBot(q) \/ RefuseStranger(q) PROVE TypeOK'
  <2>1. CASE Ignore(q)
    BY <2>1 DEF Ignore
  <2>2. CASE RefuseBot(q)
    BY <2>2 DEF RefuseBot
  <2>3. CASE RefuseStranger(q)
    BY <2>3 DEF RefuseStranger
  <2>. QED  BY <1>1, <2>1, <2>2, <2>3
<1>2. ASSUME NEW q \in Requests, Lookup(q) PROVE TypeOK'
  BY <1>2 DEF Lookup
<1>3. ASSUME NEW q \in Requests, InsertUser(q) PROVE TypeOK'
  BY <1>3 DEF InsertUser
<1>4. ASSUME NEW q \in Requests, InsertLink(q) \/ Refresh(q) \/ LinkConflict(q) PROVE TypeOK'
  <2>1. CASE InsertLink(q)
    BY <2>1, TidFacts DEF InsertLink
  <2>2. CASE Refresh(q)
    BY <2>2, TidFacts DEF Refresh
  <2>3. CASE LinkConflict(q)
    BY <2>3 DEF LinkConflict
  <2>. QED  BY <1>4, <2>1, <2>2, <2>3
<1>5. ASSUME NEW q \in Requests, LoadUser(q) PROVE TypeOK'
  <2>1. pc[q] = "load" /\ pc' = [pc EXCEPT ![q] = "commit"]
    BY <1>5 DEF LoadUser
  <2>2. created[q] \/ users[acct[q]] \in {"active", "suspended"}
    BY <2>1, FoundAccount
  <2>3. seen' \in [Requests -> {"unread", "active", "suspended"}]
    BY <1>5, <2>2 DEF LoadUser
  <2>. QED  BY <1>5, <2>1, <2>3 DEF LoadUser
<1>6. ASSUME NEW q \in Requests, Commit(q) \/ CommitAckLost(q) PROVE TypeOK'
  <2>1. users' \in [Accounts -> {"none", "active", "suspended"}]
    BY <1>6 DEF Commit, CommitAckLost, Apply
  <2>2. links' \in [Tids -> Accounts \cup {NoAccount}]
    BY <1>6 DEF Commit, CommitAckLost, Apply
  <2>3. holder' \in [Tids -> Requests \cup {NoOne}]
    BY <1>6 DEF Commit, CommitAckLost, Apply
  <2>4. CASE Commit(q)
    BY <2>4, <2>1, <2>2, <2>3 DEF Commit
  <2>5. CASE CommitAckLost(q)
    BY <2>5, <2>1, <2>2, <2>3 DEF CommitAckLost
  <2>. QED  BY <1>6, <2>4, <2>5
<1>7. ASSUME NEW q \in Requests, TxFails(q) \/ Dies(q) PROVE TypeOK'
  <2>1. CASE TxFails(q)
    BY <2>1 DEF TxFails
  <2>2. CASE Dies(q)
    BY <2>2 DEF Dies
  <2>. QED  BY <1>7, <2>1, <2>2
<1>8. ASSUME NEW q \in Requests, RefuseSuspended(q) \/ Authorized(q) \/ ServeMiniApp(q) PROVE TypeOK'
  <2>1. CASE RefuseSuspended(q)
    BY <2>1 DEF RefuseSuspended
  <2>2. CASE Authorized(q)
    BY <2>2 DEF Authorized
  <2>3. CASE ServeMiniApp(q)
    BY <2>3 DEF ServeMiniApp
  <2>. QED  BY <1>8, <2>1, <2>2, <2>3
<1>9. ASSUME NEW q \in Requests, LimitKey(q) \/ Handle(q) PROVE TypeOK'
  <2>1. CASE LimitKey(q)
    BY <2>1 DEF LimitKey
  <2>2. CASE Handle(q)
    BY <2>2 DEF Handle
  <2>. QED  BY <1>9, <2>1, <2>2
<1>10. ASSUME NEW q \in Requests, Allowed(q) \/ Limited(q) \/ LimiterDown(q) PROVE TypeOK'
  <2>1. count' \in [Tids \X Windows -> Nat] /\ touched' \in [Tids \X Windows -> Windows]
    BY <1>10, IncrementType DEF Allowed, Limited, LimiterDown
  <2>2. CASE Allowed(q)
    BY <2>2, <2>1 DEF Allowed
  <2>3. CASE Limited(q)
    BY <2>3, <2>1 DEF Limited
  <2>4. CASE LimiterDown(q)
    BY <2>4, <2>1 DEF LimiterDown
  <2>. QED  BY <1>10, <2>2, <2>3, <2>4
<1>11. ASSUME NEW a \in Accounts, Rule(a) PROVE TypeOK'
  BY <1>11 DEF Rule
<1>12. CASE NextWindow
  BY <1>12 DEF NextWindow, Windows
<1>13. ASSUME NEW t \in Tids, NEW w \in Windows, CounterExpires(t, w) PROVE TypeOK'
  BY <1>13 DEF CounterExpires
<1>14. CASE UNCHANGED vars
  BY <1>14 DEF vars
<1>. QED  BY <1>1, <1>2, <1>3, <1>4, <1>5, <1>6, <1>7, <1>8, <1>9, <1>10, <1>11, <1>12, <1>13, <1>14
             DEF Next, Step, Fault

-----------------------------------------------------------------------------
\* A request that has nothing more to do with the database leaves it as it is;
\* only its own place and verdict change.
Quiet(q) ==
  /\ UNCHANGED <<users, links, holder, acct, created, seen, entitled>>
  /\ \A r \in Requests \ {q} : pc'[r] = pc[r] /\ out'[r] = out[r]

\* Steps outside the transaction are quiet. A request is turned away, or
\* authorized when it has loaded an active account, or goes on being served.
LEMMA QuietSteps ==
  ASSUME IInv, NEW q \in Requests,
         \/ Ignore(q) \/ RefuseBot(q) \/ RefuseStranger(q)
         \/ RefuseSuspended(q) \/ Authorized(q) \/ ServeMiniApp(q)
         \/ LimitKey(q) \/ Allowed(q) \/ Limited(q) \/ LimiterDown(q) \/ Handle(q)
  PROVE  /\ Quiet(q)
         /\ pc[q] # "done" /\ pc[q] \notin InTx
         /\ \/ pc'[q] = "done" /\ out'[q] \in {"ignored", "rejected"}
            \/ pc[q] = "decide" /\ seen[q] = "active" /\ pc'[q] = "limit" /\ out'[q] = out[q]
            \/ Welcomed(q) /\ pc'[q] \in {"incr", "handle"} /\ out'[q] = out[q]
            \/ Welcomed(q) /\ pc'[q] = "done" /\ out'[q] \in {"ok", "failed", "unknown", "limited"}
<1> USE DEF IInv, TypeOK, Quiet, Welcomed, InTx, Goto, Finish, dbVars, txVars, limitVars
<1>1. CASE Ignore(q)
  BY <1>1 DEF Ignore
<1>2. CASE RefuseBot(q)
  BY <1>2 DEF RefuseBot
<1>3. CASE RefuseStranger(q)
  BY <1>3 DEF RefuseStranger
<1>4. CASE RefuseSuspended(q)
  BY <1>4 DEF RefuseSuspended
<1>5. CASE Authorized(q)
  BY <1>5 DEF Authorized
<1>6. CASE ServeMiniApp(q)
  BY <1>6 DEF ServeMiniApp
<1>7. CASE LimitKey(q)
  BY <1>7 DEF LimitKey
<1>8. CASE Allowed(q)
  BY <1>8 DEF Allowed
<1>9. CASE Limited(q)
  BY <1>9 DEF Limited
<1>10. CASE LimiterDown(q)
  BY <1>10 DEF LimiterDown
<1>11. CASE Handle(q)
  BY <1>11 DEF Handle
<1>. QED  BY <1>1, <1>2, <1>3, <1>4, <1>5, <1>6, <1>7, <1>8, <1>9, <1>10, <1>11

\* They keep what transactions know of their accounts.
LEMMA QuietTx ==
  ASSUME IInv, NEW q \in Requests,
         \/ Ignore(q) \/ RefuseBot(q) \/ RefuseStranger(q)
         \/ RefuseSuspended(q) \/ Authorized(q) \/ ServeMiniApp(q)
         \/ LimitKey(q) \/ Allowed(q) \/ Limited(q) \/ LimiterDown(q) \/ Handle(q)
  PROVE  TxInv'
<1>1. Quiet(q) /\ pc[q] # "done" /\ pc[q] \notin InTx
  BY QuietSteps
<1>2. \/ pc'[q] = "done" /\ out'[q] \in {"ignored", "rejected"}
      \/ pc[q] = "decide" /\ pc'[q] = "limit" /\ out'[q] = out[q]
      \/ Welcomed(q) /\ pc'[q] \in {"incr", "handle"} /\ out'[q] = out[q]
      \/ Welcomed(q) /\ pc'[q] = "done" /\ out'[q] \in {"ok", "failed", "unknown", "limited"}
  BY QuietSteps
<1>3. HolderInv'
  BY <1>1 DEF IInv, TxInv, HolderInv, Quiet, InTx
<1>4. OwnAccountInv'
  BY <1>1 DEF IInv, TxInv, OwnAccountInv, Quiet
<1>5. Placed(q)'
  BY <1>1, <1>2 DEF IInv, TxInv, PlaceInv, Placed, Quiet, InTx, Welcomed
<1>6. ASSUME NEW r \in Requests \ {q} PROVE Placed(r)'
  BY <1>1 DEF IInv, TxInv, PlaceInv, Placed, Quiet, Welcomed
<1>. QED  BY <1>3, <1>4, <1>5, <1>6 DEF TxInv, PlaceInv

\* What the first SELECT decides.
LEMMA LookupFacts ==
  ASSUME IInv, NEW q \in Requests, Lookup(q)
  PROVE  /\ UNCHANGED <<users, links, holder, seen, out>>
         /\ pc[q] = "new" /\ q.tid \in Listed
         /\ acct'[q] = links[q.tid]
         /\ created'[q] <=> links[q.tid] = NoAccount
         /\ entitled'[q] <=> links[q.tid] = NoAccount \/ users[links[q.tid]] = "active"
         /\ pc'[q] = IF links[q.tid] = NoAccount THEN "insert" ELSE "refresh"
         /\ \A r \in Requests \ {q} : /\ pc'[r] = pc[r] /\ acct'[r] = acct[r]
                                      /\ created'[r] = created[r] /\ entitled'[r] = entitled[r]
<1> USE DEF IInv, TypeOK, Lookup, dbVars
<1>1. created'[q] <=> links[q.tid] = NoAccount
  BY Zenon
<1>2. entitled'[q] <=> links[q.tid] = NoAccount \/ users[links[q.tid]] = "active"
  BY Zenon
<1>3. \A r \in Requests \ {q} : created'[r] = created[r] /\ entitled'[r] = entitled[r]
  BY Zenon
<1>4. q.tid \in Listed
  BY DEF Allows
<1>. QED  BY <1>1, <1>2, <1>3, <1>4

-----------------------------------------------------------------------------
\* Every step keeps what transactions know of their accounts.
LEMMA TxNext == IInv /\ [Next]_vars => TxInv'
<1> SUFFICES ASSUME IInv, [Next]_vars PROVE TxInv'
  OBVIOUS
<1> USE TidFacts DEF IInv, TypeOK, TxInv, HolderInv, PlaceInv, Placed, OwnAccountInv, Welcomed,
        Goto, Finish, Rollback, dbVars, txVars
<1>1. ASSUME NEW q \in Requests,
             \/ Ignore(q) \/ RefuseBot(q) \/ RefuseStranger(q)
             \/ RefuseSuspended(q) \/ Authorized(q) \/ ServeMiniApp(q)
             \/ LimitKey(q) \/ Allowed(q) \/ Limited(q) \/ LimiterDown(q) \/ Handle(q)
      PROVE TxInv'
  BY <1>1, QuietTx
<1>2. ASSUME NEW q \in Requests, Lookup(q) PROVE TxInv'
  <2>11. HolderInv'
    BY <1>2, LookupFacts
  <2>12. PlaceInv'
    <3>1. Placed(q)'
      BY <1>2, LookupFacts
    <3>2. ASSUME NEW r \in Requests \ {q} PROVE Placed(r)'
      BY <1>2, LookupFacts
    <3>. QED  BY <3>1, <3>2
  <2>13. OwnAccountInv'
    BY <1>2, LookupFacts
  <2>. QED  BY <2>11, <2>12, <2>13
<1>3. ASSUME NEW q \in Requests, InsertUser(q) PROVE TxInv'
  BY <1>3 DEF InsertUser
<1>4. ASSUME NEW q \in Requests, InsertLink(q) PROVE TxInv'
  BY <1>4 DEF InsertLink
<1>5. ASSUME NEW q \in Requests, Refresh(q) PROVE TxInv'
  BY <1>5 DEF Refresh
<1>6. ASSUME NEW q \in Requests, LinkConflict(q) PROVE TxInv'
  BY <1>6 DEF LinkConflict
<1>7. ASSUME NEW q \in Requests, LoadUser(q) PROVE TxInv'
  BY <1>7 DEF LoadUser
<1>8. ASSUME NEW q \in Requests, Commit(q) \/ CommitAckLost(q) PROVE TxInv'
  <2>1. pc[q] = "commit" /\ UNCHANGED <<acct, created>>
    BY <1>8 DEF Commit, CommitAckLost
  <2>2. \A t \in Tids : holder'[t] = IF holder[t] = q THEN NoOne ELSE holder[t]
    BY <1>8 DEF Commit, CommitAckLost, Apply
  <2>3. \A r \in Requests \ {q} : pc'[r] = pc[r] /\ out'[r] = out[r]
    BY <1>8 DEF Commit, CommitAckLost
  <2>4. \/ pc'[q] = "decide" /\ out'[q] = out[q]
        \/ pc'[q] = "done" /\ out'[q] = "error"
    BY <1>8 DEF Commit, CommitAckLost
  <2>5. HolderInv'
    BY <2>2, <2>3
  <2>6. OwnAccountInv'
    BY <2>1
  <2>7. CASE ~created[q]
    <3>1. UNCHANGED <<users, links>>
      BY <1>8, <2>7 DEF Commit, CommitAckLost, Apply
    <3>2. Placed(q)'
      BY <2>1, <2>4, <2>7, <3>1
    <3>3. ASSUME NEW r \in Requests \ {q} PROVE Placed(r)'
      BY <2>1, <2>2, <2>3, <3>1
    <3>. QED  BY <2>5, <2>6, <3>2, <3>3
  <2>8. CASE created[q]
    <3>1. users' = [users EXCEPT ![acct[q]] = "active"] /\ links' = [links EXCEPT ![q.tid] = acct[q]]
      BY <1>8, <2>8 DEF Commit, CommitAckLost, Apply
    <3>2. acct[q] \in Accounts /\ links[q.tid] = NoAccount /\ holder[q.tid] = q
      BY <2>1, <2>8
    <3>3. Placed(q)'
      BY <2>1, <2>4, <3>1, <3>2
    <3>4. ASSUME NEW r \in Requests \ {q} PROVE Placed(r)'
      BY <2>1, <2>2, <2>3, <2>8, <3>1, <3>2
    <3>. QED  BY <2>5, <2>6, <3>3, <3>4
  <2>. QED  BY <2>7, <2>8
<1>10. ASSUME NEW q \in Requests, TxFails(q) \/ Dies(q) PROVE TxInv'
  <2>1. UNCHANGED <<users, links, acct, created>>
    BY <1>10 DEF TxFails, Dies
  <2>2. pc' = [pc EXCEPT ![q] = "done"] /\ pc[q] # "done"
    BY <1>10 DEF TxFails, Dies, InTx
  <2>3. out'[q] \in {"error", "dead"} /\ \A r \in Requests \ {q} : out'[r] = out[r]
    BY <1>10 DEF TxFails, Dies
  <2>4. \A t \in Tids : holder'[t] = IF holder[t] = q THEN NoOne ELSE holder[t]
    BY <1>10 DEF TxFails, Dies
  <2>11. HolderInv'
    BY <2>1, <2>2, <2>3, <2>4
  <2>12. PlaceInv'
    <3>1. Placed(q)'
      BY <2>1, <2>2, <2>3, <2>4
    <3>2. ASSUME NEW r \in Requests \ {q} PROVE Placed(r)'
      BY <2>1, <2>2, <2>3, <2>4
    <3>. QED  BY <3>1, <3>2
  <2>13. OwnAccountInv'
    BY <2>1, <2>2, <2>3, <2>4
  <2>. QED  BY <2>11, <2>12, <2>13
<1>11. ASSUME NEW a \in Accounts, Rule(a) PROVE TxInv'
  BY <1>11 DEF Rule
<1>12. CASE NextWindow \/ UNCHANGED vars
  BY <1>12 DEF NextWindow, vars
<1>13. ASSUME NEW t \in Tids, NEW w \in Windows, CounterExpires(t, w) PROVE TxInv'
  BY <1>13 DEF CounterExpires
<1>. QED  BY <1>1, <1>2, <1>3, <1>4, <1>5, <1>6, <1>7, <1>8, <1>10, <1>11, <1>12, <1>13
             DEF Next, Step, Fault

-----------------------------------------------------------------------------
\* Every step keeps the entitlements.
LEMMA EntitledNext == IInv /\ [Next]_vars => EntitledInv'
<1> SUFFICES ASSUME IInv, [Next]_vars PROVE EntitledInv'
  OBVIOUS
<1> USE TidFacts DEF IInv, TypeOK, EntitledInv, Welcomed, Goto, Finish, dbVars, txVars
<1>1. ASSUME NEW q \in Requests,
             \/ Ignore(q) \/ RefuseBot(q) \/ RefuseStranger(q)
             \/ RefuseSuspended(q) \/ Authorized(q) \/ ServeMiniApp(q)
             \/ LimitKey(q) \/ Allowed(q) \/ Limited(q) \/ LimiterDown(q) \/ Handle(q)
      PROVE EntitledInv'
  BY <1>1, QuietSteps DEF Quiet, InTx
<1>2. ASSUME NEW q \in Requests, Lookup(q) PROVE EntitledInv'
  <2>1. out[q] = "pending"
    BY <1>2, LookupFacts DEF TxInv, PlaceInv, Placed
  <2>. QED  BY <1>2, <2>1, LookupFacts
<1>3. ASSUME NEW q \in Requests, InsertUser(q) PROVE EntitledInv'
  BY <1>3 DEF InsertUser, TxInv, PlaceInv, Placed
<1>4. ASSUME NEW q \in Requests, InsertLink(q) PROVE EntitledInv'
  BY <1>4 DEF InsertLink, TxInv, PlaceInv, Placed
<1>5. ASSUME NEW q \in Requests, Refresh(q) PROVE EntitledInv'
  BY <1>5 DEF Refresh, TxInv, PlaceInv, Placed
<1>6. ASSUME NEW q \in Requests, LinkConflict(q) PROVE EntitledInv'
  BY <1>6 DEF LinkConflict
<1>7. ASSUME NEW q \in Requests, LoadUser(q) PROVE EntitledInv'
  BY <1>7, FoundAccount DEF LoadUser
<1>8. ASSUME NEW q \in Requests, Commit(q) PROVE EntitledInv'
  BY <1>8 DEF Commit, Apply, TxInv, PlaceInv, Placed, OwnAccountInv, OneAccountPerUser
<1>9. ASSUME NEW q \in Requests, CommitAckLost(q) PROVE EntitledInv'
  BY <1>9 DEF CommitAckLost, Apply, TxInv, PlaceInv, Placed, OwnAccountInv, OneAccountPerUser
<1>10. ASSUME NEW q \in Requests, TxFails(q) \/ Dies(q) PROVE EntitledInv'
  BY <1>10 DEF TxFails, Dies
<1>11. ASSUME NEW a \in Accounts, Rule(a) PROVE EntitledInv'
  <2>1. \A q \in Requests : entitled'[q] <=>
            entitled[q] \/ (users[a] = "suspended" /\ acct[q] = a /\ pc[q] # "done")
    BY <1>11, Zenon DEF Rule
  <2>2. \A b \in Accounts : users'[b] = "active" => users[b] = "active" \/ (b = a /\ users[a] = "suspended")
    BY <1>11 DEF Rule
  <2>3. \A q \in Requests : pc[q] \in {"refresh", "load"} /\ ~created[q] => acct[q] \in Accounts
    BY DEF TxInv, PlaceInv, Placed
  <2>4. UNCHANGED <<pc, out, created, acct, seen>>
    BY <1>11 DEF Rule
  <2>. QED  BY <2>1, <2>2, <2>3, <2>4
<1>12. CASE NextWindow \/ UNCHANGED vars
  BY <1>12 DEF NextWindow, vars
<1>13. ASSUME NEW t \in Tids, NEW w \in Windows, CounterExpires(t, w) PROVE EntitledInv'
  BY <1>13 DEF CounterExpires
<1>. QED  BY <1>1, <1>2, <1>3, <1>4, <1>5, <1>6, <1>7, <1>8, <1>9, <1>10, <1>11, <1>12, <1>13
             DEF Next, Step, Fault

-----------------------------------------------------------------------------
\* Every step keeps accounts and identities in correspondence. Only a commit
\* changes either of them, and it adds one of each.
LEMMA AccountsNext == IInv /\ [Next]_vars => OneAccountPerUser'
<1> SUFFICES ASSUME IInv, [Next]_vars PROVE OneAccountPerUser'
  OBVIOUS
<1> USE TidFacts DEF IInv, TypeOK, OneAccountPerUser
<1>1. ASSUME NEW q \in Requests,
             \/ Ignore(q) \/ RefuseBot(q) \/ RefuseStranger(q)
             \/ RefuseSuspended(q) \/ Authorized(q) \/ ServeMiniApp(q)
             \/ LimitKey(q) \/ Allowed(q) \/ Limited(q) \/ LimiterDown(q) \/ Handle(q)
      PROVE OneAccountPerUser'
  BY <1>1, QuietSteps DEF Quiet
<1>2. ASSUME NEW q \in Requests,
             \/ Lookup(q) \/ InsertUser(q) \/ InsertLink(q) \/ Refresh(q) \/ LinkConflict(q)
             \/ LoadUser(q) \/ TxFails(q) \/ Dies(q)
      PROVE OneAccountPerUser'
  <2>1. UNCHANGED <<users, links>>
    BY <1>2 DEF Lookup, InsertUser, InsertLink, Refresh, LinkConflict, LoadUser, TxFails, Dies, dbVars
  <2>. QED  BY <2>1
<1>3. ASSUME NEW q \in Requests, Commit(q) \/ CommitAckLost(q) PROVE OneAccountPerUser'
  <2>1. pc[q] = "commit" /\ Apply(q)
    BY <1>3 DEF Commit, CommitAckLost, Goto
  <2>2. CASE ~created[q]
    BY <2>1, <2>2 DEF Apply
  <2>3. CASE created[q]
    <3>1. acct[q] \in Accounts /\ users[acct[q]] = "none" /\ links[q.tid] = NoAccount
      BY <2>1, <2>3 DEF TxInv, PlaceInv, Placed
    <3>2. users' = [users EXCEPT ![acct[q]] = "active"] /\ links' = [links EXCEPT ![q.tid] = acct[q]]
      BY <2>1, <2>3 DEF Apply
    <3>. QED  BY <3>1, <3>2
  <2>. QED  BY <2>2, <2>3
<1>4. ASSUME NEW a \in Accounts, Rule(a) PROVE OneAccountPerUser'
  BY <1>4 DEF Rule
<1>5. CASE NextWindow \/ UNCHANGED vars
  BY <1>5 DEF NextWindow, vars, dbVars
<1>6. ASSUME NEW t \in Tids, NEW w \in Windows, CounterExpires(t, w) PROVE OneAccountPerUser'
  BY <1>6 DEF CounterExpires, dbVars
<1>. QED  BY <1>1, <1>2, <1>3, <1>4, <1>5, <1>6 DEF Next, Step, Fault

-----------------------------------------------------------------------------
\* The inductive invariant holds in every reachable state.
THEOREM PipelineInductive == Spec => []IInv
<1>1. IInv /\ [Next]_vars => IInv'
  BY TypeNext, TxNext, EntitledNext, AccountsNext DEF IInv
<1>. QED  BY <1>1, InitIInv, PTL DEF Spec

\* Every variable keeps its type.
THEOREM PipelineTypeCorrect == Spec => []TypeOK
<1>1. IInv => TypeOK
  BY DEF IInv
<1>. QED  BY <1>1, PipelineInductive, PTL

\* Accounts and Telegram identities correspond one to one, however first
\* contacts overlap and wherever processes die.
THEOREM AccountsCorrespond == Spec => []OneAccountPerUser
<1>1. IInv => OneAccountPerUser
  BY DEF IInv
<1>. QED  BY <1>1, PipelineInductive, PTL

\* At most one request per identity is a first contact: two of them would
\* have inserted the one account that the identity is linked to.
THEOREM WelcomedOnce == Spec => []OnboardedOnce
<1>1. IInv => OnboardedOnce
  <2> SUFFICES ASSUME IInv, NEW q \in Requests, NEW r \in Requests,
                      Welcomed(q), Welcomed(r), created[q], created[r], q.tid = r.tid
               PROVE  q = r
    BY DEF OnboardedOnce
  <2>1. acct[q] \in Accounts /\ acct[q] = acct[r]
    BY DEF IInv, TxInv, PlaceInv, Placed, OwnAccountInv
  <2>. QED  BY <2>1 DEF IInv, TxInv, PlaceInv, Placed, OwnAccountInv
<1>. QED  BY <1>1, PipelineInductive, PTL

\* A handler is reached only for a listed identity whose account was active
\* at some time since the request was looked up.
THEOREM SuspensionStops == Spec => []RevocationHolds
<1>1. IInv => RevocationHolds
  BY DEF IInv, EntitledInv, RevocationHolds, Served, Welcomed
<1>. QED  BY <1>1, PipelineInductive, PTL

-----------------------------------------------------------------------------
(* The limiter                                                             *)

\* A step that leaves the limiter alone: nobody comes to increment a counter,
\* nobody who got past it comes back, and only a request that has not got there
\* is turned away.
Aside ==
  /\ UNCHANGED limitVars
  /\ \A q \in Requests :
       /\ pc'[q] = "incr" => pc[q] = "incr"
       /\ pc[q] \in {"handle", "done"} => pc'[q] \in {"handle", "done"}
       /\ out'[q] # out[q] => pc[q] # "done"
       /\ out'[q] # out[q] /\ out'[q] \in {"ignored", "rejected"} => pc[q] \in {"new", "decide"}

LEMMA AsideSteps ==
  ASSUME IInv, [Next]_vars
  PROVE  \/ Aside
         \/ \E q \in Requests : LimitKey(q) \/ Allowed(q) \/ Limited(q) \/ LimiterDown(q)
         \/ NextWindow
         \/ \E t \in Tids, w \in Windows : CounterExpires(t, w)
<1> USE DEF Aside, IInv, TypeOK, Goto, Finish
<1>1. ASSUME NEW q \in Requests, Ignore(q) \/ RefuseBot(q) \/ RefuseStranger(q) \/ RefuseSuspended(q)
      PROVE  Aside
  BY <1>1 DEF Ignore, RefuseBot, RefuseStranger, RefuseSuspended
<1>2. ASSUME NEW q \in Requests, Lookup(q) \/ InsertUser(q) \/ InsertLink(q) \/ Refresh(q) \/ LoadUser(q)
      PROVE  Aside
  BY <1>2 DEF Lookup, InsertUser, InsertLink, Refresh, LoadUser
<1>3. ASSUME NEW q \in Requests, LinkConflict(q) \/ Commit(q) \/ CommitAckLost(q) PROVE Aside
  BY <1>3 DEF LinkConflict, Commit, CommitAckLost
<1>4. ASSUME NEW q \in Requests, TxFails(q) \/ Dies(q) PROVE Aside
  BY <1>4 DEF TxFails, Dies, InTx
<1>5. ASSUME NEW q \in Requests, Authorized(q) \/ ServeMiniApp(q) \/ Handle(q) PROVE Aside
  BY <1>5 DEF Authorized, ServeMiniApp, Handle
<1>6. CASE (\E a \in Accounts : Rule(a)) \/ UNCHANGED vars
  BY <1>6 DEF Rule, vars, limitVars
<1>. QED  BY <1>1, <1>2, <1>3, <1>4, <1>5, <1>6 DEF Next, Step, Fault

LEMMA CountType ==
  ASSUME IInv, NEW t \in Tids, NEW w \in Windows
  PROVE  count[<<t, w>>] \in Nat
BY DEF IInv, TypeOK

\* INCR moves one counter, by one.
LEMMA IncrementedFacts ==
  ASSUME IInv, NEW q \in Requests, NEW t \in Tids, NEW w \in Windows
  PROVE  /\ count[<<t, w>>] \in Nat
         /\ Incremented(q)[<<t, w>>] = IF t = q.tid /\ w = key[q] THEN count[<<t, w>>] + 1
                                                                ELSE count[<<t, w>>]
         /\ Incremented(q)[<<t, w>>] \in Nat /\ Incremented(q)[<<t, w>>] >= count[<<t, w>>]
<1>1. <<t, w>> \in Tids \X Windows /\ q.tid \in Tids /\ key[q] \in Windows
  BY TidFacts DEF IInv, TypeOK
<1>2. count[<<t, w>>] \in Nat
  BY <1>1 DEF IInv, TypeOK
<1>3. Incremented(q)[<<t, w>>] = IF <<t, w>> = <<q.tid, key[q]>> THEN count[<<t, w>>] + 1
                                                                ELSE count[<<t, w>>]
  BY <1>1 DEF IInv, TypeOK, Incremented
<1>. QED  BY <1>2, <1>3

\* A step that lets nobody pass and takes nothing from a counter keeps the
\* budget.
LEMMA BudgetKept ==
  ASSUME IInv, BudgetInv, UNCHANGED window,
         \A t \in Tids, k, w \in Windows : Counted(t, k, w)' = Counted(t, k, w),
         \A q \in Requests : /\ passed'[q] # "no" => pc'[q] \in {"handle", "done"}
                             /\ passed'[q] = "counted" => when'[q] <= window,
         \A t \in Tids, k \in Windows :
           /\ touched'[<<t, k>>] \in {touched[<<t, k>>], window}
           /\ count'[<<t, k>>] \in Nat /\ count'[<<t, k>>] >= count[<<t, k>>]
  PROVE  BudgetInv'
<1>1. window \in Windows
  BY DEF IInv, TypeOK
<1>2. ASSUME NEW t \in Tids, NEW k \in Windows
      PROVE  /\ Counted(t, k, window)' # {} => touched'[<<t, k>>] = window
             /\ Cardinality(Counted(t, k, window)') <= count'[<<t, k>>]
  <2> DEFINE S == Counted(t, k, window)
  <2>1. /\ IsFiniteSet(S) /\ Cardinality(S) <= count[<<t, k>>]
        /\ S # {} => touched[<<t, k>>] = window
    BY <1>1 DEF BudgetInv
  <2>2. Counted(t, k, window)' = S
    BY <1>1
  <2> HIDE DEF S
  <2>3. Cardinality(S) \in Nat /\ count[<<t, k>>] \in Nat
    BY <2>1, FS_CardinalityType, CountType
  <2>. QED  BY <2>1, <2>2, <2>3
<1>3. \A t \in Tids, k, w \in Windows :
        IsFiniteSet(Counted(t, k, w)') /\ Cardinality(Counted(t, k, w)') <= RateLimit
  BY DEF BudgetInv
<1>. QED  BY <1>2, <1>3 DEF BudgetInv

\* INCR and EXPIRE set one counter's window and leave the others'.
LEMMA IncrementFacts ==
  ASSUME IInv, NEW q \in Requests, Increment(q), NEW t \in Tids, NEW k \in Windows
  PROVE  /\ count'[<<t, k>>] = Incremented(q)[<<t, k>>]
         /\ touched'[<<t, k>>] = IF t = q.tid /\ k = key[q] THEN window ELSE touched[<<t, k>>]
<1>1. <<t, k>> \in Tids \X Windows /\ q.tid \in Tids /\ key[q] \in Windows
  BY TidFacts DEF IInv, TypeOK
<1>. QED  BY <1>1 DEF Increment, IInv, TypeOK

\* Every step keeps the counters no lower than what they have let pass.
LEMMA BudgetNext == IInv /\ BudgetInv /\ [Next]_vars => BudgetInv'
<1> SUFFICES ASSUME IInv, BudgetInv, [Next]_vars PROVE BudgetInv'
  OBVIOUS
<1>1. window \in Nat /\ window \in Windows /\ RateLimit \in Nat
  BY PipelineAssumption DEF IInv, TypeOK, Windows
<1>2. \A q \in Requests : /\ passed[q] # "no" => pc[q] \in {"handle", "done"}
                          /\ passed[q] = "counted" => when[q] <= window
                          /\ when[q] \in Nat
  BY DEF BudgetInv, IInv, TypeOK, Windows
<1>3. CASE Aside
  <2>1. \A t \in Tids, k, w \in Windows : Counted(t, k, w)' = Counted(t, k, w)
    BY <1>3 DEF Aside, limitVars, Counted
  <2>. QED  BY <1>2, <1>3, <2>1, CountType, BudgetKept DEF Aside, limitVars
<1>4. ASSUME NEW q \in Requests, LimitKey(q) PROVE BudgetInv'
  <2>1. passed[q] = "no" /\ UNCHANGED <<window, count, touched, passed, when>>
    BY <1>2, <1>4 DEF LimitKey, Goto
  <2>2. \A t \in Tids, k, w \in Windows : Counted(t, k, w)' = Counted(t, k, w)
    BY <1>4, <2>1 DEF LimitKey, Counted, IInv, TypeOK
  <2>3. \A r \in Requests \ {q} : pc'[r] = pc[r]
    BY <1>4 DEF LimitKey, Goto, IInv, TypeOK
  <2>. QED  BY <1>2, <2>1, <2>2, <2>3, CountType, BudgetKept
<1>5. ASSUME NEW q \in Requests, Limited(q) \/ LimiterDown(q) PROVE BudgetInv'
  <2>1. passed[q] = "no" /\ pc[q] = "incr" /\ UNCHANGED <<window, key, when>>
    BY <1>2, <1>5 DEF Limited, LimiterDown, Goto
  <2>2. \A t \in Tids, k, w \in Windows : Counted(t, k, w)' = Counted(t, k, w)
    BY <1>5, <2>1 DEF Limited, LimiterDown, Counted, IInv, TypeOK
  <2>3. ASSUME NEW t \in Tids, NEW k \in Windows
        PROVE  /\ touched'[<<t, k>>] \in {touched[<<t, k>>], window}
               /\ count'[<<t, k>>] \in Nat /\ count'[<<t, k>>] >= count[<<t, k>>]
    <3>1. CASE Increment(q)
      BY <3>1, IncrementFacts, IncrementedFacts
    <3>2. CASE UNCHANGED <<count, touched>>
      BY <3>2, CountType
    <3>. QED  BY <1>5, <3>1, <3>2 DEF Limited, LimiterDown
  <2>4. \A r \in Requests : /\ passed'[r] # "no" => pc'[r] \in {"handle", "done"}
                            /\ passed'[r] = "counted" => passed[r] = "counted"
    BY <1>2, <1>5 DEF Limited, LimiterDown, Goto, Finish, IInv, TypeOK
  <2>. QED  BY <1>2, <2>1, <2>2, <2>3, <2>4, BudgetKept
<1>6. ASSUME NEW q \in Requests, Allowed(q) PROVE BudgetInv'
  <2>1. /\ passed[q] = "no" /\ pc[q] = "incr" /\ UNCHANGED <<window, key>> /\ Increment(q)
        /\ q.tid \in Tids /\ key[q] \in Windows
    BY <1>2, <1>6, TidFacts DEF Allowed, Goto, IInv, TypeOK
  <2>2. \A r \in Requests : /\ passed'[r] # "no" => pc'[r] \in {"handle", "done"}
                            /\ passed'[r] = "counted" => when'[r] <= window'
    BY <1>1, <1>2, <1>6 DEF Allowed, Goto, IInv, TypeOK
  <2>3. ASSUME NEW t \in Tids, NEW k \in Windows, NEW w \in Windows
        PROVE  /\ IsFiniteSet(Counted(t, k, w)') /\ Cardinality(Counted(t, k, w)') <= RateLimit
               /\ w = window => /\ Counted(t, k, w)' # {} => touched'[<<t, k>>] = window
                                /\ Cardinality(Counted(t, k, w)') <= count'[<<t, k>>]
    <3> DEFINE S == Counted(t, k, w)
    <3>1. /\ IsFiniteSet(S) /\ Cardinality(S) <= RateLimit
          /\ w = window => /\ S # {} => touched[<<t, k>>] = window
                           /\ Cardinality(S) <= count[<<t, k>>]
      BY DEF BudgetInv
    <3>2. count[<<t, k>>] \in Nat /\ Cardinality(S) \in Nat
      BY <3>1, FS_CardinalityType, CountType
    <3>3. CASE t = q.tid /\ k = key[q] /\ w = window
      <4>1. S' = S \cup {q} /\ q \notin S
        BY <1>6, <2>1, <3>3 DEF Allowed, Counted, IInv, TypeOK
      <4>2. /\ count'[<<t, k>>] = count[<<t, k>>] + 1 /\ count'[<<t, k>>] <= RateLimit
            /\ touched'[<<t, k>>] = window
        BY <1>6, <2>1, <3>3, IncrementedFacts, IncrementFacts DEF Allowed, Within
      <4> HIDE DEF S
      <4>3. IsFiniteSet(S \cup {q}) /\ Cardinality(S \cup {q}) = Cardinality(S) + 1
        BY <3>1, <4>1, FS_AddElement
      <4>4. IsFiniteSet(S') /\ Cardinality(S') = Cardinality(S) + 1
        BY <4>1, <4>3
      <4>5. Cardinality(S') <= RateLimit /\ Cardinality(S') <= count'[<<t, k>>]
        BY <1>1, <3>1, <3>2, <3>3, <4>2, <4>4
      <4>. QED  BY <4>2, <4>4, <4>5 DEF S
    <3>4. CASE ~(t = q.tid /\ k = key[q] /\ w = window)
      <4>1. S' = S
        BY <1>6, <2>1, <3>4 DEF Allowed, Counted, IInv, TypeOK
      <4>2. w = window => count'[<<t, k>>] = count[<<t, k>>] /\ touched'[<<t, k>>] = touched[<<t, k>>]
        BY <2>1, <3>2, <3>4, IncrementedFacts, IncrementFacts
      <4>. QED  BY <3>1, <4>1, <4>2
    <3>. QED  BY <3>3, <3>4
  <2>. QED  BY <1>1, <2>1, <2>2, <2>3 DEF BudgetInv
<1>7. CASE NextWindow
  <2>1. \A t \in Tids, k, w \in Windows : Counted(t, k, w)' = Counted(t, k, w)
    BY <1>7 DEF NextWindow, Counted
  <2>2. window' = window + 1 /\ UNCHANGED <<pc, count, touched, passed, when>>
    BY <1>7 DEF NextWindow
  <2>3. window' \in Windows
    BY <1>1, <1>7, PipelineAssumption DEF NextWindow, Windows
  <2>4. \A t \in Tids, k \in Windows : Counted(t, k, window)' = {}
    BY <1>1, <1>2, <2>2 DEF Counted
  <2>5. ASSUME NEW t \in Tids, NEW k \in Windows
        PROVE  Cardinality(Counted(t, k, window)') <= count'[<<t, k>>]
    <3>1. Counted(t, k, window)' = {}
      BY <2>4
    <3>2. Cardinality(Counted(t, k, window)') = 0
      BY <3>1, FS_EmptySet
    <3>3. count'[<<t, k>>] \in Nat
      BY <2>2, CountType
    <3>. QED  BY <3>2, <3>3
  <2>6. \A q \in Requests : /\ passed'[q] # "no" => pc'[q] \in {"handle", "done"}
                            /\ passed'[q] = "counted" => when'[q] <= window'
    BY <1>1, <1>2, <2>2
  <2>. QED  BY <2>1, <2>4, <2>5, <2>6 DEF BudgetInv
<1>8. ASSUME NEW u \in Tids, NEW v \in Windows, CounterExpires(u, v) PROVE BudgetInv'
  <2>1. UNCHANGED <<pc, key, window, touched, passed, when>> /\ touched[<<u, v>>] # window
    BY <1>1, <1>8 DEF CounterExpires, IInv, TypeOK, Windows
  <2>2. \A t \in Tids, k, w \in Windows : Counted(t, k, w)' = Counted(t, k, w)
    BY <2>1 DEF Counted
  <2>3. ASSUME NEW t \in Tids, NEW k \in Windows
        PROVE  Cardinality(Counted(t, k, window)') <= count'[<<t, k>>]
    <3>1. CASE t = u /\ k = v
      <4>1. Counted(t, k, window) = {}
        BY <2>1, <3>1 DEF BudgetInv
      <4>2. count'[<<t, k>>] = 0
        BY <1>8, <3>1 DEF CounterExpires, IInv, TypeOK
      <4>3. Counted(t, k, window)' = {}
        BY <1>1, <2>1, <2>2, <4>1
      <4>4. Cardinality(Counted(t, k, window)') = 0
        BY <4>3, FS_EmptySet
      <4>. QED  BY <4>2, <4>4
    <3>2. CASE ~(t = u /\ k = v)
      <4>1. count'[<<t, k>>] = count[<<t, k>>]
        BY <1>8, <3>2 DEF CounterExpires, IInv, TypeOK
      <4>2. Counted(t, k, window)' = Counted(t, k, window)
        BY <1>1, <2>1, <2>2
      <4>3. Cardinality(Counted(t, k, window)) <= count[<<t, k>>]
        BY DEF BudgetInv
      <4>. QED  BY <4>1, <4>2, <4>3
    <3>. QED  BY <3>1, <3>2
  <2>. QED  BY <1>1, <1>2, <2>1, <2>2, <2>3 DEF BudgetInv
<1>. QED  BY <1>3, <1>4, <1>5, <1>6, <1>7, <1>8, AsideSteps

\* The commands counted are never uncounted: what was charged to a counter stays
\* charged to it, and a request that comes to increment one is not charged yet.
LEMMA ChargedGrows ==
  ASSUME IInv, BudgetInv, [Next]_vars, NEW t \in Tids, NEW w \in Windows
  PROVE  Charged(t, w) \subseteq Charged(t, w)'
<1> SUFFICES ASSUME NEW q \in Requests, q.tid = t, key[q] = w, passed[q] # "no" \/ out[q] = "limited"
             PROVE  key'[q] = w /\ (passed'[q] # "no" \/ out'[q] = "limited")
  BY DEF Charged
<1>1. pc[q] \in {"handle", "done"} /\ (out[q] = "limited" => pc[q] = "done")
  BY DEF IInv, TxInv, PlaceInv, Placed, BudgetInv
<1>2. CASE Aside
  BY <1>1, <1>2 DEF Aside, limitVars
<1>3. ASSUME NEW r \in Requests, LimitKey(r) \/ Allowed(r) \/ Limited(r) \/ LimiterDown(r)
      PROVE  r # q
  BY <1>1, <1>3 DEF LimitKey, Allowed, Limited, LimiterDown, Goto
<1>4. ASSUME NEW r \in Requests, LimitKey(r) \/ Allowed(r) \/ Limited(r) \/ LimiterDown(r)
      PROVE  key'[q] = key[q] /\ passed'[q] = passed[q] /\ out'[q] = out[q]
  BY <1>3, <1>4 DEF LimitKey, Allowed, Limited, LimiterDown, Finish, IInv, TypeOK
<1>5. CASE NextWindow \/ \E u \in Tids, v \in Windows : CounterExpires(u, v)
  BY <1>5 DEF NextWindow, CounterExpires
<1>. QED  BY <1>2, <1>4, <1>5, AsideSteps

LEMMA ChargedFinite ==
  ASSUME NEW t, NEW w
  PROVE  /\ IsFiniteSet(Charged(t, w)) /\ Cardinality(Charged(t, w)) \in Nat
         /\ IsFiniteSet(Charged(t, w)') /\ Cardinality(Charged(t, w)') \in Nat
<1>1. Charged(t, w) \in SUBSET Requests /\ Charged(t, w)' \in SUBSET Requests
  BY DEF Charged
<1>. QED  BY <1>1, FiniteRequests, FS_Subset, FS_CardinalityType

\* Every increment is charged to the request that made it.
LEMMA ChargedNext ==
  ASSUME IInv, BudgetInv, TraceInv, [Next]_vars, NEW t \in Tids, NEW w \in Windows
  PROVE  count'[<<t, w>>] <= Cardinality(Charged(t, w)')
<1> DEFINE S == Charged(t, w)
           T == Charged(t, w)'
<1>1. /\ IsFiniteSet(S) /\ Cardinality(S) \in Nat /\ IsFiniteSet(T) /\ Cardinality(T) \in Nat
      /\ S \subseteq T
  BY ChargedFinite, ChargedGrows
<1>2. count[<<t, w>>] \in Nat /\ count[<<t, w>>] <= Cardinality(S)
  BY CountType DEF TraceInv
<1>3. Cardinality(S) <= Cardinality(T)
  <2> HIDE DEF S, T
  <2>. QED  BY <1>1, FS_Subset
<1>4. CASE count'[<<t, w>>] \in {0, count[<<t, w>>]}
  BY <1>1, <1>2, <1>3, <1>4
<1>5. ASSUME NEW q \in Requests, Allowed(q) \/ Limited(q) \/ LimiterDown(q),
             count'[<<t, w>>] \notin {0, count[<<t, w>>]}
      PROVE  count'[<<t, w>>] <= Cardinality(T)
  <2>1. count' = Incremented(q)
    BY <1>5 DEF Allowed, Limited, LimiterDown, Increment
  <2>2. t = q.tid /\ w = key[q] /\ count'[<<t, w>>] = count[<<t, w>>] + 1
    BY <1>5, <2>1, IncrementedFacts
  <2>3. pc[q] = "incr" /\ key' = key
    BY <1>5 DEF Allowed, Limited, LimiterDown, Goto
  <2>4. q \notin S
    BY <2>3 DEF Charged, BudgetInv, IInv, TxInv, PlaceInv, Placed
  <2>5. passed'[q] # "no" \/ out'[q] = "limited"
    BY <1>5 DEF Allowed, Limited, LimiterDown, Finish, IInv, TypeOK
  <2>6. q \in T
    BY <2>2, <2>3, <2>5 DEF Charged
  <2> HIDE DEF S, T
  <2>7. S \cup {q} \in SUBSET T /\ Cardinality(S \cup {q}) = Cardinality(S) + 1
    BY <1>1, <2>4, <2>6, FS_AddElement
  <2>8. Cardinality(S \cup {q}) <= Cardinality(T)
    BY <1>1, <2>7, FS_Subset
  <2>. QED  BY <1>1, <1>2, <2>2, <2>7, <2>8
<1>6. CASE Aside
  BY <1>4, <1>6 DEF Aside, limitVars
<1>7. CASE NextWindow \/ \E q \in Requests : LimitKey(q)
  BY <1>4, <1>7 DEF NextWindow, LimitKey
<1>8. ASSUME NEW u \in Tids, NEW v \in Windows, CounterExpires(u, v)
      PROVE  count'[<<t, w>>] \in {0, count[<<t, w>>]}
  BY <1>8 DEF CounterExpires, IInv, TypeOK
<1>. QED  BY <1>4, <1>5, <1>6, <1>7, <1>8, AsideSteps

\* Past the allowlist there are only those who are on it.
LEMMA AllowedNext ==
  ASSUME IInv, TraceInv, [Next]_vars, NEW q \in Requests, pc'[q] \notin {"new", "done"}
  PROVE  Allows(q.tid)
<1>1. CASE pc[q] \notin {"new", "done"}
  BY <1>1 DEF TraceInv
<1>2. CASE pc[q] \in {"new", "done"}
  <2> USE DEF IInv, TypeOK, Goto, Finish
  <2>1. ASSUME NEW r \in Requests, Lookup(r) PROVE Allows(q.tid)
    BY <1>2, <2>1 DEF Lookup
  <2>2. ASSUME NEW r \in Requests, Step(r), ~Lookup(r) PROVE FALSE
    BY <1>2, <2>2 DEF Step, Ignore, RefuseBot, RefuseStranger, InsertUser, InsertLink, LinkConflict,
       Refresh, LoadUser, Commit, RefuseSuspended, Authorized, ServeMiniApp, LimitKey, Allowed,
       Limited, Handle
  <2>3. ASSUME NEW r \in Requests, Fault(r) PROVE FALSE
    BY <1>2, <2>3 DEF Fault, CommitAckLost, TxFails, LimiterDown, Dies
  <2>4. ASSUME UNCHANGED pc PROVE FALSE
    BY <1>2, <2>4
  <2>. QED  BY <2>1, <2>2, <2>3, <2>4 DEF Next, Rule, NextWindow, CounterExpires, vars
<1>. QED  BY <1>1, <1>2

\* Whoever writes or locks a row of telegram_users, or increments a counter, does
\* it under its own identity and past the allowlist.
LEMMA TouchNext ==
  ASSUME IInv, TraceInv, [Next]_vars, NEW t \in Tids, ~Allows(t)
  PROVE  links'[t] = NoAccount /\ holder'[t] = NoOne /\ \A w \in Windows : count'[<<t, w>>] = 0
<1>1. links[t] = NoAccount /\ holder[t] = NoOne /\ \A w \in Windows : count[<<t, w>>] = 0
  BY DEF TraceInv
<1>2. \A q \in Requests : pc[q] \notin {"new", "done"} => q.tid # t
  BY DEF TraceInv
<1> USE TidFacts DEF IInv, TypeOK, Goto, Rollback
<1>3. \A w \in Windows : count'[<<t, w>>] = 0
  <2>1. CASE UNCHANGED count
    BY <1>1, <2>1
  <2>2. ASSUME NEW q \in Requests, Allowed(q) \/ Limited(q) \/ LimiterDown(q), NEW w \in Windows
        PROVE  count'[<<t, w>>] = 0
    <3>1. q.tid # t
      BY <1>2, <2>2 DEF Allowed, Limited, LimiterDown
    <3>2. Incremented(q)[<<t, w>>] = count[<<t, w>>]
      BY <3>1, IncrementedFacts
    <3>. QED  BY <1>1, <2>2, <3>2 DEF Allowed, Limited, LimiterDown, Increment
  <2>3. ASSUME NEW u \in Tids, NEW v \in Windows, CounterExpires(u, v), NEW w \in Windows
        PROVE  count'[<<t, w>>] = 0
    BY <1>1, <2>3 DEF CounterExpires
  <2>4. CASE Aside \/ NextWindow \/ \E q \in Requests : LimitKey(q)
    BY <2>1, <2>4 DEF Aside, limitVars, NextWindow, LimitKey
  <2>. QED  BY <2>2, <2>3, <2>4, AsideSteps
<1>4. links'[t] = NoAccount /\ holder'[t] = NoOne
  <2>1. CASE UNCHANGED <<links, holder>>
    BY <1>1, <2>1
  <2>2. ASSUME NEW q \in Requests, InsertLink(q) \/ Refresh(q) PROVE links'[t] = NoAccount /\ holder'[t] = NoOne
    BY <1>1, <1>2, <2>2 DEF InsertLink, Refresh
  <2>3. ASSUME NEW q \in Requests, LinkConflict(q) \/ TxFails(q) \/ Dies(q)
        PROVE  links'[t] = NoAccount /\ holder'[t] = NoOne
    BY <1>1, <2>3 DEF LinkConflict, TxFails, Dies
  <2>4. ASSUME NEW q \in Requests, Commit(q) \/ CommitAckLost(q)
        PROVE  links'[t] = NoAccount /\ holder'[t] = NoOne
    BY <1>1, <1>2, <2>4 DEF Commit, CommitAckLost, Apply
  <2>5. ASSUME NEW q \in Requests,
               \/ Ignore(q) \/ RefuseBot(q) \/ RefuseStranger(q)
               \/ RefuseSuspended(q) \/ Authorized(q) \/ ServeMiniApp(q)
               \/ LimitKey(q) \/ Allowed(q) \/ Limited(q) \/ LimiterDown(q) \/ Handle(q)
        PROVE  UNCHANGED <<links, holder>>
    BY <2>5, QuietSteps DEF Quiet
  <2>6. ASSUME NEW q \in Requests, Lookup(q) \/ InsertUser(q) \/ LoadUser(q) PROVE UNCHANGED <<links, holder>>
    BY <2>6 DEF Lookup, InsertUser, LoadUser, dbVars
  <2>7. CASE (\E a \in Accounts : Rule(a)) \/ NextWindow
             \/ (\E u \in Tids, v \in Windows : CounterExpires(u, v)) \/ UNCHANGED vars
    BY <2>1, <2>7 DEF Rule, NextWindow, CounterExpires, dbVars, vars
  <2>. QED  BY <2>1, <2>2, <2>3, <2>4, <2>5, <2>6, <2>7 DEF Next, Step, Fault
<1>. QED  BY <1>3, <1>4

LEMMA TraceNext == IInv /\ BudgetInv /\ TraceInv /\ [Next]_vars => TraceInv'
<1> SUFFICES ASSUME IInv, BudgetInv, TraceInv, [Next]_vars PROVE TraceInv'
  OBVIOUS
<1>1. ASSUME NEW q \in Requests, passed'[q] # "no" PROVE out'[q] \notin {"ignored", "rejected"}
  <2>1. passed[q] # "no" => pc[q] \in {"handle", "done"} /\ out[q] \notin {"ignored", "rejected"}
    BY DEF BudgetInv, TraceInv
  <2>2. pc[q] # "done" => out[q] = "pending"
    BY DEF IInv, TxInv, PlaceInv, Placed
  <2>3. CASE Aside
    BY <1>1, <2>1, <2>3 DEF Aside, limitVars
  <2>4. ASSUME NEW r \in Requests, LimitKey(r) \/ Allowed(r) \/ LimiterDown(r)
        PROVE  out' = out /\ (passed'[q] = passed[q] \/ pc[q] = "incr")
    BY <2>4 DEF LimitKey, Allowed, LimiterDown, Goto, IInv, TypeOK
  <2>5. ASSUME NEW r \in Requests, Limited(r)
        PROVE  passed' = passed /\ (out'[q] = out[q] \/ out'[q] = "limited")
    BY <2>5 DEF Limited, Finish, IInv, TypeOK
  <2>6. CASE NextWindow \/ \E u \in Tids, v \in Windows : CounterExpires(u, v)
    BY <1>1, <2>1, <2>6 DEF NextWindow, CounterExpires
  <2>. QED  BY <1>1, <2>1, <2>2, <2>3, <2>4, <2>5, <2>6, AsideSteps
<1>2. \A t : Allows(t)' <=> Allows(t)
  BY DEF Allows, Valid
<1>. QED  BY <1>1, <1>2, AllowedNext, TouchNext, ChargedNext DEF TraceInv

LEMMA InitBudget == Init => BudgetInv
<1> SUFFICES ASSUME Init PROVE BudgetInv
  OBVIOUS
<1>1. window \in Windows /\ RateLimit \in Nat
  BY PipelineAssumption DEF Init, Windows
<1>2. \A t \in Tids, k, w \in Windows : Counted(t, k, w) = {} /\ count[<<t, k>>] = 0
  BY DEF Init, Counted
<1>3. \A t \in Tids, k, w \in Windows :
        IsFiniteSet(Counted(t, k, w)) /\ Cardinality(Counted(t, k, w)) = 0
  BY <1>2, FS_EmptySet
<1>4. \A q \in Requests : passed[q] = "no"
  BY DEF Init
<1>. QED  BY <1>1, <1>2, <1>3, <1>4 DEF BudgetInv

\* While Redis answers, a counter lets at most the limit pass during any one
\* window, for any number of commands at once, whenever windows turn and
\* although counters expire under commands about to increment them.
THEOREM RateIsKept == Spec => []WithinRate
<1>1. BudgetInv => WithinRate
  BY DEF BudgetInv, WithinRate
<1>. QED  BY <1>1, InitBudget, BudgetNext, PipelineInductive, PTL DEF Spec

\* Whoever is not on the allowlist leaves no row, no lock and no count, and no
\* counter moves for a request that was turned away, for finitely many requests
\* (Dispatch, Authorize).
THEOREM NoTraceOfStrangers == Spec => []StrangersLeaveNoTrace
<1>1. Init => TraceInv
  <2> SUFFICES ASSUME Init PROVE TraceInv
    OBVIOUS
  <2>1. \A t \in Tids, w \in Windows : count[<<t, w>>] <= Cardinality(Charged(t, w))
    BY ChargedFinite DEF Init
  <2>. QED  BY <2>1 DEF Init, TraceInv
<1>2. IInv /\ TraceInv => StrangersLeaveNoTrace
  <2> SUFFICES ASSUME IInv, TraceInv PROVE StrangersLeaveNoTrace
    OBVIOUS
  <2>1. \A t \in Tids : ~(t \in Listed /\ t > 0) => ~Allows(t)
    BY DEF Allows, Valid
  <2>2. ASSUME NEW t \in Tids, NEW w \in Windows
        PROVE  count[<<t, w>>] <=
                 Cardinality({q \in Requests : q.tid = t /\ out[q] \notin {"ignored", "rejected"}})
    <3> DEFINE S == Charged(t, w)
               T == {q \in Requests : q.tid = t /\ out[q] \notin {"ignored", "rejected"}}
    <3>1. S \in SUBSET T
      BY DEF Charged, TraceInv
    <3>2. T \in SUBSET Requests
      OBVIOUS
    <3>3. count[<<t, w>>] \in Nat /\ count[<<t, w>>] <= Cardinality(S)
      BY CountType DEF TraceInv
    <3> HIDE DEF S, T
    <3>4. IsFiniteSet(T) /\ Cardinality(T) \in Nat
      BY <3>2, FiniteRequests, FS_Subset, FS_CardinalityType
    <3>5. Cardinality(S) <= Cardinality(T) /\ Cardinality(S) \in Nat
      BY <3>1, <3>4, FS_Subset, FS_CardinalityType
    <3>6. count[<<t, w>>] <= Cardinality(T)
      BY <3>3, <3>4, <3>5
    <3>. QED  BY <3>6 DEF T
  <2>. QED  BY <2>1, <2>2 DEF StrangersLeaveNoTrace, TraceInv
<1>. QED  BY <1>1, <1>2, InitBudget, BudgetNext, TraceNext, PipelineInductive, PTL DEF Spec
=============================================================================
