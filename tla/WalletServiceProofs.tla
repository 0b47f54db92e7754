------------------------ MODULE WalletServiceProofs ------------------------
(***************************************************************************)
(* Proofs about WalletService, for any number of accounts, wallets,        *)
(* requests and workers and any retry limit.                               *)
(***************************************************************************)
EXTENDS WalletService, TLAPS

USE DEF db, reqVars, queueVars, workerVars

-----------------------------------------------------------------------------
(* Types                                                                   *)

\* The rounding of a NUMERIC column maps policies to policies, keeps the
\* trading switch, and yields a multiple of the column's last digit.
LEMMA StoredPolicy ==
  ASSUME NEW p \in Policies
  PROVE  /\ Stored(p) \in Policies
         /\ Stored(p).trading = p.trading
         /\ Stored(p).limit % Scale = 0
  BY DEF Stored, Scale, Policies

LEMMA InitialPolicyType == InitialPolicy \in Policies /\ NoPolicy \in Policies
  BY BoundAssumption DEF InitialPolicy, NoPolicy, Policies

\* Every action keeps every variable within its type.
LEMMA TypeStep == TypeOK /\ [Next]_vars => TypeOK'
  <1> SUFFICES ASSUME TypeOK, [Next]_vars PROVE TypeOK'
    OBVIOUS
  <1> USE WalletAssumption, RequestAssumption, BoundAssumption,
          StoredPolicy, InitialPolicyType
      DEF TypeOK
  <1>1. ASSUME NEW r \in Reqs, LinkRejected(r) PROVE TypeOK'
    BY <1>1 DEF LinkRejected, New, Step, RecordAudit, Event, AuditEvents, PcStates, Requests
  <1>2. ASSUME NEW r \in Reqs, LinkStore(r) PROVE TypeOK'
    BY <1>2 DEF LinkStore, New, Step, InsertWallet, PcStates, Requests
  <1>3. ASSUME NEW r \in Reqs, LinkFailed(r) PROVE TypeOK'
    <2>1. CASE InsertWallet(r)
      BY <1>3, <2>1 DEF LinkFailed, Step, InsertWallet, RecordAudit, Event, AuditEvents, PcStates, Requests
    <2>2. CASE UNCHANGED db
      BY <1>3, <2>2 DEF LinkFailed, Step, RecordAudit, Event, AuditEvents, PcStates, Requests
    <2> QED
      BY <1>3, <2>1, <2>2 DEF LinkFailed
  <1>4. ASSUME NEW r \in Reqs, NotOwned(r) PROVE TypeOK'
    BY <1>4 DEF NotOwned, Step, PcStates
  <1>5. ASSUME NEW r \in Reqs, DisableGet(r) PROVE TypeOK'
    BY <1>5 DEF DisableGet, Step, PcStates
  <1>6. ASSUME NEW r \in Reqs, PolicyInvalid(r) PROVE TypeOK'
    BY <1>6 DEF PolicyInvalid, Step, RecordAudit, Event, AuditEvents, PcStates, Requests
  <1>7. ASSUME NEW r \in Reqs, PolicyGet(r) PROVE TypeOK'
    BY <1>7 DEF PolicyGet, Step, PcStates
  <1>8. ASSUME NEW r \in Reqs, LinkAudit(r) PROVE TypeOK'
    BY <1>8 DEF LinkAudit, Step, RecordAudit, Event, AuditEvents, PcStates, Requests
  <1>9. ASSUME NEW r \in Reqs, LinkEnqueue(r) PROVE TypeOK'
    BY <1>9 DEF LinkEnqueue, Step, PcStates, Requests
  <1>10. ASSUME NEW r \in Reqs, LinkEnqueueFails(r) PROVE TypeOK'
    BY <1>10 DEF LinkEnqueueFails, Step, PcStates
  <1>11. ASSUME NEW r \in Reqs, SetStatusSame(r) PROVE TypeOK'
    BY <1>11 DEF SetStatusSame, Step, PcStates
  <1>12. ASSUME NEW r \in Reqs, SetStatusRead(r) PROVE TypeOK'
    BY <1>12 DEF SetStatusRead, Step, PcStates
  <1>13. ASSUME NEW r \in Reqs, SetStatusWrite(r) PROVE TypeOK'
    BY <1>13 DEF SetStatusWrite, Step, PcStates, Requests
  <1>14. ASSUME NEW r \in Reqs, SetStatusFails(r) PROVE TypeOK'
    BY <1>14 DEF SetStatusFails, Step, PcStates, Requests
  <1>15. ASSUME NEW r \in Reqs, DisableAudit(r) PROVE TypeOK'
    BY <1>15 DEF DisableAudit, Step, RecordAudit, Event, AuditEvents, PcStates, Requests
  <1>16. ASSUME NEW r \in Reqs, PolicyBefore(r) PROVE TypeOK'
    BY <1>16 DEF PolicyBefore, Step, PcStates, Requests
  <1>17. ASSUME NEW r \in Reqs, PolicyWrite(r) PROVE TypeOK'
    BY <1>17 DEF PolicyWrite, WritePolicy, Step, PcStates, Requests
  <1>18. ASSUME NEW r \in Reqs, PolicyRejected(r) PROVE TypeOK'
    <2>1. CASE WritePolicy(r)
      BY <1>18, <2>1 DEF PolicyRejected, WritePolicy, Step, RecordAudit, Event, AuditEvents, PcStates, Requests
    <2>2. CASE UNCHANGED db
      BY <1>18, <2>2 DEF PolicyRejected, Step, RecordAudit, Event, AuditEvents, PcStates, Requests
    <2> QED
      BY <1>18, <2>1, <2>2 DEF PolicyRejected
  <1>19. ASSUME NEW r \in Reqs, PolicyAudit(r) PROVE TypeOK'
    <2>1. [Event("policy:changed", "ok", r.wallet)
             EXCEPT !.before = before[r], !.after = r.policy] \in AuditEvents
      BY DEF Event, AuditEvents, Requests
    <2> QED
      BY <1>19, <2>1 DEF PolicyAudit, Step, RecordAudit, PcStates
  <1>20. ASSUME NEW r \in Reqs, RequestDies(r) PROVE TypeOK'
    BY <1>20 DEF RequestDies, PcStates
  <1>21. ASSUME NEW w \in Wallets, Expire(w) PROVE TypeOK'
    BY <1>21 DEF Expire, Settle
  <1>22. ASSUME NEW k \in Workers, NEW w \in Wallets, Dequeue(k, w) PROVE TypeOK'
    BY <1>22 DEF Dequeue
  <1>23. ASSUME NEW k \in Workers, VerifyGet(k) PROVE TypeOK'
    BY <1>23 DEF VerifyGet, WorkerStep
  <1>24. ASSUME NEW k \in Workers, NEW id \in Chains, VerifyChain(k, id) PROVE TypeOK'
    BY <1>24 DEF VerifyChain, WorkerStep
  <1>25. ASSUME NEW k \in Workers, VerifyWrongChain(k) PROVE TypeOK'
    BY <1>25 DEF VerifyWrongChain, Return, Settle, RecordAudit, Event, AuditEvents
  <1>26. ASSUME NEW k \in Workers, VerifyBalance(k) PROVE TypeOK'
    BY <1>26 DEF VerifyBalance, WorkerStep
  <1>27. ASSUME NEW k \in Workers, VerifyBalanceFails(k) PROVE TypeOK'
    BY <1>27 DEF VerifyBalanceFails, Return, Settle, RecordAudit, Event, AuditEvents
  <1>28. ASSUME NEW k \in Workers, MarkVerified(k) PROVE TypeOK'
    BY <1>28 DEF MarkVerified, PromotePending, WorkerStep
  <1>29. ASSUME NEW k \in Workers, MarkConflict(k) PROVE TypeOK'
    BY <1>29 DEF MarkConflict, Return, Settle
  <1>30. ASSUME NEW k \in Workers, VerifyFails(k) PROVE TypeOK'
    <2>1. CASE UNCHANGED db
      BY <1>30, <2>1 DEF VerifyFails, Return, Settle
    <2>2. CASE PromotePending(job[k])
      <3>1. job[k] \in Wallets
        BY <1>30 DEF VerifyFails
      <3>2. /\ status' \in [Wallets -> {"none", "pending", "active", "disabled"}]
            /\ verified' \in [Wallets -> BOOLEAN]
            /\ UNCHANGED <<role, policy>>
        <4>1. CASE status[job[k]] = "pending"
          BY <2>2, <3>1, <4>1 DEF PromotePending
        <4>2. CASE status[job[k]] # "pending"
          BY <2>2, <4>2 DEF PromotePending
        <4> QED
          BY <4>1, <4>2
      <3> QED
        BY <1>30, <3>1, <3>2 DEF VerifyFails, Return, Settle
    <2> QED
      BY <1>30, <2>1, <2>2 DEF VerifyFails
  <1>31. ASSUME NEW k \in Workers, VerifyAudit(k) PROVE TypeOK'
    BY <1>31 DEF VerifyAudit, WorkerStep, RecordAudit, Event, AuditEvents
  <1>32. ASSUME NEW k \in Workers, VerifyDone(k) PROVE TypeOK'
    BY <1>32 DEF VerifyDone, Return, Settle
  <1>33. ASSUME NEW k \in Workers, WorkerDies(k) PROVE TypeOK'
    BY <1>33 DEF WorkerDies
  <1>34. CASE UNCHANGED vars
    BY <1>34 DEF vars
  <1> HIDE DEF TypeOK
  <1> QED
    BY <1>1, <1>2, <1>3, <1>4, <1>5, <1>6, <1>7, <1>8, <1>9, <1>10, <1>11, <1>12, <1>13, <1>14, <1>15, <1>16, <1>17, <1>18, <1>19, <1>20, <1>21, <1>22, <1>23, <1>24, <1>25, <1>26, <1>27, <1>28, <1>29, <1>30, <1>31, <1>32, <1>33, <1>34
       DEF Next, RequestAction, RequestArrives, RequestStep, WorkerAction, HandlerStep

\* Type correctness of the whole system.
THEOREM TypeCorrect == Spec => []TypeOK
  <1>1. Init => TypeOK
    BY WalletAssumption, InitialPolicyType, BoundAssumption DEF Init, TypeOK, PcStates, Roles
  <1> QED
    BY <1>1, TypeStep, PTL DEF Spec

-----------------------------------------------------------------------------
(* Who changes what                                                        *)

\* Workers and the queue leave the requests, the policies and the roles alone.
LEMMA WorkersLeaveRequests ==
  WorkerAction => UNCHANGED <<role, policy, pc, before>>
  BY DEF WorkerAction, Expire, Dequeue, HandlerStep, VerifyGet, VerifyChain,
         VerifyWrongChain, VerifyBalance, VerifyBalanceFails, MarkVerified,
         MarkConflict, VerifyFails, VerifyAudit, VerifyDone, WorkerDies, PromotePending

\* Requests leave the executions alone, and of the queue only add a task.
LEMMA RequestsLeaveWorkers ==
  ASSUME NEW r \in Reqs, RequestAction(r)
  PROVE  UNCHANGED <<verified, retried, holder, wpc, job, chainSeen>>
  BY DEF RequestAction, RequestArrives, RequestStep, LinkRejected, LinkStore, LinkFailed,
         InsertWallet, LinkAudit, LinkEnqueue, LinkEnqueueFails, NotOwned, DisableGet,
         SetStatusSame, SetStatusRead, SetStatusWrite, SetStatusFails, DisableAudit,
         PolicyInvalid, PolicyGet, PolicyBefore, PolicyWrite, WritePolicy,
         PolicyRejected, PolicyAudit, RequestDies

-----------------------------------------------------------------------------
(* The status machine                                                      *)

\* Every step of the detailed system is a step of the status machine or
\* leaves the status and the role of every wallet alone.
LEMMA LifecycleStep ==
  TypeOK /\ RequestInv /\ ExecutionInv /\ [Next]_vars
    => [Lifecycle!Next]_<<status, role>>
  <1> SUFFICES ASSUME TypeOK, RequestInv, ExecutionInv, [Next]_vars
               PROVE  Lifecycle!Next \/ UNCHANGED <<status, role>>
    OBVIOUS
  <1> USE WalletAssumption, RequestAssumption
  <1>1. ASSUME NEW r \in Reqs, InsertWallet(r) PROVE Lifecycle!Next
    BY <1>1 DEF InsertWallet, Lifecycle!Next, Lifecycle!Link, Lifecycle!Roles, Roles, Requests
  <1>2. ASSUME NEW r \in Reqs, pc[r] = "disable_write",
               status' = [status EXCEPT ![r.wallet] = "disabled"], UNCHANGED role
        PROVE  Lifecycle!Next \/ UNCHANGED <<status, role>>
    <2>1. r.wallet \in Wallets /\ status[r.wallet] \in {"pending", "active", "disabled"}
      BY <1>2 DEF RequestInv, TypeOK, Requests
    <2>2. CASE status[r.wallet] = "disabled"
      BY <1>2, <2>1, <2>2 DEF TypeOK
    <2>3. CASE status[r.wallet] # "disabled"
      BY <1>2, <2>1, <2>3 DEF Lifecycle!Next, Lifecycle!Disable
    <2> QED
      BY <2>2, <2>3
  <1>3. ASSUME NEW k \in Workers, wpc[k] # "idle", PromotePending(job[k])
        PROVE  Lifecycle!Next \/ UNCHANGED <<status, role>>
    BY <1>3 DEF PromotePending, BotSlotTaken, TypeOK, Lifecycle!Next,
                Lifecycle!Activate, Lifecycle!OtherActiveBot
  <1>4. ASSUME NEW r \in Reqs, RequestAction(r)
        PROVE  Lifecycle!Next \/ UNCHANGED <<status, role>>
    BY <1>1, <1>2, <1>4
       DEF RequestAction, RequestArrives, RequestStep, LinkRejected, LinkStore, LinkFailed,
           LinkAudit, LinkEnqueue, LinkEnqueueFails, NotOwned, DisableGet, SetStatusSame,
           SetStatusRead, SetStatusWrite, SetStatusFails, DisableAudit, PolicyInvalid, PolicyGet,
           PolicyBefore, PolicyWrite, WritePolicy, PolicyRejected, PolicyAudit, RequestDies, Step
  <1>5. ASSUME WorkerAction PROVE Lifecycle!Next \/ UNCHANGED <<status, role>>
    BY <1>3, <1>5, WorkersLeaveRequests
       DEF WorkerAction, Expire, Dequeue, HandlerStep, VerifyGet, VerifyChain, VerifyWrongChain,
           VerifyBalance, VerifyBalanceFails, MarkVerified, MarkConflict, VerifyFails,
           VerifyAudit, VerifyDone, WorkerDies, WorkerStep
  <1> QED
    BY <1>4, <1>5 DEF Next, vars

\* Hence a row never goes away, and a decision is never taken back.
LEMMA StatusMonotone ==
  ASSUME TypeOK, [Lifecycle!Next]_<<status, role>>, NEW w \in Wallets
  PROVE  /\ status[w] # "none" => status'[w] # "none"
         /\ status[w] \in {"active", "disabled"} => status'[w] \in {"active", "disabled"}
         /\ status[w] = "disabled" => status'[w] = "disabled"
  BY DEF TypeOK, Lifecycle!Next, Lifecycle!Link, Lifecycle!Activate, Lifecycle!Disable

\* The status machine keeps the bot slot exclusive.
LEMMA OneActiveBotStep ==
  TypeOK /\ OneActiveBot /\ [Lifecycle!Next]_<<status, role>> => OneActiveBot'
  <1> SUFFICES ASSUME TypeOK, OneActiveBot, [Lifecycle!Next]_<<status, role>>
               PROVE  OneActiveBot'
    OBVIOUS
  <1>1. ASSUME NEW w \in Wallets, NEW rl \in Lifecycle!Roles, Lifecycle!Link(w, rl)
        PROVE  OneActiveBot'
    BY <1>1 DEF Lifecycle!Link, OneActiveBot, TypeOK
  <1>2. ASSUME NEW w \in Wallets, Lifecycle!Activate(w) PROVE OneActiveBot'
    BY <1>2 DEF Lifecycle!Activate, Lifecycle!OtherActiveBot, OneActiveBot, TypeOK
  <1>3. ASSUME NEW w \in Wallets, Lifecycle!Disable(w) PROVE OneActiveBot'
    BY <1>3 DEF Lifecycle!Disable, OneActiveBot, TypeOK
  <1>4. CASE UNCHANGED <<status, role>>
    BY <1>4 DEF OneActiveBot
  <1> QED
    BY <1>1, <1>2, <1>3, <1>4 DEF Lifecycle!Next

-----------------------------------------------------------------------------
(* Requests and executions                                                 *)

LEMMA RequestInvStep ==
  TypeOK /\ RequestInv /\ ExecutionInv /\ [Next]_vars => RequestInv'
  <1> SUFFICES ASSUME TypeOK, RequestInv, ExecutionInv, [Next]_vars,
                      NEW q \in Reqs
               PROVE  RequestInv!(q)'
    BY DEF RequestInv
  <1>1. q.wallet \in Wallets
    BY RequestAssumption DEF Requests
  <1>2. /\ status[q.wallet] # "none" => status'[q.wallet] # "none"
        /\ status[q.wallet] = "disabled" => status'[q.wallet] = "disabled"
    BY <1>1, LifecycleStep, StatusMonotone
  <1>3. CASE pc'[q] = pc[q]
    BY <1>2, <1>3 DEF RequestInv
  <1>4. CASE RequestAction(q)
    <2> USE <1>1, <1>2, <1>4 DEF RequestInv, TypeOK, Step, New, Owned
    <2>1. CASE RequestDies(q)
      BY <2>1 DEF RequestDies
    <2>2. CASE RequestArrives(q)
      BY <2>2 DEF RequestArrives, LinkRejected, LinkStore, LinkFailed, InsertWallet,
                  NotOwned, DisableGet, PolicyInvalid, PolicyGet
    <2>3. CASE RequestStep(q)
      BY <2>3 DEF RequestStep, LinkAudit, LinkEnqueue, LinkEnqueueFails, SetStatusSame,
                  SetStatusRead, SetStatusWrite, SetStatusFails, DisableAudit,
                  PolicyBefore, PolicyWrite, PolicyRejected, PolicyAudit
    <2> QED
      BY <2>1, <2>2, <2>3 DEF RequestAction
  <1>5. ASSUME NEW r \in Reqs, RequestAction(r), r # q PROVE pc'[q] = pc[q]
    BY <1>5 DEF TypeOK, RequestAction, RequestArrives, RequestStep, Step, LinkRejected, LinkStore,
           LinkFailed, LinkAudit, LinkEnqueue, LinkEnqueueFails, NotOwned, DisableGet,
           SetStatusSame, SetStatusRead, SetStatusWrite, SetStatusFails, DisableAudit,
           PolicyInvalid, PolicyGet, PolicyBefore, PolicyWrite, PolicyRejected, PolicyAudit,
           RequestDies
  <1> QED
    BY <1>3, <1>4, <1>5, WorkersLeaveRequests DEF Next, vars

LEMMA ExecutionInvStep ==
  TypeOK /\ RequestInv /\ ExecutionInv /\ TaskHasWallet /\ [Next]_vars => ExecutionInv'
  <1> SUFFICES ASSUME TypeOK, RequestInv, ExecutionInv, TaskHasWallet, [Next]_vars,
                      NEW j \in Workers
               PROVE  ExecutionInv!(j)'
    BY DEF ExecutionInv
  <1>1. \A w \in Wallets :
          /\ status[w] # "none" => status'[w] # "none"
          /\ status[w] \in {"active", "disabled"} => status'[w] \in {"active", "disabled"}
    BY LifecycleStep, StatusMonotone
  <1>2. CASE UNCHANGED <<wpc[j], job[j], chainSeen[j]>>
    BY <1>1, <1>2 DEF ExecutionInv, TypeOK
  <1>3. CASE wpc'[j] = "idle"
    BY <1>3
  <1>4. ASSUME NEW w \in Wallets, Dequeue(j, w) PROVE ExecutionInv!(j)'
    BY <1>1, <1>4 DEF Dequeue, TypeOK, TaskHasWallet
  <1>5. CASE HandlerStep(j)
    <2> USE <1>1 DEF TypeOK, ExecutionInv, WorkerStep
    <2>1. CASE VerifyGet(j)
      BY <2>1 DEF VerifyGet
    <2>2. ASSUME NEW id \in Chains, VerifyChain(j, id) PROVE ExecutionInv!(j)'
      BY <2>2 DEF VerifyChain
    <2>3. CASE VerifyBalance(j)
      BY <2>3 DEF VerifyBalance
    <2>4. CASE MarkVerified(j)
      <3>1. job[j] \in Wallets /\ status[job[j]] # "none"
        BY <2>4 DEF MarkVerified
      <3>2. status'[job[j]] \in {"active", "disabled"}
        BY <2>4, <3>1 DEF MarkVerified, PromotePending
      <3> QED
        BY <2>4, <3>2 DEF MarkVerified
    <2>5. CASE VerifyAudit(j)
      BY <2>5 DEF VerifyAudit
    <2>6. CASE \E result \in {"ok", "skip", "error"} : Return(j, result)
      BY <2>6 DEF Return
    <2> QED
      BY <1>5, <2>1, <2>2, <2>3, <2>4, <2>5, <2>6
         DEF HandlerStep, VerifyWrongChain, VerifyBalanceFails, MarkConflict, VerifyFails, VerifyDone
  <1>6. ASSUME NEW k \in Workers, k # j, HandlerStep(k) \/ WorkerDies(k)
        PROVE  UNCHANGED <<wpc[j], job[j], chainSeen[j]>>
    BY <1>6 DEF TypeOK, HandlerStep, VerifyGet, VerifyChain, VerifyWrongChain, VerifyBalance,
                VerifyBalanceFails, MarkVerified, MarkConflict, VerifyFails, VerifyAudit,
                VerifyDone, WorkerDies, WorkerStep, Return
  <1>7. ASSUME NEW k \in Workers, k # j, NEW w \in Wallets, Dequeue(k, w)
        PROVE  UNCHANGED <<wpc[j], job[j], chainSeen[j]>>
    BY <1>7 DEF TypeOK, Dequeue
  <1>8. ASSUME WorkerDies(j) PROVE wpc'[j] = "idle"
    BY <1>8 DEF WorkerDies, TypeOK
  <1>9. ASSUME NEW w \in Wallets, Expire(w) PROVE UNCHANGED <<wpc[j], job[j], chainSeen[j]>>
    BY <1>9 DEF Expire
  <1> QED
    BY <1>2, <1>3, <1>4, <1>5, <1>6, <1>7, <1>8, <1>9, RequestsLeaveWorkers
       DEF Next, WorkerAction, vars

-----------------------------------------------------------------------------
(* The queue                                                               *)

\* A task appears only for a committed row; only a handler that has seen its
\* wallet decided completes it.
LEMMA TaskStep ==
  ASSUME TypeOK, RequestInv, ExecutionInv, [Next]_vars, NEW w \in Wallets
  PROVE  /\ task'[w] # "none" => task[w] # "none" \/ status[w] # "none"
         /\ task'[w] = "completed" =>
              task[w] = "completed" \/ status[w] \in {"active", "disabled"}
  <1> DEFINE Goal == /\ task'[w] # "none" => task[w] # "none" \/ status[w] # "none"
                     /\ task'[w] = "completed" =>
                          task[w] = "completed" \/ status[w] \in {"active", "disabled"}
  <1> USE DEF TypeOK
  <1>1. ASSUME NEW r \in Reqs, LinkEnqueue(r) PROVE Goal
    BY <1>1, RequestAssumption DEF LinkEnqueue, Step, RequestInv, Requests
  <1>2. ASSUME NEW v \in Wallets, Expire(v) PROVE Goal
    BY <1>2 DEF Expire, Settle
  <1>3. ASSUME NEW v \in Wallets, NEW k \in Workers, Dequeue(k, v) PROVE Goal
    BY <1>3 DEF Dequeue
  <1>4. ASSUME NEW k \in Workers, wpc[k] # "idle", Return(k, "error") \/ Return(k, "skip")
        PROVE  Goal
    BY <1>4 DEF Return, Settle, ExecutionInv
  <1>5. ASSUME NEW k \in Workers, VerifyDone(k) PROVE Goal
    BY <1>5 DEF VerifyDone, Return, Settle, ExecutionInv
  <1>6. CASE UNCHANGED task
    BY <1>6
  <1> HIDE DEF TypeOK
  <1>7. ASSUME NEW r \in Reqs, RequestAction(r) PROVE Goal
    BY <1>1, <1>6, <1>7
       DEF RequestAction, RequestArrives, RequestStep, LinkRejected, LinkStore, LinkFailed,
           LinkAudit, LinkEnqueueFails, NotOwned, DisableGet, SetStatusSame,
           SetStatusRead, SetStatusWrite, SetStatusFails, DisableAudit, PolicyInvalid, PolicyGet,
           PolicyBefore, PolicyWrite, PolicyRejected, PolicyAudit, RequestDies
  <1>8. ASSUME WorkerAction PROVE Goal
    BY <1>2, <1>3, <1>4, <1>5, <1>6, <1>8
       DEF WorkerAction, HandlerStep, VerifyGet, VerifyChain, VerifyWrongChain,
           VerifyBalance, VerifyBalanceFails, MarkVerified, MarkConflict, VerifyFails,
           VerifyAudit, WorkerDies, WorkerStep
  <1> QED
    BY <1>6, <1>7, <1>8 DEF Next, vars

LEMMA TaskInvStep ==
  /\ TypeOK /\ RequestInv /\ ExecutionInv /\ TaskHasWallet /\ CompletedMeansDecided
  /\ [Next]_vars
  => TaskHasWallet' /\ CompletedMeansDecided'
  <1> SUFFICES ASSUME TypeOK, RequestInv, ExecutionInv, TaskHasWallet, CompletedMeansDecided,
                      [Next]_vars, NEW w \in Wallets
               PROVE  /\ task'[w] # "none" => status'[w] # "none"
                      /\ task'[w] = "completed" => status'[w] \in {"active", "disabled"}
    BY DEF TaskHasWallet, CompletedMeansDecided
  <1> QED
    BY LifecycleStep, StatusMonotone, TaskStep DEF TaskHasWallet, CompletedMeansDecided

-----------------------------------------------------------------------------
(* The rows                                                                *)

\* The only ways in which a step writes the wallet and policy rows.
LEMMA RowStep ==
  ASSUME TypeOK, RequestInv, ExecutionInv, [Next]_vars
  PROVE  \/ UNCHANGED db
         \/ \E r \in Reqs : InsertWallet(r) /\ r.op = "link"
         \/ \E r \in Reqs : /\ WritePolicy(r)
                             /\ pc[r] = "policy_read"
                             /\ pc'[r] \in {"policy_written", "done"}
         \/ \E r \in Reqs : /\ pc[r] = "disable_write" /\ pc'[r] # pc[r]
                             /\ status' = [status EXCEPT ![r.wallet] = "disabled"]
                             /\ UNCHANGED <<role, verified, policy>>
         \/ \E k \in Workers : wpc[k] = "mark" /\ PromotePending(job[k])
  <1> USE DEF TypeOK
  <1>1. ASSUME NEW r \in Reqs, RequestAction(r)
        PROVE  \/ UNCHANGED db
               \/ InsertWallet(r) /\ r.op = "link"
               \/ /\ WritePolicy(r)
                  /\ pc[r] = "policy_read"
                  /\ pc'[r] \in {"policy_written", "done"}
               \/ /\ pc[r] = "disable_write" /\ pc'[r] # pc[r]
                  /\ status' = [status EXCEPT ![r.wallet] = "disabled"]
                  /\ UNCHANGED <<role, verified, policy>>
    BY <1>1
       DEF RequestAction, RequestArrives, RequestStep, LinkRejected, LinkStore, LinkFailed,
           LinkAudit, LinkEnqueue, LinkEnqueueFails, NotOwned, DisableGet, SetStatusSame,
           SetStatusRead, SetStatusWrite, SetStatusFails, DisableAudit, PolicyInvalid, PolicyGet,
           PolicyBefore, PolicyWrite, PolicyRejected, PolicyAudit, RequestDies, Step, New
  <1>2. ASSUME WorkerAction
        PROVE  \/ UNCHANGED db
               \/ \E k \in Workers : wpc[k] = "mark" /\ PromotePending(job[k])
    BY <1>2
       DEF WorkerAction, Expire, Dequeue, HandlerStep, VerifyGet, VerifyChain, VerifyWrongChain,
           VerifyBalance, VerifyBalanceFails, MarkVerified, MarkConflict, VerifyFails,
           VerifyAudit, VerifyDone, WorkerDies, WorkerStep
  <1> QED
    BY <1>1, <1>2 DEF Next, vars

LEMMA RowInvStep ==
  /\ TypeOK /\ RequestInv /\ ExecutionInv /\ ActiveIsVerified /\ PolicyWithinBounds
  /\ [Next]_vars
  => ActiveIsVerified' /\ PolicyWithinBounds'
  <1> SUFFICES ASSUME TypeOK, RequestInv, ExecutionInv, ActiveIsVerified, PolicyWithinBounds,
                      [Next]_vars
               PROVE  ActiveIsVerified' /\ PolicyWithinBounds'
    OBVIOUS
  <1> USE RequestAssumption, WalletAssumption DEF TypeOK, Requests
  <1>1. CASE UNCHANGED db
    BY <1>1 DEF ActiveIsVerified, PolicyWithinBounds, Check
  <1>2. ASSUME NEW r \in Reqs, InsertWallet(r)
        PROVE  ActiveIsVerified' /\ PolicyWithinBounds'
    <2>1. ActiveIsVerified'
      BY <1>2 DEF InsertWallet, ActiveIsVerified
    <2>2. Check(Stored(InitialPolicy)) /\ Stored(InitialPolicy).limit % Scale = 0
      BY <1>2, StoredPolicy, InitialPolicyType DEF InsertWallet
    <2>3. PolicyWithinBounds'
      BY <1>2, <2>2 DEF InsertWallet, PolicyWithinBounds, Check
    <2> QED
      BY <2>1, <2>3
  <1>3. ASSUME NEW r \in Reqs, WritePolicy(r)
        PROVE  ActiveIsVerified' /\ PolicyWithinBounds'
    <2>1. Check(Stored(r.policy)) /\ Stored(r.policy).limit % Scale = 0
      BY <1>3, StoredPolicy DEF WritePolicy
    <2> QED
      BY <1>3, <2>1 DEF WritePolicy, ActiveIsVerified, PolicyWithinBounds, Check
  <1>4. ASSUME NEW r \in Reqs, pc[r] = "disable_write",
               status' = [status EXCEPT ![r.wallet] = "disabled"],
               UNCHANGED <<role, verified, policy>>
        PROVE  ActiveIsVerified' /\ PolicyWithinBounds'
    BY <1>4 DEF RequestInv, ActiveIsVerified, PolicyWithinBounds, Check
  <1>5. ASSUME NEW k \in Workers, wpc[k] = "mark", PromotePending(job[k])
        PROVE  ActiveIsVerified' /\ PolicyWithinBounds'
    BY <1>5 DEF PromotePending, ActiveIsVerified, PolicyWithinBounds, Check
  <1> HIDE DEF TypeOK
  <1> QED
    BY <1>1, <1>2, <1>3, <1>4, <1>5, RowStep

\* A policy request that has written stays counted as having written.
LEMMA WrittenStays ==
  ASSUME TypeOK, [Next]_vars, NEW q \in Reqs, pc[q] \in {"policy_written", "done"}
  PROVE  pc'[q] \in {"policy_written", "done"}
  <1> USE DEF TypeOK
  <1>1. ASSUME NEW r \in Reqs, RequestAction(r) PROVE pc'[q] \in {"policy_written", "done"}
    BY <1>1
       DEF RequestAction, RequestArrives, RequestStep, LinkRejected, LinkStore, LinkFailed,
           LinkAudit, LinkEnqueue, LinkEnqueueFails, NotOwned, DisableGet, SetStatusSame,
           SetStatusRead, SetStatusWrite, SetStatusFails, DisableAudit, PolicyInvalid, PolicyGet,
           PolicyBefore, PolicyWrite, PolicyRejected, PolicyAudit, RequestDies, Step, New, Owned
  <1> QED
    BY <1>1, WorkersLeaveRequests DEF Next, vars

LEMMA TradingStep ==
  TypeOK /\ RequestInv /\ ExecutionInv /\ TradingIsExplicit /\ [Next]_vars
    => TradingIsExplicit'
  <1> SUFFICES ASSUME TypeOK, RequestInv, ExecutionInv, TradingIsExplicit, [Next]_vars,
                      NEW w \in Wallets, policy'[w].trading
               PROVE  \E r \in Reqs : /\ r.op = "policy" /\ r.wallet = w /\ r.user = Owner[w]
                                      /\ r.policy.trading
                                      /\ pc'[r] \in {"policy_written", "done"}
    BY DEF TradingIsExplicit
  <1>1. CASE policy[w].trading
    BY <1>1, WrittenStays DEF TradingIsExplicit
  <1>2. CASE ~policy[w].trading
    <2>1. policy' # policy
      BY <1>2
    <2>2. ASSUME NEW r \in Reqs, InsertWallet(r) PROVE ~policy'[w].trading
      <3>1. Stored(InitialPolicy).trading = FALSE
        BY StoredPolicy, InitialPolicyType DEF InitialPolicy
      <3> QED
        BY <1>2, <2>2, <3>1, RequestAssumption DEF InsertWallet, TypeOK, Requests
    <2>3. PICK r \in Reqs : /\ WritePolicy(r)
                            /\ pc[r] = "policy_read"
                            /\ pc'[r] \in {"policy_written", "done"}
      BY <2>1, <2>2, RowStep DEF PromotePending
    <2>4. r.policy \in Policies /\ r.wallet \in Wallets
      BY RequestAssumption DEF Requests
    <2>5. r.wallet = w /\ r.policy.trading
      BY <1>2, <2>3, <2>4, StoredPolicy DEF WritePolicy, TypeOK
    <2> QED
      BY <2>3, <2>5 DEF RequestInv
  <1> QED
    BY <1>1, <1>2

\* Only DisableAudit writes a wallet:disabled event, after SetStatus returned.
LEMMA DisabledStep ==
  TypeOK /\ RequestInv /\ ExecutionInv /\ DisabledStaysOff /\ [Next]_vars
    => DisabledStaysOff'
  <1> SUFFICES ASSUME TypeOK, RequestInv, ExecutionInv, DisabledStaysOff, [Next]_vars,
                      NEW w \in Wallets, Event("wallet:disabled", "ok", w) \in audit'
               PROVE  status'[w] = "disabled"
    BY DEF DisabledStaysOff, Event
  <1>1. CASE status[w] = "disabled"
    BY <1>1, LifecycleStep, StatusMonotone
  <1>2. CASE Event("wallet:disabled", "ok", w) \in audit
    BY <1>1, <1>2 DEF DisabledStaysOff
  <1>3. ASSUME NEW r \in Reqs, RequestAction(r), Event("wallet:disabled", "ok", w) \notin audit
        PROVE  pc[r] = "disabled" /\ r.wallet = w
    <2>1. \A o, v : /\ Event("wallet:linked", o, v) # Event("wallet:disabled", "ok", w)
                    /\ Event("policy:changed", o, v) # Event("wallet:disabled", "ok", w)
      BY DEF Event
    <2>2. \A v : Event("wallet:disabled", "ok", v) = Event("wallet:disabled", "ok", w) => v = w
      BY DEF Event
    <2>3. ~PolicyAudit(r)
      <3>1. \A x, y : [Event("policy:changed", "ok", r.wallet)
                        EXCEPT !.before = x, !.after = y].action = "policy:changed"
        BY DEF Event
      <3>2. Event("wallet:disabled", "ok", w).action = "wallet:disabled"
        BY DEF Event
      <3> QED
        BY <1>3, <3>1, <3>2 DEF PolicyAudit, RecordAudit
    <2> QED
      BY <1>3, <2>1, <2>2, <2>3
         DEF RequestAction, RequestArrives, RequestStep, LinkRejected, LinkStore, LinkFailed,
             LinkAudit, LinkEnqueue, LinkEnqueueFails, NotOwned, DisableGet, SetStatusSame,
             SetStatusRead, SetStatusWrite, SetStatusFails, DisableAudit, PolicyInvalid,
             PolicyGet, PolicyBefore, PolicyWrite, PolicyRejected, RequestDies, Step, RecordAudit
  <1>4. ASSUME WorkerAction PROVE Event("wallet:disabled", "ok", w) \in audit
    BY <1>4
       DEF WorkerAction, Expire, Dequeue, HandlerStep, VerifyGet, VerifyChain, VerifyWrongChain,
           VerifyBalance, VerifyBalanceFails, MarkVerified, MarkConflict, VerifyFails,
           VerifyAudit, VerifyDone, WorkerDies, WorkerStep, RecordAudit, Event
  <1> QED
    BY <1>1, <1>2, <1>3, <1>4 DEF Next, vars, RequestInv

-----------------------------------------------------------------------------
(* The theorems                                                            *)

\* The inductive invariant holds initially, every step keeps it, ...
LEMMA InitIInv == Init => IInv
  <1> SUFFICES ASSUME Init PROVE IInv
    OBVIOUS
  <1>1. TypeOK
    BY WalletAssumption, InitialPolicyType, BoundAssumption DEF Init, TypeOK, PcStates, Roles
  <1>2. RequestInv /\ ExecutionInv /\ TaskHasWallet /\ OneActiveBot
    BY DEF Init, RequestInv, ExecutionInv, TaskHasWallet, OneActiveBot
  <1>3. ActiveIsVerified /\ CompletedMeansDecided /\ DisabledStaysOff /\ PolicyWithinBounds
    BY DEF Init, ActiveIsVerified, CompletedMeansDecided, DisabledStaysOff, PolicyWithinBounds
  <1>4. TradingIsExplicit
    BY DEF Init, TradingIsExplicit, NoPolicy
  <1> QED
    BY <1>1, <1>2, <1>3, <1>4 DEF IInv

LEMMA NextIInv == IInv /\ [Next]_vars => IInv'
  BY TypeStep, LifecycleStep, OneActiveBotStep, RequestInvStep, ExecutionInvStep,
     TaskInvStep, RowInvStep, TradingStep, DisabledStep DEF IInv

\* ... and so it holds in every reachable state.
THEOREM Inductive == Spec => []IInv
  BY InitIInv, NextIInv, PTL DEF Spec

\* No interleaving of links, verifications, retries and disables gives an
\* account two active bot wallets.
THEOREM BotSlotExclusive == Spec => []OneActiveBot
  BY Inductive, PTL DEF IInv

\* No wallet is left pending behind a completed verification task.
THEOREM CompletionDecides == Spec => []CompletedMeansDecided
  BY Inductive, PTL DEF IInv

\* A wallet that Disable has reported as off stays off.
THEOREM DisableHolds == Spec => []DisabledStaysOff
  BY Inductive, PTL DEF IInv

\* Every linked wallet has a stored policy within bounds.
THEOREM PoliciesHold == Spec => []PolicyWithinBounds
  BY Inductive, PTL DEF IInv

\* Trading is on only because the wallet's owner asked for it.
THEOREM TradingAskedFor == Spec => []TradingIsExplicit
  BY Inductive, PTL DEF IInv

\* No verification task is without its wallet, so the handler's branch for a
\* missing one is dead.
THEOREM TasksHaveWallets == Spec => []TaskHasWallet
  BY Inductive, PTL DEF IInv

\* An active wallet has been verified and a pending one has not.
THEOREM ActiveVerified == Spec => []ActiveIsVerified
  BY Inductive, PTL DEF IInv

\* The requests, the queue and the workers together implement the wallet
\* status machine.
THEOREM Refinement == Spec => ImplementsLifecycle
  <1>1. Init => Lifecycle!Init
    BY DEF Init, Lifecycle!Init
  <1>2. IInv /\ [Next]_vars => [Lifecycle!Next]_(Lifecycle!lifecycleVars)
    BY LifecycleStep DEF IInv, Lifecycle!lifecycleVars
  <1> QED
    BY <1>1, <1>2, Inductive, PTL DEF Spec, ImplementsLifecycle, Lifecycle!Spec

\* Limits move, and a wallet goes off, only in a step of a request of its owner.
LEMMA OwnerStep ==
  ASSUME IInv, [Next]_vars, NEW w \in Wallets, status[w] # "none",
         policy'[w] # policy[w] \/ (status[w] # "disabled" /\ status'[w] = "disabled")
  PROVE  \E r \in Reqs : /\ r.op # "link" /\ r.wallet = w /\ r.user = Owner[w]
                         /\ pc'[r] # pc[r]
  <1> DEFINE ByOwner == \E r \in Reqs : /\ r.op # "link" /\ r.wallet = w /\ r.user = Owner[w]
                                        /\ pc'[r] # pc[r]
  <1> USE RequestAssumption DEF IInv, TypeOK, Requests
  <1>1. ~UNCHANGED db
    OBVIOUS
  <1>2. ASSUME NEW r \in Reqs, InsertWallet(r) PROVE FALSE
    BY <1>2 DEF InsertWallet
  <1>3. ASSUME NEW r \in Reqs, WritePolicy(r), pc[r] = "policy_read",
               pc'[r] \in {"policy_written", "done"}
        PROVE  ByOwner
    BY <1>3 DEF WritePolicy, RequestInv
  <1>4. ASSUME NEW r \in Reqs, pc[r] = "disable_write", pc'[r] # pc[r],
               status' = [status EXCEPT ![r.wallet] = "disabled"],
               UNCHANGED <<role, verified, policy>>
        PROVE  ByOwner
    BY <1>4 DEF RequestInv
  <1>5. ASSUME NEW k \in Workers, PromotePending(job[k]) PROVE FALSE
    BY <1>5 DEF PromotePending
  <1> QED
    BY <1>1, <1>2, <1>3, <1>4, <1>5, RowStep

\* Only a request of the wallet's owner disables it or moves its limits.
THEOREM OwnersRule == Spec => OnlyOwnerChanges
  <1>1. IInv /\ [Next]_vars =>
          [ \A w \in Wallets :
              status[w] # "none" /\ (policy'[w] # policy[w]
                                     \/ (status[w] # "disabled" /\ status'[w] = "disabled"))
              => \E r \in Reqs : /\ r.op # "link" /\ r.wallet = w /\ r.user = Owner[w]
                                 /\ pc'[r] # pc[r] ]_vars
    BY OwnerStep
  <1> QED
    BY <1>1, Inductive, PTL DEF Spec, OnlyOwnerChanges

\* Every promotion is made by an execution that read our chain id.
THEOREM ChainConfirmed == Spec => ActivatedOnOurChain
  <1> DEFINE Confirmed(w) ==
        \E k \in Workers : job[k] = w /\ wpc[k] = "mark" /\ chainSeen[k] = OurChain
  <1>1. ASSUME IInv, [Next]_vars, NEW w \in Wallets, status[w] # "active", status'[w] = "active"
        PROVE  Confirmed(w)
    <2> USE <1>1, RequestAssumption DEF IInv, TypeOK, Requests
    <2>1. PICK k \in Workers : wpc[k] = "mark" /\ PromotePending(job[k])
      BY RowStep DEF InsertWallet, WritePolicy
    <2> QED
      BY <2>1 DEF PromotePending, ExecutionInv
  <1>2. IInv /\ [Next]_vars =>
          [ \A w \in Wallets :
              status[w] # "active" /\ status'[w] = "active" => Confirmed(w) ]_vars
    BY <1>1
  <1> QED
    BY <1>2, Inductive, PTL DEF Spec, ActivatedOnOurChain
=============================================================================
