-------------------------- MODULE FrontendsProofs ---------------------------
(***************************************************************************)
(* What users are told is true, for any number of requests over either     *)
(* transport; and what is proved of the service holds under the answers    *)
(* the transports give without it.                                         *)
(***************************************************************************)
EXTENDS Frontends, WalletServiceProofs

FrontTypes ==
  /\ answer \in [Reqs -> {"none", "created", "reading", "ok", "failed"} \cup Refusals]
  /\ wrote  \in [Reqs -> BOOLEAN]

\* Nobody is answered before the request has ended, and a request that has not
\* started has written nothing.
EarlyInv ==
  \A r \in Reqs : /\ pc[r] # "done" => answer[r] = "none"
                  /\ pc[r] = "new" => ~wrote[r]

\* The requests that have inserted a row, or have been told that they did.
Linked(r) == pc[r] \in {"linked", "link_audited"} \/ answer[r] = "created"

LinkedInv ==
  \A r \in Reqs : Linked(r) =>
    /\ status[r.wallet] # "none" /\ role[r.wallet] = r.role
    /\ \A q \in Reqs : Linked(q) /\ q.wallet = r.wallet => q = r

FrontInv ==
  /\ IInv /\ FrontTypes
  /\ EarlyInv /\ LinkedInv /\ RefusedIsUntouched /\ NotYoursIsNotFound

-----------------------------------------------------------------------------
(* The service underneath                                                  *)

\* A request that its transport ends: nothing but its own place changes.
Ends(r) ==
  /\ pc[r] \in {"new", "policy_checked"}
  /\ pc' = [pc EXCEPT ![r] = "done"]
  /\ UNCHANGED <<db, audit, before, queueVars, workerVars>>

\* A step of a transport is a step of the service, or ends a request, or reads.
LEMMA FrontSteps ==
  ASSUME NEW r \in Reqs, FrontRequest(r)
  PROVE  RequestAction(r) \/ Ends(r) \/ UNCHANGED vars
BY DEF FrontRequest, Turned, Answered, ReadBack, ReadFails, Unanswered, Ends, Step,
       RequestAction, RequestArrives, RequestStep

\* The invariant of the service survives requests that end early.
LEMMA EndsIInv ==
  ASSUME IInv, NEW r \in Reqs, Ends(r)
  PROVE  IInv'
<1> USE DEF Ends, db, queueVars, workerVars
<1>1. TypeOK'
  BY DEF IInv, TypeOK, PcStates
<1>2. \A q \in Reqs : pc'[q] = pc[q] \/ (pc'[q] = "done" /\ pc[q] \in {"new", "policy_checked"})
  BY DEF IInv, TypeOK
<1>3. RequestInv'
  BY <1>2 DEF IInv, RequestInv
<1>4. TradingIsExplicit'
  BY <1>2 DEF IInv, TradingIsExplicit
<1>5. /\ ExecutionInv' /\ TaskHasWallet' /\ OneActiveBot' /\ ActiveIsVerified'
      /\ CompletedMeansDecided'
  BY DEF IInv, ExecutionInv, TaskHasWallet, OneActiveBot, ActiveIsVerified, CompletedMeansDecided
<1>6. DisabledStaysOff' /\ PolicyWithinBounds'
  BY DEF IInv, DisabledStaysOff, PolicyWithinBounds
<1>. QED  BY <1>1, <1>3, <1>4, <1>5, <1>6 DEF IInv

LEMMA FrontIInv == IInv /\ [FrontNext]_frontVars => IInv'
<1> SUFFICES ASSUME IInv, [FrontNext]_frontVars PROVE IInv'
  OBVIOUS
<1>1. CASE [Next]_vars
  BY <1>1, NextIInv
<1>2. ASSUME NEW r \in Reqs, FrontRequest(r) PROVE IInv'
  BY <1>1, <1>2, FrontSteps, EndsIInv DEF Next
<1>. QED  BY <1>1, <1>2 DEF FrontNext, frontVars

-----------------------------------------------------------------------------
(* The answers                                                             *)

\* What a step of one request leaves alone of the others.
LEMMA OthersStay ==
  ASSUME IInv, FrontTypes, NEW r \in Reqs, FrontRequest(r), NEW q \in Reqs, q # r
  PROVE  pc'[q] = pc[q] /\ answer'[q] = answer[q] /\ wrote'[q] = wrote[q]
<1>1. pc'[q] = pc[q]
  <2>1. CASE RequestAction(r)
    BY <2>1 DEF IInv, TypeOK, RequestAction, RequestArrives, RequestStep, LinkRejected, LinkStore,
       LinkFailed, LinkAudit, LinkEnqueue, LinkEnqueueFails, NotOwned, DisableGet, SetStatusSame,
       SetStatusRead, SetStatusWrite, SetStatusFails, DisableAudit, PolicyInvalid, PolicyGet,
       PolicyBefore, PolicyWrite, PolicyRejected, PolicyAudit, RequestDies, Step
  <2>2. CASE Ends(r) \/ UNCHANGED vars
    BY <2>2 DEF Ends, vars, IInv, TypeOK
  <2>. QED  BY <2>1, <2>2, FrontSteps
<1>2. answer'[q] = answer[q]
  BY DEF FrontRequest, Turned, Answered, ReadBack, ReadFails, Unanswered, Reply, FrontTypes
<1>3. wrote'[q] = wrote[q]
  BY DEF FrontRequest, FrontTypes
<1>. QED  BY <1>1, <1>2, <1>3

\* What a request can be told, by where it was, and what it has then written.
LEMMA AnswerStep ==
  ASSUME IInv, FrontTypes, EarlyInv, NEW r \in Reqs, FrontRequest(r), answer'[r] # answer[r]
  PROVE  /\ pc'[r] = "done"
         /\ answer'[r] \in {"created", "reading", "ok", "failed"} \cup Refusals
         /\ answer'[r] \in Refusals => pc[r] = "new" /\ UNCHANGED db
         /\ answer'[r] = "created" => pc[r] = "link_audited" /\ UNCHANGED db
         /\ r.user # Owner[r.wallet] /\ r \notin Unreadable =>
              answer'[r] \in {"not_found", "failed"} \/ answer[r] = "reading"
<1> USE RequestAssumption DEF Reply, Refusals
<1>1. \A a : answer' = [answer EXCEPT ![r] = a] => answer'[r] = a
  BY DEF FrontTypes
<1>2. \A from, to : Step(r, from, to) => pc[r] = from /\ pc'[r] = to
  BY DEF IInv, TypeOK, Step
<1>3. CASE Turned(r)
  BY <1>1, <1>2, <1>3 DEF Turned
<1>4. CASE LinkRejected(r) /\ Reply(r, LinkRefusal(r))
  BY <1>1, <1>2, <1>4 DEF LinkRejected, LinkRefusal, New
<1>5. CASE LinkFailed(r) /\ Reply(r, LinkFailure(r))
  BY <1>1, <1>2, <1>5 DEF LinkFailed, LinkFailure
<1>6. CASE (LinkEnqueue(r) \/ LinkEnqueueFails(r)) /\ Reply(r, "created")
  BY <1>1, <1>2, <1>6 DEF LinkEnqueue, LinkEnqueueFails, IInv, RequestInv
<1>7. CASE NotOwned(r) /\ Reply(r, "not_found")
  BY <1>1, <1>2, <1>7 DEF NotOwned
<1>8. CASE PolicyInvalid(r) /\ Reply(r, "unprocessable")
  BY <1>1, <1>2, <1>8 DEF PolicyInvalid, Owned
<1>9. CASE PolicyRejected(r) /\ Reply(r, PolicyFailure(r))
  BY <1>1, <1>2, <1>9 DEF PolicyRejected, PolicyFailure
<1>10. CASE PolicyAudit(r) /\ Reply(r, "reading")
  BY <1>1, <1>2, <1>10 DEF PolicyAudit, IInv, RequestInv
<1>11. CASE ReadBack(r)
  BY <1>1, <1>11 DEF ReadBack, EarlyInv, vars
<1>12. CASE ReadFails(r)
  BY <1>1, <1>2, <1>12 DEF ReadFails
<1>. QED  BY <1>3, <1>4, <1>5, <1>6, <1>7, <1>8, <1>9, <1>10, <1>11, <1>12
          DEF FrontRequest, Answered, Unanswered

\* A request moves forward: it does not start again, and stays done.
LEMMA PlaceStep ==
  ASSUME IInv, NEW r \in Reqs, FrontRequest(r)
  PROVE  /\ pc'[r] = "new" => UNCHANGED vars
         /\ pc[r] = "done" => pc'[r] = "done"
         /\ pc'[r] \in {"linked", "link_audited"} =>
              pc[r] \in {"linked", "link_audited"} \/ LinkStore(r)
<1>1. \A from, to : Step(r, from, to) => pc[r] = from /\ pc'[r] = to
  BY DEF IInv, TypeOK, Step
<1>2. CASE Turned(r) \/ ReadFails(r)
  BY <1>1, <1>2 DEF Turned, ReadFails
<1>3. CASE Answered(r)
  BY <1>1, <1>3 DEF Answered, LinkRejected, LinkFailed, LinkEnqueue, LinkEnqueueFails, NotOwned,
     PolicyInvalid, PolicyRejected, PolicyAudit
<1>4. CASE ReadBack(r)
  BY <1>4 DEF ReadBack, vars
<1>5. CASE RequestDies(r)
  BY <1>5 DEF RequestDies, IInv, TypeOK
<1>6. CASE Unanswered(r) /\ ~RequestDies(r)
  BY <1>1, <1>6 DEF Unanswered, LinkStore, LinkAudit, PolicyGet, PolicyBefore, PolicyWrite
<1>. QED  BY <1>2, <1>3, <1>4, <1>5, <1>6 DEF FrontRequest

\* Rows stay once they are there, and keep their role.
LEMMA RowsStay ==
  ASSUME IInv, NEW r \in Reqs, FrontRequest(r), NEW w \in Wallets, status[w] # "none"
  PROVE  status'[w] # "none" /\ role'[w] = role[w]
<1>1. CASE [Next]_vars
  <2>1. [Lifecycle!Next]_<<status, role>>
    BY <1>1, LifecycleStep DEF IInv
  <2>2. status'[w] # "none"
    BY <2>1, StatusMonotone DEF IInv
  <2>3. role'[w] = role[w]
    BY <2>1 DEF IInv, TypeOK, Lifecycle!Next, Lifecycle!Link, Lifecycle!Activate, Lifecycle!Disable
  <2>. QED  BY <2>2, <2>3
<1>2. CASE Ends(r)
  BY <1>2 DEF Ends, db
<1>. QED  BY <1>1, <1>2, FrontSteps DEF Next

LEMMA WroteStep ==
  ASSUME FrontTypes, NEW r \in Reqs, FrontRequest(r)
  PROVE  wrote'[r] => wrote[r] \/ ~UNCHANGED db
BY DEF FrontTypes, FrontRequest

LEMMA FrontTypesNext ==
  ASSUME IInv, FrontTypes, EarlyInv, NEW r \in Reqs, FrontRequest(r)
  PROVE  FrontTypes'
<1>1. wrote' \in [Reqs -> BOOLEAN]
  BY Zenon DEF FrontTypes, FrontRequest
<1>2. \E a : answer' = [answer EXCEPT ![r] = a]
  <2>1. CASE UNCHANGED answer
    <3>1. answer' = [answer EXCEPT ![r] = answer[r]]
      BY <2>1 DEF FrontTypes
    <3>. QED  BY <3>1
  <2>2. CASE ~UNCHANGED answer
    BY <2>2 DEF FrontRequest, Turned, Answered, ReadBack, ReadFails, Unanswered, Reply
  <2>. QED  BY <2>1, <2>2
<1>3. answer'[r] \in {"none", "created", "reading", "ok", "failed"} \cup Refusals
  BY AnswerStep DEF FrontTypes
<1>4. answer' \in [Reqs -> {"none", "created", "reading", "ok", "failed"} \cup Refusals]
  BY <1>2, <1>3 DEF FrontTypes
<1>. QED  BY <1>1, <1>4 DEF FrontTypes

\* Each part of the invariant, for the step of a request.
LEMMA EarlyNext ==
  ASSUME FrontInv, NEW r \in Reqs, FrontRequest(r)
  PROVE  EarlyInv'
<1> SUFFICES ASSUME NEW q \in Reqs
             PROVE  /\ pc'[q] # "done" => answer'[q] = "none"
                    /\ pc'[q] = "new" => ~wrote'[q]
  BY DEF EarlyInv
<1>1. CASE q # r
  BY <1>1, OthersStay DEF FrontInv, EarlyInv
<1>2. CASE q = r
  <2>1. pc'[r] # "done" => answer'[r] = "none"
    BY AnswerStep, PlaceStep DEF FrontInv, EarlyInv
  <2>2. pc'[r] = "new" => ~wrote'[r]
    BY PlaceStep, WroteStep DEF FrontInv, EarlyInv, vars, db
  <2>. QED  BY <1>2, <2>1, <2>2
<1>. QED  BY <1>1, <1>2

LEMMA LinkedNext ==
  ASSUME FrontInv, NEW r \in Reqs, FrontRequest(r)
  PROVE  LinkedInv'
<1>1. \A q \in Reqs : q.wallet \in Wallets
  BY RequestAssumption DEF Requests
<1>2. ASSUME NEW q \in Reqs, q # r PROVE Linked(q)' <=> Linked(q)
  BY <1>2, OthersStay DEF FrontInv, Linked
<1>3. Linked(r)' => Linked(r) \/ LinkStore(r)
  BY AnswerStep, PlaceStep DEF FrontInv, Linked
<1>4. ASSUME NEW q \in Reqs, Linked(q)
      PROVE  status'[q.wallet] # "none" /\ role'[q.wallet] = q.role
  BY <1>1, <1>4, RowsStay DEF FrontInv, LinkedInv
<1>5. CASE LinkStore(r)
  <2>1. status[r.wallet] = "none" /\ status'[r.wallet] # "none" /\ role'[r.wallet] = r.role
    BY <1>1, <1>5 DEF LinkStore, InsertWallet, FrontInv, IInv, TypeOK
  <2>2. \A q \in Reqs : Linked(q) => q.wallet # r.wallet
    BY <2>1 DEF FrontInv, LinkedInv
  <2>. QED  BY <1>2, <1>4, <2>1, <2>2 DEF FrontInv, LinkedInv
<1>6. CASE ~LinkStore(r)
  <2>1. \A q \in Reqs : Linked(q)' => Linked(q)
    BY <1>2, <1>3, <1>6
  <2>. QED  BY <1>4, <2>1 DEF FrontInv, LinkedInv
<1>. QED  BY <1>5, <1>6

LEMMA RefusedNext ==
  ASSUME FrontInv, NEW r \in Reqs, FrontRequest(r)
  PROVE  RefusedIsUntouched'
<1> SUFFICES ASSUME NEW q \in Reqs, answer'[q] \in Refusals PROVE ~wrote'[q]
  BY DEF RefusedIsUntouched, Refusals
<1>1. CASE q # r
  BY <1>1, OthersStay DEF FrontInv, RefusedIsUntouched
<1>2. CASE q = r /\ answer'[r] # answer[r]
  BY <1>2, AnswerStep, WroteStep DEF FrontInv, EarlyInv
<1>3. CASE q = r /\ answer'[r] = answer[r]
  <2>1. pc[r] = "done" /\ ~wrote[r]
    BY <1>3 DEF FrontInv, EarlyInv, RefusedIsUntouched, Refusals
  <2>2. UNCHANGED db
    <3>1. \A from, to : Step(r, from, to) => pc[r] = from
      BY DEF Step
    <3>2. CASE ReadBack(r)
      BY <3>2 DEF ReadBack, vars, db
    <3>3. CASE ~ReadBack(r)
      BY <2>1, <3>1, <3>3 DEF FrontRequest, Turned, Answered, ReadFails, Unanswered, LinkRejected,
         LinkFailed, LinkEnqueue, LinkEnqueueFails, NotOwned, PolicyInvalid, PolicyRejected,
         PolicyAudit, LinkStore, LinkAudit, PolicyGet, PolicyBefore, PolicyWrite, RequestDies
    <3>. QED  BY <3>2, <3>3
  <2>. QED  BY <1>3, <2>1, <2>2, WroteStep DEF FrontInv
<1>. QED  BY <1>1, <1>2, <1>3

LEMMA NotYoursNext ==
  ASSUME FrontInv, NEW r \in Reqs, FrontRequest(r)
  PROVE  NotYoursIsNotFound'
<1> SUFFICES ASSUME NEW q \in Reqs, q.user # Owner[q.wallet], q \notin Unreadable
             PROVE  answer'[q] \in {"none", "not_found", "failed"}
  BY DEF NotYoursIsNotFound
<1>1. answer[q] \in {"none", "not_found", "failed"}
  BY DEF FrontInv, NotYoursIsNotFound
<1>2. CASE q # r
  BY <1>1, <1>2, OthersStay DEF FrontInv
<1>3. CASE q = r
  BY <1>1, <1>3, AnswerStep DEF FrontInv
<1>. QED  BY <1>2, <1>3

LEMMA FrontInductive == FrontSpec => []FrontInv
<1>1. FrontInit => FrontInv
  <2> SUFFICES ASSUME FrontInit PROVE FrontInv
    OBVIOUS
  <2>1. IInv
    BY InitIInv DEF FrontInit
  <2>2. wrote \in [Reqs -> BOOLEAN]
    BY Zenon DEF FrontInit
  <2>3. \A r \in Reqs : answer[r] = "none" /\ ~wrote[r] /\ pc[r] = "new"
    BY DEF FrontInit, Init
  <2>4. FrontTypes
    BY <2>2 DEF FrontTypes, FrontInit
  <2>5. EarlyInv /\ RefusedIsUntouched /\ NotYoursIsNotFound
    BY <2>3 DEF EarlyInv, RefusedIsUntouched, NotYoursIsNotFound
  <2>6. LinkedInv
    BY <2>3 DEF LinkedInv, Linked
  <2>. QED  BY <2>1, <2>4, <2>5, <2>6 DEF FrontInv
<1>2. FrontInv /\ [FrontNext]_frontVars => FrontInv'
  <2> SUFFICES ASSUME FrontInv, [FrontNext]_frontVars PROVE FrontInv'
    OBVIOUS
  <2>1. IInv'
    BY FrontIInv DEF FrontInv
  <2>2. CASE UNCHANGED frontVars
    BY <2>1, <2>2 DEF frontVars, vars, FrontInv, FrontTypes, EarlyInv, LinkedInv, Linked,
       RefusedIsUntouched, NotYoursIsNotFound
  <2>3. ASSUME NEW r \in Reqs, FrontRequest(r) PROVE FrontInv'
    BY <2>1, <2>3, FrontTypesNext, EarlyNext, LinkedNext, RefusedNext, NotYoursNext DEF FrontInv
  <2>. QED  BY <2>2, <2>3 DEF FrontNext
<1>. QED  BY <1>1, <1>2, PTL DEF FrontSpec

-----------------------------------------------------------------------------
(* Theorems                                                                *)

\* Whoever is refused (invalid, conflict, unprocessable, not found) can rely on
\* the rows being as they were (writeWalletError, connect).
THEOREM RefusalsAreSafe == FrontSpec => []RefusedIsUntouched
<1>1. FrontInv => RefusedIsUntouched
  BY DEF FrontInv
<1>. QED  BY <1>1, FrontInductive, PTL

\* However links of one address overlap over both transports, one at most is
\* told that it was created, and the row has the role it asked for.
THEOREM CreationIsTheirs == FrontSpec => []CreatedIsTheirs
<1>1. FrontInv => CreatedIsTheirs
  BY DEF FrontInv, LinkedInv, Linked, CreatedIsTheirs
<1>. QED  BY <1>1, FrontInductive, PTL

\* Another account's wallet is answered as one that does not exist.
THEOREM StrangersLearnNothing == FrontSpec => []NotYoursIsNotFound
<1>1. FrontInv => NotYoursIsNotFound
  BY DEF FrontInv
<1>. QED  BY <1>1, FrontInductive, PTL

\* What is proved of the service also holds when transports turn requests away
\* and reads fail: limits within bounds, trading only on its owner's request.
THEOREM FrontPoliciesHold == FrontSpec => [](PolicyWithinBounds /\ TradingIsExplicit)
<1>1. FrontInv => PolicyWithinBounds /\ TradingIsExplicit
  BY DEF FrontInv, IInv
<1>. QED  BY <1>1, FrontInductive, PTL

\* Over the transports too, only a request of the owner moves limits or disables.
THEOREM FrontOwnersRule == FrontSpec => OnlyOwnerChanges
<1>1. FrontInv /\ [FrontNext]_frontVars =>
        [ \A w \in Wallets :
            status[w] # "none" /\ (policy'[w] # policy[w]
                                   \/ (status[w] # "disabled" /\ status'[w] = "disabled"))
            => \E r \in Reqs : /\ r.op # "link" /\ r.wallet = w /\ r.user = Owner[w]
                               /\ pc'[r] # pc[r] ]_vars
  <2> SUFFICES ASSUME FrontInv, [FrontNext]_frontVars, ~UNCHANGED vars, NEW w \in Wallets,
                      status[w] # "none",
                      policy'[w] # policy[w] \/ (status[w] # "disabled" /\ status'[w] = "disabled")
               PROVE  \E r \in Reqs : /\ r.op # "link" /\ r.wallet = w /\ r.user = Owner[w]
                                      /\ pc'[r] # pc[r]
    OBVIOUS
  <2>1. PICK r \in Reqs : FrontRequest(r)
    BY DEF FrontNext, frontVars
  <2>2. ~Ends(r)
    BY DEF Ends, db
  <2>3. Next
    BY <2>1, <2>2, FrontSteps DEF Next
  <2>. QED  BY <2>3, OwnerStep DEF FrontInv
<1>. QED  BY <1>1, FrontInductive, PTL DEF FrontSpec, OnlyOwnerChanges

\* Driven by its transports, the service still implements the wallet status
\* machine (the diagram of domain/wallet.go): a request that ends early moves no
\* wallet.
THEOREM FrontRefinement == FrontSpec => ImplementsLifecycle
<1>1. FrontInit => Lifecycle!Init
  BY DEF FrontInit, Init, Lifecycle!Init
<1>2. FrontInv /\ [FrontNext]_frontVars => [Lifecycle!Next]_(Lifecycle!lifecycleVars)
  <2> SUFFICES ASSUME FrontInv, [FrontNext]_frontVars
               PROVE  [Lifecycle!Next]_(Lifecycle!lifecycleVars)
    OBVIOUS
  <2>1. CASE [Next]_vars
    BY <2>1, LifecycleStep DEF FrontInv, IInv, Lifecycle!lifecycleVars
  <2>2. ASSUME NEW r \in Reqs, Ends(r) PROVE UNCHANGED Lifecycle!lifecycleVars
    BY <2>2 DEF Ends, db, Lifecycle!lifecycleVars
  <2>. QED  BY <2>1, <2>2, FrontSteps DEF FrontNext, frontVars, Next
<1>. QED  BY <1>1, <1>2, FrontInductive, PTL DEF FrontSpec, ImplementsLifecycle, Lifecycle!Spec
=============================================================================
