----------------------------- MODULE Frontends ------------------------------
(***************************************************************************)
(* What users are told: the Mini App's wallet routes (httpapi/miniapp.go)  *)
(* and the bot's /connect (telegram/commands.go) over WalletService. Both  *)
(* turn the service's errors, most of them recognised by their text, into  *)
(* a handful of answers. The routes that only read are left out, and       *)
(* Disable has no route.                                                   *)
(***************************************************************************)
EXTENDS WalletService

CONSTANTS
  Via,         \* the transport of each request
  Unreadable,  \* requests that may arrive as something the transport answers
               \* without the service: a body that does not decode, an unknown
               \* role; for /connect no address, or one word that looks like
               \* key material
  ZeroAddrs    \* the bad addresses that parse but are the zero address

ASSUME FrontAssumption ==
  /\ Via \in [Reqs -> {"bot", "miniapp", "none"}]
  /\ Unreadable \subseteq {r \in Reqs : Via[r] # "none"}
  /\ ZeroAddrs \subseteq BadAddrs
  /\ \A r \in Reqs : /\ r.op = "disable" <=> Via[r] = "none"
                     /\ Via[r] = "bot" => r.op = "link" /\ r.role = "owner"

VARIABLES
  answer,  \* what the caller was told
  wrote    \* history: the request changed a row

frontVars == <<vars, answer, wrote>>

Refusals == {"invalid", "conflict", "not_found", "unprocessable"}

-----------------------------------------------------------------------------
Reply(r, a) == answer' = [answer EXCEPT ![r] = a]

\* /connect knows an invalid address by its text and takes the zero address
\* for a failure; the Mini App knows both.
LinkRefusal(r) ==
  IF r.wallet \notin BadAddrs THEN "conflict"
  ELSE IF Via[r] = "bot" /\ r.wallet \in ZeroAddrs THEN "failed" ELSE "invalid"

\* Any other error of Link.
LinkFailure(r) == "failed"

\* Mutation: any error of the UPDATE is blamed on the limits.
PolicyFailure_Unprocessable(r) == "unprocessable"

\* A violated CHECK constraint does not say "invalid policy": 500, like a
\* database that is down.
PolicyFailure(r) == "failed"

Turned(r) ==
  /\ r \in Unreadable
  /\ Step(r, "new", "done")
  /\ Reply(r, "invalid")
  /\ UNCHANGED <<db, audit, before, queueVars, workerVars>>

\* The steps of a request that end it, with what its caller is told.
Answered(r) ==
  \/ LinkRejected(r) /\ Reply(r, LinkRefusal(r))
  \/ LinkFailed(r) /\ Reply(r, LinkFailure(r))
  \/ (LinkEnqueue(r) \/ LinkEnqueueFails(r)) /\ Reply(r, "created")
  \/ NotOwned(r) /\ Reply(r, "not_found")
  \/ PolicyInvalid(r) /\ Reply(r, "unprocessable")
  \/ PolicyRejected(r) /\ Reply(r, PolicyFailure(r))
  \/ PolicyAudit(r) /\ Reply(r, "reading")

\* UpdatePolicy reads the limits back for its caller: they are in force, and
\* may by now be those of another update.
ReadBack(r) ==
  /\ answer[r] = "reading"
  /\ Reply(r, "ok") \/ Reply(r, "failed")
  /\ UNCHANGED vars

Unanswered(r) ==
  /\ \/ LinkStore(r) \/ LinkAudit(r) \/ PolicyGet(r) \/ PolicyBefore(r) \/ PolicyWrite(r)
     \/ RequestDies(r)
  /\ UNCHANGED answer

\* The wallet, or the limits to be replaced, cannot be read.
ReadFails(r) ==
  /\ r.op = "policy" /\ (Step(r, "new", "done") \/ Step(r, "policy_checked", "done"))
  /\ Reply(r, "failed")
  /\ UNCHANGED <<db, audit, before, queueVars, workerVars>>

FrontRequest(r) ==
  /\ Turned(r) \/ Answered(r) \/ ReadBack(r) \/ ReadFails(r) \/ Unanswered(r)
  /\ wrote' = [wrote EXCEPT ![r] = @ \/ db' # db]

FrontInit ==
  /\ Init
  /\ answer = [r \in Reqs |-> "none"]
  /\ wrote  = [r \in Reqs |-> FALSE]

\* The verification of what was linked changes only status and verified_at of
\* rows, on which no answer depends; it is left out here.
FrontNext == \E r \in Reqs : Via[r] # "none" /\ FrontRequest(r)

FrontSpec == FrontInit /\ [][FrontNext]_frontVars

-----------------------------------------------------------------------------
(* Correctness                                                             *)

\* A refusal means that nothing happened: who is told that the request was
\* invalid, a conflict, unprocessable or about no wallet can rely on the rows
\* being as they were, although a failed write may have had its effect.
RefusedIsUntouched ==
  \A r \in Reqs : answer[r] \in Refusals => ~wrote[r]

\* Of the requests that link one address, over either transport and however
\* they overlap, at most one is told that it was created, and the row is the
\* one it asked for.
CreatedIsTheirs ==
  \A r \in Reqs : answer[r] = "created" =>
    /\ status[r.wallet] # "none" /\ role[r.wallet] = r.role
    /\ \A q \in Reqs : answer[q] = "created" /\ q.wallet = r.wallet => q = r

\* Whoever asks for another account's wallet is answered as if there were none
\* (or the database fails), before and after it is linked and whatever limits
\* they send
\* (httpapi/miniapp.go: "Same response for "not yours" and "does not exist"").
NotYoursIsNotFound ==
  \A r \in Reqs : r.user # Owner[r.wallet] /\ r \notin Unreadable =>
    answer[r] \in {"none", "not_found", "failed"}
=============================================================================
