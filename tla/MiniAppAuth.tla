---------------------------- MODULE MiniAppAuth -----------------------------
(***************************************************************************)
(* Authentication of Mini App requests: requireInitData                    *)
(* (httpapi/miniapp.go), Authenticate (application/miniapp.go), Verify     *)
(* (telegram/initdata) and the one-use guard in Redis (redis/guard.go). A  *)
(* payload reaches any replica of the api process any number of times;     *)
(* every replica has its own clock, and Redis expires entries by its own.  *)
(* What Authorize decides is CommandPipeline; the layout of a payload and  *)
(* its signature are reduced to which check they fail first. The guard     *)
(* goes by the text of the hash field, the signature check by the bytes    *)
(* the text decodes to, which have more than one text.                     *)
(***************************************************************************)
EXTENDS Integers

CONSTANTS
  Requests,  \* requests, each to any replica
  Payloads,  \* records with the fields id (what was signed), form, date
             \* (auth_date), ahead (how far Telegram's clock was ahead of
             \* Redis's at the signing) and hash (the text of that field)
  TTL,       \* TELEGRAM_INITDATA_TTL
  Skew,      \* clockSkew
  Grace,     \* what Verify adds to the TTL of the guard's entry
  Drift,     \* how far a replica's clock may be from Redis's
  Stall,     \* longest time from reading the clock to the SETNX: FirstUse gives
             \* up after three seconds
  MaxTime    \* bound: time

Forms    == {"missing", "malformed", "no_hash", "forged", "no_date", "no_user", "bot", "ok"}
Genuine  == {"no_date", "no_user", "bot", "ok"}
Dated    == {"no_user", "bot", "ok"}

\* A genuine text is the signature of one payload; a forged payload may carry
\* any text. In the code Skew and Grace are both one minute.
ASSUME AuthAssumption ==
  /\ \A p \in Payloads : p.form \in Forms /\ p.date \in Nat /\ p.ahead \in Nat
  /\ \A p, r \in Payloads :
       p.form \in Genuine /\ r.form \in Genuine /\ p.hash = r.hash => p = r
  /\ TTL \in Nat \ {0} /\ Skew \in Nat /\ Grace \in Nat
  /\ Drift \in Nat /\ Stall \in Nat /\ MaxTime \in Nat

VARIABLES
  raw,      \* the payload each request carries; several may carry the same
  now,      \* Redis's clock
  guard,    \* when the entry of each key expires; -1: never set
  pc,       \* where each request is
  checked,  \* when it read the clock
  out,      \* how it ended, or why it was turned away
  trail     \* the audit events written

vars == <<raw, now, guard, pc, checked, out, trail>>

\* Verify hands the text to the guard as it was provided.
Key(p) == p.hash
Keys   == {Key(p) : p \in Payloads}

Finish(q, result) ==
  /\ pc'  = [pc EXCEPT ![q] = "done"]
  /\ out' = [out EXCEPT ![q] = result]

\* recordAudit: the event is written, or its loss only logged.
RecordAudit(e) == trail' = trail \cup {e} \/ trail' = trail

\* Every failure of Verify is recorded with its reason and answered with 401.
Reject(q, reason) ==
  /\ Finish(q, reason)
  /\ RecordAudit(<<q, reason>>)

-----------------------------------------------------------------------------
(* Verify                                                                  *)

\* Mutation: no bound on how far auth_date may be ahead.
Defect_NoFutureBound(p, clock) ==
  IF p.form \notin Dated THEN p.form
  ELSE IF clock - p.date > TTL THEN "expired"
  ELSE IF p.form = "no_user" THEN "no_user" ELSE "none"

\* The first check a payload fails: its form and signature, then its date by
\* the replica's clock, then the user it names. A bot account passes.
Defect(p, clock) ==
  IF p.form \notin Dated THEN p.form
  ELSE IF clock - p.date > TTL THEN "expired"
  ELSE IF p.date - clock > Skew THEN "future"
  ELSE IF p.form = "no_user" THEN "no_user" ELSE "none"

\* What a replica's clock may say: it is kept within its bound of Redis's and
\* may be corrected at any time.
Clocks == now - Drift .. now + Drift

\* Nobody has a payload before Telegram has signed it.
Arrives(q) ==
  /\ pc[q] = "new"
  /\ raw[q].form \in Genuine => raw[q].date - raw[q].ahead <= now

\* No header, or an empty one: answered before Authenticate.
NoInitData(q) ==
  /\ Arrives(q) /\ raw[q].form = "missing"
  /\ Finish(q, "missing")
  /\ UNCHANGED <<raw, now, guard, checked, trail>>

Refuse(q) ==
  /\ Arrives(q) /\ raw[q].form # "missing"
  /\ \E clock \in Clocks : /\ Defect(raw[q], clock) # "none"
                          /\ Reject(q, Defect(raw[q], clock))
  /\ UNCHANGED <<raw, now, guard, checked>>

\* Everything but the guard has been checked.
Check(q) ==
  /\ Arrives(q)
  /\ \E clock \in Clocks : Defect(raw[q], clock) = "none"
  /\ pc'      = [pc EXCEPT ![q] = "guard"]
  /\ checked' = [checked EXCEPT ![q] = now]
  /\ UNCHANGED <<raw, now, guard, out, trail>>

-----------------------------------------------------------------------------
(* FirstUse                                                                *)

Live(p) == now <= guard[Key(p)]

\* Mutation: the entry lives exactly as long as the payload.
Expiry_NoGrace == now + TTL

Expiry == now + TTL + Grace

Entered(p) == [guard EXCEPT ![Key(p)] = Expiry]

\* SETNX finds no entry: the request is the first with its key.
FirstUse(q) ==
  /\ pc[q] = "guard" /\ ~Live(raw[q])
  /\ guard' = Entered(raw[q])
  /\ pc'    = [pc EXCEPT ![q] = "authorize"]
  /\ UNCHANGED <<raw, now, checked, out, trail>>

Replayed(q) ==
  /\ pc[q] = "guard" /\ Live(raw[q])
  /\ Reject(q, "replayed")
  /\ UNCHANGED <<raw, now, guard, checked>>

\* Mutation: without an answer from Redis the payload is taken as fresh.
GuardDown_FailOpen(q) ==
  /\ pc[q] = "guard"
  /\ pc' = [pc EXCEPT ![q] = "authorize"]
  /\ UNCHANGED <<raw, now, guard, checked, out, trail>>

\* Redis does not answer in time, whether or not it has set the entry; when the
\* client's own retry then finds the entry just set, the reason is "replayed".
GuardDown(q) ==
  /\ pc[q] = "guard"
  /\ \/ UNCHANGED guard /\ Reject(q, "unavailable")
     \/ ~Live(raw[q]) /\ guard' = Entered(raw[q])
        /\ (Reject(q, "unavailable") \/ Reject(q, "replayed"))
  /\ UNCHANGED <<raw, now, checked>>

-----------------------------------------------------------------------------
(* After Verify                                                            *)

\* The payload is spent, and still refused: a bot account, or Authorize says no
\* or fails (which records an event of its own).
Unauthorized(q) ==
  /\ pc[q] = "authorize"
  /\ IF raw[q].form = "bot" THEN Reject(q, "bot")
                           ELSE Finish(q, "unauthorized") /\ UNCHANGED trail
  /\ UNCHANGED <<raw, now, guard, checked>>

\* Authenticate returns the identity and the route's handler is called.
Serve(q) ==
  /\ pc[q] = "authorize" /\ raw[q].form # "bot"
  /\ Finish(q, "served")
  /\ RecordAudit(<<q, "auth">>)
  /\ UNCHANGED <<raw, now, guard, checked>>

\* The replica dies under the request, before or after its SETNX.
Dies(q) ==
  /\ pc[q] \in {"guard", "authorize"}
  /\ Finish(q, "dead")
  /\ UNCHANGED <<raw, now, guard, checked, trail>>

-----------------------------------------------------------------------------
(* Time                                                                    *)

Tick ==
  /\ now < MaxTime
  /\ \A q \in Requests : pc[q] = "guard" => now < checked[q] + Stall
  /\ now' = now + 1
  /\ UNCHANGED <<raw, guard, pc, checked, out, trail>>

Init ==
  /\ raw     \in [Requests -> Payloads]
  /\ now     = 0
  /\ guard   = [k \in Keys |-> -1]
  /\ pc      = [q \in Requests |-> "new"]
  /\ checked = [q \in Requests |-> 0]
  /\ out     = [q \in Requests |-> "pending"]
  /\ trail   = {}

Serving(q) == FirstUse(q) \/ Replayed(q) \/ Unauthorized(q) \/ Serve(q)

Next ==
  \/ \E q \in Requests : \/ NoInitData(q) \/ Refuse(q) \/ Check(q)
                        \/ Serving(q) \/ GuardDown(q) \/ Dies(q)
  \/ Tick

Spec == Init /\ [][Next]_vars

-----------------------------------------------------------------------------
(* Correctness                                                             *)

Reasons == Forms \cup {"expired", "future", "replayed", "unavailable", "unauthorized", "served",
                       "dead", "pending"}

\* What each variable may hold. An entry of the guard always has an end, so the
\* guard does not grow with every payload ever seen (FirstUse sets a TTL).
TypeOK ==
  /\ raw     \in [Requests -> Payloads]
  /\ now     \in 0 .. MaxTime
  /\ guard   \in [Keys -> -1 .. MaxTime + TTL + Grace]
  /\ pc      \in [Requests -> {"new", "guard", "authorize", "done"}]
  /\ checked \in [Requests -> 0 .. MaxTime]
  /\ out     \in [Requests -> Reasons]
  /\ trail   \subseteq Requests \X (Reasons \cup {"auth"})

\* Verify has returned the payload's data.
Accepted(q) == pc[q] = "authorize" \/ out[q] \in {"served", "unauthorized", "bot"}

\* The grace covers what the clocks disagree by about the payload and the time
\* FirstUse may take.
Timely(p) == p.ahead + Drift + Stall <= Grace

\* Under one key a payload is accepted by at most one request, whichever
\* replicas its copies reach, whatever their clocks say and however long Redis
\* takes (ReplayGuard: "a replay that hits a different replica must also be
\* refused").
AcceptedOnce ==
  \A q, r \in Requests :
    Accepted(q) /\ Accepted(r) /\ Key(raw[q]) = Key(raw[r]) /\ Timely(raw[q]) => q = r

\* Claim (README: "a captured payload is refused on second use"): whatever its
\* text, what Telegram has signed once is accepted once. It is not kept: the
\* key is the text, and the signature is compared after decoding it.
SignedIsAcceptedOnce ==
  \A q, r \in Requests :
    Accepted(q) /\ Accepted(r) /\ raw[q].id = raw[r].id /\ Timely(raw[q]) => q = r

\* As long as some replica's clock could still take an accepted payload for a
\* fresh one, its entry is there: no gap between the guard forgetting it and
\* the TTL rejecting it, and no acceptance without an entry (Verify: "The entry
\* outlives the TTL slightly"; FirstUse: "Fail closed").
SpentWhileFresh ==
  \A q \in Requests :
    /\ Accepted(q) /\ Timely(raw[q])
    /\ \E clock \in Clocks : Defect(raw[q], clock) = "none"
    => Live(raw[q])

\* A key ever gets an entry only for a payload that Telegram has signed, for a
\* user, and that was fresh by the clock of the replica that checked it, however
\* far Telegram's clock was off (Verify: "an invalid or stale payload should not
\* consume a guard entry").
EntriesAreEarned ==
  \A k \in Keys : guard[k] >= 0 =>
    \E p \in Payloads :
      /\ Key(p) = k /\ p.form \in {"bot", "ok"}
      /\ guard[k] - Grace - TTL <= p.date + TTL + Drift + Stall
      /\ guard[k] - Grace - TTL >= p.date - Skew - Drift

\* What a request between its checks and the guard has found out.
CheckedInv ==
  \A q \in Requests : pc[q] = "guard" =>
    /\ raw[q].form \in {"bot", "ok"}
    /\ checked[q] <= now /\ now <= checked[q] + Stall
    /\ checked[q] - Drift - raw[q].date <= TTL
    /\ raw[q].date - checked[q] - Drift <= Skew
    /\ raw[q].date - raw[q].ahead <= checked[q]

\* An accepted payload has an entry that was set no earlier than it was signed.
EntryInv ==
  \A q \in Requests : Accepted(q) =>
    /\ raw[q].form \in {"bot", "ok"}
    /\ guard[Key(raw[q])] >= raw[q].date - raw[q].ahead + TTL + Grace
=============================================================================
