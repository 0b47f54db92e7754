---------------------------- MODULE ChainClient -----------------------------
(***************************************************************************)
(* The JSON-RPC reader (chain/client.go) and its retries (chain/retry.go): *)
(* every operation is one call that is asked again after a transient       *)
(* failure, under the caller's context and a timeout per request. The node *)
(* is external and answers anything. What is read (blocks, receipts, logs) *)
(* and its conversion are reduced to whether the conversion can fail.      *)
(* Process adds the processes that dial the client, use and close it.      *)
(***************************************************************************)
EXTENDS Words

CONSTANTS
  Callers,     \* goroutines that use the client
  MaxRetries,  \* RH_MAX_RETRIES
  Backoff,     \* RH_RETRY_BACKOFF, 250 ms when it is not positive
  MaxWait,     \* the five seconds of Do
  Width,       \* bits of a time.Duration
  Chains,      \* chain ids a node may report
  OurChain     \* ExpectedChain, never zero (config.validate)

ASSUME ClientAssumption ==
  /\ MaxRetries \in Nat
  /\ Backoff \in Nat \ {0} /\ MaxWait \in Nat \ {0} /\ Width \in Nat \ {0}
  /\ OurChain \in Chains

VARIABLES
  ctx,      \* the context of each caller
  op,       \* what it calls
  phase,    \* where its call is
  attempt,  \* Do's loop variable
  err,      \* the last error
  waited,   \* the delay set before the next attempt
  result,   \* what the call has returned
  asked,    \* history: the requests sent in this call
  vain      \* history: those the node has not answered

callVars == <<op, phase, attempt, err, waited, result, asked, vain>>

Lookups == {"header", "transaction", "receipt"}
Ops     == Lookups \cup {"chain_id", "balance", "logs"}
Errors  == {"not_found", "cancelled", "deadline", "limit", "rpc", "transport", "other"}
Results == Errors \cup {"ok", "ErrNotFound", "bad_address", "sender", "range", "context", "wrong_chain",
                        "none"}

\* The node was slow, refused to answer for now or was out of reach.
NoAnswer == {"deadline", "limit", "transport"}

-----------------------------------------------------------------------------
(* Do                                                                      *)

\* Mutation: every JSON-RPC error is asked again.
Retryable_AnyRPC(e) == e \in {"deadline", "limit", "rpc", "transport"}

\* A node that has answered is not asked again, except for its rate limit; one
\* that is slow or out of reach is.
Retryable(e) == e \in {"deadline", "limit", "transport"}

\* x << k on signed integers of the given width.
Shl(x, k) == Signed(x * Pow2[k], Width)

\* Mutation: the shift is by one less, and the first delay nothing.
Delay_FromZero(k) == IF k = 0 THEN 0 ELSE Shl(Backoff, k - 1)

Delay(k) == IF Shl(Backoff, k) > MaxWait THEN MaxWait ELSE Shl(Backoff, k)

\* The call returns and the variables of Do are gone.
End(c, r) ==
  /\ phase'   = [phase EXCEPT ![c] = "done"]
  /\ result'  = [result EXCEPT ![c] = r]
  /\ attempt' = [attempt EXCEPT ![c] = 0]
  /\ err'     = [err EXCEPT ![c] = "none"]
  /\ waited'  = [waited EXCEPT ![c] = 0]

\* The operation is called. A balance or log query whose address does not
\* parse never reaches Do.
Begin(c, o) ==
  /\ phase[c] \in {"idle", "done"}
  /\ op'    = [op EXCEPT ![c] = o]
  /\ asked' = [asked EXCEPT ![c] = 0]
  /\ vain'  = [vain EXCEPT ![c] = 0]
  /\ \/ /\ phase'  = [phase EXCEPT ![c] = "check"]
        /\ result' = [result EXCEPT ![c] = "none"]
        /\ UNCHANGED <<attempt, err, waited>>
     \/ o \in {"balance", "logs"} /\ End(c, "bad_address")
  /\ UNCHANGED ctx

\* Mutation: the context is not looked at between attempts.
Send_NoCheck(c) ==
  /\ phase[c] = "check"
  /\ phase' = [phase EXCEPT ![c] = "sent"]
  /\ asked' = [asked EXCEPT ![c] = @ + 1]
  /\ UNCHANGED <<ctx, op, attempt, err, waited, result, vain>>

\* The top of the loop: a context that has ended ends the call.
Send(c) ==
  /\ phase[c] = "check"
  /\ IF ctx[c] = "live"
     THEN /\ phase' = [phase EXCEPT ![c] = "sent"]
          /\ asked' = [asked EXCEPT ![c] = @ + 1]
          /\ UNCHANGED <<attempt, err, waited, result>>
     ELSE End(c, "context") /\ UNCHANGED asked
  /\ UNCHANGED <<ctx, op, vain>>

\* The node answers; what it says may still not convert, and the chain id may
\* be another than ours.
Answered(c) ==
  /\ phase[c] = "sent"
  /\ \E r \in {"ok"} \cup CASE op[c] = "chain_id"    -> {"range", "wrong_chain"}
                            [] op[c] = "transaction" -> {"sender"}
                            [] OTHER                 -> {} : End(c, r)
  /\ UNCHANGED <<ctx, op, asked, vain>>

\* Mutation: one attempt more.
LastAttempt_OffByOne(c) == attempt[c] > MaxRetries

LastAttempt(c) == attempt[c] >= MaxRetries

CountVain(c, e) == vain' = [vain EXCEPT ![c] = IF e \in NoAnswer THEN @ + 1 ELSE @]

\* It does not, and that is the end: only what is looked up by height or hash
\* has ErrNotFound.
Failed(c, e) ==
  /\ phase[c] = "sent" /\ (LastAttempt(c) \/ ~Retryable(e))
  /\ e = "cancelled" => ctx[c] = "cancelled"
  /\ End(c, IF e = "not_found" /\ op[c] \in Lookups THEN "ErrNotFound" ELSE e)
  /\ CountVain(c, e)
  /\ UNCHANGED <<ctx, op, asked>>

\* It does not, and Do sets a timer.
Backs(c, e) ==
  /\ phase[c] = "sent" /\ ~LastAttempt(c) /\ Retryable(e)
  /\ phase'  = [phase EXCEPT ![c] = "wait"]
  /\ err'    = [err EXCEPT ![c] = e]
  /\ waited' = [waited EXCEPT ![c] = Delay(attempt[c])]
  /\ CountVain(c, e)
  /\ UNCHANGED <<ctx, op, attempt, result, asked>>

\* Mutation: the select waits for the context alone.
Timer_Never(c) == FALSE /\ UNCHANGED <<ctx, callVars>>

\* The timer fires, or the context ends first; when both are ready the select
\* may take either.
Timer(c) ==
  /\ phase[c] = "wait"
  /\ phase'   = [phase EXCEPT ![c] = "check"]
  /\ attempt' = [attempt EXCEPT ![c] = @ + 1]
  /\ UNCHANGED <<ctx, op, err, waited, result, asked, vain>>

Abandon(c) ==
  /\ phase[c] = "wait" /\ ctx[c] # "live"
  /\ End(c, "context")
  /\ UNCHANGED <<ctx, op, asked, vain>>

CallStep(c) ==
  \/ Send(c) \/ Answered(c) \/ Timer(c) \/ Abandon(c)
  \/ \E e \in Errors : Failed(c, e) \/ Backs(c, e)

\* The caller has seen the result.
Taken(c) ==
  /\ phase'  = [phase EXCEPT ![c] = "idle"]
  /\ result' = [result EXCEPT ![c] = "none"]
  /\ op'     = [op EXCEPT ![c] = "chain_id"]
  /\ asked'  = [asked EXCEPT ![c] = 0]
  /\ vain'   = [vain EXCEPT ![c] = 0]
  /\ UNCHANGED <<attempt, err, waited>>

\* The caller is cancelled, or its own deadline passes.
CtxEnds(c) ==
  /\ ctx[c] = "live"
  /\ \E why \in {"cancelled", "deadline"} : ctx' = [ctx EXCEPT ![c] = why]
  /\ UNCHANGED callVars

CallInit ==
  /\ ctx     = [c \in Callers |-> "live"]
  /\ op      = [c \in Callers |-> "chain_id"]
  /\ phase   = [c \in Callers |-> "idle"]
  /\ attempt = [c \in Callers |-> 0]
  /\ err     = [c \in Callers |-> "none"]
  /\ waited  = [c \in Callers |-> 0]
  /\ result  = [c \in Callers |-> "none"]
  /\ asked   = [c \in Callers |-> 0]
  /\ vain    = [c \in Callers |-> 0]

-----------------------------------------------------------------------------
(* Correctness                                                             *)

\* A request is sent only for a caller that has not given up, and only when the
\* node has answered none before it in the same call, be it with an error of its
\* own ("A 'not found' or a JSON-RPC application error is a real answer, not a
\* transport failure"; "It always respects ctx").
AsksOnlyInVain ==
  [][\A c \in Callers : asked'[c] > asked[c] => ctx[c] = "live" /\ asked[c] = vain[c]]_<<ctx, callVars>>

\* The node is never asked more often than configured, and a call that returns
\* without an answer has asked that often: neither a slow node nor an earlier
\* error cuts the retries short ("Attempts are bounded").
TriesAsConfigured ==
  \A c \in Callers :
    /\ asked[c] <= MaxRetries + 1
    /\ phase[c] = "done" /\ result[c] \in NoAnswer => asked[c] = MaxRetries + 1

\* As long as the doubled delay fits a Duration, the pause before an attempt is
\* at least the configured one, and never more than five seconds; once it does
\* not fit, the shift yields anything up to the limit, zero and less included.
PatientRetries ==
  \A c \in Callers : phase[c] = "wait" =>
    /\ waited[c] <= MaxWait
    /\ Backoff * Pow2[attempt[c]] \in Word(Width) =>
         waited[c] >= Backoff \/ waited[c] = MaxWait

\* What the comment on retryPolicy says of every pause ("retries transient RPC
\* failures with exponential backoff"): it doubles up to the limit.
BacksOffExponentially ==
  \A c \in Callers : phase[c] = "wait" =>
    waited[c] = IF Backoff * Pow2[attempt[c]] > MaxWait THEN MaxWait ELSE Backoff * Pow2[attempt[c]]
=============================================================================
