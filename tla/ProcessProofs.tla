--------------------------- MODULE ProcessProofs ----------------------------
(***************************************************************************)
(* The safety properties of ChainClient and Process, for any number of     *)
(* handlers, any environments, retry settings and word widths.             *)
(***************************************************************************)
EXTENDS Process, WordsProofs

-----------------------------------------------------------------------------
(* The invariant                                                           *)

CallTypes ==
  /\ ctx     \in [Callers -> {"live", "cancelled", "deadline"}]
  /\ op      \in [Callers -> Ops]
  /\ phase   \in [Callers -> {"idle", "check", "sent", "wait", "done"}]
  /\ attempt \in [Callers -> Nat]
  /\ err     \in [Callers -> Errors \cup {"none"}]
  /\ waited  \in [Callers -> Int]
  /\ result  \in [Callers -> Results]
  /\ asked   \in [Callers -> Nat]
  /\ vain    \in [Callers -> Nat]

ProcTypes ==
  /\ env     \in Envs
  /\ kind    \in {"api", "bot", "worker"}
  /\ stage   \in {"load", "postgres", "redis", "chain", "wire", "run", "unwind", "exited"}
  /\ alive   \subseteq Deps
  /\ opened  \in Seq(Deps)
  /\ svc     \in [Services -> {"off", "starting", "up", "draining", "down"}]
  /\ first   \in {"none", "cancelled", "error"}
  /\ serving \in [Handlers -> BOOLEAN]
  /\ conns   \subseteq Handlers
  /\ signal \in BOOLEAN /\ left \in BOOLEAN /\ failed \in BOOLEAN
  /\ code \in {-1, 0, 1}

\* Between two attempts Do has sent one request for each attempt made, all of
\* them in vain.
RetryInv ==
  \A c \in Callers :
    /\ phase[c] \in {"idle", "done"} => attempt[c] = 0
    /\ attempt[c] <= MaxRetries
    /\ phase[c] = "idle"  => asked[c] = 0
    /\ phase[c] = "check" => asked[c] = attempt[c] /\ vain[c] = attempt[c]
    /\ phase[c] = "sent"  => asked[c] = attempt[c] + 1 /\ vain[c] = attempt[c]
    /\ phase[c] = "wait"  => /\ asked[c] = attempt[c] + 1 /\ vain[c] = attempt[c] + 1
                            /\ attempt[c] < MaxRetries /\ waited[c] = Delay(attempt[c])
    /\ asked[c] <= MaxRetries + 1
    /\ phase[c] = "done" /\ result[c] \in NoAnswer => asked[c] = MaxRetries + 1

\* The services of a process are those of its kind, none before it runs and none
\* after.
ServicesInv ==
  /\ \A s \in Services : svc[s] # "off" => s \in Own
  /\ stage \in {"load", "postgres", "redis", "chain", "wire"} =>
       \A s \in Services : svc[s] = "off"
  /\ stage # "run" => \A s \in Services : svc[s] \in {"off", "down"}

\* Someone waits for every handler, but for those that are left behind.
AwaitedInv ==
  \A h \in Handlers : serving[h] =>
    /\ stage \in {"run", "unwind", "exited"}
    /\ \/ left
       \/ kind = "bot"
       \/ stage = "run" /\ \E s \in {"http", "queue"} : svc[s] \in {"up", "draining"}

\* Nothing returns an error after a cancelled context has been kept as the
\* first one, so that no failure hides behind it.
VerdictInv ==
  /\ failed <=> first = "error"
  /\ first # "none" => stage \in {"run", "unwind", "exited"}
  /\ first = "cancelled" /\ stage = "run" => kind = "bot" /\ svc["bot"] = "down"
  /\ stage = "exited" => code = IF first = "error" THEN 1 ELSE 0

\* Something is alive only if it will be closed, by a closer or by the function
\* that is opening it; what the stages before this one opened still is; and
\* connections are out only of a pool that is not yet closed.
Opening == IF stage \in {"postgres", "redis", "chain"} THEN {stage} ELSE {}

HandleInv ==
  /\ alive \subseteq {opened[i] : i \in DOMAIN opened} \cup Opening
  /\ stage = "exited" => opened = <<>>
  /\ stage \in {"redis", "chain", "wire", "run"} => "postgres" \in alive
  /\ stage \in {"chain", "wire", "run"} => "redis" \in alive
  /\ stage \in {"wire", "run"} => "chain" \in alive
  /\ stage = "run" => "queue" \in alive
  /\ phase[Boot] # "idle" => stage = "chain" /\ "chain" \in alive
  /\ conns # {} => \E i \in DOMAIN opened : opened[i] = "postgres"

ProcInv ==
  /\ CallTypes /\ ProcTypes
  /\ RetryInv /\ ServicesInv /\ AwaitedInv /\ VerdictInv /\ HandleInv

-----------------------------------------------------------------------------
(* The client                                                              *)

\* The delay is within the limit, and at least the configured one unless it is
\* the limit itself or the shift has overflowed.
LEMMA DelayFacts ==
  ASSUME NEW k \in Nat
  PROVE  /\ Delay(k) \in Int
         /\ Delay(k) <= MaxWait
         /\ Backoff * Pow2[k] \in Word(Width) => Delay(k) >= Backoff \/ Delay(k) = MaxWait
<1>1. Pow2[k] \in Nat \ {0} /\ Backoff \in Nat \ {0} /\ MaxWait \in Nat /\ Width \in Nat \ {0}
  BY Pow2Facts, ClientAssumption
<1>2. Backoff * Pow2[k] \in Int /\ Backoff * Pow2[k] >= Backoff
  BY <1>1
<1>3. Shl(Backoff, k) \in Word(Width)
  BY <1>1, <1>2, SignedRange DEF Shl
<1>4. Pow2[Width - 1] \in Int
  BY <1>1, Pow2Facts
<1>5. Shl(Backoff, k) \in Int
  BY <1>3, <1>4 DEF Word
<1>6. Backoff * Pow2[k] \in Word(Width) => Shl(Backoff, k) = Backoff * Pow2[k]
  BY <1>1, SignedFits DEF Shl
<1>. QED  BY <1>1, <1>2, <1>5, <1>6 DEF Delay

\* Which steps touch a call or a context; the rest of the process only waits
\* for results.
LEMMA CallSteps ==
  ASSUME Next
  PROVE  \/ UNCHANGED <<ctx, callVars>>
         \/ \E c \in Callers, o \in Ops : Begin(c, o)
         \/ \E c \in Callers : CallStep(c) \/ CtxEnds(c)
                              \/ (Taken(c) /\ phase[c] \in {"idle", "done"} /\ UNCHANGED ctx)
         \/ \E h \in Handlers : HandlerStarts(h)
         \/ Signal
<1>1. Boot \in Callers /\ Handlers \subseteq Callers /\ "chain_id" \in Ops
  BY ProcessAssumption DEF Ops
<1>2. CASE Progress
  BY <1>1, <1>2 DEF Progress, LoadConfig, Open, Connect, ConnectFails, Dial, DialVerified, DialFails,
     Wire, WireFails, Started, Stop, Drained, DrainTimesOut, Joined, ClosePool, CloseLast, Exit
<1>3. CASE \E s \in Services : ServiceFails(s)
  BY <1>3 DEF ServiceFails
<1>4. CASE \E h \in Handlers : HandlerEnds(h) \/ HandlerQueries(h) \/ QueryEnds(h)
  BY <1>1, <1>4 DEF HandlerEnds, HandlerQueries, QueryEnds
<1>. QED  BY <1>1, <1>2, <1>3, <1>4 DEF Next, HandlerCalls, Calling

\* How each step of a call changes it.
LEMMA CallTypesNext == CallTypes /\ [Next]_vars => CallTypes'
<1> SUFFICES ASSUME CallTypes, [Next]_vars PROVE CallTypes'
  OBVIOUS
<1> USE DEF CallTypes
<1>1. Handlers \subseteq Callers
  BY ProcessAssumption
<1>2. CASE UNCHANGED <<ctx, callVars>>
  BY <1>2 DEF callVars
<1>3. ASSUME NEW c \in Callers, NEW r \in Results, End(c, r), UNCHANGED ctx, op' \in [Callers -> Ops],
             asked' \in [Callers -> Nat], vain' \in [Callers -> Nat]
      PROVE  CallTypes'
  BY <1>3 DEF End
<1>4. CASE \E c \in Callers, o \in Ops : Begin(c, o)
  <2> PICK c \in Callers, o \in Ops : Begin(c, o)
    BY <1>4
  <2>1. /\ op' \in [Callers -> Ops] /\ UNCHANGED ctx
        /\ asked' \in [Callers -> Nat] /\ vain' \in [Callers -> Nat]
    BY DEF Begin
  <2>2. CASE End(c, "bad_address")
    BY <1>3, <2>1, <2>2 DEF Results
  <2>3. CASE ~End(c, "bad_address")
    BY <2>1, <2>3 DEF Begin, Results
  <2>. QED  BY <2>2, <2>3
<1>5. ASSUME NEW c \in Callers, Send(c) PROVE CallTypes'
  BY <1>3, <1>5 DEF Send, Results
<1>6. ASSUME NEW c \in Callers, Answered(c) PROVE CallTypes'
  <2>1. \E r \in Results : End(c, r)
    BY <1>6 DEF Answered, Results
  <2>. QED  BY <1>3, <1>6, <2>1 DEF Answered
<1>7. ASSUME NEW c \in Callers, NEW e \in Errors, CountVain(c, e) PROVE vain' \in [Callers -> Nat]
  BY <1>7 DEF CountVain
<1>8. ASSUME NEW c \in Callers, NEW e \in Errors, Failed(c, e) PROVE CallTypes'
  <2>1. \E r \in Results : End(c, r)
    BY <1>8 DEF Failed, Results
  <2>. QED  BY <1>3, <1>7, <1>8, <2>1 DEF Failed
<1>9. ASSUME NEW c \in Callers, NEW e \in Errors, Backs(c, e) PROVE CallTypes'
  <2>1. Delay(attempt[c]) \in Int
    BY DelayFacts
  <2>. QED  BY <1>7, <1>9, <2>1 DEF Backs
<1>10. ASSUME NEW c \in Callers, Timer(c) \/ Abandon(c) \/ CtxEnds(c) PROVE CallTypes'
  BY <1>3, <1>10 DEF Timer, Abandon, CtxEnds, callVars, Results
<1>11. ASSUME NEW c \in Callers, Taken(c), UNCHANGED ctx PROVE CallTypes'
  BY <1>11 DEF Taken, Results, Ops
<1>12. CASE \E h \in Handlers : HandlerStarts(h)
  BY <1>1, <1>12 DEF HandlerStarts, callVars
<1>13. CASE Signal
  BY <1>13 DEF Signal, callVars
<1>. QED  BY <1>2, <1>4, <1>5, <1>6, <1>8, <1>9, <1>10, <1>11, <1>12, <1>13, CallSteps DEF CallStep, vars

\* How often Do has asked is right after every step.
LEMMA RetryNext == CallTypes /\ RetryInv /\ [Next]_vars => RetryInv'
<1> SUFFICES ASSUME CallTypes, RetryInv, [Next]_vars PROVE RetryInv'
  OBVIOUS
<1> USE DEF CallTypes
<1>1. Handlers \subseteq Callers /\ MaxRetries \in Nat
  BY ProcessAssumption, ClientAssumption
<1>2. CASE UNCHANGED callVars
  BY <1>2 DEF callVars, RetryInv
<1>3. ASSUME NEW c \in Callers, NEW r, End(c, r), \A d \in Callers \ {c} : asked'[d] = asked[d] /\ vain'[d] = vain[d],
             asked'[c] <= MaxRetries + 1, r \in NoAnswer => asked'[c] = MaxRetries + 1
      PROVE  RetryInv'
  BY <1>1, <1>3 DEF End, RetryInv
<1>4. CASE \E c \in Callers, o \in Ops : Begin(c, o)
  <2> PICK c \in Callers, o \in Ops : Begin(c, o)
    BY <1>4
  <2>1. /\ \A d \in Callers \ {c} : asked'[d] = asked[d] /\ vain'[d] = vain[d]
        /\ asked'[c] = 0 /\ vain'[c] = 0 /\ phase[c] \in {"idle", "done"}
    BY DEF Begin
  <2>2. CASE End(c, "bad_address")
    BY <1>1, <1>3, <2>1, <2>2 DEF NoAnswer
  <2>3. CASE ~End(c, "bad_address")
    BY <1>1, <2>1, <2>3 DEF Begin, RetryInv
  <2>. QED  BY <2>2, <2>3
<1>5. ASSUME NEW c \in Callers, Send(c) PROVE RetryInv'
  <2>1. asked[c] = attempt[c] /\ attempt[c] <= MaxRetries /\ asked[c] <= MaxRetries + 1
    BY <1>5 DEF Send, RetryInv
  <2>2. CASE ctx[c] = "live"
    BY <1>1, <1>5, <2>1, <2>2 DEF Send, RetryInv
  <2>3. CASE ctx[c] # "live"
    BY <1>3, <1>5, <2>1, <2>3 DEF Send, NoAnswer
  <2>. QED  BY <2>2, <2>3
<1>6. ASSUME NEW c \in Callers, Answered(c) PROVE RetryInv'
  <2>1. \E r : End(c, r) /\ r \notin NoAnswer
    BY <1>6 DEF Answered, NoAnswer
  <2>2. asked[c] <= MaxRetries + 1 /\ UNCHANGED <<asked, vain>>
    BY <1>6 DEF Answered, RetryInv
  <2>. QED  BY <1>3, <2>1, <2>2
<1>7. ASSUME NEW c \in Callers, Abandon(c) PROVE RetryInv'
  <2>1. asked[c] <= MaxRetries + 1 /\ UNCHANGED <<asked, vain>> /\ End(c, "context")
    BY <1>7 DEF Abandon, RetryInv
  <2>. QED  BY <1>3, <2>1 DEF NoAnswer
<1>8. ASSUME NEW c \in Callers, NEW e \in Errors, Failed(c, e) PROVE RetryInv'
  <2>1. asked[c] = attempt[c] + 1 /\ attempt[c] <= MaxRetries /\ asked[c] <= MaxRetries + 1
    BY <1>8 DEF Failed, RetryInv
  <2>2. e \in NoAnswer => attempt[c] >= MaxRetries
    BY <1>8 DEF Failed, LastAttempt, Retryable, NoAnswer
  <2>3. \A d \in Callers \ {c} : asked'[d] = asked[d] /\ vain'[d] = vain[d]
    BY <1>8 DEF Failed, CountVain
  <2>4. PICK r : End(c, r) /\ (r = e \/ r = "ErrNotFound")
    BY <1>8 DEF Failed
  <2>5. UNCHANGED asked
    BY <1>8 DEF Failed
  <2>6. r \in NoAnswer => asked'[c] = MaxRetries + 1
    BY <1>1, <2>1, <2>2, <2>4, <2>5 DEF NoAnswer
  <2>. QED  BY <1>3, <2>1, <2>3, <2>4, <2>5, <2>6
<1>9. ASSUME NEW c \in Callers, NEW e \in Errors, Backs(c, e) PROVE RetryInv'
  <2>1. /\ asked[c] = attempt[c] + 1 /\ vain[c] = attempt[c]
        /\ attempt[c] < MaxRetries
    BY <1>1, <1>9 DEF Backs, LastAttempt, RetryInv
  <2>2. vain' = [vain EXCEPT ![c] = @ + 1]
    BY <1>9 DEF Backs, Retryable, NoAnswer, CountVain
  <2>. QED  BY <1>1, <1>9, <2>1, <2>2 DEF Backs, RetryInv
<1>10. ASSUME NEW c \in Callers, Timer(c) PROVE RetryInv'
  BY <1>1, <1>10 DEF Timer, RetryInv
<1>11. CASE (\E c \in Callers : CtxEnds(c)) \/ Signal \/ \E h \in Handlers : HandlerStarts(h)
  BY <1>2, <1>11 DEF CtxEnds, Signal, HandlerStarts
<1>12. ASSUME NEW c \in Callers, Taken(c), phase[c] \in {"idle", "done"} PROVE RetryInv'
  <2>1. phase'[c] = "idle" /\ asked'[c] = 0 /\ result'[c] = "none" /\ UNCHANGED <<attempt, waited>>
    BY <1>12 DEF Taken
  <2>. QED  BY <1>1, <1>12, <2>1 DEF Taken, RetryInv
<1>. QED  BY <1>2, <1>4, <1>5, <1>6, <1>7, <1>8, <1>9, <1>10, <1>11, <1>12, CallSteps DEF CallStep, vars

-----------------------------------------------------------------------------
(* The process                                                             *)

\* The steps of calls and contexts leave the process as it is.
LEMMA ProcSteps ==
  ASSUME Next
  PROVE  \/ UNCHANGED procVars
         \/ Progress
         \/ \E s \in Services : ServiceFails(s)
         \/ \E h \in Handlers : HandlerStarts(h) \/ HandlerEnds(h) \/ HandlerQueries(h) \/ QueryEnds(h)
         \/ Signal
BY DEF Next, HandlerCalls, Calling

LEMMA ProcTypesNext == ProcTypes /\ [Next]_vars => ProcTypes'
<1> SUFFICES ASSUME ProcTypes, [Next]_vars PROVE ProcTypes'
  OBVIOUS
<1> USE DEF ProcTypes
<1>1. CASE UNCHANGED procVars
  BY <1>1 DEF procVars
<1>2. ASSUME NEW d \in Deps PROVE Append(opened, d) \in Seq(Deps)
  OBVIOUS
<1>3. ASSUME NEW e \in {"cancelled", "error"}, Gives(e)
      PROVE  first' \in {"none", "cancelled", "error"} /\ failed' \in BOOLEAN
  BY <1>3 DEF Gives, Return
<1>4. CASE LoadConfig
  BY <1>4 DEF LoadConfig, Return
<1>5. ASSUME NEW d \in {"postgres", "redis"}, Open(d) \/ Connect(d) \/ ConnectFails(d) PROVE ProcTypes'
  <2>1. d \in Deps
    BY DEF Deps
  <2>2. CASE Open(d)
    BY <2>1, <2>2 DEF Open
  <2>3. CASE Connect(d)
    BY <1>2, <2>1, <2>3 DEF Connect, Goto, NextDep
  <2>4. CASE ConnectFails(d)
    BY <1>3, <2>4 DEF ConnectFails, Goto
  <2>. QED  BY <1>5, <2>2, <2>3, <2>4
<1>6. CASE Dial \/ DialVerified \/ DialFails
  <2>1. "chain" \in Deps
    BY DEF Deps
  <2>2. CASE Dial
    BY <2>1, <2>2 DEF Dial
  <2>3. CASE DialVerified
    BY <1>2, <2>1, <2>3 DEF DialVerified, Goto
  <2>4. CASE DialFails
    BY <1>3, <2>4 DEF DialFails, Goto
  <2>. QED  BY <1>6, <2>2, <2>3, <2>4
<1>7. CASE Wire \/ WireFails
  <2>1. "queue" \in Deps
    BY DEF Deps
  <2>. QED  BY <1>2, <1>3, <1>7, <2>1 DEF Wire, WireFails, OpenQueue, Goto
<1>8. ASSUME NEW s \in Services, Started(s) \/ Stop(s) \/ Drained(s) \/ DrainTimesOut(s) PROVE ProcTypes'
  <2>1. CASE Started(s) \/ Stop(s) \/ Drained(s)
    BY <2>1 DEF Started, Stop, Drained
  <2>2. CASE DrainTimesOut(s)
    <3>1. first' \in {"none", "cancelled", "error"} /\ failed' \in BOOLEAN
      BY <1>3, <2>2 DEF DrainTimesOut
    <3>2. svc' \in [Services -> {"off", "starting", "up", "draining", "down"}]
      BY <2>2 DEF DrainTimesOut
    <3>. QED  BY <2>2, <3>1, <3>2 DEF DrainTimesOut
  <2>. QED  BY <1>8, <2>1, <2>2
<1>9. CASE Joined \/ Exit
  BY <1>9 DEF Joined, Exit, Goto
<1>10. CASE ClosePool \/ CloseLast
  <2>1. ASSUME CloseLast PROVE SubSeq(opened, 1, Len(opened) - 1) \in Seq(Deps)
    BY <2>1 DEF CloseLast
  <2>. QED  BY <1>10, <2>1 DEF ClosePool, CloseLast
<1>11. ASSUME NEW s \in Services, ServiceFails(s) PROVE ProcTypes'
  BY <1>3, <1>11 DEF ServiceFails
<1>12. ASSUME NEW h \in Handlers, HandlerStarts(h) \/ HandlerEnds(h) \/ HandlerQueries(h) \/ QueryEnds(h)
       PROVE  ProcTypes'
  <2>1. serving' \in [Handlers -> BOOLEAN]
    BY <1>12, Zenon DEF HandlerStarts, HandlerEnds, HandlerQueries, QueryEnds
  <2>2. conns' \subseteq Handlers
    BY <1>12 DEF HandlerStarts, HandlerEnds, HandlerQueries, QueryEnds
  <2>. QED  BY <1>12, <2>1, <2>2 DEF HandlerStarts, HandlerEnds, HandlerQueries, QueryEnds
<1>13. CASE Signal
  BY <1>13 DEF Signal
<1>. QED  BY <1>1, <1>4, <1>5, <1>6, <1>7, <1>8, <1>9, <1>10, <1>11, <1>12, <1>13, ProcSteps
          DEF Progress, vars

\* A bot runs nothing but the bot, and no process runs both of the services
\* that drain.
LEMMA OwnFacts ==
  ASSUME ProcTypes
  PROVE  /\ Own \subseteq Services
         /\ kind = "bot" => Own = {"bot"}
         /\ kind # "bot" => "bot" \notin Own /\ ("http" \notin Own \/ "queue" \notin Own)
BY DEF ProcTypes, Own, Services

LEMMA ServicesNext == ProcTypes /\ ServicesInv /\ [Next]_vars => ServicesInv'
<1> SUFFICES ASSUME ProcTypes, ServicesInv, [Next]_vars PROVE ServicesInv'
  OBVIOUS
<1>1. UNCHANGED <<env, kind>> => Own' = Own
  BY DEF Own
<1>2. CASE UNCHANGED procVars
  BY <1>1, <1>2 DEF procVars, ServicesInv
<1> USE DEF ServicesInv
<1>3. CASE LoadConfig
  BY <1>1, <1>3 DEF LoadConfig
<1>4. ASSUME NEW d \in {"postgres", "redis"}, Open(d) \/ Connect(d) \/ ConnectFails(d) PROVE ServicesInv'
  BY <1>1, <1>4 DEF Open, Connect, ConnectFails, Goto, NextDep
<1>5. CASE Dial \/ DialVerified \/ DialFails
  BY <1>1, <1>5 DEF Dial, DialVerified, DialFails, Goto
<1>6. CASE Wire \/ WireFails
  BY <1>1, <1>6 DEF Wire, WireFails, Goto
<1>7. ASSUME NEW s \in Services, Started(s) \/ Stop(s) \/ Drained(s) \/ DrainTimesOut(s) \/ ServiceFails(s)
      PROVE  ServicesInv'
  BY <1>1, <1>7 DEF Started, Stop, Stopping, Drained, DrainTimesOut, ServiceFails, ProcTypes
<1>8. CASE Joined \/ ClosePool \/ CloseLast \/ Exit \/ Signal
  BY <1>1, <1>8 DEF Joined, ClosePool, CloseLast, Exit, Signal, Goto
<1>9. ASSUME NEW h \in Handlers, HandlerStarts(h) \/ HandlerEnds(h) \/ HandlerQueries(h) \/ QueryEnds(h)
      PROVE  ServicesInv'
  BY <1>1, <1>9 DEF HandlerStarts, HandlerEnds, HandlerQueries, QueryEnds
<1>. QED  BY <1>2, <1>3, <1>4, <1>5, <1>6, <1>7, <1>8, <1>9, ProcSteps DEF Progress, vars

\* A server goes down only when its handlers have ended or are left behind.
LEMMA AwaitedNext ==
  ProcTypes /\ ServicesInv /\ AwaitedInv /\ [Next]_vars => AwaitedInv'
<1> SUFFICES ASSUME ProcTypes, ServicesInv, AwaitedInv, [Next]_vars PROVE AwaitedInv'
  OBVIOUS
<1> USE DEF AwaitedInv
<1>1. /\ svc["bot"] # "off" => kind = "bot"
      /\ kind # "bot" => svc["http"] = "off" \/ svc["queue"] = "off"
  BY OwnFacts DEF ServicesInv, Services
<1>2. CASE UNCHANGED <<kind, stage, svc, left, serving>>
  BY <1>2
<1>3. CASE stage \notin {"run", "unwind", "exited"} /\ UNCHANGED <<kind, left, serving>>
  BY <1>3
<1>4. CASE Dial \/ ClosePool \/ CloseLast \/ Signal \/ UNCHANGED procVars
  BY <1>2, <1>4 DEF Dial, ClosePool, CloseLast, Signal, procVars
<1>5. ASSUME NEW d \in {"postgres", "redis"}, Open(d) \/ Connect(d) \/ ConnectFails(d) PROVE AwaitedInv'
  BY <1>3, <1>5 DEF Open, Connect, ConnectFails, Goto
<1>6. CASE LoadConfig \/ DialVerified \/ DialFails \/ Wire \/ WireFails
  BY <1>3, <1>6 DEF LoadConfig, DialVerified, DialFails, Wire, WireFails, Goto
<1>7. ASSUME NEW s \in Services, Started(s) \/ Stop(s) PROVE AwaitedInv'
  BY <1>7 DEF Started, Stop, Stopping, ProcTypes, Services
<1>8. ASSUME NEW s \in Services, Drained(s) \/ DrainTimesOut(s) PROVE AwaitedInv'
  BY <1>8 DEF Drained, DrainTimesOut
<1>9. ASSUME NEW s \in Services, ServiceFails(s) PROVE AwaitedInv'
  <2>1. CASE s = "http" /\ \E h \in Handlers : serving[h]
    BY <1>9, <2>1 DEF ServiceFails
  <2>2. CASE \A h \in Handlers : ~serving[h]
    BY <1>9, <2>2 DEF ServiceFails
  <2>3. CASE s # "http"
    BY <1>9, <2>3 DEF ServiceFails, ProcTypes, Services
  <2>. QED  BY <2>1, <2>2, <2>3
<1>10. ASSUME NEW h \in Handlers, HandlerStarts(h) PROVE AwaitedInv'
  <2>1. kind = "bot" \/ \E s \in {"http", "queue"} : svc[s] \in {"up", "draining"}
    BY <1>1, <1>10 DEF HandlerStarts, Front
  <2>. QED  BY <1>10, <2>1 DEF HandlerStarts
<1>11. ASSUME NEW h \in Handlers, HandlerEnds(h) PROVE AwaitedInv'
  <2>1. \A g \in Handlers : serving'[g] => serving[g]
    BY <1>11 DEF HandlerEnds, ProcTypes
  <2>. QED  BY <1>11, <2>1 DEF HandlerEnds
<1>12. CASE Joined
  BY <1>12 DEF Joined, Goto, Services
<1>13. CASE Exit
  BY <1>13 DEF Exit, Goto
<1>14. CASE \E h \in Handlers : HandlerQueries(h) \/ QueryEnds(h)
  BY <1>2, <1>14 DEF HandlerQueries, QueryEnds
<1>. QED  BY <1>4, <1>5, <1>6, <1>7, <1>8, <1>9, <1>10, <1>11, <1>12, <1>13, <1>14, ProcSteps
          DEF Progress, vars

\* An error is returned only while no cancelled context has been kept.
LEMMA VerdictNext ==
  ProcTypes /\ ServicesInv /\ VerdictInv /\ [Next]_vars => VerdictInv'
<1> SUFFICES ASSUME ProcTypes, ServicesInv, VerdictInv, [Next]_vars PROVE VerdictInv'
  OBVIOUS
<1> USE DEF VerdictInv
<1>1. CASE UNCHANGED procVars
  BY <1>1 DEF procVars
<1>2. ASSUME NEW e \in {"cancelled", "error"}, Gives(e), first # "cancelled"
      PROVE  /\ failed' <=> first' = "error"
             /\ first' = "cancelled" => e = "cancelled"
  BY <1>2 DEF Gives, Return, ProcTypes
<1>3. CASE LoadConfig
  BY <1>3 DEF LoadConfig, Return
<1>4. ASSUME NEW d \in {"postgres", "redis"}, Open(d) \/ Connect(d) \/ ConnectFails(d) PROVE VerdictInv'
  BY <1>2, <1>4 DEF Open, Connect, ConnectFails, Goto, NextDep
<1>5. CASE Dial \/ DialVerified \/ DialFails
  BY <1>2, <1>5 DEF Dial, DialVerified, DialFails, Goto
<1>6. CASE Wire \/ WireFails
  BY <1>2, <1>6 DEF Wire, WireFails, Goto
<1>7. ASSUME NEW s \in Services, Started(s) \/ Stop(s) \/ Drained(s) PROVE VerdictInv'
  <2>1. svc["bot"] = "down" => svc'["bot"] = "down"
    BY <1>7 DEF Started, Stop, Drained, ProcTypes, Services
  <2>. QED  BY <1>7, <2>1 DEF Started, Stop, Drained
<1>8. first = "cancelled" /\ stage = "run" => \A s \in Services : svc[s] \in {"off", "down"}
  <2>1. first = "cancelled" /\ stage = "run" => Own = {"bot"} /\ svc["bot"] = "down"
    BY OwnFacts
  <2>. QED  BY <2>1 DEF ServicesInv
<1>9. ASSUME NEW s \in Services, DrainTimesOut(s) PROVE VerdictInv'
  <2>1. first # "cancelled" /\ stage = "run" /\ stage' = "run"
    BY <1>8, <1>9 DEF DrainTimesOut, ServicesInv
  <2>. QED  BY <1>2, <1>9, <2>1 DEF DrainTimesOut
<1>10. ASSUME NEW s \in Services, ServiceFails(s) PROVE VerdictInv'
  <2>1. first # "cancelled" /\ stage = "run" /\ stage' = "run" /\ UNCHANGED kind
    BY <1>8, <1>10 DEF ServiceFails
  <2>2. s \in Own
    BY <1>10 DEF ServiceFails, ServicesInv
  <2>3. s = "bot" => kind = "bot"
    BY <2>2, OwnFacts
  <2>4. svc'[s] = "down"
    BY <1>10 DEF ServiceFails, ProcTypes
  <2>5. PICK e \in {"cancelled", "error"} : (e = "cancelled" => s = "bot") /\ Gives(e)
    BY <1>10 DEF ServiceFails
  <2>. QED  BY <1>2, <2>1, <2>3, <2>4, <2>5
<1>11. CASE Joined \/ ClosePool \/ CloseLast \/ Exit \/ Signal
  BY <1>11 DEF Joined, ClosePool, CloseLast, Exit, Signal, Goto
<1>12. ASSUME NEW h \in Handlers, HandlerStarts(h) \/ HandlerEnds(h) \/ HandlerQueries(h) \/ QueryEnds(h)
       PROVE  VerdictInv'
  BY <1>12 DEF HandlerStarts, HandlerEnds, HandlerQueries, QueryEnds
<1>. QED  BY <1>1, <1>3, <1>4, <1>5, <1>6, <1>7, <1>9, <1>10, <1>11, <1>12, ProcSteps DEF Progress, vars

\* Only Dial starts a call of New's goroutine, and only the end of Dial takes its
\* result.
LEMMA BootSteps ==
  ASSUME CallTypes, Next
  PROVE  \/ Dial \/ DialVerified \/ DialFails
         \/ phase'[Boot] = "idle" <=> phase[Boot] = "idle"
<1> USE DEF CallTypes
<1>1. Boot \in Callers /\ Handlers \subseteq Callers /\ Boot \notin Handlers
  BY ProcessAssumption
<1>2. CASE UNCHANGED phase
  BY <1>2
<1>3. ASSUME NEW h \in Handlers, (\E o \in Ops : Begin(h, o)) \/ Taken(h)
      PROVE  phase'[Boot] = phase[Boot]
  BY <1>1, <1>3 DEF Begin, End, Taken
<1>4. ASSUME NEW c \in Callers, CallStep(c) PROVE phase'[Boot] = "idle" <=> phase[Boot] = "idle"
  BY <1>1, <1>4 DEF CallStep, Send, Answered, Failed, Backs, Timer, Abandon, End
<1>5. CASE Progress /\ ~Dial /\ ~DialVerified /\ ~DialFails
  BY <1>2, <1>5 DEF Progress, LoadConfig, Open, Connect, ConnectFails, Wire, WireFails, Started, Stop,
     Drained, DrainTimesOut, Joined, ClosePool, CloseLast, Exit, callVars
<1>6. CASE Signal \/ \E s \in Services : ServiceFails(s)
  BY <1>2, <1>6 DEF Signal, ServiceFails, callVars
<1>7. CASE \E h \in Handlers : HandlerStarts(h) \/ HandlerQueries(h) \/ QueryEnds(h)
  BY <1>2, <1>7 DEF HandlerStarts, HandlerQueries, QueryEnds, callVars
<1>8. CASE \E c \in Callers : CtxEnds(c)
  BY <1>2, <1>8 DEF CtxEnds, callVars
<1>. QED  BY <1>1, <1>3, <1>4, <1>5, <1>6, <1>7, <1>8 DEF Next, HandlerEnds, HandlerCalls, Calling

\* Whatever is alive will be closed, after every step.
LEMMA HandlesNext ==
  CallTypes /\ ProcTypes /\ AwaitedInv /\ HandleInv /\ [Next]_vars => HandleInv'
<1> SUFFICES ASSUME CallTypes, ProcTypes, AwaitedInv, HandleInv, [Next]_vars PROVE HandleInv'
  OBVIOUS
<1> DEFINE Closers == {opened[i] : i \in DOMAIN opened}
<1>0. opened \in Seq(Deps)
  BY DEF ProcTypes
<1>1. Boot \in Callers
  BY ProcessAssumption
<1>2. ASSUME NEW d \in Deps, opened' = Append(opened, d)
      PROVE  Closers' = Closers \cup {d}
  <2>1. /\ DOMAIN opened' = DOMAIN opened \cup {Len(opened) + 1}
        /\ \A i \in DOMAIN opened : opened'[i] = opened[i]
        /\ opened'[Len(opened) + 1] = d
    BY <1>0, <1>2
  <2>. QED  BY <2>1
<1>3. \/ Dial \/ DialVerified \/ DialFails
      \/ phase'[Boot] = "idle" <=> phase[Boot] = "idle"
  BY BootSteps DEF vars, callVars
<1>4. CASE /\ UNCHANGED <<stage, alive, opened, conns>>
           /\ ~Dial /\ ~DialVerified /\ ~DialFails
  BY <1>3, <1>4 DEF HandleInv, Opening
<1>5. CASE LoadConfig
  BY <1>3, <1>5 DEF LoadConfig, HandleInv, Opening, Dial, DialVerified, DialFails, Goto
<1>6. ASSUME NEW d \in {"postgres", "redis"}, Open(d) \/ Connect(d) \/ ConnectFails(d) PROVE HandleInv'
  <2>1. d \in Deps /\ stage = d /\ (phase'[Boot] = "idle" <=> phase[Boot] = "idle")
    BY <1>3, <1>6 DEF Open, Connect, ConnectFails, Goto, Dial, DialVerified, DialFails, Deps
  <2>2. CASE Open(d)
    BY <2>1, <2>2 DEF Open, HandleInv, Opening
  <2>3. CASE Connect(d)
    <3>1. Closers' = Closers \cup {d}
      BY <1>2, <2>1, <2>3 DEF Connect
    <3>2. conns' # {} => "postgres" \in Closers'
      BY <2>3, <3>1 DEF Connect, HandleInv
    <3>. QED  BY <2>1, <2>3, <3>1, <3>2 DEF Connect, Goto, NextDep, HandleInv, Opening
  <2>4. CASE ConnectFails(d)
    BY <2>1, <2>4 DEF ConnectFails, Goto, HandleInv, Opening
  <2>. QED  BY <1>6, <2>2, <2>3, <2>4
<1>7. CASE Dial
  BY <1>7 DEF Dial, HandleInv, Opening
<1>8. CASE DialVerified
  <2>1. Closers' = Closers \cup {"chain"}
    BY <1>2, <1>8 DEF DialVerified, Deps
  <2>2. phase'[Boot] = "idle" /\ "chain" \in alive
    BY <1>1, <1>8 DEF DialVerified, Taken, CallTypes, HandleInv
  <2>3. conns' # {} => "postgres" \in Closers'
    BY <1>8, <2>1 DEF DialVerified, HandleInv
  <2>. QED  BY <1>8, <2>1, <2>2, <2>3 DEF DialVerified, Goto, HandleInv, Opening
<1>9. CASE DialFails
  <2>1. phase'[Boot] = "idle"
    BY <1>1, <1>9 DEF DialFails, Taken, CallTypes
  <2>. QED  BY <1>9, <2>1 DEF DialFails, Goto, HandleInv, Opening
<1>10. CASE Wire \/ WireFails
  <2>1. OpenQueue /\ stage = "wire" /\ stage' \in {"run", "unwind"} /\ UNCHANGED conns
    BY <1>10 DEF Wire, WireFails, Goto
  <2>2. Closers' = Closers \cup {"queue"}
    BY <1>2, <2>1 DEF OpenQueue, Deps
  <2>3. phase'[Boot] = "idle"
    BY <1>3, <2>1 DEF HandleInv, Dial, DialVerified, DialFails, Goto
  <2>4. conns' # {} => "postgres" \in Closers'
    BY <2>1, <2>2 DEF HandleInv
  <2>. QED  BY <2>1, <2>2, <2>3, <2>4 DEF OpenQueue, HandleInv, Opening
<1>11. CASE Joined \/ Exit
  <2>1. phase'[Boot] = "idle"
    BY <1>3, <1>11 DEF Joined, Exit, HandleInv, Dial, DialVerified, DialFails, Goto
  <2>. QED  BY <1>11, <2>1 DEF Joined, Exit, Goto, HandleInv, Opening
<1>12. CASE ClosePool \/ CloseLast
  <2>1. phase'[Boot] = "idle" /\ stage = "unwind" /\ stage' = "unwind" /\ UNCHANGED conns
    BY <1>3, <1>12 DEF ClosePool, CloseLast, HandleInv, Dial, DialVerified, DialFails, Goto
  <2>2. CASE ClosePool
    BY <2>1, <2>2 DEF ClosePool, HandleInv, Opening
  <2>3. CASE CloseLast
    <3>1. /\ DOMAIN opened' = DOMAIN opened \ {Len(opened)}
          /\ \A i \in DOMAIN opened' : opened'[i] = opened[i]
      BY <1>0, <2>3 DEF CloseLast
    <3>2. alive' = alive \ {opened[Len(opened)]}
      BY <2>3 DEF CloseLast, Last
    <3>3. alive' \subseteq Closers'
      BY <2>1, <3>1, <3>2 DEF HandleInv, Opening
    <3>4. conns # {} => opened[Len(opened)] # "postgres"
      BY <2>3 DEF CloseLast, Last
    <3>5. conns' # {} => \E i \in DOMAIN opened' : opened'[i] = "postgres"
      BY <2>1, <3>1, <3>4 DEF HandleInv
    <3>. QED  BY <2>1, <3>3, <3>5 DEF HandleInv, Opening
  <2>. QED  BY <1>12, <2>2, <2>3
<1>13. ASSUME NEW h \in Handlers, HandlerQueries(h) \/ QueryEnds(h) PROVE HandleInv'
  <2>1. /\ UNCHANGED <<stage, alive, opened>>
        /\ phase'[Boot] = phase[Boot]
    BY <1>13 DEF HandlerQueries, QueryEnds, callVars
  <2>2. conns' # {} => \E i \in DOMAIN opened : opened[i] = "postgres"
    <3>1. CASE HandlerQueries(h)
      <4>1. "postgres" \in alive /\ stage \in {"run", "unwind", "exited"}
        BY <3>1 DEF HandlerQueries, AwaitedInv
      <4>. QED  BY <4>1 DEF HandleInv, Opening
    <3>2. CASE QueryEnds(h)
      BY <3>2 DEF QueryEnds, HandleInv
    <3>. QED  BY <1>13, <3>1, <3>2
  <2>. QED  BY <2>1, <2>2 DEF HandleInv, Opening
<1>14. ASSUME NEW s \in Services, Started(s) \/ Stop(s) \/ Drained(s) \/ DrainTimesOut(s) \/ ServiceFails(s)
       PROVE  UNCHANGED <<stage, alive, opened, conns>>
  BY <1>14 DEF Started, Stop, Drained, DrainTimesOut, ServiceFails
<1>15. CASE Signal \/ UNCHANGED procVars \/ \E h \in Handlers : HandlerStarts(h) \/ HandlerEnds(h)
  <2>1. UNCHANGED <<stage, alive, opened, conns>>
    BY <1>15 DEF Signal, HandlerStarts, HandlerEnds, procVars
  <2>. QED  BY <1>4, <1>7, <1>8, <1>9, <2>1
<1>. QED  BY <1>4, <1>5, <1>6, <1>7, <1>8, <1>9, <1>10, <1>11, <1>12, <1>13, <1>14, <1>15, ProcSteps
          DEF Progress, vars

\* The invariant holds initially and every step keeps it.
LEMMA ProcInductive == Spec => []ProcInv
<1>1. Init => ProcInv
  <2> SUFFICES ASSUME Init PROVE ProcInv
    OBVIOUS
  <2> USE DEF Init, CallInit
  <2>1. CallTypes
    BY DEF CallTypes, Ops, Results
  <2>2. ProcTypes
    <3>1. serving \in [Handlers -> BOOLEAN]
      BY Zenon
    <3>2. code \in {-1, 0, 1} /\ opened \in Seq(Deps)
      OBVIOUS
    <3>. QED  BY <3>1, <3>2 DEF ProcTypes
  <2>3. RetryInv
    BY ClientAssumption DEF RetryInv
  <2>4. ServicesInv /\ AwaitedInv /\ VerdictInv
    BY DEF ServicesInv, AwaitedInv, VerdictInv
  <2>5. HandleInv
    BY ProcessAssumption DEF HandleInv
  <2>. QED  BY <2>1, <2>2, <2>3, <2>4, <2>5 DEF ProcInv
<1>2. ProcInv /\ [Next]_vars => ProcInv'
  BY CallTypesNext, ProcTypesNext, RetryNext, ServicesNext, AwaitedNext, VerdictNext, HandlesNext
     DEF ProcInv
<1>. QED  BY <1>1, <1>2, PTL DEF Spec

-----------------------------------------------------------------------------
(* Theorems                                                                *)

\* The node is asked at most MaxRetries times again, and exactly so often before a
\* call returns without an answer (retryPolicy.Do), whatever it answers and
\* whenever contexts end.
THEOREM AttemptsAreBounded == Spec => []TriesAsConfigured
<1>1. ProcInv => TriesAsConfigured
  BY DEF ProcInv, RetryInv, TriesAsConfigured
<1>. QED  BY <1>1, ProcInductive, PTL

\* No request is sent for a caller that has given up, nor after one the node has
\* answered (retryPolicy.Do, retryable).
THEOREM AsksForSomebody == Spec => AsksOnlyInVain
<1>1. ProcInv /\ [Next]_vars =>
        [\A c \in Callers : asked'[c] > asked[c] => ctx[c] = "live" /\ asked[c] = vain[c]]_<<ctx, callVars>>
  <2> SUFFICES ASSUME ProcInv, Next, NEW c \in Callers, asked'[c] > asked[c]
               PROVE  ctx[c] = "live" /\ asked[c] = vain[c]
    BY DEF vars
  <2> USE DEF ProcInv, CallTypes
  <2>1. asked[c] \in Nat
    OBVIOUS
  <2>2. ASSUME UNCHANGED asked PROVE FALSE
    BY <2>1, <2>2
  <2>3. ASSUME NEW d \in Callers, asked' = [asked EXCEPT ![d] = 0] PROVE FALSE
    BY <2>1, <2>3
  <2>4. ASSUME NEW d \in Callers, Send(d) PROVE d = c /\ ctx[c] = "live" /\ asked[c] = vain[c]
    BY <2>1, <2>4 DEF Send, RetryInv
  <2>5. ASSUME NEW d \in Callers, CallStep(d), ~Send(d) PROVE FALSE
    BY <2>2, <2>5 DEF CallStep, Answered, Failed, Backs, Timer, Abandon
  <2>6. ASSUME NEW d \in Callers, CtxEnds(d) \/ Taken(d) \/ \E o \in Ops : Begin(d, o) PROVE FALSE
    BY <2>2, <2>3, <2>6 DEF CtxEnds, Taken, Begin, callVars
  <2>7. ASSUME Signal \/ (\E h \in Handlers : HandlerStarts(h)) \/ UNCHANGED callVars PROVE FALSE
    BY <2>2, <2>7 DEF Signal, HandlerStarts, callVars
  <2>. QED  BY <2>4, <2>5, <2>6, <2>7, CallSteps
<1>. QED  BY <1>1, ProcInductive, PTL DEF Spec, AsksOnlyInVain

\* The pause before every retry lies between the configured one and five
\* seconds as long as the shift of Do does not overflow, for every backoff,
\* attempt and width of a Duration.
THEOREM RetriesArePatient == Spec => []PatientRetries
<1>1. ProcInv => PatientRetries
  <2> SUFFICES ASSUME ProcInv, NEW c \in Callers, phase[c] = "wait"
               PROVE  /\ waited[c] <= MaxWait
                      /\ Backoff * Pow2[attempt[c]] \in Word(Width) =>
                           waited[c] >= Backoff \/ waited[c] = MaxWait
    BY DEF PatientRetries
  <2>1. attempt[c] \in Nat /\ waited[c] = Delay(attempt[c])
    BY DEF ProcInv, CallTypes, RetryInv
  <2>. QED  BY <2>1, DelayFacts
<1>. QED  BY <1>1, ProcInductive, PTL

\* Nothing that was opened is open when the process exits, whether New had
\* already been handed it or not (Connect, Dial, New, run's defers).
THEOREM ExitClosesAll == Spec => []NothingLeaks
<1>1. ProcInv => NothingLeaks
  <2> SUFFICES ASSUME ProcInv, stage = "exited" PROVE alive = {} /\ conns = {}
    BY DEF NothingLeaks
  <2>1. opened = <<>> /\ Opening = {}
    BY DEF ProcInv, HandleInv, Opening
  <2>2. DOMAIN opened = {}
    BY <2>1
  <2>. QED  BY <2>1, <2>2 DEF ProcInv, HandleInv
<1>. QED  BY <1>1, ProcInductive, PTL

\* No handler of the api or the worker loses a dependency unless its server has
\* left it behind, for any number of handlers (Server.Run of httpapi and queue).
THEOREM DepsOutliveHandlers == Spec => []HandlersKeepTheirDeps
<1>1. ProcInv => HandlersKeepTheirDeps
  BY DEF ProcInv, ProcTypes, AwaitedInv, HandleInv, Deps, HandlersKeepTheirDeps
<1>. QED  BY <1>1, ProcInductive, PTL

\* The exit code is 0 exactly when nothing failed but the shutdown itself (main,
\* the errgroup's first error).
THEOREM ExitCodeIsTrue == Spec => []CleanExitIsTrue
<1>1. ProcInv => CleanExitIsTrue
  BY DEF ProcInv, VerdictInv, CleanExitIsTrue
<1>. QED  BY <1>1, ProcInductive, PTL
=============================================================================
