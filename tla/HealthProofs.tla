---------------------------- MODULE HealthProofs ----------------------------
(***************************************************************************)
(* A report of readiness is earned, for any number of processes, any       *)
(* dependencies and any staleness limit; and the composition with the      *)
(* Checks leaves the subscriber what HeadTracking says it is.              *)
(***************************************************************************)
EXTENDS Health, HeadTrackingProofs

HealthTypes ==
  /\ age     \in [Subs -> 0 .. Never]
  /\ seen    \in [Subs -> 0 .. Never]
  /\ probe   \in [Subs -> [Components -> {"idle", "asked", "last", "read"} \cup Answers]]
  /\ report  \in [Subs -> Answers \cup {"none"}]
  /\ witness \in [Subs -> SUBSET {"live", "head"}]

\* What a Check has read of the subscription so far held at a moment of that
\* Check. Between the reads of Last and of the clock the head that was seen is
\* no younger than the last one, so that a head that is recent by the clock was
\* recent when Connected said yes.
EvidenceInv ==
  \A s \in Subs :
    /\ probe[s]["chain_ws"] \in {"last", "read"} => age[s] <= seen[s]
    /\ probe[s]["chain_ws"] \in {"read", "degraded", "up"} => "live" \in witness[s]
    /\ probe[s]["chain_ws"] = "read" /\ Fresh(seen[s]) => "head" \in witness[s]
    /\ probe[s]["chain_ws"] = "up" => "head" \in witness[s]

HealthInv == HealthTypes /\ EvidenceInv

-----------------------------------------------------------------------------
\* Ages only grow with time, and keep their order.
LEMMA OlderFacts ==
  /\ StaleAfter \in Nat /\ TooOld = StaleAfter + 1 /\ Never = StaleAfter + 2
  /\ \A a \in 0 .. Never : Older(a) \in 0 .. Never /\ (Fresh(Older(a)) => Fresh(a))
  /\ \A a, b \in 0 .. Never : a <= b => Older(a) <= Older(b)
<1>1. StaleAfter \in Nat /\ TooOld = StaleAfter + 1 /\ Never = StaleAfter + 2
  BY HealthAssumption DEF TooOld, Never
<1>. QED  BY <1>1 DEF Older, Fresh

LEMMA ComponentFacts ==
  /\ "chain_ws" \in Components /\ "chain_rpc" \in Components /\ Pingers \subseteq Components
  /\ "chain_ws" \notin Pingers
BY HealthAssumption DEF Components

\* A Check that goes on keeps its witnesses and gains those of the new moment.
LEMMA WitnessGrows ==
  ASSUME HealthTypes, Witness, NEW s \in Subs, probe'[s]["chain_ws"] # "idle"
  PROVE  /\ witness[s] \subseteq witness'[s]
         /\ connected'[s] => "live" \in witness'[s]
         /\ connected'[s] /\ Fresh(age'[s]) => "head" \in witness'[s]
<1>1. witness'[s] = witness[s] \cup Holding(s)'
  BY DEF Witness, Checking
<1>2. Holding(s)' = { f \in {"live", "head"} : connected'[s] /\ (f = "head" => Fresh(age'[s])) }
  BY DEF Holding, Fresh
<1>. QED  BY <1>1, <1>2

\* One goroutine of a Check answers.
LEMMA AnswerFacts ==
  ASSUME HealthTypes, NEW s \in Subs, NEW c \in Components, NEW from, NEW to, Answer(s, c, from, to),
         to \in {"last", "read"} \cup Answers
  PROVE  /\ probe' \in [Subs -> [Components -> {"idle", "asked", "last", "read"} \cup Answers]]
         /\ probe[s][c] = from /\ probe'[s][c] = to
         /\ \A d \in Components : d # c => probe'[s][d] = probe[s][d]
         /\ \A r \in Subs : r # s => probe'[r] = probe[r]
BY DEF HealthTypes, Answer

LEMMA WitnessType ==
  ASSUME HealthTypes, Witness PROVE witness' \in [Subs -> SUBSET {"live", "head"}]
<1>1. ASSUME NEW s \in Subs PROVE Holding(s)' \subseteq {"live", "head"}
  BY DEF Holding
<1>. QED  BY <1>1 DEF HealthTypes, Witness

LEMMA HealthTypesNext == HealthTypes /\ [HealthNext]_healthVars => HealthTypes'
<1> SUFFICES ASSUME HealthTypes, [HealthNext]_healthVars PROVE HealthTypes'
  OBVIOUS
<1>1. CASE UNCHANGED healthVars
  BY <1>1 DEF healthVars, checkVars, HealthTypes
<1> SUFFICES ASSUME HealthNext PROVE HealthTypes'
  BY <1>1
<1> USE OlderFacts, ComponentFacts
<1>2. witness' \in [Subs -> SUBSET {"live", "head"}]
  BY WitnessType DEF HealthNext
<1>3. CASE Tick \/ Elsewhere
  <2>1. CASE Tick
    <3>1. age' \in [Subs -> 0 .. Never] /\ seen' \in [Subs -> 0 .. Never]
      BY <2>1 DEF Tick, HealthTypes
    <3>. QED  BY <1>2, <2>1, <3>1 DEF Tick, HealthTypes
  <2>2. CASE Elsewhere
    BY <1>2, <2>2 DEF Elsewhere, checkVars, HealthTypes
  <2>. QED  BY <1>3, <2>1, <2>2
<1>4. ASSUME NEW s \in Subs, Follow(s) \/ Restart(s) PROVE HealthTypes'
  <2>1. age' \in [Subs -> 0 .. Never] /\ seen' \in [Subs -> 0 .. Never]
    BY <1>4 DEF Follow, Restart, checkVars, HealthTypes
  <2>2. probe' \in [Subs -> [Components -> {"idle", "asked", "last", "read"} \cup Answers]]
    BY <1>4 DEF Follow, Restart, checkVars, HealthTypes
  <2>3. report' \in [Subs -> Answers \cup {"none"}]
    BY <1>4 DEF Follow, Restart, checkVars, HealthTypes
  <2>. QED  BY <1>2, <2>1, <2>2, <2>3 DEF HealthTypes
<1>5. ASSUME NEW s \in Subs, CheckStep(s) PROVE HealthTypes'
  <2>1. age' = age
    BY <1>5 DEF CheckStep
  <2>2. CASE Begin(s)
    BY <1>2, <2>1, <2>2 DEF Begin, HealthTypes
  <2>3. ASSUME NEW p \in Pingers, Ping(s, p) PROVE HealthTypes'
    BY <1>2, <2>1, <2>3, AnswerFacts DEF Ping, HealthTypes, Answers
  <2>4. CASE AskChain(s)
    BY <1>2, <2>1, <2>4, AnswerFacts DEF AskChain, HealthTypes, Answers
  <2>5. CASE ReadLast(s)
    BY <1>2, <2>1, <2>5, AnswerFacts DEF ReadLast, HealthTypes
  <2>6. CASE ReadConnected(s) \/ ReadClock(s)
    BY <1>2, <2>1, <2>6, AnswerFacts DEF ReadConnected, ReadClock, HealthTypes, Answers
  <2>7. CASE Finish(s)
    <3>1. Aggregate(probe[s]) \in Answers
      BY DEF Aggregate, Answers
    <3>. QED  BY <1>2, <2>1, <2>7, <3>1 DEF Finish, HealthTypes
  <2>. QED  BY <1>5, <2>2, <2>3, <2>4, <2>5, <2>6, <2>7 DEF CheckStep
<1>. QED  BY <1>3, <1>4, <1>5 DEF HealthNext

\* Every step of a Check, of the subscriber and of time keeps the evidence.
LEMMA EvidenceNext == HealthInv /\ [HealthNext]_healthVars => EvidenceInv'
<1> SUFFICES ASSUME HealthTypes, EvidenceInv, [HealthNext]_healthVars PROVE EvidenceInv'
  BY DEF HealthInv
<1>1. CASE UNCHANGED healthVars
  BY <1>1 DEF healthVars, checkVars, EvidenceInv, Fresh
<1> SUFFICES ASSUME HealthNext PROVE EvidenceInv'
  BY <1>1
<1> USE OlderFacts, ComponentFacts
<1> DEFINE E(p, a, z, w) ==
             /\ p \in {"last", "read"} => a <= z
             /\ p \in {"read", "degraded", "up"} => "live" \in w
             /\ p = "read" /\ Fresh(z) => "head" \in w
             /\ p = "up" => "head" \in w
<1>2. \A s \in Subs : E(probe[s]["chain_ws"], age[s], seen[s], witness[s])
  BY DEF EvidenceInv
<1> SUFFICES ASSUME NEW s \in Subs
             PROVE  E(probe'[s]["chain_ws"], age'[s], seen'[s], witness'[s])
  BY DEF EvidenceInv, Fresh
<1>3. E(probe[s]["chain_ws"], age[s], seen[s], witness[s])
  BY <1>2
<1>4. age[s] \in 0 .. Never /\ seen[s] \in 0 .. Never
  BY DEF HealthTypes
<1>5. probe'[s]["chain_ws"] # "idle" =>
        /\ witness[s] \subseteq witness'[s]
        /\ connected'[s] => "live" \in witness'[s]
        /\ connected'[s] /\ Fresh(age'[s]) => "head" \in witness'[s]
  BY WitnessGrows DEF HealthNext
<1>6. CASE Tick
  <2>1. age'[s] = Older(age[s]) /\ seen'[s] = Older(seen[s]) /\ probe' = probe
    BY <1>6 DEF Tick
  <2>. QED  BY <1>3, <1>4, <1>5, <2>1
<1>7. CASE probe'[s]["chain_ws"] = probe[s]["chain_ws"] /\ seen'[s] = seen[s] /\ age'[s] \in {0, age[s]}
  BY <1>3, <1>4, <1>5, <1>7
<1>8. CASE Elsewhere
  BY <1>7, <1>8 DEF Elsewhere, checkVars
<1>9. ASSUME NEW r \in Subs, Follow(r) PROVE E(probe'[s]["chain_ws"], age'[s], seen'[s], witness'[s])
  BY <1>7, <1>9 DEF Follow, checkVars, HealthTypes
<1>10. ASSUME NEW r \in Subs, Restart(r) PROVE E(probe'[s]["chain_ws"], age'[s], seen'[s], witness'[s])
  <2>1. CASE r = s
    BY <1>10, <2>1 DEF Restart, HealthTypes
  <2>2. CASE r # s
    BY <1>7, <1>10, <2>2 DEF Restart, HealthTypes
  <2>. QED  BY <2>1, <2>2
<1>11. ASSUME NEW r \in Subs, CheckStep(r)
       PROVE  E(probe'[s]["chain_ws"], age'[s], seen'[s], witness'[s])
  <2>1. age' = age /\ connected' = connected
    BY <1>11 DEF CheckStep, vars
  <2>2. CASE Begin(r)
    BY <1>7, <2>1, <2>2 DEF Begin, HealthTypes
  <2>3. ASSUME NEW p \in Pingers, Ping(r, p)
        PROVE  probe'[s]["chain_ws"] = probe[s]["chain_ws"] /\ seen' = seen
    BY <2>3, AnswerFacts DEF Ping, Answers
  <2>4. CASE AskChain(r)
    <3>1. probe'[s]["chain_ws"] = probe[s]["chain_ws"] /\ seen' = seen
      BY <2>4, AnswerFacts DEF AskChain, Answers
    <3>. QED  BY <1>7, <2>1, <3>1
  <2>5. CASE ReadLast(r)
    <3>1. CASE r = s
      <4>1. probe'[s]["chain_ws"] = "last" /\ seen'[s] = age[s]
        BY <2>5, <3>1, AnswerFacts DEF ReadLast, HealthTypes
      <4>. QED  BY <1>4, <2>1, <4>1
    <3>2. CASE r # s
      <4>1. probe'[s]["chain_ws"] = probe[s]["chain_ws"] /\ seen'[s] = seen[s]
        BY <2>5, <3>2, AnswerFacts DEF ReadLast, HealthTypes
      <4>. QED  BY <1>7, <2>1, <4>1
    <3>. QED  BY <3>1, <3>2
  <2>6. CASE ReadConnected(r)
    <3>1. CASE r = s
      <4>1. /\ probe[s]["chain_ws"] = "last" /\ seen' = seen
            /\ probe'[s]["chain_ws"] = IF ~connected[s] THEN "down"
                                       ELSE IF seen[s] = Never THEN "degraded" ELSE "read"
        BY <2>6, <3>1, AnswerFacts DEF ReadConnected, Answers
      <4>2. Fresh(seen[s]) => Fresh(age[s])
        BY <1>3, <1>4, <4>1 DEF Fresh
      <4>. QED  BY <1>3, <1>4, <1>5, <2>1, <4>1, <4>2
    <3>2. CASE r # s
      <4>1. probe'[s]["chain_ws"] = probe[s]["chain_ws"] /\ seen' = seen
        BY <2>6, <3>2, AnswerFacts DEF ReadConnected, Answers
      <4>. QED  BY <1>7, <2>1, <4>1
    <3>. QED  BY <3>1, <3>2
  <2>7. CASE ReadClock(r)
    <3>1. CASE r = s
      <4>1. /\ probe[s]["chain_ws"] = "read" /\ seen' = seen
            /\ probe'[s]["chain_ws"] = IF Fresh(seen[s]) THEN "up" ELSE "degraded"
        BY <2>7, <3>1, AnswerFacts DEF ReadClock, Answers
      <4>. QED  BY <1>3, <1>5, <2>1, <4>1
    <3>2. CASE r # s
      <4>1. probe'[s]["chain_ws"] = probe[s]["chain_ws"] /\ seen' = seen
        BY <2>7, <3>2, AnswerFacts DEF ReadClock, Answers
      <4>. QED  BY <1>7, <2>1, <4>1
    <3>. QED  BY <3>1, <3>2
  <2>8. CASE Finish(r)
    <3>1. CASE r = s
      BY <2>8, <3>1 DEF Finish, HealthTypes
    <3>2. CASE r # s
      BY <1>7, <2>1, <2>8, <3>2 DEF Finish, HealthTypes
    <3>. QED  BY <3>1, <3>2
  <2>. QED  BY <1>7, <1>11, <2>1, <2>2, <2>3, <2>4, <2>5, <2>6, <2>7, <2>8 DEF CheckStep
<1>. QED  BY <1>6, <1>8, <1>9, <1>10, <1>11 DEF HealthNext

LEMMA HealthInductive == HealthSpec => []HealthInv
<1>1. HealthInit => HealthInv
  BY OlderFacts, ComponentFacts DEF HealthInit, HealthInv, HealthTypes, EvidenceInv
<1>2. HealthInv /\ [HealthNext]_healthVars => HealthInv'
  BY HealthTypesNext, EvidenceNext DEF HealthInv
<1>. QED  BY <1>1, <1>2, PTL DEF HealthSpec

-----------------------------------------------------------------------------
(* Theorems                                                                *)

\* A process that calls itself ready had a live subscription, and one that is
\* wholly up a live one with a recent head, at one moment of that very Check
\* (HealthChecker.Check, checkHead), however its reads interleave with sessions,
\* heads and time.
THEOREM ReadinessIsEarned == HealthSpec => ReadyIsEarned
<1>1. HealthInv /\ [HealthNext]_healthVars =>
        [\A s \in Subs : Answered(s) /\ ~Answered(s)' =>
           /\ report'[s] \in {"up", "degraded"} => "live" \in witness[s]
           /\ report'[s] = "up" => "head" \in witness[s]]_healthVars
  <2> SUFFICES ASSUME HealthTypes, EvidenceInv, HealthNext, NEW s \in Subs, Answered(s), ~Answered(s)'
               PROVE  /\ report'[s] \in {"up", "degraded"} => "live" \in witness[s]
                      /\ report'[s] = "up" => "head" \in witness[s]
    BY DEF HealthInv
  <2> USE ComponentFacts
  <2>1. \A c \in Components : probe[s][c] \in Answers
    BY DEF Answered
  <2>2. probe' # probe
    BY DEF Answered
  <2>3. CASE Restart(s)
    BY <2>3 DEF Restart, HealthTypes
  <2>4. CASE Finish(s)
    <3>1. report'[s] = Aggregate(probe[s])
      BY <2>4 DEF Finish, HealthTypes
    <3>2. probe[s]["chain_ws"] \in Answers
      BY <2>1
    <3>. QED  BY <3>1, <3>2 DEF Aggregate, EvidenceInv, Answers
  <2>5. ASSUME NEW r \in Subs, Restart(r) \/ Finish(r), r # s PROVE FALSE
    <3>1. probe'[s] = probe[s]
      BY <2>5 DEF Restart, Finish, HealthTypes
    <3>. QED  BY <3>1 DEF Answered
  <2>6. ASSUME NEW r \in Subs, Begin(r) PROVE FALSE
    <3>1. r # s
      BY <2>1, <2>6 DEF Begin, Checking, Answers
    <3>2. probe'[s] = probe[s]
      BY <2>6, <3>1 DEF Begin, HealthTypes
    <3>. QED  BY <3>2 DEF Answered
  <2>7. ASSUME NEW r \in Subs, NEW c \in Components, NEW to \in {"last", "read"} \cup Answers,
               NEW from \in {"asked", "last", "read"}, Answer(r, c, from, to)
        PROVE  FALSE
    <3>1. r # s
      BY <2>1, <2>7, AnswerFacts DEF Answers
    <3>2. probe'[s] = probe[s]
      BY <2>7, <3>1, AnswerFacts
    <3>. QED  BY <3>2 DEF Answered
  <2>8. ASSUME NEW r \in Subs, NEW p \in Pingers, Ping(r, p) PROVE FALSE
    BY <2>7, <2>8 DEF Ping, Answers
  <2>9. ASSUME NEW r \in Subs, AskChain(r) \/ ReadLast(r) \/ ReadConnected(r) \/ ReadClock(r) PROVE FALSE
    BY <2>7, <2>9 DEF AskChain, ReadLast, ReadConnected, ReadClock, Answers
  <2>10. ASSUME Tick \/ Elsewhere \/ \E r \in Subs : Follow(r) PROVE FALSE
    BY <2>2, <2>10 DEF Tick, Elsewhere, Follow, checkVars
  <2>. QED  BY <2>3, <2>4, <2>5, <2>6, <2>8, <2>9, <2>10 DEF HealthNext, CheckStep
<1>. QED  BY <1>1, HealthInductive, PTL DEF HealthSpec, ReadyIsEarned

\* Checks only read: with them running, the subscriber and the stored head still
\* behave as HeadTracking says, and what is proved there holds.
THEOREM ChecksOnlyRead == HealthSpec => Spec
<1>1. HealthInit => Init
  BY DEF HealthInit
<1>2. [HealthNext]_healthVars => [Next]_vars
  BY DEF HealthNext, healthVars, Tick, Elsewhere, CheckStep, Follow, Restart, Next
<1>. QED  BY <1>1, <1>2, PTL DEF HealthSpec, Spec
=============================================================================
