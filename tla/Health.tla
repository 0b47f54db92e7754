------------------------------- MODULE Health -------------------------------
(***************************************************************************)
(* Readiness (application/health.go, domain/health.go, /readyz in          *)
(* httpapi/server.go, cmd/healthcheck) on top of the head subscriber it    *)
(* reports on. A Check asks every dependency in a goroutine of its own and *)
(* waits for all. The subscriber is asked in three reads, each under its   *)
(* lock but none together, while sessions end and begin and heads arrive.  *)
(* The worker and the bot run the same Check with fewer components.        *)
(*                                                                         *)
(* Ages stand for the timestamps and the clock: an age is the time since a *)
(* timestamp, counted no further than "too old".                           *)
(***************************************************************************)
EXTENDS HeadTracking

CONSTANTS
  Pingers,    \* dependencies that are only pinged: postgres, redis
  StaleAfter  \* HealthCheckerDeps.StaleAfter

ASSUME HealthAssumption ==
  /\ StaleAfter \in Nat
  /\ Pingers \cap {"chain_rpc", "chain_ws"} = {}

Components == Pingers \cup {"chain_rpc", "chain_ws"}
TooOld     == StaleAfter + 1
Never      == TooOld + 1   \* the age of a zero timestamp
Answers    == {"up", "degraded", "down"}

VARIABLES
  age,      \* of HeadSubscriber.lastSeen
  probe,    \* how far the goroutine of each component is, or its answer
  seen,     \* the age of checkHead's local seenAt
  report,   \* status of the last report
  witness   \* history: what held of the subscription during the Check

checkVars  == <<probe, seen, report>>
healthVars == <<vars, age, checkVars, witness>>

Older(a) == IF a < TooOld THEN a + 1 ELSE a
Fresh(a) == a <= StaleAfter

Checking(s) == probe[s]["chain_ws"] # "idle"
Answered(s) == \A c \in Components : probe[s][c] \in Answers

-----------------------------------------------------------------------------
(* Check                                                                   *)

\* Mutation: the first component that is not up decides, down or not.
Aggregate_Degraded(a) ==
  IF \E c \in Components : a[c] = "degraded" THEN "degraded"
  ELSE IF \E c \in Components : a[c] = "down" THEN "down" ELSE "up"

\* The worst of the answers.
Aggregate(a) ==
  IF \E c \in Components : a[c] = "down" THEN "down"
  ELSE IF \E c \in Components : a[c] = "degraded" THEN "degraded" ELSE "up"

Answer(s, c, from, to) ==
  /\ probe[s][c] = from
  /\ probe' = [probe EXCEPT ![s][c] = to]

\* A Check starts one goroutine per component.
Begin(s) ==
  /\ ~Checking(s)
  /\ probe' = [probe EXCEPT ![s] = [c \in Components |-> "asked"]]
  /\ UNCHANGED <<seen, report>>

\* pingComponent; the dependency answers or not.
Ping(s, p) ==
  /\ Answer(s, p, "asked", "up") \/ Answer(s, p, "asked", "down")
  /\ UNCHANGED <<seen, report>>

\* checkChain: no chain id or no head, or another chain's, is down; a head
\* with an old timestamp is degraded. Nothing else of the process is read.
AskChain(s) ==
  /\ \E id \in Chains, head \in Answers :
       Answer(s, "chain_rpc", "asked", IF id # OurChain THEN "down" ELSE head)
  /\ UNCHANGED <<seen, report>>

\* checkHead reads Last, and Connected for the details ...
ReadLast(s) ==
  /\ Answer(s, "chain_ws", "asked", "last")
  /\ seen' = [seen EXCEPT ![s] = age[s]]
  /\ UNCHANGED report

\* Mutation: a head that was seen is taken for a connection.
ReadConnected_BySeen(s) ==
  /\ Answer(s, "chain_ws", "last", IF seen[s] = Never THEN "down" ELSE "read")
  /\ UNCHANGED <<seen, report>>

\* ... then Connected again, to decide ...
ReadConnected(s) ==
  /\ Answer(s, "chain_ws", "last", IF ~connected[s] THEN "down"
                                   ELSE IF seen[s] = Never THEN "degraded" ELSE "read")
  /\ UNCHANGED <<seen, report>>

\* Mutation: any head that ever arrived will do.
ReadClock_AnyHead(s) ==
  /\ Answer(s, "chain_ws", "read", "up")
  /\ UNCHANGED <<seen, report>>

\* ... and last the clock.
ReadClock(s) ==
  /\ Answer(s, "chain_ws", "read", IF Fresh(seen[s]) THEN "up" ELSE "degraded")
  /\ UNCHANGED <<seen, report>>

\* All goroutines have answered. /readyz says 503 when the report is down, and
\* cmd/healthcheck then fails.
Finish(s) ==
  /\ Answered(s)
  /\ report' = [report EXCEPT ![s] = Aggregate(probe[s])]
  /\ probe'  = [probe EXCEPT ![s] = [c \in Components |-> "idle"]]
  /\ seen'   = [seen EXCEPT ![s] = Never]

CheckStep(s) ==
  /\ Begin(s) \/ (\E p \in Pingers : Ping(s, p)) \/ AskChain(s)
     \/ ReadLast(s) \/ ReadConnected(s) \/ ReadClock(s) \/ Finish(s)
  /\ UNCHANGED <<vars, age>>

-----------------------------------------------------------------------------
(* The subscriber and time                                                 *)

Tick ==
  /\ age'  = [s \in Subs |-> Older(age[s])]
  /\ seen' = [s \in Subs |-> Older(seen[s])]
  /\ UNCHANGED <<vars, probe, report>>

\* A step of Run; taking a head also sets lastSeen.
Follow(s) ==
  /\ SubStep(s)
  /\ age' = [age EXCEPT ![s] = IF sess[s] = "live" /\ sess'[s] = "record" THEN 0 ELSE @]
  /\ UNCHANGED checkVars

\* A restart ends the Check with the process.
Restart(s) ==
  /\ ApiRestarts(s)
  /\ age'    = [age EXCEPT ![s] = Never]
  /\ probe'  = [probe EXCEPT ![s] = [c \in Components |-> "idle"]]
  /\ seen'   = [seen EXCEPT ![s] = Never]
  /\ report' = [report EXCEPT ![s] = "none"]

\* The chain and the network. (The workers' sync tasks touch nothing a Check
\* reads and are left out here.)
Elsewhere ==
  /\ Grow \/ Reorg \/ \E s \in Subs : SocketDrops(s)
  /\ UNCHANGED <<age, checkVars>>

\* History: "live" while the subscription is reported connected, "head" while
\* it is and its last head is recent.
Holding(s) == { f \in {"live", "head"} : connected[s] /\ (f = "head" => Fresh(age[s])) }

Witness ==
  witness' = [s \in Subs |-> IF Checking(s)' THEN witness[s] \cup Holding(s)' ELSE {}]

HealthInit ==
  /\ Init
  /\ age     = [s \in Subs |-> Never]
  /\ probe   = [s \in Subs |-> [c \in Components |-> "idle"]]
  /\ seen    = [s \in Subs |-> Never]
  /\ report  = [s \in Subs |-> "none"]
  /\ witness = [s \in Subs |-> {}]

HealthNext ==
  /\ \/ Tick \/ Elsewhere
     \/ \E s \in Subs : CheckStep(s) \/ Follow(s) \/ Restart(s)
  /\ Witness

HealthSpec == HealthInit /\ [][HealthNext]_healthVars

\* The subscriber runs, time passes, and whoever probes /readyz goes on
\* probing, every call of a Check having a timeout.
HealthFairness ==
  /\ WF_healthVars(Tick /\ Witness)
  /\ \A s \in Subs : /\ WF_healthVars(CheckStep(s) /\ Witness)
                     /\ WF_healthVars(Follow(s) /\ Witness)

HealthFairSpec == HealthSpec /\ HealthFairness

-----------------------------------------------------------------------------
(* Correctness                                                             *)

\* A process that reports itself ready had a live subscription at some moment
\* of that very Check, and one that is wholly up had one with a recent head,
\* both at the same moment: although checkHead reads Last, Connected and the
\* clock apart, and the session can end, begin and receive in between.
ReadyIsEarned ==
  [][ \A s \in Subs : Answered(s) /\ ~Answered(s)' =>
        /\ report'[s] \in {"up", "degraded"} => "live" \in witness[s]
        /\ report'[s] = "up" => "head" \in witness[s] ]_healthVars

\* A subscription that has gone silent without an error is reported: when no
\* head is taken any more the reports stop saying up (domain/chain.go: "to
\* detect a silently wedged RPC connection").
SilenceIsReported ==
  \A s \in Subs : <>[](~Fresh(age[s])) => <>[](report[s] # "up")

\* An outage that lasts is reported: when a subscription cannot be had any
\* more the process stops being ready, and stays so.
OutageIsReported ==
  \A s \in Subs : <>[](~socket[s]) => <>[](report[s] \in {"none", "down"})
=============================================================================
