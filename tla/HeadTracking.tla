---------------------------- MODULE HeadTracking ----------------------------
(***************************************************************************)
(* How the processes follow the chain head: the WebSocket subscriber of    *)
(* each api process (chain/subscriber.go), the chain:sync_head tasks that  *)
(* the workers run every minute (queue/tasks, application/chainsync.go)    *)
(* and the one row they all write, chain_sync_state                        *)
(* (postgres/syncstate.go). The chain itself is external: it grows, and a  *)
(* reorganisation can announce a head at a height already seen.            *)
(***************************************************************************)
EXTENDS Integers, Sequences

CONSTANTS
  Subs,         \* api processes, each with one HeadSubscriber
  Syncs,        \* executions of chain:sync_head that may overlap: retries,
                \* redeliveries and every replica's own scheduler
  Chains,       \* chain ids an endpoint may report
  OurChain,     \* the configured one
  MaxHeight,    \* bound: height of the chain
  MaxForks,     \* bound: reorganisations
  InboxCap,     \* heads a subscription buffers before it is cut off
  BackoffBase,  \* reconnectBase and reconnectMax, in one unit of time
  BackoffMax

ASSUME HeadAssumption ==
  /\ OurChain \in Chains
  /\ MaxHeight \in Nat \ {0}
  /\ MaxForks \in Nat
  /\ InboxCap \in Nat \ {0}
  /\ BackoffBase \in Nat \ {0}
  /\ BackoffMax \in Nat
  /\ BackoffBase <= BackoffMax

\* BlockRef; the fork number stands for the hash. Heights start at 1, and
\* NoBlock is the zero BlockRef, or no row.
Blocks    == [chain : Chains, num : Nat, fork : Nat]
OurBlocks == [chain : {OurChain}, num : Nat, fork : Nat]
NoBlock   == [chain |-> OurChain, num |-> 0, fork |-> 0]

VARIABLES
  tip,        \* the head our node reports
  stored,     \* the chain_sync_state row of our chain id
  sess,       \* where each subscriber's Run loop is
  feed,       \* the chain the session's endpoint is on
  socket,     \* the subscription is intact
  inbox,      \* heads delivered to the session and not yet taken
  last,       \* HeadSubscriber.last
  connected,  \* HeadSubscriber.connected
  backoff,    \* Run's local variable
  sync,       \* where each execution of the sync task is
  got         \* the block it has read

chainVars == <<tip>>
subVars   == <<sess, feed, socket, inbox, last, connected, backoff>>
syncVars  == <<sync, got>>
vars      == <<tip, stored, sess, feed, socket, inbox, last, connected, backoff, sync, got>>

-----------------------------------------------------------------------------
(* The row                                                                 *)

\* Mutation: the upsert has no WHERE clause.
SaveHead_Always(b) == stored' = b

\* The upsert of SyncStateRepo.SaveHead: a first row is inserted, an existing
\* one replaced only by a strictly higher block.
SaveHead(b) == stored' = IF b.num > stored.num THEN b ELSE stored

-----------------------------------------------------------------------------
(* The chain                                                               *)

\* The head the endpoint behind a session announces when t is our chain's.
HeadOf(chain, t) ==
  IF chain = OurChain THEN t ELSE [chain |-> chain, num |-> MaxHeight, fork |-> 0]

Listening(s) == socket[s] /\ sess[s] \in {"live", "record"}

\* A new head reaches every intact subscription; one whose buffer is full is
\* cut off instead.
Announce(t) ==
  /\ tip' = t
  /\ inbox' = [s \in Subs |-> IF Listening(s) /\ Len(inbox[s]) < InboxCap
                              THEN Append(inbox[s], HeadOf(feed[s], t))
                              ELSE inbox[s]]
  /\ socket' = [s \in Subs |-> socket[s] /\ ~(Listening(s) /\ Len(inbox[s]) >= InboxCap)]
  /\ UNCHANGED <<stored, sess, feed, last, connected, backoff, syncVars>>

Grow ==
  /\ tip.num < MaxHeight
  /\ Announce([tip EXCEPT !.num = @ + 1])

\* The canonical head becomes another block, no higher than the old one.
Reorg ==
  /\ tip.fork < MaxForks
  /\ \E n \in 1 .. MaxHeight :
       n <= tip.num /\ Announce([chain |-> OurChain, num |-> n, fork |-> tip.fork + 1])

-----------------------------------------------------------------------------
(* The subscriber                                                          *)

Goto(s, from, to) ==
  /\ sess[s] = from
  /\ sess' = [sess EXCEPT ![s] = to]

\* Mutation: the session does not check the chain id.
Subscribe_AnyChain(s, c) ==
  /\ Goto(s, "dial", "live")
  /\ feed'      = [feed EXCEPT ![s] = c]
  /\ socket'    = [socket EXCEPT ![s] = TRUE]
  /\ inbox'     = [inbox EXCEPT ![s] = <<>>]
  /\ connected' = [connected EXCEPT ![s] = TRUE]
  /\ UNCHANGED <<chainVars, stored, last, backoff, syncVars>>

\* session up to its loop: dialled, chain id checked, subscribed. A connection
\* stays with the node it was opened to, so the check holds for its lifetime.
Subscribe(s, c) ==
  /\ c = OurChain
  /\ Goto(s, "dial", "live")
  /\ feed'      = [feed EXCEPT ![s] = c]
  /\ socket'    = [socket EXCEPT ![s] = TRUE]
  /\ inbox'     = [inbox EXCEPT ![s] = <<>>]
  /\ connected' = [connected EXCEPT ![s] = TRUE]
  /\ UNCHANGED <<chainVars, stored, last, backoff, syncVars>>

\* Dialling, reading the chain id or subscribing fails, or the endpoint is on
\* another chain.
DialFails(s) ==
  /\ Goto(s, "dial", "ended")
  /\ UNCHANGED <<chainVars, stored, feed, socket, inbox, last, connected, backoff, syncVars>>

\* The network or the endpoint ends the subscription.
SocketDrops(s) ==
  /\ Listening(s)
  /\ socket' = [socket EXCEPT ![s] = FALSE]
  /\ UNCHANGED <<chainVars, stored, sess, feed, inbox, last, connected, backoff, syncVars>>

\* The loop takes a head and publishes it to Last ...
TakeHead(s) ==
  /\ inbox[s] # <<>>
  /\ Goto(s, "live", "record")
  /\ last'  = [last EXCEPT ![s] = Head(inbox[s])]
  /\ inbox' = [inbox EXCEPT ![s] = Tail(@)]
  /\ UNCHANGED <<chainVars, stored, feed, socket, connected, backoff, syncVars>>

\* ... and calls onHead, which persists it or logs that it could not.
RecordHead(s) ==
  /\ Goto(s, "record", "live")
  /\ SaveHead(last[s]) \/ UNCHANGED stored
  /\ UNCHANGED <<chainVars, feed, socket, inbox, last, connected, backoff, syncVars>>

\* The loop takes the subscription's error, leaving heads it has not taken.
SessionEnds(s) ==
  /\ ~socket[s]
  /\ Goto(s, "live", "ended")
  /\ UNCHANGED <<chainVars, stored, feed, socket, inbox, last, connected, backoff, syncVars>>

\* Mutation: Run goes on to the timer without setConnected(false).
Disconnected_StillConnected(s) ==
  /\ Goto(s, "ended", "wait")
  /\ UNCHANGED <<chainVars, stored, feed, socket, inbox, last, connected, backoff, syncVars>>

\* Run, after session has returned.
Disconnected(s) ==
  /\ Goto(s, "ended", "wait")
  /\ connected' = [connected EXCEPT ![s] = FALSE]
  /\ UNCHANGED <<chainVars, stored, feed, socket, inbox, last, backoff, syncVars>>

\* Mutation: the delay doubles without a limit.
Reconnect_NoCap(s) ==
  /\ Goto(s, "wait", "dial")
  /\ backoff' = [backoff EXCEPT ![s] = 2 * @]
  /\ UNCHANGED <<chainVars, stored, feed, socket, inbox, last, connected, syncVars>>

\* The timer fires; the delay doubles up to its maximum and is never reset.
Reconnect(s) ==
  /\ Goto(s, "wait", "dial")
  /\ backoff' = [backoff EXCEPT ![s] = IF 2 * @ > BackoffMax THEN BackoffMax ELSE 2 * @]
  /\ UNCHANGED <<chainVars, stored, feed, socket, inbox, last, connected, syncVars>>

\* The api process restarts: what the subscriber knew is gone, the row is not.
ApiRestarts(s) ==
  /\ sess'      = [sess EXCEPT ![s] = "dial"]
  /\ feed'      = [feed EXCEPT ![s] = OurChain]
  /\ socket'    = [socket EXCEPT ![s] = FALSE]
  /\ inbox'     = [inbox EXCEPT ![s] = <<>>]
  /\ last'      = [last EXCEPT ![s] = NoBlock]
  /\ connected' = [connected EXCEPT ![s] = FALSE]
  /\ backoff'   = [backoff EXCEPT ![s] = BackoffBase]
  /\ UNCHANGED <<chainVars, stored, syncVars>>

-----------------------------------------------------------------------------
(* The sync task                                                           *)

\* Mutation: the worker leaves recording to the api while its socket is up.
SyncRead_IfDisconnected(t) ==
  /\ sync[t] = "idle"
  /\ \A s \in Subs : ~connected[s]
  /\ sync' = [sync EXCEPT ![t] = "save"]
  /\ got'  = [got EXCEPT ![t] = tip]
  /\ UNCHANGED <<chainVars, stored, subVars>>

\* RecordLatest reads the head through the RPC client, whose endpoint was
\* checked to be on our chain when it was dialled and is taken to stay there ...
SyncRead(t) ==
  /\ sync[t] = "idle"
  /\ sync' = [sync EXCEPT ![t] = "save"]
  /\ got'  = [got EXCEPT ![t] = tip]
  /\ UNCHANGED <<chainVars, stored, subVars>>

SyncEnds(t) ==
  /\ sync[t] = "save"
  /\ sync' = [sync EXCEPT ![t] = "idle"]
  /\ got'  = [got EXCEPT ![t] = NoBlock]

\* ... and saves it, however late.
SyncSave(t) ==
  /\ SyncEnds(t)
  /\ SaveHead(got[t])
  /\ UNCHANGED <<chainVars, subVars>>

\* The write fails, or the worker dies; the next minute schedules a new task.
SyncFails(t) ==
  /\ SyncEnds(t)
  /\ UNCHANGED <<chainVars, stored, subVars>>

-----------------------------------------------------------------------------
Init ==
  /\ tip       = [chain |-> OurChain, num |-> 1, fork |-> 0]
  /\ stored    = NoBlock
  /\ sess      = [s \in Subs |-> "dial"]
  /\ feed      = [s \in Subs |-> OurChain]
  /\ socket    = [s \in Subs |-> FALSE]
  /\ inbox     = [s \in Subs |-> <<>>]
  /\ last      = [s \in Subs |-> NoBlock]
  /\ connected = [s \in Subs |-> FALSE]
  /\ backoff   = [s \in Subs |-> BackoffBase]
  /\ sync      = [t \in Syncs |-> "idle"]
  /\ got       = [t \in Syncs |-> NoBlock]

SubStep(s) ==
  \/ \E c \in Chains : Subscribe(s, c)
  \/ DialFails(s) \/ TakeHead(s) \/ RecordHead(s) \/ SessionEnds(s)
  \/ Disconnected(s) \/ Reconnect(s)

Next ==
  \/ Grow \/ Reorg
  \/ \E s \in Subs : SubStep(s) \/ SocketDrops(s) \/ ApiRestarts(s)
  \/ \E t \in Syncs : SyncRead(t) \/ SyncSave(t) \/ SyncFails(t)

Spec == Init /\ [][Next]_vars

\* A subscriber's goroutine keeps running and takes its subscription's error
\* when there is nothing else to take; cron keeps scheduling sync tasks, and a
\* database that is tried every minute is not down for ever. The chain and the
\* network owe nothing.
Fairness ==
  /\ \A s \in Subs : WF_vars(SubStep(s))
  /\ \A t \in Syncs : WF_vars(SyncRead(t)) /\ SF_vars(SyncSave(t))

FairSpec == Spec /\ Fairness

-----------------------------------------------------------------------------
(* Correctness                                                             *)

\* What each variable may hold; above all the delay before a reconnect stays
\* within reconnectMax however many sessions have ended.
TypeOK ==
  /\ tip       \in OurBlocks
  /\ stored    \in Blocks
  /\ sess      \in [Subs -> {"dial", "live", "record", "ended", "wait"}]
  /\ feed      \in [Subs -> Chains]
  /\ socket    \in [Subs -> BOOLEAN]
  /\ inbox     \in [Subs -> Seq(Blocks)]
  /\ last      \in [Subs -> Blocks]
  /\ connected \in [Subs -> BOOLEAN]
  /\ backoff   \in [Subs -> BackoffBase .. BackoffMax]
  /\ sync      \in [Syncs -> {"idle", "save"}]
  /\ got       \in [Syncs -> OurBlocks]

\* Progress only advances: late sync tasks, replicas, reconnects and
\* reorganisations never rewind the stored head nor swap its hash at the same
\* height (SaveHead: "a stale or replayed observation is ignored").
HeadNeverRewinds ==
  [][ stored' # stored => stored'.num > stored.num ]_vars

\* Only heads of our chain are ever stored: with a row that only advances, one
\* foreign head would block every later one.
OnlyOurHeads == stored.chain = OurChain

\* However it ended, a dropped subscription is reported as not connected
\* sooner or later; health would otherwise call a dead socket up.
DropIsNoticed ==
  \A s \in Subs : (connected[s] /\ ~socket[s]) ~> ~connected[s]

\* Once the chain stops moving the row catches up with it, even when no
\* subscription ever delivers a head (cmd/worker: "so a restart has a recent
\* anchor even when the WebSocket subscription was unavailable").
HeadCatchesUp == <>[](stored.num >= tip.num)

\* What a subscriber holds comes from the endpoint it checked.
SessionInv ==
  \A s \in Subs : /\ feed[s] = OurChain
                  /\ inbox[s] \in Seq(OurBlocks)
                  /\ last[s] \in OurBlocks
=============================================================================
