------------------------- MODULE HeadTrackingProofs -------------------------
(***************************************************************************)
(* Theorems about HeadTracking for any number of api processes and sync    *)
(* tasks, any height, any number of reorganisations and any buffer.        *)
(***************************************************************************)
EXTENDS HeadTracking, TLAPS

\* What is proved inductive. OnlyOurHeads alone is not: a foreign head could
\* wait in a subscriber. That none does rests on the chain id check of the
\* session (SessionInv); that a sync task holds none is part of TypeOK.
IInv == TypeOK /\ SessionInv /\ OnlyOurHeads

-----------------------------------------------------------------------------
\* The zero BlockRef and the initial head are blocks of our chain.
LEMMA BlockFacts ==
  /\ NoBlock \in OurBlocks
  /\ OurBlocks \subseteq Blocks
  /\ \A b \in Blocks : b.chain = OurChain => b \in OurBlocks
BY HeadAssumption DEF NoBlock, OurBlocks, Blocks

\* The upsert stores a block of our chain when given one, and replaces a
\* stored head only by a higher one.
LEMMA SaveHeadFacts ==
  ASSUME TypeOK, OnlyOurHeads, NEW b \in OurBlocks, SaveHead(b)
  PROVE  /\ stored' \in OurBlocks
         /\ stored' # stored => stored'.num > stored.num
BY BlockFacts DEF TypeOK, OnlyOurHeads, SaveHead

-----------------------------------------------------------------------------
\* The system starts well typed, with no head of any chain.
LEMMA InitIInv == Init => IInv
<1> SUFFICES ASSUME Init PROVE IInv
  OBVIOUS
<1> USE HeadAssumption, BlockFacts DEF Init
<1>1. tip \in OurBlocks
  BY DEF OurBlocks
<1>2. TypeOK
  <2>1. inbox \in [Subs -> Seq(Blocks)] /\ backoff \in [Subs -> BackoffBase .. BackoffMax]
    OBVIOUS
  <2>2. last \in [Subs -> Blocks] /\ got \in [Syncs -> OurBlocks] /\ stored \in Blocks
    OBVIOUS
  <2>3. socket \in [Subs -> BOOLEAN] /\ connected \in [Subs -> BOOLEAN]
    OBVIOUS
  <2>4. feed \in [Subs -> Chains]
    OBVIOUS
  <2>5. sess \in [Subs -> {"dial", "live", "record", "ended", "wait"}] /\ sync \in [Syncs -> {"idle", "save"}]
    OBVIOUS
  <2>. QED  BY <1>1, <2>1, <2>2, <2>3, <2>4, <2>5 DEF TypeOK
<1>3. SessionInv
  <2> SUFFICES ASSUME NEW s \in Subs
               PROVE  feed[s] = OurChain /\ inbox[s] \in Seq(OurBlocks) /\ last[s] \in OurBlocks
    BY DEF SessionInv
  <2>1. inbox[s] = << >>
    OBVIOUS
  <2>. QED  BY <2>1
<1>4. OnlyOurHeads
  BY DEF OnlyOurHeads, NoBlock
<1>. QED  BY <1>2, <1>3, <1>4 DEF IInv

\* A new head of our chain leaves the invariant intact, since every live
\* session is with an endpoint of our chain.
LEMMA AnnounceIInv ==
  ASSUME IInv, NEW t \in OurBlocks, Announce(t)
  PROVE  IInv'
<1> USE BlockFacts DEF IInv
<1>1. \A s \in Subs : HeadOf(feed[s], t) = t
  BY DEF SessionInv, HeadOf
<1>2. inbox' \in [Subs -> Seq(Blocks)] /\ \A s \in Subs : inbox'[s] \in Seq(OurBlocks)
  BY <1>1 DEF Announce, TypeOK, SessionInv
<1>3. socket' \in [Subs -> BOOLEAN]
  BY Zenon DEF Announce, TypeOK, Listening
<1>4. TypeOK'
  BY <1>2, <1>3 DEF Announce, TypeOK, syncVars
<1>5. SessionInv'
  BY <1>2 DEF Announce, SessionInv
<1>6. OnlyOurHeads'
  BY DEF Announce, OnlyOurHeads
<1>. QED  BY <1>4, <1>5, <1>6

\* Every step of a subscriber, its network and its process keeps it.
LEMMA SubIInv ==
  ASSUME IInv, NEW s \in Subs, SubStep(s) \/ SocketDrops(s) \/ ApiRestarts(s)
  PROVE  IInv'
<1> USE HeadAssumption, BlockFacts DEF IInv, TypeOK, SessionInv, OnlyOurHeads, Goto, chainVars, syncVars
<1>1. ASSUME NEW c \in Chains, Subscribe(s, c) PROVE IInv'
  BY <1>1 DEF Subscribe
<1>2. CASE DialFails(s)
  BY <1>2 DEF DialFails
<1>3. CASE TakeHead(s)
  <2>1. Head(inbox[s]) \in OurBlocks /\ Tail(inbox[s]) \in Seq(OurBlocks) /\ Tail(inbox[s]) \in Seq(Blocks)
    BY <1>3 DEF TakeHead
  <2>. QED  BY <1>3, <2>1 DEF TakeHead
<1>4. CASE RecordHead(s)
  <2>1. stored' \in OurBlocks
    BY <1>4, SaveHeadFacts DEF RecordHead
  <2>2. stored'.chain = OurChain
    BY <2>1 DEF OurBlocks
  <2>. QED  BY <1>4, <2>1, <2>2 DEF RecordHead
<1>5. CASE SessionEnds(s)
  BY <1>5 DEF SessionEnds
<1>6. CASE Disconnected(s)
  BY <1>6 DEF Disconnected
<1>7. CASE Reconnect(s)
  <2>1. (IF 2 * backoff[s] > BackoffMax THEN BackoffMax ELSE 2 * backoff[s]) \in BackoffBase .. BackoffMax
    OBVIOUS
  <2>. QED  BY <1>7, <2>1 DEF Reconnect
<1>8. CASE SocketDrops(s)
  BY <1>8 DEF SocketDrops
<1>9. CASE ApiRestarts(s)
  BY <1>9 DEF ApiRestarts
<1>. QED  BY <1>1, <1>2, <1>3, <1>4, <1>5, <1>6, <1>7, <1>8, <1>9 DEF SubStep

\* Every step of a sync task keeps it.
LEMMA SyncIInv ==
  ASSUME IInv, NEW t \in Syncs, SyncRead(t) \/ SyncSave(t) \/ SyncFails(t)
  PROVE  IInv'
<1> USE BlockFacts DEF IInv, TypeOK, SessionInv, OnlyOurHeads, chainVars, subVars
<1>1. CASE SyncRead(t)
  BY <1>1 DEF SyncRead
<1>2. CASE SyncSave(t)
  <2>1. stored' \in OurBlocks
    BY <1>2, SaveHeadFacts DEF SyncSave
  <2>2. stored'.chain = OurChain
    BY <2>1 DEF OurBlocks
  <2>. QED  BY <1>2, <2>1, <2>2 DEF SyncSave, SyncEnds
<1>3. CASE SyncFails(t)
  BY <1>3 DEF SyncFails, SyncEnds
<1>. QED  BY <1>1, <1>2, <1>3

\* Every step keeps the inductive invariant.
LEMMA NextIInv == IInv /\ [Next]_vars => IInv'
<1> SUFFICES ASSUME IInv, [Next]_vars PROVE IInv'
  OBVIOUS
<1>0. tip \in OurBlocks
  BY DEF IInv, TypeOK
<1>1. CASE Grow
  <2>1. [tip EXCEPT !.num = @ + 1] \in OurBlocks
    BY <1>0 DEF OurBlocks
  <2>. QED  BY <1>1, <2>1, AnnounceIInv DEF Grow
<1>2. CASE Reorg
  <2>1. PICK n \in 1 .. MaxHeight : Announce([chain |-> OurChain, num |-> n, fork |-> tip.fork + 1])
    BY <1>2 DEF Reorg
  <2>2. [chain |-> OurChain, num |-> n, fork |-> tip.fork + 1] \in OurBlocks
    BY <1>0, HeadAssumption DEF OurBlocks
  <2>. QED  BY <2>1, <2>2, AnnounceIInv
<1>3. ASSUME NEW s \in Subs, SubStep(s) \/ SocketDrops(s) \/ ApiRestarts(s) PROVE IInv'
  BY <1>3, SubIInv
<1>4. ASSUME NEW t \in Syncs, SyncRead(t) \/ SyncSave(t) \/ SyncFails(t) PROVE IInv'
  BY <1>4, SyncIInv
<1>5. CASE UNCHANGED vars
  BY <1>5 DEF vars, IInv, TypeOK, SessionInv, OnlyOurHeads
<1>. QED  BY <1>1, <1>2, <1>3, <1>4, <1>5 DEF Next

\* The inductive invariant holds in every reachable state.
THEOREM HeadInductive == Spec => []IInv
BY InitIInv, NextIInv, PTL DEF Spec

\* Every variable keeps its type; in particular the reconnect delay never
\* exceeds reconnectMax, however many sessions end.
THEOREM HeadTypeCorrect == Spec => []TypeOK
<1>1. IInv => TypeOK
  BY DEF IInv
<1>. QED  BY <1>1, HeadInductive, PTL

\* No head of another chain is ever stored under our chain id.
THEOREM ForeignHeadsStayOut == Spec => []OnlyOurHeads
<1>1. IInv => OnlyOurHeads
  BY DEF IInv
<1>. QED  BY <1>1, HeadInductive, PTL

\* The stored head is only ever replaced by a higher one, by whatever writer.
THEOREM HeadAdvances == Spec => HeadNeverRewinds
<1>1. IInv /\ [Next]_vars => [stored' # stored => stored'.num > stored.num]_vars
  <2> SUFFICES ASSUME IInv, Next, stored' # stored
               PROVE  stored'.num > stored.num
    BY DEF vars
  <2> USE DEF IInv
  <2>1. ASSUME NEW s \in Subs, SubStep(s) \/ SocketDrops(s) \/ ApiRestarts(s)
        PROVE  stored'.num > stored.num
    <3>1. RecordHead(s)
      BY <2>1 DEF SubStep, Subscribe, DialFails, TakeHead, SessionEnds, Disconnected, Reconnect,
                  SocketDrops, ApiRestarts
    <3>2. last[s] \in OurBlocks
      BY DEF SessionInv
    <3>. QED  BY <3>1, <3>2, SaveHeadFacts DEF RecordHead
  <2>2. ASSUME NEW t \in Syncs, SyncRead(t) \/ SyncSave(t) \/ SyncFails(t)
        PROVE  stored'.num > stored.num
    <3>1. SyncSave(t)
      BY <2>2 DEF SyncRead, SyncFails
    <3>2. got[t] \in OurBlocks
      BY DEF TypeOK
    <3>. QED  BY <3>1, <3>2, SaveHeadFacts DEF SyncSave
  <2>3. CASE Grow \/ Reorg
    BY <2>3 DEF Grow, Reorg, Announce
  <2>. QED  BY <2>1, <2>2, <2>3 DEF Next
<1>. QED  BY <1>1, HeadInductive, PTL DEF Spec, HeadNeverRewinds
=============================================================================
