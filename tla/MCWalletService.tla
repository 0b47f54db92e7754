-------------------------- MODULE MCWalletService --------------------------
(***************************************************************************)
(* Values of WalletService's constants for TLC.                            *)
(***************************************************************************)
EXTENDS WalletService, TLC

CONSTANTS u1, u2, w1, w2, k1, k2

MCTwoUsers == {u1, u2}

MCOneWallet  == {w1}
MCTwoWallets == {w1, w2}
MCOwner1     == [w \in {w1} |-> u1]
MCOwner2     == [w \in {w1, w2} |-> u1]

\* Executions are interchangeable: no constant, guard or property names one.
MCWorkerSymmetry == Permutations(Workers)

MCLimit(n, t) == [limit |-> n, trading |-> t]

MCReq(i, op, u, w, rl, p) ==
  [id |-> i, op |-> op, user |-> u, wallet |-> w, role |-> rl, policy |-> p]

\* Two bot wallets of one account race for its bot slot.
MCLinkReqs ==
  { MCReq(1, "link", u1, w1, "bot", NoPolicy),
    MCReq(2, "link", u1, w2, "bot", NoPolicy) }

MCOneLinkReqs == { r \in MCLinkReqs : r.wallet = w1 }

\* One wallet: linked twice, disabled by its owner (twice) and by a stranger.
MCDisableReqs ==
  { MCReq(1, "link", u1, w1, "bot", NoPolicy),
    MCReq(2, "link", u1, w1, "owner", NoPolicy),
    MCReq(3, "disable", u1, w1, "bot", NoPolicy),
    MCReq(4, "disable", u1, w1, "bot", NoPolicy),
    MCReq(5, "disable", u2, w1, "bot", NoPolicy) }

\* The same with an update of its limits and one that is refused.
MCBusyReqs ==
  MCDisableReqs \cup
  { MCReq(6, "policy", u1, w1, "bot", MCLimit(12, TRUE)),
    MCReq(7, "policy", u1, w1, "bot", MCLimit(20, TRUE)) }

\* The audit trail, and the old limits kept for it, are written and never read
\* back by a step, so states that differ in nothing else go on alike. The events
\* DisabledStaysOff speaks of are kept.
MCView ==
  <<db, pc, queueVars, workerVars,
    {w \in Wallets : Event("wallet:disabled", "ok", w) \in audit}>>

\* Two overlapping updates by the owner.
MCOverlapReqs ==
  { MCReq(1, "link", u1, w1, "bot", NoPolicy),
    MCReq(2, "policy", u1, w1, "bot", MCLimit(12, TRUE)),
    MCReq(3, "policy", u1, w1, "bot", MCLimit(5, FALSE)) }
=============================================================================
