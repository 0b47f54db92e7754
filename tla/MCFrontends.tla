---------------------------- MODULE MCFrontends -----------------------------
(***************************************************************************)
(* Values of Frontends' constants for TLC.                                 *)
(***************************************************************************)
EXTENDS Frontends

CONSTANTS u1, u2, w1, w2

MCOwner == [w \in {w1, w2} |-> u1]

MCLimit(n, t) == [limit |-> n, trading |-> t]

MCReq(i, op, u, w, rl, p) ==
  [id |-> i, op |-> op, user |-> u, wallet |-> w, role |-> rl, policy |-> p]

\* One address linked over both transports, the zero address over the bot's,
\* and limits that are valid and stored (12 as 10), valid and rounded onto the
\* boundary LimitTop = 20, invalid or in a body that does not decode, or a
\* stranger's, valid and invalid.
MCReqs ==
  { MCReq(1, "link", u1, w1, "owner", NoPolicy),
    MCReq(2, "link", u1, w1, "bot", NoPolicy),
    MCReq(3, "link", u1, w2, "owner", NoPolicy),
    MCReq(4, "policy", u1, w1, "bot", MCLimit(12, TRUE)),
    MCReq(5, "policy", u1, w1, "bot", MCLimit(19, TRUE)),
    MCReq(6, "policy", u1, w1, "bot", MCLimit(20, FALSE)),
    MCReq(7, "policy", u2, w1, "bot", MCLimit(14, TRUE)),
    MCReq(8, "policy", u2, w1, "bot", MCLimit(20, TRUE)) }

MCVia == [r \in MCReqs |-> IF r.id \in {1, 3} THEN "bot" ELSE "miniapp"]

MCUnreadable == {r \in MCReqs : r.id = 6}

\* The audit trail, and the old limits kept for it, are written and never read
\* back by a step, and no property of this run speaks of them.
MCView == <<db, pc, queueVars, workerVars, answer, wrote>>
=============================================================================
