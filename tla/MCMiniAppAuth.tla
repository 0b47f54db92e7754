--------------------------- MODULE MCMiniAppAuth ----------------------------
(***************************************************************************)
(* Payloads of MiniAppAuth for TLC.                                        *)
(***************************************************************************)
EXTENDS MiniAppAuth

CONSTANTS q1, q2

Payload(id, form, date, ahead, hash) ==
  [id |-> id, form |-> form, date |-> date, ahead |-> ahead, hash |-> hash]

\* A payload with two texts of its hash; one that is signed so far ahead that
\* it may be refused as future; a bot's, and some that are refused, one of them
\* under the text of a genuine one.
MCPayloads ==
  {Payload(1, "ok", 3, 1, "a"), Payload(1, "ok", 3, 1, "A"), Payload(2, "ok", 6, 6, "b"),
   Payload(3, "bot", 1, 0, "c"), Payload(4, "no_user", 1, 0, "d"), Payload(5, "forged", 3, 0, "a"),
   Payload(6, "missing", 0, 0, "none")}
=============================================================================
