----------------------------- MODULE MCProcess ------------------------------
(***************************************************************************)
(* Environments of Process for TLC.                                        *)
(***************************************************************************)
EXTENDS Process

CONSTANTS boot, h1

Unset  == [form |-> "unset", n |-> 0]
Num(n) == [form |-> "num", n |-> n]
Junk   == [form |-> "junk", n |-> 0]

Plain ==
  [num |-> [k \in DOMAIN Default |-> Unset], url |-> TRUE, token |-> TRUE, ids |-> "listed",
   ws |-> TRUE]

With(k, v) == [Plain EXCEPT !.num = [@ EXCEPT ![k] = v]]

\* A full environment and one without token and socket, and ones that are
\* refused, the last because its connection limit is cut to a negative one.
MCEnvs ==
  {Plain,
   [Plain EXCEPT !.token = FALSE, !.ids = "none", !.ws = FALSE],
   [Plain EXCEPT !.ids = "none"],
   With("rateLimit", Junk), With("chainId", Num(0)), With("maxConns", Num(Pow2[IntWidth - 1]))}

\* A negative connection limit far out of range.
ClaimEnvs == {With("maxConns", Num(3 - Pow2[IntWidth]))}
=============================================================================
