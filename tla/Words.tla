------------------------------- MODULE Words --------------------------------
(***************************************************************************)
(* Signed machine integers: what Go keeps of a number that is shifted or   *)
(* converted into a word of so many bits (chain/retry.go,                  *)
(* config/config.go). Powers of two are a function of their own, so that   *)
(* WordsProofs can reason about them by induction.                         *)
(***************************************************************************)
EXTENDS Integers

Pow2[n \in Nat] == IF n = 0 THEN 1 ELSE 2 * Pow2[n - 1]

\* The number the lowest w bits of n stand for in two's complement.
Signed(n, w) == ((n + Pow2[w - 1]) % Pow2[w]) - Pow2[w - 1]

\* The numbers a signed word of w bits holds.
Word(w) == -Pow2[w - 1] .. Pow2[w - 1] - 1
=============================================================================
