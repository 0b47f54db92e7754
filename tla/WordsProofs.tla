---------------------------- MODULE WordsProofs -----------------------------
(***************************************************************************)
(* What Signed computes for every width: Signed stays within the word, and *)
(* a number that fits the word is kept. Both rest on Pow2 being what its   *)
(* recursive definition says, which TLA+ does not give for free: the       *)
(* function exists because the finite pieces of it do, and those by        *)
(* induction over the natural numbers.                                     *)
(***************************************************************************)
EXTENDS Words, WellFoundedInduction, TLAPS

\* Every set of natural numbers that is not empty has a least one.
LEMMA LeastNatural ==
  ASSUME NEW T, T \subseteq Nat, T # {}
  PROVE  \E x \in T : \A y \in T : x <= y
<1>1. PICK x \in T : \A y \in T : ~ (<<y, x>> \in OpToRel(<, Nat))
  BY WFMin, NatLessThanWellFounded, Zenon
<1>2. \A y \in Nat : <<y, x>> \in OpToRel(<, Nat) <=> y < x
  BY Zenon DEF OpToRel
<1>3. \A y \in T : ~ (y < x)
  BY <1>1, <1>2
<1>. QED  BY <1>3

\* Induction, for a set instead of a predicate.
LEMMA Induction ==
  ASSUME NEW S, 0 \in S, \A n \in Nat : n \in S => n + 1 \in S
  PROVE  Nat \subseteq S
<1> SUFFICES ASSUME Nat \ S # {} PROVE FALSE
  OBVIOUS
<1>1. PICK x \in Nat \ S : \A y \in Nat \ S : x <= y
  BY LeastNatural
<1>2. x # 0 /\ x - 1 \in Nat
  BY <1>1
<1>3. x - 1 \in S
  BY <1>1, <1>2
<1>. QED  BY <1>1, <1>2, <1>3

\* f is Pow2 as far as n.
Part(n, f) == f \in [0 .. n -> Int] /\ \A i \in 0 .. n : f[i] = IF i = 0 THEN 1 ELSE 2 * f[i - 1]

\* Two such pieces agree where both are defined ...
LEMMA PartUnique ==
  ASSUME NEW m \in Nat, NEW n \in Nat, NEW f, NEW g, Part(m, f), Part(n, g)
  PROVE  \A i \in Nat : i <= m /\ i <= n => f[i] = g[i]
<1> DEFINE S == {i \in Nat : i <= m /\ i <= n => f[i] = g[i]}
<1>1. 0 \in S
  BY DEF Part
<1>2. ASSUME NEW i \in Nat, i \in S PROVE i + 1 \in S
  <2>1. SUFFICES ASSUME i + 1 <= m, i + 1 <= n PROVE f[i + 1] = g[i + 1]
    OBVIOUS
  <2>2. f[i] = g[i]
    BY <1>2, <2>1
  <2>3. f[i + 1] = 2 * f[i] /\ g[i + 1] = 2 * g[i]
    BY <2>1 DEF Part
  <2>. QED  BY <2>2, <2>3
<1>3. Nat \subseteq S
  <2> HIDE DEF S
  <2>. QED  BY <1>1, <1>2, Induction
<1>. QED  BY <1>3

\* ... there is one for every n ...
LEMMA PartExists == \A n \in Nat : \E f : Part(n, f)
<1> DEFINE S == {n \in Nat : \E f : Part(n, f)}
<1>1. 0 \in S
  <2>1. Part(0, [i \in 0 .. 0 |-> 1])
    BY DEF Part
  <2>. QED  BY <2>1
<1>2. ASSUME NEW n \in Nat, n \in S PROVE n + 1 \in S
  <2>1. PICK f : Part(n, f)
    BY <1>2
  <2> DEFINE g == [i \in 0 .. n + 1 |-> IF i = n + 1 THEN 2 * f[n] ELSE f[i]]
  <2>2. g \in [0 .. n + 1 -> Int]
    BY <2>1 DEF Part
  <2>3. ASSUME NEW i \in 0 .. n + 1 PROVE g[i] = IF i = 0 THEN 1 ELSE 2 * g[i - 1]
    BY <2>1 DEF Part
  <2>4. Part(n + 1, g)
    BY <2>2, <2>3 DEF Part
  <2>. QED  BY <2>4
<1>3. Nat \subseteq S
  <2> HIDE DEF S
  <2>. QED  BY <1>1, <1>2, Induction
<1>. QED  BY <1>3

\* ... and together they are a function that satisfies the definition of Pow2.
LEMMA Pow2Def == Pow2 = [n \in Nat |-> IF n = 0 THEN 1 ELSE 2 * Pow2[n - 1]]
<1> DEFINE F == [n \in Nat |-> (CHOOSE u : Part(n, u))[n]]
<1>1. \A n \in Nat : Part(n, CHOOSE u : Part(n, u))
  BY PartExists
<1>2. ASSUME NEW n \in Nat PROVE F[n] = IF n = 0 THEN 1 ELSE 2 * F[n - 1]
  <2>1. CASE n = 0
    <3> DEFINE f == CHOOSE u : Part(n, u)
    <3>1. Part(n, f) /\ F[n] = f[n]
      BY <1>1
    <3> HIDE DEF f, F
    <3>. QED  BY <2>1, <3>1 DEF Part
  <2>2. CASE n # 0
    <3> DEFINE f == CHOOSE u : Part(n, u)
               g == CHOOSE u : Part(n - 1, u)
    <3>1. n - 1 \in Nat
      BY <2>2
    <3>2. Part(n, f) /\ Part(n - 1, g)
      BY <1>1, <3>1
    <3>3. F[n] = f[n] /\ F[n - 1] = g[n - 1]
      BY <3>1
    <3> HIDE DEF f, g
    <3>4. f[n - 1] = g[n - 1]
      BY <3>1, <3>2, PartUnique
    <3>5. f[n] = 2 * f[n - 1]
      BY <2>2, <3>2 DEF Part
    <3>. QED  BY <2>2, <3>3, <3>4, <3>5
  <2>. QED  BY <2>1, <2>2
<1>3. F = [n \in Nat |-> IF n = 0 THEN 1 ELSE 2 * F[n - 1]]
  <2>1. F = [n \in Nat |-> F[n]]
    OBVIOUS
  <2> HIDE DEF F
  <2>. QED  BY <1>2, <2>1
<1> HIDE DEF F
<1>4. \E f : f = [n \in Nat |-> IF n = 0 THEN 1 ELSE 2 * f[n - 1]]
  BY <1>3
<1>. QED  BY <1>4 DEF Pow2

\* The powers of two the shifts and conversions use are positive and double.
LEMMA Pow2Facts ==
  /\ Pow2[0] = 1
  /\ \A n \in Nat : Pow2[n + 1] = 2 * Pow2[n]
  /\ \A n \in Nat : Pow2[n] \in Nat \ {0}
<1>1. Pow2[0] = 1
  BY Pow2Def
<1>2. ASSUME NEW n \in Nat PROVE Pow2[n + 1] = 2 * Pow2[n]
  <2>1. Pow2[n + 1] = IF n + 1 = 0 THEN 1 ELSE 2 * Pow2[n + 1 - 1]
    BY Pow2Def
  <2>2. n + 1 - 1 = n /\ n + 1 # 0
    OBVIOUS
  <2>. QED  BY <2>1, <2>2
<1>3. \A n \in Nat : Pow2[n] \in Nat \ {0}
  <2> DEFINE S == {n \in Nat : Pow2[n] \in Nat \ {0}}
  <2>1. 0 \in S
    BY <1>1
  <2>2. \A n \in Nat : n \in S => n + 1 \in S
    BY <1>2
  <2>3. Nat \subseteq S
    <3> HIDE DEF S
    <3>. QED  BY <2>1, <2>2, Induction
  <2>. QED  BY <2>3
<1>. QED  BY <1>1, <1>2, <1>3

\* What a shift or a conversion yields fits the word.
LEMMA SignedRange ==
  ASSUME NEW n \in Int, NEW w \in Nat \ {0}
  PROVE  Signed(n, w) \in Word(w)
<1> DEFINE h == Pow2[w - 1]
<1>1. h \in Nat \ {0} /\ Pow2[w] = 2 * h
  <2>1. w - 1 \in Nat /\ w - 1 + 1 = w
    OBVIOUS
  <2>. QED  BY <2>1, Pow2Facts
<1> HIDE DEF h
<1>2. (n + h) % (2 * h) \in 0 .. 2 * h - 1
  BY <1>1
<1>. QED  BY <1>1, <1>2 DEF Signed, Word, h

\* A number that fits is not changed.
LEMMA SignedFits ==
  ASSUME NEW w \in Nat \ {0}, NEW n \in Word(w)
  PROVE  Signed(n, w) = n
<1> DEFINE h == Pow2[w - 1]
<1>1. h \in Nat \ {0} /\ Pow2[w] = 2 * h
  <2>1. w - 1 \in Nat /\ w - 1 + 1 = w
    OBVIOUS
  <2>. QED  BY <2>1, Pow2Facts
<1>3. n + h \in 0 .. 2 * h - 1
  BY <1>1 DEF Word
<1> HIDE DEF h
<1>2. (n + h) % (2 * h) = n + h
  BY <1>1, <1>3
<1>. QED  BY <1>1, <1>2, <1>3 DEF Signed, Word, h
=============================================================================
