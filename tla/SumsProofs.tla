----------------------------- MODULE SumsProofs -----------------------------
(***************************************************************************)
(* What SumUpTo computes, for every length and all numbers.  The induction *)
(* is over sets of natural numbers, from the least-element principle.      *)
(***************************************************************************)
EXTENDS Sums, WellFoundedInduction, TLAPS

----------------------------------------------------------------------------
(* Induction.                                                              *)

\* A nonempty set of natural numbers has a least element.
LEMMA Least ==
    ASSUME NEW T \in SUBSET Nat, T # {}
    PROVE  \E m \in T : \A n \in T : m <= n
<1>1. PICK R : R = OpToRel(<, Nat)
  OBVIOUS
<1>2. IsWellFoundedOn(R, Nat)
  BY <1>1, NatLessThanWellFounded
<1>3. PICK m \in T : \A n \in T : ~ (<<n, m>> \in R)
  BY <1>2, WFMin
<1>4. \A x, y \in Nat : <<y, x>> \in R <=> y < x
  BY <1>1 DEF OpToRel
<1>5. ASSUME NEW n \in T PROVE m <= n
  <2>1. m \in Nat /\ n \in Nat
    OBVIOUS
  <2>2. ~(n < m)
    BY <1>3, <1>4, <2>1
  <2> QED BY <2>1, <2>2
<1> QED BY <1>5

\* A set with 0 that has the successors of its members has every number.
LEMMA Induction ==
    ASSUME NEW S, 0 \in S, \A n \in Nat : n \in S => n + 1 \in S
    PROVE  Nat \subseteq S
<1> SUFFICES ASSUME Nat \ S # {} PROVE FALSE
  OBVIOUS
<1>1. PICK m \in Nat \ S : \A n \in Nat \ S : m <= n
  BY Least
<1>2. m # 0 /\ m - 1 \in Nat
  BY <1>1
<1>3. m - 1 \in S
  BY <1>1, <1>2
<1> QED BY <1>1, <1>2, <1>3

----------------------------------------------------------------------------
(* What SumUpTo computes.                                                  *)

Numbers(f, n) == \A i \in 1..n : f[i] \in Int

\* g is the function of the partial sums of f.
Partial(f, n, g) == g = [i \in 0..n |-> IF i = 0 THEN 0 ELSE g[i - 1] + f[i]]

\* Partial sums exist.
LEMMA PartialExists ==
    ASSUME NEW n \in Nat, NEW f, Numbers(f, n)
    PROVE  \E g \in [0..n -> Int] : Partial(f, n, g)
<1> DEFINE S == {m \in Nat : m <= n => \E g \in [0..m -> Int] : Partial(f, m, g)}
<1>1. 0 \in S
  <2>1. Partial(f, 0, [i \in 0..0 |-> 0])
    BY DEF Partial
  <2>2. [i \in 0..0 |-> 0] \in [0..0 -> Int]
    OBVIOUS
  <2> QED BY <2>1, <2>2
<1>2. ASSUME NEW m \in Nat, m \in S PROVE m + 1 \in S
  <2> SUFFICES ASSUME m + 1 <= n
               PROVE  \E g \in [0..(m + 1) -> Int] : Partial(f, m + 1, g)
    OBVIOUS
  <2>1. PICK g \in [0..m -> Int] : Partial(f, m, g)
    BY <1>2
  <2>2. f[m + 1] \in Int
    BY DEF Numbers
  <2> DEFINE h == [i \in 0..(m + 1) |-> IF i = m + 1 THEN g[m] + f[m + 1] ELSE g[i]]
  <2>3. h \in [0..(m + 1) -> Int]
    BY <2>1, <2>2
  <2>4. ASSUME NEW i \in 0..(m + 1)
        PROVE  h[i] = IF i = 0 THEN 0 ELSE h[i - 1] + f[i]
    BY <2>1 DEF Partial
  <2>5. Partial(f, m + 1, h)
    BY <2>4 DEF Partial
  <2> QED BY <2>3, <2>5
<1> HIDE DEF S
<1>3. n \in S
  BY <1>1, <1>2, Induction
<1> QED BY <1>3 DEF S

\* They are unique.
LEMMA PartialUnique ==
    ASSUME NEW n \in Nat, NEW f, NEW g, NEW h, Partial(f, n, g), Partial(f, n, h)
    PROVE  g = h
<1> DEFINE S == {m \in Nat : m <= n => g[m] = h[m]}
<1>1. 0 \in S
  BY DEF Partial
<1>2. ASSUME NEW m \in Nat, m \in S PROVE m + 1 \in S
  <2> SUFFICES ASSUME m + 1 <= n PROVE g[m + 1] = h[m + 1]
    OBVIOUS
  <2>1. m + 1 \in 0..n /\ m + 1 # 0 /\ (m + 1) - 1 = m
    OBVIOUS
  <2>2. g[m + 1] = g[m] + f[m + 1] /\ h[m + 1] = h[m] + f[m + 1]
    BY <2>1 DEF Partial
  <2> QED BY <1>2, <2>2
<1> HIDE DEF S
<1>3. Nat \subseteq S
  BY <1>1, <1>2, Induction
<1>4. \A i \in 0..n : g[i] = h[i]
  BY <1>3 DEF S
<1> QED BY <1>4 DEF Partial

LEMMA SumIs ==
    ASSUME NEW n \in Nat, NEW f, Numbers(f, n), NEW g, Partial(f, n, g)
    PROVE  SumUpTo(f, n) = g[n]
<1>1. \E h : h = [i \in 0..n |-> IF i = 0 THEN 0 ELSE h[i - 1] + f[i]]
  BY DEF Partial
<1>2. PICK u : u = CHOOSE h : h = [i \in 0..n |-> IF i = 0 THEN 0 ELSE h[i - 1] + f[i]]
  OBVIOUS
<1>3. Partial(f, n, u)
  BY <1>1, <1>2 DEF Partial
<1>4. SumUpTo(f, n) = u[n]
  BY <1>2 DEF SumUpTo
<1> QED BY <1>3, <1>4, PartialUnique

\* One more number.
LEMMA SumStep ==
    ASSUME NEW n \in Nat, NEW f, Numbers(f, n + 1)
    PROVE  /\ SumUpTo(f, 0) = 0
           /\ SumUpTo(f, n) \in Int
           /\ SumUpTo(f, n + 1) = SumUpTo(f, n) + f[n + 1]
<1>1. Numbers(f, n) /\ Numbers(f, 0) /\ f[n + 1] \in Int
  BY DEF Numbers
<1>2. SumUpTo(f, 0) = 0
  <2>1. PICK g : Partial(f, 0, g)
    BY <1>1, PartialExists
  <2>2. g[0] = 0
    BY <2>1 DEF Partial
  <2> QED BY <1>1, <2>1, <2>2, SumIs
<1>3. PICK g \in [0..n -> Int] : Partial(f, n, g)
  BY <1>1, PartialExists
<1>4. SumUpTo(f, n) = g[n] /\ g[n] \in Int
  BY <1>1, <1>3, SumIs
<1> DEFINE h == [i \in 0..(n + 1) |-> IF i = n + 1 THEN g[n] + f[n + 1] ELSE g[i]]
<1>5. \A i \in 0..(n + 1) : h[i] = IF i = 0 THEN 0 ELSE h[i - 1] + f[i]
  BY <1>3 DEF Partial
<1>6. Partial(f, n + 1, h)
  BY <1>5 DEF Partial
<1>7. SumUpTo(f, n + 1) = h[n + 1]
  BY <1>6, SumIs
<1> QED BY <1>2, <1>4, <1>7

LEMMA SumEmpty ==
    ASSUME NEW f PROVE SumUpTo(f, 0) = 0
<1>1. Numbers(f, 0)
  BY DEF Numbers
<1>2. PICK g : Partial(f, 0, g)
  BY <1>1, PartialExists
<1>3. g[0] = 0
  BY <1>2 DEF Partial
<1> QED BY <1>1, <1>2, <1>3, SumIs

LEMMA SumInt ==
    ASSUME NEW n \in Nat, NEW f, Numbers(f, n)
    PROVE  SumUpTo(f, n) \in Int
<1>1. PICK g \in [0..n -> Int] : Partial(f, n, g)
  BY PartialExists
<1>2. SumUpTo(f, n) = g[n]
  BY <1>1, SumIs
<1> QED BY <1>1, <1>2

\* Equal numbers have equal sums.
LEMMA SumSame ==
    ASSUME NEW n \in Nat, NEW f, NEW g, Numbers(f, n), \A i \in 1..n : f[i] = g[i]
    PROVE  SumUpTo(f, n) = SumUpTo(g, n)
<1>1. Numbers(g, n)
  BY DEF Numbers
<1>2. PICK h : Partial(f, n, h)
  BY PartialExists
<1>3. Partial(g, n, h)
  <2>1. \A i \in 0..n : (IF i = 0 THEN 0 ELSE h[i - 1] + f[i]) = (IF i = 0 THEN 0 ELSE h[i - 1] + g[i])
    OBVIOUS
  <2> QED BY <1>2, <2>1 DEF Partial
<1> QED BY <1>1, <1>2, <1>3, SumIs

\* A change of one number changes the sum by as much.
LEMMA SumChange ==
    ASSUME NEW n \in Nat, NEW f, NEW g, Numbers(f, n), Numbers(g, n), NEW k \in 1..n,
           \A i \in 1..n : i # k => f[i] = g[i]
    PROVE  SumUpTo(g, n) = SumUpTo(f, n) + g[k] - f[k]
<1> DEFINE S == {m \in Nat : m <= n => SumUpTo(g, m) = SumUpTo(f, m) + IF k <= m THEN g[k] - f[k] ELSE 0}
<1>1. 0 \in S
  BY SumEmpty
<1>2. ASSUME NEW m \in Nat, m \in S PROVE m + 1 \in S
  <2> SUFFICES ASSUME m + 1 <= n
               PROVE  SumUpTo(g, m + 1) = SumUpTo(f, m + 1) + IF k <= m + 1 THEN g[k] - f[k] ELSE 0
    OBVIOUS
  <2>1. Numbers(f, m + 1) /\ Numbers(g, m + 1) /\ m + 1 \in 1..n
    BY DEF Numbers
  <2>2. /\ SumUpTo(f, m) \in Int /\ SumUpTo(f, m + 1) = SumUpTo(f, m) + f[m + 1]
        /\ SumUpTo(g, m) \in Int /\ SumUpTo(g, m + 1) = SumUpTo(g, m) + g[m + 1]
    BY <2>1, SumStep
  <2>3. f[m + 1] \in Int /\ g[m + 1] \in Int /\ f[k] \in Int /\ g[k] \in Int
    BY <2>1 DEF Numbers
  <2>4. CASE k = m + 1
    <3>1. SumUpTo(g, m) = SumUpTo(f, m)
      BY <1>2, <2>2, <2>4
    <3> QED BY <2>2, <2>3, <2>4, <3>1
  <2>5. CASE k # m + 1
    <3>1. f[m + 1] = g[m + 1] /\ (k <= m + 1 <=> k <= m)
      BY <2>1, <2>5
    <3>2. SumUpTo(g, m) = SumUpTo(f, m) + IF k <= m THEN g[k] - f[k] ELSE 0
      BY <1>2
    <3> QED BY <2>2, <2>3, <3>1, <3>2
  <2> QED BY <2>4, <2>5
<1> HIDE DEF S
<1>3. n \in S
  BY <1>1, <1>2, Induction
<1>4. f[k] \in Int /\ g[k] \in Int /\ SumUpTo(f, n) \in Int
  BY SumInt DEF Numbers
<1> QED BY <1>3, <1>4 DEF S

\* A sum of natural numbers is one, and none of them is larger.
LEMMA SumBounds ==
    ASSUME NEW n \in Nat, NEW f, \A i \in 1..n : f[i] \in Nat
    PROVE  SumUpTo(f, n) \in Nat /\ \A k \in 1..n : f[k] <= SumUpTo(f, n)
<1> DEFINE S == {m \in Nat : m <= n => SumUpTo(f, m) \in Nat /\ \A k \in 1..m : f[k] <= SumUpTo(f, m)}
<1>1. 0 \in S
  BY SumEmpty
<1>2. ASSUME NEW m \in Nat, m \in S PROVE m + 1 \in S
  <2> SUFFICES ASSUME m + 1 <= n
               PROVE  SumUpTo(f, m + 1) \in Nat /\ \A k \in 1..(m + 1) : f[k] <= SumUpTo(f, m + 1)
    OBVIOUS
  <2>1. Numbers(f, m + 1) /\ f[m + 1] \in Nat
    BY DEF Numbers
  <2>2. SumUpTo(f, m) \in Nat /\ SumUpTo(f, m + 1) = SumUpTo(f, m) + f[m + 1]
    BY <1>2, <2>1, SumStep
  <2>3. \A k \in 1..m : f[k] \in Nat /\ f[k] <= SumUpTo(f, m)
    BY <1>2
  <2> QED BY <2>1, <2>2, <2>3
<1> HIDE DEF S
<1>3. n \in S
  BY <1>1, <1>2, Induction
<1> QED BY <1>3 DEF S

\* Numbers that are all 0.
LEMMA SumZero ==
    ASSUME NEW n \in Nat, NEW f, \A i \in 1..n : f[i] = 0
    PROVE  SumUpTo(f, n) = 0
<1> DEFINE g == [i \in 0..n |-> 0]
<1>1. Numbers(f, n)
  BY DEF Numbers
<1>2. Partial(f, n, g)
  <2>1. \A i \in 0..n : g[i] = IF i = 0 THEN 0 ELSE g[i - 1] + f[i]
    OBVIOUS
  <2> QED BY <2>1 DEF Partial
<1>3. g[n] = 0
  OBVIOUS
<1> HIDE DEF g
<1> QED BY <1>1, <1>2, <1>3, SumIs

\* The first number taken away.
LEMMA SumTail ==
    ASSUME NEW n \in Nat, NEW f, NEW g, Numbers(f, n + 1), \A i \in 1..n : g[i] = f[i + 1]
    PROVE  SumUpTo(g, n) = SumUpTo(f, n + 1) - f[1]
<1> DEFINE S == {m \in Nat : m <= n => SumUpTo(g, m) = SumUpTo(f, m + 1) - f[1]}
<1>0. f[1] \in Int /\ Numbers(g, n)
  BY DEF Numbers
<1>1. 0 \in S
  <2>1. Numbers(f, 0 + 1)
    BY DEF Numbers
  <2>2. SumUpTo(f, 0) = 0 /\ SumUpTo(f, 0 + 1) = SumUpTo(f, 0) + f[0 + 1]
    BY <2>1, SumStep
  <2>3. SumUpTo(g, 0) = 0
    BY SumEmpty
  <2> QED BY <1>0, <2>2, <2>3
<1>2. ASSUME NEW m \in Nat, m \in S PROVE m + 1 \in S
  <2> SUFFICES ASSUME m + 1 <= n
               PROVE  SumUpTo(g, m + 1) = SumUpTo(f, (m + 1) + 1) - f[1]
    OBVIOUS
  <2>1. /\ Numbers(f, (m + 1) + 1) /\ Numbers(g, m + 1) /\ m + 1 \in Nat
        /\ g[m + 1] = f[(m + 1) + 1] /\ g[m + 1] \in Int
    BY <1>0 DEF Numbers
  <2>2. /\ SumUpTo(f, m + 1) \in Int
        /\ SumUpTo(f, (m + 1) + 1) = SumUpTo(f, m + 1) + f[(m + 1) + 1]
    BY <2>1, SumStep
  <2>3. SumUpTo(g, m + 1) = SumUpTo(g, m) + g[m + 1]
    BY <2>1, SumStep
  <2>4. SumUpTo(g, m) = SumUpTo(f, m + 1) - f[1]
    BY <1>2
  <2> QED BY <1>0, <2>1, <2>2, <2>3, <2>4
<1> HIDE DEF S
<1>3. n \in S
  BY <1>1, <1>2, Induction
<1> QED BY <1>3 DEF S

\* The sum of differences.
LEMMA SumMinus ==
    ASSUME NEW n \in Nat, NEW f, NEW g, NEW h, Numbers(f, n), Numbers(g, n),
           \A i \in 1..n : h[i] = f[i] - g[i]
    PROVE  SumUpTo(h, n) = SumUpTo(f, n) - SumUpTo(g, n)
<1> DEFINE S == {m \in Nat : m <= n => SumUpTo(h, m) = SumUpTo(f, m) - SumUpTo(g, m)}
<1>0. Numbers(h, n)
  BY DEF Numbers
<1>1. 0 \in S
  BY SumEmpty
<1>2. ASSUME NEW m \in Nat, m \in S PROVE m + 1 \in S
  <2> SUFFICES ASSUME m + 1 <= n
               PROVE  SumUpTo(h, m + 1) = SumUpTo(f, m + 1) - SumUpTo(g, m + 1)
    OBVIOUS
  <2>1. /\ Numbers(f, m + 1) /\ Numbers(g, m + 1) /\ Numbers(h, m + 1)
        /\ h[m + 1] = f[m + 1] - g[m + 1] /\ f[m + 1] \in Int /\ g[m + 1] \in Int
    BY <1>0 DEF Numbers
  <2>2. /\ SumUpTo(f, m) \in Int /\ SumUpTo(f, m + 1) = SumUpTo(f, m) + f[m + 1]
        /\ SumUpTo(g, m) \in Int /\ SumUpTo(g, m + 1) = SumUpTo(g, m) + g[m + 1]
        /\ SumUpTo(h, m + 1) = SumUpTo(h, m) + h[m + 1]
    BY <2>1, SumStep
  <2> QED BY <1>2, <2>1, <2>2
<1> HIDE DEF S
<1>3. n \in S
  BY <1>1, <1>2, Induction
<1> QED BY <1>3 DEF S

\* Smaller numbers have a smaller sum.
LEMMA SumMonotone ==
    ASSUME NEW n \in Nat, NEW f, NEW g, Numbers(f, n), Numbers(g, n),
           \A i \in 1..n : f[i] <= g[i]
    PROVE  SumUpTo(f, n) <= SumUpTo(g, n)
<1> DEFINE h == [i \in 1..n |-> g[i] - f[i]]
<1>1. \A i \in 1..n : h[i] = g[i] - f[i] /\ h[i] \in Nat
  BY DEF Numbers
<1> HIDE DEF h
<1>2. SumUpTo(h, n) = SumUpTo(g, n) - SumUpTo(f, n)
  BY <1>1, SumMinus
<1>3. SumUpTo(h, n) \in Nat /\ SumUpTo(f, n) \in Int /\ SumUpTo(g, n) \in Int
  BY <1>1, SumBounds, SumInt
<1> QED BY <1>2, <1>3
=============================================================================
