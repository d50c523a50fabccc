---------------------------- MODULE NumberLemmas ----------------------------
(***************************************************************************)
(* Lemmas that the proofs of several components need: induction over sets  *)
(* of numbers, functions defined by induction, powers of two, division and *)
(* the bits of a number.                                                   *)
(*                                                                         *)
(* Induction is stated for the set of the numbers that have a property,    *)
(* and rests on the least number that is not in it.                        *)
(***************************************************************************)
EXTENDS PowersOfTwo, WellFoundedInduction, TLAPS

-----------------------------------------------------------------------------
(* Induction.                                                               *)

\* A set of numbers has a least member.
LEMMA LeastNumber ==
    ASSUME NEW T, T \subseteq Nat, T # {}
    PROVE  \E n \in T : \A m \in T : n <= m
<1> DEFINE R == {ss \in Nat \X Nat : ss[1] < ss[2]}
<1>1. IsWellFoundedOn(R, Nat)
  BY NatLessThanWellFounded DEF OpToRel
<1>2. PICK n \in T : \A m \in T : ~ (<<m, n>> \in R)
  <2> HIDE DEF R
  <2> QED
    BY <1>1, WFMin
<1>3. \A m \in T : ~ (m < n)
  BY <1>2
<1> QED
  BY <1>3

\* A set with 0 that has with each number the next one has all numbers.
LEMMA SetInduction ==
    ASSUME NEW T, 0 \in T, \A n \in Nat : n \in T => n + 1 \in T
    PROVE  \A n \in Nat : n \in T
<1> DEFINE Missing == Nat \ T
<1>1. SUFFICES ASSUME Missing # {} PROVE FALSE
  OBVIOUS
<1>2. PICK n \in Missing : \A m \in Missing : n <= m
  <2>1. Missing \subseteq Nat
    OBVIOUS
  <2> HIDE DEF Missing
  <2> QED
    BY <1>1, <2>1, LeastNumber
<1>3. n \in Nat /\ n # 0 /\ n - 1 \in Nat
  BY <1>2
<1>4. n - 1 \in T
  BY <1>2, <1>3
<1>5. (n - 1) + 1 \in T
  BY <1>3, <1>4
<1> QED
  BY <1>2, <1>3, <1>5

-----------------------------------------------------------------------------
(* Functions defined by induction.                                          *)

\* The functions on 0 .. n that begin and go on as given.
Runs(S, start, step, n) ==
    {g \in [0 .. n -> S] : /\ g[0] = start
                           /\ \A i \in 0 .. n - 1 : g[i + 1] = step[<<i, g[i]>>]}

LEMMA RunsAgree ==
    ASSUME NEW S, NEW start \in S, NEW step \in [Nat \X S -> S],
           NEW m \in Nat, NEW n \in Nat, m <= n,
           NEW g \in Runs(S, start, step, m), NEW h \in Runs(S, start, step, n)
    PROVE  \A i \in 0 .. m : g[i] = h[i]
<1> DEFINE T == {i \in Nat : i <= m => g[i] = h[i]}
<1>1. 0 \in T
  BY DEF Runs
<1>2. ASSUME NEW i \in Nat, i \in T PROVE i + 1 \in T
  <2>1. SUFFICES ASSUME i + 1 <= m PROVE g[i + 1] = h[i + 1]
    OBVIOUS
  <2>2. i \in 0 .. m - 1 /\ i \in 0 .. n - 1 /\ g[i] = h[i]
    BY <1>2, <2>1
  <2> QED
    BY <2>2 DEF Runs
<1>3. \A i \in Nat : i \in T
  <2> HIDE DEF T
  <2> QED
    BY <1>1, <1>2, SetInduction
<1> QED
  BY <1>3

LEMMA RunsExist ==
    ASSUME NEW S, NEW start \in S, NEW step \in [Nat \X S -> S]
    PROVE  \A n \in Nat : Runs(S, start, step, n) # {}
<1> DEFINE T == {n \in Nat : Runs(S, start, step, n) # {}}
<1>1. 0 \in T
  <2>1. [i \in 0 .. 0 |-> start] \in Runs(S, start, step, 0)
    BY DEF Runs
  <2> QED
    BY <2>1
<1>2. ASSUME NEW n \in Nat, n \in T PROVE n + 1 \in T
  <2>1. PICK g : g \in Runs(S, start, step, n)
    BY <1>2
  <2>2. g \in [0 .. n -> S] /\ g[0] = start
        /\ \A i \in 0 .. n - 1 : g[i + 1] = step[<<i, g[i]>>]
    BY <2>1 DEF Runs
  <2> DEFINE h == [i \in 0 .. n + 1 |-> IF i <= n THEN g[i] ELSE step[<<n, g[n]>>]]
  <2>3. g[n] \in S /\ step[<<n, g[n]>>] \in S
    BY <2>2
  <2>4. h \in [0 .. n + 1 -> S] /\ h[0] = start
    BY <2>2, <2>3
  <2>5. ASSUME NEW i \in 0 .. (n + 1) - 1 PROVE h[i + 1] = step[<<i, h[i]>>]
    <3>1. i \in 0 .. n /\ h[i] = g[i]
      OBVIOUS
    <3>2. CASE i = n
      <4>1. n + 1 \in 0 .. n + 1 /\ ~ (n + 1 <= n)
        OBVIOUS
      <4>2. h[n + 1] = step[<<n, g[n]>>]
        BY <4>1
      <4> HIDE DEF h
      <4> QED
        BY <3>1, <3>2, <4>2
    <3>3. CASE i # n
      <4>1. i \in 0 .. n - 1 /\ h[i + 1] = g[i + 1]
        BY <3>1, <3>3
      <4> QED
        BY <2>2, <3>1, <4>1
    <3> QED
      BY <3>2, <3>3
  <2>6. h \in Runs(S, start, step, n + 1)
    <3> HIDE DEF h
    <3> QED
      BY <2>4, <2>5 DEF Runs
  <2> QED
    BY <2>6
<1>3. \A n \in Nat : n \in T
  <2> HIDE DEF T
  <2> QED
    BY <1>1, <1>2, SetInduction
<1> QED
  BY <1>3

Iterates(f, start, step) ==
    f[0] = start /\ \A n \in Nat : f[n + 1] = step[<<n, f[n]>>]

\* There is a function that begins and goes on as given.
LEMMA InductiveFunction ==
    ASSUME NEW S, NEW start \in S, NEW step \in [Nat \X S -> S]
    PROVE  \E f \in [Nat -> S] : Iterates(f, start, step)
<1> DEFINE run(n) == CHOOSE g : g \in Runs(S, start, step, n)
           f == [n \in Nat |-> run(n)[n]]
<1>1. \A n \in Nat : run(n) \in Runs(S, start, step, n)
  BY RunsExist
<1>2. f \in [Nat -> S]
  <2>1. \A n \in Nat : run(n)[n] \in S
    <3> HIDE DEF run
    <3> QED
      BY <1>1 DEF Runs
  <2> QED
    BY <2>1
<1>3. f[0] = start
  BY <1>1 DEF Runs
<1>4. ASSUME NEW n \in Nat PROVE f[n + 1] = step[<<n, f[n]>>]
  <2>1. run(n) \in Runs(S, start, step, n) /\ run(n + 1) \in Runs(S, start, step, n + 1)
    BY <1>1
  <2>2. f[n] = run(n)[n] /\ f[n + 1] = run(n + 1)[n + 1]
    OBVIOUS
  <2> HIDE DEF run, f
  <2>3. run(n)[n] = run(n + 1)[n]
    <3>1. n + 1 \in Nat /\ n <= n + 1 /\ n \in 0 .. n
      OBVIOUS
    <3>2. \A i \in 0 .. n : run(n)[i] = run(n + 1)[i]
      BY <2>1, <3>1, RunsAgree
    <3> QED
      BY <3>1, <3>2
  <2>4. run(n + 1)[n + 1] = step[<<n, run(n + 1)[n]>>]
    BY <2>1, n \in 0 .. (n + 1) - 1 DEF Runs
  <2> QED
    BY <2>2, <2>3, <2>4
<1> HIDE DEF f
<1>5. Iterates(f, start, step)
  BY <1>3, <1>4 DEF Iterates
<1> QED
  BY <1>2, <1>5

-----------------------------------------------------------------------------
(* Powers of two.                                                           *)

LEMMA PowersDefined ==
    /\ PowerOfTwo \in [Nat -> Nat]
    /\ PowerOfTwo[0] = 1
    /\ \A n \in Nat : PowerOfTwo[n + 1] = 2 * PowerOfTwo[n]
<1> DEFINE double == [p \in Nat \X Nat |-> 2 * p[2]]
           Doubles(f) == f = [n \in Nat |-> IF n = 0 THEN 1 ELSE 2 * f[n - 1]]
<1>1. PICK f \in [Nat -> Nat] : f[0] = 1 /\ \A n \in Nat : f[n + 1] = double[<<n, f[n]>>]
  <2>1. double \in [Nat \X Nat -> Nat] /\ 1 \in Nat
    OBVIOUS
  <2> DEFINE N == Nat
             one == 1
  <2>2. double \in [Nat \X N -> N] /\ one \in N
    BY <2>1
  <2> HIDE DEF double, N, one
  <2>3. \E f \in [Nat -> N] : Iterates(f, one, double)
    BY <2>2, InductiveFunction
  <2> QED
    BY <2>3 DEF N, one, Iterates
<1>2. \A n \in Nat : f[n + 1] = 2 * f[n]
  BY <1>1
<1>3. \A n \in Nat : f[n] = IF n = 0 THEN 1 ELSE 2 * f[n - 1]
  <2> SUFFICES ASSUME NEW n \in Nat, n # 0 PROVE f[n] = 2 * f[n - 1]
    BY <1>1
  <2>1. n - 1 \in Nat /\ n = (n - 1) + 1
    OBVIOUS
  <2> QED
    BY <1>2, <2>1
<1>4. Doubles(f)
  BY <1>3
<1>5. Doubles(PowerOfTwo)
  BY <1>4 DEF PowerOfTwo
<1>6. /\ PowerOfTwo[0] = 1
      /\ \A n \in Nat : PowerOfTwo[n + 1] = 2 * PowerOfTwo[n]
  <2>1. \A n \in Nat : PowerOfTwo[n] = IF n = 0 THEN 1 ELSE 2 * PowerOfTwo[n - 1]
    BY <1>5
  <2>2. ASSUME NEW n \in Nat PROVE PowerOfTwo[n + 1] = 2 * PowerOfTwo[n]
    <3>1. n + 1 \in Nat /\ n + 1 # 0 /\ (n + 1) - 1 = n
      OBVIOUS
    <3> HIDE DEF Doubles
    <3> QED
      BY <2>1, <3>1
  <2> QED
    BY <2>1, <2>2
<1>7. \A n \in Nat : PowerOfTwo[n] = f[n]
  <2> DEFINE T == {n \in Nat : PowerOfTwo[n] = f[n]}
  <2>1. 0 \in T /\ \A n \in Nat : n \in T => n + 1 \in T
    BY <1>1, <1>2, <1>6
  <2>2. \A n \in Nat : n \in T
    <3> HIDE DEF T
    <3> QED
      BY <2>1, SetInduction
  <2> QED
    BY <2>2
<1>8. PowerOfTwo \in [Nat -> Nat]
  BY <1>5, <1>7
<1> QED
  BY <1>6, <1>8

LEMMA PowersPositive == \A n \in Nat : PowerOfTwo[n] \in Nat \ {0}
<1> DEFINE T == {n \in Nat : PowerOfTwo[n] # 0}
<1>1. 0 \in T /\ \A n \in Nat : n \in T => n + 1 \in T
  BY PowersDefined
<1>2. \A n \in Nat : n \in T
  <2> HIDE DEF T
  <2> QED
    BY <1>1, SetInduction
<1> QED
  BY <1>2, PowersDefined

\* A power of two is divided by every smaller one.
LEMMA PowersMultiply ==
    ASSUME NEW k \in Nat, NEW n \in Nat
    PROVE  PowerOfTwo[k + n] = PowerOfTwo[n] * PowerOfTwo[k]
<1> DEFINE T == {j \in Nat : PowerOfTwo[k + j] = PowerOfTwo[j] * PowerOfTwo[k]}
<1>1. 0 \in T
  BY PowersDefined
<1>2. ASSUME NEW j \in Nat, j \in T PROVE j + 1 \in T
  <2>1. k + (j + 1) = (k + j) + 1 /\ k + j \in Nat
    OBVIOUS
  <2>2. PowerOfTwo[k + (j + 1)] = 2 * (PowerOfTwo[j] * PowerOfTwo[k])
    BY <1>2, <2>1, PowersDefined
  <2>3. PowerOfTwo[j + 1] * PowerOfTwo[k] = (2 * PowerOfTwo[j]) * PowerOfTwo[k]
    BY PowersDefined
  <2>4. \A a, b \in Nat : 2 * (a * b) = (2 * a) * b
    OBVIOUS
  <2>5. PowerOfTwo[j] \in Nat /\ PowerOfTwo[k] \in Nat
    BY PowersDefined
  <2> QED
    BY <2>2, <2>3, <2>4, <2>5
<1>3. \A j \in Nat : j \in T
  <2> HIDE DEF T
  <2> QED
    BY <1>1, <1>2, SetInduction
<1> QED
  BY <1>3

-----------------------------------------------------------------------------
(* Division.                                                                *)

LEMMA Division ==
    ASSUME NEW a \in Nat, NEW s \in Nat \ {0}
    PROVE  /\ a \div s \in Nat /\ a % s \in 0 .. s - 1
           /\ a = (a \div s) * s + (a % s)
  OBVIOUS

LEMMA ProductsOrdered ==
    ASSUME NEW p \in Nat, NEW q \in Nat, NEW s \in Nat, p <= q
    PROVE  p * s <= q * s
<1>1. q - p \in Nat /\ q = p + (q - p)
  OBVIOUS
<1>2. \A d \in Nat : d * s \in Nat /\ (p + d) * s = p * s + d * s
  OBVIOUS
<1> QED
  BY <1>1, <1>2

\* Quotient and remainder are the only such numbers.
LEMMA DivisionUnique ==
    ASSUME NEW q \in Nat, NEW s \in Nat \ {0}, NEW r \in 0 .. s - 1
    PROVE  (q * s + r) \div s = q /\ (q * s + r) % s = r
<1> DEFINE a == q * s + r
           p == a \div s
<1>1. a \in Nat /\ p \in Nat /\ a % s \in 0 .. s - 1 /\ a = p * s + (a % s)
  <2>1. a \in Nat
    OBVIOUS
  <2> HIDE DEF a
  <2> QED
    BY <2>1, Division
<1>2. \A m \in Nat : (m + 1) * s = m * s + s
  OBVIOUS
<1>3. q * s \in Nat /\ p * s \in Nat
  BY <1>1
<1>4. ~ (p < q)
  <2> SUFFICES ASSUME p + 1 <= q PROVE FALSE
    BY <1>1
  <2>1. (p + 1) * s <= q * s
    BY <1>1, ProductsOrdered
  <2>2. (p + 1) * s = p * s + s
    BY <1>1, <1>2
  <2> HIDE DEF p
  <2> QED
    BY <1>1, <1>3, <2>1, <2>2
<1>5. ~ (q < p)
  <2> SUFFICES ASSUME q + 1 <= p PROVE FALSE
    BY <1>1
  <2>1. (q + 1) * s <= p * s
    BY <1>1, ProductsOrdered
  <2>2. (q + 1) * s = q * s + s
    BY <1>2
  <2> HIDE DEF p
  <2> QED
    BY <1>1, <1>3, <2>1, <2>2
<1>6. p = q
  BY <1>1, <1>4, <1>5
<1>7. a % s = r
  <2> HIDE DEF p
  <2> QED
    BY <1>1, <1>3, <1>6
<1> QED
  BY <1>6, <1>7

\* The numbers with one quotient lie together.
LEMMA SameQuotient ==
    ASSUME NEW a \in Nat, NEW s \in Nat \ {0}, NEW q \in Nat
    PROVE  a \div s = q <=> a \in q * s .. q * s + s - 1
<1>1. q * s \in Nat
  OBVIOUS
<1>2. CASE a \div s = q
  <2>1. a % s \in 0 .. s - 1 /\ a = q * s + (a % s)
    BY <1>2, Division
  <2> QED
    BY <1>1, <1>2, <2>1
<1>3. CASE a \in q * s .. q * s + s - 1
  <2>1. a - q * s \in 0 .. s - 1 /\ a = q * s + (a - q * s)
    BY <1>1, <1>3
  <2> QED
    BY <1>3, <2>1, DivisionUnique
<1> QED
  BY <1>2, <1>3

-----------------------------------------------------------------------------
(* Bits.                                                                    *)

\* Halving a quotient by a power of two leaves the next one, and a bit is what
\* is left over.
LEMMA NextQuotient ==
    ASSUME NEW a \in Nat, NEW i \in Nat
    PROVE  /\ Bit(a, i) \in {0, 1}
           /\ a \div PowerOfTwo[i] = 2 * (a \div PowerOfTwo[i + 1]) + Bit(a, i)
           /\ a % PowerOfTwo[i + 1] = (a % PowerOfTwo[i]) + PowerOfTwo[i] * Bit(a, i)
<1> DEFINE s == PowerOfTwo[i]
           q == a \div s
           h == q \div 2
           b == q % 2
           r == a % s
<1>1. s \in Nat \ {0} /\ PowerOfTwo[i + 1] = 2 * s
  BY PowersDefined, PowersPositive
<1>2. q \in Nat /\ r \in 0 .. s - 1 /\ a = q * s + r
  <2> HIDE DEF s
  <2> QED
    BY <1>1, Division
<1>3. h \in Nat /\ b \in {0, 1} /\ q = 2 * h + b
  <2> HIDE DEF q
  <2> QED
    BY <1>2
<1>4. Bit(a, i) = b
  BY DEF Bit
<1>5. s * b + r \in 0 .. 2 * s - 1
  <2> HIDE DEF s, b, r
  <2>1. CASE b = 0
    BY <1>1, <1>2, <2>1
  <2>2. CASE b = 1
    BY <1>1, <1>2, <2>2
  <2> QED
    BY <1>3, <2>1, <2>2
<1>6. a = h * (2 * s) + (s * b + r)
  <2> HIDE DEF s, q, h, b, r
  <2>1. (2 * h + b) * s = h * (2 * s) + s * b
    BY <1>1, <1>3
  <2>2. (2 * h + b) * s \in Nat /\ h * (2 * s) \in Nat /\ s * b \in Nat
    BY <1>1, <1>3
  <2> QED
    BY <1>1, <1>2, <1>3, <2>1, <2>2
<1>7. a \div (2 * s) = h /\ a % (2 * s) = s * b + r
  <2> HIDE DEF s, q, h, b, r
  <2>1. 2 * s \in Nat \ {0}
    BY <1>1
  <2> DEFINE ss == 2 * s
             rr == s * b + r
  <2>2. h \in Nat /\ ss \in Nat \ {0} /\ rr \in 0 .. ss - 1 /\ a = h * ss + rr
    BY <1>3, <1>5, <1>6, <2>1
  <2>3. a \div ss = h /\ a % ss = rr
    <3> HIDE DEF ss, rr
    <3> QED
      BY <2>2, DivisionUnique
  <2> QED
    BY <2>3
<1>8. s * b + r = r + s * b
  <2> HIDE DEF s, b, r
  <2> QED
    BY <1>1, <1>2, <1>3
<1> HIDE DEF h, b, r
<1> QED
  BY <1>1, <1>3, <1>4, <1>7, <1>8 DEF r

\* Numbers below a power of two have the same quotient by a smaller one when
\* they agree in the bits from there on.
LEMMA SameHighBits ==
    ASSUME NEW m \in Nat, NEW k \in 0 .. m,
           NEW a \in 0 .. PowerOfTwo[m] - 1, NEW b \in 0 .. PowerOfTwo[m] - 1
    PROVE  a \div PowerOfTwo[k] = b \div PowerOfTwo[k]
             <=> \A i \in k .. m - 1 : Bit(a, i) = Bit(b, i)
<1> DEFINE Same(i) == a \div PowerOfTwo[i] = b \div PowerOfTwo[i]
           Agree(i) == \A j \in i .. m - 1 : Bit(a, j) = Bit(b, j)
           T == {d \in Nat : d <= m => (Same(m - d) <=> Agree(m - d))}
<1>1. a \in Nat /\ b \in Nat /\ PowerOfTwo[m] \in Nat \ {0}
  BY PowersPositive
<1>2. Same(m)
  <2>1. ASSUME NEW c \in 0 .. PowerOfTwo[m] - 1 PROVE c \div PowerOfTwo[m] = 0
    <3>1. 0 * PowerOfTwo[m] + c = c
      BY <1>1, <2>1
    <3> QED
      BY <1>1, <3>1, DivisionUnique
  <2> QED
    BY <2>1
<1>3. 0 \in T
  <2>1. m - 0 = m /\ m .. m - 1 = {}
    OBVIOUS
  <2> QED
    BY <1>2, <2>1
<1>4. ASSUME NEW i \in 0 .. m - 1
      PROVE  Same(i) <=> Same(i + 1) /\ Bit(a, i) = Bit(b, i)
  <2>1. /\ a \div PowerOfTwo[i] = 2 * (a \div PowerOfTwo[i + 1]) + Bit(a, i)
        /\ b \div PowerOfTwo[i] = 2 * (b \div PowerOfTwo[i + 1]) + Bit(b, i)
        /\ Bit(a, i) \in {0, 1} /\ Bit(b, i) \in {0, 1}
    BY <1>1, NextQuotient
  <2>2. a \div PowerOfTwo[i + 1] \in Nat /\ b \div PowerOfTwo[i + 1] \in Nat
    <3>1. PowerOfTwo[i + 1] \in Nat \ {0}
      BY i + 1 \in Nat, PowersPositive
    <3> QED
      BY <1>1, <3>1, Division
  <2>3. \A x, y \in Nat : \A c, d \in {0, 1} : 2 * x + c = 2 * y + d <=> x = y /\ c = d
    OBVIOUS
  <2> QED
    BY <2>1, <2>2, <2>3
<1>5. ASSUME NEW d \in Nat, d \in T PROVE d + 1 \in T
  <2> SUFFICES ASSUME d + 1 <= m PROVE Same(m - (d + 1)) <=> Agree(m - (d + 1))
    OBVIOUS
  <2> DEFINE i == m - (d + 1)
  <2>1. i \in 0 .. m - 1 /\ i + 1 = m - d
    OBVIOUS
  <2>2. Same(i + 1) <=> Agree(i + 1)
    BY <1>5, <2>1
  <2>3. i .. m - 1 = {i} \cup (i + 1 .. m - 1)
    BY <2>1
  <2>4. Agree(i) <=> Agree(i + 1) /\ Bit(a, i) = Bit(b, i)
    BY <2>3
  <2> HIDE DEF i, Same, Agree
  <2> QED
    BY <1>4, <2>1, <2>2, <2>4 DEF i
<1>6. \A d \in Nat : d \in T
  <2> HIDE DEF T
  <2> QED
    BY <1>3, <1>5, SetInduction
<1>7. m - k \in Nat /\ m - k <= m /\ m - (m - k) = k
  OBVIOUS
<1>8. Same(k) <=> Agree(k)
  <2> HIDE DEF Same, Agree
  <2> QED
    BY <1>6, <1>7
<1> QED
  BY <1>8

\* The lowest bits of a number are all zeros, or all ones, when its remainder is
\* the least, or the greatest.
LEMMA LowBits ==
    ASSUME NEW a \in Nat, NEW h \in Nat
    PROVE  /\ a % PowerOfTwo[h] = 0 <=> \A i \in 0 .. h - 1 : Bit(a, i) = 0
           /\ a % PowerOfTwo[h] = PowerOfTwo[h] - 1 <=> \A i \in 0 .. h - 1 : Bit(a, i) = 1
<1> DEFINE All(n, v) == \A i \in 0 .. n - 1 : Bit(a, i) = v
           T == {n \in Nat : /\ a % PowerOfTwo[n] = 0 <=> All(n, 0)
                             /\ a % PowerOfTwo[n] = PowerOfTwo[n] - 1 <=> All(n, 1)}
<1>1. 0 \in T
  <2>1. a % 1 = 0 /\ 0 .. 0 - 1 = {}
    OBVIOUS
  <2> QED
    BY <2>1, PowersDefined
<1>2. ASSUME NEW n \in Nat, n \in T PROVE n + 1 \in T
  <2> DEFINE s == PowerOfTwo[n]
             r == a % s
             b == Bit(a, n)
  <2>1. s \in Nat \ {0} /\ PowerOfTwo[n + 1] = 2 * s
    BY PowersDefined, PowersPositive
  <2>2. r \in 0 .. s - 1
    <3> HIDE DEF s
    <3> QED
      BY <2>1, Division
  <2>3. b \in {0, 1} /\ a % PowerOfTwo[n + 1] = r + s * b
    BY NextQuotient
  <2>4. 0 .. (n + 1) - 1 = (0 .. n - 1) \cup {n}
    OBVIOUS
  <2>5. ASSUME NEW v PROVE All(n + 1, v) <=> All(n, v) /\ b = v
    BY <2>4
  <2>6. (r = 0 <=> All(n, 0)) /\ (r = s - 1 <=> All(n, 1))
    BY <1>2
  <2>7. /\ a % PowerOfTwo[n + 1] = 0 <=> r = 0 /\ b = 0
        /\ a % PowerOfTwo[n + 1] = 2 * s - 1 <=> r = s - 1 /\ b = 1
    <3> HIDE DEF s, r, b
    <3>1. CASE b = 0
      <4>1. r + s * b = r
        BY <2>1, <2>2, <3>1
      <4> QED
        BY <2>1, <2>2, <2>3, <3>1, <4>1
    <3>2. CASE b = 1
      <4>1. r + s * b = r + s
        BY <2>1, <2>2, <3>2
      <4> QED
        BY <2>1, <2>2, <2>3, <3>2, <4>1
    <3> QED
      BY <2>3, <3>1, <3>2
  <2> HIDE DEF s, r, b, All
  <2> QED
    BY <2>1, <2>5, <2>6, <2>7
<1>3. \A n \in Nat : n \in T
  <2> HIDE DEF T
  <2> QED
    BY <1>1, <1>2, SetInduction
<1> QED
  BY <1>3
=============================================================================
