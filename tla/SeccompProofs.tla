----------------------------- MODULE SeccompProofs -----------------------------
(* The compiler of filters, for every filter, every word size and every       *)
(* longest jump a condition fits in: the program decides on a system call as  *)
(* the rules of the filter say.                                               *)
EXTENDS SeccompFilter, WellFoundedInduction, TLAPS

--------------------------------------------------------------------------------
(* The compiler and the bitwise AND are recursive.  What they compute is      *)
(* found by induction, which starts from a least counterexample.              *)

(* A set with 0, and with n + 1 when with n, has every number. *)
LEMMA Induction ==
  ASSUME NEW T, 0 \in T, \A n \in Nat : n \in T => n + 1 \in T
  PROVE  Nat \subseteq T
<1> DEFINE R == {ss \in Nat \X Nat : ss[1] < ss[2]}
<1> SUFFICES ASSUME Nat \ T # {} PROVE FALSE
  BY Zenon
<1>1. OpToRel(<, Nat) = R
  BY Zenon DEF OpToRel
<1>2. IsWellFoundedOn(R, Nat)
  BY <1>1, NatLessThanWellFounded, Zenon
<1>3. \A x, y \in Nat : x < y => <<x, y>> \in R
  BY Zenon
<1> HIDE DEF R
<1>4. PICK x \in Nat \ T : \A y \in Nat \ T : ~(<<y, x>> \in R)
  BY <1>2, WFMin, Zenon
<1>5. x # 0 /\ x - 1 \in Nat /\ x - 1 < x
  BY <1>4
<1>6. x - 1 \notin T
  BY <1>4, <1>5
<1> QED
  BY <1>3, <1>4, <1>5, <1>6, Zenon

(* g starts with s and goes on as step says, up to n. *)
Follows(g, n, s, step) ==
  g[0] = s /\ \A i \in 1 .. n : g[i] = step[i][g[i - 1]]

(* A recursion over the first n numbers has a solution. *)
LEMMA Recursion ==
  ASSUME NEW S, NEW n \in Nat, NEW s \in S, NEW step \in [1 .. n -> [S -> S]]
  PROVE  \E g \in [0 .. n -> S] : Follows(g, n, s, step)
<1> DEFINE T == {k \in Nat : k <= n => \E g \in [0 .. k -> S] : Follows(g, k, s, step)}
<1>1. 0 \in T
  <2>1. PICK g : g = [i \in 0 .. 0 |-> s]
    BY Zenon
  <2>2. g \in [0 .. 0 -> S] /\ g[0] = s /\ 1 .. 0 = {}
    BY <2>1
  <2>3. Follows(g, 0, s, step)
    BY <2>2, Zenon DEF Follows
  <2> QED
    BY <2>2, <2>3
<1>2. ASSUME NEW k \in Nat, k \in T, k + 1 <= n
      PROVE  \E g \in [0 .. k + 1 -> S] : Follows(g, k + 1, s, step)
  <2>1. PICK g \in [0 .. k -> S] : Follows(g, k, s, step)
    BY <1>2
  <2>2. PICK h : h = [i \in 0 .. k + 1 |-> IF i = k + 1 THEN step[k + 1][g[k]] ELSE g[i]]
    BY Zenon
  <2>3. k + 1 \in 1 .. n /\ g[k] \in S /\ k \in 0 .. k
    BY <1>2, <2>1
  <2>4. step[k + 1][g[k]] \in S
    BY <2>3, Zenon
  <2>5. \A i \in 0 .. k : h[i] = g[i]
    BY <2>2
  <2>6. h[k + 1] = step[k + 1][g[k]]
    BY <2>2
  <2>7. h \in [0 .. k + 1 -> S]
    BY <2>2, <2>4
  <2>8. ASSUME NEW i \in 1 .. k + 1
        PROVE  h[i] = step[i][h[i - 1]]
    <3>1. i - 1 \in 0 .. k /\ (i # k + 1 => i \in 1 .. k /\ i \in 0 .. k) /\ (i = k + 1 => i - 1 = k)
      OBVIOUS
    <3>2. CASE i = k + 1
      BY <2>5, <2>6, <3>1, <3>2, Zenon
    <3>3. CASE i # k + 1
      BY <2>1, <2>5, <3>1, <3>3, Zenon DEF Follows
    <3> QED
      BY <3>2, <3>3, Zenon
  <2>9. h[0] = s
    BY <2>1, <2>5 DEF Follows
  <2> QED
    BY <2>7, <2>8, <2>9, Zenon DEF Follows
<1>3. \A k \in Nat : k \in T => k + 1 \in T
  BY <1>2
<1>4. Nat \subseteq T
  <2> HIDE DEF T
  <2> QED
    BY <1>1, <1>3, Induction, Zenon
<1>5. n \in T /\ n <= n
  BY <1>4
<1> QED
  BY <1>5, Zenon

(* What follows a recursion stays in its set. *)
LEMMA StaysIn ==
  ASSUME NEW S, NEW n \in Nat, NEW f, f[0] \in S,
         \A i \in 1 .. n : f[i - 1] \in S => f[i] \in S
  PROVE  \A i \in 0 .. n : f[i] \in S
<1> DEFINE T == {k \in Nat : k <= n => f[k] \in S}
<1>1. 0 \in T
  OBVIOUS
<1>2. ASSUME NEW k \in Nat, k \in T
      PROVE  k + 1 \in T
  <2>1. k + 1 <= n => k <= n /\ k + 1 \in 1 .. n /\ (k + 1) - 1 = k
    OBVIOUS
  <2>2. k + 1 <= n => f[k + 1] \in S
    BY <1>2, <2>1
  <2> QED
    BY <2>2
<1>3. Nat \subseteq T
  <2> HIDE DEF T
  <2> QED
    BY <1>1, <1>2, Induction, Zenon
<1> QED
  BY <1>3

--------------------------------------------------------------------------------
(* Arithmetic of words. *)

LEMMA Pow2Is ==
  /\ Pow2[0] = 1
  /\ \A n \in Bits : Pow2[n] \in Nat \ {0}
  /\ \A n \in 1 .. 2 * HalfBits : Pow2[n] = 2 * Pow2[n - 1]
<1> DEFINE N == 2 * HalfBits
<1>1. N \in Nat
  BY FilterAssumption
<1>2. PICK step : step = [i \in 1 .. N |-> [x \in Nat |-> 2 * x]]
  BY Zenon
<1>3. step \in [1 .. N -> [Nat -> Nat]] /\ \A i \in 1 .. N, x \in Nat : step[i][x] = 2 * x
  BY <1>2
<1> HIDE DEF N
<1>4. PICK g \in [0 .. N -> Nat] : Follows(g, N, 1, step)
  BY <1>1, <1>3, Recursion, Zenon
<1>5. g = [n \in 0 .. N |-> IF n = 0 THEN 1 ELSE 2 * g[n - 1]]
  <2>1. ASSUME NEW n \in 0 .. N, n # 0
        PROVE  g[n] = 2 * g[n - 1]
    <3>1. n \in 1 .. N /\ n - 1 \in 0 .. N
      BY <1>1, <2>1
    <3>2. g[n] = step[n][g[n - 1]]
      BY <1>4, <3>1, Zenon DEF Follows
    <3> QED
      BY <1>3, <1>4, <3>1, <3>2, Zenon
  <2> QED
    BY <1>4, <2>1, Zenon DEF Follows
<1>6. Pow2 = [n \in 0 .. N |-> IF n = 0 THEN 1 ELSE 2 * Pow2[n - 1]]
  BY <1>5, Zenon DEF Pow2, Bits, N
<1>7. PICK f : f = Pow2
  BY Zenon
<1>8. f = [n \in 0 .. N |-> IF n = 0 THEN 1 ELSE 2 * f[n - 1]]
  BY <1>6, <1>7, Zenon
<1>9. f[0] = 1 /\ \A n \in 1 .. N : f[n] = 2 * f[n - 1]
  BY <1>1, <1>8
<1>10. ASSUME NEW i \in 1 .. N, f[i - 1] \in Nat \ {0}
       PROVE  f[i] \in Nat \ {0}
  BY <1>9, <1>10
<1>11. \A i \in 0 .. N : f[i] \in Nat \ {0}
  <2>1. f[0] \in Nat \ {0}
    BY <1>9
  <2> QED
    BY <1>1, <1>10, <2>1, StaysIn, Zenon
<1> QED
  BY <1>7, <1>9, <1>11, Zenon DEF Bits, N

(* A number and the multiple below it. *)
LEMMA Divided ==
  ASSUME NEW a \in Nat, NEW d \in Nat \ {0}
  PROVE  /\ a \div d \in Nat /\ a % d \in Nat /\ a % d < d
         /\ a = d * (a \div d) + (a % d)
  OBVIOUS

(* Only one multiple is that close. *)
LEMMA DividedOnce ==
  ASSUME NEW d \in Nat \ {0}, NEW p \in Nat, NEW q \in Nat, NEW r \in Nat, NEW t \in Nat,
         r < d, t < d, d * p + r = d * q + t
  PROVE  p = q /\ r = t
<1>1. ASSUME NEW u \in Nat, NEW v \in Nat, NEW a \in Nat, NEW b \in Nat, a < d, b < d,
             d * u + a = d * v + b, u < v
      PROVE  FALSE
  <2>1. PICK k \in Nat : v = u + 1 + k
    <3>1. v - u - 1 \in Nat /\ v = u + 1 + (v - u - 1)
      BY <1>1
    <3> QED
      BY <3>1, Zenon
  <2>2. d * v = d * u + d + d * k /\ d * k \in Nat /\ d * u \in Nat
    BY <2>1
  <2> QED
    BY <1>1, <2>2
<1>2. p = q
  <2>1. ~(p < q) /\ ~(q < p)
    BY <1>1
  <2> QED
    BY <2>1
<1> QED
  BY <1>2

LEMMA QuotientIs ==
  ASSUME NEW d \in Nat \ {0}, NEW q \in Nat, NEW r \in Nat, r < d, NEW x, x = d * q + r
  PROVE  x \div d = q /\ x % d = r
<1>1. x \in Nat
  OBVIOUS
<1>2. x \div d \in Nat /\ x % d \in Nat /\ x % d < d /\ x = d * (x \div d) + (x % d)
  BY <1>1, Divided
<1>3. d * (x \div d) + (x % d) = d * q + r
  BY <1>2
<1> QED
  BY <1>2, <1>3, DividedOnce, Zenon

(* One bit and the others. *)
LEMMA LowestBit ==
  ASSUME NEW x \in Nat, NEW d \in Nat \ {0}
  PROVE  /\ (x \div 2) \div d = x \div (2 * d)
         /\ (x \div 2) % d = (x % (2 * d)) \div 2
         /\ x % 2 = (x % (2 * d)) % 2
         /\ x \div 2 \in Nat /\ x % (2 * d) \in Nat /\ x \div (2 * d) \in Nat
<1>1. 2 * d \in Nat \ {0} /\ 2 \in Nat \ {0}
  OBVIOUS
<1>2. PICK q \in Nat, r \in Nat : /\ q = x \div (2 * d) /\ r = x % (2 * d) /\ r < 2 * d
                                  /\ x = (2 * d) * q + r
  BY <1>1, Divided, ZenonT(30)
<1>3. PICK s \in Nat, b \in Nat : s = r \div 2 /\ b = r % 2 /\ b < 2 /\ r = 2 * s + b
  OBVIOUS
<1>4. s < d
  BY <1>2, <1>3
<1>5. d * q + s \in Nat /\ x = 2 * (d * q + s) + b
  <2>1. d * q \in Nat /\ (2 * d) * q = 2 * (d * q)
    OBVIOUS
  <2> QED
    BY <1>2, <1>3, <2>1
<1>6. x \div 2 = d * q + s /\ x % 2 = b
  <2>1. PICK y \in Nat : y = d * q + s
    BY <1>5, Zenon
  <2>2. x = 2 * y + b
    BY <1>5, <2>1, Zenon
  <2>3. x \div 2 = y /\ x % 2 = b
    BY <1>3, <2>2
  <2> QED
    BY <2>1, <2>3, Zenon
<1>7. (d * q + s) \div d = q /\ (d * q + s) % d = s
  BY <1>4, <1>5, QuotientIs, Zenon
<1> QED
  BY <1>2, <1>3, <1>5, <1>6, <1>7, Zenon

(* What the recursion of And computes. *)
AndStep(a, b) ==
  /\ b \in [Nat -> [Nat -> Nat]]
  /\ \A x, y \in Nat : b[x][y] = 2 * a[x \div 2][y \div 2] + (x % 2) * (y % 2)

LEMMA AndIs ==
  /\ \A n \in Bits : And[n] \in [Nat -> [Nat -> Nat]]
  /\ \A x, y \in Nat : And[0][x][y] = 0
  /\ \A n \in 1 .. 2 * HalfBits : AndStep(And[n - 1], And[n])
<1> DEFINE N == 2 * HalfBits
           S == [Nat -> [Nat -> Nat]]
           Zero == [x \in Nat |-> [y \in Nat |-> 0]]
           More(a) == [x \in Nat |-> [y \in Nat |-> 2 * a[x \div 2][y \div 2] + (x % 2) * (y % 2)]]
<1>1. N \in Nat
  BY FilterAssumption
<1>2. Zero \in S
  OBVIOUS
<1>3. ASSUME NEW a \in S
      PROVE  More(a) \in S
  <2>1. ASSUME NEW x \in Nat, NEW y \in Nat
        PROVE  2 * a[x \div 2][y \div 2] + (x % 2) * (y % 2) \in Nat
    <3>1. x \div 2 \in Nat /\ y \div 2 \in Nat /\ x % 2 \in Nat /\ y % 2 \in Nat
      OBVIOUS
    <3>2. a[x \div 2][y \div 2] \in Nat
      BY <3>1, Zenon
    <3>3. \A i, j \in Nat : i * j \in Nat /\ 2 * i + j \in Nat
      OBVIOUS
    <3>4. (x % 2) * (y % 2) \in Nat
      BY <3>1, <3>3, Zenon
    <3> QED
      BY <3>2, <3>3, <3>4, Zenon
  <2> QED
    BY <2>1, Zenon
<1>4. PICK step : step = [i \in 1 .. N |-> [a \in S |-> More(a)]]
  BY Zenon
<1>5. step \in [1 .. N -> [S -> S]] /\ \A i \in 1 .. N, a \in S : step[i][a] = More(a)
  BY <1>3, <1>4, Zenon
<1> HIDE DEF N, S
<1>6. PICK g \in [0 .. N -> S] : Follows(g, N, Zero, step)
  <2> HIDE DEF Zero, More
  <2> QED
    BY <1>1, <1>2, <1>5, Recursion, Zenon
<1> DEFINE Body(n, a) ==
  [x \in Nat |-> [y \in Nat |->
     IF n = 0 THEN 0 ELSE 2 * a[x \div 2][y \div 2] + (x % 2) * (y % 2)]]
<1>7. \A a : Body(0, a) = Zero
  BY Zenon
<1>8. \A n, a : n # 0 => Body(n, a) = More(a)
  BY Zenon
<1>9. g = [n \in 0 .. N |-> Body(n, g[n - 1])]
  <2> HIDE DEF Zero, More, Body
  <2>1. ASSUME NEW n \in 0 .. N, n # 0
        PROVE  g[n] = Body(n, g[n - 1])
    <3>1. n \in 1 .. N /\ n - 1 \in 0 .. N
      BY <1>1, <2>1
    <3>2. g[n] = step[n][g[n - 1]]
      BY <1>6, <3>1, Zenon DEF Follows
    <3>3. g[n] = More(g[n - 1])
      BY <1>5, <1>6, <3>1, <3>2, Zenon
    <3> QED
      BY <1>8, <2>1, <3>3, Zenon
  <2>2. g[0] = Body(0, g[0 - 1])
    BY <1>6, <1>7, Zenon DEF Follows
  <2> QED
    BY <1>6, <2>1, <2>2, Zenon
<1>10. And = [n \in 0 .. N |-> Body(n, And[n - 1])]
  BY <1>9, Zenon DEF And, Bits, N
<1>11. PICK f : f = And
  BY Zenon
<1>12. f = [n \in 0 .. N |-> Body(n, f[n - 1])]
  BY <1>10, <1>11, Zenon
<1>13. f[0] = Zero /\ \A n \in 1 .. N : f[n] = More(f[n - 1])
  <2> HIDE DEF Zero, More, Body
  <2>1. 0 \in 0 .. N /\ \A n \in 1 .. N : n \in 0 .. N /\ n # 0
    BY <1>1
  <2> QED
    BY <1>7, <1>8, <1>12, <2>1, Zenon
<1>14. \A i \in 0 .. N : f[i] \in S
  <2> HIDE DEF Zero, More, Body
  <2>1. f[0] \in S
    BY <1>2, <1>13, Zenon
  <2>2. \A i \in 1 .. N : f[i - 1] \in S => f[i] \in S
    BY <1>3, <1>13, Zenon
  <2> QED
    BY <1>1, <2>1, <2>2, StaysIn, Zenon
<1>17. ASSUME NEW a, NEW b, b \in [Nat -> [Nat -> Nat]], b = More(a)
       PROVE  AndStep(a, b)
  <2> SUFFICES ASSUME NEW x \in Nat, NEW y \in Nat
               PROVE  b[x][y] = 2 * a[x \div 2][y \div 2] + (x % 2) * (y % 2)
    BY <1>17, Zenon DEF AndStep
  <2>1. b[x] = [z \in Nat |-> 2 * a[x \div 2][z \div 2] + (x % 2) * (z % 2)]
    BY <1>17, Zenon
  <2> QED
    BY <2>1, Zenon
<1>18. \A x, y \in Nat : Zero[x][y] = 0
  BY Zenon
<1> HIDE DEF More, Zero
<1>15. \A n \in 1 .. N : AndStep(f[n - 1], f[n])
  <2> SUFFICES ASSUME NEW n \in 1 .. N
               PROVE  AndStep(f[n - 1], f[n])
    BY Zenon
  <2>1. n \in 0 .. N
    BY <1>1
  <2> QED
    <3>1. f[n] \in [Nat -> [Nat -> Nat]]
      BY <1>14, <2>1, Zenon DEF S
    <3>2. f[n] = More(f[n - 1])
      BY <1>13, Zenon
    <3> QED
      BY <1>17, <3>1, <3>2, Zenon
<1>16. \A x, y \in Nat : f[0][x][y] = 0
  BY <1>13, <1>18, Zenon
<1> QED
  BY <1>11, <1>14, <1>15, <1>16, Zenon DEF Bits, N, S

(* One more bit. *)
AndMoreIs(n, x, y) ==
  /\ n \in Bits /\ x \div 2 \in Nat /\ y \div 2 \in Nat /\ (x % 2) * (y % 2) \in 0 .. 1
  /\ And[n][x \div 2][y \div 2] \in Nat
  /\ And[n + 1][x][y] = 2 * And[n][x \div 2][y \div 2] + (x % 2) * (y % 2)
  /\ Pow2[n] \in Nat \ {0} /\ Pow2[n + 1] = 2 * Pow2[n]

LEMMA AndMore ==
  ASSUME NEW n \in Nat, n + 1 \in Bits, NEW x \in Nat, NEW y \in Nat
  PROVE  AndMoreIs(n, x, y)
<1>1. n \in Bits /\ n + 1 \in 1 .. 2 * HalfBits /\ (n + 1) - 1 = n
  BY FilterAssumption DEF Bits
<1>2. x \div 2 \in Nat /\ y \div 2 \in Nat
  OBVIOUS
<1>3. (x % 2) * (y % 2) \in 0 .. 1
  <2>1. x % 2 \in {0, 1} /\ y % 2 \in {0, 1}
    OBVIOUS
  <2>2. \A i, j \in {0, 1} : i * j \in 0 .. 1
    OBVIOUS
  <2> QED
    BY <2>1, <2>2, Zenon
<1>4. And[n] \in [Nat -> [Nat -> Nat]]
  BY <1>1, AndIs, Zenon
<1>5. AndStep(And[n], And[n + 1])
  <2>1. AndStep(And[(n + 1) - 1], And[n + 1])
    BY <1>1, AndIs, Zenon
  <2> QED
    BY <1>1, <2>1, Zenon
<1>6. Pow2[n] \in Nat \ {0} /\ Pow2[n + 1] = 2 * Pow2[(n + 1) - 1]
  BY <1>1, Pow2Is, Zenon
<1> QED
  BY <1>1, <1>2, <1>3, <1>4, <1>5, <1>6, Zenon DEF AndStep, AndMoreIs

(* And of n bits is below 2^n. *)
LEMMA AndBounded ==
  ASSUME NEW n \in Bits, NEW x \in Nat, NEW y \in Nat
  PROVE  And[n][x][y] \in Nat /\ And[n][x][y] < Pow2[n]
<1> DEFINE T == {k \in Nat : k \in Bits => \A u, v \in Nat : And[k][u][v] < Pow2[k]}
<1>1. 0 \in T
  <2>1. 0 < 1 /\ 0 \in Nat
    OBVIOUS
  <2>2. \A u, v \in Nat : And[0][u][v] < Pow2[0]
    BY <2>1, AndIs, Pow2Is, Zenon
  <2> QED
    BY <2>1, <2>2, Zenon
<1>2. ASSUME NEW k \in Nat, k \in T, k + 1 \in Bits, NEW u \in Nat, NEW v \in Nat
      PROVE  And[k + 1][u][v] < Pow2[k + 1]
  <2>1. AndMoreIs(k, u, v)
    BY <1>2, AndMore, Zenon
  <2>2. And[k][u \div 2][v \div 2] < Pow2[k]
    BY <1>2, <2>1, Zenon DEF AndMoreIs
  <2>3. PICK a : a = And[k][u \div 2][v \div 2]
    BY Zenon
  <2>6. PICK p : p = Pow2[k]
    BY Zenon
  <2>7. PICK b : b = (u % 2) * (v % 2)
    BY Zenon
  <2>4. /\ a \in Nat /\ p \in Nat /\ b \in 0 .. 1
        /\ a < p /\ And[k + 1][u][v] = 2 * a + b /\ Pow2[k + 1] = 2 * p
    BY <2>1, <2>2, <2>3, <2>6, <2>7 DEF AndMoreIs
  <2>5. 2 * a + b < 2 * p
    BY <2>4
  <2> QED
    BY <2>4, <2>5, Zenon
<1>3. \A k \in Nat : k \in T => k + 1 \in T
  <2>1. \A k \in Nat : k + 1 \in Nat
    OBVIOUS
  <2> QED
    BY <1>2, <2>1
<1>4. Nat \subseteq T
  <2> HIDE DEF T
  <2> QED
    BY <1>1, <1>3, Induction, Zenon
<1>5. n \in Nat
  BY FilterAssumption DEF Bits
<1>6. And[n] \in [Nat -> [Nat -> Nat]]
  BY AndIs, Zenon
<1> QED
  BY <1>4, <1>5, <1>6, Zenon

(* And of n + k bits, from its k lower and its n upper ones. *)
AndSplitIs(n, k, x, y) ==
  And[n + k][x][y] = Pow2[k] * And[n][x \div Pow2[k]][y \div Pow2[k]]
                       + And[k][x % Pow2[k]][y % Pow2[k]]

LEMMA AndSplit ==
  ASSUME NEW n \in Nat, NEW m \in Nat, n + m \in Bits, NEW x \in Nat, NEW y \in Nat
  PROVE  AndSplitIs(n, m, x, y)
<1> DEFINE T == {k \in Nat : n + k \in Bits => \A u, v \in Nat : AndSplitIs(n, k, u, v)}
<1>1. 0 \in T
  <2>1. ASSUME NEW u \in Nat, NEW v \in Nat
        PROVE  AndSplitIs(n, 0, u, v)
    <3>1. u \div 1 = u /\ v \div 1 = v /\ u % 1 \in Nat /\ v % 1 \in Nat /\ n + 0 = n
      OBVIOUS
    <3>2. n \in Bits
      BY FilterAssumption DEF Bits
    <3>3. And[n][u][v] \in Nat
      BY <3>2, AndBounded, Zenon
    <3>4. And[0][u % 1][v % 1] = 0
      BY <3>1, AndIs, Zenon
    <3>5. PICK a \in Nat : a = And[n][u][v]
      BY <3>3, Zenon
    <3>6. a = 1 * a + 0
      OBVIOUS
    <3> QED
      BY <3>1, <3>4, <3>5, <3>6, Pow2Is DEF AndSplitIs
  <2> QED
    BY <2>1
<1>2. ASSUME NEW k \in Nat, k \in T, n + (k + 1) \in Bits, NEW u \in Nat, NEW v \in Nat
      PROVE  AndSplitIs(n, k + 1, u, v)
  <2>1. /\ n + k \in Nat /\ (n + k) + 1 = n + (k + 1)
        /\ n + k \in Bits /\ k + 1 \in Bits /\ n \in Bits /\ k \in Bits
    BY <1>2, FilterAssumption DEF Bits
  <2>2. AndMoreIs(n + k, u, v)
    BY <1>2, <2>1, AndMore, Zenon
  <2>3. PICK d : d = Pow2[k]
    BY Zenon
  <2>4. PICK p : p = u % (2 * d)
    BY Zenon
  <2>5. PICK q : q = v % (2 * d)
    BY Zenon
  <2>6. d \in Nat \ {0} /\ Pow2[k + 1] = 2 * d
    <3>1. k + 1 \in 1 .. 2 * HalfBits /\ (k + 1) - 1 = k
      BY <2>1, FilterAssumption DEF Bits
    <3>2. Pow2[k] \in Nat \ {0} /\ Pow2[k + 1] = 2 * Pow2[(k + 1) - 1]
      BY <2>1, <3>1, Pow2Is, Zenon
    <3> QED
      BY <2>3, <3>1, <3>2, Zenon
  <2>7. /\ (u \div 2) \div d = u \div (2 * d) /\ (u \div 2) % d = p \div 2 /\ u % 2 = p % 2
        /\ u \div 2 \in Nat /\ p \in Nat /\ u \div (2 * d) \in Nat
    BY <2>4, <2>6, LowestBit, Zenon
  <2>8. /\ (v \div 2) \div d = v \div (2 * d) /\ (v \div 2) % d = q \div 2 /\ v % 2 = q % 2
        /\ v \div 2 \in Nat /\ q \in Nat /\ v \div (2 * d) \in Nat
    BY <2>5, <2>6, LowestBit, Zenon
  <2>9. AndSplitIs(n, k, u \div 2, v \div 2)
    BY <1>2, <2>1, <2>7, <2>8, Zenon
  <2>10. AndMoreIs(k, p, q)
    BY <1>2, <2>1, <2>7, <2>8, AndMore, Zenon
  <2>11. PICK a : a = And[n][u \div (2 * d)][v \div (2 * d)]
    BY Zenon
  <2>12. PICK b : b = And[k][p \div 2][q \div 2]
    BY Zenon
  <2>13. PICK w : w = (p % 2) * (q % 2)
    BY Zenon
  <2>14. a \in Nat
    BY <2>1, <2>7, <2>8, <2>11, AndBounded, Zenon
  <2>15. b \in Nat /\ w \in Nat /\ And[k + 1][p][q] = 2 * b + w
    <3>1. b \in Nat /\ And[k + 1][p][q] = 2 * b + w /\ w \in 0 .. 1
      BY <2>10, <2>12, <2>13, Zenon DEF AndMoreIs
    <3> QED
      BY <3>1
  <2>16. And[n + k][u \div 2][v \div 2] = d * a + b
    BY <2>3, <2>7, <2>8, <2>9, <2>11, <2>12, Zenon DEF AndSplitIs
  <2>17. And[n + (k + 1)][u][v] = 2 * (d * a + b) + w
    BY <2>1, <2>2, <2>7, <2>8, <2>13, <2>16, Zenon DEF AndMoreIs
  <2>18. 2 * (d * a + b) + w = (2 * d) * a + (2 * b + w)
    <3>1. PICK da : da = d * a
      BY Zenon
    <3>2. da \in Nat /\ (2 * d) * a = 2 * da
      BY <2>6, <2>14, <3>1
    <3>3. 2 * (da + b) + w = 2 * da + (2 * b + w)
      BY <2>15, <3>2
    <3> QED
      BY <3>1, <3>2, <3>3, Zenon
  <2> QED
    BY <2>4, <2>5, <2>6, <2>11, <2>15, <2>17, <2>18, Zenon DEF AndSplitIs
<1>3. \A k \in Nat : k \in T => k + 1 \in T
  <2>1. \A k \in Nat : k + 1 \in Nat
    OBVIOUS
  <2> QED
    BY <1>2, <2>1, Zenon
<1>4. Nat \subseteq T
  <2> HIDE DEF T
  <2> QED
    BY <1>1, <1>3, Induction, Zenon
<1> QED
  BY <1>4, Zenon

(* A word and its halves. *)
Upper(x) == x \div Half
Lower(x) == x % Half

HalvesOf(x) ==
  /\ x \in Nat /\ Upper(x) \in Nat /\ Lower(x) \in Nat
  /\ Lower(x) < Half /\ x = Half * Upper(x) + Lower(x)

LEMMA HalfIs == Half \in Nat \ {0} /\ HalfBits \in Bits /\ HalfBits + HalfBits \in Bits
<1>1. HalfBits \in Bits /\ HalfBits + HalfBits \in Bits
  BY FilterAssumption DEF Bits
<1> QED
  BY <1>1, Pow2Is, Zenon DEF Half

LEMMA Halves ==
  ASSUME NEW x \in Nat
  PROVE  HalvesOf(x)
BY HalfIs, Divided, Zenon DEF HalvesOf, Upper, Lower

(* The order of words, from that of their halves. *)
LEMMA CompareHalves ==
  ASSUME NEW x \in Nat, NEW y \in Nat
  PROVE  /\ x = y <=> Upper(x) = Upper(y) /\ Lower(x) = Lower(y)
         /\ x > y <=> Upper(x) > Upper(y) \/ (Upper(x) = Upper(y) /\ Lower(x) > Lower(y))
         /\ x >= y <=> Upper(x) > Upper(y) \/ (Upper(x) = Upper(y) /\ Lower(x) >= Lower(y))
<1>1. PICK d \in Nat \ {0} : d = Half
  BY HalfIs, Zenon
<1>2. PICK p \in Nat, q \in Nat, r \in Nat, t \in Nat :
         /\ p = Upper(x) /\ r = Lower(x) /\ r < d /\ x = d * p + r
         /\ q = Upper(y) /\ t = Lower(y) /\ t < d /\ y = d * q + t
  <2>1. HalvesOf(x) /\ HalvesOf(y)
    BY Halves, Zenon
  <2> QED
    BY <1>1, <2>1 DEF HalvesOf
<1>3. ASSUME NEW u \in Nat, NEW w \in Nat, NEW a \in Nat, NEW b \in Nat, a < d, u > w
      PROVE  d * u + b > d * w + a
  <2>1. PICK k \in Nat : u = w + 1 + k
    <3>1. u - w - 1 \in Nat /\ u = w + 1 + (u - w - 1)
      BY <1>3
    <3> QED
      BY <3>1, Zenon
  <2>2. d * u = d * w + d + d * k /\ d * k \in Nat /\ d * w \in Nat
    BY <2>1
  <2> QED
    BY <1>3, <2>2
<1>4. p > q => x > y
  BY <1>2, <1>3
<1>5. q > p => y > x
  BY <1>2, <1>3
<1>6. p = q => (x > y <=> r > t) /\ (x = y <=> r = t)
  <2>1. PICK z \in Nat : z = d * q
    OBVIOUS
  <2>2. p = q => x = z + r /\ y = z + t
    BY <1>2, <2>1, Zenon
  <2> QED
    BY <2>2
<1>7. p > q \/ q > p \/ p = q
  OBVIOUS
<1>8. /\ x = y <=> p = q /\ r = t
      /\ x > y <=> p > q \/ (p = q /\ r > t)
      /\ x >= y <=> p > q \/ (p = q /\ r >= t)
  BY <1>4, <1>5, <1>6, <1>7
<1> QED
  BY <1>2, <1>8, Zenon

(* The halves of a conjunction are the conjunctions of the halves. *)
HasHalves(z, upper, lower) == z \in Nat /\ Upper(z) = upper /\ Lower(z) = lower
MaskedIs(x, m) ==
  HasHalves(And[2 * HalfBits][x][m],
            And[HalfBits][Upper(x)][Upper(m)], And[HalfBits][Lower(x)][Lower(m)])

LEMMA MaskedHalves ==
  ASSUME NEW x \in Nat, NEW m \in Nat
  PROVE  MaskedIs(x, m)
<1>1. HalfBits \in Nat /\ 2 * HalfBits = HalfBits + HalfBits
  BY FilterAssumption
<1>2. AndSplitIs(HalfBits, HalfBits, x, m)
  BY <1>1, HalfIs, AndSplit, Zenon
<1>3. HalvesOf(x) /\ HalvesOf(m)
  BY Halves, Zenon
<1>4. PICK q : q = And[HalfBits][Upper(x)][Upper(m)]
  BY Zenon
<1>5. PICK r : r = And[HalfBits][Lower(x)][Lower(m)]
  BY Zenon
<1>6. q \in Nat /\ r \in Nat /\ r < Half
  BY <1>3, <1>4, <1>5, HalfIs, AndBounded, Zenon DEF HalvesOf, Half
<1>7. And[2 * HalfBits][x][m] = Half * q + r
  BY <1>1, <1>2, <1>4, <1>5, Zenon DEF AndSplitIs, Upper, Lower, Half
<1>8. Half * q + r \in Nat
  BY <1>6, HalfIs
<1>9. PICK z : z = And[2 * HalfBits][x][m]
  BY Zenon
<1>10. z \in Nat /\ z \div Half = q /\ z % Half = r
  <2>1. z = Half * q + r
    BY <1>7, <1>9, Zenon
  <2>2. z \in Nat
    BY <1>8, <2>1, Zenon
  <2> QED
    BY <1>6, <2>1, <2>2, HalfIs, QuotientIs, Zenon
<1>11. HasHalves(z, q, r)
  BY <1>10, Zenon DEF HasHalves, Upper, Lower
<1> QED
  BY <1>4, <1>5, <1>9, <1>11, Zenon DEF MaskedIs

--------------------------------------------------------------------------------
(* A condition, from the halves of its argument and of its value. *)

Call == [arch : STRING, nr : Nat, args : [Args -> Value]]

Given(c) == IF c.op = "masked" THEN And[2 * HalfBits][c.value][c.mask] ELSE c.value

LowerMeets(c, a, v) ==
  CASE c.op = "eq" -> a = v
    [] c.op = "ne" -> a # v
    [] c.op = "ge" -> a >= v
    [] c.op = "gt" -> a > v
    [] c.op = "le" -> ~(a > v)
    [] c.op = "lt" -> ~(a >= v)
    [] OTHER -> And[HalfBits][a][Lower(c.mask)] = v

BothMeet(c, a, v, lower) ==
  CASE c.op = "eq" -> a = v /\ lower
    [] c.op = "ne" -> a = v => lower
    [] c.op \in {"ge", "gt"} -> a > v \/ (a = v /\ lower)
    [] c.op \in {"le", "lt"} -> ~(a > v) /\ (a = v => lower)
    [] OTHER -> And[HalfBits][a][Upper(c.mask)] = v /\ lower

HalvesMeet(s, c) ==
  LET a == s.args[c.arg]
      lower == LowerMeets(c, Lower(a), Lower(Given(c)))
  IN IF c.len = "qword" THEN BothMeet(c, Upper(a), Upper(Given(c)), lower) ELSE lower

LEMMA ValueIs ==
  ASSUME NEW x \in Value
  PROVE  x \in Nat /\ x % (Half * Half) = x
<1>1. PICK d \in Nat \ {0} : d = Half * Half
  <2>1. \A h \in Nat \ {0} : h * h \in Nat \ {0}
    OBVIOUS
  <2> QED
    BY <2>1, HalfIs, Zenon
<1>2. x \in 0 .. d - 1
  BY <1>1, Zenon DEF Value
<1>3. x % d = x
  BY <1>2
<1> QED
  BY <1>1, <1>2, <1>3

LEMMA LowerIs ==
  ASSUME NEW x \in Nat
  PROVE  Lower(x) \in Nat /\ Upper(Lower(x)) = 0 /\ Lower(Lower(x)) = Lower(x)
<1>1. PICK r \in Nat : r = Lower(x) /\ r < Half
  BY Halves, Zenon DEF HalvesOf
<1>2. r = Half * 0 + r
  BY HalfIs
<1>3. r \div Half = 0 /\ r % Half = r
  BY <1>1, <1>2, HalfIs, QuotientIs
<1> QED
  BY <1>1, <1>3, Zenon DEF Upper, Lower

(* Two words agree on the bits of a mask when their halves do. *)
AgreeHalves(x, y, m) ==
  And[2 * HalfBits][x][m] = And[2 * HalfBits][y][m]
    <=> /\ And[HalfBits][Upper(x)][Upper(m)] = And[HalfBits][Upper(y)][Upper(m)]
        /\ And[HalfBits][Lower(x)][Lower(m)] = And[HalfBits][Lower(y)][Lower(m)]

LEMMA MaskedAgree ==
  ASSUME NEW x \in Nat, NEW y \in Nat, NEW m \in Nat
  PROVE  AgreeHalves(x, y, m)
<1>1. PICK u : u = And[2 * HalfBits][x][m]
  BY Zenon
<1>2. PICK v : v = And[2 * HalfBits][y][m]
  BY Zenon
<1>3. HasHalves(u, And[HalfBits][Upper(x)][Upper(m)], And[HalfBits][Lower(x)][Lower(m)])
  BY <1>1, MaskedHalves, Zenon DEF MaskedIs
<1>4. HasHalves(v, And[HalfBits][Upper(y)][Upper(m)], And[HalfBits][Lower(y)][Lower(m)])
  BY <1>2, MaskedHalves, Zenon DEF MaskedIs
<1>5. u \in Nat /\ v \in Nat
  BY <1>3, <1>4, Zenon DEF HasHalves
<1>6. u = v <=> Upper(u) = Upper(v) /\ Lower(u) = Lower(v)
  BY <1>5, CompareHalves, Zenon
<1> QED
  BY <1>1, <1>2, <1>3, <1>4, <1>6, Zenon DEF HasHalves, AgreeHalves

(* The values a condition compares. *)
LEMMA ComparedIs ==
  ASSUME NEW s \in Call, NEW c \in Condition
  PROVE  /\ s.args[c.arg] \in Value /\ c.value \in Value /\ c.mask \in Value
         /\ c.op \in Operators /\ c.len \in {"dword", "qword"} /\ c.arg \in Args
         /\ Given(c) \in Nat
<1>1. /\ s.args[c.arg] \in Value /\ c.value \in Value /\ c.mask \in Value
      /\ c.op \in Operators /\ c.len \in {"dword", "qword"} /\ c.arg \in Args
  BY Zenon DEF Call, Condition
<1>2. Given(c) \in Nat
  <2>1. c.value \in Nat /\ c.mask \in Nat
    BY <1>1, ValueIs, Zenon
  <2>2. And[2 * HalfBits][c.value][c.mask] \in Nat
    BY <2>1, MaskedHalves, Zenon DEF MaskedIs, HasHalves
  <2> QED
    BY <2>1, <2>2, Zenon DEF Given
<1> QED
  BY <1>1, <1>2, Zenon

(* What a condition compares, as Meets says it. *)
Compares(c, x, y) ==
  CASE c.op = "eq" -> x = y
    [] c.op = "ne" -> x # y
    [] c.op = "ge" -> x >= y
    [] c.op = "gt" -> x > y
    [] c.op = "le" -> x <= y
    [] c.op = "lt" -> x < y
    [] OTHER -> And[2 * HalfBits][x][c.mask] = And[2 * HalfBits][y][c.mask]

LEMMA ComparesDword ==
  ASSUME NEW s \in Call, NEW c \in Condition
  PROVE  Compares(c, Lower(s.args[c.arg]), Lower(c.value))
           <=> LowerMeets(c, Lower(s.args[c.arg]), Lower(Given(c)))
<1>1. PICK x \in Nat, v \in Nat, m \in Nat : x = s.args[c.arg] /\ v = c.value /\ m = c.mask
  BY ComparedIs, ValueIs, Zenon
<1>2. PICK a \in Nat, b \in Nat : a = Lower(x) /\ b = Lower(v)
  BY LowerIs, Zenon
<1>3. c.op \in Operators
  BY ComparedIs, Zenon
<1>4. CASE c.op = "masked"
  <2>1. And[2 * HalfBits][a][m] = And[2 * HalfBits][b][m]
          <=> And[HalfBits][a][Lower(m)] = And[HalfBits][b][Lower(m)]
    <3>1. Upper(a) = 0 /\ Lower(a) = a /\ Upper(b) = 0 /\ Lower(b) = b
      BY <1>2, LowerIs, Zenon
    <3>2. AgreeHalves(a, b, m)
      BY MaskedAgree, Zenon
    <3>3. /\ And[HalfBits][Upper(a)][Upper(m)] = And[HalfBits][Upper(b)][Upper(m)]
          /\ And[HalfBits][Lower(a)][Lower(m)] = And[HalfBits][a][Lower(m)]
          /\ And[HalfBits][Lower(b)][Lower(m)] = And[HalfBits][b][Lower(m)]
      BY <3>1, Zenon
    <3> QED
      BY <3>2, <3>3, Zenon DEF AgreeHalves
  <2>2. Lower(Given(c)) = And[HalfBits][b][Lower(m)]
    <3>1. Given(c) = And[2 * HalfBits][v][m]
      BY <1>1, <1>4, Zenon DEF Given
    <3>2. HasHalves(Given(c), And[HalfBits][Upper(v)][Upper(m)], And[HalfBits][Lower(v)][Lower(m)])
      BY <3>1, MaskedHalves, Zenon DEF MaskedIs
    <3> QED
      BY <1>2, <3>2, Zenon DEF HasHalves
  <2>3. Compares(c, a, b) <=> And[2 * HalfBits][a][m] = And[2 * HalfBits][b][m]
    BY <1>1, <1>4 DEF Compares
  <2>4. LowerMeets(c, a, Lower(Given(c))) <=> And[HalfBits][a][Lower(m)] = Lower(Given(c))
    BY <1>1, <1>4 DEF LowerMeets
  <2> QED
    BY <1>1, <1>2, <2>1, <2>2, <2>3, <2>4, Zenon
<1>5. CASE c.op # "masked"
  <2>1. Lower(Given(c)) = b
    BY <1>1, <1>2, <1>5, Zenon DEF Given
  <2>2. Compares(c, a, b) <=> LowerMeets(c, a, b)
    BY <1>3, <1>5 DEF Compares, LowerMeets, Operators
  <2> QED
    BY <1>1, <1>2, <2>1, <2>2, Zenon
<1> QED
  BY <1>4, <1>5, Zenon

LEMMA ComparesQword ==
  ASSUME NEW s \in Call, NEW c \in Condition
  PROVE  Compares(c, s.args[c.arg], c.value)
           <=> BothMeet(c, Upper(s.args[c.arg]), Upper(Given(c)),
                        LowerMeets(c, Lower(s.args[c.arg]), Lower(Given(c))))
<1>1. PICK x \in Nat, v \in Nat, m \in Nat : x = s.args[c.arg] /\ v = c.value /\ m = c.mask
  BY ComparedIs, ValueIs, Zenon
<1>2. PICK a \in Nat, b \in Nat : a = Lower(x) /\ b = Lower(v)
  BY LowerIs, Zenon
<1>3. PICK p \in Nat, q \in Nat : p = Upper(x) /\ q = Upper(v)
  BY Halves, Zenon DEF HalvesOf
<1>4. c.op \in Operators
  BY ComparedIs, Zenon
<1>5. CASE c.op = "masked"
  <2>1. /\ Upper(Given(c)) = And[HalfBits][q][Upper(m)]
        /\ Lower(Given(c)) = And[HalfBits][b][Lower(m)]
    <3>1. Given(c) = And[2 * HalfBits][v][m]
      BY <1>1, <1>5, Zenon DEF Given
    <3>2. HasHalves(Given(c), And[HalfBits][Upper(v)][Upper(m)], And[HalfBits][Lower(v)][Lower(m)])
      BY <3>1, MaskedHalves, Zenon DEF MaskedIs
    <3> QED
      BY <1>2, <1>3, <3>2, Zenon DEF HasHalves
  <2>2. And[2 * HalfBits][x][m] = And[2 * HalfBits][v][m]
           <=> /\ And[HalfBits][p][Upper(m)] = And[HalfBits][q][Upper(m)]
               /\ And[HalfBits][a][Lower(m)] = And[HalfBits][b][Lower(m)]
    <3>1. AgreeHalves(x, v, m)
      BY MaskedAgree, Zenon
    <3> QED
      BY <1>2, <1>3, <3>1, Zenon DEF AgreeHalves
  <2>3. Compares(c, x, v) <=> And[2 * HalfBits][x][m] = And[2 * HalfBits][v][m]
    BY <1>1, <1>5 DEF Compares
  <2>4. LowerMeets(c, a, Lower(Given(c))) <=> And[HalfBits][a][Lower(m)] = Lower(Given(c))
    BY <1>1, <1>5 DEF LowerMeets
  <2>5. BothMeet(c, p, Upper(Given(c)), LowerMeets(c, a, Lower(Given(c))))
          <=> And[HalfBits][p][Upper(m)] = Upper(Given(c)) /\ LowerMeets(c, a, Lower(Given(c)))
    BY <1>1, <1>5 DEF BothMeet
  <2>6. BothMeet(c, p, Upper(Given(c)), LowerMeets(c, a, Lower(Given(c))))
          <=> /\ And[HalfBits][p][Upper(m)] = Upper(Given(c))
              /\ And[HalfBits][a][Lower(m)] = Lower(Given(c))
    BY <2>4, <2>5, Zenon
  <2>7. Compares(c, x, v) <=> BothMeet(c, p, Upper(Given(c)), LowerMeets(c, a, Lower(Given(c))))
    BY <2>1, <2>2, <2>3, <2>6, Zenon
  <2> QED
    BY <1>1, <1>2, <1>3, <2>7, Zenon
<1>6. CASE c.op # "masked"
  <2>1. Upper(Given(c)) = q /\ Lower(Given(c)) = b
    BY <1>1, <1>2, <1>3, <1>6, Zenon DEF Given
  <2>2. /\ x = v <=> p = q /\ a = b
        /\ x > v <=> p > q \/ (p = q /\ a > b)
        /\ x >= v <=> p > q \/ (p = q /\ a >= b)
    BY <1>2, <1>3, CompareHalves, Zenon
  <2>3. Compares(c, x, v) <=> BothMeet(c, p, q, LowerMeets(c, a, b))
    BY <1>4, <1>6, <2>2 DEF Compares, BothMeet, LowerMeets, Operators
  <2> QED
    BY <1>1, <1>2, <1>3, <2>1, <2>3, Zenon
<1> QED
  BY <1>5, <1>6, Zenon

LEMMA MeetsHalves ==
  ASSUME NEW s \in Call, NEW c \in Condition
  PROVE  Meets(s, c) <=> HalvesMeet(s, c)
<1>1. s.args[c.arg] \in Value /\ c.value \in Value /\ c.len \in {"dword", "qword"}
  BY ComparedIs, Zenon
<1>2. CASE c.len = "dword"
  <2>1. Meets(s, c) <=> Compares(c, s.args[c.arg] % Half, c.value % Half)
    BY <1>2, Zenon DEF Meets, Compares
  <2> QED
    BY <1>2, <2>1, ComparesDword, Zenon DEF Lower, HalvesMeet
<1>3. CASE c.len = "qword"
  <2>1. Meets(s, c) <=> Compares(c, s.args[c.arg] % (Half * Half), c.value % (Half * Half))
    BY <1>3, Zenon DEF Meets, Compares
  <2>2. s.args[c.arg] % (Half * Half) = s.args[c.arg] /\ c.value % (Half * Half) = c.value
    BY <1>1, ValueIs, Zenon
  <2> QED
    BY <1>3, <2>1, <2>2, ComparesQword, Zenon DEF HalvesMeet
<1> QED
  BY <1>1, <1>2, <1>3, Zenon

--------------------------------------------------------------------------------
(* The machine, from one instruction to the next. *)

(* From instruction p, with a in the accumulator, the program returns v: the  *)
(* steps of the machine stay in a set where it can only do so.                *)
Runs(prog, s, v, R) ==
  \A q, b : <<q, b>> \in R =>
    /\ q \in 1 .. Len(prog)
    /\ prog[q].op = "ret" => prog[q].k = v
    /\ prog[q].op # "ret" => <<q + 1 + Skipped(prog[q], b), AccAfter(s, prog[q], b)>> \in R

Leads(prog, s, p, a, v) == \E R : <<p, a>> \in R /\ Runs(prog, s, v, R)

Reaches(prog, s, p, v) == \A a : Leads(prog, s, p, a, v)

Holds(prog, p, i) == p \in 1 .. Len(prog) /\ prog[p] = i

LEMMA LeadsRet ==
  ASSUME NEW prog, NEW s, NEW p, NEW v, Holds(prog, p, Ret(v))
  PROVE  Reaches(prog, s, p, v)
<1> SUFFICES ASSUME NEW a PROVE Leads(prog, s, p, a, v)
  BY Zenon DEF Reaches
<1>1. p \in 1 .. Len(prog) /\ prog[p].op = "ret" /\ prog[p].k = v
  BY DEF Ret, Holds
<1>2. \A q, b : <<q, b>> \in {<<p, a>>} => q = p /\ b = a
  OBVIOUS
<1>3. <<p, a>> \in {<<p, a>>} /\ Runs(prog, s, v, {<<p, a>>})
  BY <1>1, <1>2, Zenon DEF Runs
<1> QED
  BY <1>3, Zenon DEF Leads

LEMMA LeadsStep ==
  ASSUME NEW prog, NEW s, NEW p \in 1 .. Len(prog), NEW a, NEW v, prog[p].op # "ret",
         Leads(prog, s, p + 1 + Skipped(prog[p], a), AccAfter(s, prog[p], a), v)
  PROVE  Leads(prog, s, p, a, v)
<1>1. PICK R : /\ <<p + 1 + Skipped(prog[p], a), AccAfter(s, prog[p], a)>> \in R
               /\ Runs(prog, s, v, R)
  BY Zenon DEF Leads
<1>2. PICK T : T = R \cup {<<p, a>>}
  BY Zenon
<1>3. \A q, b : <<q, b>> \in T => <<q, b>> \in R \/ (q = p /\ b = a)
  BY <1>2
<1>4. R \subseteq T /\ <<p, a>> \in T
  BY <1>2, Zenon
<1>5. Runs(prog, s, v, T)
  <2> SUFFICES ASSUME NEW q, NEW b, <<q, b>> \in T
               PROVE  /\ q \in 1 .. Len(prog)
                      /\ prog[q].op = "ret" => prog[q].k = v
                      /\ prog[q].op # "ret" =>
                           <<q + 1 + Skipped(prog[q], b), AccAfter(s, prog[q], b)>> \in T
    BY Zenon DEF Runs
  <2>1. CASE <<q, b>> \in R
    BY <1>1, <1>4, <2>1, Zenon DEF Runs
  <2>2. CASE q = p /\ b = a
    BY <1>1, <1>4, <2>2, Zenon
  <2> QED
    BY <1>3, <2>1, <2>2, Zenon
<1> QED
  BY <1>4, <1>5, Zenon DEF Leads

(* What a step of the machine may rely on. *)
LEMMA LeadsOn ==
  ASSUME NEW prog, NEW s, NEW p, NEW a, NEW v, Leads(prog, s, p, a, v)
  PROVE  /\ p \in 1 .. Len(prog)
         /\ prog[p].op = "ret" => prog[p].k = v
         /\ prog[p].op # "ret" =>
              Leads(prog, s, p + 1 + Skipped(prog[p], a), AccAfter(s, prog[p], a), v)
BY Zenon DEF Leads, Runs

(* The instructions one by one. *)
LEMMA LeadsLd ==
  ASSUME NEW prog, NEW s, NEW p, NEW of, NEW n, NEW v,
         Holds(prog, p, Ld(of, n)), Leads(prog, s, p + 1, Field(s, [of |-> of, arg |-> n]), v)
  PROVE  Reaches(prog, s, p, v)
<1> SUFFICES ASSUME NEW a PROVE Leads(prog, s, p, a, v)
  BY Zenon DEF Reaches
<1>1. p \in 1 .. Len(prog) /\ prog[p].op = "ld" /\ prog[p].k = [of |-> of, arg |-> n]
  BY DEF Ld, Holds
<1>2. Skipped(prog[p], a) = 0 /\ AccAfter(s, prog[p], a) = Field(s, prog[p].k)
  BY <1>1 DEF Skipped, AccAfter
<1>3. p + 1 + 0 = p + 1
  BY <1>1
<1>4. prog[p].op # "ret"
  BY <1>1
<1> QED
  BY <1>1, <1>2, <1>3, <1>4, LeadsStep, Zenon

LEMMA LeadsAnd ==
  ASSUME NEW prog, NEW s, NEW p, NEW m, NEW a, NEW v,
         Holds(prog, p, AndMask(m)), Leads(prog, s, p + 1, And[HalfBits][a][m], v)
  PROVE  Leads(prog, s, p, a, v)
<1>1. p \in 1 .. Len(prog) /\ prog[p].op = "and" /\ prog[p].k = m
  BY DEF AndMask, Holds
<1>2. Skipped(prog[p], a) = 0 /\ AccAfter(s, prog[p], a) = And[HalfBits][a][m]
  BY <1>1 DEF Skipped, AccAfter
<1>3. p + 1 + 0 = p + 1
  BY <1>1
<1>4. prog[p].op # "ret"
  BY <1>1
<1> QED
  BY <1>1, <1>2, <1>3, <1>4, LeadsStep, Zenon

LEMMA LeadsJa ==
  ASSUME NEW prog, NEW s, NEW p, NEW n \in Nat, NEW a, NEW v,
         Holds(prog, p, Ja(n)), Leads(prog, s, p + 1 + n, a, v)
  PROVE  Leads(prog, s, p, a, v)
<1>1. p \in 1 .. Len(prog) /\ prog[p].op = "ja" /\ prog[p].k = n
  BY DEF Ja, Holds
<1>2. Skipped(prog[p], a) = n /\ AccAfter(s, prog[p], a) = a
  BY <1>1 DEF Skipped, AccAfter
<1>4. prog[p].op # "ret"
  BY <1>1
<1> QED
  BY <1>1, <1>2, <1>4, LeadsStep, Zenon

LEMMA LeadsJump ==
  ASSUME NEW prog, NEW s, NEW p, NEW op \in {"jeq", "jgt", "jge"}, NEW k,
         NEW t \in Nat, NEW f \in Nat, NEW a, NEW v, Holds(prog, p, Jump(op, k, t, f)),
         Taken(prog[p], a) => Leads(prog, s, p + 1 + t, a, v),
         ~Taken(prog[p], a) => Leads(prog, s, p + 1 + f, a, v)
  PROVE  Leads(prog, s, p, a, v)
<1>1. p \in 1 .. Len(prog) /\ prog[p].op = op /\ prog[p].jt = t /\ prog[p].jf = f
  BY DEF Jump, Holds
<1>2. /\ Skipped(prog[p], a) = IF Taken(prog[p], a) THEN t ELSE f
      /\ AccAfter(s, prog[p], a) = a
  BY <1>1 DEF Skipped, AccAfter
<1>4. prog[p].op # "ret"
  BY <1>1
<1> QED
  BY <1>1, <1>2, <1>4, LeadsStep, Zenon

LEMMA LeadsEq ==
  ASSUME NEW prog, NEW s, NEW p, NEW k, NEW t \in Nat, NEW f \in Nat,
         NEW a, NEW v, Holds(prog, p, Jump("jeq", k, t, f)),
         a = k => Leads(prog, s, p + 1 + t, a, v), a # k => Leads(prog, s, p + 1 + f, a, v)
  PROVE  Leads(prog, s, p, a, v)
<1>1. Taken(prog[p], a) <=> a = k
  BY DEF Jump, Taken, Holds
<1> QED
  BY <1>1, LeadsJump, Zenon

LEMMA LeadsGt ==
  ASSUME NEW prog, NEW s, NEW p, NEW k, NEW t \in Nat, NEW f \in Nat,
         NEW a, NEW v, Holds(prog, p, Jump("jgt", k, t, f)),
         a > k => Leads(prog, s, p + 1 + t, a, v), ~(a > k) => Leads(prog, s, p + 1 + f, a, v)
  PROVE  Leads(prog, s, p, a, v)
<1>1. Taken(prog[p], a) <=> a > k
  BY DEF Jump, Taken, Holds
<1> QED
  BY <1>1, LeadsJump, Zenon

LEMMA LeadsGe ==
  ASSUME NEW prog, NEW s, NEW p, NEW k, NEW t \in Nat, NEW f \in Nat,
         NEW a, NEW v, Holds(prog, p, Jump("jge", k, t, f)),
         a >= k => Leads(prog, s, p + 1 + t, a, v), ~(a >= k) => Leads(prog, s, p + 1 + f, a, v)
  PROVE  Leads(prog, s, p, a, v)
<1>1. Taken(prog[p], a) <=> a >= k
  BY DEF Jump, Taken, Holds
<1> QED
  BY <1>1, LeadsJump, Zenon

--------------------------------------------------------------------------------
(* Code in its place in a program. *)

Opcodes == {"ld", "and", "ja", "ret", "jeq", "jgt", "jge"}
Fields == {"arch", "nr", "msb", "lsb"}
Names == {"target", "match", "mismatch", "kill"}
Operand == Nat \cup Names \cup [of : Fields, arg : Args \cup {0}]

Instruction == [op : Opcodes, k : Operand, jt : 0 .. MaxJump, jf : 0 .. MaxJump]

Code == Seq(Instruction)

At(prog, p, code) ==
  /\ prog \in Code /\ p \in Nat \ {0} /\ p + Len(code) <= Len(prog) + 1
  /\ \A i \in 1 .. Len(code) : prog[p + i - 1] = code[i]

LEMMA InstructionIs ==
  /\ \A of \in Fields, n \in Args \cup {0} : Ld(of, n) \in Instruction
  /\ \A m \in Nat : AndMask(m) \in Instruction /\ Ja(m) \in Instruction
  /\ \A v \in Names : Ret(v) \in Instruction
  /\ \A op \in Opcodes, k \in Nat \cup Names, t, f \in 0 .. MaxJump :
       Jump(op, k, t, f) \in Instruction
<1>1. 0 \in 0 .. MaxJump
  BY FilterAssumption
<1>2. \A op \in Opcodes, k \in Operand, t, f \in 0 .. MaxJump :
        [op |-> op, k |-> k, jt |-> t, jf |-> f] \in Instruction
  BY Zenon DEF Instruction
<1>3. \A of \in Fields, n \in Args \cup {0} : [of |-> of, arg |-> n] \in Operand
  BY Zenon DEF Operand
<1>4. \A k \in Nat \cup Names : k \in Operand
  BY Zenon DEF Operand
<1>5. "ld" \in Opcodes /\ "and" \in Opcodes /\ "ja" \in Opcodes /\ "ret" \in Opcodes
  BY Zenon DEF Opcodes
<1>6. \A of \in Fields, n \in Args \cup {0} : Ld(of, n) \in Instruction
  BY <1>1, <1>2, <1>3, <1>5, Zenon DEF Ld
<1>7. \A m \in Nat : AndMask(m) \in Instruction /\ Ja(m) \in Instruction
  BY <1>1, <1>2, <1>4, <1>5, Zenon DEF AndMask, Ja
<1>8. \A v \in Names : Ret(v) \in Instruction
  BY <1>1, <1>2, <1>4, <1>5, Zenon DEF Ret
<1>9. \A op \in Opcodes, k \in Nat \cup Names, t, f \in 0 .. MaxJump :
        Jump(op, k, t, f) \in Instruction
  BY <1>2, <1>4, Zenon DEF Jump
<1> QED
  BY <1>6, <1>7, <1>8, <1>9, Zenon

LEMMA Joined ==
  ASSUME NEW x \in Code, NEW y \in Code
  PROVE  x \o y \in Code /\ Len(x \o y) = Len(x) + Len(y) /\ Len(x) \in Nat /\ Len(y) \in Nat
BY DEF Code

LEMMA AtJoined ==
  ASSUME NEW x \in Code, NEW y \in Code, NEW prog, NEW p, At(prog, p, x \o y)
  PROVE  At(prog, p, x) /\ At(prog, p + Len(x), y)
<1>1. /\ x \o y \in Code /\ Len(x \o y) = Len(x) + Len(y) /\ Len(x) \in Nat /\ Len(y) \in Nat
      /\ Len(prog) \in Nat /\ p \in Nat \ {0}
  BY Joined DEF Code, At
<1>2. \A i \in 1 .. Len(x) : i \in 1 .. Len(x \o y) /\ (x \o y)[i] = x[i]
  BY <1>1 DEF Code
<1>3. \A i \in 1 .. Len(y) : Len(x) + i \in 1 .. Len(x \o y) /\ (x \o y)[Len(x) + i] = y[i]
  BY <1>1 DEF Code
<1>4. ASSUME NEW i \in 1 .. Len(y)
      PROVE  prog[p + Len(x) + i - 1] = y[i]
  <2>1. p + Len(x) + i - 1 = p + (Len(x) + i) - 1
    BY <1>1
  <2>2. prog[p + (Len(x) + i) - 1] = (x \o y)[Len(x) + i]
    BY <1>3, Zenon DEF At
  <2> QED
    BY <1>3, <2>1, <2>2, Zenon
<1>5. /\ p + Len(x) \in Nat \ {0} /\ p + Len(x) <= Len(prog) + 1
      /\ p + Len(x) + Len(y) <= Len(prog) + 1
  BY <1>1 DEF At
<1> QED
  BY <1>2, <1>4, <1>5, Zenon DEF At

LEMMA OneIs ==
  ASSUME NEW i \in Instruction
  PROVE  <<i>> \in Code /\ Len(<<i>>) = 1
BY DEF Code

LEMMA AtOne ==
  ASSUME NEW i \in Instruction, NEW prog, NEW p, At(prog, p, <<i>>)
  PROVE  Holds(prog, p, i) /\ p \in Nat
<1>1. Len(<<i>>) = 1 /\ <<i>>[1] = i
  OBVIOUS
<1>2. p \in Nat \ {0} /\ Len(prog) \in Nat /\ p + 1 <= Len(prog) + 1
  BY <1>1 DEF At, Code
<1>3. p + 1 - 1 = p /\ 1 \in 1 .. 1
  BY <1>2
<1>4. prog[p + 1 - 1] = i
  BY <1>1, <1>3, Zenon DEF At
<1> QED
  BY <1>2, <1>3, <1>4 DEF Holds

LEMMA TwoIs ==
  ASSUME NEW i \in Instruction, NEW j \in Instruction
  PROVE  <<i, j>> \in Code /\ Len(<<i, j>>) = 2
BY DEF Code

LEMMA AtTwo ==
  ASSUME NEW i \in Instruction, NEW j \in Instruction, NEW prog, NEW p, At(prog, p, <<i, j>>)
  PROVE  Holds(prog, p, i) /\ Holds(prog, p + 1, j) /\ p \in Nat
<1>1. Len(<<i, j>>) = 2 /\ <<i, j>>[1] = i /\ <<i, j>>[2] = j
  OBVIOUS
<1>2. p \in Nat \ {0} /\ Len(prog) \in Nat /\ p + 2 <= Len(prog) + 1
  BY <1>1 DEF At, Code
<1>3. p + 1 - 1 = p /\ 1 \in 1 .. 2 /\ 2 \in 1 .. 2 /\ p + 2 - 1 = p + 1
  BY <1>2
<1>4. prog[p + 1 - 1] = i /\ prog[p + 2 - 1] = j
  BY <1>1, <1>3, Zenon DEF At
<1> QED
  BY <1>2, <1>3, <1>4 DEF Holds

LEMMA AtThree ==
  ASSUME NEW i \in Instruction, NEW j \in Instruction, NEW k \in Instruction
  PROVE  /\ <<i, j, k>> \in Code /\ Len(<<i, j, k>>) = 3
         /\ \A prog, p : At(prog, p, <<i, j, k>>) =>
              Holds(prog, p, i) /\ Holds(prog, p + 1, j) /\ Holds(prog, p + 2, k) /\ p \in Nat
<1>1. PICK h : h = <<i, j, k>>
  BY Zenon
<1>2. h \in Code /\ Len(h) = 3 /\ h[1] = i /\ h[2] = j /\ h[3] = k
  BY <1>1 DEF Code
<1>3. ASSUME NEW prog, NEW p, At(prog, p, h)
      PROVE  Holds(prog, p, i) /\ Holds(prog, p + 1, j) /\ Holds(prog, p + 2, k) /\ p \in Nat
  <2>1. p \in Nat \ {0} /\ Len(prog) \in Nat /\ p + 3 <= Len(prog) + 1
    BY <1>2, <1>3 DEF At, Code
  <2>2. /\ p + 1 - 1 = p /\ p + 2 - 1 = p + 1 /\ p + 3 - 1 = p + 2
        /\ 1 \in 1 .. 3 /\ 2 \in 1 .. 3 /\ 3 \in 1 .. 3
    BY <2>1
  <2>3. prog[p + 1 - 1] = h[1] /\ prog[p + 2 - 1] = h[2] /\ prog[p + 3 - 1] = h[3]
    BY <1>2, <1>3, <2>2, Zenon DEF At
  <2>4. p \in 1 .. Len(prog) /\ p + 1 \in 1 .. Len(prog) /\ p + 2 \in 1 .. Len(prog) /\ p \in Nat
    BY <2>1
  <2> QED
    BY <1>2, <2>2, <2>3, <2>4, Zenon DEF Holds
<1> QED
  BY <1>1, <1>2, <1>3, Zenon

--------------------------------------------------------------------------------
(* The code of a condition: it goes on after its end when it is met, and      *)
(* offset further when it is not.                                             *)

CodeRuns(code, met, s, offset) ==
  \A prog, p, w :
    /\ At(prog, p, code)
    /\ met => Reaches(prog, s, p + Len(code), w)
    /\ ~met => Reaches(prog, s, p + Len(code) + offset, w)
    => Reaches(prog, s, p, w)

Room(offset) == offset \in Nat /\ offset + 3 <= MaxJump

LEMMA RoomIs ==
  ASSUME NEW offset, Room(offset)
  PROVE  /\ offset \in Nat /\ 0 \in 0 .. MaxJump /\ 2 \in 0 .. MaxJump /\ 3 \in 0 .. MaxJump
         /\ offset \in 0 .. MaxJump /\ offset + 2 \in 0 .. MaxJump /\ offset + 3 \in 0 .. MaxJump
BY FilterAssumption DEF Room

(* The comparison of a lower half: one jump, taken when it holds or when it   *)
(* does not.                                                                  *)
LsbJumps(c, v, offset, op, t, f) ==
  /\ LsbBpf(c, v, offset) = <<Jump(op, v, t, f)>>
  /\ \/ t = 0 /\ f = offset /\ \A a : Taken(Jump(op, v, t, f), a) <=> LowerMeets(c, a, v)
     \/ t = offset /\ f = 0 /\ \A a : Taken(Jump(op, v, t, f), a) <=> ~LowerMeets(c, a, v)

LEMMA LsbCompare ==
  ASSUME NEW c, c.op \in Operators \ {"masked"}, NEW v \in Nat, NEW offset \in Nat
  PROVE  \E op \in {"jeq", "jgt", "jge"}, t, f \in {0, offset} : LsbJumps(c, v, offset, op, t, f)
<1>1. c.op = "eq" => LsbJumps(c, v, offset, "jeq", 0, offset)
  BY DEF LsbJumps, LsbBpf, Jump, Taken, LowerMeets
<1>2. c.op = "ne" => LsbJumps(c, v, offset, "jeq", offset, 0)
  BY DEF LsbJumps, LsbBpf, Jump, Taken, LowerMeets
<1>3. c.op = "ge" => LsbJumps(c, v, offset, "jge", 0, offset)
  BY DEF LsbJumps, LsbBpf, Jump, Taken, LowerMeets
<1>4. c.op = "gt" => LsbJumps(c, v, offset, "jgt", 0, offset)
  BY DEF LsbJumps, LsbBpf, Jump, Taken, LowerMeets
<1>5. c.op = "le" => LsbJumps(c, v, offset, "jgt", offset, 0)
  BY DEF LsbJumps, LsbBpf, Jump, Taken, LowerMeets
<1>6. c.op = "lt" => LsbJumps(c, v, offset, "jge", offset, 0)
  BY DEF LsbJumps, LsbBpf, Jump, Taken, LowerMeets
<1>7. c.op \in {"eq", "ne", "ge", "gt", "le", "lt"}
  BY DEF Operators
<1> QED
  BY <1>1, <1>2, <1>3, <1>4, <1>5, <1>6, <1>7, Zenon

LEMMA LsbMasked ==
  ASSUME NEW c, c.op = "masked", NEW v, NEW offset
  PROVE  /\ LsbBpf(c, v, offset) = <<AndMask(Lower(c.mask)), Jump("jeq", v, 0, offset)>>
         /\ \A a : LowerMeets(c, a, v) <=> And[HalfBits][a][Lower(c.mask)] = v
<1>1. LsbBpf(c, v, offset) = <<AndMask(Lower(c.mask)), Jump("jeq", v, 0, offset)>>
  BY DEF LsbBpf, Lower
<1>2. \A a : LowerMeets(c, a, v) <=> And[HalfBits][a][Lower(c.mask)] = v
  BY DEF LowerMeets
<1> QED
  BY <1>1, <1>2, Zenon

LEMMA LsbIs ==
  ASSUME NEW c \in Condition, NEW v \in Nat, NEW offset, Room(offset)
  PROVE  /\ LsbBpf(c, v, offset) \in Code
         /\ Len(LsbBpf(c, v, offset)) = IF c.op = "masked" THEN 2 ELSE 1
<1>1. offset \in Nat /\ 0 \in 0 .. MaxJump /\ offset \in 0 .. MaxJump
  BY RoomIs, Zenon
<1>2. "jeq" \in Opcodes /\ {"jeq", "jgt", "jge"} \subseteq Opcodes
  BY Zenon DEF Opcodes
<1>3. c.op \in Operators /\ c.mask \in Value
  BY Zenon DEF Condition
<1>4. CASE c.op = "masked"
  <2>1. Lower(c.mask) \in Nat
    BY <1>3, ValueIs, LowerIs, Zenon
  <2>2. AndMask(Lower(c.mask)) \in Instruction /\ Jump("jeq", v, 0, offset) \in Instruction
    BY <1>1, <1>2, <2>1, InstructionIs, Zenon
  <2>3. LsbBpf(c, v, offset) = <<AndMask(Lower(c.mask)), Jump("jeq", v, 0, offset)>>
    BY <1>4, LsbMasked, Zenon
  <2>4. /\ <<AndMask(Lower(c.mask)), Jump("jeq", v, 0, offset)>> \in Code
        /\ Len(<<AndMask(Lower(c.mask)), Jump("jeq", v, 0, offset)>>) = 2
    BY <2>2, TwoIs, Zenon
  <2> QED
    BY <1>4, <2>3, <2>4, Zenon
<1>5. CASE c.op # "masked"
  <2>1. PICK op \in {"jeq", "jgt", "jge"}, t \in {0, offset}, f \in {0, offset} :
          LsbJumps(c, v, offset, op, t, f)
    BY <1>1, <1>3, <1>5, LsbCompare, Zenon
  <2>2. op \in Opcodes /\ t \in 0 .. MaxJump /\ f \in 0 .. MaxJump
    BY <1>1, <1>2, Zenon
  <2>3. Jump(op, v, t, f) \in Instruction
    BY <2>2, InstructionIs, Zenon
  <2> QED
    BY <1>5, <2>1, <2>3, OneIs, Zenon DEF LsbJumps
<1> QED
  BY <1>4, <1>5, Zenon

(* The lower half of an argument. *)
LowerBpf(c, v, offset) == <<Ld("lsb", c.arg)>> \o LsbBpf(c, v, offset)

LEMMA LowerBpfIs ==
  ASSUME NEW c \in Condition, NEW v \in Nat, NEW offset, Room(offset)
  PROVE  /\ Ld("lsb", c.arg) \in Instruction /\ Ld("msb", c.arg) \in Instruction
         /\ LowerBpf(c, v, offset) \in Code
         /\ Len(LowerBpf(c, v, offset)) = IF c.op = "masked" THEN 3 ELSE 2
<1>1. c.arg \in Args \cup {0}
  BY Zenon DEF Condition
<1>2. "lsb" \in Fields /\ "msb" \in Fields
  BY Zenon DEF Fields
<1>3. Ld("lsb", c.arg) \in Instruction /\ Ld("msb", c.arg) \in Instruction
  BY <1>1, <1>2, InstructionIs, Zenon
<1>4. <<Ld("lsb", c.arg)>> \in Code /\ Len(<<Ld("lsb", c.arg)>>) = 1
  BY <1>3, OneIs, Zenon
<1>5. /\ LsbBpf(c, v, offset) \in Code
      /\ Len(LsbBpf(c, v, offset)) = IF c.op = "masked" THEN 2 ELSE 1
  BY LsbIs, Zenon
<1>6. /\ LowerBpf(c, v, offset) \in Code
      /\ Len(LowerBpf(c, v, offset)) = 1 + Len(LsbBpf(c, v, offset))
  BY <1>4, <1>5, Joined, Zenon DEF LowerBpf
<1>7. 1 + (IF c.op = "masked" THEN 2 ELSE 1) = IF c.op = "masked" THEN 3 ELSE 2
  OBVIOUS
<1> QED
  BY <1>3, <1>5, <1>6, <1>7, Zenon

LEMMA LowerRuns ==
  ASSUME NEW s, NEW c \in Condition, NEW v \in Nat, NEW offset, Room(offset)
  PROVE  CodeRuns(LowerBpf(c, v, offset), LowerMeets(c, Lower(s.args[c.arg]), v), s, offset)
<1> DEFINE a == Lower(s.args[c.arg])
           met == LowerMeets(c, a, v)
           n == Len(LowerBpf(c, v, offset))
<1> SUFFICES ASSUME NEW prog, NEW p, NEW w, At(prog, p, LowerBpf(c, v, offset)),
                    met => Reaches(prog, s, p + n, w),
                    ~met => Reaches(prog, s, p + n + offset, w)
             PROVE  Reaches(prog, s, p, w)
  BY Zenon DEF CodeRuns
<1>1. /\ Ld("lsb", c.arg) \in Instruction /\ n = IF c.op = "masked" THEN 3 ELSE 2
      /\ <<Ld("lsb", c.arg)>> \in Code /\ Len(<<Ld("lsb", c.arg)>>) = 1
      /\ LsbBpf(c, v, offset) \in Code /\ offset \in Nat
  <2>1. Ld("lsb", c.arg) \in Instruction /\ n = IF c.op = "masked" THEN 3 ELSE 2
    BY LowerBpfIs, Zenon
  <2>2. LsbBpf(c, v, offset) \in Code /\ offset \in Nat
    BY LsbIs, RoomIs, Zenon
  <2>3. <<Ld("lsb", c.arg)>> \in Code /\ Len(<<Ld("lsb", c.arg)>>) = 1
    BY <2>1, OneIs, Zenon
  <2> QED
    BY <2>1, <2>2, <2>3, Zenon
<1>2. At(prog, p, <<Ld("lsb", c.arg)>>) /\ At(prog, p + 1, LsbBpf(c, v, offset))
  BY <1>1, AtJoined, Zenon DEF LowerBpf
<1>3. Holds(prog, p, Ld("lsb", c.arg)) /\ p \in Nat
  BY <1>1, <1>2, AtOne, Zenon
<1>4. Field(s, [of |-> "lsb", arg |-> c.arg]) = a
  BY DEF Field, Lower
<1> HIDE DEF a, n
<1>5. /\ met => Leads(prog, s, p + n, a, w) /\ Leads(prog, s, p + n, And[HalfBits][a][Lower(c.mask)], w)
      /\ ~met => /\ Leads(prog, s, p + n + offset, a, w)
                 /\ Leads(prog, s, p + n + offset, And[HalfBits][a][Lower(c.mask)], w)
  BY Zenon DEF Reaches
<1>6. Leads(prog, s, p + 1, a, w)
  <2>1. CASE c.op = "masked"
    <3>1. /\ LsbBpf(c, v, offset) = <<AndMask(Lower(c.mask)), Jump("jeq", v, 0, offset)>>
          /\ met <=> And[HalfBits][a][Lower(c.mask)] = v
      BY <2>1, LsbMasked, Zenon
    <3>2. /\ Holds(prog, p + 1, AndMask(Lower(c.mask)))
          /\ Holds(prog, p + 1 + 1, Jump("jeq", v, 0, offset))
      <4>1. Lower(c.mask) \in Nat /\ "jeq" \in Opcodes /\ 0 \in 0 .. MaxJump /\ offset \in 0 .. MaxJump
        <5>1. c.mask \in Value
          BY Zenon DEF Condition
        <5>2. Lower(c.mask) \in Nat
          BY <5>1, ValueIs, LowerIs, Zenon
        <5> QED
          BY <5>2, RoomIs, Zenon DEF Opcodes
      <4>2. AndMask(Lower(c.mask)) \in Instruction /\ Jump("jeq", v, 0, offset) \in Instruction
        BY <4>1, InstructionIs, Zenon
      <4>3. PICK i \in Instruction, j \in Instruction :
              i = AndMask(Lower(c.mask)) /\ j = Jump("jeq", v, 0, offset)
        BY <4>2, Zenon
      <4>5. LsbBpf(c, v, offset) = <<i, j>>
        BY <3>1, <4>3
      <4>4. At(prog, p + 1, <<i, j>>)
        BY <1>2, <4>5, Zenon
      <4>6. Holds(prog, p + 1, i) /\ Holds(prog, p + 1 + 1, j)
        BY <4>4, AtTwo, Zenon
      <4> QED
        BY <4>3, <4>6, Zenon
    <3>3. p + n = p + 1 + 1 + 1 + 0 /\ p + n + offset = p + 1 + 1 + 1 + offset
      BY <1>1, <1>3, <2>1
    <3>4. Leads(prog, s, p + 1 + 1, And[HalfBits][a][Lower(c.mask)], w)
      BY <1>1, <1>5, <3>1, <3>2, <3>3, LeadsEq, Zenon
    <3> QED
      BY <3>2, <3>4, LeadsAnd, Zenon
  <2>2. CASE c.op # "masked"
    <3>1. c.op \in Operators \ {"masked"}
      BY <2>2, Zenon DEF Condition
    <3>2. PICK op \in {"jeq", "jgt", "jge"}, t \in {0, offset}, f \in {0, offset} :
            LsbJumps(c, v, offset, op, t, f)
      BY <1>1, <3>1, LsbCompare, Zenon
    <3>3. Holds(prog, p + 1, Jump(op, v, t, f)) /\ t \in Nat /\ f \in Nat
      <4>1. op \in Opcodes /\ t \in 0 .. MaxJump /\ f \in 0 .. MaxJump
        <5>1. 0 \in 0 .. MaxJump /\ offset \in 0 .. MaxJump
          BY RoomIs, Zenon
        <5> QED
          BY <5>1, Zenon DEF Opcodes
      <4>2. Jump(op, v, t, f) \in Instruction
        BY <4>1, InstructionIs, Zenon
      <4>3. t \in Nat /\ f \in Nat
        BY <1>1
      <4> QED
        BY <1>2, <3>2, <4>2, <4>3, AtOne, Zenon DEF LsbJumps
    <3>4. p + n = p + 1 + 1 + 0 /\ p + n + offset = p + 1 + 1 + offset
      BY <1>1, <1>3, <2>2
    <3>5. /\ Taken(prog[p + 1], a) => Leads(prog, s, p + 1 + 1 + t, a, w)
          /\ ~Taken(prog[p + 1], a) => Leads(prog, s, p + 1 + 1 + f, a, w)
      BY <1>5, <3>2, <3>3, <3>4, Zenon DEF LsbJumps, Holds
    <3> QED
      BY <3>3, <3>5, LeadsJump, Zenon
  <2> QED
    BY <2>1, <2>2, Zenon
<1> QED
  BY <1>3, <1>4, <1>6, LeadsLd, Zenon

(* The upper half of an argument, before the lower one. *)
LEMMA MsbCode ==
  ASSUME NEW c, NEW v, NEW offset
  PROVE  /\ c.op = "eq" => MsbBpf(c, v, offset) = <<Jump("jeq", v, 0, offset + 2)>>
         /\ c.op = "ne" => MsbBpf(c, v, offset) = <<Jump("jeq", v, 0, 2)>>
         /\ c.op \in {"ge", "gt"} =>
              MsbBpf(c, v, offset) = <<Jump("jgt", v, 3, 0), Jump("jeq", v, 0, offset + 2)>>
         /\ c.op \in {"le", "lt"} =>
              MsbBpf(c, v, offset) = <<Jump("jgt", v, offset + 3, 0), Jump("jeq", v, 0, 2)>>
         /\ c.op = "masked" =>
              MsbBpf(c, v, offset) = <<AndMask(Upper(c.mask)), Jump("jeq", v, 0, offset + 3)>>
<1>1. c.op = "eq" => MsbBpf(c, v, offset) = <<Jump("jeq", v, 0, offset + 2)>>
  BY DEF MsbBpf
<1>2. c.op = "ne" => MsbBpf(c, v, offset) = <<Jump("jeq", v, 0, 2)>>
  BY DEF MsbBpf
<1>3. c.op \in {"ge", "gt"} =>
        MsbBpf(c, v, offset) = <<Jump("jgt", v, 3, 0), Jump("jeq", v, 0, offset + 2)>>
  BY DEF MsbBpf
<1>4. c.op \in {"le", "lt"} =>
        MsbBpf(c, v, offset) = <<Jump("jgt", v, offset + 3, 0), Jump("jeq", v, 0, 2)>>
  BY DEF MsbBpf
<1>5. c.op = "masked" =>
        MsbBpf(c, v, offset) = <<AndMask(Upper(c.mask)), Jump("jeq", v, 0, offset + 3)>>
  BY DEF MsbBpf, Upper
<1> QED
  BY <1>1, <1>2, <1>3, <1>4, <1>5, Zenon

MsbInstructions(c, v, offset) ==
  /\ \A op \in {"jeq", "jgt"}, t, f \in {0, 2, 3, offset, offset + 2, offset + 3} :
       Jump(op, v, t, f) \in Instruction
  /\ AndMask(Upper(c.mask)) \in Instruction

LEMMA MsbUses ==
  ASSUME NEW c \in Condition, NEW v \in Nat, NEW offset, Room(offset)
  PROVE  MsbInstructions(c, v, offset)
<1>1. \A t \in {0, 2, 3, offset, offset + 2, offset + 3} : t \in 0 .. MaxJump
  BY RoomIs, Zenon
<1>2. \A op \in {"jeq", "jgt"} : op \in Opcodes
  BY Zenon DEF Opcodes
<1>3. Upper(c.mask) \in Nat
  <2>1. c.mask \in Value
    BY Zenon DEF Condition
  <2> QED
    BY <2>1, ValueIs, Halves, Zenon DEF HalvesOf
<1>4. v \in Nat \cup Names
  BY Zenon
<1> QED
  BY <1>1, <1>2, <1>3, <1>4, InstructionIs, Zenon DEF MsbInstructions

LEMMA MsbIs ==
  ASSUME NEW c \in Condition, NEW v \in Nat, NEW offset, Room(offset)
  PROVE  /\ MsbBpf(c, v, offset) \in Code
         /\ Len(MsbBpf(c, v, offset)) = IF c.op \in {"eq", "ne"} THEN 1 ELSE 2
<1>1. MsbInstructions(c, v, offset)
  BY MsbUses, Zenon
<1>2. CASE c.op = "eq"
  <2>1. Jump("jeq", v, 0, offset + 2) \in Instruction
    BY <1>1, Zenon DEF MsbInstructions
  <2> QED
    BY <1>2, <2>1, OneIs, MsbCode, ZenonT(30)
<1>3. CASE c.op = "ne"
  <2>1. Jump("jeq", v, 0, 2) \in Instruction
    BY <1>1, Zenon DEF MsbInstructions
  <2> QED
    BY <1>3, <2>1, OneIs, MsbCode, Zenon
<1>4. CASE c.op \in {"ge", "gt"}
  <2>1. Jump("jgt", v, 3, 0) \in Instruction /\ Jump("jeq", v, 0, offset + 2) \in Instruction
    BY <1>1, Zenon DEF MsbInstructions
  <2> QED
    BY <1>4, <2>1, TwoIs, MsbCode
<1>5. CASE c.op \in {"le", "lt"}
  <2>1. Jump("jgt", v, offset + 3, 0) \in Instruction /\ Jump("jeq", v, 0, 2) \in Instruction
    BY <1>1, Zenon DEF MsbInstructions
  <2> QED
    BY <1>5, <2>1, TwoIs, MsbCode
<1>6. CASE c.op = "masked"
  <2>1. AndMask(Upper(c.mask)) \in Instruction /\ Jump("jeq", v, 0, offset + 3) \in Instruction
    BY <1>1, Zenon DEF MsbInstructions
  <2> QED
    BY <1>6, <2>1, TwoIs, MsbCode
<1>7. c.op \in Operators
  BY Zenon DEF Condition
<1> QED
  BY <1>2, <1>3, <1>4, <1>5, <1>6, <1>7, Zenon DEF Operators

UpperBpf(c, u, offset) == <<Ld("msb", c.arg)>> \o MsbBpf(c, u, offset)

LEMMA UpperBpfIs ==
  ASSUME NEW c \in Condition, NEW u \in Nat, NEW offset, Room(offset)
  PROVE  /\ UpperBpf(c, u, offset) \in Code
         /\ Len(UpperBpf(c, u, offset)) = IF c.op \in {"eq", "ne"} THEN 2 ELSE 3
         /\ \A prog, p : At(prog, p, UpperBpf(c, u, offset)) =>
              At(prog, p, <<Ld("msb", c.arg)>>) /\ At(prog, p + 1, MsbBpf(c, u, offset))
<1>1. <<Ld("msb", c.arg)>> \in Code /\ Len(<<Ld("msb", c.arg)>>) = 1
  <2>1. Ld("msb", c.arg) \in Instruction
    BY LowerBpfIs, Zenon
  <2> QED
    BY <2>1, OneIs, Zenon
<1>2. /\ MsbBpf(c, u, offset) \in Code
      /\ Len(MsbBpf(c, u, offset)) = IF c.op \in {"eq", "ne"} THEN 1 ELSE 2
  BY MsbIs, Zenon
<1>3. /\ UpperBpf(c, u, offset) \in Code
      /\ Len(UpperBpf(c, u, offset)) = 1 + Len(MsbBpf(c, u, offset))
  BY <1>1, <1>2, Joined, Zenon DEF UpperBpf
<1>4. 1 + (IF c.op \in {"eq", "ne"} THEN 1 ELSE 2) = IF c.op \in {"eq", "ne"} THEN 2 ELSE 3
  OBVIOUS
<1>5. ASSUME NEW prog, NEW p, At(prog, p, UpperBpf(c, u, offset))
      PROVE  At(prog, p, <<Ld("msb", c.arg)>>) /\ At(prog, p + 1, MsbBpf(c, u, offset))
  BY <1>1, <1>2, <1>5, AtJoined, Zenon DEF UpperBpf
<1> QED
  BY <1>2, <1>3, <1>4, <1>5, Zenon

(* From the comparison of the upper halves, to the lower ones at l, to the    *)
(* end e of the condition, or to offset after it.                             *)
LEMMA MsbRuns ==
  ASSUME NEW s, NEW c \in Condition, NEW u \in Nat, NEW offset, Room(offset),
         NEW prog, NEW p \in Nat, At(prog, p, MsbBpf(c, u, offset)), NEW a, NEW low \in BOOLEAN,
         NEW l, l = p + Len(MsbBpf(c, u, offset)),
         NEW e, e = l + (IF c.op = "masked" THEN 3 ELSE 2), NEW w,
         (BothMeet(c, a, u, low) <=> low) => Reaches(prog, s, l, w),
         BothMeet(c, a, u, low) => Reaches(prog, s, e, w),
         ~BothMeet(c, a, u, low) => Reaches(prog, s, e + offset, w)
  PROVE  Leads(prog, s, p, a, w)
<1>1. MsbInstructions(c, u, offset) /\ offset \in Nat
  BY MsbUses, RoomIs, Zenon
<1>2. Len(MsbBpf(c, u, offset)) = IF c.op \in {"eq", "ne"} THEN 1 ELSE 2
  BY MsbIs, Zenon
<1>3. offset + 2 \in Nat /\ offset + 3 \in Nat /\ 0 \in Nat /\ 2 \in Nat /\ 3 \in Nat
  BY <1>1
<1>4. /\ (BothMeet(c, a, u, low) <=> low) => \A b : Leads(prog, s, l, b, w)
      /\ BothMeet(c, a, u, low) => \A b : Leads(prog, s, e, b, w)
      /\ ~BothMeet(c, a, u, low) => \A b : Leads(prog, s, e + offset, b, w)
  BY Zenon DEF Reaches
<1>5. CASE c.op = "eq"
  <2>1. Holds(prog, p, Jump("jeq", u, 0, offset + 2))
    BY <1>1, <1>5, MsbCode, AtOne, Zenon DEF MsbInstructions
  <2>2. l = p + 1 + 0 /\ e + offset = p + 1 + (offset + 2)
    BY <1>1, <1>2, <1>5
  <2>3. BothMeet(c, a, u, low) <=> a = u /\ low
    BY <1>5 DEF BothMeet
  <2> QED
    BY <1>3, <1>4, <2>1, <2>2, <2>3, LeadsEq, Zenon
<1>6. CASE c.op = "ne"
  <2>1. Holds(prog, p, Jump("jeq", u, 0, 2))
    BY <1>1, <1>6, MsbCode, AtOne, Zenon DEF MsbInstructions
  <2>2. l = p + 1 + 0 /\ e = p + 1 + 2
    BY <1>1, <1>2, <1>6
  <2>3. BothMeet(c, a, u, low) <=> (a = u => low)
    BY <1>6 DEF BothMeet
  <2> QED
    BY <1>3, <1>4, <2>1, <2>2, <2>3, LeadsEq, Zenon
<1>7. CASE c.op \in {"ge", "gt"}
  <2>1. Holds(prog, p, Jump("jgt", u, 3, 0)) /\ Holds(prog, p + 1, Jump("jeq", u, 0, offset + 2))
    <3>1. At(prog, p, <<Jump("jgt", u, 3, 0), Jump("jeq", u, 0, offset + 2)>>)
      BY <1>7, MsbCode, Zenon
    <3>2. Jump("jgt", u, 3, 0) \in Instruction /\ Jump("jeq", u, 0, offset + 2) \in Instruction
      BY <1>1, Zenon DEF MsbInstructions
    <3> QED
      BY <3>1, <3>2, AtTwo, Zenon
  <2>2. /\ e = p + 1 + 3 /\ p + 1 + 0 = p + 1
        /\ l = p + 1 + 1 + 0 /\ e + offset = p + 1 + 1 + (offset + 2)
    BY <1>1, <1>2, <1>7
  <2>3. BothMeet(c, a, u, low) <=> a > u \/ (a = u /\ low)
    BY <1>7 DEF BothMeet
  <2>4. ASSUME ~(a > u)
        PROVE  Leads(prog, s, p + 1, a, w)
    <3>1. a = u => Leads(prog, s, p + 1 + 1 + 0, a, w)
      BY <1>4, <2>2, <2>3, <2>4, Zenon
    <3>2. a # u => Leads(prog, s, p + 1 + 1 + (offset + 2), a, w)
      BY <1>4, <2>2, <2>3, <2>4, Zenon
    <3> QED
      BY <1>3, <2>1, <3>1, <3>2, LeadsEq, Zenon
  <2> QED
    BY <1>3, <1>4, <2>1, <2>2, <2>3, <2>4, LeadsGt, Zenon
<1>8. CASE c.op \in {"le", "lt"}
  <2>1. Holds(prog, p, Jump("jgt", u, offset + 3, 0)) /\ Holds(prog, p + 1, Jump("jeq", u, 0, 2))
    <3>1. At(prog, p, <<Jump("jgt", u, offset + 3, 0), Jump("jeq", u, 0, 2)>>)
      BY <1>8, MsbCode, Zenon
    <3>2. Jump("jgt", u, offset + 3, 0) \in Instruction /\ Jump("jeq", u, 0, 2) \in Instruction
      BY <1>1, Zenon DEF MsbInstructions
    <3> QED
      BY <3>1, <3>2, AtTwo, Zenon
  <2>2. /\ e + offset = p + 1 + (offset + 3) /\ p + 1 + 0 = p + 1
        /\ l = p + 1 + 1 + 0 /\ e = p + 1 + 1 + 2
    BY <1>1, <1>2, <1>8
  <2>3. BothMeet(c, a, u, low) <=> ~(a > u) /\ (a = u => low)
    BY <1>8 DEF BothMeet
  <2>4. ASSUME ~(a > u)
        PROVE  Leads(prog, s, p + 1, a, w)
    <3>1. a = u => Leads(prog, s, p + 1 + 1 + 0, a, w)
      BY <1>4, <2>2, <2>3, <2>4, Zenon
    <3>2. a # u => Leads(prog, s, p + 1 + 1 + 2, a, w)
      BY <1>4, <2>2, <2>3, <2>4, Zenon
    <3> QED
      BY <1>3, <2>1, <3>1, <3>2, LeadsEq, Zenon
  <2> QED
    BY <1>3, <1>4, <2>1, <2>2, <2>3, <2>4, LeadsGt, Zenon
<1>9. CASE c.op = "masked"
  <2>1. Holds(prog, p, AndMask(Upper(c.mask))) /\ Holds(prog, p + 1, Jump("jeq", u, 0, offset + 3))
    <3>1. At(prog, p, <<AndMask(Upper(c.mask)), Jump("jeq", u, 0, offset + 3)>>)
      BY <1>9, MsbCode, ZenonT(30)
    <3>2. AndMask(Upper(c.mask)) \in Instruction /\ Jump("jeq", u, 0, offset + 3) \in Instruction
      BY <1>1, Zenon DEF MsbInstructions
    <3> QED
      BY <3>1, <3>2, AtTwo, Zenon
  <2>2. l = p + 1 + 1 + 0 /\ e + offset = p + 1 + 1 + (offset + 3)
    BY <1>1, <1>2, <1>9
  <2>3. BothMeet(c, a, u, low) <=> And[HalfBits][a][Upper(c.mask)] = u /\ low
    BY <1>9 DEF BothMeet
  <2>4. Leads(prog, s, p + 1, And[HalfBits][a][Upper(c.mask)], w)
    BY <1>3, <1>4, <2>1, <2>2, <2>3, LeadsEq, Zenon
  <2> QED
    BY <2>1, <2>4, LeadsAnd, Zenon
<1>10. c.op \in Operators
  BY Zenon DEF Condition
<1> QED
  BY <1>5, <1>6, <1>7, <1>8, <1>9, <1>10, Zenon DEF Operators

LEMMA BothRuns ==
  ASSUME NEW s, NEW c \in Condition, NEW u \in Nat, NEW v \in Nat, NEW offset, Room(offset)
  PROVE  CodeRuns(UpperBpf(c, u, offset) \o LowerBpf(c, v, offset),
                  BothMeet(c, Upper(s.args[c.arg]), u, LowerMeets(c, Lower(s.args[c.arg]), v)),
                  s, offset)
<1>1. PICK low \in BOOLEAN : low <=> LowerMeets(c, Lower(s.args[c.arg]), v)
  BY Zenon
<1>2. PICK a : a = Upper(s.args[c.arg])
  BY Zenon
<1>3. PICK both \in BOOLEAN : both <=> BothMeet(c, a, u, low)
  BY Zenon
<1>4. both <=> BothMeet(c, Upper(s.args[c.arg]), u, LowerMeets(c, Lower(s.args[c.arg]), v))
  BY <1>1, <1>2, <1>3 DEF BothMeet
<1>5. PICK up : up = UpperBpf(c, u, offset)
  BY Zenon
<1>6. PICK down : down = LowerBpf(c, v, offset)
  BY Zenon
<1>7. /\ up \in Code /\ Len(up) = IF c.op \in {"eq", "ne"} THEN 2 ELSE 3
      /\ down \in Code /\ Len(down) = IF c.op = "masked" THEN 3 ELSE 2
  BY <1>5, <1>6, UpperBpfIs, LowerBpfIs, Zenon
<1>8. CodeRuns(down, low, s, offset)
  BY <1>1, <1>6, LowerRuns, Zenon DEF CodeRuns
<1>9. ASSUME NEW prog, NEW p, NEW w, At(prog, p, up \o down),
             both => Reaches(prog, s, p + Len(up \o down), w),
             ~both => Reaches(prog, s, p + Len(up \o down) + offset, w)
      PROVE  Reaches(prog, s, p, w)
  <2>1. At(prog, p, up) /\ At(prog, p + Len(up), down)
    BY <1>7, <1>9, AtJoined, Zenon
  <2>2. At(prog, p, <<Ld("msb", c.arg)>>) /\ At(prog, p + 1, MsbBpf(c, u, offset))
    BY <1>5, <2>1, UpperBpfIs, Zenon
  <2>3. Holds(prog, p, Ld("msb", c.arg)) /\ p \in Nat
    BY <2>2, LowerBpfIs, AtOne, Zenon
  <2>4. PICK l : l = p + Len(up)
    BY Zenon
  <2>5. PICK e : e = l + Len(down)
    BY Zenon
  <2>6. Len(up \o down) = Len(up) + Len(down) /\ Len(up) \in Nat /\ Len(down) \in Nat
    BY <1>7, Joined, Zenon
  <2>7. p + Len(up \o down) = e
    BY <2>3, <2>4, <2>5, <2>6
  <2>8. /\ both => Reaches(prog, s, e, w)
        /\ ~both => Reaches(prog, s, e + offset, w)
    BY <1>9, <2>7, Zenon
  <2>9. (both <=> low) => Reaches(prog, s, l, w)
    BY <1>8, <2>1, <2>4, <2>5, <2>8, Zenon DEF CodeRuns
  <2>10. Leads(prog, s, p + 1, a, w)
    <3>1. Len(MsbBpf(c, u, offset)) = IF c.op \in {"eq", "ne"} THEN 1 ELSE 2
      BY MsbIs, Zenon
    <3>2. l = p + 1 + Len(MsbBpf(c, u, offset)) /\ p + 1 \in Nat
      BY <1>7, <2>3, <2>4, <3>1
    <3>3. e = l + (IF c.op = "masked" THEN 3 ELSE 2)
      BY <1>7, <2>5, Zenon
    <3> QED
      BY <1>3, <2>2, <2>8, <2>9, <3>2, <3>3, MsbRuns, ZenonT(30)
  <2>11. Field(s, [of |-> "msb", arg |-> c.arg]) = a
    BY <1>2 DEF Field, Upper
  <2> QED
    BY <2>3, <2>10, <2>11, LeadsLd, Zenon
<1>10. CodeRuns(up \o down, both, s, offset)
  BY <1>9, Zenon DEF CodeRuns
<1> QED
  BY <1>4, <1>5, <1>6, <1>10, Zenon DEF CodeRuns

(* The whole condition. *)
LEMMA ConditionRuns ==
  ASSUME NEW s \in Call, NEW c \in Condition, NEW offset, Room(offset)
  PROVE  /\ CodeRuns(ConditionBpf(c, offset), Meets(s, c), s, offset)
         /\ ConditionBpf(c, offset) \in Code /\ Len(ConditionBpf(c, offset)) \in 1 .. ConditionMaxLen
<1>1. PICK v : v = Given(c)
  BY Zenon
<1>2. v \in Nat /\ Upper(v) \in Nat /\ Lower(v) \in Nat
  BY <1>1, ComparedIs, Halves, Zenon DEF HalvesOf
<1>3. ConditionBpf(c, offset) = IF c.len = "qword"
                                THEN UpperBpf(c, Upper(v), offset) \o LowerBpf(c, Lower(v), offset)
                                ELSE LowerBpf(c, Lower(v), offset)
  BY <1>1, Zenon DEF ConditionBpf, UpperBpf, LowerBpf, Given, Upper, Lower
<1>4. Meets(s, c) <=> HalvesMeet(s, c)
  BY MeetsHalves, Zenon
<1>5. CodeRuns(ConditionBpf(c, offset), HalvesMeet(s, c), s, offset)
  <2>1. CASE c.len = "qword"
    BY <1>1, <1>2, <1>3, <2>1, BothRuns, Zenon DEF HalvesMeet
  <2>2. CASE c.len # "qword"
    BY <1>1, <1>2, <1>3, <2>2, LowerRuns, Zenon DEF HalvesMeet
  <2> QED
    BY <2>1, <2>2, Zenon
<1>6. CodeRuns(ConditionBpf(c, offset), Meets(s, c), s, offset)
  BY <1>4, <1>5, Zenon DEF CodeRuns
<1>7. PICK up : up = UpperBpf(c, Upper(v), offset)
  BY Zenon
<1>8. PICK down : down = LowerBpf(c, Lower(v), offset)
  BY Zenon
<1>9. /\ up \in Code /\ Len(up) = IF c.op \in {"eq", "ne"} THEN 2 ELSE 3
      /\ down \in Code /\ Len(down) = IF c.op = "masked" THEN 3 ELSE 2
  BY <1>2, <1>7, <1>8, UpperBpfIs, LowerBpfIs, Zenon
<1>10. up \o down \in Code /\ Len(up \o down) = Len(up) + Len(down)
  BY <1>9, Joined, Zenon
<1>11. Len(up \o down) \in 1 .. 6 /\ Len(down) \in 1 .. 6
  BY <1>9, <1>10
<1> QED
  BY <1>3, <1>6, <1>7, <1>8, <1>9, <1>10, <1>11, Zenon DEF ConditionMaxLen

--------------------------------------------------------------------------------
(* The body of a rule, whose end is e: it goes on at e when its conditions    *)
(* are met, and after e when they are not.  offset leads from its start to a  *)
(* jump out of the rule, and then to one out of the chain.                    *)

BodyTo(prog, p, e, offset, met, s, w) ==
  /\ Reaches(prog, s, e + 1, w) => Reaches(prog, s, p + offset, w)
  /\ \A a : Leads(prog, s, e + 2, a, w) => Leads(prog, s, p + offset + 1, a, w)
  /\ met /\ Reaches(prog, s, e, w) => Reaches(prog, s, p, w)
  /\ ~met /\ Reaches(prog, s, e + 1, w) => Reaches(prog, s, p, w)

BodyRuns(bpf, offset, met, s) ==
  \A prog, p, w : At(prog, p, bpf) => BodyTo(prog, p, p + Len(bpf), offset, met, s, w)

LEMMA EmptyBody ==
  ASSUME NEW s
  PROVE  <<>> \in Code /\ BodyRuns(<<>>, 1, TRUE, s)
<1>1. <<>> \in Code /\ Len(<<>>) = 0
  BY DEF Code
<1>2. ASSUME NEW prog, NEW p, NEW w, At(prog, p, <<>>)
      PROVE  BodyTo(prog, p, p + Len(<<>>), 1, TRUE, s, w)
  <2>1. p \in Nat
    BY <1>2, Zenon DEF At
  <2>2. p + Len(<<>>) = p /\ p + 2 = p + 1 + 1
    BY <1>1, <2>1
  <2> QED
    BY <2>2, Zenon DEF BodyTo
<1> QED
  BY <1>1, <1>2, Zenon DEF BodyRuns

(* A condition before a body within its reach. *)
LEMMA Prepended ==
  ASSUME NEW s \in Call, NEW c \in Condition, NEW offset, Room(offset), NEW bpf \in Code,
         NEW met \in BOOLEAN, BodyRuns(bpf, offset, met, s)
  PROVE  BodyRuns(ConditionBpf(c, offset) \o bpf, offset + Len(ConditionBpf(c, offset)),
                  Meets(s, c) /\ met, s)
<1>1. PICK code : code = ConditionBpf(c, offset)
  BY Zenon
<1>2. PICK first \in BOOLEAN : first <=> Meets(s, c)
  BY Zenon
<1>3. code \in Code /\ CodeRuns(code, first, s, offset)
  BY <1>1, <1>2, ConditionRuns, Zenon DEF CodeRuns
<1>4. ASSUME NEW prog, NEW p, NEW w, At(prog, p, code \o bpf)
      PROVE  BodyTo(prog, p, p + Len(code \o bpf), offset + Len(code), first /\ met, s, w)
  <2>1. At(prog, p, code) /\ At(prog, p + Len(code), bpf)
    BY <1>3, <1>4, AtJoined, Zenon
  <2>2. p \in Nat
    BY <2>1, Zenon DEF At
  <2>3. PICK q : q = p + Len(code)
    BY Zenon
  <2>4. PICK e : e = q + Len(bpf)
    BY Zenon
  <2>5. /\ Len(code \o bpf) = Len(code) + Len(bpf) /\ Len(code) \in Nat /\ Len(bpf) \in Nat
        /\ offset \in Nat
    BY <1>3, RoomIs, Joined, Zenon
  <2>6. /\ p + Len(code \o bpf) = e
        /\ p + (offset + Len(code)) = q + offset
    BY <2>2, <2>3, <2>4, <2>5
  <2>7. BodyTo(prog, q, e, offset, met, s, w)
    BY <2>1, <2>3, <2>4, Zenon DEF BodyRuns
  <2>8. /\ first /\ Reaches(prog, s, q, w) => Reaches(prog, s, p, w)
        /\ ~first /\ Reaches(prog, s, q + offset, w) => Reaches(prog, s, p, w)
    BY <1>3, <2>1, <2>3, Zenon DEF CodeRuns
  <2>9. BodyTo(prog, p, e, offset + Len(code), first /\ met, s, w)
    BY <2>6, <2>7, <2>8, Zenon DEF BodyTo
  <2> QED
    BY <2>6, <2>9, Zenon
<1>5. BodyRuns(code \o bpf, offset + Len(code), first /\ met, s)
  BY <1>4, Zenon DEF BodyRuns
<1> QED
  BY <1>1, <1>2, <1>5, ZenonT(30) DEF BodyRuns, BodyTo

LEMMA HelpersAre ==
  ASSUME NEW n \in Nat
  PROVE  /\ HelperJumps(n) \in Code /\ Len(HelperJumps(n)) = 3
         /\ \A prog, p : At(prog, p, HelperJumps(n)) =>
              /\ Holds(prog, p, Ja(2)) /\ Holds(prog, p + 1, Ja(n + 1))
              /\ Holds(prog, p + 2, Ja(n + 1)) /\ p \in Nat
<1>1. Ja(2) \in Instruction /\ Ja(n + 1) \in Instruction
  <2>1. 2 \in Nat /\ n + 1 \in Nat
    OBVIOUS
  <2> QED
    BY <2>1, InstructionIs, Zenon
<1> QED
  BY <1>1, AtThree, Zenon DEF HelperJumps

(* The jumps that make a far end one instruction away. *)
LEMMA Helped ==
  ASSUME NEW s, NEW offset \in Nat, NEW bpf \in Code, NEW met \in BOOLEAN,
         BodyRuns(bpf, offset, met, s)
  PROVE  HelperJumps(offset) \o bpf \in Code /\ BodyRuns(HelperJumps(offset) \o bpf, 1, met, s)
<1>1. PICK h : h = HelperJumps(offset)
  BY Zenon
<1>2. h \in Code /\ Len(h) = 3
  BY <1>1, HelpersAre, Zenon
<1>3. ASSUME NEW prog, NEW p, NEW w, At(prog, p, h \o bpf)
      PROVE  BodyTo(prog, p, p + Len(h \o bpf), 1, met, s, w)
  <2>1. At(prog, p, h) /\ At(prog, p + 3, bpf)
    BY <1>2, <1>3, AtJoined, Zenon
  <2>2. /\ Holds(prog, p, Ja(2)) /\ Holds(prog, p + 1, Ja(offset + 1))
        /\ Holds(prog, p + 2, Ja(offset + 1)) /\ p \in Nat
    BY <1>1, <2>1, HelpersAre, Zenon
  <2>3. PICK q : q = p + 3
    BY Zenon
  <2>4. PICK e : e = q + Len(bpf)
    BY Zenon
  <2>5. Len(h \o bpf) = 3 + Len(bpf) /\ Len(bpf) \in Nat
    BY <1>2, Joined, Zenon
  <2>6. /\ p + Len(h \o bpf) = e
        /\ q = p + 1 + 2 /\ q + offset = p + 1 + 1 + (offset + 1)
        /\ q + offset + 1 = p + 2 + 1 + (offset + 1) /\ p + 1 + 1 = p + 2
        /\ 2 \in Nat /\ offset + 1 \in Nat
    BY <2>2, <2>3, <2>4, <2>5
  <2>7. BodyTo(prog, q, e, offset, met, s, w)
    BY <2>1, <2>3, <2>4, Zenon DEF BodyRuns
  <2>8. \A a : Leads(prog, s, q, a, w) => Leads(prog, s, p, a, w)
    BY <2>2, <2>6, LeadsJa, Zenon
  <2>9. \A a : Leads(prog, s, q + offset, a, w) => Leads(prog, s, p + 1, a, w)
    BY <2>2, <2>6, LeadsJa, Zenon
  <2>10. \A a : Leads(prog, s, q + offset + 1, a, w) => Leads(prog, s, p + 1 + 1, a, w)
    BY <2>2, <2>6, LeadsJa, Zenon
  <2>11. BodyTo(prog, p, e, 1, met, s, w)
    BY <2>7, <2>8, <2>9, <2>10, Zenon DEF BodyTo, Reaches
  <2> QED
    BY <2>6, <2>11, Zenon
<1>4. h \o bpf \in Code
  BY <1>2, Joined, Zenon
<1> QED
  BY <1>1, <1>3, <1>4, Zenon DEF BodyRuns

Body == [bpf : Code, offset : 1 .. MaxJump]

LEMMA BodyIs ==
  /\ MaxJump \in Nat /\ 6 < MaxJump /\ 1 \in 1 .. MaxJump
  /\ \A bpf \in Code, offset \in 1 .. MaxJump : [bpf |-> bpf, offset |-> offset] \in Body
<1>1. MaxJump \in Nat /\ 6 < MaxJump
  BY FilterAssumption, Zenon
<1>2. 1 \in 1 .. MaxJump
  BY <1>1
<1> QED
  BY <1>1, <1>2, Zenon DEF Body

LEMMA Appended ==
  ASSUME NEW s \in Call, NEW c \in Condition, NEW b \in Body
  PROVE  /\ AppendCondition(b, c) \in Body
         /\ \A met \in BOOLEAN : BodyRuns(b.bpf, b.offset, met, s) =>
              BodyRuns(AppendCondition(b, c).bpf, AppendCondition(b, c).offset,
                       Meets(s, c) /\ met, s)
<1>1. PICK bpf \in Code, offset \in 1 .. MaxJump : bpf = b.bpf /\ offset = b.offset
  BY Zenon DEF Body
<1>2. PICK far \in BOOLEAN : far <=> offset + ConditionMaxLen + 1 > MaxJump
  BY Zenon
<1>3. PICK rest : rest = IF far THEN HelperJumps(offset) \o bpf ELSE bpf
  BY Zenon
<1>4. PICK o : o = IF far THEN 1 ELSE offset
  BY Zenon
<1>5. PICK code : code = ConditionBpf(c, o)
  BY Zenon
<1>6. AppendCondition(b, c) = [bpf |-> code \o rest, offset |-> o + Len(code)]
  BY <1>1, <1>2, <1>3, <1>4, <1>5, Zenon DEF AppendCondition
<1>7. Room(o) /\ o \in Nat /\ o + 6 <= MaxJump /\ o >= 1 /\ offset \in Nat
  BY <1>2, <1>4, FilterAssumption DEF Room, ConditionMaxLen
<1>8. code \in Code /\ Len(code) \in 1 .. 6
  BY <1>5, <1>7, ConditionRuns, Zenon DEF ConditionMaxLen
<1>9. rest \in Code
  <2>1. HelperJumps(offset) \o bpf \in Code
    BY <1>7, HelpersAre, Joined, Zenon
  <2> QED
    BY <1>3, <2>1, Zenon
<1>10. o + Len(code) \in 1 .. MaxJump
  <2>1. PICK n \in 1 .. 6 : n = Len(code)
    BY <1>8, Zenon
  <2>2. o + n \in 1 .. MaxJump
    BY <1>7, BodyIs
  <2> QED
    BY <2>1, <2>2, Zenon
<1>11. code \o rest \in Code
  BY <1>8, <1>9, Joined, Zenon
<1>12. AppendCondition(b, c) \in Body
  BY <1>6, <1>10, <1>11, BodyIs, Zenon
<1>13. AppendCondition(b, c).bpf = code \o rest /\ AppendCondition(b, c).offset = o + Len(code)
  BY <1>6
<1>14. ASSUME NEW met \in BOOLEAN, BodyRuns(b.bpf, b.offset, met, s)
       PROVE  BodyRuns(code \o rest, o + Len(code), Meets(s, c) /\ met, s)
  <2>1. BodyRuns(bpf, offset, met, s)
    BY <1>1, <1>14, Zenon
  <2>2. BodyRuns(rest, o, met, s)
    <3>1. CASE far
      BY <1>3, <1>4, <1>7, <2>1, <3>1, Helped, Zenon
    <3>2. CASE ~far
      BY <1>3, <1>4, <2>1, <3>2, Zenon
    <3> QED
      BY <3>1, <3>2, Zenon
  <2> QED
    BY <1>5, <1>7, <1>9, <2>2, Prepended, Zenon
<1> QED
  BY <1>12, <1>13, <1>14, Zenon

LEMMA BuiltIs ==
  ASSUME NEW s \in Call, NEW rule \in Rule
  PROVE  /\ Built(rule)[0] = [bpf |-> <<>>, offset |-> 1]
         /\ \A i \in 1 .. Len(rule) : Built(rule)[i] = AppendCondition(Built(rule)[i - 1], rule[i])
         /\ \A i \in 0 .. Len(rule) : Built(rule)[i] \in Body
<1> DEFINE N == Len(rule)
           Empty == [bpf |-> <<>>, offset |-> 1]
<1>1. N \in Nat /\ \A i \in 1 .. N : rule[i] \in Condition
  BY DEF Rule
<1>2. Empty \in Body
  BY BodyIs, EmptyBody, Zenon
<1> HIDE DEF N, Empty
<1>3. \A i \in 1 .. N, b \in Body : AppendCondition(b, rule[i]) \in Body
  BY <1>1, Appended, Zenon
<1>4. PICK step : step = [i \in 1 .. N |-> [b \in Body |-> AppendCondition(b, rule[i])]]
  BY Zenon
<1>5. /\ step \in [1 .. N -> [Body -> Body]]
      /\ \A i \in 1 .. N, b \in Body : step[i][b] = AppendCondition(b, rule[i])
  BY <1>3, <1>4, Zenon
<1>6. PICK g \in [0 .. N -> Body] : Follows(g, N, Empty, step)
  BY <1>1, <1>2, <1>5, Recursion, Zenon
<1>7. \A i \in 0 .. N : i # 0 => i \in 1 .. N /\ i - 1 \in 0 .. N
  BY <1>1
<1>8. g = [i \in 0 .. N |-> IF i = 0 THEN Empty ELSE AppendCondition(g[i - 1], rule[i])]
  <2>1. ASSUME NEW i \in 0 .. N, i # 0
        PROVE  g[i] = AppendCondition(g[i - 1], rule[i])
    BY <1>5, <1>6, <1>7, <2>1, Zenon DEF Follows
  <2> QED
    BY <1>6, <2>1, Zenon DEF Follows
<1>9. PICK f : f = Built(rule)
  BY Zenon
<1>10. f = [i \in 0 .. N |-> IF i = 0 THEN Empty ELSE AppendCondition(f[i - 1], rule[i])]
  BY <1>8, <1>9, Zenon DEF Built, N, Empty
<1>11. f[0] = Empty /\ \A i \in 1 .. N : f[i] = AppendCondition(f[i - 1], rule[i])
  <2>1. 0 \in 0 .. N /\ \A i \in 1 .. N : i \in 0 .. N /\ i # 0
    BY <1>1
  <2> QED
    BY <1>10, <2>1, Zenon
<1>12. \A i \in 0 .. N : f[i] \in Body
  <2>1. f[0] \in Body
    BY <1>2, <1>11, Zenon
  <2>2. \A i \in 1 .. N : f[i - 1] \in Body => f[i] \in Body
    BY <1>3, <1>11, Zenon
  <2> QED
    BY <1>1, <2>1, <2>2, StaysIn, Zenon
<1> QED
  BY <1>9, <1>11, <1>12, Zenon DEF N, Empty

MetUpTo(s, rule, n) == \A j \in 1 .. n : Meets(s, rule[j])

LEMMA SameBody ==
  ASSUME NEW bpf, NEW offset, NEW s, NEW met \in BOOLEAN, NEW same \in BOOLEAN, met <=> same,
         BodyRuns(bpf, offset, met, s)
  PROVE  BodyRuns(bpf, offset, same, s)
<1>1. met = same
  BY Zenon
<1> QED
  BY <1>1, Zenon

LEMMA BuiltRuns ==
  ASSUME NEW s \in Call, NEW rule \in Rule
  PROVE  BodyRuns(Built(rule)[Len(rule)].bpf, Built(rule)[Len(rule)].offset,
                  MeetsRule(s, rule), s)
<1>1. PICK f : f = Built(rule)
  BY Zenon
<1>2. PICK N \in Nat : N = Len(rule)
  BY DEF Rule
<1>3. /\ f[0] = [bpf |-> <<>>, offset |-> 1]
      /\ \A i \in 1 .. N : f[i] = AppendCondition(f[i - 1], rule[i])
      /\ \A i \in 0 .. N : f[i] \in Body
  BY <1>1, <1>2, BuiltIs, Zenon
<1>4. \A i \in 1 .. N : rule[i] \in Condition
  BY <1>2 DEF Rule
<1> DEFINE T == {k \in Nat : k <= N => BodyRuns(f[k].bpf, f[k].offset, MetUpTo(s, rule, k), s)}
<1>5. 0 \in T
  <2>1. f[0].bpf = <<>> /\ f[0].offset = 1 /\ 0 \in Nat
    BY <1>3
  <2>2. PICK met \in BOOLEAN : met <=> MetUpTo(s, rule, 0)
    BY Zenon
  <2>3. MetUpTo(s, rule, 0)
    BY DEF MetUpTo
  <2>4. met = TRUE /\ met = MetUpTo(s, rule, 0)
    BY <2>2, <2>3 DEF MetUpTo
  <2>5. BodyRuns(<<>>, 1, TRUE, s)
    BY EmptyBody, Zenon
  <2>6. BodyRuns(<<>>, 1, MetUpTo(s, rule, 0), s)
    BY <2>4, <2>5, Zenon
  <2> QED
    BY <2>1, <2>6, Zenon
<1>6. ASSUME NEW k \in Nat, k \in T, k + 1 <= N
      PROVE  BodyRuns(f[k + 1].bpf, f[k + 1].offset, MetUpTo(s, rule, k + 1), s)
  <2>1. k + 1 \in 1 .. N /\ k \in 0 .. N /\ k <= N /\ (k + 1) - 1 = k
    BY <1>6
  <2>2. PICK met \in BOOLEAN : met = MetUpTo(s, rule, k)
    BY Zenon DEF MetUpTo
  <2>3. PICK first \in BOOLEAN : first <=> Meets(s, rule[k + 1])
    BY Zenon
  <2>4. PICK both \in BOOLEAN : both = MetUpTo(s, rule, k + 1)
    BY Zenon DEF MetUpTo
  <2>5. both <=> first /\ met
    <3>1. \A j : j \in 1 .. k + 1 <=> j = k + 1 \/ j \in 1 .. k
      OBVIOUS
    <3> QED
      BY <2>2, <2>3, <2>4, <3>1, Zenon DEF MetUpTo
  <2>6. BodyRuns(f[k].bpf, f[k].offset, met, s)
    BY <1>6, <2>1, <2>2, Zenon
  <2>7. f[k + 1] = AppendCondition(f[k], rule[k + 1]) /\ f[k] \in Body /\ rule[k + 1] \in Condition
    BY <1>3, <1>4, <2>1, Zenon
  <2>8. BodyRuns(f[k + 1].bpf, f[k + 1].offset, Meets(s, rule[k + 1]) /\ met, s)
    BY <2>6, <2>7, Appended, Zenon
  <2>9. PICK now \in BOOLEAN : now = (Meets(s, rule[k + 1]) /\ met)
    BY Zenon
  <2>10. now <=> both
    BY <2>3, <2>5, <2>9, Zenon
  <2>11. BodyRuns(f[k + 1].bpf, f[k + 1].offset, now, s)
    BY <2>8, <2>9, Zenon
  <2> QED
    BY <2>4, <2>10, <2>11, SameBody, Zenon
<1>7. \A k \in Nat : k \in T => k + 1 \in T
  <2>1. \A k \in Nat : k + 1 \in Nat
    OBVIOUS
  <2> QED
    BY <1>6, <2>1, Zenon
<1>8. N \in T /\ N <= N
  <2> HIDE DEF T
  <2> QED
    BY <1>5, <1>7, Induction
<1>9. BodyRuns(f[N].bpf, f[N].offset, MetUpTo(s, rule, N), s)
  BY <1>8, Zenon
<1>10. PICK met \in BOOLEAN : met = MetUpTo(s, rule, N)
  BY Zenon DEF MetUpTo
<1>11. PICK all \in BOOLEAN : all = MeetsRule(s, rule)
  BY Zenon DEF MeetsRule
<1>12. met <=> all
  <2>1. DOMAIN rule = 1 .. N
    BY <1>2 DEF Rule
  <2> QED
    BY <1>10, <1>11, <2>1, Zenon DEF MetUpTo, MeetsRule
<1>13. BodyRuns(f[N].bpf, f[N].offset, met, s)
  BY <1>9, <1>10, Zenon
<1>14. BodyRuns(f[N].bpf, f[N].offset, all, s)
  BY <1>12, <1>13, SameBody, Zenon
<1> QED
  BY <1>1, <1>2, <1>11, <1>14, Zenon

--------------------------------------------------------------------------------
(* A rule, whose end is e: the second instruction leads out of its chain.     *)

RuleTo(prog, p, e, met, s, w) ==
  /\ met /\ Reaches(prog, s, e, w) => Reaches(prog, s, p, w)
  /\ ~met /\ Reaches(prog, s, e + 1, w) => Reaches(prog, s, p, w)
  /\ \A a : Leads(prog, s, e + 2, a, w) => Leads(prog, s, p + 1, a, w)

LEMMA RuleRuns ==
  ASSUME NEW s \in Call, NEW rule \in Rule
  PROVE  /\ RuleBpf(rule) \in Code
         /\ \A prog, p, w : At(prog, p, RuleBpf(rule)) =>
              RuleTo(prog, p, p + Len(RuleBpf(rule)), MeetsRule(s, rule), s, w)
<1>1. PICK b : b = Built(rule)[Len(rule)]
  BY Zenon
<1>2. b \in Body
  <2>1. Len(rule) \in Nat
    BY DEF Rule
  <2>2. Len(rule) \in 0 .. Len(rule)
    BY <2>1
  <2> QED
    BY <1>1, <2>2, BuiltIs, Zenon
<1>3. PICK bpf \in Code, offset \in 1 .. MaxJump : bpf = b.bpf /\ offset = b.offset
  BY <1>2, Zenon DEF Body
<1>4. PICK met \in BOOLEAN : met = MeetsRule(s, rule)
  BY Zenon DEF MeetsRule
<1>5. BodyRuns(bpf, offset, met, s)
  BY <1>1, <1>3, <1>4, BuiltRuns, Zenon
<1>6. 1 \in Nat /\ offset \in Nat /\ offset + 1 \in Nat
  BY BodyIs
<1>7. Ja(1) \in Instruction /\ Ja(offset + 1) \in Instruction
  BY <1>6, InstructionIs, Zenon
<1>8. PICK h : h = <<Ja(1), Ja(offset + 1)>>
  BY Zenon
<1>9. h \in Code /\ Len(h) = 2
  BY <1>7, <1>8, TwoIs, Zenon
<1>10. RuleBpf(rule) = h \o bpf
  BY <1>1, <1>3, <1>8, Zenon DEF RuleBpf
<1>11. h \o bpf \in Code /\ Len(h \o bpf) = 2 + Len(bpf) /\ Len(bpf) \in Nat
  BY <1>9, Joined, Zenon
<1>12. ASSUME NEW prog, NEW p, NEW w, At(prog, p, h \o bpf)
       PROVE  RuleTo(prog, p, p + Len(h \o bpf), met, s, w)
  <2>1. At(prog, p, h) /\ At(prog, p + 2, bpf)
    BY <1>9, <1>12, AtJoined, Zenon
  <2>2. Holds(prog, p, Ja(1)) /\ Holds(prog, p + 1, Ja(offset + 1)) /\ p \in Nat
    BY <1>7, <1>8, <2>1, AtTwo, Zenon
  <2>3. PICK q : q = p + 2
    BY Zenon
  <2>4. PICK e : e = q + Len(bpf)
    BY Zenon
  <2>5. /\ p + Len(h \o bpf) = e
        /\ q = p + 1 + 1 /\ q + offset + 1 = p + 1 + 1 + (offset + 1)
    BY <1>6, <1>11, <2>2, <2>3, <2>4
  <2>6. BodyTo(prog, q, e, offset, met, s, w)
    BY <1>5, <2>1, <2>3, <2>4, Zenon DEF BodyRuns
  <2>7. \A a : Leads(prog, s, q, a, w) => Leads(prog, s, p, a, w)
    BY <1>6, <2>2, <2>5, LeadsJa, Zenon
  <2>8. \A a : Leads(prog, s, q + offset + 1, a, w) => Leads(prog, s, p + 1, a, w)
    BY <1>6, <2>2, <2>5, LeadsJa, Zenon
  <2>9. RuleTo(prog, p, e, met, s, w)
    BY <2>6, <2>7, <2>8, Zenon DEF RuleTo, BodyTo, Reaches
  <2> QED
    BY <2>5, <2>9, Zenon
<1> QED
  BY <1>4, <1>10, <1>11, <1>12, Zenon

(* The rules of a system call: one of them matches, or the end e is reached.  *)
RulesTo(prog, p, e, met, s, w) ==
  /\ met /\ w = "match" => Reaches(prog, s, p, w)
  /\ ~met /\ Reaches(prog, s, e, w) => Reaches(prog, s, p, w)
  /\ \A a : Leads(prog, s, e + 1, a, w) => Leads(prog, s, p + 1, a, w)

RulesRun(bpf, met, s) ==
  \A prog, p, w : At(prog, p, bpf) => RulesTo(prog, p, p + Len(bpf), met, s, w)

LEMMA RetIs == \A v \in Names : Ret(v) \in Instruction /\ <<Ret(v)>> \in Code /\ Len(<<Ret(v)>>) = 1
BY InstructionIs, OneIs, Zenon

(* One more rule. *)
LEMMA RulesMore ==
  ASSUME NEW s \in Call, NEW rule \in Rule, NEW bpf \in Code, NEW met \in BOOLEAN,
         RulesRun(bpf, met, s)
  PROVE  RulesRun(bpf \o RuleBpf(rule) \o <<Ret("match")>>, met \/ MeetsRule(s, rule), s)
<1>1. PICK code : code = RuleBpf(rule)
  BY Zenon
<1>2. PICK one \in BOOLEAN : one = MeetsRule(s, rule)
  BY Zenon DEF MeetsRule
<1>3. PICK ret : ret = <<Ret("match")>>
  BY Zenon
<1>4. Ret("match") \in Instruction /\ ret \in Code /\ Len(ret) = 1
  BY <1>3, RetIs, Zenon DEF Names
<1>5. code \in Code
  BY <1>1, RuleRuns, Zenon
<1>6. /\ bpf \o code \in Code /\ Len(bpf \o code) = Len(bpf) + Len(code)
      /\ Len(bpf) \in Nat /\ Len(code) \in Nat
  BY <1>5, Joined, Zenon
<1>7. Len(bpf \o code \o ret) = Len(bpf \o code) + 1
  BY <1>4, <1>6, Joined, Zenon
<1>8. ASSUME NEW prog, NEW p, NEW w, At(prog, p, bpf \o code \o ret)
      PROVE  RulesTo(prog, p, p + Len(bpf \o code \o ret), met \/ one, s, w)
  <2>1. At(prog, p, bpf \o code) /\ At(prog, p + Len(bpf \o code), ret)
    BY <1>4, <1>6, <1>8, AtJoined, Zenon
  <2>2. At(prog, p, bpf) /\ At(prog, p + Len(bpf), code)
    BY <1>5, <2>1, AtJoined, Zenon
  <2>3. p \in Nat
    BY <2>2, Zenon DEF At
  <2>4. PICK q : q = p + Len(bpf)
    BY Zenon
  <2>5. PICK r : r = q + Len(code)
    BY Zenon
  <2>6. p + Len(bpf \o code) = r /\ p + Len(bpf \o code \o ret) = r + 1 /\ r + 1 + 1 = r + 2
    BY <1>6, <1>7, <2>3, <2>4, <2>5
  <2>7. RulesTo(prog, p, q, met, s, w)
    BY <2>2, <2>4, Zenon DEF RulesRun
  <2>8. RuleTo(prog, q, r, one, s, w)
    BY <1>1, <1>2, <2>2, <2>4, <2>5, RuleRuns, Zenon
  <2>9. Holds(prog, r, Ret("match"))
    BY <1>3, <1>4, <2>1, <2>6, AtOne, Zenon
  <2>10. w = "match" => Reaches(prog, s, r, w)
    BY <2>9, LeadsRet, Zenon
  <2>11. RulesTo(prog, p, r + 1, met \/ one, s, w)
    BY <2>6, <2>7, <2>8, <2>10, Zenon DEF RulesTo, RuleTo
  <2> QED
    BY <2>6, <2>11, Zenon
<1>9. RulesRun(bpf \o code \o ret, met \/ one, s)
  BY <1>8, Zenon DEF RulesRun
<1> QED
  BY <1>1, <1>2, <1>3, <1>9, Zenon

LEMMA RulesBpfIs ==
  ASSUME NEW s \in Call, NEW rules \in Seq(Rule)
  PROVE  /\ RulesBpf(rules)[0] = <<>>
         /\ \A i \in 1 .. Len(rules) :
              RulesBpf(rules)[i] = RulesBpf(rules)[i - 1] \o RuleBpf(rules[i]) \o <<Ret("match")>>
         /\ \A i \in 0 .. Len(rules) : RulesBpf(rules)[i] \in Code
<1> DEFINE N == Len(rules)
           More(x, i) == x \o RuleBpf(rules[i]) \o <<Ret("match")>>
<1>1. N \in Nat /\ \A i \in 1 .. N : rules[i] \in Rule
  OBVIOUS
<1>2. <<>> \in Code
  BY EmptyBody, Zenon
<1> HIDE DEF N
<1>3. \A i \in 1 .. N, x \in Code : More(x, i) \in Code
  <2> SUFFICES ASSUME NEW i \in 1 .. N, NEW x \in Code
               PROVE  More(x, i) \in Code
    BY Zenon
  <2>1. RuleBpf(rules[i]) \in Code
    BY <1>1, RuleRuns, Zenon
  <2>2. <<Ret("match")>> \in Code
    BY RetIs, Zenon DEF Names
  <2>3. x \o RuleBpf(rules[i]) \in Code
    BY <2>1, Joined, Zenon
  <2> QED
    BY <2>2, <2>3, Joined, Zenon
<1> HIDE DEF More
<1>4. PICK step : step = [i \in 1 .. N |-> [x \in Code |-> More(x, i)]]
  BY Zenon
<1>5. /\ step \in [1 .. N -> [Code -> Code]]
      /\ \A i \in 1 .. N, x \in Code : step[i][x] = More(x, i)
  BY <1>3, <1>4, Zenon
<1>6. PICK g \in [0 .. N -> Code] : Follows(g, N, <<>>, step)
  BY <1>1, <1>2, <1>5, Recursion, Zenon
<1>7. \A i \in 0 .. N : i # 0 => i \in 1 .. N /\ i - 1 \in 0 .. N
  BY <1>1
<1>8. g = [i \in 0 .. N |-> IF i = 0 THEN <<>> ELSE More(g[i - 1], i)]
  <2>1. ASSUME NEW i \in 0 .. N, i # 0
        PROVE  g[i] = More(g[i - 1], i)
    BY <1>5, <1>6, <1>7, <2>1, Zenon DEF Follows
  <2> QED
    BY <1>6, <2>1, Zenon DEF Follows
<1>9. PICK f : f = RulesBpf(rules)
  BY Zenon
<1>10. f = [i \in 0 .. N |-> IF i = 0 THEN <<>> ELSE More(f[i - 1], i)]
  BY <1>8, <1>9, Zenon DEF RulesBpf, N, More
<1>11. f[0] = <<>> /\ \A i \in 1 .. N : f[i] = More(f[i - 1], i)
  <2>1. 0 \in 0 .. N /\ \A i \in 1 .. N : i \in 0 .. N /\ i # 0
    BY <1>1
  <2> QED
    BY <1>10, <2>1, Zenon
<1>12. \A i \in 0 .. N : f[i] \in Code
  <2>1. f[0] \in Code
    BY <1>2, <1>11, Zenon
  <2>2. \A i \in 1 .. N : f[i - 1] \in Code => f[i] \in Code
    BY <1>3, <1>11, Zenon
  <2> QED
    BY <1>1, <2>1, <2>2, StaysIn, Zenon
<1> QED
  BY <1>9, <1>11, <1>12, Zenon DEF N, More

SomeMet(s, rules, n) == \E j \in 1 .. n : MeetsRule(s, rules[j])

LEMMA RulesBpfRun ==
  ASSUME NEW s \in Call, NEW rules \in Seq(Rule)
  PROVE  /\ RulesBpf(rules)[Len(rules)] \in Code
         /\ RulesRun(RulesBpf(rules)[Len(rules)], SomeMet(s, rules, Len(rules)), s)
<1>1. PICK f : f = RulesBpf(rules)
  BY Zenon
<1>2. PICK N \in Nat : N = Len(rules)
  OBVIOUS
<1>3. /\ f[0] = <<>>
      /\ \A i \in 1 .. N : f[i] = f[i - 1] \o RuleBpf(rules[i]) \o <<Ret("match")>>
      /\ \A i \in 0 .. N : f[i] \in Code
  BY <1>1, <1>2, RulesBpfIs, Zenon
<1>4. \A i \in 1 .. N : rules[i] \in Rule
  BY <1>2
<1> DEFINE T == {k \in Nat : k <= N => RulesRun(f[k], SomeMet(s, rules, k), s)}
<1>5. 0 \in T
  <2>1. ~SomeMet(s, rules, 0) /\ 0 \in Nat
    BY DEF SomeMet
  <2>2. ASSUME NEW prog, NEW p, NEW w, At(prog, p, <<>>)
        PROVE  RulesTo(prog, p, p + Len(<<>>), SomeMet(s, rules, 0), s, w)
    <3>1. p + Len(<<>>) = p
      BY <2>2 DEF At
    <3> QED
      BY <2>1, <3>1, Zenon DEF RulesTo
  <2>3. RulesRun(<<>>, SomeMet(s, rules, 0), s)
    BY <2>2, Zenon DEF RulesRun
  <2> QED
    BY <1>3, <2>1, <2>3, Zenon
<1>6. ASSUME NEW k \in Nat, k \in T, k + 1 <= N
      PROVE  RulesRun(f[k + 1], SomeMet(s, rules, k + 1), s)
  <2>1. k + 1 \in 1 .. N /\ k \in 0 .. N /\ k <= N /\ (k + 1) - 1 = k
    BY <1>6
  <2>2. PICK met \in BOOLEAN : met = SomeMet(s, rules, k)
    BY Zenon DEF SomeMet
  <2>3. (met \/ MeetsRule(s, rules[k + 1])) = SomeMet(s, rules, k + 1)
    <3>1. \A j : j \in 1 .. k + 1 <=> j = k + 1 \/ j \in 1 .. k
      OBVIOUS
    <3>2. (met \/ MeetsRule(s, rules[k + 1])) <=> SomeMet(s, rules, k + 1)
      BY <2>2, <3>1, Zenon DEF SomeMet
    <3> QED
      BY <3>2, Zenon DEF SomeMet
  <2>4. RulesRun(f[k], met, s) /\ f[k] \in Code /\ rules[k + 1] \in Rule
    BY <1>3, <1>4, <1>6, <2>1, <2>2, Zenon
  <2>5. RulesRun(f[k] \o RuleBpf(rules[k + 1]) \o <<Ret("match")>>,
                 met \/ MeetsRule(s, rules[k + 1]), s)
    BY <2>4, RulesMore, Zenon
  <2>6. f[k + 1] = f[k] \o RuleBpf(rules[k + 1]) \o <<Ret("match")>>
    BY <1>3, <2>1, Zenon
  <2> QED
    BY <2>3, <2>5, <2>6, Zenon
<1>7. \A k \in Nat : k \in T => k + 1 \in T
  <2>1. \A k \in Nat : k + 1 \in Nat
    OBVIOUS
  <2> QED
    BY <1>6, <2>1, Zenon
<1>8. N \in T /\ N <= N /\ N \in 0 .. N
  <2> HIDE DEF T
  <2> QED
    BY <1>5, <1>7, Induction
<1> QED
  BY <1>1, <1>2, <1>3, <1>8, Zenon

--------------------------------------------------------------------------------
(* The chain of a system call decides on that call, and passes another one    *)
(* on to its end e.                                                           *)

Verdict(s, chain) == IF Matches(s, chain) THEN "match" ELSE "mismatch"

ChainTo(prog, p, e, chain, s, w) ==
  /\ s.nr = chain.nr /\ w = Verdict(s, chain) => Leads(prog, s, p, s.nr, w)
  /\ s.nr # chain.nr /\ Leads(prog, s, e, s.nr, w) => Leads(prog, s, p, s.nr, w)

ChainSet == [nr : Nat, rules : Seq(Rule)]

(* What is between the comparison of the number and the end. *)
InChain(chain) ==
  IF chain.rules = <<>> THEN <<Ja(1), Ja(2), Ret("match")>>
  ELSE RulesBpf(chain.rules)[Len(chain.rules)]

MatchedIn(s, chain) ==
  chain.rules = <<>> \/ \E i \in DOMAIN chain.rules : MeetsRule(s, chain.rules[i])

LEMMA NoRules ==
  ASSUME NEW s
  PROVE  /\ <<Ja(1), Ja(2), Ret("match")>> \in Code
         /\ RulesRun(<<Ja(1), Ja(2), Ret("match")>>, TRUE, s)
<1>1. Ja(1) \in Instruction /\ Ja(2) \in Instruction /\ Ret("match") \in Instruction
  <2>1. 1 \in Nat /\ 2 \in Nat
    OBVIOUS
  <2> QED
    BY <2>1, InstructionIs, RetIs, Zenon DEF Names
<1>2. PICK code : code = <<Ja(1), Ja(2), Ret("match")>>
  BY Zenon
<1>3. code \in Code /\ Len(code) = 3
  BY <1>1, <1>2, AtThree, Zenon
<1>4. ASSUME NEW prog, NEW p, NEW w, At(prog, p, code)
      PROVE  RulesTo(prog, p, p + Len(code), TRUE, s, w)
  <2>5. /\ Holds(prog, p, Ja(1)) /\ Holds(prog, p + 1, Ja(2))
        /\ Holds(prog, p + 2, Ret("match")) /\ p \in Nat
    BY <1>1, <1>2, <1>4, AtThree, Zenon
  <2>2. p + 1 + 1 = p + 2 /\ p + 1 + 1 + 2 = p + 3 + 1 /\ 1 \in Nat /\ 2 \in Nat
    BY <2>5
  <2>6. w = "match" => Reaches(prog, s, p + 2, w)
    BY <2>5, LeadsRet, Zenon
  <2>7. \A a : Leads(prog, s, p + 2, a, w) => Leads(prog, s, p, a, w)
    BY <2>2, <2>5, LeadsJa, Zenon
  <2>8. \A a : Leads(prog, s, p + 3 + 1, a, w) => Leads(prog, s, p + 1, a, w)
    BY <2>2, <2>5, LeadsJa, Zenon
  <2>9. RulesTo(prog, p, p + 3, TRUE, s, w)
    BY <2>6, <2>7, <2>8, Zenon DEF RulesTo, Reaches
  <2> QED
    BY <1>3, <2>9, Zenon
<1> QED
  BY <1>2, <1>3, <1>4, Zenon DEF RulesRun

LEMMA InChainRuns ==
  ASSUME NEW s \in Call, NEW chain \in ChainSet
  PROVE  InChain(chain) \in Code /\ RulesRun(InChain(chain), MatchedIn(s, chain), s)
<1>1. PICK rules \in Seq(Rule) : rules = chain.rules
  BY Zenon DEF ChainSet
<1>2. PICK met \in BOOLEAN : met = MatchedIn(s, chain)
  BY Zenon DEF MatchedIn
<1>3. CASE rules = <<>>
  <2>1. met = TRUE
    BY <1>1, <1>2, <1>3, Zenon DEF MatchedIn
  <2>2. InChain(chain) = <<Ja(1), Ja(2), Ret("match")>>
    BY <1>1, <1>3, Zenon DEF InChain
  <2> QED
    BY <1>2, <2>1, <2>2, NoRules, Zenon
<1>4. CASE rules # <<>>
  <2>1. InChain(chain) = RulesBpf(rules)[Len(rules)]
    BY <1>1, <1>4, Zenon DEF InChain
  <2>2. SomeMet(s, rules, Len(rules)) = met
    <3>1. DOMAIN rules = 1 .. Len(rules)
      OBVIOUS
    <3>2. SomeMet(s, rules, Len(rules)) <=> met
      BY <1>1, <1>2, <1>4, <3>1, Zenon DEF SomeMet, MatchedIn
    <3> QED
      BY <3>2, Zenon DEF SomeMet
  <2> QED
    BY <1>2, <2>1, <2>2, RulesBpfRun, Zenon
<1> QED
  BY <1>3, <1>4, Zenon

LEMMA ChainRuns ==
  ASSUME NEW s \in Call, NEW chain \in ChainSet
  PROVE  /\ ChainBpf(chain) \in Code
         /\ \A prog, p, w : At(prog, p, ChainBpf(chain)) =>
              ChainTo(prog, p, p + Len(ChainBpf(chain)), chain, s, w)
<1>1. PICK in : in = InChain(chain)
  BY Zenon
<1>2. PICK met \in BOOLEAN : met = MatchedIn(s, chain)
  BY Zenon DEF MatchedIn
<1>3. in \in Code /\ RulesRun(in, met, s)
  BY <1>1, <1>2, InChainRuns, Zenon
<1>4. PICK first : first = Jump("jeq", chain.nr, 0, 1)
  BY Zenon
<1>5. first \in Instruction
  <2>1. chain.nr \in Nat \cup Names
    BY Zenon DEF ChainSet
  <2>2. 0 \in 0 .. MaxJump /\ 1 \in 0 .. MaxJump
    BY BodyIs
  <2> QED
    BY <1>4, <2>1, <2>2, InstructionIs, Zenon DEF Opcodes
<1>6. <<first>> \in Code /\ Len(<<first>>) = 1
  BY <1>5, OneIs, Zenon
<1>7. PICK ret : ret = <<Ret("mismatch")>>
  BY Zenon
<1>8. Ret("mismatch") \in Instruction /\ ret \in Code /\ Len(ret) = 1
  BY <1>7, RetIs, Zenon DEF Names
<1>9. ChainBpf(chain) = <<first>> \o in \o ret
  BY <1>1, <1>4, <1>7, Zenon DEF ChainBpf, InChain
<1>10. /\ <<first>> \o in \in Code /\ Len(<<first>> \o in) = 1 + Len(in) /\ Len(in) \in Nat
  BY <1>3, <1>6, Joined, Zenon
<1>11. /\ <<first>> \o in \o ret \in Code
       /\ Len(<<first>> \o in \o ret) = Len(<<first>> \o in) + 1
  BY <1>8, <1>10, Joined, Zenon
<1>12. Matches(s, chain) <=> s.nr = chain.nr /\ met
  BY <1>2, Zenon DEF Matches, MatchedIn
<1>13. ASSUME NEW prog, NEW p, NEW w, At(prog, p, <<first>> \o in \o ret)
       PROVE  ChainTo(prog, p, p + Len(<<first>> \o in \o ret), chain, s, w)
  <2>1. At(prog, p, <<first>> \o in) /\ At(prog, p + Len(<<first>> \o in), ret)
    BY <1>8, <1>10, <1>13, AtJoined, Zenon
  <2>2. At(prog, p, <<first>>) /\ At(prog, p + 1, in)
    BY <1>3, <1>6, <2>1, AtJoined, Zenon
  <2>3. Holds(prog, p, Jump("jeq", chain.nr, 0, 1)) /\ p \in Nat
    BY <1>4, <1>5, <2>2, AtOne, Zenon
  <2>4. PICK q : q = p + 1
    BY Zenon
  <2>5. PICK e : e = q + Len(in)
    BY Zenon
  <2>6. /\ p + Len(<<first>> \o in) = e /\ p + Len(<<first>> \o in \o ret) = e + 1
        /\ q = p + 1 + 0 /\ q + 1 = p + 1 + 1 /\ 0 \in Nat /\ 1 \in Nat
    BY <1>10, <1>11, <2>3, <2>4, <2>5
  <2>7. Holds(prog, e, Ret("mismatch"))
    BY <1>7, <1>8, <2>1, <2>6, AtOne, Zenon
  <2>8. w = "mismatch" => Reaches(prog, s, e, w)
    BY <2>7, LeadsRet, Zenon
  <2>9. RulesTo(prog, q, e, met, s, w)
    BY <1>3, <2>2, <2>4, <2>5, Zenon DEF RulesRun
  <2>10. ASSUME s.nr = chain.nr, w = Verdict(s, chain)
         PROVE  Leads(prog, s, p, s.nr, w)
    <3>1. Reaches(prog, s, q, w)
      BY <1>12, <2>8, <2>9, <2>10, Zenon DEF RulesTo, Verdict
    <3>2. Leads(prog, s, p + 1 + 0, s.nr, w)
      BY <2>6, <3>1, Zenon DEF Reaches
    <3> QED
      BY <2>3, <2>6, <2>10, <3>2, LeadsEq, Zenon
  <2>11. ASSUME s.nr # chain.nr, Leads(prog, s, e + 1, s.nr, w)
         PROVE  Leads(prog, s, p, s.nr, w)
    <3>1. Leads(prog, s, p + 1 + 1, s.nr, w)
      BY <2>6, <2>9, <2>11, Zenon DEF RulesTo
    <3> QED
      BY <2>3, <2>6, <2>11, <3>1, LeadsEq, Zenon
  <2> QED
    BY <2>6, <2>10, <2>11, Zenon DEF ChainTo
<1> QED
  BY <1>9, <1>11, <1>13, Zenon

(* The chains one after the other. *)
IsFilter(f) ==
  /\ f \in Seq(ChainSet)
  /\ \A i, j \in 1 .. Len(f) : f[i].nr = f[j].nr => i = j

LEMMA FiltersAre ==
  ASSUME NEW f \in Filters
  PROVE  IsFilter(f)
<1>1. f \in Seq(ChainSet) /\ \A i, j \in DOMAIN f : i < j => f[i].nr < f[j].nr
  BY FilterAssumption, Zenon DEF ChainSet
<1>2. DOMAIN f = 1 .. Len(f) /\ Len(f) \in Nat
  BY <1>1
<1>3. \A i \in 1 .. Len(f) : f[i] \in ChainSet
  BY <1>1
<1>4. \A i \in 1 .. Len(f) : f[i].nr \in Nat
  BY <1>3, Zenon DEF ChainSet
<1>5. \A i, j \in 1 .. Len(f) : f[i].nr = f[j].nr => i = j
  <2> SUFFICES ASSUME NEW i \in 1 .. Len(f), NEW j \in 1 .. Len(f), f[i].nr = f[j].nr
               PROVE  i = j
    BY Zenon
  <2>1. \A x, y \in Nat : x < y => x # y
    OBVIOUS
  <2>2. ~(i < j) /\ ~(j < i)
    BY <1>1, <1>2, <1>4, <2>1, Zenon
  <2> QED
    BY <1>2, <2>2
<1> QED
  BY <1>1, <1>5, Zenon DEF IsFilter

LEMMA ChainsBpfIs ==
  ASSUME NEW s \in Call, NEW f \in Seq(ChainSet)
  PROVE  /\ ChainsBpf(f)[0] = <<>>
         /\ \A i \in 1 .. Len(f) : ChainsBpf(f)[i] = ChainsBpf(f)[i - 1] \o ChainBpf(f[i])
         /\ \A i \in 0 .. Len(f) : ChainsBpf(f)[i] \in Code
<1> DEFINE N == Len(f)
           More(x, i) == x \o ChainBpf(f[i])
<1>1. N \in Nat /\ \A i \in 1 .. N : f[i] \in ChainSet
  OBVIOUS
<1>2. <<>> \in Code
  BY EmptyBody, Zenon
<1> HIDE DEF N
<1>3. \A i \in 1 .. N, x \in Code : More(x, i) \in Code
  <2> SUFFICES ASSUME NEW i \in 1 .. N, NEW x \in Code
               PROVE  More(x, i) \in Code
    BY Zenon
  <2>1. ChainBpf(f[i]) \in Code
    BY <1>1, ChainRuns, Zenon
  <2> QED
    BY <2>1, Joined, Zenon
<1> HIDE DEF More
<1>4. PICK step : step = [i \in 1 .. N |-> [x \in Code |-> More(x, i)]]
  BY Zenon
<1>5. /\ step \in [1 .. N -> [Code -> Code]]
      /\ \A i \in 1 .. N, x \in Code : step[i][x] = More(x, i)
  BY <1>3, <1>4, Zenon
<1>6. PICK g \in [0 .. N -> Code] : Follows(g, N, <<>>, step)
  BY <1>1, <1>2, <1>5, Recursion, Zenon
<1>7. \A i \in 0 .. N : i # 0 => i \in 1 .. N /\ i - 1 \in 0 .. N
  BY <1>1
<1>8. g = [i \in 0 .. N |-> IF i = 0 THEN <<>> ELSE More(g[i - 1], i)]
  <2>1. ASSUME NEW i \in 0 .. N, i # 0
        PROVE  g[i] = More(g[i - 1], i)
    BY <1>5, <1>6, <1>7, <2>1, Zenon DEF Follows
  <2> QED
    BY <1>6, <2>1, Zenon DEF Follows
<1>9. PICK b : b = ChainsBpf(f)
  BY Zenon
<1>10. b = [i \in 0 .. N |-> IF i = 0 THEN <<>> ELSE More(b[i - 1], i)]
  BY <1>8, <1>9, Zenon DEF ChainsBpf, N, More
<1>11. b[0] = <<>> /\ \A i \in 1 .. N : b[i] = More(b[i - 1], i)
  <2>1. 0 \in 0 .. N /\ \A i \in 1 .. N : i \in 0 .. N /\ i # 0
    BY <1>1
  <2> QED
    BY <1>10, <2>1, Zenon
<1>12. \A i \in 0 .. N : b[i] \in Code
  <2>1. b[0] \in Code
    BY <1>2, <1>11, Zenon
  <2>2. \A i \in 1 .. N : b[i - 1] \in Code => b[i] \in Code
    BY <1>3, <1>11, Zenon
  <2> QED
    BY <1>1, <2>1, <2>2, StaysIn, Zenon
<1> QED
  BY <1>9, <1>11, <1>12, Zenon DEF N, More

ChainsTo(prog, p, e, f, n, s, w) ==
  /\ \A j \in 1 .. n : s.nr = f[j].nr /\ w = Verdict(s, f[j]) => Leads(prog, s, p, s.nr, w)
  /\ (\A j \in 1 .. n : s.nr # f[j].nr) /\ Leads(prog, s, e, s.nr, w) => Leads(prog, s, p, s.nr, w)

ChainsRun(bpf, f, n, s) ==
  \A prog, p, w : At(prog, p, bpf) => ChainsTo(prog, p, p + Len(bpf), f, n, s, w)

LEMMA ChainsMore ==
  ASSUME NEW s \in Call, NEW f, IsFilter(f), NEW n \in Nat, n + 1 <= Len(f), NEW bpf \in Code,
         ChainsRun(bpf, f, n, s)
  PROVE  ChainsRun(bpf \o ChainBpf(f[n + 1]), f, n + 1, s)
<1>1. f[n + 1] \in ChainSet /\ Len(f) \in Nat
  BY DEF IsFilter
<1>2. PICK code : code = ChainBpf(f[n + 1])
  BY Zenon
<1>3. code \in Code
  BY <1>1, <1>2, ChainRuns, Zenon
<1>4. Len(bpf \o code) = Len(bpf) + Len(code) /\ Len(bpf) \in Nat /\ Len(code) \in Nat
  BY <1>3, Joined, Zenon
<1>5. \A j : j \in 1 .. n + 1 <=> j = n + 1 \/ j \in 1 .. n
  OBVIOUS
<1>6. \A j \in 1 .. n : f[j].nr # f[n + 1].nr
  <2> SUFFICES ASSUME NEW j \in 1 .. n
               PROVE  f[j].nr # f[n + 1].nr
    BY Zenon
  <2>1. j \in 1 .. Len(f) /\ n + 1 \in 1 .. Len(f) /\ j # n + 1
    BY <1>1
  <2> QED
    BY <2>1, Zenon DEF IsFilter
<1>7. ASSUME NEW prog, NEW p, NEW w, At(prog, p, bpf \o code)
      PROVE  ChainsTo(prog, p, p + Len(bpf \o code), f, n + 1, s, w)
  <2>1. At(prog, p, bpf) /\ At(prog, p + Len(bpf), code)
    BY <1>3, <1>7, AtJoined, Zenon
  <2>2. p \in Nat
    BY <2>1, Zenon DEF At
  <2>3. PICK q : q = p + Len(bpf)
    BY Zenon
  <2>4. PICK e : e = q + Len(code)
    BY Zenon
  <2>5. p + Len(bpf \o code) = e
    BY <1>4, <2>2, <2>3, <2>4
  <2>6. ChainsTo(prog, p, q, f, n, s, w)
    BY <2>1, <2>3, Zenon DEF ChainsRun
  <2>7. ChainTo(prog, q, e, f[n + 1], s, w)
    BY <1>1, <1>2, <2>1, <2>3, <2>4, ChainRuns, Zenon
  <2>8. ASSUME NEW j \in 1 .. n + 1, s.nr = f[j].nr, w = Verdict(s, f[j])
        PROVE  Leads(prog, s, p, s.nr, w)
    <3>1. CASE j \in 1 .. n
      BY <2>6, <2>8, <3>1, Zenon DEF ChainsTo
    <3>2. CASE j = n + 1
      <4>1. Leads(prog, s, q, s.nr, w)
        BY <2>7, <2>8, <3>2, Zenon DEF ChainTo
      <4>2. \A i \in 1 .. n : s.nr # f[i].nr
        BY <1>6, <2>8, <3>2, Zenon
      <4> QED
        BY <2>6, <4>1, <4>2, Zenon DEF ChainsTo
    <3> QED
      BY <1>5, <3>1, <3>2, Zenon
  <2>9. ASSUME \A j \in 1 .. n + 1 : s.nr # f[j].nr, Leads(prog, s, e, s.nr, w)
        PROVE  Leads(prog, s, p, s.nr, w)
    <3>1. Leads(prog, s, q, s.nr, w)
      BY <1>5, <2>7, <2>9, Zenon DEF ChainTo
    <3> QED
      BY <1>5, <2>6, <2>9, <3>1, Zenon DEF ChainsTo
  <2>10. ChainsTo(prog, p, e, f, n + 1, s, w)
    BY <2>8, <2>9, Zenon DEF ChainsTo
  <2> QED
    BY <2>5, <2>10, Zenon
<1> QED
  BY <1>2, <1>7, Zenon DEF ChainsRun

LEMMA ChainsBpfRun ==
  ASSUME NEW s \in Call, NEW f, IsFilter(f)
  PROVE  ChainsBpf(f)[Len(f)] \in Code /\ ChainsRun(ChainsBpf(f)[Len(f)], f, Len(f), s)
<1>1. PICK b : b = ChainsBpf(f)
  BY Zenon
<1>2. PICK N \in Nat : N = Len(f)
  BY DEF IsFilter
<1>3. /\ b[0] = <<>>
      /\ \A i \in 1 .. N : b[i] = b[i - 1] \o ChainBpf(f[i])
      /\ \A i \in 0 .. N : b[i] \in Code
  BY <1>1, <1>2, ChainsBpfIs, Zenon DEF IsFilter
<1> DEFINE T == {k \in Nat : k <= N => ChainsRun(b[k], f, k, s)}
<1>4. 0 \in T
  <2>1. 1 .. 0 = {} /\ 0 \in Nat
    OBVIOUS
  <2>2. ASSUME NEW prog, NEW p, NEW w, At(prog, p, <<>>)
        PROVE  ChainsTo(prog, p, p + Len(<<>>), f, 0, s, w)
    <3>1. p + Len(<<>>) = p
      BY <2>2 DEF At
    <3> QED
      BY <2>1, <3>1, Zenon DEF ChainsTo
  <2>3. ChainsRun(<<>>, f, 0, s)
    BY <2>2, Zenon DEF ChainsRun
  <2> QED
    BY <1>3, <2>1, <2>3, Zenon
<1>5. ASSUME NEW k \in Nat, k \in T, k + 1 <= N
      PROVE  ChainsRun(b[k + 1], f, k + 1, s)
  <2>1. k + 1 \in 1 .. N /\ k \in 0 .. N /\ k <= N /\ (k + 1) - 1 = k /\ k + 1 <= Len(f)
    BY <1>2, <1>5
  <2>2. b[k + 1] = b[k] \o ChainBpf(f[k + 1]) /\ b[k] \in Code
    BY <1>3, <2>1, Zenon
  <2>3. ChainsRun(b[k], f, k, s)
    BY <1>5, <2>1, Zenon
  <2> QED
    BY <2>1, <2>2, <2>3, ChainsMore, Zenon
<1>6. \A k \in Nat : k \in T => k + 1 \in T
  <2>1. \A k \in Nat : k + 1 \in Nat
    OBVIOUS
  <2> QED
    BY <1>5, <2>1, Zenon
<1>7. N \in T /\ N <= N /\ N \in 0 .. N
  <2> HIDE DEF T
  <2> QED
    BY <1>4, <1>6, Induction
<1> QED
  BY <1>1, <1>2, <1>3, <1>7, Zenon

--------------------------------------------------------------------------------
(* The whole program. *)

LEMMA AtStart ==
  ASSUME NEW x \in Code
  PROVE  At(x, 1, x)
<1>1. Len(x) \in Nat
  BY DEF Code
<1>2. 1 \in Nat \ {0} /\ 1 + Len(x) <= Len(x) + 1 /\ \A i \in 1 .. Len(x) : 1 + i - 1 = i
  BY <1>1
<1> QED
  BY <1>2, Zenon DEF At

(* After the architecture: the chains and what no chain decides on. *)
AfterArch(f) == IF f = <<>> THEN <<>> ELSE <<Ld("nr", 0)>> \o ChainsBpf(f)[Len(f)]

Matched(f, s) == IF \E i \in DOMAIN f : Matches(s, f[i]) THEN "match" ELSE "mismatch"

LEMMA AfterArchRuns ==
  ASSUME NEW s \in Call, NEW f, IsFilter(f)
  PROVE  /\ AfterArch(f) \in Code
         /\ \A prog, p : /\ At(prog, p, AfterArch(f))
                         /\ Holds(prog, p + Len(AfterArch(f)), Ret("mismatch"))
                         => Reaches(prog, s, p, Matched(f, s))
<1>1. Ld("nr", 0) \in Instruction
  BY InstructionIs, Zenon DEF Fields
<1>2. <<Ld("nr", 0)>> \in Code /\ Len(<<Ld("nr", 0)>>) = 1
  BY <1>1, OneIs, Zenon
<1>3. PICK b : b = ChainsBpf(f)[Len(f)]
  BY Zenon
<1>4. b \in Code /\ ChainsRun(b, f, Len(f), s)
  BY <1>3, ChainsBpfRun, Zenon
<1>5. DOMAIN f = 1 .. Len(f)
  BY DEF IsFilter
<1>6. /\ <<Ld("nr", 0)>> \o b \in Code /\ Len(<<Ld("nr", 0)>> \o b) = 1 + Len(b)
      /\ Len(b) \in Nat /\ <<>> \in Code
  BY <1>2, <1>4, Joined, EmptyBody, Zenon
<1>7. AfterArch(f) \in Code
  BY <1>3, <1>6, Zenon DEF AfterArch
<1>8. ASSUME NEW prog, NEW p, At(prog, p, AfterArch(f)),
             Holds(prog, p + Len(AfterArch(f)), Ret("mismatch"))
      PROVE  Reaches(prog, s, p, Matched(f, s))
  <2>1. CASE f = <<>>
    <3>1. AfterArch(f) = <<>>
      BY <2>1, Zenon DEF AfterArch
    <3>2. p + Len(AfterArch(f)) = p
      BY <1>8, <3>1 DEF At
    <3>3. Matched(f, s) = "mismatch"
      <4>1. DOMAIN f = {}
        BY <2>1
      <4> QED
        BY <4>1, Zenon DEF Matched
    <3> QED
      BY <1>8, <3>2, <3>3, LeadsRet, Zenon
  <2>2. CASE f # <<>>
    <3>1. AfterArch(f) = <<Ld("nr", 0)>> \o b
      BY <1>3, <2>2, Zenon DEF AfterArch
    <3>2. At(prog, p, <<Ld("nr", 0)>>) /\ At(prog, p + 1, b)
      BY <1>2, <1>4, <1>8, <3>1, AtJoined, Zenon
    <3>3. Holds(prog, p, Ld("nr", 0)) /\ p \in Nat
      BY <1>1, <3>2, AtOne, Zenon
    <3>4. PICK q : q = p + 1
      BY Zenon
    <3>5. PICK e : e = q + Len(b)
      BY Zenon
    <3>6. p + Len(AfterArch(f)) = e
      BY <1>6, <3>1, <3>3, <3>4, <3>5
    <3>7. PICK w : w = Matched(f, s)
      BY Zenon
    <3>8. ChainsTo(prog, q, e, f, Len(f), s, w)
      BY <1>4, <3>2, <3>4, <3>5, Zenon DEF ChainsRun
    <3>9. Leads(prog, s, q, s.nr, w)
      <4>1. CASE \E j \in 1 .. Len(f) : s.nr = f[j].nr
        <5>1. PICK j \in 1 .. Len(f) : s.nr = f[j].nr
          BY <4>1, Zenon
        <5>2. \A i \in 1 .. Len(f) : Matches(s, f[i]) => i = j
          BY <5>1, Zenon DEF Matches, IsFilter
        <5>3. w = Verdict(s, f[j])
          BY <1>5, <3>7, <5>2, Zenon DEF Matched, Verdict
        <5> QED
          BY <3>8, <5>1, <5>3, Zenon DEF ChainsTo
      <4>2. CASE ~\E j \in 1 .. Len(f) : s.nr = f[j].nr
        <5>1. \A i \in 1 .. Len(f) : ~Matches(s, f[i])
          BY <4>2, Zenon DEF Matches
        <5>2. w = "mismatch"
          BY <1>5, <3>7, <5>1, Zenon DEF Matched
        <5>3. Reaches(prog, s, e, w)
          BY <1>8, <3>6, <5>2, LeadsRet, Zenon
        <5> QED
          BY <3>8, <4>2, <5>3, Zenon DEF ChainsTo, Reaches
      <4> QED
        BY <4>1, <4>2, Zenon
    <3>10. Field(s, [of |-> "nr", arg |-> 0]) = s.nr
      BY DEF Field
    <3> QED
      BY <3>3, <3>4, <3>7, <3>9, <3>10, LeadsLd, Zenon
  <2> QED
    BY <2>1, <2>2, Zenon
<1> QED
  BY <1>7, <1>8, Zenon

LEMMA CompiledRuns ==
  ASSUME NEW s \in Call, NEW f, IsFilter(f)
  PROVE  Compiled(f) \in Code /\ Reaches(Compiled(f), s, 1, Decision(f, s))
<1>1. PICK h : h = <<Ld("arch", 0), Jump("jeq", "target", 1, 0), Ret("kill")>>
  BY Zenon
<1>2. /\ Ld("arch", 0) \in Instruction /\ Jump("jeq", "target", 1, 0) \in Instruction
      /\ Ret("kill") \in Instruction
  <2>1. 0 \in 0 .. MaxJump /\ 1 \in 0 .. MaxJump
    BY BodyIs
  <2> QED
    BY <2>1, InstructionIs, Zenon DEF Fields, Opcodes, Names
<1>3. h \in Code /\ Len(h) = 3
  BY <1>1, <1>2, AtThree, Zenon
<1>4. PICK mid : mid = AfterArch(f)
  BY Zenon
<1>5. mid \in Code
  BY <1>4, AfterArchRuns, Zenon
<1>6. PICK ret : ret = <<Ret("mismatch")>>
  BY Zenon
<1>7. Ret("mismatch") \in Instruction /\ ret \in Code /\ Len(ret) = 1
  BY <1>6, RetIs, Zenon DEF Names
<1>8. PICK prog : prog = h \o mid \o ret
  BY Zenon
<1>9. prog = Compiled(f)
  BY <1>1, <1>4, <1>6, <1>8, Zenon DEF Compiled, AfterArch
<1>10. h \o mid \in Code /\ Len(h \o mid) = 3 + Len(mid) /\ Len(mid) \in Nat
  BY <1>3, <1>5, Joined, Zenon
<1>11. prog \in Code
  BY <1>7, <1>8, <1>10, Joined, Zenon
<1>12. At(prog, 1, h \o mid) /\ At(prog, 1 + Len(h \o mid), ret)
  BY <1>7, <1>8, <1>10, <1>11, AtStart, AtJoined, Zenon
<1>13. At(prog, 1, h) /\ At(prog, 1 + 3, mid)
  BY <1>3, <1>5, <1>12, AtJoined, Zenon
<1>14. /\ Holds(prog, 1, Ld("arch", 0)) /\ Holds(prog, 1 + 1, Jump("jeq", "target", 1, 0))
       /\ Holds(prog, 1 + 2, Ret("kill"))
  BY <1>1, <1>2, <1>13, AtThree, Zenon
<1>15. Holds(prog, 1 + 3 + Len(mid), Ret("mismatch"))
  <2>1. 1 + Len(h \o mid) = 1 + 3 + Len(mid)
    BY <1>10
  <2> QED
    BY <1>6, <1>7, <1>12, <2>1, AtOne, Zenon
<1>16. Reaches(prog, s, 1 + 3, Matched(f, s))
  BY <1>4, <1>13, <1>15, AfterArchRuns, Zenon
<1>17. Reaches(prog, s, 1 + 2, "kill")
  BY <1>14, LeadsRet, Zenon
<1>18. 1 + 3 = 1 + 1 + 1 + 1 /\ 1 + 2 = 1 + 1 + 1 + 0 /\ 0 \in Nat /\ 1 \in Nat
  OBVIOUS
<1>19. Decision(f, s) = IF s.arch = "target" THEN Matched(f, s) ELSE "kill"
  BY Zenon DEF Decision, Matched
<1>20. Leads(prog, s, 1 + 1, s.arch, Decision(f, s))
  <2>1. s.arch = "target" => Leads(prog, s, 1 + 1 + 1 + 1, s.arch, Decision(f, s))
    BY <1>16, <1>18, <1>19, Zenon DEF Reaches
  <2>2. s.arch # "target" => Leads(prog, s, 1 + 1 + 1 + 0, s.arch, Decision(f, s))
    BY <1>17, <1>18, <1>19, Zenon DEF Reaches
  <2> QED
    BY <1>14, <1>18, <2>1, <2>2, LeadsEq, Zenon
<1>21. Field(s, [of |-> "arch", arg |-> 0]) = s.arch
  BY DEF Field
<1>22. Reaches(prog, s, 1, Decision(f, s))
  BY <1>14, <1>20, <1>21, LeadsLd, Zenon
<1> QED
  BY <1>9, <1>11, <1>22, Zenon

--------------------------------------------------------------------------------
(* The machine is always on its way to the decision, or has made it. *)
FilterInv ==
  /\ filter \in Filters /\ call \in Calls /\ program = Compiled(filter)
  /\ verdict = "none" => Leads(program, call, pc, acc, Decision(filter, call))
  /\ verdict # "none" => verdict = Decision(filter, call) /\ pc \in 1 .. Len(program) + 1

LEMMA ProgramIs ==
  ASSUME NEW f \in Filters, NEW s \in Calls
  PROVE  Compiled(f) \in Code /\ \A a : Leads(Compiled(f), s, 1, a, Decision(f, s))
<1>1. s \in Call
  BY FilterAssumption, Zenon DEF Call
<1> QED
  BY <1>1, FiltersAre, CompiledRuns, Zenon DEF Reaches

LEMMA FilterInvHolds == FilterSpec => []FilterInv
<1>1. FilterInit => FilterInv
  BY ProgramIs, Zenon DEF FilterInit, FilterInv
<1>2. FilterInv /\ [FilterNext]_filterVars => FilterInv'
  <2> SUFFICES ASSUME FilterInv, [FilterNext]_filterVars
               PROVE  FilterInv'
    BY Zenon
  <2>1. CASE Execute
    <3>1. /\ verdict = "none" /\ Leads(program, call, pc, acc, Decision(filter, call))
          /\ acc' = AccAfter(call, program[pc], acc)
          /\ pc' = pc + 1 + Skipped(program[pc], acc)
          /\ verdict' = (IF program[pc].op = "ret" THEN program[pc].k ELSE "none")
          /\ filter' = filter /\ program' = program /\ call' = call
      BY <2>1, Zenon DEF FilterInv, Execute
    <3>2. /\ pc \in 1 .. Len(program)
          /\ program[pc].op = "ret" => program[pc].k = Decision(filter, call)
          /\ program[pc].op # "ret" => Leads(program, call, pc', acc', Decision(filter, call))
      BY <3>1, LeadsOn, Zenon
    <3>3. CASE program[pc].op = "ret"
      <4>1. Decision(filter, call) # "none"
        BY DEF Decision
      <4>2. pc' \in 1 .. Len(program) + 1
        <5>1. Skipped(program[pc], acc) = 0
          BY <3>3 DEF Skipped
        <5>2. Len(program) \in Nat
          BY ProgramIs DEF FilterInv, Code
        <5> QED
          BY <3>1, <3>2, <5>1, <5>2
      <4>3. verdict' = Decision(filter, call)
        BY <3>1, <3>2, <3>3, Zenon
      <4> QED
        BY <3>1, <4>1, <4>2, <4>3, Zenon DEF FilterInv
    <3>4. CASE program[pc].op # "ret"
      BY <3>1, <3>2, <3>4, Zenon DEF FilterInv
    <3> QED
      BY <3>3, <3>4, Zenon
  <2>2. ASSUME NEW c \in Calls, NextCall(c)
        PROVE  FilterInv'
    <3>1. /\ call' = c /\ pc' = 1 /\ acc' = 0 /\ verdict' = "none"
          /\ filter' = filter /\ program' = program
      BY <2>2, Zenon DEF NextCall
    <3>2. Leads(program, c, 1, 0, Decision(filter, c))
      BY ProgramIs, Zenon DEF FilterInv
    <3> QED
      BY <3>1, <3>2, Zenon DEF FilterInv
  <2>3. CASE UNCHANGED filterVars
    BY <2>3, Zenon DEF FilterInv, filterVars
  <2> QED
    BY <2>1, <2>2, <2>3, Zenon DEF FilterNext
<1> QED
  BY <1>1, <1>2, PTL DEF FilterSpec

(* A filter decides as its rules say: whatever the system calls and the rules *)
(* of the filter, the operators, lengths and values of the conditions of a    *)
(* rule, and however many of them there are, the program that try_into        *)
(* compiles comes to the action of Decision on every call, along jumps that   *)
(* fit a u8 and stay in the program.                                          *)
THEOREM FilterExactHolds == FilterSpec => []FilterExact
<1>1. FilterInv => FilterExact
  <2> SUFFICES ASSUME FilterInv
               PROVE  FilterExact
    BY Zenon
  <2>1. program \in Code
    BY ProgramIs, Zenon DEF FilterInv
  <2>2. \A i \in DOMAIN program : program[i].jt <= MaxJump /\ program[i].jf <= MaxJump
    <3> SUFFICES ASSUME NEW i \in DOMAIN program
                 PROVE  program[i].jt <= MaxJump /\ program[i].jf <= MaxJump
      BY Zenon
    <3>1. program[i] \in Instruction
      BY <2>1 DEF Code
    <3>2. program[i].jt \in 0 .. MaxJump /\ program[i].jf \in 0 .. MaxJump
      BY <3>1, Zenon DEF Instruction
    <3> QED
      BY <3>2, BodyIs
  <2>3. pc \in 1 .. Len(program) + 1
    <3>1. verdict = "none" => pc \in 1 .. Len(program)
      BY LeadsOn, Zenon DEF FilterInv
    <3>2. Len(program) \in Nat
      BY <2>1 DEF Code
    <3> QED
      BY <3>1, <3>2 DEF FilterInv
  <2>4. pc <= Len(program) + 1
    BY <2>3
  <2> QED
    BY <2>2, <2>4, Zenon DEF FilterInv, FilterExact
<1> QED
  BY <1>1, FilterInvHolds, PTL

================================================================================
