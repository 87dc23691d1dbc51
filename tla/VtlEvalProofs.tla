--------------------------- MODULE VtlEvalProofs ----------------------------
(***************************************************************************)
(* What the operators of expressions come to, proved for integers and      *)
(* floats of any width.                                                    *)
(*                                                                         *)
(* That comparisons do not contradict the numbers rests on one fact about  *)
(* rounding: it keeps the order (NearestKeepsOrder), because where the     *)
(* spacing of floats doubles there is a float.                             *)
(***************************************************************************)
EXTENDS VtlEval, TLAPS, WellFoundedInduction

LEMMA LeastExists ==
  ASSUME NEW S \in SUBSET Nat, S # {}
  PROVE  \E x \in S : \A y \in S : x <= y
<1>1. \E x \in S : \A y \in S : ~(<<y, x>> \in OpToRel(<, Nat))
  BY WFMin, NatLessThanWellFounded
<1>2. PICK x \in S : \A y \in S : ~(<<y, x>> \in OpToRel(<, Nat))
  BY <1>1
<1>3. ASSUME NEW y \in S PROVE x <= y
  <2>1. ~(y < x)
    BY <1>2, <1>3 DEF OpToRel
  <2> QED BY <2>1
<1> QED BY <1>3
-----------------------------------------------------------------------------
(* The powers of two as far as n.                                          *)
Doubles(f, n) ==
  f \in [0 .. n -> Nat] /\ f[0] = 1 /\ \A k \in 1 .. n : f[k] = 2 * f[k - 1]

LEMMA DoublesExist ==
  ASSUME NEW n \in Nat
  PROVE  \E f : Doubles(f, n)
<1> DEFINE bad == {k \in Nat : ~ \E f : Doubles(f, k)}
<1>1. SUFFICES ASSUME bad # {} PROVE FALSE
  OBVIOUS
<1>2. PICK k \in bad : \A j \in bad : k <= j
  <2>1. bad \in SUBSET Nat
    OBVIOUS
  <2> HIDE DEF bad
  <2> QED BY <1>1, <2>1, LeastExists
<1>3. k # 0
  <2>1. Doubles([j \in 0 .. 0 |-> 1], 0)
    BY DEF Doubles
  <2> QED BY <1>2, <2>1
<1>4. k \in Nat /\ k - 1 \in Nat /\ k - 1 \notin bad
  BY <1>2, <1>3
<1>5. PICK f : Doubles(f, k - 1)
  BY <1>4
<1> DEFINE g == [j \in 0 .. k |-> IF j = k THEN 2 * f[k - 1] ELSE f[j]]
<1>6. f \in [0 .. k - 1 -> Nat] /\ f[0] = 1 /\ \A j \in 1 .. k - 1 : f[j] = 2 * f[j - 1]
  BY <1>5 DEF Doubles
<1>7. g \in [0 .. k -> Nat]
  BY <1>4, <1>6
<1>8. g[0] = 1
  BY <1>3, <1>4, <1>6
<1>9. ASSUME NEW j \in 1 .. k PROVE g[j] = 2 * g[j - 1]
  <2>1. j - 1 \in 0 .. k /\ j - 1 # k /\ g[j - 1] = f[j - 1]
    BY <1>4
  <2> QED BY <1>4, <1>6, <2>1
<1>10. Doubles(g, k)
  <2> HIDE DEF g
  <2> QED BY <1>7, <1>8, <1>9 DEF Doubles
<1> QED BY <1>2, <1>10

LEMMA DoublesUnique ==
  ASSUME NEW m \in Nat, NEW n \in Nat, NEW f, NEW g, Doubles(f, m), Doubles(g, n),
         NEW i \in Nat, i <= m, i <= n
  PROVE  f[i] = g[i]
<1> DEFINE bad == {k \in 0 .. i : f[k] # g[k]}
<1>1. SUFFICES ASSUME bad # {} PROVE FALSE
  OBVIOUS
<1>2. PICK k \in bad : \A j \in bad : k <= j
  <2>1. bad \in SUBSET Nat
    OBVIOUS
  <2> HIDE DEF bad
  <2> QED BY <1>1, <2>1, LeastExists
<1>3. k \in 0 .. i /\ f[k] # g[k]
  BY <1>2
<1>4. k # 0
  BY <1>3 DEF Doubles
<1>5. k - 1 \in 0 .. i /\ k - 1 \notin bad /\ k \in 1 .. m /\ k \in 1 .. n
  BY <1>2, <1>3, <1>4
<1>6. f[k - 1] = g[k - 1]
  BY <1>5
<1>7. f[k] = 2 * f[k - 1] /\ g[k] = 2 * g[k - 1]
  BY <1>5 DEF Doubles
<1> QED BY <1>3, <1>6, <1>7

LEMMA PowerIs ==
  /\ Power \in [Nat -> Nat] /\ Power[0] = 1
  /\ \A e \in Nat : Power[e + 1] = 2 * Power[e]
<1> DEFINE F == [n \in Nat |-> (CHOOSE f : Doubles(f, n))[n]]
<1>1. ASSUME NEW n \in Nat
      PROVE  \E f : Doubles(f, n) /\ F[n] = f[n]
  BY DoublesExist
<1> HIDE DEF F
<1>2. F = [n \in Nat |-> F[n]]
  BY DEF F
<1>3. F[0] = 1
  BY <1>1 DEF Doubles
<1>4. ASSUME NEW n \in Nat PROVE F[n] \in Nat /\ F[n + 1] = 2 * F[n]
  <2>1. PICK f : Doubles(f, n) /\ F[n] = f[n]
    BY <1>1
  <2>2. PICK g : Doubles(g, n + 1) /\ F[n + 1] = g[n + 1]
    BY <1>1
  <2>3. n + 1 \in Nat /\ n <= n /\ n <= n + 1 /\ n + 1 \in 1 .. n + 1 /\ n \in 0 .. n
    OBVIOUS
  <2>4. f[n] = g[n]
    BY <2>1, <2>2, <2>3, DoublesUnique
  <2>5. g[n + 1] = 2 * g[n] /\ f[n] \in Nat
    BY <2>1, <2>2, <2>3 DEF Doubles
  <2> QED BY <2>1, <2>2, <2>4, <2>5
<1>5. ASSUME NEW e \in Nat PROVE F[e] = IF e = 0 THEN 1 ELSE 2 * F[e - 1]
  <2>1. CASE e = 0
    BY <1>3, <2>1
  <2>2. CASE e # 0
    <3>1. e - 1 \in Nat /\ (e - 1) + 1 = e
      BY <2>2
    <3> QED BY <1>4, <2>2, <3>1
  <2> QED BY <2>1, <2>2
<1>6. F = [e \in Nat |-> IF e = 0 THEN 1 ELSE 2 * F[e - 1]]
  BY <1>2, <1>5
<1>7. Power = [e \in Nat |-> IF e = 0 THEN 1 ELSE 2 * Power[e - 1]]
  BY <1>6 DEF Power
<1> DEFINE P == Power
<1>8. P = [e \in Nat |-> IF e = 0 THEN 1 ELSE 2 * P[e - 1]]
  BY <1>7
<1>9. P = F
  <2>0. P = [e \in Nat |-> P[e]] /\ \A e \in Nat : P[e] = IF e = 0 THEN 1 ELSE 2 * P[e - 1]
    BY <1>8
  <2> HIDE DEF P
  <2> DEFINE bad == {e \in Nat : P[e] # F[e]}
  <2>1. SUFFICES ASSUME bad # {} PROVE FALSE
    BY <1>2, <2>0
  <2>2. PICK k \in bad : \A j \in bad : k <= j
    <3>1. bad \in SUBSET Nat
      OBVIOUS
    <3> HIDE DEF bad
    <3> QED BY <2>1, <3>1, LeastExists
  <2>3. k # 0
    BY <1>5, <2>0, <2>2
  <2>4. k - 1 \in Nat /\ k - 1 \notin bad
    BY <2>2, <2>3
  <2>5. P[k - 1] = F[k - 1]
    BY <2>4
  <2> QED BY <1>5, <2>0, <2>2, <2>3, <2>5
<1> HIDE DEF P
<1>10. F \in [Nat -> Nat]
  BY <1>2, <1>4
<1> QED BY <1>3, <1>4, <1>9, <1>10 DEF P

LEMMA PowerGrows ==
  /\ \A e \in Nat : Power[e] > e
  /\ \A i, j \in Nat : i < j => Power[j] >= 2 * Power[i]
<1>1. \A e \in Nat : Power[e] > e
  <2> DEFINE bad == {e \in Nat : ~(Power[e] > e)}
  <2>1. SUFFICES ASSUME bad # {} PROVE FALSE
    OBVIOUS
  <2>2. PICK k \in bad : \A j \in bad : k <= j
    <3>1. bad \in SUBSET Nat
      OBVIOUS
    <3> HIDE DEF bad
    <3> QED BY <2>1, <3>1, LeastExists
  <2>3. k # 0
    BY <2>2, PowerIs
  <2>4. k - 1 \in Nat /\ k - 1 \notin bad /\ (k - 1) + 1 = k
    BY <2>2, <2>3
  <2>5. Power[k - 1] > k - 1 /\ Power[k] = 2 * Power[k - 1] /\ Power[k - 1] \in Nat
    BY <2>4, PowerIs
  <2> QED BY <2>2, <2>4, <2>5
<1>2. ASSUME NEW i \in Nat, NEW j \in Nat, i < j PROVE Power[j] >= 2 * Power[i]
  <2> DEFINE bad == {k \in Nat : i < k /\ ~(Power[k] >= 2 * Power[i])}
  <2>1. SUFFICES ASSUME bad # {} PROVE FALSE
    BY <1>2
  <2>2. PICK k \in bad : \A m \in bad : k <= m
    <3>1. bad \in SUBSET Nat
      OBVIOUS
    <3> HIDE DEF bad
    <3> QED BY <2>1, <3>1, LeastExists
  <2>3. k - 1 \in Nat /\ k - 1 \notin bad /\ (k - 1) + 1 = k
    BY <2>2
  <2>4. Power[k] = 2 * Power[k - 1] /\ Power[k - 1] \in Nat /\ Power[i] \in Nat
    BY <2>3, PowerIs
  <2>5. CASE k - 1 = i
    BY <2>2, <2>4, <2>5
  <2>6. CASE i < k - 1
    BY <2>2, <2>3, <2>4, <2>6
  <2> QED BY <2>2, <2>3, <2>5, <2>6
<1> QED BY <1>1, <1>2

LEMMA LimitIs ==
  Limit \in Nat /\ Limit >= 2 /\ Limit = 2 * (Limit \div 2)
<1>1. Bits - 1 \in Nat /\ (Bits - 1) + 1 = Bits
  BY BitsAssumption
<1> DEFINE p == Power[Bits - 1]
<1>2. p \in Nat /\ p > Bits - 1 /\ Limit = 2 * p
  BY <1>1, PowerIs, PowerGrows DEF Limit
<1> HIDE DEF p
<1>3. p >= 1
  BY <1>1, <1>2
<1> QED BY <1>2, <1>3

LEMMA SpacingsAre ==
  /\ Spacings \subseteq Nat \ {0}
  /\ \A s \in Spacings : s = 1 \/ (s \div 2 \in Nat \ {0} /\ s = 2 * (s \div 2))
  /\ \A s, t \in Spacings : s < t => s <= t \div 2
<1>0. Half + 1 \in Nat
  BY HalfAssumption
<1>1. ASSUME NEW e \in 0 .. Half + 1
      PROVE  e \in Nat /\ Power[e] \in Nat \ {0}
             /\ (e = 0 => Power[e] = 1)
             /\ (e # 0 => Power[e] = 2 * Power[e - 1] /\ Power[e - 1] \in Nat \ {0})
  <2>1. e \in Nat
    BY <1>0
  <2>2. Power[e] \in Nat \ {0}
    BY <2>1, PowerIs, PowerGrows
  <2>3. ASSUME e # 0 PROVE Power[e] = 2 * Power[e - 1] /\ Power[e - 1] \in Nat \ {0}
    <3>1. e - 1 \in Nat /\ (e - 1) + 1 = e
      BY <2>1, <2>3
    <3>2. Power[e - 1] \in Nat /\ Power[e - 1] > e - 1 /\ Power[(e - 1) + 1] = 2 * Power[e - 1]
      BY <3>1, PowerIs, PowerGrows
    <3> QED BY <3>1, <3>2
  <2> QED BY <2>1, <2>2, <2>3, PowerIs
<1>2. ASSUME NEW s \in Spacings
      PROVE  s \in Nat \ {0} /\ (s = 1 \/ (s \div 2 \in Nat \ {0} /\ s = 2 * (s \div 2)))
  <2>1. PICK e \in 0 .. Half + 1 : s = Power[e]
    BY DEF Spacings
  <2>2. CASE e = 0
    BY <1>1, <2>1, <2>2
  <2>3. CASE e # 0
    <3> DEFINE q == Power[e - 1]
    <3>1. q \in Nat \ {0} /\ s = 2 * q
      BY <1>1, <2>1, <2>3
    <3> HIDE DEF q
    <3> QED BY <3>1
  <2> QED BY <2>2, <2>3
<1>3. ASSUME NEW s \in Spacings, NEW t \in Spacings, s < t PROVE s <= t \div 2
  <2>1. PICK i \in 0 .. Half + 1 : s = Power[i]
    BY DEF Spacings
  <2>2. PICK j \in 0 .. Half + 1 : t = Power[j]
    BY DEF Spacings
  <2>3. i \in Nat /\ j \in Nat /\ s \in Nat /\ t \in Nat
    BY <1>0, <1>2
  <2>4. i < j
    <3>1. j < i => s >= 2 * t
      BY <2>1, <2>2, <2>3, PowerGrows
    <3> QED BY <1>3, <2>1, <2>2, <2>3, <3>1
  <2>5. t >= 2 * s
    BY <2>1, <2>2, <2>3, <2>4, PowerGrows
  <2> QED BY <2>3, <2>5
<1> QED BY <1>2, <1>3

InReach(n) == n \in Int /\ Abs(n) <= 4 * Half

(* Every number in reach has its spacing.                                  *)
LEMMA SpacingIs ==
  ASSUME NEW n, InReach(n)
  PROVE  /\ Spacing(n) \in Spacings /\ Abs(n) < Spacing(n) * Limit
         /\ Spacing(n) = 1 \/ Abs(n) >= (Spacing(n) \div 2) * Limit
<1> DEFINE a == Abs(n)
           fits == {e \in 0 .. Half + 1 : a < Power[e] * Limit}
<1>0. a \in Nat /\ Half \in Nat /\ a <= 4 * Half
  BY HalfAssumption DEF InReach, Abs
<1> HIDE DEF a
<1>1. Half + 1 \in fits
  <2>1. Power[Half + 1] = 2 * Power[Half] /\ Power[Half] > Half /\ Power[Half] \in Nat
    BY <1>0, PowerIs, PowerGrows
  <2> DEFINE p == Power[Half]
  <2>2. p \in Nat /\ p > Half /\ Power[Half + 1] = 2 * p
    BY <2>1
  <2> HIDE DEF p
  <2>3. 4 * p <= (2 * p) * Limit
    <3>1. 2 * p \in Nat /\ Limit \in Nat /\ Limit >= 2
      BY <2>2, LimitIs
    <3>2. (2 * p) * 2 <= (2 * p) * Limit
      BY <3>1
    <3> QED BY <2>2, <3>1, <3>2
  <2>4. a < (2 * p) * Limit
    <3>1. (2 * p) * Limit \in Nat
      BY <2>2, LimitIs
    <3> QED BY <1>0, <2>2, <2>3, <3>1
  <2> QED BY <1>0, <2>2, <2>4
<1>2. PICK e \in fits : \A j \in fits : e <= j
  <2>1. fits \in SUBSET Nat /\ fits # {}
    BY <1>0, <1>1
  <2> HIDE DEF fits
  <2> QED BY <2>1, LeastExists
<1>3. e \in 0 .. Half + 1 /\ a < Power[e] * Limit /\ Power[e] \in Spacings
  BY <1>2 DEF Spacings
<1>4. Power[e] = 1 \/ a >= (Power[e] \div 2) * Limit
  <2>1. CASE e = 0
    BY <2>1, PowerIs
  <2>2. CASE e # 0
    <3>1. e - 1 \in 0 .. Half + 1 /\ e - 1 \in Nat /\ (e - 1) + 1 = e /\ e - 1 \notin fits
      BY <1>0, <1>2, <2>2
    <3> DEFINE q == Power[e - 1]
    <3>2. q \in Nat /\ Power[e] = 2 * q /\ ~(a < q * Limit)
      BY <3>1, PowerIs
    <3> HIDE DEF q
    <3>3. Power[e] \div 2 = q
      BY <3>2
    <3>4. q * Limit \in Nat
      BY <3>2, LimitIs
    <3> QED BY <1>0, <3>2, <3>3, <3>4
  <2> QED BY <2>1, <2>2
<1>5. \E s \in Spacings : a < s * Limit /\ (s = 1 \/ a >= (s \div 2) * Limit)
  BY <1>3, <1>4
<1> QED BY <1>5 DEF Spacing, a
-----------------------------------------------------------------------------
(* A number of 0, 1, 2, ... rounded to a multiple of s, the even one of    *)
(* two.                                                                    *)
Rounded(a, s) ==
  s * (IF 2 * (a % s) > s \/ (2 * (a % s) = s /\ (a \div s) % 2 = 1)
       THEN (a \div s) + 1 ELSE a \div s)

LEMMA NearestIsRounded ==
  ASSUME NEW n \in Int, Spacing(n) \in Nat \ {0}
  PROVE  /\ n >= 0 => Nearest(n) = Rounded(Abs(n), Spacing(n))
         /\ n < 0 => Nearest(n) = -Rounded(Abs(n), Spacing(n))
         /\ Rounded(Abs(n), Spacing(n)) \in Nat
<1> DEFINE s == Spacing(n)
           a == Abs(n)
           q == IF 2 * (a % s) > s \/ (2 * (a % s) = s /\ (a \div s) % 2 = 1)
                THEN (a \div s) + 1 ELSE a \div s
<1>1. a \in Nat /\ s \in Nat \ {0}
  BY DEF Abs
<1>2. Nearest(n) = Sign(n) * s * q
  BY DEF Nearest
<1>3. Rounded(a, s) = s * q
  BY DEF Rounded
<1> HIDE DEF s, a
<1>4. a \div s \in Nat
  BY <1>1
<1>5. q \in Nat
  BY <1>4
<1> HIDE DEF q
<1>6. s * q \in Nat
  BY <1>1, <1>5
<1>7. (-1) * s * q = -(s * q) /\ 1 * s * q = s * q
  BY <1>1, <1>5
<1> QED BY <1>2, <1>3, <1>6, <1>7 DEF Sign, s, a

LEMMA DivisionIs ==
  ASSUME NEW a \in Nat, NEW s \in Nat \ {0}
  PROVE  /\ a \div s \in Nat /\ a % s \in Nat /\ a % s < s
         /\ a = s * (a \div s) + (a % s)
OBVIOUS

LEMMA RoundedIs ==
  ASSUME NEW a \in Nat, NEW s \in Nat \ {0}
  PROVE  /\ Rounded(a, s) = s * (a \div s) \/ Rounded(a, s) = s * ((a \div s) + 1)
         /\ Rounded(a, s) \in Nat
<1> DEFINE q == a \div s
<1>1. q \in Nat
  BY DivisionIs
<1>2. Rounded(a, s) = s * q \/ Rounded(a, s) = s * (q + 1)
  BY DEF Rounded
<1> HIDE DEF q
<1>3. s * q \in Nat /\ s * (q + 1) \in Nat
  BY <1>1
<1> QED BY <1>2, <1>3 DEF q

(* To no more than a multiple above, and to no less than one below.        *)
LEMMA RoundedWithin ==
  ASSUME NEW a \in Nat, NEW s \in Nat \ {0}, NEW c \in Nat
  PROVE  /\ a < s * c => Rounded(a, s) <= s * c
         /\ s * c <= a => s * c <= Rounded(a, s)
<1> DEFINE q == a \div s
           rem == a % s
<1>1. q \in Nat /\ rem \in Nat /\ rem < s /\ a = s * q + rem
  BY DivisionIs
<1>2. Rounded(a, s) = s * q \/ Rounded(a, s) = s * (q + 1)
  BY RoundedIs
<1> HIDE DEF q, rem
<1>3. s * (q + 1) = s * q + s
  BY <1>1
<1>4. ASSUME a < s * c PROVE s * (q + 1) <= s * c
  <2>1. s * q < s * c
    BY <1>1, <1>4
  <2>2. q < c
    BY <1>1, <2>1
  <2>3. q + 1 <= c
    BY <1>1, <2>2
  <2> QED BY <1>1, <2>3
<1>5. ASSUME s * c <= a PROVE s * c <= s * q
  <2>1. s * c < s * (q + 1)
    BY <1>1, <1>3, <1>5
  <2>2. c < q + 1
    BY <1>1, <2>1
  <2>3. c <= q
    BY <1>1, <2>2
  <2> QED BY <1>1, <2>3
<1>6. s * q \in Nat /\ s * c \in Nat
  BY <1>1
<1> QED BY <1>2, <1>3, <1>4, <1>5, <1>6

LEMMA RoundedKeepsOrder ==
  ASSUME NEW a \in Nat, NEW b \in Nat, NEW s \in Nat \ {0}, a <= b
  PROVE  Rounded(a, s) <= Rounded(b, s)
<1> DEFINE q == a \div s
           rem == a % s
           p == b \div s
           t == b % s
<1>1. q \in Nat /\ rem \in Nat /\ rem < s /\ a = s * q + rem
  BY DivisionIs
<1>2. p \in Nat /\ t \in Nat /\ t < s /\ b = s * p + t
  BY DivisionIs
<1>3. Rounded(a, s) = s * (IF 2 * rem > s \/ (2 * rem = s /\ q % 2 = 1) THEN q + 1 ELSE q)
  BY DEF Rounded
<1>4. Rounded(b, s) = s * (IF 2 * t > s \/ (2 * t = s /\ p % 2 = 1) THEN p + 1 ELSE p)
  BY DEF Rounded
<1> HIDE DEF q, rem, p, t
<1>5. s * (q + 1) = s * q + s /\ s * (p + 1) = s * p + s
  BY <1>1, <1>2
<1>6. q <= p
  <2>1. s * q < s * (p + 1)
    BY <1>1, <1>2, <1>5
  <2>2. q < p + 1
    BY <1>1, <1>2, <2>1
  <2> QED BY <1>1, <1>2, <2>2
<1>7. CASE q < p
  <2>1. s * (q + 1) <= s * p
    <3>1. q + 1 <= p
      BY <1>1, <1>2, <1>7
    <3> QED BY <1>1, <1>2, <3>1
  <2>2. s * p \in Nat /\ s * q \in Nat
    BY <1>1, <1>2
  <2> QED BY <1>3, <1>4, <1>5, <2>1, <2>2
<1>8. CASE q = p
  <2>1. s * q \in Nat
    BY <1>1
  <2>2. rem <= t
    BY <1>1, <1>2, <1>8, <2>1
  <2> QED BY <1>1, <1>2, <1>3, <1>4, <1>5, <1>8, <2>1, <2>2
<1> QED BY <1>1, <1>2, <1>6, <1>7, <1>8

(* Where the spacing doubles there is a float: everything below is rounded *)
(* up to it at most, everything above down to it at most.                  *)
LEMMA SpacingsKeepOrder ==
  ASSUME NEW m, NEW n, InReach(m), InReach(n), Abs(m) <= Abs(n)
  PROVE  Rounded(Abs(m), Spacing(m)) <= Rounded(Abs(n), Spacing(n))
<1> DEFINE a == Abs(m)
           b == Abs(n)
           s == Spacing(m)
           t == Spacing(n)
<1>1. a \in Nat /\ b \in Nat /\ a <= b
  BY DEF InReach, Abs
<1>2. /\ s \in Spacings /\ a < s * Limit /\ (s = 1 \/ a >= (s \div 2) * Limit)
      /\ t \in Spacings /\ b < t * Limit /\ (t = 1 \/ b >= (t \div 2) * Limit)
  BY SpacingIs
<1> HIDE DEF a, b, s, t
<1>3. s \in Nat \ {0} /\ t \in Nat \ {0}
  BY <1>2, SpacingsAre
<1> SUFFICES Rounded(a, s) <= Rounded(b, t)
  BY DEF a, b, s, t
<1>4. CASE s = t
  BY <1>1, <1>3, <1>4, RoundedKeepsOrder
<1>5. CASE t < s
  <2> DEFINE h == s \div 2
  <2>1. t <= h /\ s # 1 /\ h \in Nat
    BY <1>2, <1>3, <1>5, SpacingsAre
  <2>2. a >= h * Limit
    BY <1>2, <2>1
  <2> HIDE DEF h
  <2>3. t * Limit <= h * Limit /\ t * Limit \in Nat /\ h * Limit \in Nat
    BY <1>3, <2>1, LimitIs
  <2> QED BY <1>1, <1>2, <2>2, <2>3
<1>6. CASE s < t
  <2> DEFINE h == t \div 2
             d == Limit \div 2
  <2>1. s <= h /\ t # 1 /\ h \in Nat /\ t = 2 * h
    BY <1>2, <1>3, <1>6, SpacingsAre
  <2>2. b >= h * Limit
    BY <1>2, <2>1
  <2>3. Limit \in Nat /\ d \in Nat /\ Limit = 2 * d
    BY LimitIs
  <2> HIDE DEF h, d
  <2>4. h * Limit = t * d
    BY <2>1, <2>3
  <2>5. t * d <= Rounded(b, t)
    BY <1>1, <1>3, <2>2, <2>3, <2>4, RoundedWithin
  <2>6. Rounded(a, s) <= s * Limit
    BY <1>1, <1>2, <1>3, <2>3, RoundedWithin
  <2>7. s * Limit <= h * Limit /\ s * Limit \in Nat /\ h * Limit \in Nat
    BY <1>3, <2>1, <2>3
  <2>8. Rounded(a, s) \in Nat /\ Rounded(b, t) \in Nat
    BY <1>1, <1>3, RoundedIs
  <2> QED BY <2>4, <2>5, <2>6, <2>7, <2>8
<1> QED BY <1>3, <1>4, <1>5, <1>6

LEMMA NearestParts ==
  ASSUME NEW n, InReach(n)
  PROVE  /\ Nearest(n) \in Int
         /\ n >= 0 => Nearest(n) = Rounded(Abs(n), Spacing(n))
         /\ n < 0 => Nearest(n) = -Rounded(Abs(n), Spacing(n))
         /\ Rounded(Abs(n), Spacing(n)) \in Nat
<1>1. n \in Int /\ Spacing(n) \in Nat \ {0}
  BY SpacingIs, SpacingsAre DEF InReach
<1>2. /\ n >= 0 => Nearest(n) = Rounded(Abs(n), Spacing(n))
      /\ n < 0 => Nearest(n) = -Rounded(Abs(n), Spacing(n))
      /\ Rounded(Abs(n), Spacing(n)) \in Nat
  BY <1>1, NearestIsRounded
<1> QED BY <1>1, <1>2

(* Rounding keeps the order.                                               *)
LEMMA NearestKeepsOrder ==
  ASSUME NEW m, NEW n, InReach(m), InReach(n), m <= n
  PROVE  Nearest(m) <= Nearest(n)
<1> DEFINE x == Rounded(Abs(m), Spacing(m))
           y == Rounded(Abs(n), Spacing(n))
<1>0. m \in Int /\ n \in Int
  BY DEF InReach
<1>1. /\ m >= 0 => Nearest(m) = x
      /\ m < 0 => Nearest(m) = -x
      /\ n >= 0 => Nearest(n) = y
      /\ n < 0 => Nearest(n) = -y
      /\ x \in Nat /\ y \in Nat
  BY NearestParts
<1>2. Abs(m) <= Abs(n) => x <= y
  BY SpacingsKeepOrder
<1>3. Abs(n) <= Abs(m) => y <= x
  BY SpacingsKeepOrder
<1> HIDE DEF x, y
<1>4. CASE m >= 0
  <2>1. n >= 0 /\ Abs(m) <= Abs(n)
    BY <1>0, <1>4 DEF Abs
  <2> QED BY <1>1, <1>2, <1>4, <2>1
<1>5. CASE n < 0
  <2>1. m < 0 /\ Abs(n) <= Abs(m)
    BY <1>0, <1>5 DEF Abs
  <2> QED BY <1>1, <1>3, <1>5, <2>1
<1>6. CASE m < 0 /\ n >= 0
  BY <1>1, <1>6
<1> QED BY <1>0, <1>4, <1>5, <1>6

(* Nothing but zero is rounded to zero.                                    *)
LEMMA NearestZero ==
  ASSUME NEW n, InReach(n)
  PROVE  Nearest(n) = 0 <=> n = 0
<1> DEFINE a == Abs(n)
           s == Spacing(n)
<1>0. n \in Int /\ a \in Nat /\ (a = 0 <=> n = 0)
  BY DEF InReach, Abs
<1>1. /\ n >= 0 => Nearest(n) = Rounded(a, s)
      /\ n < 0 => Nearest(n) = -Rounded(a, s)
      /\ Rounded(a, s) \in Nat
  BY NearestParts
<1>2. s \in Nat \ {0} /\ (s = 1 \/ (s \div 2 \in Nat \ {0} /\ a >= (s \div 2) * Limit))
  BY SpacingIs, SpacingsAre
<1> HIDE DEF a, s
<1>3. ASSUME a = 0 PROVE Rounded(a, s) = 0
  <2>1. a % s = 0 /\ a \div s = 0
    BY <1>2, <1>3
  <2>2. ~(2 * 0 > s) /\ 2 * 0 # s
    BY <1>2
  <2>3. Rounded(a, s) = s * 0
    BY <2>1, <2>2 DEF Rounded
  <2> QED BY <1>2, <2>3
<1>4. ASSUME a # 0 PROVE Rounded(a, s) >= 1
  <2>1. CASE s = 1
    BY <1>0, <1>4, <2>1, RoundedWithin
  <2>2. CASE s # 1
    <3> DEFINE h == s \div 2
               d == Limit \div 2
    <3>1. h \in Nat \ {0} /\ a >= h * Limit /\ s = 2 * h
      BY <1>2, <2>2, SpacingIs, SpacingsAre DEF s
    <3>2. Limit \in Nat /\ Limit = 2 * d /\ d \in Nat /\ d >= 1
      BY LimitIs
    <3> HIDE DEF h, d
    <3>3. h * Limit = s * d
      BY <3>1, <3>2
    <3>4. s * d <= Rounded(a, s)
      BY <1>0, <1>2, <3>1, <3>2, <3>3, RoundedWithin
    <3>5. s * d >= 1
      BY <1>2, <3>2
    <3> QED BY <1>1, <1>2, <3>2, <3>4, <3>5
  <2> QED BY <2>1, <2>2
<1> QED BY <1>0, <1>1, <1>3, <1>4
-----------------------------------------------------------------------------
(* The values and their numbers.                                           *)
Finites == Value \cap {v \in Number : v.kind # "NaN"}

LEMMA ValueIs ==
  ASSUME NEW v \in Value
  PROVE  /\ v.kind \in {"int", "uint", "float", "NaN", "string", "bool", "complex", "other"}
         /\ v.n \in Int
         /\ v.kind = "int" => v.n \in Int64
         /\ v.kind = "uint" => v.n \in Uint64
         /\ v.kind = "float" => v.n \in -4 * Half .. 4 * Half /\ Nearest(v.n) = v.n
         /\ v.kind = "NaN" => v.n = 0
         /\ v.kind \in {"string", "bool", "complex", "other"} => v.n \in {0, 1}
BY HalfAssumption DEF Value, Number, Int64, Uint64

LEMMA ExactIs ==
  ASSUME NEW v \in Value, Finite(v)
  PROVE  /\ v.kind \in {"int", "uint", "float"} /\ Exact(v) \in Int /\ InReach(Exact(v))
         /\ toFloat(v) = Nearest(Exact(v)) /\ toFloat(v) \in Int
         /\ v.kind = "float" => toFloat(v) = Exact(v)
<1>1. v.kind \in {"int", "uint", "float"} /\ v.n \in Int
  BY ValueIs DEF Finite, isNumber, isInt, isFloat
<1>2. InReach(Exact(v))
  BY <1>1, ValueIs, HalfAssumption DEF Exact, isInt, InReach, Abs, Int64, Uint64
<1>3. Exact(v) \in Int
  BY <1>2 DEF InReach
<1>4. toFloat(v) = Nearest(Exact(v))
  BY <1>1, ValueIs DEF toFloat, Exact, isInt
<1>5. Nearest(Exact(v)) \in Int
  BY <1>2, NearestParts
<1>6. v.kind = "float" => toFloat(v) = Exact(v)
  BY DEF toFloat, Exact, isInt
<1> QED BY <1>1, <1>2, <1>3, <1>4, <1>5, <1>6

(* Between integers and between floats lt and eq are exact; between an     *)
(* integer and a float they are what they are of the two floats.           *)
LEMMA ComparesExactly ==
  ASSUME NEW a \in Value, NEW b \in Value, Finite(a), Finite(b), isInt(a) <=> isInt(b)
  PROVE  (lt(a, b) <=> Exact(a) < Exact(b)) /\ (eq(a, b) <=> Exact(a) = Exact(b))
<1>1. a.kind \in {"int", "uint", "float"} /\ b.kind \in {"int", "uint", "float"}
  BY ExactIs
<1>2. a.n \in Int /\ b.n \in Int
  BY ValueIs
<1>3. CASE a.kind = b.kind
  <2>1. "NaN" \notin {a.kind, b.kind} /\ {a.kind, b.kind} \cap {"NaN", "other"} = {}
    BY <1>1
  <2>2. (lt(a, b) <=> a.n < b.n) /\ (eq(a, b) <=> a.n = b.n)
    BY <1>3, <2>1 DEF lt, eq
  <2>3. (Exact(a) < Exact(b) <=> a.n < b.n) /\ (Exact(a) = Exact(b) <=> a.n = b.n)
    BY <1>2, <1>3 DEF Exact, isInt
  <2> QED BY <2>2, <2>3
<1>4. CASE a.kind = "int" /\ b.kind = "uint"
  <2>1. a.n \in -Half .. Half - 1 /\ b.n \in 0 .. 2 * Half - 1 /\ Half \in Nat
    BY <1>4, ValueIs, HalfAssumption DEF Int64, Uint64
  <2>2. a.n >= 0 => ToUint(a.n) = a.n
    BY <2>1 DEF ToUint, WrapU
  <2>3. "NaN" \notin {a.kind, b.kind} /\ {a.kind, b.kind} \cap {"NaN", "other"} = {}
        /\ a.kind # b.kind /\ isInt(a) /\ isInt(b)
    BY <1>4 DEF isInt
  <2>4. /\ lt(a, b) <=> a.n < 0 \/ ToUint(a.n) < b.n
        /\ eq(a, b) <=> a.n >= 0 /\ ToUint(a.n) = b.n
    BY <1>4, <2>3 DEF lt, eq
  <2>5. Exact(a) = 2 * a.n /\ Exact(b) = 2 * b.n
    BY <2>3 DEF Exact
  <2> QED BY <2>1, <2>2, <2>4, <2>5
<1>5. CASE a.kind = "uint" /\ b.kind = "int"
  <2>1. b.n \in -Half .. Half - 1 /\ a.n \in 0 .. 2 * Half - 1 /\ Half \in Nat
    BY <1>5, ValueIs, HalfAssumption DEF Int64, Uint64
  <2>2. b.n >= 0 => ToUint(b.n) = b.n
    BY <2>1 DEF ToUint, WrapU
  <2>3. "NaN" \notin {a.kind, b.kind} /\ {a.kind, b.kind} \cap {"NaN", "other"} = {}
        /\ a.kind # b.kind /\ isInt(a) /\ isInt(b)
    BY <1>5 DEF isInt
  <2>4. /\ lt(a, b) <=> b.n >= 0 /\ a.n < ToUint(b.n)
        /\ eq(a, b) <=> b.n >= 0 /\ ToUint(b.n) = a.n
    BY <1>5, <2>3 DEF lt, eq
  <2>5. Exact(a) = 2 * a.n /\ Exact(b) = 2 * b.n
    BY <2>3 DEF Exact
  <2> QED BY <2>1, <2>2, <2>4, <2>5
<1> QED BY <1>1, <1>3, <1>4, <1>5 DEF isInt

LEMMA ComparesRounded ==
  ASSUME NEW a \in Value, NEW b \in Value, Finite(a), Finite(b), ~(isInt(a) <=> isInt(b))
  PROVE  /\ lt(a, b) <=> toFloat(a) < toFloat(b)
         /\ eq(a, b) <=> toFloat(a) = toFloat(b)
<1>1. a.kind \in {"int", "uint", "float"} /\ b.kind \in {"int", "uint", "float"}
  BY ExactIs
<1> QED BY <1>1 DEF lt, eq, isInt, isFloat, isNumber

(* Rounded or not, a comparison never contradicts the numbers.             *)
LEMMA ComparesWell ==
  ASSUME NEW a \in Value, NEW b \in Value, Finite(a), Finite(b)
  PROVE  /\ lt(a, b) => Exact(a) < Exact(b)
         /\ gt(a, b) => Exact(a) > Exact(b)
         /\ Exact(a) = Exact(b) => eq(a, b)
         /\ ~(lt(a, b) /\ eq(a, b))
         /\ lt(a, b) <=> gt(b, a)
         /\ eq(a, b) <=> eq(b, a)
<1> DEFINE x == Exact(a)
           y == Exact(b)
<1>1. /\ InReach(x) /\ InReach(y) /\ x \in Int /\ y \in Int
      /\ toFloat(a) = Nearest(x) /\ toFloat(b) = Nearest(y)
      /\ Nearest(x) \in Int /\ Nearest(y) \in Int
  BY ExactIs
<1>2. /\ x <= y => Nearest(x) <= Nearest(y)
      /\ y <= x => Nearest(y) <= Nearest(x)
  BY <1>1, NearestKeepsOrder
<1>3. CASE isInt(a) <=> isInt(b)
  <2>1. (lt(a, b) <=> x < y) /\ (eq(a, b) <=> x = y)
    BY <1>3, ComparesExactly
  <2>2. (lt(b, a) <=> y < x) /\ (eq(b, a) <=> y = x)
    BY <1>3, ComparesExactly
  <2> HIDE DEF x, y
  <2>3. /\ lt(a, b) => x < y
        /\ gt(a, b) => x > y
        /\ x = y => eq(a, b)
        /\ ~(lt(a, b) /\ eq(a, b))
        /\ lt(a, b) <=> gt(b, a)
        /\ eq(a, b) <=> eq(b, a)
    BY <1>1, <2>1, <2>2 DEF gt, le
  <2> QED BY <2>3 DEF x, y
<1>4. CASE ~(isInt(a) <=> isInt(b))
  <2>1. (lt(a, b) <=> Nearest(x) < Nearest(y)) /\ (eq(a, b) <=> Nearest(x) = Nearest(y))
    BY <1>1, <1>4, ComparesRounded
  <2>2. (lt(b, a) <=> Nearest(y) < Nearest(x)) /\ (eq(b, a) <=> Nearest(y) = Nearest(x))
    BY <1>1, <1>4, ComparesRounded
  <2> HIDE DEF x, y
  <2>3. /\ lt(a, b) => x < y
        /\ gt(a, b) => x > y
        /\ x = y => eq(a, b)
        /\ ~(lt(a, b) /\ eq(a, b))
        /\ lt(a, b) <=> gt(b, a)
        /\ eq(a, b) <=> eq(b, a)
    BY <1>1, <1>2, <2>1, <2>2 DEF gt, le
  <2> QED BY <2>3 DEF x, y
<1> QED BY <1>3, <1>4
-----------------------------------------------------------------------------
(* What the operators return.                                              *)
LEMMA ApplyIs ==
  ASSUME NEW a, NEW b
  PROVE  /\ Apply("eq", a, b) = Bool(eq(a, b)) /\ Apply("ne", a, b) = Bool(ne(a, b))
         /\ Apply("lt", a, b) = Compare(a, b, lt(a, b))
         /\ Apply("le", a, b) = Compare(a, b, le(a, b))
         /\ Apply("gt", a, b) = Compare(a, b, gt(a, b))
         /\ Apply("ge", a, b) = Compare(a, b, ge(a, b))
         /\ Apply("+", a, b) = plus(a, b) /\ Apply("-", a, b) = minus(a, b)
         /\ Apply("*", a, b) = times(a, b) /\ Apply("/", a, b) = divide(a, b)
         /\ Apply("%", a, b) = modulo(a, b)
         /\ Apply("or", a, b) = Bool(isTrue(a) \/ isTrue(b))
         /\ Apply("and", a, b) = Bool(isTrue(a) /\ isTrue(b))
         /\ Apply("not", a, b) = Bool(~isTrue(a)) /\ Apply("negate", a, b) = negate(a)
<1>1. Apply("eq", a, b) = Bool(eq(a, b)) /\ Apply("ne", a, b) = Bool(ne(a, b))
  BY DEF Apply
<1>2. /\ Apply("lt", a, b) = Compare(a, b, lt(a, b))
      /\ Apply("le", a, b) = Compare(a, b, le(a, b))
  BY DEF Apply
<1>3. /\ Apply("gt", a, b) = Compare(a, b, gt(a, b))
      /\ Apply("ge", a, b) = Compare(a, b, ge(a, b))
  BY DEF Apply
<1>4. /\ Apply("+", a, b) = plus(a, b) /\ Apply("-", a, b) = minus(a, b)
      /\ Apply("*", a, b) = times(a, b) /\ Apply("/", a, b) = divide(a, b)
      /\ Apply("%", a, b) = modulo(a, b)
  BY DEF Apply
<1>5. /\ Apply("or", a, b) = Bool(isTrue(a) \/ isTrue(b))
      /\ Apply("and", a, b) = Bool(isTrue(a) /\ isTrue(b))
      /\ Apply("not", a, b) = Bool(~isTrue(a)) /\ Apply("negate", a, b) = negate(a)
  BY DEF Apply
<1> QED BY <1>1, <1>2, <1>3, <1>4, <1>5

Truths == [kind : {"bool"}, n : {0, 1}]
Whole  == [kind : {"int"}, n : Int64]

LEMMA BoolIs == \A b \in BOOLEAN : Bool(b) \in Truths /\ (Bool(b) = Bool(TRUE) <=> b)
                                 /\ (Bool(b) = Bool(FALSE) <=> ~b)
BY DEF Bool, Truths

LEMMA AnIntIs ==
  ASSUME NEW n \in Int
  PROVE  /\ AnInt(n) \in Whole
         /\ n \in Int64 => AnInt(n).n = n
         /\ n = Half => AnInt(n).n = -Half
<1>1. Half \in Nat /\ Half > 1
  BY HalfAssumption
<1> DEFINE m == 2 * Half
           rem == (n + Half) % m
<1>2. m \in Nat /\ m > 0 /\ n + Half \in Int
  BY <1>1
<1>3. rem \in 0 .. m - 1
  <2> HIDE DEF m
  <2> QED BY <1>2
<1>4. rem - Half \in Int64
  BY <1>1, <1>3 DEF Int64
<1>5. AnInt(n) = [kind |-> "int", n |-> rem - Half]
  BY DEF AnInt
<1>6. ASSUME n \in Int64 PROVE rem = n + Half
  <2>1. n + Half \in 0 .. m - 1
    BY <1>1, <1>6 DEF Int64
  <2> HIDE DEF m
  <2> QED BY <1>2, <2>1
<1>7. ASSUME n = Half PROVE rem = 0
  <2>1. n + Half = m
    BY <1>1, <1>7
  <2> HIDE DEF m
  <2>2. m % m = 0
    BY <1>2
  <2> QED BY <2>1, <2>2
<1> HIDE DEF rem
<1>8. AnInt(n) \in Whole
  BY <1>4, <1>5 DEF Whole
<1>9. ASSUME n \in Int64 PROVE AnInt(n).n = n
  BY <1>1, <1>5, <1>6, <1>9
<1>10. ASSUME n = Half PROVE AnInt(n).n = -Half
  BY <1>1, <1>5, <1>7, <1>10
<1> QED BY <1>8, <1>9, <1>10

(* An operator computes a boolean, an int, a float, a string, a failure of *)
(* its own, never the error of an undefined variable, or panics.           *)
Computed == Truths \cup Whole \cup {Failure, Result, Joined, Panic}

LEMMA ReturnedKinds ==
  /\ Truths \subseteq Computed /\ Whole \subseteq Computed /\ Failure \in Computed
  /\ Result \in Computed /\ Joined \in Computed /\ Panic \in Computed
  /\ Computed \subseteq Returned /\ Failure \in Err
BY DEF Truths, Whole, Computed, Returned, Err, Failure, Error

(* The quotient of Go, and what is left.                                   *)
LEMMA QuotientIs ==
  ASSUME NEW n \in Int, NEW d \in Int, d # 0
  PROVE  /\ Quotient(n, d) \in Int /\ Remainder(n, d) \in Int
         /\ d * Quotient(n, d) + Remainder(n, d) = n
         /\ Abs(Remainder(n, d)) < Abs(d)
         /\ Remainder(n, d) # 0 => Sign(Remainder(n, d)) = Sign(n)
         /\ Abs(Quotient(n, d)) <= Abs(n)
         /\ Abs(d) > 1 => 2 * Abs(Quotient(n, d)) <= Abs(n)
<1> DEFINE a == Abs(n)
           b == Abs(d)
           q == a \div b
           rem == a % b
<1>1. a \in Nat /\ b \in Nat \ {0}
  BY DEF Abs
<1>2. q \in Nat /\ rem \in Nat /\ rem < b /\ a = b * q + rem
  <2> HIDE DEF a, b
  <2> QED BY <1>1, DivisionIs
<1>3. Quotient(n, d) = Sign(n) * Sign(d) * q
  BY DEF Quotient
<1>4. (n < 0 /\ a = -n /\ Sign(n) = -1) \/ (n >= 0 /\ a = n /\ Sign(n) = 1)
  BY DEF Abs, Sign
<1>5. (d < 0 /\ b = -d /\ Sign(d) = -1) \/ (d > 0 /\ b = d /\ Sign(d) = 1)
  BY DEF Abs, Sign
<1> HIDE DEF a, b, q, rem
<1>6. b * q \in Nat /\ q <= b * q /\ (b > 1 => 2 * q <= b * q)
  BY <1>1, <1>2
<1>7. /\ Quotient(n, d) = q \/ Quotient(n, d) = -q
      /\ d * Quotient(n, d) = Sign(n) * (b * q)
  BY <1>1, <1>2, <1>3, <1>4, <1>5
<1>8. Abs(Quotient(n, d)) = q /\ Quotient(n, d) \in Int
  BY <1>2, <1>7 DEF Abs
<1>9. Remainder(n, d) = Sign(n) * rem
  <2>1. Remainder(n, d) = n - Sign(n) * (b * q)
    BY <1>7 DEF Remainder
  <2>2. n = Sign(n) * a
    BY <1>1, <1>4
  <2> DEFINE c == b * q
  <2>3. a = c + rem /\ c \in Nat
    BY <1>2, <1>6
  <2> HIDE DEF c
  <2>4. Sign(n) * (c + rem) = Sign(n) * c + Sign(n) * rem
    BY <1>2, <1>4, <2>3
  <2>5. Sign(n) * c \in Int /\ Sign(n) * rem \in Int
    BY <1>2, <1>4, <2>3
  <2> QED BY <2>1, <2>2, <2>3, <2>4, <2>5 DEF c
<1>10. (n < 0 /\ Remainder(n, d) = -rem) \/ (n >= 0 /\ Remainder(n, d) = rem)
  BY <1>2, <1>4, <1>9
<1>11. /\ Remainder(n, d) \in Int /\ Abs(Remainder(n, d)) < b
       /\ Remainder(n, d) # 0 => Sign(Remainder(n, d)) = Sign(n)
  BY <1>1, <1>2, <1>4, <1>10 DEF Abs, Sign
<1>12. d * Quotient(n, d) + Remainder(n, d) = n
  BY <1>8 DEF Remainder
<1>13. q <= a /\ (b > 1 => 2 * q <= a)
  BY <1>1, <1>2, <1>6
<1> QED BY <1>8, <1>11, <1>12, <1>13 DEF a, b

Unsigned(a, b) == Ints(a, b) /\ "uint" \in {a.kind, b.kind}

LEMMA KindsDiffer ==
  /\ \A x \in Truths \cup Whole \cup Err : x # Panic
  /\ Result # Panic /\ Joined # Panic
  /\ \A x \in Truths \cup Err \cup {Result, Joined, Panic} : x.kind # "int"
BY DEF Truths, Whole, Err, Result, Joined, Panic

LEMMA EitherIs ==
  ASSUME NEW a, NEW b, NEW x, Ints(a, b) /\ ~Unsigned(a, b) => x \in Whole
  PROVE  /\ Either(a, b, x) \in Computed
         /\ Either(a, b, x) = Panic => Unsigned(a, b)
         /\ Either(a, b, x).kind = "int" => Ints(a, b) /\ ~Unsigned(a, b) /\ Either(a, b, x) = x
<1>1. CASE ~isNumber(a) \/ ~isNumber(b)
  <2>1. Either(a, b, x) = Failure
    BY <1>1 DEF Either
  <2>2. Failure \in Err
    BY ReturnedKinds
  <2> QED BY <2>1, <2>2, ReturnedKinds, KindsDiffer
<1>2. CASE isNumber(a) /\ isNumber(b) /\ ~Ints(a, b)
  <2>1. Either(a, b, x) = Result
    BY <1>2 DEF Either
  <2> QED BY <2>1, ReturnedKinds, KindsDiffer
<1>3. CASE Ints(a, b) /\ Unsigned(a, b)
  <2>1. Either(a, b, x) = Panic
    BY <1>3 DEF Either, OnInts, Unsigned, Ints, isNumber
  <2> QED BY <1>3, <2>1, ReturnedKinds, KindsDiffer
<1>4. CASE Ints(a, b) /\ ~Unsigned(a, b)
  <2>1. Either(a, b, x) = x /\ x \in Whole
    BY <1>4 DEF Either, OnInts, Unsigned, Ints, isNumber
  <2> QED BY <1>4, <2>1, ReturnedKinds, KindsDiffer
<1> QED BY <1>1, <1>2, <1>3, <1>4

LEMMA IntsAre ==
  ASSUME NEW a \in Value, NEW b \in Value, Ints(a, b), ~Unsigned(a, b)
  PROVE  a.kind = "int" /\ b.kind = "int" /\ a.n \in Int64 /\ b.n \in Int64
         /\ a.n \in Int /\ b.n \in Int
BY ValueIs DEF Ints, Unsigned, isInt

LEMMA ZeroIs ==
  ASSUME NEW b \in Value, isInt(b)
  PROVE  toFloat(b) = 0 <=> b.n = 0
<1>1. Finite(b) /\ Exact(b) = 2 * b.n /\ b.n \in Int
  BY ValueIs DEF Finite, isNumber, isInt, Exact
<1>2. toFloat(b) = Nearest(Exact(b)) /\ InReach(Exact(b))
  BY <1>1, ExactIs
<1> QED BY <1>1, <1>2, NearestZero

LEMMA DivideIs ==
  ASSUME NEW a \in Value, NEW b \in Value
  PROVE  /\ divide(a, b) \in Computed
         /\ divide(a, b) = Panic => Unsigned(a, b)
         /\ divide(a, b).kind = "int" => Ints(a, b) /\ ~Unsigned(a, b) /\ b.n # 0
         /\ Ints(a, b) /\ ~Unsigned(a, b) /\ b.n # 0 =>
              divide(a, b) = AnInt(Quotient(a.n, b.n))
<1> DEFINE x == IF b.n = 0 THEN Panic ELSE AnInt(Quotient(a.n, b.n))
           none == isNumber(a) /\ isNumber(b) /\ b.kind # "NaN" /\ toFloat(b) = 0
<1>1. CASE none
  <2>1. divide(a, b) = Failure /\ Failure \in Err
    BY <1>1, ReturnedKinds DEF divide
  <2>2. ~(Ints(a, b) /\ b.n # 0)
    BY <1>1, ZeroIs DEF Ints
  <2> QED BY <2>1, <2>2, ReturnedKinds, KindsDiffer
<1>2. CASE ~none
  <2>1. divide(a, b) = Either(a, b, x)
    BY <1>2 DEF divide
  <2>2. Ints(a, b) => b.n # 0
    <3>1. SUFFICES ASSUME Ints(a, b), b.n = 0 PROVE FALSE
      OBVIOUS
    <3>2. isInt(a) /\ isInt(b) /\ toFloat(b) = 0
      BY <3>1, ZeroIs DEF Ints
    <3>3. isNumber(a) /\ isNumber(b) /\ b.kind # "NaN"
      BY <3>2 DEF isNumber, isInt
    <3> QED BY <1>2, <3>2, <3>3
  <2>3. ASSUME Ints(a, b), ~Unsigned(a, b)
        PROVE  x = AnInt(Quotient(a.n, b.n)) /\ x \in Whole
    <3>1. a.n \in Int /\ b.n \in Int /\ b.n # 0
      BY <2>2, <2>3, IntsAre
    <3>2. Quotient(a.n, b.n) \in Int
      BY <3>1, QuotientIs
    <3> QED BY <3>1, <3>2, AnIntIs
  <2>4. Ints(a, b) /\ ~Unsigned(a, b) => x \in Whole /\ x = AnInt(Quotient(a.n, b.n))
    BY <2>3
  <2> HIDE DEF x, none
  <2>5. /\ Either(a, b, x) \in Computed
        /\ Either(a, b, x) = Panic => Unsigned(a, b)
        /\ Either(a, b, x).kind = "int" => Ints(a, b) /\ ~Unsigned(a, b)
    BY <2>4, EitherIs
  <2>6. Ints(a, b) /\ ~Unsigned(a, b) => Either(a, b, x) = x
    BY DEF Either, OnInts, Unsigned, Ints, isNumber
  <2> QED BY <2>1, <2>2, <2>4, <2>5, <2>6
<1> QED BY <1>1, <1>2

LEMMA ModuloIs ==
  ASSUME NEW a \in Value, NEW b \in Value
  PROVE  /\ modulo(a, b) \in Computed
         /\ modulo(a, b) = Panic => Unsigned(a, b)
         /\ modulo(a, b).kind = "int" => Ints(a, b) /\ ~Unsigned(a, b) /\ b.n # 0
         /\ Ints(a, b) /\ ~Unsigned(a, b) /\ b.n # 0 =>
              modulo(a, b) = AnInt(Remainder(a.n, b.n))
<1>1. CASE ~Ints(a, b) \/ (b.kind = "int" /\ b.n = 0)
  <2>1. modulo(a, b) = Failure /\ Failure \in Err
    BY <1>1, ReturnedKinds DEF modulo
  <2>2. Ints(a, b) /\ ~Unsigned(a, b) => b.n = 0
    BY <1>1, IntsAre
  <2> QED BY <2>1, <2>2, ReturnedKinds, KindsDiffer
<1>2. CASE Ints(a, b) /\ ~(b.kind = "int" /\ b.n = 0)
  <2> DEFINE x == AnInt(Remainder(a.n, b.n))
  <2>1. modulo(a, b) = OnInts(a, b, x)
    BY <1>2 DEF modulo
  <2>2. CASE Unsigned(a, b)
    <3>1. modulo(a, b) = Panic
      BY <2>1, <2>2 DEF OnInts, Unsigned
    <3> QED BY <2>2, <3>1, ReturnedKinds, KindsDiffer
  <2>3. CASE ~Unsigned(a, b)
    <3>1. modulo(a, b) = x
      BY <1>2, <2>1, <2>3 DEF OnInts, Unsigned
    <3>2. a.n \in Int /\ b.n \in Int /\ b.n # 0
      BY <1>2, <2>3, IntsAre
    <3>3. x \in Whole
      BY <3>2, QuotientIs, AnIntIs
    <3> QED BY <1>2, <2>3, <3>1, <3>2, <3>3, ReturnedKinds, KindsDiffer
  <2> QED BY <2>2, <2>3
<1> QED BY <1>1, <1>2

LEMMA ArithmeticIs ==
  ASSUME NEW a \in Value, NEW b \in Value
  PROVE  /\ plus(a, b) \in Computed /\ (plus(a, b) = Panic => Unsigned(a, b))
         /\ minus(a, b) \in Computed /\ (minus(a, b) = Panic => Unsigned(a, b))
         /\ times(a, b) \in Computed /\ (times(a, b) = Panic => Unsigned(a, b))
         /\ negate(a) \in Computed /\ (negate(a) = Panic => Unsigned(a, a))
<1>1. a.n \in Int /\ b.n \in Int
  BY ValueIs
<1>2. a.n + b.n \in Int /\ a.n - b.n \in Int /\ a.n * b.n \in Int /\ -a.n \in Int
  BY <1>1
<1>3. minus(a, b) \in Computed /\ (minus(a, b) = Panic => Unsigned(a, b))
  <2>1. AnInt(a.n - b.n) \in Whole
    BY <1>2, AnIntIs
  <2> QED BY <2>1, EitherIs DEF minus
<1>4. times(a, b) \in Computed /\ (times(a, b) = Panic => Unsigned(a, b))
  <2>1. AnInt(a.n * b.n) \in Whole
    BY <1>2, AnIntIs
  <2> QED BY <2>1, EitherIs DEF times
<1>5. negate(a) \in Computed /\ (negate(a) = Panic => Unsigned(a, a))
  <2>1. AnInt(-a.n) \in Whole
    BY <1>2, AnIntIs
  <2> QED BY <2>1, EitherIs DEF negate
<1>6. plus(a, b) \in Computed /\ (plus(a, b) = Panic => Unsigned(a, b))
  <2>1. AnInt(a.n + b.n) \in Whole
    BY <1>2, AnIntIs
  <2>2. CASE isNumber(a) /\ isNumber(b)
    BY <2>1, <2>2, EitherIs DEF plus
  <2>3. CASE ~(isNumber(a) /\ isNumber(b))
    BY <2>3, ReturnedKinds, KindsDiffer DEF plus
  <2> QED BY <2>2, <2>3
<1> QED BY <1>3, <1>4, <1>5, <1>6

LEMMA CompareIs ==
  ASSUME NEW a, NEW b, NEW h \in BOOLEAN
  PROVE  Compare(a, b, h) \in Computed /\ Compare(a, b, h) # Panic
         /\ (Compare(a, b, h) = Bool(h) \/ Compare(a, b, h) = Failure)
<1>1. Bool(h) \in Truths /\ Failure \in Err
  BY BoolIs, ReturnedKinds
<1>2. Compare(a, b, h) = Bool(h) \/ Compare(a, b, h) = Failure
  BY DEF Compare
<1> QED BY <1>1, <1>2, ReturnedKinds, KindsDiffer

LEMMA OperatorIs ==
  Operator = {"eq", "ne", "lt", "le", "gt", "ge", "not", "negate",
              "+", "-", "*", "/", "%", "or", "and"}
BY DEF Operator, Comparison, Unary

LEMMA ComparisonsAreBoolean ==
  ASSUME NEW a, NEW b
  PROVE  /\ eq(a, b) \in BOOLEAN /\ ne(a, b) \in BOOLEAN /\ lt(a, b) \in BOOLEAN
         /\ le(a, b) \in BOOLEAN /\ gt(a, b) \in BOOLEAN /\ ge(a, b) \in BOOLEAN
         /\ isTrue(a) \in BOOLEAN
BY DEF eq, ne, lt, le, gt, ge, isTrue

LEMMA ApplyTyped ==
  ASSUME NEW f \in Operator, NEW a \in Value, NEW b \in Value
  PROVE  /\ Apply(f, a, b) \in Computed
         /\ Apply(f, a, b) = Panic => Unsigned(a, b) \/ (f \in Unary /\ a.kind = "uint")
<1>1. CASE f \in {"eq", "ne", "or", "and", "not"}
  <2>1. /\ Bool(eq(a, b)) \in Truths /\ Bool(ne(a, b)) \in Truths
        /\ Bool(isTrue(a) \/ isTrue(b)) \in Truths /\ Bool(isTrue(a) /\ isTrue(b)) \in Truths
        /\ Bool(~isTrue(a)) \in Truths
    BY DEF Bool, Truths
  <2>2. Apply(f, a, b) \in Truths
    BY <1>1, <2>1, ApplyIs
  <2> QED BY <2>2, ReturnedKinds, KindsDiffer
<1>2. CASE f \in {"lt", "le", "gt", "ge"}
  <2> DEFINE good(x) == x \in Computed /\ x # Panic
  <2>1. /\ good(Compare(a, b, lt(a, b))) /\ good(Compare(a, b, le(a, b)))
        /\ good(Compare(a, b, gt(a, b))) /\ good(Compare(a, b, ge(a, b)))
    BY ComparisonsAreBoolean, CompareIs
  <2>2. good(Apply(f, a, b))
    <3> HIDE DEF good
    <3> QED BY <1>2, <2>1, ApplyIs
  <2> QED BY <2>2
<1>3. CASE f \in {"+", "-", "*"}
  BY <1>3, ApplyIs, ArithmeticIs
<1>4. CASE f = "/"
  BY <1>4, ApplyIs, DivideIs
<1>5. CASE f = "%"
  BY <1>5, ApplyIs, ModuloIs
<1>6. CASE f = "negate"
  <2>1. negate(a) \in Computed /\ (negate(a) = Panic => Unsigned(a, a))
    BY ArithmeticIs
  <2>2. Apply(f, a, b) = negate(a)
    BY <1>6, ApplyIs
  <2> QED BY <1>6, <2>1, <2>2 DEF Unsigned, Unary
<1> QED BY <1>1, <1>2, <1>3, <1>4, <1>5, <1>6, OperatorIs
-----------------------------------------------------------------------------
(* How far an evaluation has come tells what it returns: an operand that   *)
(* fails is what is returned and ends it, a left operand that decides ends *)
(* it too, and otherwise the operator is applied to what the operands come *)
(* to.  None of the properties follows from the types of the variables:    *)
(* each needs to know from which operands a result came.                   *)
EvalInv ==
  /\ op \in Operator /\ undefOk \in BOOLEAN /\ left \in Outcome /\ right \in Outcome
  /\ op \in Unary => right = NoValue
  /\ l = None => r = None /\ (result = None \/ (Fails(left) /\ result = left))
  /\ l # None =>
       /\ l = ValueOf(left) /\ ~Fails(left)
       /\ Decides(op, l) => r = None /\ result = Bool(op = "or")
       /\ ~Decides(op, l) /\ r = None =>
            result = None \/ (Fails(right) /\ result = right)
  /\ r # None =>
       /\ l # None /\ ~Decides(op, l) /\ r = ValueOf(right) /\ ~Fails(right)
       /\ result = Apply(op, l, r)

LEMMA OutcomeIs ==
  ASSUME NEW o \in Outcome
  PROVE  /\ ValueOf(o) \in Value /\ ValueOf(o) # None /\ o # None
         /\ o.kind = "error" => o \in Err
         /\ o.kind # "error" => o \in Value /\ ValueOf(o) = o
         /\ o \in Err => o.kind = "error"
         /\ o \in Value => o.kind # "error"
<1>1. o \in Err => o.kind = "error"
  BY DEF Err
<1>2. o \in Value => o.kind # "error"
  BY ValueIs
<1>3. o \in Value \/ o \in Err
  BY DEF Outcome
<1>4. NoValue \in Value
  BY DEF NoValue, Value
<1>5. Err \subseteq Returned
  BY DEF Returned
<1>6. None \notin Value /\ None \notin Returned
  BY NoneAssumption
<1> QED BY <1>1, <1>2, <1>3, <1>4, <1>5, <1>6 DEF ValueOf

LEMMA InvInit == Init => EvalInv
<1> SUFFICES ASSUME Init PROVE EvalInv
  OBVIOUS
<1>1. NoValue \in Outcome
  BY DEF NoValue, Value, Outcome
<1> QED BY <1>1 DEF Init, EvalInv

LEMMA InvNext == EvalInv /\ [Next]_vars => EvalInv'
<1> SUFFICES ASSUME EvalInv, [Next]_vars PROVE EvalInv'
  OBVIOUS
<1>1. CASE EvalLeft
  <2>1. /\ l = None /\ r = None /\ r' = r /\ op' = op /\ undefOk' = undefOk
        /\ left' = left /\ right' = right
    BY <1>1 DEF EvalLeft, EvalInv
  <2>2. Fails(left)' <=> Fails(left)
    BY <2>1 DEF Fails
  <2>3. CASE Fails(left)
    <3>1. l' = None /\ result' = left
      BY <1>1, <2>1, <2>3 DEF EvalLeft
    <3> QED BY <2>1, <2>2, <2>3, <3>1 DEF EvalInv
  <2>4. CASE ~Fails(left)
    <3>1. l' = ValueOf(left) /\ result' = IF Decides(op, l') THEN Bool(op = "or") ELSE None
      BY <1>1, <2>4 DEF EvalLeft
    <3>2. l' # None
      BY <3>1, OutcomeIs DEF EvalInv
    <3> QED BY <2>1, <2>2, <2>4, <3>1, <3>2 DEF EvalInv, ValueOf
  <2> QED BY <2>3, <2>4
<1>2. CASE EvalRight
  <2>1. /\ l # None /\ result = None /\ l' = l /\ op' = op /\ undefOk' = undefOk
        /\ left' = left /\ right' = right
    BY <1>2 DEF EvalRight
  <2>2. (Fails(left)' <=> Fails(left)) /\ (Fails(right)' <=> Fails(right))
    BY <2>1 DEF Fails
  <2>3. l = ValueOf(left) /\ l \in Value /\ ~Fails(left) /\ op \in Operator
    BY <2>1, OutcomeIs DEF EvalInv
  <2>4. ~Decides(op, l)
    <3>1. Bool(op = "or") # None
      <4>1. Bool(op = "or") \in Truths
        BY DEF Bool, Truths
      <4> QED BY <4>1, ReturnedKinds, NoneAssumption
    <3> QED BY <2>1, <3>1 DEF EvalInv
  <2>5. r = None
    <3>1. r # None => result = Apply(op, l, r) /\ r \in Value
      BY OutcomeIs DEF EvalInv
    <3>2. r # None => result # None
      BY <2>3, <3>1, ApplyTyped, ReturnedKinds, NoneAssumption
    <3> QED BY <2>1, <3>2
  <2>6. CASE Fails(right)
    <3>1. r' = None /\ result' = right
      BY <1>2, <2>5, <2>6 DEF EvalRight
    <3> QED BY <2>1, <2>2, <2>3, <2>4, <2>6, <3>1 DEF EvalInv, ValueOf
  <2>7. CASE ~Fails(right)
    <3>1. r' = ValueOf(right) /\ result' = Apply(op, l, r')
      BY <1>2, <2>7 DEF EvalRight
    <3>2. r' # None
      BY <3>1, OutcomeIs DEF EvalInv
    <3> QED BY <2>1, <2>2, <2>3, <2>4, <2>7, <3>1, <3>2 DEF EvalInv, ValueOf
  <2> QED BY <2>6, <2>7
<1>3. CASE UNCHANGED vars
  BY <1>3 DEF EvalInv, vars, Fails, ValueOf, Decides
<1> QED BY <1>1, <1>2, <1>3 DEF Next

THEOREM EvalInvariant == Spec => []EvalInv
BY InvInit, InvNext, PTL DEF Spec
-----------------------------------------------------------------------------
LEMMA Applied ==
  ASSUME EvalInv, r # None
  PROVE  /\ l \in Value /\ r \in Value /\ l # None /\ op \in Operator
         /\ result = Apply(op, l, r) /\ result \in Computed /\ result # None
         /\ result = Panic => Unsigned(l, r) \/ (op \in Unary /\ l.kind = "uint")
<1>1. l \in Value /\ r \in Value /\ l # None /\ op \in Operator /\ result = Apply(op, l, r)
  BY OutcomeIs DEF EvalInv
<1> QED BY <1>1, ApplyTyped, ReturnedKinds, NoneAssumption

(* What is returned without applying the operator.                         *)
LEMMA NotApplied ==
  ASSUME EvalInv, r = None, result # None
  PROVE  \/ /\ Fails(left) /\ l = None /\ result = left
         \/ /\ ~Fails(left) /\ l = ValueOf(left) /\ l \in Value
            /\ Decides(op, l) /\ result = Bool(op = "or")
         \/ /\ ~Fails(left) /\ l = ValueOf(left) /\ l \in Value
            /\ ~Decides(op, l) /\ Fails(right) /\ result = right
BY OutcomeIs DEF EvalInv

LEMMA Erring ==
  ASSUME NEW o \in Outcome, Fails(o)
  PROVE  /\ o \in Err /\ o.kind = "error" /\ o \in Returned /\ o # Panic
         /\ o \notin Truths /\ o \notin Value
         /\ undefOk => o # Error("undefined")
<1>1. o.kind = "error" /\ o \in Err /\ o \notin Value
  BY OutcomeIs DEF Fails
<1>2. o \in Returned /\ o # Panic /\ o \notin Truths
  BY <1>1, KindsDiffer DEF Returned, Truths
<1>3. undefOk => o # Error("undefined")
  BY DEF Fails, Error
<1> QED BY <1>1, <1>2, <1>3

(* What is no number, a division by zero and a float that is NaN.          *)
LEMMA ArithmeticIsStrict ==
  ASSUME NEW f \in Arithmetic, NEW a \in Value, NEW b \in Value
  PROVE  LET numbers == isNumber(a) /\ (f \in Unary \/ isNumber(b))
             zero    == f \in {"/", "%"} /\ Finite(b) /\ Exact(b) = 0
         IN /\ ~ numbers => Apply(f, a, b) = IF f = "+" THEN Joined ELSE Failure
            /\ f = "%" /\ ~ Ints(a, b) => Apply(f, a, b) = Failure
            /\ zero /\ numbers =>
                 \/ Apply(f, a, b) = Failure
                 \/ f = "%" /\ b.kind = "uint" /\ Apply(f, a, b) = Panic
            /\ numbers /\ (a.kind = "NaN" \/ (f \notin Unary /\ b.kind = "NaN"))
               /\ f # "%" /\ ~ zero =>
                 Apply(f, a, b) = Result
<1> DEFINE numbers == isNumber(a) /\ (f \in Unary \/ isNumber(b))
           zero    == f \in {"/", "%"} /\ Finite(b) /\ Exact(b) = 0
<1>1. f \in {"negate", "+", "-", "*", "/", "%"} /\ (f \in Unary <=> f = "negate")
  BY DEF Arithmetic, Unary
<1>2. /\ Apply("+", a, b) = plus(a, b) /\ Apply("-", a, b) = minus(a, b)
      /\ Apply("*", a, b) = times(a, b) /\ Apply("/", a, b) = divide(a, b)
      /\ Apply("%", a, b) = modulo(a, b) /\ Apply("negate", a, b) = negate(a)
  BY ApplyIs
<1>3. \A x : /\ ~isNumber(a) \/ ~isNumber(b) => Either(a, b, x) = Failure
             /\ isNumber(a) /\ isNumber(b) /\ ~Ints(a, b) => Either(a, b, x) = Result
             /\ ~isNumber(a) => Either(a, a, x) = Failure
             /\ isNumber(a) /\ ~isInt(a) => Either(a, a, x) = Result
  BY DEF Either, Ints
<1>4. (a.kind = "NaN" => ~isInt(a)) /\ (b.kind = "NaN" => ~isInt(b))
  BY DEF isInt
<1>5. isInt(b) => isNumber(b)
  BY DEF isNumber
<1>6. Finite(b) => (toFloat(b) = 0 <=> Exact(b) = 0) /\ isNumber(b) /\ b.kind # "NaN"
  BY ExactIs, NearestZero DEF Finite
<1>7. isNumber(b) /\ b.kind # "NaN" => Finite(b)
  BY DEF Finite
<1>8. CASE f = "negate"
  BY <1>1, <1>2, <1>3, <1>4, <1>8, ValueIs DEF negate, isNumber, isInt, isFloat
<1>9. CASE f = "+"
  BY <1>1, <1>2, <1>3, <1>4, <1>9 DEF plus, Ints
<1>10. CASE f = "-"
  BY <1>1, <1>2, <1>3, <1>4, <1>10 DEF minus, Ints
<1>11. CASE f = "*"
  BY <1>1, <1>2, <1>3, <1>4, <1>11 DEF times, Ints
<1>12. CASE f = "/"
  <2>1. isNumber(a) /\ zero => divide(a, b) = Failure
    BY <1>6 DEF divide
  <2>2. ~zero \/ ~isNumber(a) =>
          \E x : divide(a, b) = Either(a, b, x)
    BY <1>6, <1>7, <1>12 DEF divide
  <2> QED BY <1>1, <1>2, <1>3, <1>4, <1>12, <2>1, <2>2 DEF Ints
<1>13. CASE f = "%"
  <2>1. ~Ints(a, b) => modulo(a, b) = Failure
    BY DEF modulo
  <2>2. ~numbers => ~Ints(a, b)
    BY <1>1, <1>5, <1>13 DEF Ints, isNumber
  <2>3. ASSUME zero, Ints(a, b)
        PROVE  \/ modulo(a, b) = Failure
               \/ b.kind = "uint" /\ modulo(a, b) = Panic
    <3>1. isInt(b) /\ b.n \in Int /\ Exact(b) = 2 * b.n /\ Exact(b) = 0
      BY <2>3, ValueIs DEF Exact, Ints
    <3>2. b.n = 0 /\ b.kind \in {"int", "uint"}
      BY <3>1 DEF isInt
    <3> QED BY <2>3, <3>2 DEF modulo, OnInts
  <2> QED BY <1>1, <1>2, <1>13, <2>1, <2>2, <2>3
<1> QED BY <1>1, <1>8, <1>9, <1>10, <1>11, <1>12, <1>13

(* What an operator returns has its type; it panics only where all its     *)
(* operands are integers and one of them is unsigned; and arithmetic is an *)
(* error where an operand has no value or is no number and on a division   *)
(* by zero, but "+", which concatenates, and floats that are NaN.          *)
THEOREM OperatorsAreTotal == Spec => []OperatorsTotal
<1>1. EvalInv => OperatorsTotal
  <2> SUFFICES ASSUME EvalInv PROVE OperatorsTotal
    OBVIOUS
  <2>1. CASE r # None
    <3>1. TypeOK
      BY <2>1, Applied, ReturnedKinds DEF TypeOK, EvalInv
    <3>2. result = Panic => Unsigned(l, r) \/ (op \in Unary /\ l.kind = "uint")
      BY <2>1, Applied
    <3>3. l \in Value /\ r \in Value /\ result = Apply(op, l, r)
      BY <2>1, Applied
    <3>4. ASSUME op \in Arithmetic
          PROVE  /\ ~ AllNumbers => result = IF op = "+" THEN Joined ELSE Failure
                 /\ op = "%" /\ ~ Ints(l, r) => result = Failure
                 /\ ByZero /\ AllNumbers =>
                      \/ result = Failure
                      \/ op = "%" /\ r.kind = "uint" /\ result = Panic
                 /\ AllNumbers /\ SomeNaN /\ op # "%" /\ ~ ByZero => result = Result
      BY <3>3, <3>4, ArithmeticIsStrict DEF AllNumbers, SomeNaN, ByZero
    <3>5. result = Panic =>
            \/ l.kind = "uint" /\ (op \in Unary \/ isInt(r))
            \/ r.kind = "uint" /\ isInt(l)
      BY <3>2 DEF Unsigned, Ints, isInt
    <3> QED BY <2>1, <3>1, <3>4, <3>5 DEF OperatorsTotal
  <2>2. CASE r = None
    <3>1. Bool(op = "or") \in Truths
      BY DEF Bool, Truths
    <3>2. result \in Returned \cup {None} /\ result # Panic
      <4>1. CASE result = None
        BY <4>1, NoneAssumption, ReturnedKinds
      <4>2. CASE result # None
        <5>1. left \in Outcome /\ right \in Outcome
          BY DEF EvalInv
        <5> QED BY <2>2, <3>1, <4>2, <5>1, NotApplied, Erring, ReturnedKinds, KindsDiffer
      <4> QED BY <4>1, <4>2
    <3>3. l \in Value \cup {None}
      BY OutcomeIs DEF EvalInv
    <3>4. ASSUME op \in Arithmetic, result # None
          PROVE  result \in Err
      <4>1. left \in Outcome /\ right \in Outcome
        BY DEF EvalInv
      <4>2. ~Decides(op, l)
        BY <3>4 DEF Decides, Arithmetic
      <4> QED BY <2>2, <3>4, <4>1, <4>2, NotApplied, Erring
    <3>5. TypeOK
      BY <2>2, <3>2, <3>3 DEF TypeOK, EvalInv
    <3> QED BY <2>2, <3>2, <3>4, <3>5 DEF OperatorsTotal
  <2> QED BY <2>1, <2>2
<1> QED BY <1>1, EvalInvariant, PTL
-----------------------------------------------------------------------------
LEMMA ComparisonHolds ==
  ASSUME NEW a, NEW b, isNumber(a), isNumber(b)
  PROVE  /\ (Apply("lt", a, b) = Bool(TRUE)) <=> lt(a, b)
         /\ (Apply("le", a, b) = Bool(TRUE)) <=> lt(a, b) \/ eq(a, b)
         /\ (Apply("gt", a, b) = Bool(TRUE)) <=> gt(a, b)
         /\ (Apply("ge", a, b) = Bool(TRUE)) <=> gt(a, b) \/ eq(a, b)
         /\ (Apply("eq", a, b) = Bool(TRUE)) <=> eq(a, b)
         /\ (Apply("ne", a, b) = Bool(TRUE)) <=> ~eq(a, b)
<1>1. /\ Compare(a, b, lt(a, b)) = Bool(lt(a, b)) /\ Compare(a, b, le(a, b)) = Bool(le(a, b))
      /\ Compare(a, b, gt(a, b)) = Bool(gt(a, b)) /\ Compare(a, b, ge(a, b)) = Bool(ge(a, b))
  BY DEF Compare
<1>2. /\ (Bool(lt(a, b)) = Bool(TRUE)) <=> lt(a, b)
      /\ (Bool(le(a, b)) = Bool(TRUE)) <=> le(a, b)
      /\ (Bool(gt(a, b)) = Bool(TRUE)) <=> gt(a, b)
      /\ (Bool(ge(a, b)) = Bool(TRUE)) <=> ge(a, b)
      /\ (Bool(eq(a, b)) = Bool(TRUE)) <=> eq(a, b)
      /\ (Bool(ne(a, b)) = Bool(TRUE)) <=> ne(a, b)
  BY DEF Bool
<1>3. /\ Apply("lt", a, b) = Bool(lt(a, b)) /\ Apply("le", a, b) = Bool(le(a, b))
      /\ Apply("gt", a, b) = Bool(gt(a, b)) /\ Apply("ge", a, b) = Bool(ge(a, b))
      /\ Apply("eq", a, b) = Bool(eq(a, b)) /\ Apply("ne", a, b) = Bool(ne(a, b))
  BY <1>1, ApplyIs
<1> QED BY <1>2, <1>3 DEF le, ge, ne

(* Every comparison answers what the numbers are, exactly between two      *)
(* integers or two floats and without ever contradicting them otherwise;   *)
(* of lt, eq and gt exactly one holds.                                     *)
THEOREM ComparisonsFollowTheNumbers == Spec => []OrderExact
<1>1. ASSUME EvalInv, Compared, op \in Comparison
      PROVE  /\ (op = "lt" /\ Holds) \/ (op = "ge" /\ ~Holds) => Exact(l) < Exact(r)
             /\ (op = "gt" /\ Holds) \/ (op = "le" /\ ~Holds) => Exact(l) > Exact(r)
             /\ (op = "ne" /\ Holds) \/ (op = "eq" /\ ~Holds) => Exact(l) # Exact(r)
             /\ (isInt(l) <=> isInt(r)) =>
                  /\ op = "lt" => (Holds <=> Exact(l) < Exact(r))
                  /\ op = "le" => (Holds <=> Exact(l) <= Exact(r))
                  /\ op = "gt" => (Holds <=> Exact(l) > Exact(r))
                  /\ op = "ge" => (Holds <=> Exact(l) >= Exact(r))
                  /\ op = "eq" => (Holds <=> Exact(l) = Exact(r))
                  /\ op = "ne" => (Holds <=> Exact(l) # Exact(r))
  <2>1. /\ r # None /\ Finite(l) /\ Finite(r) /\ l \in Value /\ r \in Value
        /\ isNumber(l) /\ isNumber(r) /\ result = Apply(op, l, r)
    BY <1>1, Applied DEF Compared, Finite
  <2>2. /\ op = "lt" => (Holds <=> lt(l, r))
        /\ op = "le" => (Holds <=> lt(l, r) \/ eq(l, r))
        /\ op = "gt" => (Holds <=> gt(l, r))
        /\ op = "ge" => (Holds <=> gt(l, r) \/ eq(l, r))
        /\ op = "eq" => (Holds <=> eq(l, r))
        /\ op = "ne" => (Holds <=> ~eq(l, r))
    BY <2>1, ComparisonHolds DEF Holds
  <2>3. gt(l, r) <=> ~(lt(l, r) \/ eq(l, r))
    BY DEF gt, le
  <2>4. /\ lt(l, r) => Exact(l) < Exact(r)
        /\ gt(l, r) => Exact(l) > Exact(r)
        /\ Exact(l) = Exact(r) => eq(l, r)
    BY <2>1, ComparesWell
  <2>5. Exact(l) \in Int /\ Exact(r) \in Int
    BY <2>1, ExactIs
  <2>6. (op = "lt" /\ Holds) \/ (op = "ge" /\ ~Holds) => Exact(l) < Exact(r)
    <3>1. op = "ge" /\ ~Holds => ~gt(l, r) /\ ~eq(l, r)
      BY <2>2
    <3> QED BY <2>2, <2>3, <2>4, <3>1
  <2>7. (op = "gt" /\ Holds) \/ (op = "le" /\ ~Holds) => Exact(l) > Exact(r)
    <3>1. op = "le" /\ ~Holds => ~lt(l, r) /\ ~eq(l, r)
      BY <2>2
    <3> QED BY <2>2, <2>3, <2>4, <3>1
  <2>8. (op = "ne" /\ Holds) \/ (op = "eq" /\ ~Holds) => Exact(l) # Exact(r)
    BY <2>2, <2>4
  <2>9. ASSUME isInt(l) <=> isInt(r)
         PROVE  /\ op = "lt" => (Holds <=> Exact(l) < Exact(r))
                /\ op = "le" => (Holds <=> Exact(l) <= Exact(r))
                /\ op = "gt" => (Holds <=> Exact(l) > Exact(r))
                /\ op = "ge" => (Holds <=> Exact(l) >= Exact(r))
                /\ op = "eq" => (Holds <=> Exact(l) = Exact(r))
                /\ op = "ne" => (Holds <=> Exact(l) # Exact(r))
    <3>1. (lt(l, r) <=> Exact(l) < Exact(r)) /\ (eq(l, r) <=> Exact(l) = Exact(r))
      BY <2>1, <2>9, ComparesExactly
    <3>2. op = "lt" => (Holds <=> Exact(l) < Exact(r))
      BY <2>2, <3>1
    <3>3. op = "le" => (Holds <=> Exact(l) <= Exact(r))
      BY <2>2, <2>5, <3>1
    <3>4. op = "gt" => (Holds <=> Exact(l) > Exact(r))
      BY <2>2, <2>3, <2>5, <3>1
    <3>5. op = "ge" => (Holds <=> Exact(l) >= Exact(r))
      BY <2>2, <2>3, <2>5, <3>1
    <3>6. op = "eq" => (Holds <=> Exact(l) = Exact(r))
      BY <2>2, <3>1
    <3>7. op = "ne" => (Holds <=> Exact(l) # Exact(r))
      BY <2>2, <3>1
    <3> QED BY <3>2, <3>3, <3>4, <3>5, <3>6, <3>7
  <2> QED BY <2>6, <2>7, <2>8, <2>9
<1>2. ASSUME EvalInv, r # None, isNumber(l), isNumber(r)
      PROVE  /\ (lt(l, r) \/ eq(l, r) <=> ~gt(l, r)) /\ ~(lt(l, r) /\ eq(l, r))
             /\ IF Compared THEN /\ lt(l, r) <=> gt(r, l)
                                 /\ eq(l, r) <=> eq(r, l)
                                 /\ ge(l, r) <=> le(r, l)
                            ELSE gt(l, r) /\ ge(l, r) /\ ge(r, l)
  <2>1. l \in Value /\ r \in Value
    BY <1>2, Applied
  <2>2. lt(l, r) \/ eq(l, r) <=> ~gt(l, r)
    BY DEF gt, le
  <2>3. CASE Compared
    <3>1. Finite(l) /\ Finite(r)
      BY <2>3 DEF Compared
    <3>2. ~(lt(l, r) /\ eq(l, r)) /\ (lt(l, r) <=> gt(r, l)) /\ (eq(l, r) <=> eq(r, l))
      BY <2>1, <3>1, ComparesWell
    <3>3. lt(r, l) <=> gt(l, r)
      BY <2>1, <3>1, ComparesWell
    <3>4. ge(l, r) <=> le(r, l)
      BY <3>2, <3>3 DEF ge, le
    <3> QED BY <2>2, <2>3, <3>2, <3>4
  <2>4. CASE ~Compared
    <3>1. l.kind = "NaN" \/ r.kind = "NaN"
      BY <1>2, <2>4 DEF Compared, Finite
    <3>2. ~lt(l, r) /\ ~eq(l, r) /\ ~lt(r, l) /\ ~eq(r, l)
      BY <3>1 DEF lt, eq
    <3> QED BY <2>2, <2>4, <3>2 DEF ge, gt, le
  <2> QED BY <2>3, <2>4
<1>3. EvalInv => OrderExact
  BY <1>1, <1>2 DEF OrderExact
<1> QED BY <1>3, EvalInvariant, PTL
-----------------------------------------------------------------------------
(* The quotient of two ints is an int but for one pair of them, the least  *)
(* int by -1: it overflows to the least int, and multiplied by -1 that     *)
(* overflows back.                                                         *)
LEMMA DivisionFits ==
  ASSUME NEW n \in Int64, NEW d \in Int64, d # 0
  PROVE  LET q == AnInt(Quotient(n, d)).n
             m == AnInt(Remainder(n, d)).n
         IN /\ AnInt(q * d + m).n = n
            /\ Abs(m) < Abs(d) /\ (m # 0 => Sign(m) = Sign(n))
<1> DEFINE Q == Quotient(n, d)
           R == Remainder(n, d)
<1>0. /\ n \in -Half .. Half - 1 /\ d \in -Half .. Half - 1
      /\ Half \in Nat /\ n \in Int /\ d \in Int
  BY HalfAssumption DEF Int64
<1>1. /\ Q \in Int /\ R \in Int /\ d * Q + R = n /\ Abs(R) < Abs(d)
      /\ R # 0 => Sign(R) = Sign(n)
      /\ Abs(Q) <= Abs(n) /\ (Abs(d) > 1 => 2 * Abs(Q) <= Abs(n))
  BY <1>0, QuotientIs
<1> HIDE DEF Q, R
<1>2. R \in Int64
  BY <1>0, <1>1 DEF Abs, Int64
<1>3. AnInt(R).n = R
  BY <1>1, <1>2, AnIntIs
<1>4. CASE Q \in Int64
  <2>1. AnInt(Q).n = Q
    BY <1>1, <1>4, AnIntIs
  <2>2. Q * d + R = n
    <3>1. Q * d = d * Q
      BY <1>0, <1>1
    <3> QED BY <1>1, <3>1
  <2>3. AnInt(n).n = n
    BY <1>0, AnIntIs
  <2> QED BY <1>1, <1>3, <2>1, <2>2, <2>3 DEF Q, R
<1>5. CASE Q \notin Int64
  <2>1. Q = Half /\ n = -Half
    BY <1>0, <1>1, <1>5 DEF Abs, Int64
  <2>2. ~(Abs(d) > 1)
    BY <1>0, <1>1, <2>1 DEF Abs
  <2>3. R = 0 /\ (d = 1 \/ d = -1)
    BY <1>0, <1>1, <2>2 DEF Abs
  <2>4. Half # 0
    BY HalfAssumption
  <2>5. d = -1
    BY <1>0, <1>1, <2>1, <2>3, <2>4
  <2>6. AnInt(Q).n = -Half
    BY <1>1, <2>1, AnIntIs
  <2>7. (-Half) * d + R = Half
    BY <1>0, <2>3, <2>5
  <2>8. AnInt(Half).n = -Half
    BY <1>0, AnIntIs
  <2> QED BY <1>1, <1>3, <2>1, <2>6, <2>7, <2>8 DEF Q, R
<1> QED BY <1>4, <1>5

(* For all ints, quotient and remainder belong together.                   *)
THEOREM QuotientAndRemainder == Spec => []DivisionExact
<1>1. EvalInv => DivisionExact
  <2> SUFFICES ASSUME EvalInv, op \in {"/", "%"}, result # None, result.kind = "int"
               PROVE  LET q == divide(l, r).n
                          m == modulo(l, r).n
                      IN /\ AnInt(q * r.n + m).n = l.n
                         /\ Abs(m) < Abs(r.n) /\ (m # 0 => Sign(m) = Sign(l.n))
    BY DEF DivisionExact
  <2>1. r # None
    <3>1. left \in Outcome /\ right \in Outcome
      BY DEF EvalInv
    <3>2. ~Decides(op, l)
      BY DEF Decides
    <3>3. \A o \in Outcome : Fails(o) => o.kind = "error"
      BY DEF Fails
    <3> QED BY <3>1, <3>2, <3>3, NotApplied
  <2>2. l \in Value /\ r \in Value /\ result = Apply(op, l, r)
    BY <2>1, Applied
  <2>3. Ints(l, r) /\ ~Unsigned(l, r) /\ r.n # 0
    <3>1. CASE op = "/"
      BY <2>2, <3>1, ApplyIs, DivideIs
    <3>2. CASE op = "%"
      BY <2>2, <3>2, ApplyIs, ModuloIs
    <3> QED BY <3>1, <3>2
  <2>4. divide(l, r) = AnInt(Quotient(l.n, r.n)) /\ modulo(l, r) = AnInt(Remainder(l.n, r.n))
    BY <2>2, <2>3, DivideIs, ModuloIs
  <2>5. l.n \in Int64 /\ r.n \in Int64
    BY <2>2, <2>3, IntsAre
  <2> QED BY <2>3, <2>4, <2>5, DivisionFits
<1> QED BY <1>1, EvalInvariant, PTL
-----------------------------------------------------------------------------
(* In a condition an undefined operand counts as nil, an error about it is *)
(* never the outcome, and a left operand that decides does so alone.       *)
THEOREM UndefinedCountsAsNil == Spec => []UndefinedIsNil
<1>1. EvalInv => UndefinedIsNil
  <2> SUFFICES ASSUME EvalInv, result # None
               PROVE  UndefinedIsNil
    BY DEF UndefinedIsNil
  <2>0. left \in Outcome /\ right \in Outcome
    BY DEF EvalInv
  <2>1. undefOk => result # Error("undefined")
    <3>1. \A x \in Computed : x # Error("undefined")
      BY DEF Computed, Truths, Whole, Failure, Result, Joined, Panic, Error
    <3>2. Bool(op = "or") \in Computed
      BY DEF Bool, Truths, Computed
    <3>3. CASE r = None
      BY <2>0, <3>1, <3>2, <3>3, NotApplied, Erring
    <3>4. CASE r # None
      BY <3>1, <3>4, Applied
    <3> QED BY <3>3, <3>4
  <2>2. ASSUME undefOk, left = Error("nil") PROVE Condition = Bool(FALSE)
    <3>1. Fails(left)
      BY <2>2 DEF Fails, Error
    <3>2. l = None /\ r = None /\ result = left
      BY <3>1 DEF EvalInv
    <3> QED BY <2>2, <3>2 DEF Condition, Error
  <2>3. ASSUME undefOk, left = Error("undefined"), op = "not" PROVE Condition = Bool(TRUE)
    <3>1. ~Fails(left) /\ ValueOf(left) = NoValue
      BY <2>3 DEF Fails, ValueOf, Error
    <3>2. right = NoValue
      BY <2>3 DEF EvalInv, Unary
    <3>3. ~Fails(right)
      BY <3>2 DEF Fails, NoValue
    <3>4. ~Decides(op, l)
      BY <2>3 DEF Decides
    <3>5. r # None
      BY <3>1, <3>3, <3>4, NotApplied
    <3>6. l = NoValue /\ result = Apply("not", l, r)
      BY <2>3, <3>1, <3>5, Applied DEF EvalInv
    <3>7. result = Bool(~isTrue(NoValue))
      BY <3>6, ApplyIs
    <3>8. result = Bool(TRUE)
      BY <3>7 DEF isTrue, NoValue, Bool
    <3> QED BY <3>8 DEF Condition, Bool, isTrue
  <2>4. ASSUME left \in Value PROVE ~Fails(left) /\ l = left
    <3>1. ~Fails(left) /\ ValueOf(left) = left
      BY <2>0, <2>4, OutcomeIs DEF Fails
    <3>2. l # None
      BY <3>1 DEF EvalInv
    <3> QED BY <3>1, <3>2 DEF EvalInv
  <2>5. ASSUME op = "or", left \in Value, isTrue(left) PROVE Holds
    <3>1. Decides(op, l) /\ l # None
      BY <2>4, <2>5, NoneAssumption DEF Decides
    <3> QED BY <2>5, <3>1 DEF EvalInv, Holds
  <2>6. ASSUME op = "and", left \in Value, ~isTrue(left) PROVE result = Bool(FALSE)
    <3>1. Decides(op, l) /\ l # None
      BY <2>4, <2>6, NoneAssumption DEF Decides
    <3>2. result = Bool(op = "or")
      BY <3>1 DEF EvalInv
    <3> QED BY <2>6, <3>2
  <2>7. ASSUME op = "or", Holds PROVE isTrue(ValueOf(left)) \/ isTrue(ValueOf(right))
    <3>1. result \in Truths
      BY <2>7 DEF Holds, Bool, Truths
    <3>2. CASE r = None
      <4>1. l = ValueOf(left) /\ Decides(op, l)
        BY <2>0, <3>1, <3>2, NotApplied, Erring
      <4> QED BY <2>7, <4>1 DEF Decides
    <3>3. CASE r # None
      <4>1. l = ValueOf(left) /\ r = ValueOf(right) /\ result = Bool(isTrue(l) \/ isTrue(r))
        BY <2>7, <3>3, ApplyIs DEF EvalInv
      <4> QED BY <2>7, <4>1 DEF Holds, Bool
    <3> QED BY <3>2, <3>3
  <2> QED BY <2>1, <2>2, <2>3, <2>4, <2>5, <2>6, <2>7 DEF UndefinedIsNil
<1> QED BY <1>1, EvalInvariant, PTL
=============================================================================
