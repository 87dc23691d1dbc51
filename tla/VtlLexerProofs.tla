--------------------------- MODULE VtlLexerProofs ---------------------------
(***************************************************************************)
(* What holds of the lexer's modes, of escapes and of lines, proved for    *)
(* sources of any length that begin in any way.                            *)
(*                                                                         *)
(* Whatever Lex does, it returns one token or changes the mode and goes    *)
(* on; there is a lemma for each mode that says which (Speaks, Changes),   *)
(* and each property follows from that.  That escapes are counted right    *)
(* from where a scan begins rests on where scans of text begin: never in   *)
(* the middle of an escape (Settled).                                      *)
(***************************************************************************)
EXTENDS VtlLexer, TLAPS, FiniteSetTheorems, WellFoundedInduction

Mode  == {"Dir", "Formal", "Ref", "Var", "String", "Expr"}
Said  == Char \cup {"EOF", "TEXT", "DIRECTIVE", "MACROCALL", "END", "IDENTIFIER", "OP",
                    "NUMBER", "STRING", "RANGE"}
Token == [token : Said, from : Nat, to : Nat, mode : Mode \cup {"Text"}, depth : Nat]

Shape ==
  /\ data \in Seq(Char) /\ pos \in Nat /\ prev \in Nat /\ line \in Nat /\ depth \in Nat
  /\ states \in Seq(Mode) /\ tokens \in Seq(Token)

LEMMA LeastExists ==
  ASSUME NEW S \in SUBSET Nat, S # {}
  PROVE  \E x \in S : \A y \in S : x <= y
<1>1. \E x \in S : \A y \in S : ~(<<y, x>> \in OpToRel(<, Nat))
  BY WFMin, NatLessThanWellFounded
<1>2. PICK x \in S : \A y \in S : ~(<<y, x>> \in OpToRel(<, Nat))
  BY <1>1
<1>3. ASSUME NEW y \in S PROVE x <= y
  <2>1. ~(y < x)
    BY <1>2, <1>3 DEF OpToRel
  <2> QED BY <2>1
<1> QED BY <1>3

LEMMA MinIs ==
  ASSUME NEW S \in SUBSET Nat, S # {}
  PROVE  Min(S) \in S /\ \A y \in S : Min(S) <= y
<1>1. \E x \in S : \A y \in S : x <= y
  BY LeastExists
<1> QED BY <1>1 DEF Min

LEMMA MinOfTwo ==
  ASSUME NEW a \in Nat, NEW b \in Nat
  PROVE  Min({a, b}) = IF a <= b THEN a ELSE b
<1>1. Min({a, b}) \in {a, b} /\ Min({a, b}) <= a /\ Min({a, b}) <= b
  BY MinIs
<1> QED BY <1>1
-----------------------------------------------------------------------------
(* Where the scanners stop.                                                *)
LEMMA AtIs ==
  ASSUME Shape, NEW k \in Nat \ {0}
  PROVE  /\ k <= Len(data) => At(k) = data[k] /\ At(k) \in Char
         /\ k > Len(data) => At(k) = "EOF"
<1>1. DOMAIN data = 1 .. Len(data) /\ Len(data) \in Nat
  BY DEF Shape
<1>2. k <= Len(data) => data[k] \in Char
  BY <1>1 DEF Shape
<1> QED BY <1>1, <1>2 DEF At

LEMMA LengthIs ==
  ASSUME Shape
  PROVE  Len(data) \in Nat /\ DOMAIN data = 1 .. Len(data) /\ At(Len(data) + 1) = "EOF"
<1>1. Len(data) \in Nat /\ DOMAIN data = 1 .. Len(data)
  BY DEF Shape
<1>2. Len(data) + 1 \notin DOMAIN data
  BY <1>1
<1> QED BY <1>1, <1>2 DEF At

LEMMA EndOfIs ==
  ASSUME Shape, NEW p \in 0 .. Len(data), NEW chars, "EOF" \notin chars
  PROVE  /\ EndOf(p, chars) \in p .. Len(data)
         /\ \A k \in p + 1 .. EndOf(p, chars) : data[k] \in chars
<1> DEFINE S == {q \in p .. Len(data) : At(q + 1) \notin chars}
           e == EndOf(p, chars)
<1>1. Len(data) \in Nat /\ p \in Nat /\ Len(data) \in S /\ S \in SUBSET Nat
  BY LengthIs
<1>2. e \in S /\ \A y \in S : e <= y
  BY <1>1, MinIs DEF EndOf
<1>3. ASSUME NEW k \in p + 1 .. e PROVE data[k] \in chars
  <2>1. k - 1 \in p .. Len(data) /\ ~(e <= k - 1) /\ (k - 1) + 1 = k /\ k \in Nat \ {0} /\ k <= Len(data)
    BY <1>1, <1>2
  <2>2. At(k) \in chars
    BY <1>2, <2>1
  <2> QED BY <2>1, <2>2, AtIs
<1> QED BY <1>2, <1>3

LEMMA IdentifierIs ==
  ASSUME Shape, NEW p \in 0 .. Len(data)
  PROVE  /\ ScanIdentifier(p) \in p .. Len(data)
         /\ \A k \in p + 1 .. ScanIdentifier(p) : data[k] \in Letters \cup {"1"}
<1>1. p \in Nat /\ Len(data) \in Nat
  BY LengthIs
<1>2. CASE At(p + 1) = "1"
  BY <1>1, <1>2 DEF ScanIdentifier
<1>3. CASE At(p + 1) # "1"
  <2>1. "EOF" \notin Letters \cup {"1"}
    BY DEF Letters
  <2>2. ScanIdentifier(p) = EndOf(p, Letters \cup {"1"})
    BY <1>3 DEF ScanIdentifier
  <2> QED BY <2>1, <2>2, EndOfIs
<1> QED BY <1>2, <1>3

LEMMA WhitespaceIs ==
  ASSUME Shape, NEW p \in 0 .. Len(data)
  PROVE  /\ SkipWhitespace(p) \in p .. Len(data)
         /\ \A k \in p + 1 .. SkipWhitespace(p) : data[k] \in Spaces
<1>1. "EOF" \notin Spaces
  BY DEF Spaces
<1> QED BY <1>1, EndOfIs DEF SkipWhitespace

LEMMA UntilIs ==
  ASSUME Shape, NEW p \in 0 .. Len(data), NEW char
  PROVE  /\ Until(p, char) \in p .. Len(data)
         /\ Until(p, char) < Len(data) => data[Until(p, char) + 1] = char
<1> DEFINE S == {q \in p .. Len(data) : At(q + 1) \in {char, "EOF"}}
           u == Until(p, char)
<1>1. Len(data) \in Nat /\ p \in Nat /\ Len(data) \in S /\ S \in SUBSET Nat
  BY LengthIs
<1>2. u \in S
  BY <1>1, MinIs DEF Until
<1>3. ASSUME u < Len(data) PROVE data[u + 1] = char
  <2>1. u + 1 \in Nat \ {0} /\ u + 1 <= Len(data)
    BY <1>1, <1>2, <1>3
  <2>2. At(u + 1) = data[u + 1] /\ At(u + 1) \in Char
    BY <2>1, AtIs
  <2>3. "EOF" \notin Char
    BY DEF Char, Letters, Spaces
  <2> QED BY <1>2, <2>2, <2>3
<1> QED BY <1>2, <1>3

LEMMA UntilStarIs ==
  ASSUME Shape, NEW p \in 0 .. Len(data)
  PROVE  /\ UntilStar(p) \in p .. Len(data)
         /\ UntilStar(p) + 2 <= Len(data) => data[UntilStar(p) + 2] = "#"
<1> DEFINE S == {q \in p .. Len(data) : At(q + 1) = "*" /\ At(q + 2) = "#"} \cup {Len(data)}
           u == UntilStar(p)
<1>1. Len(data) \in Nat /\ p \in Nat /\ Len(data) \in S /\ S \in SUBSET Nat
  BY LengthIs
<1>2. u \in S
  BY <1>1, MinIs DEF UntilStar
<1>3. ASSUME u + 2 <= Len(data) PROVE data[u + 2] = "#"
  <2>1. u + 2 \in Nat \ {0} /\ u # Len(data)
    BY <1>1, <1>2, <1>3
  <2>2. At(u + 2) = data[u + 2]
    BY <1>3, <2>1, AtIs
  <2> QED BY <1>2, <2>1, <2>2
<1> QED BY <1>1, <1>2, <1>3
-----------------------------------------------------------------------------
(* The backslashes before q, back to p at most; what is counted from a     *)
(* place with an even number before it is as even or odd as all of them.   *)
Run(p, q) == q - Min({r \in p .. q : \A k \in r + 1 .. q : data[k] = "b"})

LEMMA EscapesAre ==
  ASSUME NEW p, NEW q
  PROVE  Escapes(p, q) = Run(p, q) % 2
  BY DEF Escapes, Run

LEMMA RunIs ==
  ASSUME NEW p \in Nat, NEW q \in Nat, p <= q
  PROVE  /\ Run(p, q) \in 0 .. q - p
         /\ \A k \in q - Run(p, q) + 1 .. q : data[k] = "b"
         /\ \A r \in p .. q : (\A k \in r + 1 .. q : data[k] = "b") => q - Run(p, q) <= r
         /\ q - Run(p, q) > p => data[q - Run(p, q)] # "b"
<1> DEFINE S == {r \in p .. q : \A k \in r + 1 .. q : data[k] = "b"}
           m == Min(S)
<1>1. q \in S /\ S \in SUBSET Nat
  BY DEF S
<1>2. m \in S /\ \A r \in S : m <= r
  BY <1>1, MinIs
<1>3. Run(p, q) = q - m /\ m \in p .. q /\ q - Run(p, q) = m
  BY <1>2 DEF Run
<1>4. ASSUME m > p PROVE data[m] # "b"
  <2> SUFFICES ASSUME data[m] = "b" PROVE FALSE
    OBVIOUS
  <2>1. m - 1 \in p .. q /\ (m - 1) + 1 = m
    BY <1>3, <1>4
  <2>2. \A k \in m .. q : k = m \/ k \in m + 1 .. q
    BY <1>3
  <2>3. \A k \in m .. q : data[k] = "b"
    BY <1>2, <2>2
  <2>4. m - 1 \in S
    BY <2>1, <2>3
  <2>5. m <= m - 1 /\ m \in Int
    BY <1>2, <1>3, <2>4
  <2> HIDE DEF m
  <2> QED BY <2>5
<1>5. /\ \A k \in m + 1 .. q : data[k] = "b"
      /\ \A r \in p .. q : (\A k \in r + 1 .. q : data[k] = "b") => m <= r
  BY <1>2
<1> HIDE DEF m, S
<1>6. Run(p, q) \in 0 .. q - p
  BY <1>3
<1> QED BY <1>3, <1>4, <1>5, <1>6

LEMMA AllRunsAre ==
  ASSUME NEW q \in Nat
  PROVE  /\ Run(0, q) \in 0 .. q
         /\ \A k \in q - Run(0, q) + 1 .. q : data[k] = "b"
         /\ \A r \in 0 .. q : (\A k \in r + 1 .. q : data[k] = "b") => q - Run(0, q) <= r
         /\ q - Run(0, q) > 0 => data[q - Run(0, q)] # "b"
<1> DEFINE z == 0
<1>1. z \in Nat /\ z <= q
  OBVIOUS
<1> HIDE DEF z
<1>2. /\ Run(z, q) \in 0 .. q - z
      /\ \A k \in q - Run(z, q) + 1 .. q : data[k] = "b"
      /\ \A r \in z .. q : (\A k \in r + 1 .. q : data[k] = "b") => q - Run(z, q) <= r
      /\ q - Run(z, q) > z => data[q - Run(z, q)] # "b"
  BY <1>1, RunIs
<1> QED BY <1>2 DEF z

LEMMA RunsOn ==
  ASSUME NEW p \in Nat, NEW q \in Nat, p <= q, Run(0, p) % 2 = 0
  PROVE  Run(0, q) % 2 = Run(p, q) % 2
<1> DEFINE m == q - Run(p, q)
           n == q - Run(0, q)
           a == p - Run(0, p)
<1>1. /\ Run(p, q) \in 0 .. q - p /\ Run(0, q) \in 0 .. q /\ Run(0, p) \in 0 .. p
      /\ m \in p .. q /\ n \in 0 .. q /\ a \in 0 .. p
  <2>1. Run(p, q) \in 0 .. q - p
    BY RunIs
  <2>2. Run(0, q) \in 0 .. q /\ Run(0, p) \in 0 .. p
    BY AllRunsAre
  <2> QED BY <2>1, <2>2
<1>2. /\ \A k \in m + 1 .. q : data[k] = "b"
      /\ m > p => data[m] # "b"
  BY RunIs
<1>3. /\ \A k \in n + 1 .. q : data[k] = "b"
      /\ \A r \in 0 .. q : (\A k \in r + 1 .. q : data[k] = "b") => n <= r
  BY AllRunsAre
<1>4. /\ \A k \in a + 1 .. p : data[k] = "b"
      /\ a > 0 => data[a] # "b"
  BY AllRunsAre
<1> HIDE DEF m, n, a
<1>5. CASE m > p
  <2>1. m \in 0 .. q /\ n <= m
    BY <1>1, <1>2, <1>3
  <2>2. ~(n < m)
    <3> SUFFICES ASSUME n < m PROVE FALSE
      OBVIOUS
    <3>1. m \in n + 1 .. q
      BY <1>1
    <3> QED BY <1>2, <1>3, <1>5, <3>1
  <2>3. n = m
    BY <1>1, <2>1, <2>2
  <2> QED BY <1>1, <2>3 DEF m, n
<1>6. CASE m = p
  <2>1. \A k \in a + 1 .. q : k \in a + 1 .. p \/ k \in m + 1 .. q
    BY <1>1, <1>6
  <2>2. \A k \in a + 1 .. q : data[k] = "b"
    BY <1>2, <1>4, <2>1
  <2>3. a \in 0 .. q /\ n <= a
    BY <1>1, <1>3, <2>2
  <2>4. ~(n < a)
    <3> SUFFICES ASSUME n < a PROVE FALSE
      OBVIOUS
    <3>1. a \in n + 1 .. q /\ a > 0
      BY <1>1
    <3> QED BY <1>3, <1>4, <3>1
  <2>5. n = a
    BY <1>1, <2>3, <2>4
  <2>6. Run(0, q) = Run(p, q) + Run(0, p)
    BY <1>1, <1>6, <2>5 DEF m, n, a
  <2> QED BY <1>1, <2>6
<1> QED BY <1>1, <1>5, <1>6

(* Where a scan of text may begin.                                         *)
Settled(q) == q < Len(data) => Run(0, q) % 2 = 0

LEMMA PlainSettles ==
  ASSUME NEW q \in Nat, q > 0 => data[q] # "b"
  PROVE  Settled(q)
<1> DEFINE n == q - Run(0, q)
<1>1. Run(0, q) \in 0 .. q /\ n \in 0 .. q /\ \A k \in n + 1 .. q : data[k] = "b"
  BY AllRunsAre
<1>2. q = 0 \/ q \notin n + 1 .. q
  BY <1>1
<1>3. Run(0, q) = 0
  BY <1>1, <1>2
<1> QED BY <1>3 DEF Settled

LEMMA TextIs ==
  ASSUME Shape, NEW p \in 0 .. Len(data) - 1, Settled(p),
         NEW delim, "EOF" \notin delim, "b" \notin delim
  PROVE  LET t == ScanText(p, delim) IN
         /\ t \in p .. Len(data) /\ Settled(t)
         /\ t = p => At(p + 1) \in delim
         /\ \A k \in p + 1 .. t - 1 : data[k + 1] \in delim => Run(0, k) % 2 = 1
<1> DEFINE S == {r \in p .. Len(data) : At(r + 1) \in delim \cup {"EOF"}}
           q == Min(S)
           t == ScanText(p, delim)
<1>1. Len(data) \in Nat /\ p \in Nat /\ Len(data) \in S /\ S \in SUBSET Nat
  BY LengthIs
<1>2. q \in S /\ \A r \in S : q <= r
  BY <1>1, MinIs
<1>3. q \in p .. Len(data) /\ At(q + 1) \in delim \cup {"EOF"}
  BY <1>2
<1>4. t = IF q = Len(data) THEN q ELSE q + Escapes(p, q)
  BY DEF ScanText
<1>5. ASSUME NEW k \in p .. q - 1 PROVE data[k + 1] \notin delim
  <2>1. k \in p .. Len(data) /\ ~(q <= k) /\ k + 1 \in Nat \ {0} /\ k + 1 <= Len(data)
    BY <1>1, <1>3
  <2> QED BY <1>2, <2>1, AtIs
<1> HIDE DEF q, t
<1>6. CASE q = Len(data)
  <2>1. t = q /\ Settled(t) /\ t # p
    BY <1>1, <1>3, <1>4, <1>6 DEF Settled
  <2> QED BY <1>1, <1>3, <1>5, <2>1 DEF t
<1>7. CASE q # Len(data)
  <2>1. q + 1 \in Nat \ {0} /\ q + 1 <= Len(data) /\ q \in Nat /\ p <= q
    BY <1>1, <1>3, <1>7
  <2>2. At(q + 1) = data[q + 1] /\ data[q + 1] \in Char
    BY <2>1, AtIs
  <2>3. "EOF" \notin Char
    BY DEF Char, Letters, Spaces
  <2>4. At(q + 1) \in delim /\ data[q + 1] \in delim /\ data[q + 1] # "b"
    BY <1>3, <2>2, <2>3
  <2>5. Run(0, p) % 2 = 0
    BY <1>1 DEF Settled
  <2>6. Run(0, q) % 2 = Run(p, q) % 2 /\ Run(p, q) \in Nat
    <3>1. Run(0, q) % 2 = Run(p, q) % 2
      BY <1>1, <2>1, <2>5, RunsOn
    <3>2. Run(p, q) \in 0 .. q - p
      BY <1>1, <2>1, RunIs
    <3> QED BY <1>1, <2>1, <3>1, <3>2
  <2>7. t = q + (Run(p, q) % 2)
    BY <1>4, <1>7, EscapesAre
  <2>8. CASE Run(p, q) % 2 = 0
    <3>1. t = q /\ Settled(t)
      BY <2>1, <2>6, <2>7, <2>8 DEF Settled
    <3> QED BY <1>3, <1>5, <2>4, <3>1 DEF t
  <2>9. CASE Run(p, q) % 2 = 1
    <3>1. t = q + 1
      BY <2>7, <2>9
    <3>2. Settled(t) /\ t \in p .. Len(data) /\ t # p
      BY <1>1, <2>1, <2>4, <3>1, PlainSettles
    <3>3. \A k \in p + 1 .. t - 1 : k = q \/ k \in p .. q - 1
      BY <1>1, <2>1, <3>1
    <3> QED BY <1>5, <2>6, <2>9, <3>2, <3>3 DEF t
  <2> QED BY <2>6, <2>8, <2>9
<1> QED BY <1>6, <1>7
-----------------------------------------------------------------------------
(* Modes that are pushed and popped.                                       *)
Under(st)   == IF st = <<>> THEN "Text" ELSE st[Len(st)]
Places(st, m) == {k \in DOMAIN st : st[k] = m}
NestedIn(st) ==
  \A k \in DOMAIN st : (IF k = 1 THEN "Text" ELSE st[k - 1]) \in Beneath[st[k]]

LEMMA PlacesAreFinite ==
  ASSUME NEW V, NEW st \in Seq(V), NEW S \in SUBSET DOMAIN st
  PROVE  IsFiniteSet(S) /\ Cardinality(S) \in Nat
<1>1. DOMAIN st = 1 .. Len(st) /\ 1 \in Int /\ Len(st) \in Int
  OBVIOUS
<1>2. IsFiniteSet(DOMAIN st)
  BY <1>1, FS_Interval
<1> QED BY <1>2, FS_Subset, FS_CardinalityType

LEMMA PushOpens ==
  ASSUME NEW st \in Seq(Mode), NEW m \in Mode
  PROVE  /\ st \o <<m>> \in Seq(Mode) /\ Under(st \o <<m>>) = m
         /\ \A n : Cardinality(Places(st \o <<m>>, n)) =
                     Cardinality(Places(st, n)) + (IF n = m THEN 1 ELSE 0)
         /\ NestedIn(st) /\ Under(st) \in Beneath[m] => NestedIn(st \o <<m>>)
<1> DEFINE up == st \o <<m>>
           len == Len(st)
<1>1. /\ len \in Nat /\ up \in Seq(Mode) /\ Len(up) = len + 1
      /\ DOMAIN up = 1 .. len + 1 /\ DOMAIN st = 1 .. len
      /\ up[len + 1] = m /\ \A k \in 1 .. len : up[k] = st[k]
  OBVIOUS
<1> HIDE DEF up, len
<1>2. Under(up) = m
  BY <1>1 DEF Under
<1>3. ASSUME NEW n
      PROVE  Cardinality(Places(up, n)) = Cardinality(Places(st, n)) + (IF n = m THEN 1 ELSE 0)
  <2>1. Places(st, n) \in SUBSET DOMAIN st
    BY DEF Places
  <2>2. IsFiniteSet(Places(st, n)) /\ Cardinality(Places(st, n)) \in Nat
    BY <2>1, PlacesAreFinite
  <2>3. len + 1 \notin Places(st, n)
    BY <1>1 DEF Places
  <2>4. CASE n = m
    <3>1. Places(up, n) = Places(st, n) \cup {len + 1}
      BY <1>1, <2>4 DEF Places
    <3> QED BY <2>2, <2>3, <2>4, <3>1, FS_AddElement
  <2>5. CASE n # m
    <3>1. Places(up, n) = Places(st, n)
      BY <1>1, <2>5 DEF Places
    <3> QED BY <2>2, <2>5, <3>1
  <2> QED BY <2>4, <2>5
<1>4. ASSUME NestedIn(st), Under(st) \in Beneath[m] PROVE NestedIn(up)
  <2> SUFFICES ASSUME NEW k \in 1 .. len + 1
               PROVE  (IF k = 1 THEN "Text" ELSE up[k - 1]) \in Beneath[up[k]]
    BY <1>1 DEF NestedIn
  <2>1. CASE k = len + 1
    <3>1. up[k] = m
      BY <1>1, <2>1
    <3>2. CASE len = 0
      <4>1. Under(st) = "Text" /\ k = 1
        BY <1>1, <2>1, <3>2 DEF Under, len
      <4> QED BY <1>4, <3>1, <4>1
    <3>3. CASE len # 0
      <4>1. Under(st) = st[len] /\ k # 1 /\ up[k - 1] = st[len]
        BY <1>1, <2>1, <3>3 DEF Under, len
      <4> QED BY <1>4, <3>1, <4>1
    <3> QED BY <3>2, <3>3
  <2>2. CASE k \in 1 .. len
    <3>1. up[k] = st[k] /\ (k # 1 => up[k - 1] = st[k - 1])
      BY <1>1, <2>2
    <3> QED BY <1>1, <1>4, <2>2, <3>1 DEF NestedIn
  <2> QED BY <1>1, <2>1, <2>2
<1> QED BY <1>1, <1>2, <1>3, <1>4 DEF up

LEMMA PopCloses ==
  ASSUME NEW st \in Seq(Mode), st # <<>>, NestedIn(st)
  PROVE  /\ Front(st) \in Seq(Mode) /\ NestedIn(Front(st))
         /\ \A n : Cardinality(Places(Front(st), n)) =
                     Cardinality(Places(st, n)) - (IF n = Under(st) THEN 1 ELSE 0)
         /\ Under(st) \in Mode /\ Under(Front(st)) \in Beneath[Under(st)]
<1> DEFINE low == Front(st)
           m == Under(st)
           len == Len(st)
<1>1. /\ len \in Nat \ {0} /\ low \in Seq(Mode) /\ Len(low) = len - 1
      /\ DOMAIN low = 1 .. len - 1 /\ DOMAIN st = 1 .. len
      /\ st[len] = m /\ m \in Mode /\ \A k \in 1 .. len - 1 : low[k] = st[k]
  <2>1. len \in Nat \ {0} /\ DOMAIN st = 1 .. len /\ st[len] = m /\ st[len] \in Mode
    BY DEF Under
  <2>2. low = SubSeq(st, 1, len - 1)
    BY DEF Front
  <2> HIDE DEF low, m
  <2>3. /\ low \in Seq(Mode) /\ Len(low) = len - 1
        /\ \A k \in 1 .. len - 1 : low[k] = st[k]
    BY <2>1, <2>2
  <2> QED BY <2>1, <2>3
<1> HIDE DEF low, m, len
<1>2. NestedIn(low)
  <2> SUFFICES ASSUME NEW k \in 1 .. len - 1
               PROVE  (IF k = 1 THEN "Text" ELSE low[k - 1]) \in Beneath[low[k]]
    BY <1>1 DEF NestedIn
  <2>1. k \in 1 .. len /\ low[k] = st[k] /\ (k # 1 => low[k - 1] = st[k - 1])
    BY <1>1
  <2> QED BY <1>1, <2>1 DEF NestedIn
<1>3. ASSUME NEW n
      PROVE  Cardinality(Places(low, n)) = Cardinality(Places(st, n)) - (IF n = m THEN 1 ELSE 0)
  <2>1. Places(st, n) \in SUBSET DOMAIN st
    BY DEF Places
  <2>2. IsFiniteSet(Places(st, n)) /\ Cardinality(Places(st, n)) \in Nat
    BY <2>1, PlacesAreFinite
  <2>3. CASE n = m
    <3>1. Places(low, n) = Places(st, n) \ {len} /\ len \in Places(st, n)
      BY <1>1, <2>3 DEF Places
    <3> QED BY <2>2, <2>3, <3>1, FS_RemoveElement
  <2>4. CASE n # m
    <3>1. Places(low, n) = Places(st, n)
      BY <1>1, <2>4 DEF Places
    <3> QED BY <2>2, <2>4, <3>1
  <2> QED BY <2>3, <2>4
<1>4. Under(low) \in Beneath[m]
  <2>1. (IF len = 1 THEN "Text" ELSE st[len - 1]) \in Beneath[m]
    BY <1>1 DEF NestedIn
  <2>2. CASE len = 1
    <3>1. low = <<>>
      BY <1>1, <2>2
    <3> QED BY <2>1, <2>2, <3>1 DEF Under
  <2>3. CASE len # 1
    <3>1. low # <<>> /\ low[Len(low)] = st[len - 1]
      BY <1>1, <2>3
    <3> QED BY <2>1, <2>3, <3>1 DEF Under
  <2> QED BY <2>2, <2>3
<1> QED BY <1>1, <1>2, <1>3, <1>4 DEF low, m
-----------------------------------------------------------------------------
(* Tokens that are returned.                                               *)
Heard(t, names, modes) == {k \in DOMAIN t : t[k].token \in names /\ t[k].mode \in modes}

LEMMA OneMoreIsHeard ==
  ASSUME NEW t \in Seq(Token), NEW e \in Token, NEW names, NEW modes
  PROVE  /\ Append(t, e) \in Seq(Token)
         /\ Cardinality(Heard(Append(t, e), names, modes)) =
              Cardinality(Heard(t, names, modes))
                + (IF e.token \in names /\ e.mode \in modes THEN 1 ELSE 0)
<1> DEFINE u == Append(t, e)
           len == Len(t)
           in == e.token \in names /\ e.mode \in modes
<1>1. /\ len \in Nat /\ u \in Seq(Token) /\ DOMAIN u = 1 .. len + 1 /\ DOMAIN t = 1 .. len
      /\ u[len + 1] = e /\ \A k \in 1 .. len : u[k] = t[k]
  OBVIOUS
<1> HIDE DEF u, len
<1>2. Heard(t, names, modes) \in SUBSET DOMAIN t /\ len + 1 \notin Heard(t, names, modes)
  BY <1>1 DEF Heard
<1>3. IsFiniteSet(Heard(t, names, modes)) /\ Cardinality(Heard(t, names, modes)) \in Nat
  BY <1>2, PlacesAreFinite
<1>4. CASE in
  <2>1. Heard(u, names, modes) = Heard(t, names, modes) \cup {len + 1}
    BY <1>1, <1>4 DEF Heard
  <2> QED BY <1>1, <1>2, <1>3, <1>4, <2>1, FS_AddElement DEF u
<1>5. CASE ~in
  <2>1. Heard(u, names, modes) = Heard(t, names, modes)
    BY <1>1, <1>5 DEF Heard
  <2> QED BY <1>1, <1>3, <1>5, <2>1 DEF u
<1> QED BY <1>4, <1>5
-----------------------------------------------------------------------------
(* What a call of Lex does: it returns a token and with it opens or closes *)
(* what the token opens or closes, or it changes the mode and goes on, in  *)
(* the same place unless it has skipped a comment.                         *)
Starts(st, p) == Under(st) \notin {"Expr", "Formal"} => Settled(p)

LexInv == Shape /\ NestedIn(states) /\ Starts(states, pos)

Count(st, m) == Cardinality(Places(st, m))

Quote == "\""

LEMMA QuoteIs == Quote \in Char /\ Quote \notin {"(", ")", "b", "$", ".", "EOF", "TEXT"}
  BY ZenonT(30) DEF Quote, Char

Opens(token, mode, m) ==
  \/ m = "Expr"   /\ token = "(" /\ mode \in {"Dir", "Var", "Expr"}
  \/ m = "String" /\ token = Quote /\ mode = "Expr"

Closes(token, mode, m) ==
  \/ m = "Expr"   /\ token = ")" /\ mode = "Expr"
  \/ m = "String" /\ token = Quote /\ mode = "String"

Change(token, mode, m) ==
  (IF Opens(token, mode, m) THEN 1 ELSE 0) - (IF Closes(token, mode, m) THEN 1 ELSE 0)

Neutral(token, mode) ==
  \A m \in {"Expr", "String"} : ~Opens(token, mode, m) /\ ~Closes(token, mode, m)

EscapedIn(from, to) ==
  \A q \in from + 1 .. to - 1 : data[q + 1] \in {"$", Quote} => Run(0, q) % 2 = 1

Goes ==
  /\ data' = data /\ pos' \in Nat /\ pos <= pos' /\ pos < Len(data) /\ prev' = pos
  /\ states' \in Seq(Mode) /\ NestedIn(states') /\ Starts(states', pos')

Speaks(e) ==
  /\ Goes /\ pos' <= Len(data)
  /\ e \in Token /\ e.from = pos /\ e.to = pos' /\ e.mode = Under(states) /\ e.depth = depth + 1
  /\ tokens' = Append(tokens, e) /\ line' = Counted(pos, pos', depth + 1) /\ depth' = 0
  /\ \A m \in {"Expr", "String"} :
       Count(states', m) = Count(states, m) + Change(e.token, e.mode, m)
  /\ e.token = "TEXT" /\ e.mode = "String" => EscapedIn(e.from, e.to)

Changes ==
  /\ Goes /\ depth' \in Nat /\ UNCHANGED <<line, tokens>>
  /\ \A m \in {"Expr", "String"} : Count(states', m) = Count(states, m)
  /\ pos' = pos \/ (At(pos + 1) = "#" /\ At(pos + 2) = "*")

Turn == Changes \/ \E e : Speaks(e)

LEMMA StateIs == State = Under(states)
  BY DEF State, Under, Last

LEMMA UnderIs ==
  ASSUME Shape
  PROVE  Under(states) \in Mode \cup {"Text"}
<1>1. CASE states = <<>>
  BY <1>1 DEF Under
<1>2. CASE states # <<>>
  <2>1. Len(states) \in 1 .. Len(states) /\ states[Len(states)] \in Mode
    BY <1>2 DEF Shape
  <2> QED BY <1>2, <2>1 DEF Under
<1> QED BY <1>1, <1>2

LEMMA CountIs ==
  ASSUME NEW st \in Seq(Mode), NEW m
  PROVE  Count(st, m) \in Nat
<1>1. Places(st, m) \in SUBSET DOMAIN st
  BY DEF Places
<1> QED BY <1>1, PlacesAreFinite DEF Count

LEMMA ReturnSpeaks ==
  ASSUME LexInv, pos < Len(data), NEW token \in Said, NEW to \in Nat, pos <= to,
         Return(token, to), states' \in Seq(Mode), NestedIn(states'), Starts(states', to),
         \A m \in {"Expr", "String"} :
           Count(states', m) = Count(states, m) + Change(token, Under(states), m),
         token = "TEXT" /\ Under(states) = "String" => EscapedIn(pos, to)
  PROVE  Turn
<1> DEFINE end == Min({to, Len(data)})
           e == [token |-> token, from |-> pos, to |-> end, mode |-> Under(states),
                 depth |-> depth + 1]
<1>1. Len(data) \in Nat /\ pos \in Nat /\ depth \in Nat
  BY LengthIs DEF LexInv, Shape
<1>2. end = IF to <= Len(data) THEN to ELSE Len(data)
  BY <1>1, MinOfTwo
<1>3. /\ pos' = end /\ prev' = pos /\ line' = Counted(pos, end, depth + 1) /\ depth' = 0
      /\ tokens' = Append(tokens, e) /\ data' = data
  BY StateIs DEF Return
<1> HIDE DEF end
<1>4. end \in Nat /\ pos <= end /\ end <= Len(data) /\ end <= to
  BY <1>1, <1>2
<1>5. e \in Token
  BY <1>1, <1>4, UnderIs DEF Token, LexInv
<1>6. Starts(states', pos')
  <2>1. CASE to <= Len(data)
    BY <1>2, <1>3, <2>1
  <2>2. CASE ~(to <= Len(data))
    <3>1. pos' = Len(data)
      BY <1>2, <1>3, <2>2
    <3>2. Settled(pos')
      BY <1>1, <3>1 DEF Settled
    <3> QED BY <3>2 DEF Starts
  <2> QED BY <2>1, <2>2
<1>7. Goes
  BY <1>3, <1>4, <1>6 DEF Goes
<1>8. EscapedIn(pos, to) => EscapedIn(pos, end)
  <2>1. \A q \in pos + 1 .. end - 1 : q \in pos + 1 .. to - 1
    BY <1>1, <1>4
  <2> QED BY <2>1 DEF EscapedIn
<1>9. /\ e.token = token /\ e.from = pos /\ e.to = end /\ e.mode = Under(states)
      /\ e.depth = depth + 1
  OBVIOUS
<1> HIDE DEF e
<1>10. Speaks(e)
  BY <1>3, <1>4, <1>5, <1>7, <1>8, <1>9 DEF Speaks
<1> QED BY <1>10 DEF Turn

(* It returns a token in the mode it is in, in a new one, or when it       *)
(* leaves one.                                                             *)
LEMMA StaySpeaks ==
  ASSUME LexInv, pos < Len(data), NEW token \in Said, NEW to \in Nat, pos <= to,
         Stay, Return(token, to), Starts(states, to),
         Neutral(token, Under(states)),
         token = "TEXT" /\ Under(states) = "String" => EscapedIn(pos, to)
  PROVE  Turn
<1>1. states' = states /\ states \in Seq(Mode) /\ NestedIn(states)
  BY DEF Stay, LexInv, Shape
<1>2. \A m : Count(states, m) \in Nat
  BY <1>1, CountIs
<1>3. \A m \in {"Expr", "String"} :
        Count(states', m) = Count(states, m) + Change(token, Under(states), m)
  BY <1>1, <1>2 DEF Neutral, Change
<1> QED BY <1>1, <1>3, ReturnSpeaks

LEMMA PushSpeaks ==
  ASSUME LexInv, pos < Len(data), NEW token \in Said \ {"TEXT"}, NEW to \in Nat, pos <= to,
         NEW new \in Mode, Under(states) \in Beneath[new],
         Push(<<new>>), Return(token, to), new \notin {"Expr", "Formal"} => Settled(to),
         \A m \in {"Expr", "String"} :
           (Opens(token, Under(states), m) <=> m = new) /\ ~Closes(token, Under(states), m)
  PROVE  Turn
<1>1. states' = states \o <<new>> /\ states \in Seq(Mode) /\ NestedIn(states)
  BY DEF Push, LexInv, Shape
<1>2. /\ states' \in Seq(Mode) /\ NestedIn(states') /\ Under(states') = new
      /\ \A m : Count(states', m) = Count(states, m) + (IF m = new THEN 1 ELSE 0)
  BY <1>1, PushOpens DEF Count
<1>3. Starts(states', to)
  BY <1>2 DEF Starts
<1>4. \A m : Count(states, m) \in Nat
  BY <1>1, CountIs
<1>5. \A m \in {"Expr", "String"} :
        Count(states', m) = Count(states, m) + Change(token, Under(states), m)
  BY <1>2, <1>4 DEF Change
<1> QED BY <1>2, <1>3, <1>5, ReturnSpeaks

LEMMA PopSpeaks ==
  ASSUME LexInv, pos < Len(data), NEW token \in Said \ {"TEXT"}, NEW to \in Nat, pos <= to,
         states # <<>>, Pop, Return(token, to), Settled(to),
         \A m \in {"Expr", "String"} :
           /\ Closes(token, Under(states), m) <=> m = Under(states)
           /\ ~Opens(token, Under(states), m)
  PROVE  Turn
<1>1. states' = Front(states) /\ states \in Seq(Mode) /\ NestedIn(states)
  BY DEF Pop, LexInv, Shape
<1>2. /\ states' \in Seq(Mode) /\ NestedIn(states')
      /\ \A m : Count(states', m) = Count(states, m) - (IF m = Under(states) THEN 1 ELSE 0)
  BY <1>1, PopCloses DEF Count
<1>3. Starts(states', to)
  BY DEF Starts
<1>4. \A m : Count(states, m) \in Nat
  BY <1>1, CountIs
<1>5. \A m \in {"Expr", "String"} :
        Count(states', m) = Count(states, m) + Change(token, Under(states), m)
  BY <1>2, <1>4 DEF Change
<1> QED BY <1>2, <1>3, <1>5, ReturnSpeaks

(* Or it goes on.                                                          *)
LEMMA AgainChanges ==
  ASSUME LexInv, pos < Len(data), NEW to \in Nat, pos <= to, Again(to),
         to = pos \/ (At(pos + 1) = "#" /\ At(pos + 2) = "*"),
         states' \in Seq(Mode), NestedIn(states'), Starts(states', to),
         \A m \in {"Expr", "String"} : Count(states', m) = Count(states, m)
  PROVE  Turn
<1>1. depth \in Nat /\ MaxCalls \in Nat
  BY SourceAssumption DEF LexInv, Shape
<1>2. Min({depth + 1, MaxCalls}) \in Nat
  BY <1>1, MinOfTwo
<1>3. Goes
  BY DEF Goes, Again
<1> QED BY <1>2, <1>3 DEF Turn, Changes, Again

LEMMA PopChanges ==
  ASSUME LexInv, pos < Len(data), Again(pos), Pop, Under(states) \in {"Dir", "Ref", "Var"}
  PROVE  Turn
<1>1. states' = Front(states) /\ states \in Seq(Mode) /\ NestedIn(states) /\ states # <<>>
  BY DEF Pop, LexInv, Shape, Under
<1>2. /\ states' \in Seq(Mode) /\ NestedIn(states')
      /\ \A m : Count(states', m) = Count(states, m) - (IF m = Under(states) THEN 1 ELSE 0)
  BY <1>1, PopCloses DEF Count
<1>3. Starts(states', pos) /\ pos \in Nat
  BY DEF Starts, LexInv, Shape
<1>4. \A m : Count(states, m) \in Nat
  BY <1>1, CountIs
<1>5. \A m \in {"Expr", "String"} : Count(states', m) = Count(states, m)
  BY <1>2, <1>4
<1> QED BY <1>2, <1>3, <1>5, AgainChanges
-----------------------------------------------------------------------------
(* What Lex does in each of the modes.                                     *)
LEMMA CharIsSaid == \A c \in Char : c \in Said /\ c # "TEXT" /\ c # "EOF"
<1>1. "TEXT" \notin Char /\ "EOF" \notin Char
  BY DEF Char, Letters, Spaces
<1> QED BY <1>1 DEF Said

LEMMA InIs ==
  ASSUME LexInv, NEW s, In(s)
  PROVE  /\ Under(states) = s /\ pos \in Nat /\ Len(data) \in Nat /\ pos < Len(data)
         /\ pos \in 0 .. Len(data) - 1 /\ pos + 1 \in 0 .. Len(data)
         /\ Peek(0) = data[pos + 1] /\ Peek(0) = At(pos + 1) /\ Peek(0) \in Char
         /\ Peek(1) = At(pos + 2) /\ Shape
         /\ pos + 1 \in Nat /\ pos <= pos + 1 /\ (s # "Text" => states # <<>>)
<1>1. Under(states) = s /\ pos < Len(data)
  BY StateIs DEF In
<1>2. pos \in Nat /\ Len(data) \in Nat /\ Shape
  BY LengthIs DEF LexInv, Shape
<1>3. Peek(0) = At(pos + 1) /\ Peek(1) = At(pos + 2)
  <2>1. pos + 1 + 0 = pos + 1 /\ pos + 1 + 1 = pos + 2
    BY <1>2
  <2> QED BY <2>1 DEF Peek
<1>4. pos + 1 \in Nat \ {0} /\ pos + 1 <= Len(data)
  BY <1>1, <1>2
<1>5. At(pos + 1) = data[pos + 1] /\ At(pos + 1) \in Char
  BY <1>2, <1>4, AtIs
<1>6. s # "Text" => states # <<>>
  BY <1>1 DEF Under
<1> QED BY <1>1, <1>2, <1>3, <1>4, <1>5, <1>6

LEMMA NextIsSettled ==
  ASSUME LexInv, NEW s, In(s), Peek(0) # "b"
  PROVE  Settled(pos + 1)
<1>1. pos + 1 \in Nat /\ data[pos + 1] # "b"
  BY InIs
<1> QED BY <1>1, PlainSettles

LEMMA DirTurns ==
  ASSUME LexInv, Dir
  PROVE  Turn
<1>1. In("Dir")
  BY DEF Dir
<1>2. /\ Under(states) = "Dir" /\ pos \in Nat /\ pos < Len(data)
  BY <1>1, InIs
<1>3. CASE Peek(0) = "("
  <2>1. Push(<<"Expr">>) /\ Return("(", pos + 1)
    BY <1>3 DEF Dir
  <2>2. "Expr" \in Mode /\ Under(states) \in Beneath["Expr"] /\ "(" \in Said \ {"TEXT"}
    BY <1>2 DEF Mode, Beneath, Said, Char
  <2>3. \A m \in {"Expr", "String"} :
          (Opens("(", Under(states), m) <=> m = "Expr") /\ ~Closes("(", Under(states), m)
    BY <1>2 DEF Opens, Closes
  <2>4. pos + 1 \in Nat /\ pos <= pos + 1
    BY <1>2
  <2> QED BY <1>2, <2>1, <2>2, <2>3, <2>4, PushSpeaks
<1>4. CASE Peek(0) # "("
  <2>1. Pop /\ Again(pos)
    BY <1>4 DEF Dir
  <2> QED BY <1>2, <2>1, PopChanges
<1> QED BY <1>3, <1>4

LEMMA FormalTurns ==
  ASSUME LexInv, Formal
  PROVE  Turn
<1>1. In("Formal") /\ Return(Peek(0), pos + 1)
  BY DEF Formal
<1>2. /\ Under(states) = "Formal" /\ pos \in Nat /\ pos < Len(data) /\ states # <<>>
      /\ Peek(0) \in Char /\ pos + 1 \in Nat /\ pos <= pos + 1
  BY <1>1, InIs
<1>3. Peek(0) \in Said \ {"TEXT"}
  BY <1>2, CharIsSaid
<1>4. \A token : Neutral(token, Under(states))
  BY <1>2 DEF Neutral, Opens, Closes
<1>5. CASE Peek(0) = "}"
  <2>1. Pop
    BY <1>5 DEF Formal
  <2>2. Settled(pos + 1)
    BY <1>1, <1>5, NextIsSettled
  <2>3. \A m \in {"Expr", "String"} :
          /\ Closes(Peek(0), Under(states), m) <=> m = Under(states)
          /\ ~Opens(Peek(0), Under(states), m)
    BY <1>2, <1>4 DEF Neutral
  <2> QED BY <1>1, <1>2, <1>3, <2>1, <2>2, <2>3, PopSpeaks
<1>6. CASE Peek(0) # "}"
  <2>1. Stay
    BY <1>6 DEF Formal
  <2>2. Starts(states, pos + 1)
    BY <1>2 DEF Starts
  <2> QED BY <1>1, <1>2, <1>3, <1>4, <2>1, <2>2, StaySpeaks
<1> QED BY <1>5, <1>6

LEMMA RefTurns ==
  ASSUME LexInv, Ref
  PROVE  Turn
<1>1. In("Ref")
  BY DEF Ref
<1>2. /\ Under(states) = "Ref" /\ pos \in Nat /\ pos < Len(data) /\ Peek(0) \in Char
      /\ pos + 1 \in Nat /\ pos <= pos + 1
  BY <1>1, InIs
<1>3. CASE Peek(0) \in {"$", "!", "{"}
  <2>1. Stay /\ Return(Peek(0), pos + 1)
    BY <1>3 DEF Ref
  <2>2. Peek(0) \in Said /\ Peek(0) # "TEXT"
    BY <1>2, CharIsSaid
  <2>3. Neutral(Peek(0), Under(states))
    BY <1>2 DEF Neutral, Opens, Closes
  <2>4. Starts(states, pos + 1)
    BY <1>1, <1>3, NextIsSettled DEF Starts
  <2> QED BY <1>2, <2>1, <2>2, <2>3, <2>4, StaySpeaks
<1>4. CASE Peek(0) \notin {"$", "!", "{"} /\ Peek(0) \in Letters
  <2>1. states' = states \o <<"Var">> /\ Again(pos)
    BY <1>4 DEF Ref, Push
  <2>2. states \in Seq(Mode) /\ "Var" \in Mode /\ NestedIn(states)
        /\ Under(states) \in Beneath["Var"]
    BY <1>2 DEF LexInv, Shape, Mode, Beneath
  <2>3. /\ states' \in Seq(Mode) /\ NestedIn(states') /\ Under(states') = "Var"
        /\ \A m : Count(states', m) = Count(states, m) + (IF m = "Var" THEN 1 ELSE 0)
    BY <2>1, <2>2, PushOpens DEF Count
  <2>4. \A m : Count(states, m) \in Nat
    BY <2>2, CountIs
  <2>5. \A m \in {"Expr", "String"} : Count(states', m) = Count(states, m)
    BY <2>3, <2>4
  <2>6. Starts(states', pos)
    BY <1>2, <2>3 DEF Starts, LexInv
  <2> QED BY <1>2, <2>1, <2>3, <2>5, <2>6, AgainChanges
<1>5. CASE Peek(0) \notin {"$", "!", "{"} /\ Peek(0) \notin Letters
  <2>1. Pop /\ Again(pos)
    BY <1>5 DEF Ref
  <2> QED BY <1>2, <2>1, PopChanges
<1> QED BY <1>3, <1>4, <1>5

LEMMA VarTurns ==
  ASSUME LexInv, Var
  PROVE  Turn
<1>1. In("Var")
  BY DEF Var
<1>2. /\ Under(states) = "Var" /\ pos \in Nat /\ pos < Len(data) /\ Peek(0) \in Char
      /\ pos + 1 \in Nat /\ pos <= pos + 1 /\ states # <<>> /\ Shape /\ pos \in 0 .. Len(data)
      /\ Peek(0) = At(pos + 1)
  BY <1>1, InIs
<1>3. \A token : token # "(" => Neutral(token, Under(states))
  BY <1>2 DEF Neutral, Opens, Closes
<1>4. CASE Peek(0) = "("
  <2>1. Push(<<"Expr">>) /\ Return("(", pos + 1)
    BY <1>4 DEF Var, Letters
  <2>2. "Expr" \in Mode /\ Under(states) \in Beneath["Expr"] /\ "(" \in Said \ {"TEXT"}
    BY <1>2 DEF Mode, Beneath, Said, Char
  <2>3. \A m \in {"Expr", "String"} :
          (Opens("(", Under(states), m) <=> m = "Expr") /\ ~Closes("(", Under(states), m)
    BY <1>2 DEF Opens, Closes
  <2> QED BY <1>2, <2>1, <2>2, <2>3, PushSpeaks
<1>5. CASE Peek(0) = "." /\ Peek(1) \in Letters
  <2>1. Stay /\ Return(".", pos + 1)
    BY <1>5 DEF Var, Letters
  <2>2. "." \in Said /\ Starts(states, pos + 1)
    BY <1>1, <1>2, <1>5, NextIsSettled, CharIsSaid DEF Starts
  <2> QED BY <1>2, <1>3, <2>1, <2>2, StaySpeaks
<1>6. CASE Peek(0) = "." /\ Peek(1) \notin Letters
  <2>1. Pop /\ Again(pos)
    BY <1>6 DEF Var, Letters
  <2> QED BY <1>2, <2>1, PopChanges
<1>7. CASE Peek(0) \in Letters
  <2> DEFINE e == ScanIdentifier(pos)
  <2>1. Stay /\ Return("IDENTIFIER", e)
    BY <1>7 DEF Var, Letters
  <2>2. e \in pos .. Len(data) /\ \A k \in pos + 1 .. e : data[k] \in Letters \cup {"1"}
    BY <1>2, IdentifierIs
  <2> HIDE DEF e
  <2>3. e \in Nat /\ pos <= e
    BY <1>2, <2>2
  <2>4. Settled(e)
    <3>1. CASE e = pos
      BY <1>2, <3>1 DEF LexInv, Starts
    <3>2. CASE e # pos
      <4>1. e \in pos + 1 .. e
        BY <1>2, <2>3, <3>2
      <4>2. data[e] # "b"
        BY <2>2, <4>1 DEF Letters
      <4> QED BY <2>3, <4>2, PlainSettles
    <3> QED BY <3>1, <3>2
  <2>5. "IDENTIFIER" \in Said /\ Starts(states, e)
    BY <2>4 DEF Said, Starts
  <2> QED BY <1>2, <1>3, <2>1, <2>3, <2>5, StaySpeaks
<1>8. CASE Peek(0) \notin {"(", "."} \cup Letters
  <2> DEFINE below == Front(states)
  <2>1. /\ states' = IF below # <<>> /\ Last(below) = "Ref" THEN Front(below) ELSE below
        /\ Again(pos)
    BY <1>8 DEF Var
  <2>2. states \in Seq(Mode) /\ NestedIn(states)
    BY DEF LexInv, Shape
  <2>3. /\ below \in Seq(Mode) /\ NestedIn(below)
        /\ \A m : Count(below, m) = Count(states, m) - (IF m = "Var" THEN 1 ELSE 0)
    BY <1>2, <2>2, PopCloses DEF Count
  <2>4. \A m : Count(states, m) \in Nat /\ Count(below, m) \in Nat
    BY <2>2, <2>3, CountIs
  <2> HIDE DEF below
  <2>5. Starts(states', pos)
    BY <1>2 DEF LexInv, Starts
  <2>6. \A m \in {"Expr", "String"} : Count(below, m) = Count(states, m)
    BY <2>3, <2>4
  <2>7. CASE below # <<>> /\ Last(below) = "Ref"
    <3>1. Under(below) = "Ref" /\ states' = Front(below)
      BY <2>1, <2>7 DEF Under, Last
    <3>2. /\ states' \in Seq(Mode) /\ NestedIn(states')
          /\ \A m : Count(states', m) = Count(below, m) - (IF m = "Ref" THEN 1 ELSE 0)
      BY <2>3, <2>7, <3>1, PopCloses DEF Count
    <3>3. \A m \in {"Expr", "String"} : Count(states', m) = Count(states, m)
      BY <2>4, <2>6, <3>2
    <3> QED BY <1>2, <2>1, <2>5, <3>2, <3>3, AgainChanges
  <2>8. CASE ~(below # <<>> /\ Last(below) = "Ref")
    <3>1. states' = below
      BY <2>1, <2>8
    <3> QED BY <1>2, <2>1, <2>3, <2>5, <2>6, <3>1, AgainChanges
  <2> QED BY <2>7, <2>8
<1> QED BY <1>4, <1>5, <1>6, <1>7, <1>8

(* A reference is pushed with the braces around it, if there are any.      *)
LEMMA ReferencePushes ==
  ASSUME LexInv, Under(states) \in {"Text", "String"}, Push(ReferenceModes)
  PROVE  /\ states' \in Seq(Mode) /\ NestedIn(states') /\ Under(states') = "Ref"
         /\ \A m \in {"Expr", "String"} : Count(states', m) = Count(states, m)
<1>1. states \in Seq(Mode) /\ NestedIn(states) /\ {"Formal", "Ref"} \subseteq Mode
  BY DEF LexInv, Shape, Mode
<1>2. \A m : Count(states, m) \in Nat
  BY <1>1, CountIs
<1>3. CASE ReferenceModes = <<"Ref">>
  <2>1. states' = states \o <<"Ref">> /\ Under(states) \in Beneath["Ref"]
    BY <1>3 DEF Push, Beneath
  <2>2. /\ states' \in Seq(Mode) /\ NestedIn(states') /\ Under(states') = "Ref"
        /\ \A m : Count(states', m) = Count(states, m) + (IF m = "Ref" THEN 1 ELSE 0)
    BY <1>1, <2>1, PushOpens DEF Count
  <2> QED BY <1>2, <2>2
<1>4. CASE ReferenceModes = <<"Formal", "Ref">>
  <2> DEFINE up == states \o <<"Formal">>
  <2>1. Under(states) \in Beneath["Formal"] /\ "Formal" \in Beneath["Ref"]
    BY DEF Beneath
  <2>2. /\ up \in Seq(Mode) /\ NestedIn(up) /\ Under(up) = "Formal"
        /\ \A m : Count(up, m) = Count(states, m) + (IF m = "Formal" THEN 1 ELSE 0)
    BY <1>1, <2>1, PushOpens DEF Count
  <2>3. states' = up \o <<"Ref">>
    <3>1. states' = states \o <<"Formal", "Ref">>
      BY <1>4 DEF Push
    <3>2. states \o <<"Formal", "Ref">> = (states \o <<"Formal">>) \o <<"Ref">>
      BY <1>1
    <3> QED BY <3>1, <3>2
  <2> HIDE DEF up
  <2>4. \A m : Count(up, m) \in Nat
    BY <2>2, CountIs
  <2>5. /\ states' \in Seq(Mode) /\ NestedIn(states') /\ Under(states') = "Ref"
        /\ \A m : Count(states', m) = Count(up, m) + (IF m = "Ref" THEN 1 ELSE 0)
    BY <1>1, <2>1, <2>2, <2>3, PushOpens DEF Count
  <2> QED BY <1>2, <2>2, <2>4, <2>5
<1> QED BY <1>3, <1>4 DEF ReferenceModes

ScansString ==
  LET t == ScanText(pos, {"$", Quote}) IN
  /\ In("String")
  /\ IF t > pos THEN Stay /\ Return("TEXT", t)
     ELSE IF Peek(0) = Quote THEN Pop /\ Return(Quote, pos + 1)
     ELSE IF IsReference THEN Push(ReferenceModes) /\ Return("$", pos + 1)
     ELSE Stay /\ Return("TEXT", pos + 1)

LEMMA StringIs == String => ScansString
  BY DEF String, ScansString, Quote

LEMMA StringTurns ==
  ASSUME LexInv, ScansString
  PROVE  Turn
<1>1. In("String")
  BY DEF ScansString
<1>2. /\ Under(states) = "String" /\ pos \in Nat /\ pos < Len(data) /\ Peek(0) \in Char
      /\ pos + 1 \in Nat /\ pos <= pos + 1 /\ states # <<>> /\ Shape
      /\ pos \in 0 .. Len(data) - 1 /\ Peek(0) = At(pos + 1)
  BY <1>1, InIs
<1> DEFINE delim == {"$", Quote}
           t == ScanText(pos, delim)
<1>3. /\ t \in pos .. Len(data) /\ Settled(t)
      /\ t = pos => Peek(0) \in delim
      /\ EscapedIn(pos, t)
  <2>1. Settled(pos)
    BY <1>2 DEF LexInv, Starts
  <2>2. "EOF" \notin delim /\ "b" \notin delim
    BY QuoteIs
  <2> HIDE DEF delim
  <2>3. /\ t \in pos .. Len(data) /\ Settled(t)
        /\ t = pos => At(pos + 1) \in delim
        /\ \A k \in pos + 1 .. t - 1 : data[k + 1] \in delim => Run(0, k) % 2 = 1
    BY <1>2, <2>1, <2>2, TextIs
  <2> HIDE DEF t
  <2> QED BY <1>2, <2>3 DEF EscapedIn, delim
<1>4. Neutral("TEXT", Under(states)) /\ Neutral("$", Under(states))
  BY <1>2, QuoteIs DEF Neutral, Opens, Closes
<1> HIDE DEF t
<1>5. CASE t > pos
  <2>1. Stay /\ Return("TEXT", t)
    BY <1>5 DEF ScansString, t
  <2>2. "TEXT" \in Said /\ t \in Nat /\ pos <= t /\ Starts(states, t)
    BY <1>2, <1>3 DEF Said, Starts
  <2> QED BY <1>2, <1>3, <1>4, <2>1, <2>2, StaySpeaks
<1>6. CASE ~(t > pos)
  <2>1. Peek(0) \in delim /\ Settled(pos + 1)
    <3>1. t = pos
      BY <1>2, <1>3, <1>6
    <3>2. Peek(0) # "b"
      BY <1>3, <3>1, QuoteIs
    <3> QED BY <1>1, <1>3, <3>1, <3>2, NextIsSettled
  <2>2. CASE Peek(0) = Quote
    <3>1. Pop /\ Return(Quote, pos + 1)
      BY <1>6, <2>2 DEF ScansString, t
    <3>2. Quote \in Said \ {"TEXT"}
      BY <1>2, <2>2, CharIsSaid
    <3>3. \A m \in {"Expr", "String"} :
            (Closes(Quote, Under(states), m) <=> m = Under(states)) /\ ~Opens(Quote, Under(states), m)
      BY <1>2 DEF Opens, Closes
    <3> QED BY <1>2, <2>1, <3>1, <3>2, <3>3, PopSpeaks
  <2>3. CASE Peek(0) # Quote /\ IsReference
    <3>1. Push(ReferenceModes) /\ Return("$", pos + 1)
      BY <1>6, <2>3 DEF ScansString, t
    <3>2. /\ states' \in Seq(Mode) /\ NestedIn(states')
          /\ \A m \in {"Expr", "String"} : Count(states', m) = Count(states, m)
      BY <1>2, <3>1, ReferencePushes
    <3>3. Starts(states', pos + 1)
      BY <2>1 DEF Starts
    <3>4. "$" \in Said
      BY <2>1, <2>3, <1>2, CharIsSaid
    <3>5. \A m : Count(states, m) \in Nat
      BY CountIs DEF LexInv, Shape
    <3>6. \A m \in {"Expr", "String"} :
            Count(states', m) = Count(states, m) + Change("$", Under(states), m)
      BY <1>4, <3>2, <3>5 DEF Neutral, Change
    <3> QED BY <1>2, <3>1, <3>2, <3>3, <3>4, <3>6, ReturnSpeaks
  <2>4. CASE Peek(0) # Quote /\ ~IsReference
    <3>1. Stay /\ Return("TEXT", pos + 1)
      BY <1>6, <2>4 DEF ScansString, t
    <3>2. EscapedIn(pos, pos + 1)
      <4>1. (pos + 1) - 1 = pos /\ pos + 1 .. pos = {}
        BY <1>2
      <4> QED BY <4>1 DEF EscapedIn
    <3>3. "TEXT" \in Said /\ Starts(states, pos + 1)
      BY <2>1 DEF Said, Starts
    <3> QED BY <1>2, <1>4, <3>1, <3>2, <3>3, StaySpeaks
  <2> QED BY <2>2, <2>3, <2>4
<1> QED BY <1>5, <1>6

LEMMA ExprModeIs ==
  ASSUME NEW c, ExprMode(c)
  PROVE  /\ c = "(" => Push(<<"Expr">>)
         /\ c = ")" => Pop
         /\ c = Quote => Push(<<"String">>)
         /\ c = "$" => Push(<<"Var">>)
         /\ c \notin {"(", ")", Quote, "$"} => Stay
  BY ZenonT(30) DEF ExprMode, Quote

LEMMA ExprIs ==
  ASSUME Expr
  PROVE  LET p == SkipWhitespace(pos)
             c == At(p + 1)
         IN /\ In("Expr") /\ ExprMode(c)
            /\ c \in Letters =>
                 LET e == ScanIdentifier(p) IN Return(WordToken(p, e), e)
            /\ c = "1" => Return("NUMBER", NumberEnd(p))
            /\ c = "'" => Return("STRING", Until(p + 1, "'") + 1)
            /\ c = "." /\ At(p + 2) = "." => Return("RANGE", p + 2)
            /\ c \in {"=", "!"} => Return("OP", p + 1)
            /\ c \notin Letters \cup {"1", "'", "=", "!"} /\ ~(c = "." /\ At(p + 2) = ".") =>
                 Return(c, p + 1)
  BY DEF Expr, Letters

LEMMA NumberEndIs ==
  ASSUME Shape, NEW p \in 0 .. Len(data)
  PROVE  NumberEnd(p) \in p .. Len(data)
<1> DEFINE e == ScanInt(p)
<1>1. p \in Nat /\ Len(data) \in Nat /\ "EOF" \notin {"1"}
  BY LengthIs
<1>2. e \in p .. Len(data)
  BY <1>1, EndOfIs DEF ScanInt
<1> HIDE DEF e
<1>3. CASE At(e + 1) = "." /\ At(e + 2) # "."
  <2>1. e + 1 \in 0 .. Len(data)
    <3>1. e + 1 \in Nat \ {0}
      BY <1>1, <1>2
    <3>2. ~(e + 1 > Len(data))
      BY <1>3, <3>1, AtIs
    <3> QED BY <1>1, <3>1, <3>2
  <2>2. ScanInt(e + 1) \in e + 1 .. Len(data)
    BY <1>1, <2>1, EndOfIs DEF ScanInt
  <2>3. NumberEnd(p) = ScanInt(e + 1)
    BY <1>3 DEF NumberEnd, e
  <2> QED BY <1>1, <1>2, <2>2, <2>3
<1>4. CASE ~(At(e + 1) = "." /\ At(e + 2) # ".")
  <2>1. NumberEnd(p) = e
    BY <1>4 DEF NumberEnd, e
  <2> QED BY <1>2, <2>1
<1> QED BY <1>3, <1>4

(* A token of an expression that is no bracket, quote or dollar.           *)
LEMMA ExprStays ==
  ASSUME LexInv, In("Expr"), NEW token \in Said, token \notin {"(", ")", Quote},
         NEW to \in Nat, pos <= to, Stay, Return(token, to)
  PROVE  Turn
<1>1. Under(states) = "Expr" /\ pos < Len(data)
  BY InIs
<1>2. Neutral(token, Under(states))
  BY <1>1 DEF Neutral, Opens, Closes
<1>3. Starts(states, to)
  BY <1>1 DEF Starts
<1> QED BY <1>1, <1>2, <1>3, StaySpeaks

LEMMA ExprTurns ==
  ASSUME LexInv, Expr
  PROVE  Turn
<1> DEFINE p == SkipWhitespace(pos)
           c == At(p + 1)
<1>1. /\ In("Expr") /\ ExprMode(c)
      /\ c \in Letters => LET e == ScanIdentifier(p) IN Return(WordToken(p, e), e)
      /\ c = "1" => Return("NUMBER", NumberEnd(p))
      /\ c = "'" => Return("STRING", Until(p + 1, "'") + 1)
      /\ c = "." /\ At(p + 2) = "." => Return("RANGE", p + 2)
      /\ c \in {"=", "!"} => Return("OP", p + 1)
      /\ c \notin Letters \cup {"1", "'", "=", "!"} /\ ~(c = "." /\ At(p + 2) = ".") =>
           Return(c, p + 1)
  BY ExprIs
<1>2. /\ Under(states) = "Expr" /\ pos \in Nat /\ pos < Len(data) /\ states # <<>> /\ Shape
      /\ Len(data) \in Nat /\ pos \in 0 .. Len(data)
  BY <1>1, InIs
<1>3. p \in pos .. Len(data)
  BY <1>2, WhitespaceIs
<1> HIDE DEF p
<1>4. p \in Nat /\ p + 1 \in Nat \ {0} /\ pos <= p /\ pos <= p + 1 /\ p \in 0 .. Len(data)
      /\ p + 2 \in Nat /\ pos <= p + 2
  BY <1>2, <1>3
<1>5. c # "EOF" => p + 1 <= Len(data) /\ data[p + 1] = c /\ c \in Char
  <2>1. ~(p + 1 <= Len(data)) => p + 1 > Len(data)
    BY <1>2, <1>4
  <2> QED BY <1>2, <1>4, <2>1, AtIs
<1> HIDE DEF c
<1>6. /\ c = "(" => Push(<<"Expr">>)
      /\ c = ")" => Pop
      /\ c = Quote => Push(<<"String">>)
      /\ c = "$" => Push(<<"Var">>)
      /\ c \notin {"(", ")", Quote, "$"} => Stay
  BY <1>1, ExprModeIs
<1>7. ASSUME c \in {"(", ")", Quote, "$"}
      PROVE  /\ Return(c, p + 1) /\ c \in Said \ {"TEXT"} /\ Settled(p + 1)
  <2>1. c \notin Letters \cup {"1", "'", "=", "!", "."} /\ c # "EOF" /\ c # "b"
    BY <1>7, QuoteIs, ZenonT(30) DEF Letters, Quote
  <2>2. Return(c, p + 1)
    BY <1>1, <2>1
  <2>3. c \in Said \ {"TEXT"}
    BY <1>5, <2>1, CharIsSaid
  <2>4. Settled(p + 1)
    BY <1>4, <1>5, <2>1, PlainSettles
  <2> QED BY <2>2, <2>3, <2>4
<1>8. CASE c = "("
  <2>1. "Expr" \in Mode /\ Under(states) \in Beneath["Expr"]
    BY <1>2 DEF Mode, Beneath
  <2>2. \A m \in {"Expr", "String"} :
          (Opens(c, Under(states), m) <=> m = "Expr") /\ ~Closes(c, Under(states), m)
    BY <1>2, <1>8, QuoteIs DEF Opens, Closes
  <2> QED BY <1>2, <1>4, <1>6, <1>7, <1>8, <2>1, <2>2, PushSpeaks
<1>9. CASE c = ")"
  <2>1. \A m \in {"Expr", "String"} :
          (Closes(c, Under(states), m) <=> m = Under(states)) /\ ~Opens(c, Under(states), m)
    BY <1>2, <1>9, QuoteIs DEF Opens, Closes
  <2> QED BY <1>2, <1>4, <1>6, <1>7, <1>9, <2>1, PopSpeaks
<1>10. CASE c = Quote
  <2>1. "String" \in Mode /\ Under(states) \in Beneath["String"]
    BY <1>2 DEF Mode, Beneath
  <2>2. \A m \in {"Expr", "String"} :
          (Opens(c, Under(states), m) <=> m = "String") /\ ~Closes(c, Under(states), m)
    BY <1>2, <1>10, QuoteIs DEF Opens, Closes
  <2> QED BY <1>2, <1>4, <1>6, <1>7, <1>10, <2>1, <2>2, PushSpeaks
<1>11. CASE c = "$"
  <2>1. "Var" \in Mode /\ Under(states) \in Beneath["Var"] /\ Settled(p + 1)
    BY <1>2, <1>7, <1>11 DEF Mode, Beneath
  <2>2. Neutral(c, Under(states))
    BY <1>11, QuoteIs DEF Neutral, Opens, Closes
  <2>3. \A m \in {"Expr", "String"} :
          (Opens(c, Under(states), m) <=> m = "Var") /\ ~Closes(c, Under(states), m)
    BY <2>2 DEF Neutral
  <2> QED BY <1>2, <1>4, <1>6, <1>7, <1>11, <2>1, <2>3, PushSpeaks
<1>12. CASE c \notin {"(", ")", Quote, "$"}
  <2>1. Stay
    BY <1>6, <1>12
  <2>2. ASSUME NEW token \in {"OP", "EOF", "IDENTIFIER", "NUMBER", "STRING", "RANGE"}
        PROVE  token \in Said /\ token \notin {"(", ")", Quote}
    <3>1. token \notin Char /\ "(" \in Char /\ ")" \in Char
      BY ZenonT(30) DEF Char, Letters, Spaces
    <3> QED BY <3>1, QuoteIs DEF Said
  <2>3. CASE c \in Letters
    <3> DEFINE e == ScanIdentifier(p)
    <3>1. e \in p .. Len(data)
      BY <1>2, <1>4, IdentifierIs
    <3>2. WordToken(p, e) \in {"OP", "EOF", "IDENTIFIER"}
      BY DEF WordToken
    <3>3. Return(WordToken(p, e), e)
      BY <1>1, <2>3
    <3> HIDE DEF e
    <3>4. e \in Nat /\ pos <= e
      BY <1>2, <1>4, <3>1
    <3> QED BY <1>1, <2>1, <2>2, <3>2, <3>3, <3>4, ExprStays
  <2>4. CASE c = "1"
    <3>1. NumberEnd(p) \in p .. Len(data)
      BY <1>2, <1>4, NumberEndIs
    <3>2. NumberEnd(p) \in Nat /\ pos <= NumberEnd(p)
      BY <1>2, <1>4, <3>1
    <3> QED BY <1>1, <2>1, <2>2, <2>4, <3>2, ExprStays
  <2>5. CASE c = "'"
    <3> DEFINE u == Until(p + 1, "'")
    <3>1. p + 1 \in 0 .. Len(data)
      BY <1>2, <1>4, <1>5, <2>5
    <3>2. u \in p + 1 .. Len(data)
      BY <1>2, <3>1, UntilIs
    <3>3. Return("STRING", u + 1)
      BY <1>1, <2>5
    <3> HIDE DEF u
    <3>4. u + 1 \in Nat /\ pos <= u + 1
      BY <1>2, <1>4, <3>2
    <3> QED BY <1>1, <2>1, <2>2, <3>3, <3>4, ExprStays
  <2>6. CASE c = "." /\ At(p + 2) = "."
    BY <1>1, <1>4, <2>1, <2>2, <2>6, ExprStays
  <2>7. CASE c \in {"=", "!"}
    BY <1>1, <1>4, <2>1, <2>2, <2>7, ExprStays
  <2>8. CASE c \notin Letters \cup {"1", "'", "=", "!"} /\ ~(c = "." /\ At(p + 2) = ".")
    <3>1. Return(c, p + 1) /\ c \notin {"(", ")", Quote}
      BY <1>1, <1>12, <2>8
    <3>2. c \in Said
      BY <1>5, <2>2, CharIsSaid
    <3> QED BY <1>1, <1>4, <2>1, <3>1, <3>2, ExprStays
  <2> QED BY <2>3, <2>4, <2>5, <2>6, <2>7, <2>8
<1> QED BY <1>8, <1>9, <1>10, <1>11, <1>12

LEMMA ScansSettle ==
  ASSUME Shape, NEW p \in 0 .. Len(data), Settled(p)
  PROVE  /\ ScanIdentifier(p) \in p .. Len(data) /\ Settled(ScanIdentifier(p))
         /\ SkipWhitespace(p) \in p .. Len(data) /\ Settled(SkipWhitespace(p))
<1>1. Len(data) \in Nat /\ p \in Nat
  BY LengthIs
<1>2. ASSUME NEW e \in p .. Len(data), \A k \in p + 1 .. e : data[k] # "b"
      PROVE  Settled(e)
  <2>1. CASE e = p
    BY <2>1
  <2>2. CASE e # p
    <3>1. e \in p + 1 .. e /\ e \in Nat
      BY <1>1, <2>2
    <3> QED BY <1>2, <3>1, PlainSettles
  <2> QED BY <2>1, <2>2
<1>3. "b" \notin Letters \cup {"1"} /\ "b" \notin Spaces
  BY DEF Letters, Spaces
<1>4. /\ ScanIdentifier(p) \in p .. Len(data)
      /\ \A k \in p + 1 .. ScanIdentifier(p) : data[k] # "b"
  BY <1>3, IdentifierIs
<1>5. /\ SkipWhitespace(p) \in p .. Len(data)
      /\ \A k \in p + 1 .. SkipWhitespace(p) : data[k] # "b"
  BY <1>3, WhitespaceIs
<1> QED BY <1>2, <1>4, <1>5

LEMMA TagIs ==
  ASSUME NEW word, NEW e, NEW t, Tag(word, e, t)
  PROVE  \/ word # <<>> /\ Push(<<"Dir">>) /\ Return("DIRECTIVE", SkipWhitespace(t))
         \/ word # <<>> /\ Push(<<"Dir">>) /\ Return("MACROCALL", SkipWhitespace(t))
         \/ word # <<>> /\ Stay /\ Return("END", t)
         \/ Stay /\ Return("TEXT", e)
  BY DEF Tag

LEMMA TagTurns ==
  ASSUME LexInv, In("Text"), NEW word, NEW e \in pos .. Len(data), Settled(e),
         NEW t \in Nat, word # <<>> => t \in pos .. Len(data) /\ Settled(t), Tag(word, e, t)
  PROVE  Turn
<1>1. Under(states) = "Text" /\ pos \in Nat /\ pos < Len(data) /\ Shape /\ Len(data) \in Nat
  BY InIs
<1>2. /\ \A token : token \notin Char => Neutral(token, Under(states))
      /\ {"DIRECTIVE", "MACROCALL", "END", "TEXT"} \subseteq Said
      /\ {"DIRECTIVE", "MACROCALL", "END", "TEXT"} \cap Char = {}
  <2>1. {"DIRECTIVE", "MACROCALL", "END", "TEXT"} \cap Char = {}
    BY ZenonT(30) DEF Char, Letters, Spaces
  <2>2. "(" \in Char /\ ")" \in Char /\ Quote \in Char
    BY QuoteIs, ZenonT(30) DEF Char
  <2> QED BY <1>1, <2>1, <2>2 DEF Said, Neutral, Opens, Closes
<1>3. ASSUME NEW name \in {"DIRECTIVE", "MACROCALL"}, word # <<>>,
             Push(<<"Dir">>), Return(name, SkipWhitespace(t))
      PROVE  Turn
  <2>1. t \in 0 .. Len(data) /\ Settled(t)
    BY <1>1, <1>3
  <2>2. SkipWhitespace(t) \in t .. Len(data) /\ Settled(SkipWhitespace(t))
    BY <1>1, <2>1, ScansSettle
  <2>3. SkipWhitespace(t) \in Nat /\ pos <= SkipWhitespace(t)
    BY <1>1, <1>3, <2>2
  <2>4. "Dir" \in Mode /\ Under(states) \in Beneath["Dir"] /\ name \in Said \ {"TEXT"}
    BY <1>1, <1>2, <1>3 DEF Mode, Beneath
  <2>5. \A m \in {"Expr", "String"} :
          (Opens(name, Under(states), m) <=> m = "Dir") /\ ~Closes(name, Under(states), m)
    BY <1>2, <1>3 DEF Neutral
  <2> QED BY <1>1, <1>3, <2>2, <2>3, <2>4, <2>5, PushSpeaks
<1>4. ASSUME NEW name \in {"END", "TEXT"}, NEW to \in pos .. Len(data), Settled(to),
             Stay, Return(name, to)
      PROVE  Turn
  <2>1. Starts(states, to) /\ name \in Said /\ Neutral(name, Under(states)) /\ to \in Nat /\ pos <= to
    BY <1>1, <1>2, <1>4 DEF Starts
  <2> QED BY <1>1, <1>4, <2>1, StaySpeaks
<1> QED BY <1>3, <1>4, TagIs

OpenBrace  == "{"
CloseBrace == "}"

ScansMarkup ==
  \/ Push(ReferenceModes) /\ Again(pos)
  \/ Peek(0) = "$" /\ Stay /\ Return("TEXT", pos + 1)
  \/ Peek(0) # "$" /\ Peek(1) = "*" /\ Stay /\ Again(UntilStar(pos) + 2)
  \/ /\ Peek(0) # "$" /\ Peek(1) = OpenBrace
     /\ LET e == ScanIdentifier(pos + 2)
        IN Tag(IF At(e + 1) = CloseBrace THEN Word(pos + 2) ELSE <<>>, e, e + 1)
  \/ /\ Peek(0) # "$"
     /\ LET e == ScanIdentifier(pos + 1) IN Tag(Word(pos + 1), e, e)

ScansPlain ==
  LET t == ScanText(pos, {"#", "$"})
      comment == At(t + 1) = "#" /\ At(t + 2) = "#"
  IN IF t > pos \/ comment
     THEN Stay /\ Return("TEXT", IF comment THEN Until(t, "n") + 1 ELSE t)
     ELSE ScansMarkup

LEMMA PlainIs == Text => In("Text") /\ ScansPlain
  BY DEF Text, ScansPlain, ScansMarkup, OpenBrace, CloseBrace

LEMMA MarkupTurns ==
  ASSUME LexInv, In("Text"), Peek(0) \in {"#", "$"}, ScansMarkup
  PROVE  Turn
<1>1. /\ Under(states) = "Text" /\ pos \in Nat /\ pos < Len(data) /\ Shape /\ Len(data) \in Nat
      /\ Peek(0) = At(pos + 1) /\ Peek(1) = At(pos + 2) /\ Peek(0) # "b"
      /\ pos + 1 \in 0 .. Len(data) /\ pos + 1 \in Nat /\ pos + 2 \in Nat \ {0}
      /\ pos \in 0 .. Len(data) /\ pos <= pos + 1
  BY InIs
<1>2. Settled(pos + 1)
  BY <1>1, NextIsSettled
<1>3. OpenBrace \in Char /\ CloseBrace \in Char /\ {OpenBrace, CloseBrace} \cap {"b", "EOF"} = {}
  BY ZenonT(30) DEF OpenBrace, CloseBrace, Char
<1>4. CASE Push(ReferenceModes) /\ Again(pos)
  <2>1. /\ states' \in Seq(Mode) /\ NestedIn(states') /\ Under(states') = "Ref"
        /\ \A m \in {"Expr", "String"} : Count(states', m) = Count(states, m)
    BY <1>1, <1>4, ReferencePushes
  <2>2. Starts(states', pos)
    BY <1>1, <2>1 DEF LexInv, Starts
  <2> QED BY <1>1, <1>4, <2>1, <2>2, AgainChanges
<1>5. CASE Stay /\ Return("TEXT", pos + 1)
  <2>1. "TEXT" \in Said /\ Starts(states, pos + 1)
    BY <1>2 DEF Said, Starts
  <2>2. Neutral("TEXT", Under(states))
    BY <1>1, QuoteIs DEF Neutral, Opens, Closes
  <2> QED BY <1>1, <1>5, <2>1, <2>2, StaySpeaks
<1>6. CASE Peek(0) # "$" /\ Peek(1) = "*" /\ Stay /\ Again(UntilStar(pos) + 2)
  <2> DEFINE u == UntilStar(pos)
  <2>1. u \in pos .. Len(data) /\ (u + 2 <= Len(data) => data[u + 2] = "#")
    BY <1>1, UntilStarIs
  <2> HIDE DEF u
  <2>2. u + 2 \in Nat /\ pos <= u + 2 /\ (u + 2 < Len(data) => u + 2 <= Len(data))
    BY <1>1, <2>1
  <2>3. Settled(u + 2)
    <3>1. CASE u + 2 <= Len(data)
      BY <2>1, <2>2, <3>1, PlainSettles
    <3>2. CASE ~(u + 2 <= Len(data))
      BY <2>2, <3>2 DEF Settled
    <3> QED BY <3>1, <3>2
  <2>4. Stay /\ Again(u + 2) /\ At(pos + 1) = "#" /\ At(pos + 2) = "*"
    BY <1>1, <1>6 DEF u
  <2>5. states' \in Seq(Mode) /\ NestedIn(states') /\ Starts(states', u + 2)
    BY <2>3, <2>4 DEF Stay, LexInv, Shape, Starts
  <2>6. \A m \in {"Expr", "String"} : Count(states', m) = Count(states, m)
    BY <2>4 DEF Stay
  <2> QED BY <1>1, <2>2, <2>4, <2>5, <2>6, AgainChanges
<1>7. ASSUME Peek(1) = OpenBrace,
             LET e == ScanIdentifier(pos + 2)
             IN Tag(IF At(e + 1) = CloseBrace THEN Word(pos + 2) ELSE <<>>, e, e + 1)
      PROVE  Turn
  <2> DEFINE e == ScanIdentifier(pos + 2)
             word == IF At(e + 1) = CloseBrace THEN Word(pos + 2) ELSE <<>>
  <2>1. pos + 2 <= Len(data) /\ data[pos + 2] = OpenBrace
    <3>1. ~(pos + 2 > Len(data))
      BY <1>1, <1>3, <1>7, AtIs
    <3>2. pos + 2 <= Len(data)
      BY <1>1, <3>1
    <3> QED BY <1>1, <1>7, <3>2, AtIs
  <2>2. pos + 2 \in 0 .. Len(data) /\ Settled(pos + 2)
    <3>1. pos + 2 \in Nat /\ data[pos + 2] # "b"
      BY <1>1, <1>3, <2>1
    <3>2. Settled(pos + 2)
      BY <3>1, PlainSettles
    <3> QED BY <1>1, <2>1, <3>1, <3>2
  <2>3. e \in pos + 2 .. Len(data) /\ Settled(e)
    BY <1>1, <2>2, ScansSettle
  <2>4. Tag(word, e, e + 1) /\ (word # <<>> => At(e + 1) = CloseBrace)
    BY <1>7
  <2> HIDE DEF word, e
  <2>5. e \in pos .. Len(data) /\ e + 1 \in Nat \ {0} /\ pos <= e + 1
    BY <1>1, <2>3
  <2>6. ASSUME word # <<>> PROVE e + 1 \in pos .. Len(data) /\ Settled(e + 1)
    <3>1. ~(e + 1 > Len(data))
      BY <1>1, <1>3, <2>4, <2>5, <2>6, AtIs
    <3>2. e + 1 <= Len(data)
      BY <1>1, <2>5, <3>1
    <3>3. data[e + 1] # "b"
      BY <1>1, <1>3, <2>4, <2>5, <2>6, <3>2, AtIs
    <3> QED BY <1>1, <2>5, <3>2, <3>3, PlainSettles
  <2> QED BY <2>3, <2>4, <2>5, <2>6, TagTurns
<1>8. ASSUME LET e == ScanIdentifier(pos + 1) IN Tag(Word(pos + 1), e, e)
      PROVE  Turn
  <2> DEFINE e == ScanIdentifier(pos + 1)
  <2>1. e \in pos + 1 .. Len(data) /\ Settled(e) /\ Tag(Word(pos + 1), e, e)
    BY <1>1, <1>2, <1>8, ScansSettle
  <2> HIDE DEF e
  <2>2. e \in pos .. Len(data) /\ e \in Nat
    BY <1>1, <2>1
  <2> QED BY <2>1, <2>2, TagTurns
<1> QED BY <1>4, <1>5, <1>6, <1>7, <1>8 DEF ScansMarkup

LEMMA TextTurns ==
  ASSUME LexInv, Text
  PROVE  Turn
<1> DEFINE t == ScanText(pos, {"#", "$"})
           comment == At(t + 1) = "#" /\ At(t + 2) = "#"
           to == IF comment THEN Until(t, "n") + 1 ELSE t
<1>1. In("Text") /\ ScansPlain
  BY PlainIs
<1>2. /\ Under(states) = "Text" /\ pos \in Nat /\ pos < Len(data) /\ Shape /\ Len(data) \in Nat
      /\ Peek(0) = At(pos + 1) /\ pos \in 0 .. Len(data) - 1
  BY <1>1, InIs
<1>3. t \in pos .. Len(data) /\ Settled(t) /\ (t = pos => At(pos + 1) \in {"#", "$"})
  BY <1>2, TextIs DEF LexInv, Starts
<1>4. /\ t > pos \/ comment => Stay /\ Return("TEXT", to)
      /\ ~(t > pos \/ comment) => ScansMarkup
  BY <1>1 DEF ScansPlain
<1> HIDE DEF t
<1>5. CASE t > pos \/ comment
  <2>1. to \in Nat /\ pos <= to /\ Settled(to)
    <3>1. CASE ~comment
      BY <1>2, <1>3, <3>1
    <3>2. CASE comment
      <4> DEFINE u == Until(t, "n")
      <4>1. t \in 0 .. Len(data)
        BY <1>2, <1>3
      <4>2. u \in t .. Len(data) /\ (u < Len(data) => data[u + 1] = "n")
        BY <1>2, <4>1, UntilIs
      <4>3. to = u + 1
        BY <3>2
      <4> HIDE DEF u, to
      <4>4. to \in Nat /\ pos <= to /\ (to < Len(data) => u < Len(data))
        BY <1>2, <1>3, <4>2, <4>3
      <4>5. CASE u < Len(data)
        BY <4>2, <4>3, <4>4, <4>5, PlainSettles
      <4>6. CASE ~(u < Len(data))
        BY <4>4, <4>6 DEF Settled
      <4> QED BY <4>4, <4>5, <4>6
    <3> QED BY <3>1, <3>2
  <2>2. Stay /\ Return("TEXT", to)
    BY <1>4, <1>5
  <2> HIDE DEF to
  <2>3. Neutral("TEXT", Under(states)) /\ "TEXT" \in Said /\ Starts(states, to)
    BY <1>2, <2>1, QuoteIs DEF Neutral, Opens, Closes, Said, Starts
  <2> QED BY <1>2, <2>1, <2>2, <2>3, StaySpeaks
<1>6. CASE ~(t > pos \/ comment)
  <2>1. t = pos
    BY <1>2, <1>3, <1>6
  <2> QED BY <1>1, <1>2, <1>3, <1>4, <1>6, <2>1, MarkupTurns
<1> QED BY <1>5, <1>6
-----------------------------------------------------------------------------
(* All of it: every step is a turn or the end.                             *)
LEMMA StepIs ==
  ASSUME LexInv, [Next]_vars
  PROVE  Turn \/ End \/ UNCHANGED vars
<1>1. ASSUME String PROVE Turn
  BY <1>1, StringIs, StringTurns
<1> QED BY <1>1, TextTurns, DirTurns, FormalTurns, RefTurns, VarTurns, ExprTurns DEF Next

LEMMA SourceStays ==
  ASSUME data' = data
  PROVE  /\ \A q : Settled(q)' <=> Settled(q)
         /\ \A p, q : Run(p, q)' = Run(p, q)
         /\ \A p, q : Newlines(p, q)' = Newlines(p, q)
         /\ \A k : At(k)' = At(k)
<1>1. \A k : At(k)' = At(k)
  BY DEF At
<1>2. ASSUME NEW p, NEW q PROVE Run(p, q)' = Run(p, q)
  <2>1. {r \in p .. q : \A k \in r + 1 .. q : data'[k] = "b"}
          = {r \in p .. q : \A k \in r + 1 .. q : data[k] = "b"}
    OBVIOUS
  <2> QED BY <2>1 DEF Run
<1>3. ASSUME NEW p, NEW q PROVE Newlines(p, q)' = Newlines(p, q)
  <2>1. {k \in p + 1 .. q : At(k)' = "n"} = {k \in p + 1 .. q : At(k) = "n"}
    BY <1>1
  <2> QED BY <2>1 DEF Newlines
<1>4. ASSUME NEW q PROVE Settled(q)' <=> Settled(q)
  <2>1. Run(0, q)' = Run(0, q)
    BY <1>2
  <2> QED BY <2>1 DEF Settled
<1> QED BY <1>1, <1>2, <1>3, <1>4

LEMMA NewlinesAre ==
  ASSUME NEW p \in Nat, NEW q \in Nat
  PROVE  /\ Newlines(p, q) \in Nat
         /\ p <= q => Newlines(0, q) = Newlines(0, p) + Newlines(p, q)
<1> DEFINE N(a, b) == {k \in a + 1 .. b : At(k) = "n"}
<1>1. \A a, b \in Nat : IsFiniteSet(N(a, b)) /\ Cardinality(N(a, b)) \in Nat
  <2> SUFFICES ASSUME NEW a \in Nat, NEW b \in Nat
               PROVE  IsFiniteSet(N(a, b)) /\ Cardinality(N(a, b)) \in Nat
    OBVIOUS
  <2>1. IsFiniteSet(a + 1 .. b) /\ N(a, b) \subseteq a + 1 .. b
    <3>1. a + 1 \in Int /\ b \in Int
      OBVIOUS
    <3> QED BY <3>1, FS_Interval
  <2> QED BY <2>1, FS_Subset, FS_CardinalityType
<1>2. ASSUME p <= q PROVE Cardinality(N(0, q)) = Cardinality(N(0, p)) + Cardinality(N(p, q))
  <2>1. N(0, q) = N(0, p) \cup N(p, q)
    BY <1>2
  <2>2. N(0, p) \cap N(p, q) = {}
    OBVIOUS
  <2>3. Cardinality(N(0, p) \cap N(p, q)) = 0
    BY <2>2, FS_EmptySet
  <2>4. /\ IsFiniteSet(N(0, p)) /\ IsFiniteSet(N(p, q))
        /\ Cardinality(N(0, p)) \in Nat /\ Cardinality(N(p, q)) \in Nat
    <3>1. 0 \in Nat
      OBVIOUS
    <3> QED BY <1>1, <3>1
  <2> DEFINE A == N(0, p)
             B == N(p, q)
             C == N(0, q)
  <2>5. /\ C = A \cup B /\ Cardinality(A \cap B) = 0 /\ IsFiniteSet(A) /\ IsFiniteSet(B)
        /\ Cardinality(A) \in Nat /\ Cardinality(B) \in Nat
    BY <2>1, <2>3, <2>4
  <2> HIDE DEF A, B, C
  <2>6. Cardinality(C) = Cardinality(A) + Cardinality(B) - Cardinality(A \cap B)
    BY <2>5, FS_Union
  <2>7. Cardinality(C) = Cardinality(A) + Cardinality(B)
    BY <2>5, <2>6
  <2> QED BY <2>7 DEF A, B, C
<1> QED BY <1>1, <1>2 DEF Newlines

LEMMA TimesIs ==
  ASSUME NEW a \in Nat, NEW b \in Nat
  PROVE  /\ a * b \in Nat
         /\ 0 * b = 0
         /\ a > 0 => a * b >= b
         /\ a * b > b => a > 1 /\ b > 0
<1>1. a * b \in Nat /\ 0 * b = 0
  OBVIOUS
<1>2. b = 0 => a * b = 0
  OBVIOUS
<1>3. a = 0 => a * b = 0
  OBVIOUS
<1>4. a = 1 => a * b = b
  OBVIOUS
<1>5. ASSUME a > 0 PROVE a * b >= b
  <2>1. a * b = (a - 1) * b + b
    OBVIOUS
  <2>2. (a - 1) * b \in Nat
    BY <1>5
  <2> QED BY <2>1, <2>2
<1> QED BY <1>1, <1>2, <1>3, <1>4, <1>5

LEMMA CountedIs ==
  ASSUME Shape, NEW p \in Nat, NEW q \in Nat, NEW c \in Nat
  PROVE  Counted(p, q, c) = line + c * Newlines(p, q) /\ Counted(p, q, c) \in Nat
<1>1. line \in Nat /\ Newlines(p, q) \in Nat
  BY NewlinesAre DEF Shape
<1>2. c * Newlines(p, q) \in Nat
  BY <1>1, TimesIs
<1> QED BY <1>1, <1>2 DEF Counted

(* The token of the end.                                                   *)
LEMMA EndIs ==
  ASSUME LexInv, End
  PROVE  /\ data' = data /\ states' = states /\ prev' = prev /\ depth' = 0 /\ pos' = Len(data)
         /\ pos >= Len(data) /\ Len(data) \in Nat
         /\ line' = Counted(prev, Len(data), depth) /\ line' \in Nat
         /\ \E e \in Token : tokens' = Append(tokens, e) /\ e.token = "EOF"
<1>1. /\ data' = data /\ states' = states /\ prev' = prev /\ depth' = 0 /\ pos' = Len(data)
      /\ pos >= Len(data) /\ line' = Counted(prev, Len(data), depth)
  BY DEF End
<1>2. /\ Shape /\ Len(data) \in Nat /\ pos \in Nat /\ depth \in Nat /\ prev \in Nat
  BY LengthIs DEF LexInv, Shape
<1>3. line' \in Nat
  BY <1>1, <1>2, CountedIs
<1> DEFINE e == [token |-> "EOF", from |-> pos, to |-> Len(data), mode |-> Under(states),
                 depth |-> depth]
<1>4. tokens' = Append(tokens, e)
  BY StateIs DEF End
<1>5. e \in Token /\ e.token = "EOF"
  BY <1>2, UnderIs DEF Token, Said
<1> QED BY <1>1, <1>2, <1>3, <1>4, <1>5

LEMMA LexKept ==
  ASSUME LexInv, [Next]_vars
  PROVE  LexInv'
<1>1. Shape /\ tokens \in Seq(Token) /\ data \in Seq(Char) /\ pos \in Nat /\ depth \in Nat
      /\ line \in Nat
  BY DEF LexInv, Shape
<1>2. ASSUME Goes, line' \in Nat, depth' \in Nat, tokens' \in Seq(Token)
      PROVE  LexInv'
  <2>1. Shape'
    BY <1>1, <1>2 DEF Goes, Shape
  <2>2. NestedIn(states)'
    BY <1>2 DEF Goes, NestedIn
  <2>3. Settled(pos)' <=> Settled(pos')
    BY <1>2, SourceStays DEF Goes
  <2>4. Starts(states, pos)'
    BY <1>2, <2>3 DEF Goes, Starts, Under
  <2> QED BY <2>1, <2>2, <2>4 DEF LexInv
<1>3. CASE Changes
  <2>1. Goes /\ line' \in Nat /\ depth' \in Nat /\ tokens' \in Seq(Token)
    BY <1>1, <1>3 DEF Changes
  <2> QED BY <1>2, <2>1
<1>4. ASSUME NEW e, Speaks(e) PROVE LexInv'
  <2>1. /\ Goes /\ pos' \in Nat /\ e \in Token /\ tokens' = Append(tokens, e) /\ depth' = 0
        /\ line' = Counted(pos, pos', depth + 1)
    BY <1>4 DEF Speaks, Goes
  <2>2. depth + 1 \in Nat
    BY <1>1
  <2>3. line' \in Nat
    BY <1>1, <2>1, <2>2, CountedIs
  <2>4. tokens' \in Seq(Token)
    BY <1>1, <2>1, OneMoreIsHeard
  <2> QED BY <1>2, <2>1, <2>3, <2>4
<1>5. CASE End
  <2>1. /\ data' = data /\ states' = states /\ prev' = prev /\ depth' = 0 /\ pos' = Len(data)
        /\ pos' \in Nat /\ line' \in Nat
    BY <1>5, EndIs
  <2>2. PICK e \in Token : tokens' = Append(tokens, e)
    BY <1>5, EndIs
  <2>3. tokens' \in Seq(Token)
    BY <1>1, <2>2, OneMoreIsHeard
  <2>4. Shape'
    BY <1>1, <2>1, <2>3 DEF Shape
  <2>5. NestedIn(states)'
    BY <2>1 DEF LexInv, NestedIn
  <2>6. Starts(states, pos)'
    BY <2>1 DEF Starts, Settled
  <2> QED BY <2>4, <2>5, <2>6 DEF LexInv
<1>6. CASE UNCHANGED vars
  <2>1. data' = data /\ Starts(states, pos) /\ states' = states /\ pos' = pos
    BY <1>6 DEF vars, LexInv
  <2>2. Settled(pos)' <=> Settled(pos)
    BY <2>1, SourceStays
  <2>3. Starts(states, pos)'
    BY <2>1, <2>2 DEF Starts, Under
  <2>4. Shape' /\ NestedIn(states)'
    BY <1>6 DEF vars, LexInv, Shape, NestedIn
  <2> QED BY <2>3, <2>4 DEF LexInv
<1> QED BY <1>3, <1>4, <1>5, <1>6, StepIs DEF Turn

LEMMA LexStarts ==
  ASSUME Init
  PROVE  LexInv
<1>1. pos = 0 /\ prev = 0 /\ line = 1 /\ states = <<>> /\ depth = 0 /\ tokens = <<>>
  BY DEF Init
<1>2. PICK o \in Openings, n \in 0 .. Length : \E rest \in [1 .. n -> Chars] : data = o \o rest
  BY DEF Init
<1>3. PICK rest \in [1 .. n -> Chars] : data = o \o rest
  BY <1>2
<1>4. n \in Nat /\ o \in Seq(Char) /\ Chars \subseteq Char
  BY SourceAssumption
<1>5. rest \in Seq(Chars)
  BY <1>4
<1>6. rest \in Seq(Char)
  BY <1>4, <1>5
<1>7. data \in Seq(Char)
  BY <1>3, <1>4, <1>6
<1>8. Shape
  BY <1>1, <1>7 DEF Shape
<1>9. NestedIn(states)
  BY <1>1 DEF NestedIn
<1>10. Settled(pos)
  BY <1>1, PlainSettles
<1> QED BY <1>8, <1>9, <1>10 DEF LexInv, Starts

(* Whatever the source, each scan begins outside of an escape and the      *)
(* modes on the stack are over ones they belong in.                        *)
THEOREM LexInvHolds == Spec => []LexInv
<1> QED BY LexStarts, LexKept, PTL DEF Spec
-----------------------------------------------------------------------------
Difference(t, names, modes, ends, in) ==
  Cardinality(Heard(t, names, modes)) - Cardinality(Heard(t, ends, in))

Balance ==
  /\ Count(states, "Expr") = Difference(tokens, {"("}, {"Dir", "Var", "Expr"}, {")"}, {"Expr"})
  /\ Count(states, "String") = Difference(tokens, {Quote}, {"Expr"}, {Quote}, {"String"})

LEMMA HeardAre ==
  ASSUME NEW t \in Seq(Token), NEW names, NEW modes
  PROVE  Cardinality(Heard(t, names, modes)) \in Nat
<1>1. Heard(t, names, modes) \in SUBSET DOMAIN t
  BY DEF Heard
<1> QED BY <1>1, PlacesAreFinite

LEMMA OneMoreDiffers ==
  ASSUME NEW t \in Seq(Token), NEW e \in Token
  PROVE  /\ Difference(Append(t, e), {"("}, {"Dir", "Var", "Expr"}, {")"}, {"Expr"})
              = Difference(t, {"("}, {"Dir", "Var", "Expr"}, {")"}, {"Expr"})
                  + Change(e.token, e.mode, "Expr")
         /\ Difference(Append(t, e), {Quote}, {"Expr"}, {Quote}, {"String"})
              = Difference(t, {Quote}, {"Expr"}, {Quote}, {"String"})
                  + Change(e.token, e.mode, "String")
         /\ Difference(t, {"("}, {"Dir", "Var", "Expr"}, {")"}, {"Expr"}) \in Int
         /\ Difference(t, {Quote}, {"Expr"}, {Quote}, {"String"}) \in Int
<1>1. ASSUME NEW names, NEW modes, NEW ends, NEW in
      PROVE  /\ Difference(t, names, modes, ends, in) \in Int
             /\ Difference(Append(t, e), names, modes, ends, in)
                  = Difference(t, names, modes, ends, in)
                      + (IF e.token \in names /\ e.mode \in modes THEN 1 ELSE 0)
                      - (IF e.token \in ends /\ e.mode \in in THEN 1 ELSE 0)
  <2>1. /\ Cardinality(Heard(t, names, modes)) \in Nat /\ Cardinality(Heard(t, ends, in)) \in Nat
    BY HeardAre
  <2>2. /\ Cardinality(Heard(Append(t, e), names, modes)) =
             Cardinality(Heard(t, names, modes))
               + (IF e.token \in names /\ e.mode \in modes THEN 1 ELSE 0)
        /\ Cardinality(Heard(Append(t, e), ends, in)) =
             Cardinality(Heard(t, ends, in)) + (IF e.token \in ends /\ e.mode \in in THEN 1 ELSE 0)
    BY OneMoreIsHeard
  <2> QED BY <2>1, <2>2 DEF Difference
<1>2. /\ Opens(e.token, e.mode, "Expr") <=> e.token \in {"("} /\ e.mode \in {"Dir", "Var", "Expr"}
      /\ Closes(e.token, e.mode, "Expr") <=> e.token \in {")"} /\ e.mode \in {"Expr"}
      /\ Opens(e.token, e.mode, "String") <=> e.token \in {Quote} /\ e.mode \in {"Expr"}
      /\ Closes(e.token, e.mode, "String") <=> e.token \in {Quote} /\ e.mode \in {"String"}
  BY DEF Opens, Closes
<1>3. \A m \in {"Expr", "String"} :
        Change(e.token, e.mode, m) =
          (IF Opens(e.token, e.mode, m) THEN 1 ELSE 0)
            - (IF Closes(e.token, e.mode, m) THEN 1 ELSE 0)
  BY DEF Change
<1>4. /\ Difference(Append(t, e), {"("}, {"Dir", "Var", "Expr"}, {")"}, {"Expr"})
           = Difference(t, {"("}, {"Dir", "Var", "Expr"}, {")"}, {"Expr"})
               + Change(e.token, e.mode, "Expr")
  BY <1>1, <1>2, <1>3
<1>5. /\ Difference(Append(t, e), {Quote}, {"Expr"}, {Quote}, {"String"})
           = Difference(t, {Quote}, {"Expr"}, {Quote}, {"String"})
               + Change(e.token, e.mode, "String")
  BY <1>1, <1>2, <1>3
<1> QED BY <1>1, <1>4, <1>5

LEMMA BalanceIsKept ==
  ASSUME LexInv, Balance, [Next]_vars
  PROVE  Balance'
<1>1. states \in Seq(Mode) /\ tokens \in Seq(Token)
  BY DEF LexInv, Shape
<1>2. ASSUME NEW e \in Token, tokens' = Append(tokens, e),
             \A m \in {"Expr", "String"} :
               Count(states', m) = Count(states, m) + Change(e.token, e.mode, m)
      PROVE  Balance'
  BY <1>1, <1>2, OneMoreDiffers DEF Balance, Count
<1>3. CASE Changes
  BY <1>3 DEF Changes, Balance, Count
<1>4. ASSUME NEW e, Speaks(e) PROVE Balance'
  BY <1>2, <1>4 DEF Speaks
<1>5. CASE End
  <2>1. PICK e \in Token : tokens' = Append(tokens, e) /\ e.token = "EOF"
    BY <1>5, EndIs
  <2>2. \A m \in {"Expr", "String"} : Change(e.token, e.mode, m) = 0
    BY <2>1, QuoteIs DEF Change, Opens, Closes
  <2>3. states' = states /\ \A m : Count(states, m) \in Nat
    BY <1>1, <1>5, EndIs, CountIs
  <2> QED BY <1>2, <2>1, <2>2, <2>3
<1>6. CASE UNCHANGED vars
  BY <1>6 DEF vars, Balance, Count
<1> QED BY <1>3, <1>4, <1>5, <1>6, StepIs DEF Turn

(* The stack of modes is the nesting of the source: there is an expression *)
(* on it for each bracket that is open and a string for each quote.        *)
THEOREM ModesNestHolds == Spec => []ModesNest
<1>1. Init => Balance
  <2> SUFFICES ASSUME Init PROVE Balance
    OBVIOUS
  <2>1. states = <<>> /\ tokens = <<>>
    BY DEF Init
  <2>2. \A m : Places(states, m) = {}
    BY <2>1 DEF Places
  <2>3. \A names, modes : Heard(tokens, names, modes) = {}
    BY <2>1 DEF Heard
  <2> QED BY <2>2, <2>3, FS_EmptySet DEF Balance, Count, Difference
<1>2. LexInv /\ Balance /\ [Next]_vars => Balance'
  BY BalanceIsKept
<1>3. LexInv /\ Balance => ModesNest
  <2>1. \A names, modes : Returned(names, modes) = Heard(tokens, names, modes)
    BY DEF Returned, Heard
  <2>2. \A m : Opened(m) = Places(states, m)
    BY DEF Opened, Places
  <2> QED BY <2>1, <2>2 DEF LexInv, NestedIn, Balance, Count, Difference, ModesNest, Quote
<1> QED BY <1>1, <1>2, <1>3, LexInvHolds, PTL DEF Spec
-----------------------------------------------------------------------------
(* A token that begins what an escape would make text.                     *)
Begins(e) ==
  \/ e.token \in {"DIRECTIVE", "MACROCALL", "END"} /\ e.mode = "Text"
  \/ e.token = "$" /\ e.mode \in {"Ref", "String"}
  \/ e.token = Quote /\ e.mode = "String"

Escaped(e) ==
  /\ Begins(e) => Run(0, e.from) % 2 = 0
  /\ e.token = "TEXT" /\ e.mode = "String" => EscapedIn(e.from, e.to)

AllEscaped == \A k \in DOMAIN tokens : Escaped(tokens[k])

LEMMA EscapesStay ==
  ASSUME data' = data
  PROVE  \A e : Escaped(e)' <=> Escaped(e)
<1>1. \A p, q : Run(p, q)' = Run(p, q)
  BY SourceStays
<1>2. \A p, q : EscapedIn(p, q)' <=> EscapedIn(p, q)
  BY <1>1 DEF EscapedIn
<1> QED BY <1>1, <1>2 DEF Escaped, Begins

LEMMA AllEscapedIsKept ==
  ASSUME LexInv, AllEscaped, [Next]_vars
  PROVE  AllEscaped'
<1>1. tokens \in Seq(Token)
  BY DEF LexInv, Shape
<1>2. ASSUME data' = data, tokens' = tokens PROVE AllEscaped'
  BY <1>2, EscapesStay DEF AllEscaped
<1>3. ASSUME data' = data, NEW e \in Token, tokens' = Append(tokens, e), Escaped(e)
      PROVE  AllEscaped'
  <2>1. \A k \in DOMAIN tokens' : tokens'[k] = e \/ (k \in DOMAIN tokens /\ tokens'[k] = tokens[k])
    BY <1>1, <1>3
  <2>2. \A k \in DOMAIN tokens' : Escaped(tokens'[k])
    BY <1>3, <2>1 DEF AllEscaped
  <2>3. \A x : Escaped(x)' <=> Escaped(x)
    BY <1>3, EscapesStay
  <2> QED BY <2>2, <2>3 DEF AllEscaped
<1>4. CASE Changes
  BY <1>2, <1>4 DEF Changes, Goes
<1>5. ASSUME NEW e, Speaks(e) PROVE AllEscaped'
  <2>1. /\ data' = data /\ e \in Token /\ tokens' = Append(tokens, e) /\ pos < Len(data)
        /\ e.from = pos /\ e.mode = Under(states)
        /\ e.token = "TEXT" /\ e.mode = "String" => EscapedIn(e.from, e.to)
    BY <1>5 DEF Speaks, Goes
  <2>2. ASSUME Begins(e) PROVE Run(0, e.from) % 2 = 0
    <3>1. Under(states) \notin {"Expr", "Formal"}
      BY <2>1, <2>2 DEF Begins
    <3>2. Settled(pos)
      BY <3>1 DEF LexInv, Starts
    <3> QED BY <2>1, <3>2 DEF Settled
  <2> QED BY <1>3, <2>1, <2>2 DEF Escaped
<1>6. CASE End
  <2>1. PICK e \in Token : tokens' = Append(tokens, e) /\ e.token = "EOF"
    BY <1>6, EndIs
  <2>2. data' = data
    BY <1>6, EndIs
  <2>3. Escaped(e)
    BY <2>1, QuoteIs DEF Escaped, Begins
  <2> QED BY <1>3, <2>1, <2>2, <2>3
<1>7. CASE UNCHANGED vars
  BY <1>2, <1>7 DEF vars
<1> QED BY <1>4, <1>5, <1>6, <1>7, StepIs DEF Turn

(* What an odd number of backslashes stands before is text, wherever the   *)
(* text that is scanned began.                                             *)
THEOREM EscapedStaysTextHolds == Spec => []EscapedStaysText
<1>1. Init => AllEscaped
  BY DEF Init, AllEscaped
<1>2. LexInv /\ AllEscaped /\ [Next]_vars => AllEscaped'
  BY AllEscapedIsKept
<1>3. LexInv /\ AllEscaped => EscapedStaysText
  <2> SUFFICES ASSUME LexInv, AllEscaped PROVE EscapedStaysText
    OBVIOUS
  <2> DEFINE Backslashes(q) == q - Min({r \in 0 .. q : \A j \in r + 1 .. q : data[j] = "b"})
  <2>1. \A q : Backslashes(q) = Run(0, q)
    BY DEF Run
  <2> HIDE DEF Backslashes
  <2>2. ASSUME NEW k \in Returned({"DIRECTIVE", "MACROCALL", "END"}, {"Text"})
                  \cup Returned({"$"}, {"Ref", "String"}) \cup Returned({Quote}, {"String"})
        PROVE  Backslashes(tokens[k].from) % 2 = 0
    <3>1. k \in DOMAIN tokens /\ Begins(tokens[k])
      BY <2>2 DEF Returned, Begins
    <3>2. Run(0, tokens[k].from) % 2 = 0
      BY <3>1 DEF AllEscaped, Escaped
    <3> QED BY <2>1, <3>2
  <2>3. ASSUME NEW k \in Returned({"TEXT"}, {"String"}),
               NEW q \in tokens[k].from + 1 .. tokens[k].to - 1, data[q + 1] \in {"$", Quote}
        PROVE  Backslashes(q) % 2 = 1
    <3>1. k \in DOMAIN tokens /\ tokens[k].token = "TEXT" /\ tokens[k].mode = "String"
      BY <2>3 DEF Returned
    <3>2. Run(0, q) % 2 = 1
      BY <2>3, <3>1 DEF AllEscaped, Escaped, EscapedIn
    <3> QED BY <2>1, <3>2
  <2> QED BY <2>2, <2>3 DEF EscapedStaysText, Backslashes, Quote
<1> QED BY <1>1, <1>2, <1>3, LexInvHolds, PTL DEF Spec
-----------------------------------------------------------------------------
(* Lines.  Without comments Lex only returns with the place it has read    *)
(* to, so that a call that waits has something left to read.               *)
NoComment == \A k \in DOMAIN data : ~(At(k) = "#" /\ At(k + 1) = "*")

Twice == \E k \in DOMAIN tokens :
            tokens[k].depth > 1 /\ Newlines(tokens[k].from, tokens[k].to) > 0

LinesInv ==
  NoComment =>
    /\ pos <= Len(data) /\ (depth > 0 => pos < Len(data))
    /\ line >= 1 + Newlines(0, pos)
    /\ line > 1 + Newlines(0, pos) => Twice

LEMMA TwiceStays ==
  ASSUME Shape, data' = data, NEW e \in Token, tokens' = Append(tokens, e)
  PROVE  /\ Twice => Twice'
         /\ e.depth > 1 /\ Newlines(e.from, e.to) > 0 => Twice'
<1>1. \A p, q : Newlines(p, q)' = Newlines(p, q)
  BY SourceStays
<1>2. /\ \A k \in DOMAIN tokens : k \in DOMAIN tokens' /\ tokens'[k] = tokens[k]
      /\ Len(tokens) + 1 \in DOMAIN tokens' /\ tokens'[Len(tokens) + 1] = e
  BY DEF Shape
<1>3. ASSUME Twice PROVE Twice'
  <2>1. PICK k \in DOMAIN tokens :
          tokens[k].depth > 1 /\ Newlines(tokens[k].from, tokens[k].to) > 0
    BY <1>3 DEF Twice
  <2>2. /\ k \in DOMAIN tokens' /\ tokens'[k].depth > 1
        /\ Newlines(tokens'[k].from, tokens'[k].to) > 0
    BY <1>2, <2>1
  <2>3. \E j \in DOMAIN tokens' :
          tokens'[j].depth > 1 /\ Newlines(tokens'[j].from, tokens'[j].to) > 0
    BY <2>2
  <2> QED BY <1>1, <2>3 DEF Twice
<1>4. ASSUME e.depth > 1, Newlines(e.from, e.to) > 0 PROVE Twice'
  <2>1. \E j \in DOMAIN tokens' :
          tokens'[j].depth > 1 /\ Newlines(tokens'[j].from, tokens'[j].to) > 0
    BY <1>2, <1>4
  <2> QED BY <1>1, <2>1 DEF Twice
<1> QED BY <1>3, <1>4

LEMMA LinesAreKept ==
  ASSUME LexInv, LinesInv, [Next]_vars
  PROVE  LinesInv'
<1>1. Shape /\ pos \in Nat /\ line \in Nat /\ depth \in Nat /\ Len(data) \in Nat
      /\ DOMAIN data = 1 .. Len(data)
  BY LengthIs DEF LexInv, Shape
<1>2. ASSUME data' = data PROVE NoComment' <=> NoComment
  <2>1. \A k : At(k)' = At(k)
    BY <1>2, SourceStays
  <2> QED BY <1>2, <2>1 DEF NoComment
<1>3. ASSUME data' = data, NEW q, pos' = q
      PROVE  Newlines(0, pos)' = Newlines(0, q)
  BY <1>3, SourceStays
<1>4. CASE Changes
  <2>1. /\ data' = data /\ pos < Len(data) /\ line' = line /\ tokens' = tokens
        /\ pos' = pos \/ (At(pos + 1) = "#" /\ At(pos + 2) = "*")
    BY <1>4 DEF Changes, Goes
  <2> SUFFICES ASSUME NoComment PROVE LinesInv'
    BY <1>2, <2>1 DEF LinesInv
  <2>2. pos' = pos
    <3>1. pos + 1 \in DOMAIN data /\ (pos + 1) + 1 = pos + 2
      BY <1>1, <2>1
    <3> QED BY <2>1, <3>1 DEF NoComment
  <2>3. Newlines(0, pos)' = Newlines(0, pos)
    BY <1>3, <2>1, <2>2
  <2>4. Twice => Twice'
    <3>1. \A p, q : Newlines(p, q)' = Newlines(p, q)
      BY <2>1, SourceStays
    <3> QED BY <2>1, <3>1 DEF Twice
  <2> QED BY <2>1, <2>2, <2>3, <2>4 DEF LinesInv
<1>5. ASSUME NEW e, Speaks(e) PROVE LinesInv'
  <2>1. /\ data' = data /\ pos < Len(data) /\ pos' \in Nat /\ pos <= pos' /\ pos' <= Len(data)
        /\ e \in Token /\ e.from = pos /\ e.to = pos' /\ e.depth = depth + 1
        /\ tokens' = Append(tokens, e) /\ line' = Counted(pos, pos', depth + 1) /\ depth' = 0
    BY <1>5 DEF Speaks, Goes
  <2> SUFFICES ASSUME NoComment PROVE LinesInv'
    BY <1>2, <2>1 DEF LinesInv
  <2> DEFINE new   == Newlines(pos, pos')
             times == (depth + 1) * new
  <2>2. /\ new \in Nat /\ Newlines(0, pos') = Newlines(0, pos) + new
        /\ Newlines(0, pos) \in Nat /\ Newlines(0, pos)' = Newlines(0, pos')
    <3>1. Newlines(0, pos)' = Newlines(0, pos')
      BY <1>3, <2>1
    <3>2. new \in Nat /\ Newlines(0, pos') = Newlines(0, pos) + new
      BY <1>1, <2>1, NewlinesAre
    <3>3. 0 \in Nat
      OBVIOUS
    <3> QED BY <1>1, <3>1, <3>2, <3>3, NewlinesAre
  <2>3. depth + 1 \in Nat /\ depth + 1 > 0
    BY <1>1
  <2>4. line' = line + times
    BY <1>1, <2>1, <2>3, CountedIs
  <2>5. times \in Nat /\ times >= new /\ (times > new => depth + 1 > 1 /\ new > 0)
    BY <2>2, <2>3, TimesIs
  <2>6. Twice => Twice'
    BY <1>1, <2>1, TwiceStays
  <2>7. times > new => Twice'
    BY <1>1, <2>1, <2>5, TwiceStays
  <2> HIDE DEF times, new
  <2>8. line >= 1 + Newlines(0, pos) /\ (line > 1 + Newlines(0, pos) => Twice)
    BY DEF LinesInv
  <2>9. line' >= 1 + Newlines(0, pos') /\ (line' > 1 + Newlines(0, pos') => Twice')
    BY <1>1, <2>2, <2>4, <2>5, <2>6, <2>7, <2>8
  <2>10. (pos <= Len(data) /\ (depth > 0 => pos < Len(data)))'
    BY <2>1
  <2> QED BY <2>2, <2>9, <2>10 DEF LinesInv
<1>6. CASE End
  <2>1. /\ data' = data /\ pos' = Len(data) /\ depth' = 0 /\ pos >= Len(data)
        /\ line' = Counted(prev, Len(data), depth)
    BY <1>6, EndIs
  <2> SUFFICES ASSUME NoComment PROVE LinesInv'
    BY <1>2, <2>1 DEF LinesInv
  <2>2. pos' = pos /\ depth = 0
    <3>1. pos <= Len(data) /\ (depth > 0 => pos < Len(data))
      BY DEF LinesInv
    <3>2. pos \in Nat /\ Len(data) \in Nat /\ pos >= Len(data)
      BY <1>1, <2>1
    <3>3. pos = Len(data)
      BY <3>1, <3>2
    <3>4. ~(depth > 0)
      BY <3>1, <3>3, <3>2
    <3>5. depth \in Nat /\ pos' = Len(data)
      BY <1>1, <2>1
    <3> QED BY <3>3, <3>4, <3>5
  <2>3. line' = line
    <3>1. prev \in Nat /\ 0 \in Nat /\ Newlines(prev, Len(data)) \in Nat
      BY <1>1, NewlinesAre DEF LexInv, Shape
    <3>2. line' = line + 0 * Newlines(prev, Len(data))
      BY <1>1, <2>1, <2>2, <3>1, CountedIs
    <3> QED BY <1>1, <3>1, <3>2, TimesIs
  <2>4. PICK e \in Token : tokens' = Append(tokens, e)
    BY <1>6, EndIs
  <2>5. Twice => Twice'
    BY <1>1, <2>1, <2>4, TwiceStays
  <2>6. Newlines(0, pos)' = Newlines(0, pos)
    BY <1>3, <2>1, <2>2
  <2>7. (pos <= Len(data) /\ (depth > 0 => pos < Len(data)))'
    BY <1>1, <2>1
  <2> QED BY <2>2, <2>3, <2>5, <2>6, <2>7 DEF LinesInv
<1>7. CASE UNCHANGED vars
  <2>1. data' = data /\ pos' = pos /\ depth' = depth /\ line' = line /\ tokens' = tokens
    BY <1>7 DEF vars
  <2>2. \A p, q : Newlines(p, q)' = Newlines(p, q)
    BY <2>1, SourceStays
  <2>3. Newlines(0, pos)' = Newlines(0, pos)
    BY <1>3, <2>1
  <2>4. Twice' <=> Twice
    BY <2>1, <2>2 DEF Twice
  <2> QED BY <1>2, <2>1, <2>3, <2>4 DEF LinesInv
<1> QED BY <1>4, <1>5, <1>6, <1>7, StepIs DEF Turn

(* Where no comment is skipped, the line reported is never before the true *)
(* one, and past it only after a token with newlines found in more than    *)
(* one call.                                                               *)
THEOREM LinesNotBehindHolds == Spec => []LinesNotBehind
<1>1. Init => LinesInv
  <2> SUFFICES ASSUME Init PROVE LinesInv
    OBVIOUS
  <2>1. pos = 0 /\ line = 1 /\ depth = 0
    BY DEF Init
  <2>2. Len(data) \in Nat
    BY LexStarts, LengthIs DEF LexInv
  <2>3. Newlines(0, pos) = 0
    <3>1. {k \in 0 + 1 .. pos : At(k) = "n"} = {}
      BY <2>1
    <3> QED BY <3>1, FS_EmptySet DEF Newlines
  <2>4. pos <= Len(data) /\ ~(depth > 0) /\ line = 1 + Newlines(0, pos)
    BY <2>1, <2>2, <2>3
  <2>5. line >= 1 + Newlines(0, pos) /\ ~(line > 1 + Newlines(0, pos))
    BY <2>1, <2>3
  <2> QED BY <2>4, <2>5 DEF LinesInv
<1>2. LexInv /\ LinesInv /\ [Next]_vars => LinesInv'
  BY LinesAreKept
<1>3. LinesInv => LinesNotBehind
  BY DEF LinesInv, LinesNotBehind, NoComment, Twice
<1> QED BY <1>1, <1>2, <1>3, LexInvHolds, PTL DEF Spec
=============================================================================
