--------------------------- MODULE VtlRangeProofs ---------------------------
(***************************************************************************)
(* What NewRange accepts, for every width of the integers.                 *)
(*                                                                         *)
(* All the operations compute in wrapping arithmetic.  The lemma           *)
(* DistanceExact shows that the distance NewRange computes is the exact    *)
(* one for every range it accepts, and from the bound on the distance      *)
(* follow, by linear arithmetic, size, elements and indices.               *)
(***************************************************************************)
EXTENDS VtlRange, TLAPS

(* A range NewRange has made from two ends it accepts.                     *)
Accepted(r) ==
  /\ r \in Range
  /\ ~ TooLong(r.start, r.end)
  /\ r = NewRange(r.start, r.end)

(* The unsigned difference of two ints, the larger one first, is exact.    *)
LEMMA BetweenExact ==
  ASSUME NEW a \in Int64, NEW b \in Int64, b <= a
  PROVE  Between(a, b) = a - b
<1> USE HalfAssumption DEF Int64, MaxInt, MinInt
<1>1. ToUint(a) = (IF a < 0 THEN a + 2 * Half ELSE a) /\ a < Half /\ -Half <= a
  BY DEF ToUint, WrapU
<1>2. ToUint(b) = (IF b < 0 THEN b + 2 * Half ELSE b) /\ b < Half /\ -Half <= b
  BY DEF ToUint, WrapU
<1>3. CASE a >= 0 /\ b < 0
  <2>1. ToUint(Wrap(-b)) = -b
    BY <1>2, <1>3 DEF ToUint, WrapU, Wrap
  <2>2. Between(a, b) = WrapU(a + -b)
    BY <1>1, <1>3, <2>1 DEF Between
  <2>3. QED
    BY <1>1, <1>2, <1>3, <2>2 DEF WrapU
<1>4. CASE ~(a >= 0 /\ b < 0)
  <2>1. Between(a, b) = WrapU(ToUint(a) - ToUint(b))
    BY <1>4 DEF Between
  <2>2. QED
    BY <1>1, <1>2, <1>4, <2>1 DEF WrapU
<1>5. QED
  BY <1>3, <1>4

(* The ends of an accepted range are less than MaxInt apart: where a least *)
(* int is negated onto itself the distance comes out too large, never too  *)
(* small.                                                                  *)
LEMMA DistanceExact ==
  ASSUME NEW start \in Int64, NEW end \in Int64, ~ TooLong(start, end)
  PROVE  start - end < MaxInt /\ end - start < MaxInt
<1> DEFINE flip == start <= 0 /\ end <= 0
           a == IF flip THEN Wrap(-start) ELSE start
           b == IF flip THEN Wrap(-end) ELSE end
<1>0. Half \in Int /\ start \in Int /\ end \in Int
  BY HalfAssumption DEF Int64
<1>1. a \in Int64 /\ b \in Int64
  BY HalfAssumption DEF Wrap, Int64, MaxInt, MinInt
<1>2. \/ a = start /\ b = end
      \/ a = -start /\ b = -end
      \/ flip /\ start = MinInt
      \/ flip /\ end = MinInt
  <2>1. CASE ~ flip
    BY <1>0, <2>1
  <2>2. CASE flip /\ start # MinInt /\ end # MinInt
    <3>1. -start \in 0 .. MaxInt /\ -end \in 0 .. MaxInt
      BY <1>0, <2>2, HalfAssumption DEF Int64, MaxInt, MinInt
    <3>2. QED
      BY <1>0, <2>2, <3>1, HalfAssumption DEF Wrap, MaxInt, MinInt
  <2>3. QED
    BY <2>1, <2>2
<1>3. ~ (Distance(start, end) > MaxInt - 1)
  BY DEF TooLong
<1>4. Distance(start, end) = IF a < b THEN Between(b, a) ELSE Between(a, b)
  BY DEF Distance
<1>5. Distance(start, end) = IF a < b THEN b - a ELSE a - b
  <2> HIDE DEF a, b
  <2>1. CASE a < b
    BY <1>1, <1>4, <2>1, BetweenExact DEF Int64
  <2>2. CASE ~(a < b)
    BY <1>1, <1>4, <2>2, BetweenExact DEF Int64
  <2>3. QED
    BY <2>1, <2>2
<1>6. CASE \/ a = start /\ b = end
           \/ a = -start /\ b = -end
  <2> HIDE DEF a, b
  <2>1. QED
    BY <1>0, <1>3, <1>5, <1>6, HalfAssumption DEF MaxInt
<1>7. CASE flip /\ start = MinInt
  <2>1. a = MinInt
    BY <1>0, <1>7, HalfAssumption DEF Wrap, MaxInt, MinInt
  <2>2. b = IF end = MinInt THEN MinInt ELSE -end
    BY <1>0, <1>7, HalfAssumption DEF Wrap, Int64, MaxInt, MinInt
  <2> HIDE DEF a, b
  <2>3. QED
    BY <1>0, <1>3, <1>5, <1>7, <2>1, <2>2, HalfAssumption DEF MaxInt, MinInt, Int64
<1>8. CASE flip /\ end = MinInt
  <2>1. b = MinInt
    BY <1>0, <1>8, HalfAssumption DEF Wrap, MaxInt, MinInt
  <2>2. a = IF start = MinInt THEN MinInt ELSE -start
    BY <1>0, <1>8, HalfAssumption DEF Wrap, Int64, MaxInt, MinInt
  <2> HIDE DEF a, b
  <2>3. QED
    BY <1>0, <1>3, <1>5, <1>8, <2>1, <2>2, HalfAssumption DEF MaxInt, MinInt, Int64
<1>9. QED
  BY <1>2, <1>6, <1>7, <1>8

(* Unless the least int is negated, the distance is that of the ends.      *)
LEMMA DistanceOfEnds ==
  ASSUME NEW start \in Int64, NEW end \in Int64,
         ~ (MinInt \in {start, end} /\ start <= 0 /\ end <= 0)
  PROVE  Distance(start, end) = IF start < end THEN end - start ELSE start - end
<1> DEFINE flip == start <= 0 /\ end <= 0
           a == IF flip THEN Wrap(-start) ELSE start
           b == IF flip THEN Wrap(-end) ELSE end
<1>0. Half \in Int /\ start \in Int /\ end \in Int
  BY HalfAssumption DEF Int64
<1>1. Distance(start, end) = IF a < b THEN Between(b, a) ELSE Between(a, b)
  BY DEF Distance
<1>2. a \in Int64 /\ b \in Int64
  BY HalfAssumption DEF Wrap, Int64, MaxInt, MinInt
<1>3. \/ a = start /\ b = end
      \/ a = -start /\ b = -end
  <2>1. CASE ~ flip
    BY <1>0, <2>1
  <2>2. CASE flip
    <3>1. -start \in 0 .. MaxInt /\ -end \in 0 .. MaxInt
      BY <1>0, <2>2, HalfAssumption DEF Int64, MaxInt, MinInt
    <3>2. QED
      BY <1>0, <2>2, <3>1, HalfAssumption DEF Wrap, MaxInt, MinInt
  <2>3. QED
    BY <2>1, <2>2
<1> HIDE DEF a, b
<1>4. Distance(start, end) = IF a < b THEN b - a ELSE a - b
  <2>1. CASE a < b
    BY <1>1, <1>2, <2>1, BetweenExact DEF Int64
  <2>2. CASE ~(a < b)
    BY <1>1, <1>2, <2>2, BetweenExact DEF Int64
  <2>3. QED
    BY <2>1, <2>2
<1>5. QED
  BY <1>0, <1>3, <1>4

(* The direction leads from the start to the end, in Exact steps.          *)
LEMMA AcceptedBounds ==
  ASSUME NEW r, Accepted(r)
  PROVE  /\ r.start \in Int64 /\ r.end \in Int64
         /\ Exact(r) \in 0 .. MaxInt - 1
         /\ \/ r.diff = 1 /\ r.start <= r.end /\ r.end = r.start + Exact(r)
            \/ r.diff = -1 /\ r.start > r.end /\ r.end = r.start - Exact(r)
<1>1. r.start \in Int64 /\ r.end \in Int64
  BY DEF Accepted, Range
<1>2. r.start - r.end < MaxInt /\ r.end - r.start < MaxInt
  BY <1>1, DistanceExact DEF Accepted
<1>3. r.diff = IF r.start > r.end THEN -1 ELSE 1
  BY DEF Accepted, NewRange
<1>4. QED
  BY <1>1, <1>2, <1>3, HalfAssumption DEF Exact, Int64, MaxInt

(* Size does not wrap for an accepted range.                               *)
LEMMA SizeOfAccepted ==
  ASSUME NEW r, Accepted(r)
  PROVE  Size(r) = Exact(r) + 1 /\ Size(r) \in 1 .. MaxInt
<1>1. CASE r.diff = 1
  BY <1>1, AcceptedBounds, HalfAssumption DEF Size, Wrap, Int64, MaxInt, MinInt
<1>2. CASE r.diff = -1
  BY <1>2, AcceptedBounds, HalfAssumption DEF Size, Wrap, Int64, MaxInt, MinInt
<1>3. QED
  BY <1>1, <1>2, AcceptedBounds

(* Get does not wrap for an index of an accepted range.                    *)
LEMMA GetOfAccepted ==
  ASSUME NEW r, Accepted(r), NEW k \in 0 .. Exact(r)
  PROVE  Get(r, k) = Element(r, k) /\ Get(r, k) \in Int64
<1>1. CASE r.diff = 1
  BY <1>1, AcceptedBounds, HalfAssumption DEF Get, Element, Wrap, Int64, MaxInt, MinInt
<1>2. CASE r.diff = -1
  BY <1>2, AcceptedBounds, HalfAssumption DEF Get, Element, Wrap, Int64, MaxInt, MinInt
<1>3. QED
  BY <1>1, <1>2, AcceptedBounds

(* IndexOf may wrap, and then it is out of the range's indices.            *)
LEMMA IndexOfAccepted ==
  ASSUME NEW r, Accepted(r), NEW v \in Int64
  PROVE  LET k == IndexOf(r, v)
         IN IF k = -1 THEN \A j \in 0 .. Exact(r) : Element(r, j) # v
                      ELSE k \in 0 .. Exact(r) /\ Element(r, k) = v
<1> DEFINE ret == Wrap(Wrap(v - r.start) * r.diff)
<1>1. /\ Size(r) = Exact(r) + 1 /\ Exact(r) \in 0 .. MaxInt - 1
      /\ r.start \in Int64 /\ r.end \in Int64
      /\ r.diff \in {1, -1}
  BY AcceptedBounds, SizeOfAccepted
<1>2. ret \in Int64
  BY <1>1, HalfAssumption DEF Wrap, Int64, MaxInt, MinInt
<1>3. ASSUME NEW j \in 0 .. Exact(r), Element(r, j) = v
      PROVE  ret = j
  <2>1. CASE r.diff = 1
    BY <1>1, <1>3, <2>1, HalfAssumption DEF Element, Wrap, Int64, MaxInt, MinInt
  <2>2. CASE r.diff = -1
    BY <1>1, <1>3, <2>2, HalfAssumption DEF Element, Wrap, Int64, MaxInt, MinInt
  <2>3. QED
    BY <1>1, <2>1, <2>2
<1>4. ASSUME ret \in 0 .. Exact(r)
      PROVE  Element(r, ret) = v
  <2>1. CASE r.diff = 1
    <3>1. r.start <= r.end /\ r.end = r.start + Exact(r)
      BY <2>1, AcceptedBounds
    <3>2. ret = v - r.start
      BY <1>1, <1>4, <2>1, <3>1, HalfAssumption DEF Wrap, Int64, MaxInt, MinInt
    <3>3. QED
      BY <1>1, <2>1, <3>2 DEF Element, Int64
  <2>2. CASE r.diff = -1
    <3>1. r.start > r.end /\ r.end = r.start - Exact(r)
      BY <2>2, AcceptedBounds
    <3>2. ret = r.start - v
      BY <1>1, <1>4, <2>2, <3>1, HalfAssumption DEF Wrap, Int64, MaxInt, MinInt
    <3>3. QED
      BY <1>1, <2>2, <3>2 DEF Element, Int64
  <2>3. QED
    BY <1>1, <2>1, <2>2
<1>5. IndexOf(r, v) = IF ret \in 0 .. Exact(r) THEN ret ELSE -1
  BY <1>1, <1>2 DEF IndexOf, InRange, Int64
<1> HIDE DEF ret
<1>6. QED
  BY <1>1, <1>3, <1>4, <1>5

(* Contains says what IndexOf says in a range that goes up, and no in one  *)
(* that goes down.                                                         *)
LEMMA ContainsOfAccepted ==
  ASSUME NEW r, Accepted(r), NEW v \in Int64
  PROVE  Contains(r, v) <=> r.diff = 1 /\ IndexOf(r, v) # -1
<1>1. CASE r.diff = 1
  <2>1. Contains(r, v) <=> v - r.start \in 0 .. Exact(r)
    BY <1>1, AcceptedBounds DEF Contains, Int64
  <2>2. \A j \in 0 .. Exact(r) : Element(r, j) = r.start + j
    BY <1>1, AcceptedBounds DEF Element, Int64
  <2>3. \A j \in 0 .. Exact(r) : r.start + j = v => j = v - r.start
    BY AcceptedBounds DEF Int64
  <2>4. r.start + (v - r.start) = v
    BY AcceptedBounds DEF Int64
  <2>5. \A j \in 0 .. Exact(r) : j # -1
    OBVIOUS
  <2>6. QED
    BY <1>1, <2>1, <2>2, <2>3, <2>4, <2>5, IndexOfAccepted
<1>2. CASE r.diff = -1
  BY <1>2, AcceptedBounds DEF Contains, Int64
<1>3. QED
  BY <1>1, <1>2, AcceptedBounds
-----------------------------------------------------------------------------
(* The inductive invariant: a range is one NewRange has accepted, and what *)
(* the iterator and ToArray have returned are its elements in order.       *)
Fresh == it = [i |-> 0, last |-> 0] /\ seen = <<>> /\ array = None

Inv ==
  /\ TypeOK
  /\ range # None => Accepted(range)
  /\ range = None => Fresh
  /\ WalkExact

(* toInt gives an int for every number that passes the checks.             *)
LEMMA ToIntIsInt ==
  ASSUME NEW e \in Endpoint, NEW n \in ToInt(e), IsNumber(e)
  PROVE  n \in Int64
BY HalfAssumption
   DEF ToInt, Endpoint, FromUint, Wrap, Int64, Uint64, MaxInt, MinInt, Float, IsNumber

(* It gives the number itself where an int can hold that.                  *)
LEMMA ToIntHasEnd ==
  ASSUME NEW e, NEW n \in ToInt(e)
  PROVE  HasEnd(e, n)
<1> SUFFICES ASSUME e.kind \notin {"NaN32", "NaN64"}, e.n \in Int64
             PROVE  n = e.n
  BY DEF HasEnd
<1>1. FromUint(e.n) = e.n
  BY HalfAssumption DEF FromUint, Wrap, Int64, MaxInt, MinInt
<1>2. QED
  BY <1>1 DEF ToInt

(* Nothing has been made yet.                                              *)
LEMMA InitInv == Init => Inv
BY HalfAssumption DEF Init, Inv, Fresh, TypeOK, Error, WalkExact, MaxInt

(* A step that fails changes nothing but err.                              *)
LEMMA RefuseInv ==
  ASSUME Inv, NEW e \in Error, Refuse(e)
  PROVE  Inv'
BY DEF Inv, Fresh, Accepted, TypeOK, WalkExact, Refuse

(* Every step keeps the invariant.                                         *)
LEMMA NextInv == Inv /\ [Next]_vars => Inv'
<1> SUFFICES ASSUME Inv, [Next]_vars PROVE Inv'
  OBVIOUS
<1>1. CASE MakeFails
  BY <1>1, RefuseInv DEF MakeFails, Error
<1>2. CASE MakeRange
  <2>1. PICK start \in ToInt(from), end \in ToInt(to) :
          IF TooLong(start, end)
          THEN Refuse("range exceeds")
          ELSE /\ range' = NewRange(start, end)
               /\ UNCHANGED <<from, to, err, it, seen, array>>
    BY <1>2 DEF MakeRange
  <2>2. start \in Int64 /\ end \in Int64
    BY <1>2, ToIntIsInt DEF MakeRange, Inv, TypeOK
  <2>3. CASE TooLong(start, end)
    BY <2>1, <2>3, RefuseInv DEF Error
  <2>4. CASE ~ TooLong(start, end)
    <3>1. Accepted(range')
      BY <2>1, <2>2, <2>4 DEF Accepted, NewRange, Range
    <3>2. Fresh /\ UNCHANGED <<from, to, err, it, seen, array>>
      BY <1>2, <2>1, <2>4 DEF Inv, MakeRange
    <3>3. range' \in Range
      BY <3>1 DEF Accepted
    <3>4. TypeOK'
      BY <3>2, <3>3 DEF Inv, TypeOK
    <3>5. Exact(range') \in 0 .. MaxInt - 1
      BY <3>1, AcceptedBounds
    <3>6. it'.i = 0 /\ Len(seen') = 0 /\ DOMAIN seen' = {} /\ array' = None
      BY <3>2 DEF Fresh
    <3>7. WalkExact'
      BY <3>5, <3>6 DEF WalkExact, MaxInt
    <3>8. QED
      BY <3>1, <3>2, <3>4, <3>7 DEF Inv, Fresh
  <2>5. QED
    BY <2>3, <2>4
<1>3. CASE NextElement
  <2> DEFINE k == it.i
  <2>1. /\ range # None /\ k < Size(range) /\ UNCHANGED <<from, to, range, array>>
        /\ it' = [i |-> k + 1, last |-> k + 1] /\ err' = "none"
        /\ seen' = Append(seen, Get(range, k))
    BY <1>3 DEF NextElement, HasNext
  <2>2. Accepted(range) /\ TypeOK /\ WalkExact
    BY <2>1 DEF Inv
  <2>3. k \in Nat /\ seen \in Seq(Int64) /\ Len(seen) = k
    BY <2>1, <2>2 DEF TypeOK, WalkExact
  <2>4. Size(range) = Exact(range) + 1 /\ Exact(range) \in 0 .. MaxInt - 1
    BY <2>2, SizeOfAccepted, AcceptedBounds
  <2>5. k \in 0 .. Exact(range)
    BY <2>1, <2>3, <2>4
  <2>6. Get(range, k) = Element(range, k) /\ Get(range, k) \in Int64
    BY <2>2, <2>5, GetOfAccepted
  <2>7. k = Exact(range) => Element(range, k) = range.end
    BY <2>2, AcceptedBounds DEF Element, Int64
  <2>8. it' \in [i : 0 .. MaxInt, last : 0 .. MaxInt]
    BY <2>1, <2>4, <2>5, HalfAssumption DEF MaxInt
  <2>9. TypeOK'
    <3>1. seen' \in Seq(Int64)
      BY <2>1, <2>3, <2>6
    <3>2. UNCHANGED <<from, to, range, array>> /\ err' = "none"
      BY <2>1
    <3>3. QED
      BY <2>2, <2>8, <3>1, <3>2 DEF TypeOK, Error
  <2> HIDE DEF k
  <2>10. /\ Len(seen') = k + 1 /\ DOMAIN seen' = 1 .. k + 1
         /\ \A j \in 1 .. k : seen'[j] = seen[j]
         /\ seen'[k + 1] = Element(range, k)
    BY <2>1, <2>3, <2>6
  <2>11. \A j \in 1 .. k : seen[j] = Element(range, j - 1)
    BY <2>1, <2>2, <2>3 DEF WalkExact
  <2>12. \A j \in 1 .. k + 1 : seen'[j] = Element(range, j - 1)
    <3> SUFFICES ASSUME NEW j \in 1 .. k + 1 PROVE seen'[j] = Element(range, j - 1)
      OBVIOUS
    <3>1. CASE j = k + 1
      BY <2>3, <2>10, <3>1
    <3>2. CASE j \in 1 .. k
      BY <2>10, <2>11, <3>2
    <3>3. QED
      BY <2>3, <3>1, <3>2
  <2>13. k + 1 = Exact(range) + 1 => seen'[k + 1] = range.end
    BY <2>3, <2>4, <2>7, <2>10
  <2>14. WalkExact'
    <3>1. it'.i = k + 1 /\ k + 1 <= Exact(range) + 1
      BY <2>1, <2>4, <2>5
    <3>2. array # None => /\ Len(array) = Exact(range) + 1
                          /\ \A j \in DOMAIN array : array[j] = Element(range, j - 1)
      BY <2>1, <2>2 DEF WalkExact
    <3>3. QED
      BY <2>1, <2>10, <2>12, <2>13, <3>1, <3>2 DEF WalkExact
  <2>15. QED
    BY <2>1, <2>2, <2>9, <2>14 DEF Inv
<1>4. CASE NextAtEnd
  BY <1>4, RefuseInv DEF NextAtEnd, Error
<1>5. CASE IterRemove
  BY <1>5, RefuseInv DEF IterRemove, Error
<1>6. CASE ToArray
  <2>1. CASE Size(range) > MaxArray
    BY <1>6, <2>1, RefuseInv DEF ToArray, Error
  <2>2. CASE ~ (Size(range) > MaxArray)
    <3>1. /\ range # None /\ UNCHANGED <<from, to, range, it, seen>> /\ err' = "none"
          /\ array' = [k \in 1 .. Size(range) |-> Get(range, k - 1)]
      BY <1>6, <2>2 DEF ToArray
    <3>2. Accepted(range) /\ TypeOK /\ WalkExact
      BY <3>1 DEF Inv
    <3>3. Size(range) = Exact(range) + 1 /\ Exact(range) \in Nat
      BY <3>2, SizeOfAccepted, AcceptedBounds
    <3>4. \A k \in 1 .. Size(range) : k - 1 \in 0 .. Exact(range)
      BY <3>3
    <3>5. \A k \in 1 .. Size(range) :
             Get(range, k - 1) = Element(range, k - 1) /\ Get(range, k - 1) \in Int64
      BY <3>2, <3>4, GetOfAccepted
    <3>6. array' \in Seq(Int64) /\ Len(array') = Exact(range) + 1
          /\ DOMAIN array' = 1 .. Size(range)
      BY <3>1, <3>3, <3>5
    <3>7. TypeOK'
      <4>1. UNCHANGED <<from, to, range, it, seen>> /\ err' = "none"
        BY <3>1
      <4>2. array' \in Seq(Int64) \cup {None}
        BY <3>6
      <4>3. QED
        BY <3>2, <4>1, <4>2 DEF TypeOK, Error
    <3>8. \A k \in DOMAIN array' : array'[k] = Element(range, k - 1)
      BY <3>1, <3>5
    <3>9. WalkExact'
      BY <3>1, <3>2, <3>6, <3>8 DEF WalkExact
    <3>10. QED
      BY <3>1, <3>2, <3>7, <3>9 DEF Inv
  <2>3. QED
    BY <2>1, <2>2
<1>7. CASE UNCHANGED vars
  BY <1>7 DEF vars, Inv, Fresh, TypeOK, WalkExact
<1>8. QED
  BY <1>1, <1>2, <1>3, <1>4, <1>5, <1>6, <1>7 DEF Next

(* Only accepted ranges, walked in order, for every width.                 *)
THEOREM InvInvariant == Spec => []Inv
<1>1. QED
  BY InitInv, NextInv, PTL DEF Spec

(* Every variable keeps its type.                                          *)
THEOREM TypeCorrect == Spec => []TypeOK
<1>1. Inv => TypeOK
  BY DEF Inv
<1>2. QED
  BY <1>1, InvInvariant, PTL

(* Only MakeRange looks at the ends, which nothing changes afterwards.     *)
LEMMA NextEnds == Inv /\ EndsExact /\ [Next]_vars => EndsExact'
<1> SUFFICES ASSUME Inv, EndsExact, [Next]_vars PROVE EndsExact'
  OBVIOUS
<1>1. ASSUME NEW e, e # "range exceeds", Refuse(e) PROVE EndsExact'
  BY <1>1 DEF EndsExact, HasEnd, ToInt, Refuse
<1>2. ASSUME UNCHANGED <<from, to, range>>, err' \in {err, "none"} PROVE EndsExact'
  BY <1>2 DEF EndsExact, HasEnd, ToInt
<1>3. CASE MakeFails
  BY <1>1, <1>3 DEF MakeFails
<1>4. CASE MakeRange
  <2>1. PICK start \in ToInt(from), end \in ToInt(to) :
          IF TooLong(start, end)
          THEN Refuse("range exceeds")
          ELSE /\ range' = NewRange(start, end)
               /\ UNCHANGED <<from, to, err, it, seen, array>>
    BY <1>4 DEF MakeRange
  <2>2. start \in Int64 /\ end \in Int64 /\ range = None /\ err = "none"
    BY <1>4, ToIntIsInt DEF MakeRange, Inv, TypeOK
  <2>3. UNCHANGED <<from, to>>
    BY <2>1 DEF Refuse
  <2>4. CASE TooLong(start, end)
    <3>1. range' = None
      BY <2>1, <2>2, <2>4 DEF Refuse
    <3>2. \/ start - end > MaxInt - 1 \/ end - start > MaxInt - 1
          \/ MinInt \in {start, end} /\ start <= 0 /\ end <= 0
      BY <2>2, <2>4, DistanceOfEnds DEF TooLong
    <3>3. start \in ToInt(from)' /\ end \in ToInt(to)'
      BY <2>1, <2>3 DEF ToInt
    <3>4. QED
      BY <3>1, <3>2, <3>3 DEF EndsExact
  <2>5. CASE ~ TooLong(start, end)
    <3>1. err' = "none" /\ range'.start = start /\ range'.end = end
      BY <2>1, <2>2, <2>5 DEF NewRange
    <3>2. HasEnd(from, start) /\ HasEnd(to, end)
      BY ToIntHasEnd
    <3>3. QED
      BY <2>3, <3>1, <3>2 DEF EndsExact, HasEnd
  <2>6. QED
    BY <2>4, <2>5
<1>5. CASE NextElement
  BY <1>2, <1>5 DEF NextElement
<1>6. CASE NextAtEnd
  BY <1>1, <1>6 DEF NextAtEnd
<1>7. CASE IterRemove
  BY <1>1, <1>7 DEF IterRemove
<1>8. CASE ToArray
  <2>1. CASE Size(range) > MaxArray
    BY <1>1, <1>8, <2>1 DEF ToArray
  <2>2. CASE ~ (Size(range) > MaxArray)
    BY <1>2, <1>8, <2>2 DEF ToArray
  <2>3. QED
    BY <2>1, <2>2
<1>9. CASE UNCHANGED vars
  BY <1>2, <1>9 DEF vars
<1>10. QED
  BY <1>3, <1>4, <1>5, <1>6, <1>7, <1>8, <1>9 DEF Next

(* A range is refused as too long only if it is, or if the least int was   *)
(* negated; otherwise it has the ends that were given for it.              *)
THEOREM EndsAreExact == Spec => []EndsExact
<1>1. Init => EndsExact
  BY DEF Init, EndsExact
<1>2. QED
  BY <1>1, InvInvariant, NextEnds, PTL DEF Spec

(* The size of a range NewRange has accepted is exact and positive.        *)
THEOREM SizeIsExact == Spec => []SizeExact
<1>1. Inv => SizeExact
  BY SizeOfAccepted DEF Inv, SizeExact
<1>2. QED
  BY <1>1, InvInvariant, PTL

(* IndexOf finds exactly the elements, although it wraps.                  *)
THEOREM IndexIsExact == Spec => []IndexExact
<1>1. Inv => IndexExact
  BY IndexOfAccepted DEF Inv, IndexExact
<1>2. QED
  BY <1>1, InvInvariant, PTL

(* Contains finds the elements of a range that goes up and no others.      *)
THEOREM ContainsIsExact == Spec => []ContainsExact
<1>1. Inv => ContainsExact
  BY ContainsOfAccepted DEF Inv, ContainsExact
<1>2. QED
  BY <1>1, InvInvariant, PTL

(* Iterator and ToArray return the elements in order.                      *)
THEOREM WalkIsExact == Spec => []WalkExact
<1>1. Inv => WalkExact
  BY DEF Inv
<1>2. QED
  BY <1>1, InvInvariant, PTL
=============================================================================
