------------------------------ MODULE VtlRange ------------------------------
(***************************************************************************)
(* Range of types.go, the operator [a..b] of execute.go that makes one,    *)
(* and the CollectionIterator that walks over it.                          *)
(*                                                                         *)
(* A range keeps its two ends and a direction; its size, its elements and  *)
(* their indices are computed in Go's int whenever they are asked for, so  *)
(* they are right only for the ranges NewRange lets through.               *)
(***************************************************************************)
EXTENDS VtlInt, Sequences

CONSTANTS
  MaxArray,   \* DefaultMaxArrayRenderSize
  None        \* no range, no array

ASSUME ArrayAssumption == MaxArray \in Nat
-----------------------------------------------------------------------------
(***************************************************************************)
(* The ends of a range as the template gives them: numbers of any type     *)
(* (a float is known by what is left when its fraction is cut off),        *)
(* strings that Atoi reads as a number, and everything else, "other".      *)
(***************************************************************************)
Float    == {"float32", "float64"}
Endpoint ==
       [kind : {"int"}, n : Int64]
  \cup [kind : {"uint"}, n : Uint64]
  \cup [kind : Float \cup {"string"}, n : -2 * Half .. 2 * Half]
  \cup [kind : {"other"}, n : {0}]
  \cup [kind : {"NaN32", "NaN64"}, n : {0}]

IsNumber(e) == e.kind # "other" /\ (e.kind = "string" => e.n \in Int64)

(* float64(MaxInt64) is 2^63, and only float64 values are looked at.       *)
OverflowsInt64(e) == e.kind = "float64" /\ (e.n > Half \/ e.n < MinInt)

(* Mutant: a float outside of int keeps its value. *)
ToIntUnchecked(e) == {e.n}

(* toInt: a float outside of int becomes whatever the processor makes of   *)
(* it (the least int on amd64, the nearest int, or 0 for NaN, on arm64).   *)
ToInt(e) ==
  IF e.kind \in {"NaN32", "NaN64"} THEN {MinInt, 0}
  ELSE IF e.kind = "uint" THEN {FromUint(e.n)}
  ELSE IF e.n \in Int64 THEN {e.n}
  ELSE {MinInt, IF e.n > 0 THEN MaxInt ELSE MinInt}
-----------------------------------------------------------------------------
Range == [start : Int64, end : Int64, diff : {1, -1}]

(* NewRange computes the distance of the ends as a uint64.                 *)
Between(a, b) ==
  IF a >= 0 /\ b < 0 THEN WrapU(ToUint(a) + ToUint(Wrap(-b)))
                      ELSE WrapU(ToUint(a) - ToUint(b))

Distance(start, end) ==
  LET flip == start <= 0 /\ end <= 0
      a == IF flip THEN Wrap(-start) ELSE start
      b == IF flip THEN Wrap(-end) ELSE end
  IN IF a < b THEN Between(b, a) ELSE Between(a, b)

\* Mutant: a range of 2^63 elements is let through.
TooLongByOne(start, end) == Distance(start, end) > MaxInt

TooLong(start, end) == Distance(start, end) > MaxInt - 1

(* Mutant: the ends are used that were swapped for the distance. *)
NewRangeSwapped(start, end) ==
  IF start > end THEN [start |-> end, end |-> start, diff |-> -1]
                 ELSE [start |-> start, end |-> end, diff |-> 1]

NewRange(start, end) == [start |-> start, end |-> end, diff |-> IF start > end THEN -1 ELSE 1]

Size(r) == Wrap(Wrap(Wrap(r.end - r.start) * r.diff) + 1)

InRange(r, i) == 0 <= i /\ i < Size(r)

\* Mutant: the direction is forgotten.
GetUp(r, i) == Wrap(r.start + i)

Get(r, i) == Wrap(r.start + Wrap(i * r.diff))

\* Mutant: the direction is forgotten.
IndexOfUp(r, v) == LET ret == Wrap(v - r.start) IN IF InRange(r, ret) THEN ret ELSE -1

IndexOf(r, v) == LET ret == Wrap(Wrap(v - r.start) * r.diff)
                 IN IF InRange(r, ret) THEN ret ELSE -1

\* Mutant: the end is not included.
ContainsHalf(r, v) == r.start <= v /\ v < r.end

Contains(r, v) == r.start <= v /\ v <= r.end
-----------------------------------------------------------------------------
VARIABLES
  from, to,   \* the operands of [a..b]
  range,      \* the *Range, None until there is one
  err,        \* the error of the last operation
  it,         \* a CollectionIterator over it: i and last
  seen,       \* what the iterator has returned
  array       \* the result of ToArray

vars == <<from, to, range, err, it, seen, array>>

Error == {"none", "NaN", "start overflows", "end overflows", "range exceeds",
          "out of range", "invalid state", "unsupported", "too large"}

Init ==
  /\ from \in Endpoint /\ to \in Endpoint
  /\ range = None /\ err = "none" /\ array = None
  /\ it = [i |-> 0, last |-> 0] /\ seen = <<>>

Refuse(e) == err' = e /\ UNCHANGED <<from, to, range, it, seen, array>>

(* The operator "range" of execute.go.                                     *)
MakeFails ==
  /\ range = None /\ err = "none"
  /\ \/ (~IsNumber(from) \/ ~IsNumber(to)) /\ Refuse("NaN")
     \/ IsNumber(from) /\ IsNumber(to) /\ OverflowsInt64(from) /\ Refuse("start overflows")
     \/ /\ IsNumber(from) /\ IsNumber(to) /\ ~OverflowsInt64(from)
        /\ OverflowsInt64(to) /\ Refuse("end overflows")

MakeRange ==
  /\ range = None /\ err = "none"
  /\ IsNumber(from) /\ IsNumber(to) /\ ~OverflowsInt64(from) /\ ~OverflowsInt64(to)
  /\ \E start \in ToInt(from), end \in ToInt(to) :
       IF TooLong(start, end)
       THEN Refuse("range exceeds")
       ELSE /\ range' = NewRange(start, end)
            /\ UNCHANGED <<from, to, err, it, seen, array>>

(* Mutant: the last element is not reached. *)
HasNextShort == it.i + 1 < Size(range)

(* CollectionIterator.Next; at the end it has nothing more to return.      *)
HasNext == it.i < Size(range)

NextElement ==
  /\ range # None /\ HasNext
  /\ it' = [i |-> it.i + 1, last |-> it.i + 1]
  /\ seen' = Append(seen, Get(range, it.i))
  /\ err' = "none"
  /\ UNCHANGED <<from, to, range, array>>

NextAtEnd == range # None /\ ~HasNext /\ Refuse("out of range")

(* A range cannot be changed: Remove fails and leaves the iterator alone.  *)
IterRemove ==
  range # None /\ Refuse(IF it.last = 0 THEN "invalid state" ELSE "unsupported")

ToArray ==
  /\ range # None
  /\ IF Size(range) > MaxArray
     THEN Refuse("too large")
     ELSE /\ array' = [k \in 1 .. Size(range) |-> Get(range, k - 1)]
          /\ err' = "none"
          /\ UNCHANGED <<from, to, range, it, seen>>

Next == MakeFails \/ MakeRange \/ NextElement \/ NextAtEnd \/ IterRemove \/ ToArray

Spec == Init /\ [][Next]_vars

(* A #foreach over the range asks for the next element until there is none. *)
Fairness == WF_vars(MakeFails \/ MakeRange) /\ WF_vars(NextElement)
FairSpec == Spec /\ Fairness
-----------------------------------------------------------------------------
(* Types: a range has ends that are ints and a direction, an iterator      *)
(* never counts past the largest int.                                      *)
TypeOK ==
  /\ from \in Endpoint /\ to \in Endpoint
  /\ range \in Range \cup {None}
  /\ err \in Error
  /\ it \in [i : 0 .. MaxInt, last : 0 .. MaxInt]
  /\ seen \in Seq(Int64)
  /\ array \in Seq(Int64) \cup {None}

(* The exact distance of the ends and the exact element, without wrapping. *)
Exact(r) == IF r.end >= r.start THEN r.end - r.start ELSE r.start - r.end
Element(r, k) == r.start + k * r.diff

(* "range exceeds maximum length" (types.go:902) is said of ranges that do *)
(* and, whatever their length, of those between the least int and a number *)
(* that is not positive; all others run between the ends given, wherever   *)
(* an int can hold these.                                                  *)
HasEnd(e, n) == e.kind \notin {"NaN32", "NaN64"} /\ e.n \in Int64 => n = e.n

EndsExact ==
  /\ err = "range exceeds" =>
       \E start \in ToInt(from), end \in ToInt(to) :
         \/ start - end > MaxInt - 1 \/ end - start > MaxInt - 1
         \/ MinInt \in {start, end} /\ start <= 0 /\ end <= 0
  /\ range # None => HasEnd(from, range.start) /\ HasEnd(to, range.end)

(* Whatever NewRange accepts has a size an int can hold, and Size computes *)
(* it exactly: no range comes out empty or of negative size by wrapping.   *)
SizeExact == range # None => Size(range) = Exact(range) + 1 /\ Size(range) \in 1 .. MaxInt

(* IndexOf wraps for values far from the range and never takes one of them *)
(* for an element: it is the position of v where there is one, and -1.     *)
IndexExact ==
  range # None =>
    \A v \in Int64 :
      LET k == IndexOf(range, v)
      IN IF k = -1 THEN \A j \in 0 .. Exact(range) : Element(range, j) # v
                   ELSE k \in 0 .. Exact(range) /\ Element(range, k) = v

(* Contains compares with the ends as they stand: in a range that goes up  *)
(* it finds the elements and nothing else, and in one that goes down it    *)
(* finds nothing, whatever IndexOf says.                                   *)
ContainsExact ==
  range # None =>
    \A v \in Int64 : Contains(range, v) <=> range.diff = 1 /\ IndexOf(range, v) # -1

(* An iterator returns the elements in order, each once, from the start of *)
(* the range to its end, and so does ToArray.                              *)
WalkExact ==
  range # None =>
    /\ Len(seen) = it.i /\ it.i <= Exact(range) + 1
    /\ \A k \in DOMAIN seen : seen[k] = Element(range, k - 1)
    /\ it.i = Exact(range) + 1 => seen[it.i] = range.end
    /\ array # None => /\ Len(array) = Exact(range) + 1
                       /\ \A k \in DOMAIN array : array[k] = Element(range, k - 1)

(* Every walk over a range comes to an end, at the range's end.            *)
WalkEnds == [](range # None => <>(seen # <<>> /\ seen[Len(seen)] = range.end))
=============================================================================
