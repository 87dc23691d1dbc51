------------------------------- MODULE VtlEval ------------------------------
(***************************************************************************)
(* The evaluation of an operator (Template.eval) and what the operators    *)
(* compute: comparison (comparison.go) and arithmetic (execute.go) of the  *)
(* values of a template, which are integers of Go's widths, signed and     *)
(* not, floats that hold fewer digits, NaN, and what is not a number.      *)
(*                                                                         *)
(* A float is the number n / 2, where n has at most Bits binary digits     *)
(* before the zeros it may end in.  What float arithmetic computes is the  *)
(* processor's affair: a result is then only known to be a float.          *)
(***************************************************************************)
EXTENDS VtlInt

CONSTANTS
  Bits,   \* 53, the digits of a float64
  None    \* not evaluated

ASSUME BitsAssumption == Bits \in Nat /\ Bits > 0

Abs(x)  == IF x < 0 THEN -x ELSE x
Sign(x) == IF x < 0 THEN -1 ELSE 1

Power[e \in Nat] == IF e = 0 THEN 1 ELSE 2 * Power[e - 1]    \* of two
Spacings == {Power[e] : e \in 0 .. Half + 1}
Limit    == Power[Bits]

(* The float nearest to n / 2, the even one of two.                        *)
Spacing(n) == CHOOSE s \in Spacings :
                Abs(n) < s * Limit /\ (s = 1 \/ Abs(n) >= (s \div 2) * Limit)
Nearest(n) ==
  LET s == Spacing(n)
      q == Abs(n) \div s
      r == Abs(n) % s
  IN Sign(n) * s * (IF 2 * r > s \/ (2 * r = s /\ q % 2 = 1) THEN q + 1 ELSE q)

Number ==
       [kind : {"int"}, n : Int64]
  \cup [kind : {"uint"}, n : Uint64]
  \cup [kind : {"float"}, n : {n \in -4 * Half .. 4 * Half : Nearest(n) = n}]
  \cup [kind : {"NaN"}, n : {0}]

(* Strings, booleans and complex numbers are compared among themselves,    *)
(* everything else (slices, maps, structs, nil) equals nothing at all.  n  *)
(* is 0 for what is empty or nil.                                          *)
Value == Number \cup [kind : {"string", "bool", "complex", "other"}, n : {0, 1}]
NoValue == [kind |-> "other", n |-> 0]
isTrue(v) == v.kind = "NaN" \/ (v.kind # "complex" /\ v.n # 0)

isInt(v)    == v.kind \in {"int", "uint"}
isFloat(v)  == v.kind \in {"float", "NaN"}
isNumber(v) == isInt(v) \/ isFloat(v)
toFloat(v)  == IF isInt(v) THEN Nearest(2 * v.n) ELSE v.n
-----------------------------------------------------------------------------
(* Two integers are compared as uint64 once none of them is negative, an   *)
(* integer and a float as floats, and with NaN nothing holds.              *)

(* Mutant: the sign is not looked at before int becomes uint64. *)
ltUnsigned(a, b) ==
  /\ "NaN" \notin {a.kind, b.kind}
  /\ \/ a.kind = b.kind /\ a.n < b.n
     \/ a.kind # b.kind /\ isInt(a) /\ isInt(b) /\ ToUint(a.n) < ToUint(b.n)
     \/ ~(isInt(a) <=> isInt(b)) /\ toFloat(a) < toFloat(b)

lt(a, b) ==
  /\ "NaN" \notin {a.kind, b.kind}
  /\ \/ a.kind = b.kind /\ a.n < b.n
     \/ a.kind = "int" /\ b.kind = "uint" /\ (a.n < 0 \/ ToUint(a.n) < b.n)
     \/ a.kind = "uint" /\ b.kind = "int" /\ b.n >= 0 /\ a.n < ToUint(b.n)
     \/ ~(isInt(a) <=> isInt(b)) /\ toFloat(a) < toFloat(b)

eq(a, b) ==
  /\ {a.kind, b.kind} \cap {"NaN", "other"} = {}
  /\ \/ a.kind = b.kind /\ a.n = b.n
     \/ a.kind = "int" /\ b.kind = "uint" /\ a.n >= 0 /\ ToUint(a.n) = b.n
     \/ a.kind = "uint" /\ b.kind = "int" /\ b.n >= 0 /\ ToUint(b.n) = a.n
     \/ ~(isInt(a) <=> isInt(b)) /\ isNumber(a) /\ isNumber(b) /\ toFloat(a) = toFloat(b)

ne(a, b) == ~eq(a, b)

le(a, b) == lt(a, b) \/ eq(a, b)

gt(a, b) == ~le(a, b)
ge(a, b) == gt(a, b) \/ eq(a, b)
-----------------------------------------------------------------------------
(* An operator gives a boolean, an int, something else ("float", "string"),*)
(* an error, or panics: Int() of reflect does on every operand that is     *)
(* unsigned, and Go's division on zero.                                    *)
Bool(b)  == [kind |-> "bool", n |-> IF b THEN 1 ELSE 0]
Result   == [kind |-> "float"]
Joined   == [kind |-> "string"]
Error(e) == [kind |-> "error", what |-> e]
Failure  == Error("other")
Panic    == [kind |-> "panic"]

AnInt(n) == [kind |-> "int", n |-> ((n + Half) % (2 * Half)) - Half]

Ints(a, b) == isInt(a) /\ isInt(b)

OnInts(a, b, result) == IF "uint" \in {a.kind, b.kind} THEN Panic ELSE result

Either(a, b, result) ==
  IF ~isNumber(a) \/ ~isNumber(b) THEN Failure
  ELSE IF Ints(a, b) THEN OnInts(a, b, result) ELSE Result

negate(a)   == Either(a, a, AnInt(-a.n))
plus(a, b)  == IF isNumber(a) /\ isNumber(b) THEN Either(a, b, AnInt(a.n + b.n)) ELSE Joined
minus(a, b) == Either(a, b, AnInt(a.n - b.n))
times(a, b) == Either(a, b, AnInt(a.n * b.n))

(* Go cuts a quotient off towards zero.                                    *)
Quotient(n, d) == Sign(n) * Sign(d) * (Abs(n) \div Abs(d))

\* Mutant: the remainder is that of a quotient rounded down.
RemainderDown(n, d) == IF d > 0 THEN n % d ELSE -((-n) % (-d))

Remainder(n, d) == n - d * Quotient(n, d)

\* Mutant: nobody looks for a zero.
divideUnguarded(a, b) ==
  Either(a, b, IF b.n = 0 THEN Panic ELSE AnInt(Quotient(a.n, b.n)))

divide(a, b) ==
  IF isNumber(a) /\ isNumber(b) /\ b.kind # "NaN" /\ toFloat(b) = 0
  THEN Failure
  ELSE Either(a, b, IF b.n = 0 THEN Panic ELSE AnInt(Quotient(a.n, b.n)))

modulo(a, b) ==
  IF ~Ints(a, b) \/ (b.kind = "int" /\ b.n = 0) THEN Failure
  ELSE OnInts(a, b, AnInt(Remainder(a.n, b.n)))

Compare(a, b, holds) == IF isNumber(a) /\ isNumber(b) THEN Bool(holds) ELSE Failure

Comparison == {"eq", "ne", "lt", "le", "gt", "ge"}
Unary      == {"not", "negate"}
Operator   == Comparison \cup Unary \cup {"+", "-", "*", "/", "%", "or", "and"}

Apply(f, a, b) ==
  CASE f = "eq" -> Bool(eq(a, b))
    [] f = "ne" -> Bool(ne(a, b))
    [] f = "lt" -> Compare(a, b, lt(a, b))
    [] f = "le" -> Compare(a, b, le(a, b))
    [] f = "gt" -> Compare(a, b, gt(a, b))
    [] f = "ge" -> Compare(a, b, ge(a, b))
    [] f = "+" -> plus(a, b)
    [] f = "-" -> minus(a, b)
    [] f = "*" -> times(a, b)
    [] f = "/" -> divide(a, b)
    [] f = "%" -> modulo(a, b)
    [] f = "or" -> Bool(isTrue(a) \/ isTrue(b))
    [] f = "and" -> Bool(isTrue(a) /\ isTrue(b))
    [] f = "not" -> Bool(~isTrue(a))
    [] f = "negate" -> negate(a)
-----------------------------------------------------------------------------
(***************************************************************************)
(* One node of an expression.  What its operands come to is given: a value *)
(* or an error, of which eval tells those of undefined variables apart     *)
(* (they are let through in the condition of an #if, undefOk) and #if      *)
(* those of a nil result as well.                                          *)
(***************************************************************************)
Err     == [kind : {"error"}, what : {"undefined", "nil", "other"}]
Outcome == Value \cup Err
Returned == [kind : {"int"}, n : Int64] \cup [kind : {"bool"}, n : {0, 1}]
              \cup Err \cup {Result, Joined, Panic}

ASSUME NoneAssumption == None \notin Value /\ None \notin Returned

VARIABLES
  op, undefOk,  \* the operator, and whether this is a condition
  left, right,  \* what the operands come to
  l, r,         \* their values as far as evaluated, None before
  result        \* what eval returns, None before

vars == <<op, undefOk, left, right, l, r, result>>

Init ==
  /\ op \in Operator /\ undefOk \in BOOLEAN
  /\ left \in Outcome
  /\ right \in (IF op \in Unary THEN {NoValue} ELSE Outcome)
  /\ l = None /\ r = None /\ result = None

Fails(o)   == o.kind = "error" /\ ~(undefOk /\ o.what = "undefined")
ValueOf(o) == IF o.kind = "error" THEN NoValue ELSE o

\* Mutant: the operands of "or" and "and" are always both evaluated.
DecidesNever(f, v) == FALSE

Decides(f, v) == (f = "or" /\ isTrue(v)) \/ (f = "and" /\ ~isTrue(v))

EvalLeft ==
  /\ l = None /\ result = None
  /\ IF Fails(left)
     THEN result' = left /\ UNCHANGED l
     ELSE /\ l' = ValueOf(left)
          /\ result' = IF Decides(op, l') THEN Bool(op = "or") ELSE None
  /\ UNCHANGED <<op, undefOk, left, right, r>>

EvalRight ==
  /\ l # None /\ result = None
  /\ IF Fails(right)
     THEN result' = right /\ UNCHANGED r
     ELSE /\ r' = ValueOf(right)
          /\ result' = Apply(op, l, r')
  /\ UNCHANGED <<op, undefOk, left, right, l>>

Next == EvalLeft \/ EvalRight

Spec == Init /\ [][Next]_vars

(* What an #if makes of its condition: whether it holds, or an error.      *)
Condition ==
  IF result.kind # "error" THEN Bool(isTrue(result))
  ELSE IF result.what = "other" THEN result ELSE Bool(FALSE)
-----------------------------------------------------------------------------
(* Types: whatever the operands, an integer result fits an int.            *)
TypeOK ==
  /\ op \in Operator /\ undefOk \in BOOLEAN /\ left \in Outcome /\ right \in Outcome
  /\ l \in Value \cup {None} /\ r \in Value \cup {None}
  /\ result \in Returned \cup {None}

(* What a number is exactly, in halves.                                    *)
Exact(v) == IF isInt(v) THEN 2 * v.n ELSE v.n
Finite(v) == isNumber(v) /\ v.kind # "NaN"
Holds    == result = Bool(TRUE)
Compared == r # None /\ Finite(l) /\ Finite(r)

(* A comparison (comparison.go:51-154) never contradicts the numbers,      *)
(* though an integer with too many digits is rounded before it meets a     *)
(* float and may then equal a number next to it.  Between two integers of  *)
(* any signs, or two floats, every comparison is exact.  Of two numbers    *)
(* exactly one of lt, eq and gt holds, the same one whoever comes first:   *)
(* gt is what le is not (comparison.go:99), so NaN is greater than every   *)
(* number, and every number greater than NaN.                              *)
OrderExact ==
  /\ Compared /\ op \in Comparison =>
       /\ (op = "lt" /\ Holds) \/ (op = "ge" /\ ~Holds) => Exact(l) < Exact(r)
       /\ (op = "gt" /\ Holds) \/ (op = "le" /\ ~Holds) => Exact(l) > Exact(r)
       /\ (op = "ne" /\ Holds) \/ (op = "eq" /\ ~Holds) => Exact(l) # Exact(r)
       /\ (isInt(l) <=> isInt(r)) =>
            /\ op = "lt" => (Holds <=> Exact(l) < Exact(r))
            /\ op = "le" => (Holds <=> Exact(l) <= Exact(r))
            /\ op = "gt" => (Holds <=> Exact(l) > Exact(r))
            /\ op = "ge" => (Holds <=> Exact(l) >= Exact(r))
            /\ op = "eq" => (Holds <=> Exact(l) = Exact(r))
            /\ op = "ne" => (Holds <=> Exact(l) # Exact(r))
  /\ r # None /\ isNumber(l) /\ isNumber(r) =>
       /\ (lt(l, r) \/ eq(l, r) <=> ~gt(l, r)) /\ ~(lt(l, r) /\ eq(l, r))
       /\ IF Compared THEN /\ lt(l, r) <=> gt(r, l)
                           /\ eq(l, r) <=> eq(r, l)
                           /\ ge(l, r) <=> le(r, l)
                      ELSE gt(l, r) /\ ge(l, r) /\ ge(r, l)

(* For all signed integers, the least one among them, "/" and "%" belong   *)
(* together (execute.go:591-617): the dividend is quotient times divisor   *)
(* plus remainder, and the remainder is smaller than the divisor and has   *)
(* the sign of the dividend.                                               *)
DivisionExact ==
  op \in {"/", "%"} /\ result # None /\ result.kind = "int" =>
    LET q == divide(l, r).n
        m == modulo(l, r).n
    IN /\ AnInt(q * r.n + m).n = l.n
       /\ Abs(m) < Abs(r.n) /\ (m # 0 => Sign(m) = Sign(l.n))

Arithmetic == {"negate", "+", "-", "*", "/", "%"}
AllNumbers == isNumber(l) /\ (op \in Unary \/ isNumber(r))
SomeNaN    == l.kind = "NaN" \/ (op \notin Unary /\ r.kind = "NaN")
ByZero     == op \in {"/", "%"} /\ Finite(r) /\ Exact(r) = 0

(* "Math is always strict: if any evaluated arith expression contains nil, *)
(* NaN or division by zero error is returned" (README.md:28-30).  That is  *)
(* so of an operand that has no value, of nil and all else that is no      *)
(* number as an operand of negate, -, *, / and %, of a % without two       *)
(* integers and of a division by zero.  It is not so of "+", which         *)
(* concatenates what is no number, nil too (execute.go:558-559), nor of a  *)
(* float that is NaN, with which all but % compute (execute.go:542-603).   *)
(* Whatever the operands, an integer result fits its type, and an operator *)
(* panics only where all operands are integers and one of them comes       *)
(* unsigned from the host.                                                 *)
OperatorsTotal ==
  /\ TypeOK
  /\ result = Panic => \/ l.kind = "uint" /\ (op \in Unary \/ isInt(r))
                       \/ r.kind = "uint" /\ isInt(l)
  /\ op \in Arithmetic /\ result # None /\ r = None => result \in Err
  /\ op \in Arithmetic /\ r # None =>
       /\ ~ AllNumbers => result = IF op = "+" THEN Joined ELSE Failure
       /\ op = "%" /\ ~ Ints(l, r) => result = Failure
       /\ ByZero /\ AllNumbers =>
            \/ result = Failure
            \/ op = "%" /\ r.kind = "uint" /\ result = Panic
       /\ AllNumbers /\ SomeNaN /\ op # "%" /\ ~ ByZero => result = Result

(* In a condition an undefined operand counts as nil (execute.go:407, 421) *)
(* and the outcome is never an error about it; a nil result of a call does *)
(* not: with "not" or "or" around it the whole condition is false.  And    *)
(* the right operand of "or" and "and" matters only when the left one has  *)
(* not decided.                                                            *)
UndefinedIsNil ==
  result # None =>
    /\ undefOk => result # Error("undefined")
    /\ undefOk /\ left = Error("nil") => Condition = Bool(FALSE)
    /\ undefOk /\ left = Error("undefined") /\ op = "not" => Condition = Bool(TRUE)
    /\ op = "or" /\ left \in Value /\ isTrue(left) => Holds
    /\ op = "and" /\ left \in Value /\ ~isTrue(left) => result = Bool(FALSE)
    /\ op = "or" /\ Holds => isTrue(ValueOf(left)) \/ isTrue(ValueOf(right))
=============================================================================
