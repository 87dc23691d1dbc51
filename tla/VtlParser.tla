------------------------------ MODULE VtlParser -----------------------------
(***************************************************************************)
(* The parser's directives (parser.go.y and the code in parser.go goyacc   *)
(* makes of it) and Parse, which gobbles what the parser returns.          *)
(*                                                                         *)
(* The source is fed character by character: "x", "n" and "s" are text (a  *)
(* solid character, a newline, a space), and every other letter stands for *)
(* a tag: "R" a reference, "D" a directive that stands alone, "C" a macro  *)
(* call #m(), "I", "F" and "M" the opening of an #if, a #foreach and a     *)
(* #macro(m), "L" an #elseif, "E" an #else and "Z" an #end.                *)
(***************************************************************************)
EXTENDS VtlGobble, SequencesExt

CONSTANT Allowed(_)    \* the sources considered, and all their prefixes

Chars   == {"x", "n", "s"}
Openers == {"I", "F", "M"}

VARIABLES
  doc,     \* the source so far
  stack,   \* the directives that are open, the template first
  macros,  \* what the lexer knows as macros (Lexer.macros)
  outcome, \* "parsing", "ok", "error"
  ast,     \* what the parser returns
  tree     \* and Parse, after gobbling

vars == <<doc, stack, macros, outcome, ast, tree>>

(* An open directive: where its list is in the grammar (part), the list    *)
(* being read, and the lists already read.                                 *)
Opened(c, p) == [c |-> c, at |-> p, part |-> "items", branch |-> p,
                 list |-> <<>>, items |-> <<>>, chain |-> <<>>]

Init ==
  /\ doc = <<>> /\ stack = <<Opened("T", 0)>>
  /\ macros \in SUBSET {"m"}       \* those of the library
  /\ outcome = "parsing" /\ ast = <<>> /\ tree = <<>>

Current  == Last(stack)
Here(c)  == [c |-> c, p |-> Len(doc) + 1]
Reads(c) == outcome = "parsing" /\ Allowed(Append(doc, c)) /\ doc' = Append(doc, c)
Put(n)   == stack' = [stack EXCEPT ![Len(stack)].list = Append(@, n)]
Going    == UNCHANGED <<outcome, ast, tree>>

Leaf(type, c) == [type |-> type, at |-> <<Here(c)>>]

(* A text joins the one before it.                                         *)
PutText(c) ==
  LET l == Current.list IN
  IF l # <<>> /\ IsText(Last(l))
  THEN stack' = [stack EXCEPT ![Len(stack)].list[Len(l)].at = Append(@, Here(c))]
  ELSE Put(Leaf("text", c))

Text      == \E c \in Chars : Reads(c) /\ PutText(c) /\ Going /\ UNCHANGED macros
Reference == Reads("R") /\ Put(Leaf("ref", "R")) /\ Going /\ UNCHANGED macros
Directive == Reads("D") /\ Put(Leaf("leaf", "D")) /\ Going /\ UNCHANGED macros

(* The lexer takes #m() for text as long as it knows no macro m.           *)
Call ==
  /\ Reads("C") /\ Going /\ UNCHANGED macros
  /\ IF "m" \in macros THEN Put(Leaf("leaf", "C")) ELSE PutText("x")

(* The header alone makes m known, before its body is read.                *)
Open ==
  \E c \in Openers :
    /\ Reads(c) /\ Going
    /\ stack' = Append(stack, Opened(c, Len(doc) + 1))
    /\ macros' = macros \cup (IF c = "M" THEN {"m"} ELSE {})
-----------------------------------------------------------------------------
Branch(f) == [at |-> f.branch, items |-> f.list]

(* An #elseif is attached to the first of the chain, and takes the place   *)
(* of whatever is attached there; an #else goes to the end of the chain.   *)
AddElseif(chain, b) == IF chain = <<>> THEN <<b>> ELSE <<chain[1], b>>

(* Mutant: the #else is attached like an #elseif. *)
AddElseToFirst(chain, b) == IF chain = <<>> THEN <<b>> ELSE <<chain[1], b>>

AddElse(chain, b) == Append(chain, b)

Closed(f) ==
  CASE f.part = "items"  -> [f EXCEPT !.items = f.list]
    [] f.part = "elseif" -> [f EXCEPT !.chain = AddElseif(@, Branch(f))]
    [] f.part = "else"   -> [f EXCEPT !.chain = AddElse(@, Branch(f))]

NextPart(part) ==
  stack' = [stack EXCEPT ![Len(stack)] =
              [Closed(@) EXCEPT !.part = part, !.branch = Len(doc) + 1, !.list = <<>>]]

SyntaxError == outcome' = "error" /\ UNCHANGED <<stack, ast, tree>>

Elseif ==
  /\ Reads("L") /\ UNCHANGED macros
  /\ IF Current.c = "I" /\ Current.part # "else" THEN NextPart("elseif") /\ Going
                                                 ELSE SyntaxError
Else ==
  /\ Reads("E") /\ UNCHANGED macros
  /\ IF Current.c \in {"I", "F"} /\ Current.part # "else" THEN NextPart("else") /\ Going
                                                          ELSE SyntaxError

Nested(f) == [type |-> "nested", at |-> <<[c |-> f.c, p |-> f.at]>>,
              items |-> f.items, chain |-> f.chain]

End ==
  /\ Reads("Z") /\ UNCHANGED macros
  /\ IF Current.c = "T"
     THEN SyntaxError
     ELSE /\ LET below == Front(stack)
             IN stack' = [below EXCEPT ![Len(below)].list = Append(@, Nested(Closed(Current)))]
          /\ Going

EndOfSource ==
  /\ outcome = "parsing" /\ UNCHANGED <<doc, macros, stack>>
  /\ IF Current.c # "T"
     THEN outcome' = "error" /\ UNCHANGED <<ast, tree>>
     ELSE outcome' = "ok" /\ ast' = Current.list /\ tree' = gobble(ast', FALSE)

Next == Text \/ Reference \/ Directive \/ Call \/ Open \/ Elseif \/ Else \/ End \/ EndOfSource

Spec == Init /\ [][Next]_vars
-----------------------------------------------------------------------------
(* What a list of nodes holds: the characters of its texts and, for every  *)
(* reference, directive and branch, its tag.                               *)
RECURSIVE Leaves(_)
Leaves(l) ==
  FlattenSeq([i \in DOMAIN l |->
    IF l[i].type # "nested" THEN l[i].at
    ELSE l[i].at \o Leaves(l[i].items) \o
           FlattenSeq([k \in DOMAIN l[i].chain |->
             <<[c |-> "B", p |-> l[i].chain[k].at]>> \o Leaves(l[i].chain[k].items)])])

Places(l) == LET leaves == Leaves(l) IN [k \in DOMAIN leaves |-> leaves[k].p]

(* How many directives are open at p, and which positions belong to the    *)
(* directive, or the branch, whose tag is at q.                            *)
Depth(p) == Cardinality({q \in 1 .. p : doc[q] \in Openers})
              - Cardinality({q \in 1 .. p - 1 : doc[q] = "Z"})
Within(q, p, ends) ==
  \A r \in q + 1 .. p : Depth(r) >= Depth(q) /\ (Depth(r) = Depth(q) => doc[r] \notin ends)
SameIf(q, p)   == q < p /\ Depth(p) = Depth(q) /\ Within(q, p, Openers)
InBranch(q, p) == Within(q, p, Openers \cup {"L", "E"})

(* Within the second to last but one of the #elseif of an #if.             *)
InMiddleElseif(p) ==
  \E q \in 1 .. p :
    /\ doc[q] = "L" /\ InBranch(q, p)
    /\ \E b \in 1 .. q : doc[b] = "L" /\ SameIf(b, q)
    /\ \E a \in q .. Len(doc) : doc[a] = "L" /\ SameIf(q, a)

(* The tree has what the source has, in the order of the source, every     *)
(* branch within its directive (parser.go.y:38-125), except that of more   *)
(* than two #elseif only the first and the last are there.  A macro is     *)
(* known from its header on, in its own body too.                          *)
TreeExact ==
  outcome = "ok" =>
    LET leaves == Leaves(ast) IN
    /\ [k \in DOMAIN leaves |-> leaves[k].p] =
         SelectSeq([p \in DOMAIN doc |-> p], LAMBDA p : doc[p] # "Z" /\ ~InMiddleElseif(p))
    /\ \A leaf \in ToSet(leaves) :
         doc[leaf.p] = "C" /\ (\E q \in 1 .. leaf.p : doc[q] = "M") => leaf.c = "C"

Tags    == Openers \cup {"D", "C", "L", "E", "Z"}
Spaces(p, q) == \A r \in p .. q : doc[r] = "s"

(* Gobbling (parse.go:87-187) moves nothing and takes only whitespace: at  *)
(* most the newline that ends the line of a tag, and spaces and tabs next  *)
(* to a tag or at the end of the template.                                 *)
GobbledOnlyAtTags ==
  outcome = "ok" =>
    LET before == Places(ast)
        after  == Places(tree)
        kept   == ToSet(after)
    IN
    /\ after = SelectSeq(before, LAMBDA p : p \in kept)
    /\ \A p \in ToSet(before) \ kept :
         \/ \E q \in 1 .. p - 1 : doc[q] \in Tags /\ Spaces(q + 1, p - 1) /\ doc[p] \in {"n", "s"}
         \/ \E q \in p + 1 .. Len(doc) : doc[q] \in Tags /\ Spaces(p, q - 1)
         \/ Spaces(p, Len(doc))

(* "If directive or comment is alone on the line, possibly surrounded by   *)
(* whitespace, then parser ignores leading spaces and tabs and trailing    *)
(* newline and any spaces and tabs preceding this newline" (README.md:7):  *)
(* exactly so, where directives are not nested and before the last tag.    *)
FromLineStart(p) == \E q \in 0 .. p : Spaces(q + 1, p) /\ (q = 0 \/ doc[q] = "n")
ToLineEnd(p)     == \E q \in p .. Len(doc) + 1 :
                      Spaces(p, q - 1) /\ (q = Len(doc) + 1 \/ doc[q] = "n")
Alone(q)         == doc[q] = "D" /\ FromLineStart(q - 1) /\ ToLineEnd(q + 1)

Ignored ==
  {p \in DOMAIN doc :
     \/ \E q \in p + 1 .. Len(doc) : Alone(q) /\ Spaces(p, q - 1)
     \/ \E q \in 1 .. p - 1 : Alone(q) /\ Spaces(q + 1, p - 1) /\ doc[p] \in {"s", "n"}}

LinesGobbled ==
  outcome = "ok" /\ ToSet(doc) \subseteq Chars \cup {"D", "R"} =>
    LET last == Max({p \in DOMAIN doc : doc[p] \in {"D", "R"}} \cup {0})
        kept == ToSet(Places(tree))
    IN \A p \in 1 .. last : p \in kept <=> p \notin Ignored
=============================================================================
