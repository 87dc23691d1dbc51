------------------------------- MODULE VtlLexer -----------------------------
(***************************************************************************)
(* The lexer (lexer.go): a stack of modes, and one action for what Lex     *)
(* does in each of them.  Lex often only changes the mode and calls        *)
(* itself; the calls that wait for their deferred function are counted.    *)
(*                                                                         *)
(* The source is a sequence of characters, where "n" is a newline, "s" a   *)
(* space or a tab, "b" a backslash, "1" a digit, "=" an operator like <,   *)
(* and a letter a whole word: "D" the name of a directive with arguments,  *)
(* "E" else or end, "m" a macro, "o" a word like eq, "O" the same in       *)
(* capitals and "a" any other.  Words that touch are one word.  Square     *)
(* brackets, which nest as the round ones do, and exponents are left out.  *)
(***************************************************************************)
EXTENDS Integers, SequencesExt

CONSTANTS Openings,       \* how a source can begin
          Chars, Length,  \* what it can go on with, and for how long
          MaxCalls        \* the calls of Lex counted: more than these sources need

Letters == {"a", "D", "E", "m", "o", "O"}
Spaces  == {"n", "s"}
Char    == Letters \cup Spaces
             \cup {"b", "1", "=", "(", ")", "{", "}", "$", "#", "*", "!", ".", "\"", "'"}

ASSUME SourceAssumption ==
  Openings \subseteq Seq(Char) /\ Chars \subseteq Char /\ {Length, MaxCalls} \subseteq Nat

VARIABLES
  data, pos, prev, line, states,  \* fields of Lexer; pos characters are read
  depth,   \* the calls of Lex that have yet to count lines
  tokens   \* what Lex has returned: with its start, end, mode and depth

vars == <<data, pos, prev, line, states, depth, tokens>>

Init ==
  /\ \E o \in Openings, n \in 0 .. Length : \E rest \in [1 .. n -> Chars] : data = o \o rest
  /\ pos = 0 /\ prev = 0 /\ line = 1 /\ states = <<>> /\ depth = 0 /\ tokens = <<>>
-----------------------------------------------------------------------------
(* The scanners: the place each of them stops at, starting from p.         *)
At(k)   == IF k \in DOMAIN data THEN data[k] ELSE "EOF"
Peek(n) == At(pos + 1 + n)

EndOf(p, chars)   == Min({q \in p .. Len(data) : At(q + 1) \notin chars})
ScanIdentifier(p) == IF At(p + 1) = "1" THEN p ELSE EndOf(p, Letters \cup {"1"})
ScanInt(p)        == EndOf(p, {"1"})
SkipWhitespace(p) == EndOf(p, Spaces)
Until(p, char)    == Min({q \in p .. Len(data) : At(q + 1) \in {char, "EOF"}})
UntilStar(p)      == Min({q \in p .. Len(data) : At(q + 1) = "*" /\ At(q + 2) = "#"}
                           \cup {Len(data)})
Word(p)           == SubSeq(data, p + 1, ScanIdentifier(p))

\* Mutant: every backslash escapes, whether it is escaped itself or not.
EscapesAny(p, q) == IF q > p /\ At(q) = "b" THEN 1 ELSE 0

(* How many characters at q an odd number of backslashes makes text.       *)
Escapes(p, q) ==
  (q - Min({r \in p .. q : \A k \in r + 1 .. q : data[k] = "b"})) % 2

ScanText(p, delim) ==
  LET q == Min({r \in p .. Len(data) : At(r + 1) \in delim \cup {"EOF"}})
  IN IF q = Len(data) THEN q ELSE q + Escapes(p, q)
-----------------------------------------------------------------------------
Newlines(p, q) == Cardinality({k \in p + 1 .. q : At(k) = "n"})
State == IF states = <<>> THEN "Text" ELSE Last(states)
Done  == tokens # <<>> /\ Last(tokens).token = "EOF"
In(s) == State = s /\ ~Done /\ pos < Len(data)

\* Mutant: only the calls that wait count lines.
CountWaiting(from, to, calls) == line + (calls - 1) * Newlines(from, to)

(* Every call that waits counts the newlines between prev, which the call  *)
(* that found the token has set, and pos.                                  *)
Counted(from, to, calls) == line + calls * Newlines(from, to)

Return(token, to) ==
  LET end == Min({to, Len(data)}) IN
  /\ pos' = end /\ prev' = pos
  /\ line' = Counted(pos, end, depth + 1) /\ depth' = 0
  /\ tokens' = Append(tokens, [token |-> token, from |-> pos, to |-> end,
                               mode |-> State, depth |-> depth + 1])
  /\ UNCHANGED data

Again(to) ==
  /\ pos' = to /\ prev' = pos /\ depth' = Min({depth + 1, MaxCalls})
  /\ UNCHANGED <<data, line, tokens>>

Stay    == UNCHANGED states
Push(s) == states' = states \o s
Pop     == states' = Front(states)

(* Lex finds the end at once, and the calls that wait count once more.     *)
End ==
  /\ ~Done /\ pos >= Len(data)
  /\ pos' = Len(data) /\ depth' = 0
  /\ line' = Counted(prev, Len(data), depth)
  /\ tokens' = Append(tokens, [token |-> "EOF", from |-> pos, to |-> Len(data),
                               mode |-> State, depth |-> depth])
  /\ UNCHANGED <<data, prev, states>>
-----------------------------------------------------------------------------
IsReference  == Peek(0) = "$" /\ Peek(1) \in Letters \cup {"!", "{"}
ReferenceModes ==
  IF Peek(1) = "{" \/ (Peek(1) = "!" /\ Peek(2) = "{") THEN <<"Formal", "Ref">> ELSE <<"Ref">>

(* A tag whose name ends at e and which itself ends at t.                  *)
Tag(word, e, t) ==
  CASE word = <<"D">> -> Push(<<"Dir">>) /\ Return("DIRECTIVE", SkipWhitespace(t))
    [] word = <<"m">> -> Push(<<"Dir">>) /\ Return("MACROCALL", SkipWhitespace(t))
    [] word = <<"E">> -> Stay /\ Return("END", t)
    [] OTHER -> Stay /\ Return("TEXT", e)

Text ==
  /\ In("Text")
  /\ LET t == ScanText(pos, {"#", "$"})
         comment == At(t + 1) = "#" /\ At(t + 2) = "#"
     IN IF t > pos \/ comment
        THEN Stay /\ Return("TEXT", IF comment THEN Until(t, "n") + 1 ELSE t)
        ELSE IF IsReference THEN Push(ReferenceModes) /\ Again(pos)
        ELSE IF Peek(0) = "$" THEN Stay /\ Return("TEXT", pos + 1)
        ELSE IF Peek(1) = "*" THEN Stay /\ Again(UntilStar(pos) + 2)
        ELSE IF Peek(1) = "{"
             THEN LET e == ScanIdentifier(pos + 2)
                  IN Tag(IF At(e + 1) = "}" THEN Word(pos + 2) ELSE <<>>, e, e + 1)
             ELSE LET e == ScanIdentifier(pos + 1) IN Tag(Word(pos + 1), e, e)

Dir ==
  /\ In("Dir")
  /\ IF Peek(0) = "(" THEN Push(<<"Expr">>) /\ Return("(", pos + 1) ELSE Pop /\ Again(pos)

Formal ==
  /\ In("Formal")
  /\ IF Peek(0) = "}" THEN Pop ELSE Stay
  /\ Return(Peek(0), pos + 1)

(* Mutant: what is no name after $ stays in this mode. *)
RefStuck ==
  /\ In("Ref")
  /\ IF Peek(0) \in {"$", "!", "{"} THEN Stay /\ Return(Peek(0), pos + 1)
     ELSE (IF Peek(0) \in Letters THEN Push(<<"Var">>) ELSE Stay) /\ Again(pos)

Ref ==
  /\ In("Ref")
  /\ IF Peek(0) \in {"$", "!", "{"} THEN Stay /\ Return(Peek(0), pos + 1)
     ELSE (IF Peek(0) \in Letters THEN Push(<<"Var">>) ELSE Pop) /\ Again(pos)

Var ==
  /\ In("Var")
  /\ CASE Peek(0) = "(" -> Push(<<"Expr">>) /\ Return("(", pos + 1)
       [] Peek(0) = "." /\ Peek(1) \in Letters -> Stay /\ Return(".", pos + 1)
       [] Peek(0) = "." /\ Peek(1) \notin Letters -> Pop /\ Again(pos)
       [] Peek(0) \in Letters ->
            Stay /\ Return("IDENTIFIER", ScanIdentifier(pos))
       [] OTHER ->
            LET below == Front(states)
            IN /\ states' = IF below # <<>> /\ Last(below) = "Ref" THEN Front(below) ELSE below
               /\ Again(pos)

String ==
  /\ In("String")
  /\ LET t == ScanText(pos, {"$", "\""})
     IN IF t > pos THEN Stay /\ Return("TEXT", t)
        ELSE IF Peek(0) = "\"" THEN Pop /\ Return("\"", pos + 1)
        ELSE IF IsReference THEN Push(ReferenceModes) /\ Return("$", pos + 1)
        ELSE Stay /\ Return("TEXT", pos + 1)
-----------------------------------------------------------------------------
(* An expression; a word in capitals is looked up as it stands, has no     *)
(* token, and so ends the source.                                          *)
WordToken(p, e) ==
  IF At(p) \in Spaces \cup {"("} /\ e = p + 1 /\ At(e) = "o" THEN "OP"
  ELSE IF At(p) \in Spaces \cup {"("} /\ e = p + 1 /\ At(e) = "O" THEN "EOF"
  ELSE "IDENTIFIER"

NumberEnd(p) ==
  LET e == ScanInt(p)
  IN IF At(e + 1) = "." /\ At(e + 2) # "." THEN ScanInt(e + 1) ELSE e

(* Mutant: a closing bracket leaves the mode it closes open. *)
ExprModeKept(c) == IF c = "(" THEN Push(<<"Expr">>) ELSE Stay

ExprMode(c) ==
  CASE c = "("  -> Push(<<"Expr">>)
    [] c = ")"  -> Pop
    [] c = "\"" -> Push(<<"String">>)
    [] c = "$"  -> Push(<<"Var">>)
    [] OTHER    -> Stay

Expr ==
  /\ In("Expr")
  /\ LET p == SkipWhitespace(pos)
         c == At(p + 1)
     IN /\ ExprMode(c)
        /\ CASE c \in Letters -> LET e == ScanIdentifier(p) IN Return(WordToken(p, e), e)
             [] c = "1"  -> Return("NUMBER", NumberEnd(p))
             [] c = "'"  -> Return("STRING", Until(p + 1, "'") + 1)
             [] c = "." /\ At(p + 2) = "." -> Return("RANGE", p + 2)
             [] c \in {"=", "!"} -> Return("OP", p + 1)
             [] OTHER -> Return(c, p + 1)

Next == Text \/ Dir \/ Formal \/ Ref \/ Var \/ String \/ Expr \/ End

Spec == Init /\ [][Next]_vars /\ WF_vars(Next)
-----------------------------------------------------------------------------
Returned(names, modes) == {k \in DOMAIN tokens : tokens[k].token \in names /\ tokens[k].mode \in modes}
Opened(mode)           == {k \in DOMAIN states : states[k] = mode}

Beneath == [Dir    |-> {"Text"},
            Formal |-> {"Text", "String"},
            Ref    |-> {"Text", "String", "Formal"},
            Var    |-> {"Ref", "Expr"},
            String |-> {"Expr"},
            Expr   |-> {"Dir", "Var", "Expr"}]

(* The stack of modes is the nesting of the source: a mode is only ever    *)
(* open over one it belongs in, and there is an expression on the stack    *)
(* for each bracket that is open and a string for each quote, however      *)
(* references, their arguments and strings are put into one another.       *)
ModesNest ==
  /\ \A k \in DOMAIN states :
       (IF k = 1 THEN "Text" ELSE states[k - 1]) \in Beneath[states[k]]
  /\ Cardinality(Opened("Expr")) =
       Cardinality(Returned({"("}, {"Dir", "Var", "Expr"})) - Cardinality(Returned({")"}, {"Expr"}))
  /\ Cardinality(Opened("String")) =
       Cardinality(Returned({"\""}, {"Expr"})) - Cardinality(Returned({"\""}, {"String"}))

(* What an odd number of backslashes stands before is text, and only that: *)
(* it starts no reference and no directive, and in a string it does not    *)
(* end the string, wherever the text that is scanned began.                *)
EscapedStaysText ==
  LET Backslashes(q) == q - Min({r \in 0 .. q : \A j \in r + 1 .. q : data[j] = "b"})
  IN /\ \A k \in Returned({"DIRECTIVE", "MACROCALL", "END"}, {"Text"})
                \cup Returned({"$"}, {"Ref", "String"}) \cup Returned({"\""}, {"String"}) :
          Backslashes(tokens[k].from) % 2 = 0
     /\ \A k \in Returned({"TEXT"}, {"String"}) : \A q \in tokens[k].from + 1 .. tokens[k].to - 1 :
          data[q + 1] \in {"$", "\""} => Backslashes(q) % 2 = 1

(* Where no comment in #* *# is skipped, every newline is counted: the     *)
(* line reported is never before the true one.  It is past it only after a *)
(* token with newlines that Lex needed several calls to find.              *)
LinesNotBehind ==
  (depth = 0 /\ \A k \in DOMAIN data : ~(At(k) = "#" /\ At(k + 1) = "*")) =>
    /\ line >= 1 + Newlines(0, pos)
    /\ line > 1 + Newlines(0, pos) =>
         \E k \in DOMAIN tokens : tokens[k].depth > 1 /\ Newlines(tokens[k].from, tokens[k].to) > 0

(* Every source is read to its end: the calls of Lex that only change the  *)
(* mode come to an end.  Only a word like EQ in capitals, which has no     *)
(* token, ends it sooner.                                                  *)
SourceIsRead == <>(Done /\ (pos = Len(data) \/ data[pos] = "O"))
=============================================================================
