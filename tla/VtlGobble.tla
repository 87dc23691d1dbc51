------------------------------ MODULE VtlGobble -----------------------------
(***************************************************************************)
(* gobble (parse.go): what is taken from the texts around directives.      *)
(*                                                                         *)
(* A text is a sequence of characters that know where in the source they   *)
(* come from: "n" is a newline, "s" a space or a tab, all others are       *)
(* solid.  A list of nodes has texts, references, directives and nested    *)
(* directives, whose lists are the first, items, and those of its chain.   *)
(***************************************************************************)
EXTENDS Integers, Sequences, FiniteSetsExt

IsText(n)      == n.type = "text"

\* Mutant: a reference counts as a directive.
IsNotText(n) == n.type # "text"

IsDirective(n) == n.type \notin {"text", "ref"}

SolidAt(t)  == {k \in DOMAIN t : t[k].c # "s"}
FirstOf(t)  == Min(SolidAt(t) \cup {Len(t) + 1})
LastOf(t)   == Max(SolidAt(t) \cup {0})

justWS(t)                     == SolidAt(t) = {}
startsWithSpacesAndNewline(t) == ~justWS(t) /\ t[FirstOf(t)].c = "n"
endsWithNewlineAndSpace(t)    == ~justWS(t) /\ t[LastOf(t)].c = "n"

trimAfter(t)  == SubSeq(t, 1, LastOf(t))
trimBefore(t) == SubSeq(t, FirstOf(t) + (IF startsWithSpacesAndNewline(t) THEN 1 ELSE 0), Len(t))

directiveAtNewline(l, i) ==
  /\ IsDirective(l[i])
  /\ i > 1 => /\ IsText(l[i - 1])
              /\ \/ endsWithNewlineAndSpace(l[i - 1].at)
                 \/ i = 2 /\ justWS(l[1].at)
                 \/ l[i - 1].at = <<>>

(* Mutant: spaces after a directive are taken for the end of its line. *)
directiveBeforeSpace(l, i) ==
  /\ IsDirective(l[i])
  /\ i < Len(l) => /\ IsText(l[i + 1])
                   /\ startsWithSpacesAndNewline(l[i + 1].at) \/ justWS(l[i + 1].at)

directiveBeforeNewline(l, i) ==
  /\ IsDirective(l[i])
  /\ i < Len(l) => /\ IsText(l[i + 1])
                   /\ \/ startsWithSpacesAndNewline(l[i + 1].at)
                      \/ i + 1 = Len(l) /\ justWS(l[i + 1].at)

(* The spaces at the end of text i belong to the directive that follows,   *)
(* or to the one before when the text is the last of the list.             *)
TakesEnd(l, i, nested) ==
  LET cur == l[i].at IN
  \/ /\ i < Len(l) /\ directiveBeforeNewline(l, i + 1)
     /\ (i = 1 /\ justWS(cur)) \/ endsWithNewlineAndSpace(cur)
  \/ i > 1 /\ i = Len(l) /\ directiveBeforeNewline(l, i - 1) /\ ~(nested /\ justWS(cur))

TakesStart(l, i) ==
  /\ i > 1 /\ directiveAtNewline(l, i - 1)
  /\ IF i < Len(l) THEN directiveBeforeNewline(l, i - 1) /\ startsWithSpacesAndNewline(l[i].at)
                   ELSE endsWithNewlineAndSpace(l[i].at)

Trimmed(l, i, nested) ==
  LET t == IF TakesEnd(l, i, nested) THEN trimAfter(l[i].at) ELSE l[i].at
  IN [l[i] EXCEPT !.at = IF TakesStart(l, i) THEN trimBefore(t) ELSE t]

(* Within a nested directive the newline after its tag goes first, and the *)
(* spaces before the next tag.                                             *)
TrimFirst(l) ==
  IF IsText(l[1]) /\ startsWithSpacesAndNewline(l[1].at)
  THEN [l EXCEPT ![1].at = trimBefore(@)] ELSE l
TrimLast(l) ==
  IF IsText(l[Len(l)]) /\ endsWithNewlineAndSpace(l[Len(l)].at)
  THEN [l EXCEPT ![Len(l)].at = trimAfter(@)] ELSE l

RECURSIVE gobble(_, _)
Inner(l) == IF l = <<>> THEN l ELSE gobble(TrimLast(TrimFirst(l)), TRUE)
gobble(ast, nested) ==
  [i \in DOMAIN ast |->
     CASE IsText(ast[i]) -> Trimmed(ast, i, nested)
       [] ast[i].type = "nested" ->
            [ast[i] EXCEPT !.items = Inner(@),
                           !.chain = [k \in DOMAIN @ |-> [@[k] EXCEPT !.items = Inner(@)]]]
       [] OTHER -> ast[i]]
=============================================================================
