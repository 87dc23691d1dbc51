------------------------------- MODULE VtlCtx -------------------------------
(***************************************************************************)
(* The variables of a rendering, type Ctx of ctx.go: a map from a name to  *)
(* the slice of the values bound to it, the innermost one last.  Ctx is    *)
(* passed by value but its map is shared, so the operators below are what  *)
(* a call does to the one map every nested list works on.                  *)
(*                                                                         *)
(* Push returns the slot of the value it adds and Pop and Set take it      *)
(* back.  Slots are numbered from 1 here, from 0 in the code.              *)
(***************************************************************************)
EXTENDS Integers, SequencesExt

CONSTANT Name        \* the variable names of the templates

Contexts(V) == [Name -> Seq(V)]

\* Mutant: the slot as the length before the push.
NewSlotBefore(c, n) == Len(c[n])

NewSlot(c, n) == Len(c[n]) + 1

Push(c, n, v) == [c EXCEPT ![n] = Append(@, v)]

\* Mutant: the oldest value goes.
PopOldest(c, i, n) ==
  IF c[n] # <<>> /\ i >= 1 THEN [c EXCEPT ![n] = Tail(@)] ELSE c

\* Deletes slot i.  In the code a slot past the end is a run-time panic.
Pop(c, i, n) ==
  IF c[n] # <<>> /\ i >= 1 THEN [c EXCEPT ![n] = RemoveAt(@, i)] ELSE c

\* Mutant: the bound of an index that would start at 0.
SetShort(c, i, n, v) == IF i < Len(c[n]) THEN [c EXCEPT ![n][i] = v] ELSE c

\* A slot that does not exist is ignored.
Set(c, i, n, v) == IF i <= Len(c[n]) THEN [c EXCEPT ![n][i] = v] ELSE c

IsDefined(c, n) == c[n] # <<>>

Get(c, n) == Last(c[n])
=============================================================================
