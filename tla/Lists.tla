------------------------------- MODULE Lists -------------------------------
(***************************************************************************)
(* What a template may think a *Slice is: a list of its own, which only    *)
(* the calls made on it change, and each of them in one go.                *)
(***************************************************************************)
EXTENDS Integers, Sequences

CONSTANTS
  Obj,       \* the lists
  None,      \* no list yet
  Value,
  Fail,      \* no value: what a failing conversion gives
  Conv,      \* Conv[t][v]: v as an element of type t
  Made       \* the lists a template starts with: type and elements

VARIABLES list, ret

Init == list = [o \in Obj |-> None] /\ ret = "same"

Is(o) == list[o] # None
Elems(o) == list[o].elems
Has(s, v) == \E k \in DOMAIN s : s[k] = v

Become(o, s, r) == ret' = r /\ list' = [list EXCEPT ![o].elems = s]
Refuse == ret' = "error" /\ UNCHANGED list

New(o) == ~Is(o) /\ \E l \in Made : list' = [list EXCEPT ![o] = l] /\ ret' = "changed"

Copy(o, n) == Is(o) /\ ~Is(n) /\ list' = [list EXCEPT ![n] = list[o]] /\ ret' = "changed"

AddAll(o, s) ==
  LET t == [k \in DOMAIN s |-> Conv[list[o].type][s[k]]]
  IN ~Has(t, Fail) /\ Become(o, Elems(o) \o t, "changed")

Without(s, k) == SubSeq(s, 1, k - 1) \o SubSeq(s, k + 1, Len(s))

\* The elements of s that are kept, in their order.
Only(s, keep) ==
  LET some[k \in 0 .. Len(s)] ==
        IF k = 0 THEN <<>>
        ELSE IF s[k] \in keep THEN Append(some[k - 1], s[k]) ELSE some[k - 1]
  IN some[Len(s)]

Filter(o, keep) ==
  LET s == Only(Elems(o), keep)
  IN Become(o, s, IF s = Elems(o) THEN "same" ELSE "changed")

\* What one call may do to its list; any call may be refused.
Change(o) ==
  \/ Refuse
  \/ Become(o, Elems(o), "same")
  \/ \E k \in DOMAIN Elems(o), v \in Value :
       LET w == Conv[list[o].type][v]
       IN w # Fail /\ Become(o, [Elems(o) EXCEPT ![k] = w], "changed")
  \/ Become(o, <<>>, "changed")
  \/ \E k \in DOMAIN Elems(o) : Become(o, Without(Elems(o), k), "changed")
  \/ \E v \in Value : AddAll(o, <<v>>)
  \/ \E c \in Obj : Is(c) /\ AddAll(o, Elems(c))
  \/ \E c \in Obj : Is(c) /\ Filter(o, {v \in Value : ~Has(Elems(c), v)})
  \/ \E c \in Obj : Is(c) /\ Filter(o, {v \in Value : Has(Elems(c), v)})

Next == \E o \in Obj : New(o) \/ (\E n \in Obj : Copy(o, n)) \/ (Is(o) /\ Change(o))

Spec == Init /\ [][Next]_<<list, ret>>
=============================================================================
