----------------------------- MODULE MCVtlParser ----------------------------
(* Short sources with everything, and longer ones without nesting, with    *)
(* nothing but nesting, and with some of both.                             *)
EXTENDS VtlParser

CONSTANTS Long, Flat, Deep, Bare    \* lengths

MCAllowed(d) ==
  \/ Len(d) <= Long
  \/ Len(d) <= Flat /\ ToSet(d) \subseteq {"x", "n", "s", "D", "R"}
  \/ Len(d) <= Deep /\ ToSet(d) \subseteq {"x", "n", "s", "D", "I", "Z"}
  \/ Len(d) <= Bare /\ ToSet(d) \subseteq {"I", "F", "L", "E", "Z"}
=============================================================================
