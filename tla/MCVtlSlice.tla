----------------------------- MODULE MCVtlSlice -----------------------------
(* Slices that take anything and slices of ints, which refuse a string and *)
(* turn the int64 of a template into an int.                               *)
EXTENDS VtlSlice, TLC

CONSTANTS int1, int2, long1, str, a, b

MCType == {"any", "ints"}
MCConv == [t \in MCType |-> [v \in Value |->
            IF t = "any" THEN v ELSE IF v = long1 THEN int1 ELSE IF v = str THEN Fail ELSE v]]

MCMade   == {[type |-> "any", elems |-> <<int1, str>>], [type |-> "ints", elems |-> <<int1>>]}
MadeInts == {[type |-> "ints", elems |-> <<int2>>]}

NoArrays  == <<>>
NoWindows == [h \in {} |-> None]

(* Two windows on one array of the host, one with room behind it.          *)
HostArrays  == <<<<int1, int2>>>>
HostWindows == "part" :> [arr |-> 1, len |-> 1, type |-> "ints"]
                 @@ "all" :> [arr |-> 1, len |-> 2, type |-> "ints"]

TwoAlike == Permutations({a, b})
=============================================================================
