------------------------------ MODULE MCVtlMap ------------------------------
(* Maps of anything and maps of strings over the keys "\x01" and "1", the  *)
(* two strings the number 1 becomes.                                       *)
EXTENDS VtlMap

CONSTANTS str, list, n1, a, b

MCRune    == [n \in Number |-> 1]
MCPrinted == [n \in Number |-> 2]
MCType    == {"any", "strings"}
MCConv    == [t \in Type |-> [v \in Stored |->
               IF t = "any" \/ v = str THEN v ELSE Fail]]
MCFits    == [t \in Type |-> IF t = "any" THEN Type ELSE {"strings"}]
Of(t, v)  == [type |-> t, val |-> [k \in Key |-> v]]
MCMade    == {Of("any", Absent), Of("any", list), Of("strings", str)}
MadeAny   == {Of("any", Absent)}
AnyType   == {"any"}

NoHosts   == <<>>
OneHost   == <<Of("any", str)>>
TwoAlike  == {[x \in {a, b} |-> x], [x \in {a, b} |-> IF x = a THEN b ELSE a]}
=============================================================================
