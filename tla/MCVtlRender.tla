---------------------------- MODULE MCVtlRender ----------------------------
(* Templates of one or two nodes, and values of every shape: one twice in  *)
(* another, one in itself through a pointer or through none, a list that   *)
(* is too long, and a struct with a pointer to its first field.            *)
EXTENDS VtlRender, TLC

MCParts == "part"  :> <<"num">>  @@ "twice" :> <<"part", "part">>
        @@ "knot"  :> <<"word", "num", "back">> @@ "back" :> <<"knot">>
        @@ "naked" :> <<"word", "naked">>
        @@ "long"  :> <<"word", "word">>
        @@ "hull"  :> <<"word", "first">> @@ "first" :> <<"word">>
MCKind  == [o \in DOMAIN MCParts |-> IF o \in {"naked", "back"} THEN "raw" ELSE "pointer"]
        @@ "word" :> "text" @@ "num" :> "float"
MCObject == DOMAIN MCKind
MCLists  == {"long", "back"}
MCAddr   == [o \in {p \in MCObject : MCKind[p] = "pointer"} |-> IF o = "first" THEN "hull" ELSE o]

MCTrees == {<<"quote">>, <<"call", "call">>, <<"macro", "fail">>, <<"macro", "use">>, <<"use", "macro">>}
MCRoots == {"twice", "knot", "naked", "long", "hull"}
=============================================================================
