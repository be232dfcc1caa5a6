---------------------------- MODULE MCLibraries ----------------------------
(* Two libraries whose interfaces share a method name, one that is missing, *)
(* and modules that import them.                                            *)
EXTENDS Libraries

MCPath == {"la", "lb", "lm"}
MCSymbols == [p \in MCPath |-> CASE p = "la" -> {<<"kyl", "a", "len">>}
                                 [] p = "lb" -> {<<"kyl", "b", "len">>, <<"get_x">>}
                                 [] p = "lm" -> {}]
MCLibraryName == [p \in MCPath |-> p]
MCSignatures == [p \in MCPath |-> IF p = "lb" THEN <<<<"b", "getX">>>> ELSE <<>>]
MCSnake == [m \in {"len", "getX"} |-> IF m = "getX" THEN "get_x" ELSE m]
MCCamel == [m \in {"len", "getX"} |-> m]
MCModule == {"fa", "fb", "fm"}
Method(m, x) == [m |-> m, aliases |-> x]
MCBlocks == [f \in MCModule |->
    CASE f = "fa" -> <<[i |-> "a", from |-> "la", exported |-> FALSE, methods |-> <<Method("len", <<"size">>)>>]>>
      [] f = "fb" -> <<[i |-> "b", from |-> "lb", exported |-> TRUE,
                        methods |-> <<Method("len", <<>>), Method("getX", <<"size">>)>>]>>
      [] f = "fm" -> <<[i |-> "c", from |-> "lm", exported |-> TRUE, methods |-> <<Method("len", <<>>)>>]>>]
MCOwnInterface == [f \in MCModule |-> CASE f = "fa" -> "a" [] f = "fb" -> "b" [] OTHER -> ""]
MCNamespace == {"a", "x"}
MCFunction == {<<"mine">>}
MCArgs == {<<1>>, <<2>>}
=============================================================================
