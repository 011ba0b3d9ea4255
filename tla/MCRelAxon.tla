----------------------------- MODULE MCRelAxon ------------------------------
(* Numbers and strings; each operator with all its constants, and sets of  *)
(* conditions with several operators.                                      *)
EXTENDS RelAxon

MCConst == 1..4
MCRank == [k \in MCConst |-> k]
MCAddress == [k \in MCConst \cup {0, 9} |-> IF k \in MCConst THEN (2 * k) % 5 ELSE 10 + k]
Ranges == {"lt", "le", "gt", "ge"}
Kind(t, ops, consts) == [type : {t}, conds : {{x} \X consts : x \in ops}]
MCExecutions ==
  Kind("real", Op, 1..4) \cup Kind("string", Ranges, 1..3)
    \cup [type : {"real"}, conds : {{<<"eq", 2>>, <<"ne", 2>>, <<"gt", 2>>},
                                     {<<"eq", 1>>, <<"eq", 2>>, <<"ge", 1>>, <<"ge", 2>>}}]
=============================================================================
