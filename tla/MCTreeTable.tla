---------------------------- MODULE MCTreeTable ----------------------------
(* Six nodes: a column of arguments found by their addresses; a column      *)
(* loaded from a file as the tallest tree of twelve elements, from which a  *)
(* removal may rotate at two levels; two columns of strings and numbers,    *)
(* with two values; a partition; a node whose arguments may be unknown; one *)
(* that is flattened and balanced.                                          *)
EXTENDS TreeTable, TLC

MCRank == [k \in 1..12 |-> k]
MCAddress == (0 :> 20) @@ [k \in 1..12 |-> (5 * k) % 13]
MCReals == {1, 2, 3}

Column(keys) == {<<k>> : k \in keys}
Line(k) == [row |-> <<k>>, value |-> "v"]
Basic == [option |-> "order", rows |-> {}, others |-> {}, values |-> {"v"},
          file |-> <<>>, rearranges |-> FALSE]

MCConfigs ==
  {[Basic EXCEPT !.option = "address", !.rows = Column(1..8)],
   [Basic EXCEPT !.file = [i \in 1..12 |-> Line(<<8, 5, 11, 3, 7, 10, 12, 2, 4, 6, 9, 1>>[i])],
                 !.others = Column(1..12)],
   [Basic EXCEPT !.rows = Column({1, 4}) \cup ({1, 4} \X {2, 4}), !.values = {"v", "w"}],
   [Basic EXCEPT !.option = "partition",
                 !.rows = Column({2, 5}) \cup ({2} \X {1, 3, 5}),
                 !.others = {1, 2, 3, 5, 6} \X {2, 4}],
   [Basic EXCEPT !.rows = Column({0, 3, 4, 5})],
   [Basic EXCEPT !.rows = Column({3, 4, 5, 6}), !.rearranges = TRUE]}
============================================================================
