---------------------------- MODULE MCCellReact ----------------------------
(* CellReact over every level-ordered subscription graph of two terms and  *)
(* three conditions, with the three-valued connectives of nbcondition.c    *)
(* as eval methods.                                                        *)
EXTENDS CellReact

Terms == {"s", "t"}
MCCell == Terms \cup {"and", "or", "not"}
MCValue == {"F", "U", "T"}

(* evalAnd, evalOr and evalNot (of a disjunction) over any operands.       *)
MCEval(c, args) ==
  LET vals == {args[p] : p \in DOMAIN args}
      conj == IF "F" \in vals THEN "F" ELSE IF "U" \in vals THEN "U" ELSE "T"
      disj == IF "T" \in vals THEN "T" ELSE IF "U" \in vals THEN "U" ELSE "F"
  IN  CASE c = "and" -> conj
        [] c = "or"  -> disj
        [] c = "not" -> IF disj = "T" THEN "F" ELSE IF disj = "F" THEN "T" ELSE "U"
        [] OTHER     -> "U"

(* All graphs in which "and" reads terms, "or" terms and "and", and "not"  *)
(* any of the others, at tight levels and at levels with gaps.             *)
MCLevels == {[s |-> 0, t |-> 0, and |-> 1, or |-> o, not |-> n] :
               o \in {1, 2}, n \in {2, 3}}
MCOperands == [and : SUBSET Terms \ {{}},
               or  : SUBSET (Terms \cup {"and"}) \ {{}},
               not : SUBSET (Terms \cup {"and", "or"}) \ {{}}]
SubOf(ops) == [p \in MCCell |-> {c \in MCCell \ Terms : p \in ops[c]}]
Ordered(g) == \A p \in MCCell : \A c \in g.sub[p] : g.level[c] > g.level[p]
MCGraph == {g \in {[sub |-> SubOf(ops), level |-> lv] :
                      ops \in MCOperands, lv \in MCLevels} : Ordered(g)}
============================================================================
