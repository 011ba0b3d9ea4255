---------------------------- MODULE MCCellGraph ----------------------------
(* CellGraph with a term that is redefined as a lazy operator or as        *)
(* something over it, and rules on both sides of it; and, with fewer       *)
(* assignments, each of the other operators in its place.                  *)
EXTENDS CellGraph

MCTerm == {"a", "b", "t", "q"}
MCCond == {"lazy", "neg", "mix"}
MCRule == {"r1", "r2"}
MCValue == {"F", "U", "T"}
MCRuleTerm == [r1 |-> "q", r2 |-> "none"]
AndShape ==
  [kind  |-> [lazy |-> "lazyand", neg |-> "not", mix |-> "or"],
   args  |-> [lazy |-> <<"a", "b">>, neg |-> <<"lazy">>, mix |-> <<"t", "q">>,
              r1 |-> <<"lazy">>, r2 |-> <<"mix">>],
   first |-> [a |-> "U", b |-> "F", t |-> "F", q |-> "U"],
   defs  |-> [a |-> {"F", "T"}, b |-> {"F", "T"}, t |-> {"F", "lazy", "neg"}, q |-> {}]]
OrShape ==
  [AndShape EXCEPT !.kind = [lazy |-> "lazyor", neg |-> "nand", mix |-> "nor"],
                   !.args.neg = <<"lazy", "b">>, !.defs.t = {"F", "neg"}]
ThenShape ==
  [AndShape EXCEPT !.kind = [lazy |-> "then", neg |-> "known", mix |-> "conditional"],
                   !.args.mix = <<"a", "q", "t", "t">>, !.defs.t = {"F", "neg"}]
Small(lazy, neg, mix) ==
  [AndShape EXCEPT !.kind = [lazy |-> lazy, neg |-> neg, mix |-> mix],
                   !.defs = [a |-> {"F", "T"}, b |-> {"T"}, t |-> {"neg"}, q |-> {}]]
MCShapes ==
  {AndShape, OrShape, ThenShape, Small("orthen", "unknown", "default"), Small("then", "true", "xor"),
   Small("orthen", "assumefalse", "and"), Small("lazyor", "assumetrue", "xor")}
============================================================================
