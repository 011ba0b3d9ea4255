------------------------------ MODULE SeqPlan ------------------------------
(* The statements of sequence rules, {on(a);10m;`b=2;}:                    *)
(*   [op |-> "step", n]                    n seconds later                 *)
(*   [op |-> "publish", value], [op |-> "follow", term]     =5;   ==a;     *)
(*   [op |-> "assert", sets], [op |-> "command", command]                  *)
(*   [op |-> "on", cond], [op |-> "onif", cond]                            *)
(*   [op |-> "if", cond, then, else]                                       *)
(*   [op |-> "repeat", count, body]        count 0: for ever               *)
(* A condition is a term here: what is between is the cells' business.     *)
EXTENDS Naturals, Sequences

(* Statements whose first one is no repetition.                            *)
RECURSIVE Unfold(_)
Unfold(stmts) ==
  IF stmts = <<>> \/ Head(stmts).op # "repeat" THEN stmts
  ELSE LET s == Head(stmts)
           again == CASE s.count = 0 -> <<s>>
                      [] s.count = 1 -> <<>>
                      [] OTHER -> <<[s EXCEPT !.count = @ - 1]>>
       IN Unfold(s.body \o again \o Tail(stmts))
============================================================================
