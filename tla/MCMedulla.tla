----------------------------- MODULE MCMedulla -----------------------------
(* A servant, a job and a command that waits: two of them that write, all  *)
(* three that write nothing, or a servant with more messages.              *)
EXTENDS Medulla

Writes(g, l) == [f \in Out |-> IF f = "get" THEN g ELSE l]
None == Writes(0, 0)
Load(s, j, b, procs, n) ==
  [lines |-> [p \in Proc |-> CASE p = "s" -> s [] p = "j" -> j [] OTHER -> b], opened |-> procs, orders |-> n]
FiveLoads ==
  {Load(Writes(1, 0), Writes(1, 0), None, {"s", "j"}, 1),
   Load(None, Writes(1, 1), Writes(1, 0), {"j", "b"}, 2),
   Load(Writes(1, 0), None, Writes(1, 0), {"s", "b"}, 1),
   Load(None, None, None, Proc, 3),
   Load(Writes(1, 0), None, None, {"s"}, 3)}
=============================================================================
