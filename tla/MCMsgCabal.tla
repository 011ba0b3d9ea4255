----------------------------- MODULE MCMsgCabal -----------------------------
(* MsgCabal with a ring of one record, a peer's buffer of one, and one     *)
(* fault.  One side connects: five records and as many connections as that *)
(* can take; both sides connect: fewer of each.                            *)
EXTENDS MsgCabal

OneOpener == [o \in {{Server}, {Client}} |-> [records |-> 5, conns |-> 8]]
BothOpen == [o \in {Side} |-> [records |-> 3, conns |-> 2]]
AllLimits == OneOpener @@ BothOpen
============================================================================
