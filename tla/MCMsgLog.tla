------------------------------ MODULE MCMsgLog ------------------------------
(* MsgLog with one consumer: five records in files of two, a socket that   *)
(* holds two datagrams, programs stopped twice, files pruned once.         *)
EXTENDS MsgLog
============================================================================
