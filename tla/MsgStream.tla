----------------------------- MODULE MsgStream -----------------------------
(* What a message log promises its consumers, whatever files, cursors and  *)
(* datagrams it is made of: a producer stores records one after another,   *)
(* and a consumer's handler is handed them in order, none before it is     *)
(* stored and none left out.  A consumer that is started again may be      *)
(* handed the last MaxRedo records once more.                              *)
EXTENDS Integers

CONSTANTS
  Consumer,     \* the programs that read the log
  Never,        \* the position of a consumer that has not opened the log yet
  MaxRedo       \* how many records a restart may repeat

VARIABLES
  produced,     \* the number of records stored
  done,         \* done[c]: the record consumer c was handed last
  top           \* top[c]: the newest record it was ever handed

vars == <<produced, done, top>>

Init ==
  /\ produced = 0
  /\ done = [c \in Consumer |-> Never]
  /\ top = [c \in Consumer |-> Never]

Produce == produced' = produced + 1 /\ UNCHANGED <<done, top>>

(* A new consumer starts somewhere in what is stored.                      *)
Join(c) ==
  /\ done[c] = Never
  /\ \E n \in 0..produced : done' = [done EXCEPT ![c] = n] /\ top' = [top EXCEPT ![c] = n]
  /\ UNCHANGED produced

Hand(c) ==
  /\ done[c] # Never
  /\ \E n \in 1..produced :
       /\ top[c] - MaxRedo < n /\ n <= done[c] + 1
       /\ done' = [done EXCEPT ![c] = n]
       /\ top' = [top EXCEPT ![c] = IF n > @ THEN n ELSE @]
  /\ UNCHANGED produced

Next == Produce \/ \E c \in Consumer : Join(c) \/ Hand(c)

Spec == Init /\ [][Next]_vars
============================================================================
