----------------------------- MODULE DelayCell ------------------------------
(* The delay conditions of nbcondition.c, A~^(d), A~^!(d) and A~^?(d), on  *)
(* one operand A: each takes on a new state of A when it is evaluated,     *)
(* except the state it delays, which it takes on when its timer rings.     *)
EXTENDS ClockTimer

CONSTANTS
  Delayed,      \* Delayed[d]: the states that d delays
  Duration,     \* Duration[d]: by how many seconds
  Disabled      \* the value of a cell without subscribers (nb_Disabled)

ASSUME DelayAssumption ==
  /\ \A d \in Delay : Delayed[d] \in {{"T", "N"}, {"F"}, {"U"}} /\ Duration[d] \in Nat

VARIABLES
  operand,  \* the value of A: "T" and "N" stand for any two true values
  delay,    \* delay[d]: its value, its flag NB_CELL_MODE_TIMER, whether it
            \* subscribes to A (heard) and whether a rule reads it (used)
  listed,   \* the delays that nbCellReact has still to evaluate
  since,    \* history: the second in which A took its value
  stale,    \* history: delays whose timer was set by a clock behind the time
  deaf      \* history: delays whose timer rang while they were disabled

delayVars == <<operand, delay, listed, since, stale, deaf>>

State == {"T", "N", "F", "U"}

DelayTypeOK ==
  /\ operand \in State
  /\ delay \in [Delay -> [value : State \cup {Disabled}, flag : BOOLEAN,
                          heard : BOOLEAN, used : BOOLEAN]]
  /\ since \in 1..now /\ listed \subseteq Delay /\ stale \subseteq Delay /\ deaf \subseteq Delay

(* The delays have had a subscriber for long, or have none yet.            *)
DelayInit ==
  /\ \E used \in BOOLEAN :
       /\ operand = IF used THEN "F" ELSE "T"
       /\ delay = [d \in Delay |-> [value |-> IF used THEN operand ELSE Disabled,
                                   flag |-> FALSE, heard |-> used, used |-> used]]
  /\ listed = {} /\ since = 1 /\ stale = {} /\ deaf = {}

(* Mutant: a running timer is not set anew.                                *)
EvalDelayOnce(d, c) ==
  \/ /\ operand \in Delayed[d] /\ c.flag
     /\ delay' = [delay EXCEPT ![d] = c] /\ UNCHANGED <<timers, stale>>
  \/ /\ operand \in Delayed[d] /\ ~c.flag
     /\ timers' = SetTimer(timers, clock + Duration[d], d)
     /\ delay' = [delay EXCEPT ![d] = [c EXCEPT !.flag = TRUE]]
     /\ stale' = IF clock = now THEN stale \ {d} ELSE stale \cup {d}
  \/ /\ operand \notin Delayed[d]
     /\ timers' = IF c.flag THEN SetTimer(timers, 0, d) ELSE timers
     /\ delay' = [delay EXCEPT ![d] = [c EXCEPT !.flag = FALSE, !.value = operand]]
     /\ stale' = stale \ {d}

(* evalDelayTrue, evalDelayFalse, evalDelayUnknown of d, whose cell is c.  *)
EvalDelay(d, c) ==
  \/ /\ operand \in Delayed[d]
     /\ timers' = SetTimer(timers, clock + Duration[d], d)
     /\ delay' = [delay EXCEPT ![d] = [c EXCEPT !.flag = TRUE]]
     /\ stale' = IF clock = now THEN stale \ {d} ELSE stale \cup {d}
  \/ /\ operand \notin Delayed[d]
     /\ timers' = IF c.flag THEN SetTimer(timers, 0, d) ELSE timers
     /\ delay' = [delay EXCEPT ![d] = [c EXCEPT !.flag = FALSE, !.value = operand]]
     /\ stale' = stale \ {d}

----------------------------------------------------------------------------
(* A command assigns A another value, and its publication lists the delays *)
(* that have subscribed ...                                                *)
AssignOperand(v) ==
  /\ v # operand
  /\ operand' = v /\ since' = now
  /\ listed' = {d \in Delay : delay[d].heard}
  /\ UNCHANGED <<timers, delay, stale, deaf>>

(* ... for nbCellReact to evaluate, one after another.                     *)
ReactDelay(d) ==
  /\ d \in listed
  /\ EvalDelay(d, delay[d])
  /\ listed' = listed \ {d}
  /\ UNCHANGED <<operand, since, deaf>>

(* nbAxonEnable(d, rule): a cell without value is enabled (enableDelay)    *)
(* and evaluated; its own value is what eval returns in the state it       *)
(* delays.                                                                 *)
EnableDelay(d) ==
  /\ ~delay[d].used
  /\ IF delay[d].value # Disabled
     THEN delay' = [delay EXCEPT ![d].used = TRUE] /\ UNCHANGED <<timers, stale>>
     ELSE EvalDelay(d, [delay[d] EXCEPT !.used = TRUE, !.heard = TRUE])
  /\ UNCHANGED <<operand, listed, since, deaf>>

(* nbAxonDisable(d, rule): nothing is done for a cell without value;       *)
(* disableDelay leaves the timer alone.                                    *)
DisableDelay(d) ==
  /\ delay[d].used
  /\ delay' = IF delay[d].value = Disabled THEN [delay EXCEPT ![d].used = FALSE]
              ELSE [delay EXCEPT ![d].used = FALSE, ![d].heard = FALSE,
                                 ![d].value = Disabled]
  /\ UNCHANGED <<operand, timers, listed, since, stale, deaf>>

(* alarmDelay.                                                             *)
AlarmDelay(d) ==
  /\ Take(d)
  /\ timers' = Tail(timers)
  /\ delay' = [delay EXCEPT ![d].value = operand, ![d].flag = FALSE]
  /\ deaf' = IF delay[d].heard THEN deaf ELSE deaf \cup {d}
  /\ UNCHANGED <<alarm, operand, listed, since, stale>>

DelayCommand ==
  \/ \E v \in State : AssignOperand(v)
  \/ \E d \in Delay : EnableDelay(d) \/ DisableDelay(d)

----------------------------------------------------------------------------
(* A delay condition that hears A and is not listed for evaluation has A's *)
(* value, or A is in the state it delays and its timer is running; the     *)
(* flag tells whether it is.  Excepted are the delays whose timer rang     *)
(* while they were disabled: they have a value without having subscribed   *)
(* to A.                                                                   *)
DelaySettled ==
  \A d \in Delay :
    /\ delay[d].flag = Timed(timers, d)
    /\ delay[d].heard /\ d \notin listed =>
         \/ delay[d].value = operand /\ (operand \notin Delayed[d] => ~Timed(timers, d))
         \/ operand \in Delayed[d] /\ Timed(timers, d)
    /\ delay[d].used => delay[d].heard \/ d \in deaf

(* The timer of a delay rings only when A has been in the delayed state    *)
(* without a change for the whole duration (doc/nbLanguage, 1613), unless  *)
(* the timer was set while the clock was behind or the delay was disabled. *)
DelayHolds ==
  [][\A d \in Delay :
       rung'.object = d /\ rung' # rung /\ delay[d].heard /\ d \notin stale =>
         operand \in Delayed[d] /\ now - since >= Duration[d]]_rung
=============================================================================
