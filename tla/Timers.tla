------------------------------- MODULE Timers -------------------------------
(* The interpreter between two inputs: nbClockAlert with the delay         *)
(* conditions and a cache as its objects, and the commands that change     *)
(* them, from outside while nbClockAlert is not running, and from rules    *)
(* while it is.                                                            *)
EXTENDS DelayCell, CacheRows

CONSTANT MaxCommands    \* bound: commands performed

ASSUME CommandsAssumption == MaxCommands \in Nat

VARIABLE commands       \* history: how many commands were performed

vars == <<clockVars, delayVars, cacheVars, commands>>

TypeOK == ClockTypeOK /\ DelayTypeOK /\ CacheTypeOK /\ commands \in 0..MaxCommands

Init == ClockInit /\ DelayInit /\ CacheInit /\ commands = 0

(* A command of the main loop, or of a rule in a reaction.                 *)
Command ==
  /\ alarm.at \in {"idle", "react", "rules"} /\ listed = {}
  /\ commands < MaxCommands
  /\ commands' = commands + 1
  /\ UNCHANGED <<now, clock, alarm, rung>>
  /\ \/ DelayCommand /\ UNCHANGED cacheVars
     \/ CacheCommand /\ UNCHANGED delayVars

(* The reaction to a command.                                              *)
React == (\E d \in Delay : ReactDelay(d)) /\ UNCHANGED <<now, clock, alarm, rung, cacheVars, commands>>

(* The loop of nbClockAlert and the alarm methods.                         *)
Alert ==
  /\ listed = {} /\ UNCHANGED commands
  /\ \/ AlertStep /\ UNCHANGED <<delayVars, cacheVars>>
     \/ (\E d \in Delay : AlarmDelay(d)) /\ UNCHANGED cacheVars
     \/ (CacheAlarm \/ CacheAlarmStep) /\ UNCHANGED delayVars

Time == (Tick \/ ClockToBuffer) /\ UNCHANGED <<delayVars, cacheVars, commands>>

Next == Command \/ React \/ Alert \/ Time

Spec == Init /\ [][Next]_vars

(* nbMedullaPulse calls nbClockAlert before every wait, which ends with    *)
(* the nap that nbClockAlert returned at the latest.                       *)
FairSpec == Spec /\ WF_vars(React \/ Alert)

----------------------------------------------------------------------------
Due(q, o) == IF Timed(q, o) THEN q[CHOOSE i \in 1..Len(q) : q[i].object = o].at ELSE 0
AheadInSecond(q) ==
  {p \in Object \X Object : \E i, j \in 1..Len(q) :
     i < j /\ q[i].at = q[j].at /\ q[i].object = p[1] /\ q[j].object = p[2]}

(* Every object that waits for something has a timer, and no other has:    *)
(* whatever happened to the operand, the subscriptions and the rows, a     *)
(* delay condition without a timer has the value of its operand, and the   *)
(* cache is alarmed no later than its first row expires.                   *)
WaitsAlarmed == DelaySettled /\ CacheAlarmed

(* The variables have their types, all that waits will be alarmed, and the *)
(* rows, counters and thresholds of the cache agree, whatever rules do     *)
(* from inside the alarm loops.                                            *)
TimersSound == TypeOK /\ WaitsAlarmed /\ CacheSound

(* The queue and the loops of nbClockAlert are an alarm clock: one alarm   *)
(* per object, rung in due time and order, whatever rules and alarm        *)
(* methods set and cancel in between.                                      *)
Clock == INSTANCE AlarmClock WITH due <- [o \in Object |-> Due(timers, o)],
                                 ahead <- AheadInSecond(timers)
ImplementsAlarmClock == Clock!Spec

(* However rules keep nbClockAlert busy with new alarms, it returns, with  *)
(* every timer that has come due served and every expired row gone.        *)
Served == []<>(/\ alarm.at = "idle"
               /\ \A i \in DOMAIN timers : timers[i].at > now
               /\ \A i \in DOMAIN cache.list : cache.list[i].at > now)
=============================================================================
