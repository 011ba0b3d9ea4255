----------------------------- MODULE ClockTimer -----------------------------
(* nbclock.c: the queue of timers and nbClockAlert, which rings them.  The *)
(* objects are the delay conditions of DelayCell and the cache node of     *)
(* CacheRows; the module Timers puts them together.                        *)
EXTENDS Integers, SequencesExt, FiniteSetsExt

CONSTANTS
  Delay,        \* delay conditions
  Node,         \* the node of a cache skill
  MaxTime       \* bound: the last second of the wall clock

ASSUME ClockAssumption == Node \notin Delay /\ MaxTime \in Nat \ {0}

Object == Delay \cup {Node}

VARIABLES
  now,      \* the wall clock, time()
  clock,    \* nb_ClockTime: the wall clock when it was last looked at
  timers,   \* nb_timerQueue
  alarm,    \* where nbClockAlert stands, and the second it serves
  rung      \* history: what rang last, its second, how many rang

clockVars == <<now, clock, timers, alarm, rung>>

ClockTypeOK ==
  /\ now \in 1..MaxTime /\ clock \in 1..now
  /\ timers \in Seq([object : Object, at : Nat \ {0}])
  /\ alarm \in [at : {"idle", "second", "cache", "rules", "react"}, second : Nat]
  /\ rung.object \in Object \cup {"none"} /\ rung.count \in Nat

ClockInit ==
  /\ now = 1 /\ clock = 1
  /\ timers = <<>>
  /\ alarm = [at |-> "idle", second |-> 0]
  /\ rung = [object |-> "none", at |-> 0, count |-> 0]

(* The first timer of o in the queue is cancelled.                         *)
Cancelled(q, o) ==
  LET own == {i \in 1..Len(q) : q[i].object = o}
  IN  IF own = {} THEN q ELSE RemoveAt(q, Min(own))

(* Mutant: a new timer goes before those of the same second.               *)
InsertedBefore(q, e) == InsertAt(q, Min({i \in 1..Len(q) : q[i].at >= e.at} \cup {Len(q) + 1}), e)

(* A new timer goes before the first of a later second, so behind those of *)
(* its own.                                                                *)
Inserted(q, e) == InsertAt(q, Min({i \in 1..Len(q) : q[i].at > e.at} \cup {Len(q) + 1}), e)

(* nbClockSetTimer(t, o): a timer that o has is cancelled; 0 sets no other. *)
SetTimer(q, t, o) ==
  IF t = 0 THEN Cancelled(q, o) ELSE Inserted(Cancelled(q, o), [object |-> o, at |-> t])

Timed(q, o) == \E i \in 1..Len(q) : q[i].object = o

----------------------------------------------------------------------------
Tick ==
  /\ now < MaxTime
  /\ now' = now + 1
  /\ UNCHANGED <<clock, timers, alarm, rung>>

(* nbClockToBuffer: a message with a time stamp looks at the clock too.    *)
ClockToBuffer == clock # now /\ clock' = now /\ UNCHANGED <<now, timers, alarm, rung>>

(* The outer loop of nbClockAlert, with the clock at t.                    *)
Looked(t) ==
  alarm' = IF timers # <<>> /\ Head(timers).at <= t
           THEN [at |-> "second", second |-> Head(timers).at]
           ELSE [at |-> "idle", second |-> 0]

ClockAlert ==
  /\ alarm.at = "idle"
  /\ clock' = now
  /\ Looked(now)
  /\ UNCHANGED <<now, timers, rung>>

InSecond == alarm.at = "second" /\ timers # <<>> /\ Head(timers).at = alarm.second

(* One turn of the inner loop: o's timer is taken off the queue; what its  *)
(* alarm method does is DelayCell's or CacheRows' part.                    *)
Take(o) ==
  /\ InSecond /\ Head(timers).object = o
  /\ rung' = [object |-> o, at |-> alarm.second, count |-> rung.count + 1]
  /\ UNCHANGED <<now, clock>>

(* No timer is left for this second: the clock is looked at, and           *)
(* nbRuleReact begins.                                                     *)
SecondEnd ==
  /\ alarm.at = "second" /\ ~InSecond
  /\ clock' = now
  /\ alarm' = [alarm EXCEPT !.at = "react"]
  /\ UNCHANGED <<now, timers, rung>>

(* nbRuleReact returns, and the loop goes on with the next second.         *)
ReactEnd ==
  /\ alarm.at = "react"
  /\ Looked(clock)
  /\ UNCHANGED <<now, clock, timers, rung>>

AlertStep == ClockAlert \/ SecondEnd \/ ReactEnd
=============================================================================
