----------------------------- MODULE TimeSched -----------------------------
(* A time condition and its schedule (nbcondition.c, nbsched.c, and the     *)
(* queue of nbtime.c): the condition inverts its value at every alarm, and  *)
(* asks the schedule for the time of the next alarm.  The clock is read by  *)
(* nbClockAlert; commands in between see the time it read.                  *)
(*   def     the expression, or a pulse [op |-> "pulse", interval]          *)
(*   now     the time of day                                                *)
(*   clock   nb_ClockTime                                                   *)
(*   value   the condition's value, "disabled" at first                     *)
(*   timer   the time of its alarm, 0 when none is set                      *)
(*   period  the schedule's period [start, end)                             *)
(*   queue   the intervals cast ahead, a set of module Bfi                  *)
(*   seen    (history) the end of the period when the condition was last    *)
(*           enabled: the schedule starts behind it                         *)
(*   born    (history) the time of translation                              *)
(*   enables (history) how often the condition was enabled                  *)
EXTENDS TimeMeaning

CONSTANTS Exprs,        \* the definitions considered
          Starts,       \* the times at which the condition may be translated
          MaxNow,       \* bound: the last time of day
          MaxEnables,   \* bound: how often the condition is enabled
          CastDomain,   \* the domain cast when it is translated (60 seconds)
          NextDomain    \* the domain cast for the next interval (8 hours)

VARIABLES def, now, clock, value, timer, period, queue, seen, born, enables
vars == <<def, now, clock, value, timer, period, queue, seen, born, enables>>

Pulse == def.op = "pulse"

(* The intervals over at begin are dropped; as long as there is none, or   *)
(* the first is not inside the domain, a larger domain is cast, up to      *)
(* MaxTime (where end + (end - begin) does not fit a long).                *)
(* Mutant: an interval that ends with the domain is relied on.             *)
ReliableToEnd(q) == q.segs # <<>> /\ q.segs[1].end <= q.hi
Reliable(q) == q.segs # <<>> /\ q.segs[1].end < q.hi
Beyond(begin, end) == IF end + (end - begin) > MaxTime THEN MaxTime ELSE end + (end - begin)
RECURSIVE Recast(_, _, _)
Recast(q, begin, end) ==
  IF q.hi = MaxTime \/ Reliable(q) THEN q
  ELSE LET e == IF q.segs = <<>> THEN end ELSE SegMax(end, q.segs[1].end)
       IN Recast(tcCast(begin, e, def), begin, Beyond(begin, e))
Unexpired(q, begin) ==
  LET k == SelectInSeq(q.segs, LAMBDA s : s.end > begin)
  IN [q EXCEPT !.segs = IF k = 0 THEN <<>> ELSE SubSeq(@, k, Len(@))]
tcQueueTrue(begin, end) == Recast(Unexpired(queue, begin), begin, end)

(* A pulse follows its last period; what is over at the floor is skipped.  *)
RECURSIVE NextPulse(_, _)
NextPulse(start, floor) ==
  LET s == start + def.interval
  IN IF s + def.interval <= floor THEN NextPulse(s, floor) ELSE Seg(s, s + def.interval)

Floor(time) == SegMax(time, period.end)
Scheduled(q) ==
  IF q.segs = <<>> THEN Seg(q.hi, q.lo) ELSE q.segs[1]

schedNext(time) ==
  IF Pulse THEN /\ period' = NextPulse(period.start, time)
                /\ queue' = queue
  ELSE LET q == tcQueueTrue(Floor(time), Floor(time) + NextDomain)
       IN /\ queue' = q
          /\ period' = Scheduled(q)

(* TRUE becomes FALSE, and the next period is asked for; FALSE becomes     *)
(* TRUE, until the end of the period.                                      *)
(* Mutant: the end of a period is counted from the alarm.                  *)
UntilEndLate == clock' + (period.end - period.start)
UntilEnd == period.end
evalTime(from, time) ==
  \/ /\ from = "true"
     /\ value' = "false"
     /\ schedNext(time)
     /\ timer' = period'.start
  \/ /\ from = "false"
     /\ value' = "true"
     /\ timer' = UntilEnd
     /\ UNCHANGED <<period, queue>>

newSched(e, t) ==
  /\ def = e
  /\ period = IF e.op = "pulse" THEN Seg(t, t + e.interval) ELSE Seg(0, 0)
  /\ queue = IF e.op = "pulse" THEN bfiNew(0, 0) ELSE tcCast(t, t + CastDomain, e)
Init ==
  /\ \E e \in Exprs, t \in Starts : newSched(e, t) /\ now = t /\ clock = t
  /\ value = "disabled"
  /\ timer = 0
  /\ seen = 0
  /\ born = clock
  /\ enables = 0

(* nbAxonEnable: enableTime gives the value TRUE, and the evaluation that   *)
(* follows turns it to FALSE.                                              *)
Enable ==
  /\ value = "disabled"
  /\ enables < MaxEnables
  /\ enables' = enables + 1
  /\ evalTime("true", clock)
  /\ seen' = period.end
  /\ UNCHANGED <<def, now, clock, born>>

Disable ==
  /\ value # "disabled"
  /\ value' = "disabled"
  /\ timer' = 0
  /\ UNCHANGED <<def, now, clock, period, queue, seen, born, enables>>

Tick ==
  /\ now < MaxNow
  /\ now' = now + 1
  /\ UNCHANGED <<def, clock, value, timer, period, queue, seen, born, enables>>

(* nbClockAlert: one second's alarms, then the reaction, which evaluates    *)
(* the condition at the time read before it.                               *)
Due == timer # 0 /\ timer <= now
Alarm ==
  /\ Due
  /\ clock' = now
  /\ evalTime(value, now)
  /\ UNCHANGED <<def, now, seen, born, enables>>
ReadClock ==
  /\ ~Due
  /\ clock # now
  /\ clock' = now
  /\ UNCHANGED <<def, now, value, timer, period, queue, seen, born, enables>>

Next == Enable \/ Disable \/ Tick \/ Alarm \/ ReadClock
Spec == Init /\ [][Next]_vars
-----------------------------------------------------------------------------
(* The intervals the condition is to be true in: those of its expression    *)
(* that the schedule had not given out before the condition was enabled     *)
(* (what is left of an interval in which it was disabled is not given out   *)
(* again).  Those of a pulse follow one another from the second period on.  *)
IntervalsOf == [e \in {x \in Exprs : x.op # "pulse"} |-> Intervals(e)]
Wanted == {s \in IF Pulse THEN Repeats(born, def.interval, def.interval) ELSE IntervalsOf[def] :
             s.end > seen}

(* Whenever the clock has been read and no alarm is due, an enabled time    *)
(* condition is true exactly when the time of day is in an interval of its  *)
(* expression, however the domains were cut and however late earlier alarms *)
(* were: evalTime, schedNext, tcQueueTrue, tcCast and the interval sets     *)
(* under them.                                                              *)
Settled == value # "disabled" /\ ~Due /\ clock = now
Accurate == Settled => ((value = "true") <=> \E s \in Wanted : In(s, now))

(* The period of a true condition ends where an interval of its expression  *)
(* ends: the end of a domain is never taken for the end of an interval, and *)
(* intervals that follow one another stay apart, so that each gives a rule  *)
(* its edge.                                                                *)
EdgesKept == value = "true" /\ period.end < MaxTime => \E s \in Wanted : s.end = period.end
=============================================================================
