----------------------------- MODULE AlarmClock -----------------------------
(* What nbClockSetTimer and nbClockAlert promise the objects of the        *)
(* interpreter: an object has at most one alarm, set for a second; it      *)
(* rings when that second has come, earlier alarms first and those of one  *)
(* second in the order in which they were set, each once, unless it is set *)
(* anew or cancelled.                                                      *)
EXTENDS Naturals

CONSTANT Object       \* what may have an alarm

VARIABLES
  now,      \* the wall clock
  due,      \* due[o]: the second of o's alarm, 0 when it has none
  ahead,    \* pairs of objects with alarms for one second, first set first
  rung      \* what rang last: the object, its second, and how many rang

alarmVars == <<now, due, ahead, rung>>

Init ==
  /\ now \in Nat
  /\ due = [o \in Object |-> 0]
  /\ ahead = {}
  /\ rung = [object |-> "none", at |-> 0, count |-> 0]

Tick == now' = now + 1 /\ UNCHANGED <<due, ahead, rung>>

(* o's alarm is set for a second, where it lines up behind the alarms that *)
(* this second already has, or cancelled.                                  *)
Set(o) ==
  /\ due'[o] \in Nat /\ due' = [due EXCEPT ![o] = due'[o]]
  /\ ahead' = {p \in ahead : o \notin {p[1], p[2]}} \cup
              {<<p, o>> : p \in {q \in Object \ {o} : due[q] # 0 /\ due[q] = due'[o]}}
  /\ UNCHANGED <<now, rung>>

IsNext(o) ==
  /\ due[o] # 0 /\ due[o] <= now
  /\ \A p \in Object : due[p] # 0 => due[o] <= due[p] /\ <<p, o>> \notin ahead

Ring(o) ==
  /\ IsNext(o)
  /\ rung' = [object |-> o, at |-> due[o], count |-> rung.count + 1]
  /\ due' = [due EXCEPT ![o] = 0]
  /\ ahead' = {p \in ahead : o \notin {p[1], p[2]}}
  /\ UNCHANGED now

Next ==
  \/ Tick
  \/ \E o \in Object : Ring(o) \/ Set(o)

Spec == Init /\ [][Next]_alarmVars
=============================================================================
