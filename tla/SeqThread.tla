----------------------------- MODULE SeqThread -----------------------------
(* What the language reference says of sequence rules: each is a thread    *)
(* that performs its statements in order, each once, and in the turns of   *)
(* its repetitions; it waits for times and for conditions.                 *)
EXTENDS SeqPlan

CONSTANTS
  Thread, Term, Value,
  True,         \* the values that are neither false nor unknown
  Plan          \* Plan[p]: the statements of thread p

VARIABLES
  clock,        \* the time
  store,        \* the values of the terms
  todo,         \* the statements left; none when the thread has ended
  due,          \* the time the thread has got to
  waits,        \* of a thread that waits in an "on": "armed", and "changed" when
                \* the condition has changed since; else "none"
  follower      \* the threads that follow a term

vars == <<clock, store, todo, due, waits, follower>>

Updated(sets) == [t \in Term |-> IF t \in DOMAIN sets THEN sets[t] ELSE store[t]]

Init ==
  /\ clock \in Nat /\ store \in [Term -> Value]
  /\ todo = [p \in Thread |-> <<>>] /\ due = [p \in Thread |-> clock]
  /\ waits = [p \in Thread |-> "none"] /\ follower = {}

At(p, op) == todo[p] # <<>> /\ Head(todo[p]).op = op
Now(p) == due[p] <= clock
Goes(p) == todo' = [todo EXCEPT ![p] = Unfold(Tail(@))]

(* The terms change: a condition that is waited for may have changed.      *)
Change ==
  /\ store' \in [Term -> Value]
  /\ waits' = [p \in Thread |->
       IF waits[p] = "armed" /\ store'[Head(todo[p]).cond] # store[Head(todo[p]).cond]
       THEN "changed" ELSE waits[p]]

Start(p) ==
  /\ todo[p] = <<>>
  /\ todo' = [todo EXCEPT ![p] = Unfold(Plan[p])] /\ due' = [due EXCEPT ![p] = clock]
  /\ UNCHANGED <<clock, store, waits, follower>>

Step(p) ==
  /\ At(p, "step") /\ Goes(p)
  /\ due' = [due EXCEPT ![p] = @ + Head(todo[p]).n]
  /\ UNCHANGED <<clock, store, waits, follower>>

(* A thread behind its schedule catches up.                                *)
CatchUp(p) == Now(p) /\ due' = [due EXCEPT ![p] = clock] /\ UNCHANGED <<clock, store, todo, waits, follower>>

Publish(p) ==
  /\ At(p, "publish") \/ At(p, "follow")
  /\ Now(p) /\ Goes(p)
  /\ follower' = IF At(p, "follow") THEN follower \cup {p} ELSE follower
  /\ UNCHANGED <<clock, store, due, waits>>

Assert(p) ==
  /\ At(p, "assert") /\ Now(p) /\ Goes(p)
  /\ Change /\ store' = Updated(Head(todo[p]).sets)
  /\ UNCHANGED <<clock, due, follower>>

(* What the command does comes after.                                      *)
Perform(p) == At(p, "command") /\ Now(p) /\ Goes(p) /\ UNCHANGED <<clock, store, due, waits, follower>>

On(p) ==
  /\ At(p, "on") /\ Now(p) /\ waits[p] = "none"
  /\ waits' = [waits EXCEPT ![p] = "armed"] /\ UNCHANGED <<clock, store, todo, due, follower>>

(* "on" waits for a change, although a thread that follows a term may find *)
(* the condition true without one; "onif" passes at once if it is true.    *)
Pass(p) ==
  /\ \/ At(p, "on") /\ (waits[p] = "changed" \/ (waits[p] = "armed" /\ p \in follower))
     \/ At(p, "onif") /\ Now(p)
  /\ store[Head(todo[p]).cond] \in True
  /\ Goes(p)
  /\ due' = [due EXCEPT ![p] = clock] /\ waits' = [waits EXCEPT ![p] = "none"]
  /\ UNCHANGED <<clock, store, follower>>

(* "if" decides at once, also when the thread's time has not come.         *)
If(p) ==
  /\ At(p, "if")
  /\ LET s == Head(todo[p])
     IN todo' = [todo EXCEPT ![p] =
                   Unfold((IF store[s.cond] \in True THEN s.then ELSE s.else) \o Tail(@))]
  /\ UNCHANGED <<clock, store, due, waits, follower>>

Next ==
  \/ clock' > clock /\ UNCHANGED <<store, todo, due, waits, follower>>
  \/ Change /\ UNCHANGED <<clock, todo, due, follower>>
  \/ \E p \in Thread :
       Start(p) \/ Step(p) \/ CatchUp(p) \/ Publish(p) \/ Assert(p) \/ Perform(p) \/ On(p) \/ Pass(p) \/ If(p)

Spec == Init /\ [][Next]_vars
============================================================================
