------------------------------ MODULE SeqRule ------------------------------
(* Sequence rules, {on(a);10m;`b=2;}, as commands (nbrule.c): the parser   *)
(* turns the statements into the instructions of a plan; a rule performs   *)
(* them until one makes it wait, for a timer, for a condition, or for      *)
(* nbRuleReact to make its assertion or perform its command.  nbRuleReact  *)
(* walks a list of rules that are ready, whose commands call nbRuleReact   *)
(* in their turn, and then sets the rules of the list going again.         *)
(* Everything is one C stack; `calls' is what is left to be done on it.    *)
(* A plan that follows a term (==a;) neither ends nor waits for that term, *)
(* no loop goes without a wait, and an if without else ends its block.     *)
EXTENDS SeqPlan, SequencesExt

CONSTANTS
  Rule,         \* the threads; of each plan there is one at a time (bound)
  Term, Value, True, Unknown,
  Plan,         \* Plan[r]: its statements
  Command,      \* the commands that arrive from outside: [sets], an assertion,
                \* or [run], a plan to start
  MaxClock,     \* bound: the time
  Nil           \* no rule, no term, no assertion, no command

VARIABLES
  clock,        \* nb_ClockTime
  store,        \* the values of the terms
  rule,         \* the rules: state, ip, time, cond, def (valDef), counter,
                \* assertions, command, next (nextReady)
  ready,        \* nb_RuleReady
  subs,         \* the subscriptions: pairs of a term and a rule
  timers,       \* the timers of rules, in order
  scheduled,    \* the rules that nbCellReact has to evaluate
  calls,        \* what the functions that have been called still do, the
                \* innermost first
  met,          \* history: of rules in an "on": its condition has changed since
  stranded      \* history: the rules lost when a link was overwritten

vars == <<clock, store, rule, ready, subs, timers, scheduled, calls, met, stranded>>
cells == <<clock, store, scheduled, met>>
lists == <<ready, stranded>>

----------------------------------------------------------------------------
(* The parser.  k loops surround the statement; rest is what follows it,   *)
(* a loop around it standing as "again".  (todo is no part of the code: it *)
(* is what is left of the plan at an instruction.)                         *)
Instr(op, todo) == [op |-> op, todo |-> todo]
Jump(todo, by) == [op |-> "branch", todo |-> todo, jump |-> by]

(* n seconds; a time to wait for comes before what is then done.           *)
StepCode(s, todo) == <<[op |-> "step", todo |-> todo, n |-> s.n]>>
ValueCode(s, todo) ==
  <<Instr("wait", todo),
    IF s.op = "publish" THEN [op |-> "value", todo |-> todo, def |-> s.value]
    ELSE [op |-> "define", todo |-> todo, def |-> s.term]>>
OnCode(s, todo) ==
  <<Instr("wait", todo),
    [op |-> IF s.op = "on" THEN "onEnable" ELSE "whenEnable", todo |-> todo, cond |-> s.cond],
    [op |-> "whenTest", todo |-> todo, cond |-> s.cond]>>
AssertCode(s, todo) == <<Instr("wait", todo), [op |-> "assert", todo |-> todo, sets |-> s.sets]>>
CommandCode(s, todo) == <<Instr("wait", todo), [op |-> "command", todo |-> todo, command |-> s.command]>>

IfCode(s, rest, then, else) ==
  LET skip == IF else = <<>> THEN <<>> ELSE <<Jump(rest, Len(else) + 1)>>
  IN <<[op |-> "if", todo |-> <<s>> \o rest, cond |-> s.cond, jump |-> 1 + Len(then \o skip)]>>
       \o then \o skip \o else

Again(s, k) == CASE s.count = 0 -> <<s>>
                 [] s.count = 1 -> <<>>
                 [] OTHER -> <<[op |-> "again", counter |-> k + 1, body |-> s.body]>>
RepeatCode(s, k, rest, body) ==
  CASE s.count = 0 -> body \o <<Jump(<<s>> \o rest, -Len(body))>>
    [] s.count = 1 -> body
    [] OTHER -> <<[op |-> "loopBegin", todo |-> <<s>> \o rest, counter |-> k + 1, count |-> s.count]>> \o body
                \o <<[op |-> "loopEnd", todo |-> Again(s, k) \o rest, counter |-> k + 1, jump |-> -Len(body)]>>

RECURSIVE Code(_, _, _)
Statement(s, k, rest) ==
  LET todo == <<s>> \o rest
  IN CASE s.op = "step" -> StepCode(s, todo)
       [] s.op \in {"publish", "follow"} -> ValueCode(s, todo)
       [] s.op = "assert" -> AssertCode(s, todo)
       [] s.op = "command" -> CommandCode(s, todo)
       [] s.op \in {"on", "onif"} -> OnCode(s, todo)
       [] s.op = "if" -> IfCode(s, rest, Code(s.then, k, rest), Code(s.else, k, rest))
       [] s.op = "repeat" ->
            RepeatCode(s, k, rest, Code(s.body, IF s.count > 1 THEN k + 1 ELSE k, Again(s, k) \o rest))
Code(stmts, k, rest) ==
  IF stmts = <<>> THEN <<>>
  ELSE Statement(Head(stmts), k, Tail(stmts) \o rest) \o Code(Tail(stmts), k, rest)

Compile(plan) == Code(plan, 0, <<>>) \o <<Instr("wait", <<>>), Instr("exit", <<>>)>>
Compiled == [r \in Rule |-> Compile(Plan[r])]
Loops == 1..2   \* bound: loops within loops (10)

----------------------------------------------------------------------------
Off == [state |-> "free", ip |-> 1, time |-> 0, cond |-> Nil, def |-> Unknown,
        counter |-> [k \in Loops |-> 0], assertions |-> Nil, command |-> Nil, next |-> Nil]

Init ==
  /\ clock = 0 /\ store = [t \in Term |-> Unknown]
  /\ rule = [r \in Rule |-> Off] /\ ready = Nil /\ subs = {} /\ timers = <<>>
  /\ scheduled = {} /\ calls = <<>> /\ met = {} /\ stranded = {}

Call(op) == [op |-> op]
OnRule(op, r) == [op |-> op, rule |-> r]
At(op) == calls # <<>> /\ Head(calls).op = op
Then(code) == calls' = code \o Tail(calls)
Current == Head(calls).rule
React == <<Call("cells"), Call("take")>>

(* nbRuleEval: only a running rule performs instructions.                  *)
Eval(r, state, ip) == IF state = "running" THEN <<[op |-> "eval", rule |-> r, ip |-> ip]>> ELSE <<>>

(* nbAssert: a term that changes alerts its subscribers.                   *)
Assigned(sets) ==
  LET new == [t \in Term |-> IF t \in DOMAIN sets THEN sets[t] ELSE store[t]]
      alerted == {s[2] : s \in {x \in subs : new[x[1]] # store[x[1]]}}
  IN /\ store' = new /\ scheduled' = scheduled \cup alerted
     /\ met' = met \cup {r \in alerted : rule[r].cond # Nil /\ new[rule[r].cond] # store[rule[r].cond]}

----------------------------------------------------------------------------
(* Instructions.                                                           *)
Instruction == Compiled[Current][Head(calls).ip]
Performs(op) == At("eval") /\ Instruction.op = op
Behind == Head(calls).ip + 1
Go(ip) == calls' = <<[Head(calls) EXCEPT !.ip = ip]>> \o Tail(calls)
Leave == calls' = Tail(calls)

LoopBegin ==
  /\ Performs("loopBegin") /\ Go(Behind)
  /\ rule' = [rule EXCEPT ![Current].counter[Instruction.counter] = Instruction.count]
  /\ UNCHANGED <<cells, lists, subs, timers>>

LoopEnd ==
  LET n == rule[Current].counter[Instruction.counter] - 1
  IN /\ Performs("loopEnd")
     /\ rule' = [rule EXCEPT ![Current].counter[Instruction.counter] = n]
     /\ Go(IF n > 0 THEN Head(calls).ip + Instruction.jump ELSE Behind)
     /\ UNCHANGED <<cells, lists, subs, timers>>

Branch ==
  /\ Performs("branch") /\ Go(Head(calls).ip + Instruction.jump)
  /\ UNCHANGED <<cells, rule, lists, subs, timers>>

If ==
  /\ Performs("if")
  /\ Go(IF store[Instruction.cond] \in True THEN Behind ELSE Head(calls).ip + Instruction.jump)
  /\ UNCHANGED <<cells, rule, lists, subs, timers>>

Subscribed == subs' = subs \cup {<<Instruction.cond, Current>>} /\ met' = met \ {Current}

OnEnable ==
  /\ Performs("onEnable") /\ Subscribed /\ Leave
  /\ rule' = [rule EXCEPT ![Current].cond = Instruction.cond, ![Current].ip = Behind]
  /\ UNCHANGED <<clock, store, scheduled, lists, timers>>

WhenEnable ==
  /\ Performs("whenEnable") /\ Subscribed /\ Go(Behind)
  /\ rule' = [rule EXCEPT ![Current].cond = Instruction.cond]
  /\ UNCHANGED <<clock, store, scheduled, lists, timers>>

WhenTest ==
  /\ Performs("whenTest")
  /\ IF store[Instruction.cond] \in True
     THEN /\ subs' = subs \ {<<Instruction.cond, Current>>} /\ met' = met \ {Current}
          /\ rule' = [rule EXCEPT ![Current].cond = Nil, ![Current].time = clock]
          /\ Go(Behind)
     ELSE rule' = [rule EXCEPT ![Current].ip = Head(calls).ip] /\ Leave /\ UNCHANGED <<subs, met>>
  /\ UNCHANGED <<clock, store, scheduled, lists, timers>>

Step ==
  /\ Performs("step") /\ Go(Behind)
  /\ rule' = [rule EXCEPT ![Current].time = @ + Instruction.n]
  /\ UNCHANGED <<cells, lists, subs, timers>>

(* nbClockSetTimer: in place of the rule's timer, behind those of the same *)
(* second.                                                                 *)
SetTimer(r, at) ==
  LET others == SelectSeq(timers, LAMBDA u : u.rule # r)
  IN timers' = SelectSeq(others, LAMBDA u : u.at <= at) \o <<[rule |-> r, at |-> at]>>
                 \o SelectSeq(others, LAMBDA u : u.at > at)

Wait ==
  LET r == Current
  IN /\ Performs("wait")
     /\ IF rule[r].time > clock
        THEN /\ SetTimer(r, rule[r].time)
             /\ rule' = [rule EXCEPT ![r].state = "timer", ![r].ip = Behind] /\ Leave
        ELSE /\ rule' = [rule EXCEPT ![r].time = clock, ![r].ip = Behind] /\ Go(Behind)
             /\ UNCHANGED timers
     /\ UNCHANGED <<cells, lists, subs>>

(* nbPlanDefine; a constant is no publisher.                               *)
Define ==
  LET r == Current
  IN /\ Performs("define") /\ Go(Behind)
     /\ subs' = IF rule[r].def = Instruction.def THEN subs
                ELSE (subs \ {<<rule[r].def, r>>}) \cup {<<Instruction.def, r>>}
     /\ rule' = [rule EXCEPT ![r].def = Instruction.def, ![r].ip = Behind]
     /\ UNCHANGED <<cells, lists, timers>>

(* nbPlanValue; the subscription to what was followed stays.               *)
PlanValue ==
  /\ Performs("value") /\ Go(Behind)
  /\ rule' = [rule EXCEPT ![Current].def = Instruction.def, ![Current].ip = Behind]
  /\ UNCHANGED <<cells, lists, subs, timers>>

(* The rules in the list that begins with r.                               *)
RECURSIVE Chain(_, _)
Chain(r, most) == IF r = Nil \/ most = 0 THEN <<>> ELSE <<r>> \o Chain(rule[r].next, most - 1)
ListFrom(r) == Chain(r, Cardinality(Rule) + 1)

(* nbPlanAssert, nbPlanCommand.  A rule that nbRuleReact has just set      *)
(* going again is still linked to the rest of the list it was in.          *)
Queued(r, waiting) ==
  /\ rule' = [rule EXCEPT ![r] = [waiting EXCEPT !.state = "ready", !.ip = Behind, !.next = ready]]
  /\ ready' = r
  /\ stranded' = stranded \cup
       (IF calls[2] = OnRule("resumed", r) THEN ToSet(ListFrom(rule[r].next)) ELSE {})
GetReady ==
  /\ \/ Performs("assert") /\ Queued(Current, [rule[Current] EXCEPT !.assertions = Instruction.sets])
     \/ Performs("command") /\ Queued(Current, [rule[Current] EXCEPT !.command = Instruction.command])
  /\ Leave
  /\ UNCHANGED <<cells, subs, timers>>

(* nbPlanExit, and nbRuleEval drops the rule; nextReady is still in the    *)
(* freed block.                                                            *)
Exit ==
  /\ Performs("exit") /\ Leave
  /\ rule' = [rule EXCEPT ![Current] = [Off EXCEPT !.next = rule[Current].next, !.time = rule[Current].time]]
  /\ UNCHANGED <<cells, lists, subs, timers>>

Instructions ==
  \/ LoopBegin \/ LoopEnd \/ Branch \/ If \/ OnEnable \/ WhenEnable \/ WhenTest
  \/ Step \/ Wait \/ Define \/ PlanValue \/ GetReady \/ Exit

----------------------------------------------------------------------------
(* nbCellReact: the rules' cells; a rule scheduled again meanwhile has its *)
(* turn too.                                                               *)
Cells ==
  /\ At("cells")
  /\ \/ scheduled = {} /\ Leave /\ UNCHANGED scheduled
     \/ \E r \in scheduled :
          /\ scheduled' = scheduled \ {r}
          /\ calls' = Eval(r, rule[r].state, rule[r].ip) \o calls
  /\ UNCHANGED <<clock, store, met, rule, lists, subs, timers>>

(* nbRuleReact, once the cells have reacted: the list is taken.            *)
Take ==
  /\ At("take")
  /\ ready' = Nil
  /\ Then(IF ready = Nil THEN <<>> ELSE <<[op |-> "act", rule |-> ready, first |-> ready]>>)
  /\ UNCHANGED <<cells, rule, subs, timers, stranded>>

(* Mutant: the assertion is not taken off the rule.                        *)
ActKept ==
  LET r == Current
      command == rule[r].command
  IN /\ At("act")
     /\ IF rule[r].assertions # Nil THEN Assigned(rule[r].assertions) ELSE UNCHANGED <<store, scheduled, met>>
     /\ Then((IF command = Nil THEN <<>> ELSE <<[op |-> "command", command |-> command]>>)
             \o <<[Head(calls) EXCEPT !.op = "next"]>>)
     /\ UNCHANGED <<clock, rule, lists, subs, timers>>

(* Mutant: a rule goes on as soon as its command has been performed.       *)
ActResumes ==
  LET r == Current
      command == rule[r].command
  IN /\ At("act")
     /\ IF rule[r].assertions # Nil THEN Assigned(rule[r].assertions) ELSE UNCHANGED <<store, scheduled, met>>
     /\ rule' = [rule EXCEPT ![r].assertions = Nil, ![r].command = Nil, ![r].state = "running"]
     /\ Then((IF command = Nil THEN <<>> ELSE <<[op |-> "command", command |-> command]>>)
             \o Eval(r, "running", rule[r].ip) \o <<[Head(calls) EXCEPT !.op = "next"]>>)
     /\ UNCHANGED <<clock, lists, subs, timers>>

(* A rule of the list: its assertion is made, or its command performed.    *)
Act ==
  LET r == Current
      command == rule[r].command
  IN /\ At("act")
     /\ IF rule[r].assertions # Nil THEN Assigned(rule[r].assertions) ELSE UNCHANGED <<store, scheduled, met>>
     /\ rule' = [rule EXCEPT ![r].assertions = Nil]
     /\ Then((IF command = Nil THEN <<>> ELSE <<[op |-> "command", command |-> command]>>)
             \o <<[Head(calls) EXCEPT !.op = "next"]>>)
     /\ UNCHANGED <<clock, lists, subs, timers>>

(* Mutant: the cells do not react behind the last rule.                    *)
NextRuleUnreacted ==
  LET r == Current
  IN /\ At("next")
     /\ rule' = [rule EXCEPT ![r].command = Nil]
     /\ Then(<<IF rule[r].next = Nil THEN [Head(calls) EXCEPT !.op = "append"]
               ELSE [Head(calls) EXCEPT !.op = "act", !.rule = rule[r].next]>>)
     /\ UNCHANGED <<cells, lists, subs, timers>>
(* Behind the last rule the cells react, and the rules that have got ready *)
(* are appended.                                                           *)
NextRule ==
  LET r == Current
  IN /\ At("next")
     /\ rule' = [rule EXCEPT ![r].command = Nil]
     /\ Then(IF rule[r].next = Nil THEN <<Call("cells"), [Head(calls) EXCEPT !.op = "append"]>>
             ELSE <<[Head(calls) EXCEPT !.op = "act", !.rule = rule[r].next]>>)
     /\ UNCHANGED <<cells, lists, subs, timers>>
Append_ ==
  /\ At("append")
  /\ rule' = [rule EXCEPT ![Current].next = ready]
  /\ ready' = Nil
  /\ Then(IF ready # Nil THEN <<[Head(calls) EXCEPT !.op = "act", !.rule = ready]>>
          ELSE <<OnRule("resume", Head(calls).first)>>)
  /\ UNCHANGED <<cells, subs, timers, stranded>>

(* The rules of the list go on, one after the other.                       *)
Resume ==
  LET r == Current
  IN /\ At("resume")
     /\ rule' = [rule EXCEPT ![r].state = "running"]
     /\ Then(Eval(r, "running", rule[r].ip) \o <<OnRule("resumed", r)>>)
     /\ UNCHANGED <<cells, lists, subs, timers>>
Resumed ==
  LET r == Current
  IN /\ At("resumed")
     /\ Then(IF rule[r].next = Nil THEN <<>> ELSE <<OnRule("resume", rule[r].next)>>)
     /\ rule' = IF rule[r].state = "ready" THEN rule
                ELSE [rule EXCEPT ![r].next = Nil]      \* is not read again
     /\ UNCHANGED <<cells, lists, subs, timers>>

(* nbRuleExec.                                                             *)
Started(r) == [rule EXCEPT ![r] = [Off EXCEPT !.state = "running", !.time = clock]]

(* nbCmd: an assertion, or the start of a thread; and the reaction.        *)
DoCommand ==
  LET c == Head(calls).command
  IN /\ At("command")
     /\ \/ /\ "sets" \in DOMAIN c /\ Assigned(c.sets)
           /\ Then(React) /\ UNCHANGED rule
        \/ /\ "run" \in DOMAIN c /\ UNCHANGED <<store, scheduled, met>>
           /\ IF rule[c.run].state = "free"
              THEN rule' = Started(c.run) /\ Then(Eval(c.run, "running", 1) \o React)
              ELSE Then(React) /\ UNCHANGED rule
     /\ UNCHANGED <<clock, lists, subs, timers>>

----------------------------------------------------------------------------
(* nbClockAlert: the timers of a second, the reaction, and the next second *)
(* that is due.                                                            *)
Alarms ==
  /\ At("alarms")
  /\ Then(IF timers = <<>> \/ Head(timers).at > clock THEN <<>>
          ELSE <<[op |-> "second", at |-> Head(timers).at]>>)
  /\ UNCHANGED <<cells, rule, lists, subs, timers>>
Second ==
  /\ At("second")
  /\ IF timers # <<>> /\ Head(timers).at = Head(calls).at
     THEN LET r == Head(timers).rule
          IN /\ timers' = Tail(timers)
             /\ rule' = [rule EXCEPT ![r].state = "running"]
             /\ calls' = Eval(r, "running", rule[r].ip) \o calls
     ELSE Then(React \o <<Call("alarms")>>) /\ UNCHANGED <<timers, rule>>
  /\ UNCHANGED <<cells, lists, subs>>

Program ==
  \/ Instructions \/ Cells \/ Take \/ Act \/ NextRule \/ Append_ \/ Resume \/ Resumed
  \/ DoCommand \/ Alarms \/ Second

(* The main loop: nbClockAlert, and the commands that arrive.              *)
Alarm ==
  /\ calls = <<>> /\ timers # <<>> /\ Head(timers).at <= clock
  /\ calls' = <<Call("alarms")>>
  /\ UNCHANGED <<cells, rule, lists, subs, timers>>
Input(c) ==
  /\ calls = <<>>
  /\ calls' = <<[op |-> "command", command |-> c]>>
  /\ UNCHANGED <<cells, rule, lists, subs, timers>>

(* Each message that is written reads the time, so it may pass anywhere.   *)
Tick ==
  /\ clock < MaxClock /\ clock' = clock + 1
  /\ UNCHANGED <<store, scheduled, met, rule, lists, subs, timers, calls>>

Next == Program \/ Alarm \/ Tick \/ \E c \in Command : Input(c)

(* The program goes on, its main loop comes to nbClockAlert again and      *)
(* again, and time passes.                                                 *)
Spec == Init /\ [][Next]_vars /\ WF_vars(Program) /\ SF_vars(Alarm) /\ WF_vars(Tick)

----------------------------------------------------------------------------
Evaluating == {calls[i].rule : i \in {j \in DOMAIN calls : calls[j].op = "eval"}}

TypeOK ==
  /\ clock \in 0..MaxClock /\ store \in [Term -> Value]
  /\ \A r \in Rule : rule[r].state \in {"free", "running", "timer", "ready"} /\ rule[r].ip \in DOMAIN Compiled[r]
  /\ ready \in Rule \cup {Nil} /\ scheduled \subseteq Rule /\ stranded \subseteq Rule
  /\ subs \subseteq Term \X Rule

(* The lists of ready rules: nb_RuleReady, and those that an nbRuleReact   *)
(* walks, all of it while it acts, the rest while it sets them going.      *)
Walked ==
  [i \in DOMAIN calls |->
     CASE calls[i].op \in {"act", "next", "append"} -> ListFrom(calls[i].first)
       [] calls[i].op = "resume" -> ListFrom(calls[i].rule)
       [] calls[i].op = "resumed" -> ListFrom(rule[calls[i].rule].next)
       [] OTHER -> <<>>]

(* A rule is ready as long as it is in one of the lists, once, whatever    *)
(* the nested reactions do; only the rest of a list whose link has been    *)
(* overwritten stays ready and is in none.                                 *)
ReadyOnce ==
  LET all == FlattenSeq(<<ListFrom(ready)>> \o Walked)
  IN /\ IsInjective(all)
     /\ {r \in Rule : rule[r].state = "ready"} = ToSet(all) \cup stranded
     /\ ToSet(all) \cap stranded = {}

(* A rule that waits is sure to go on: one that waits for a time has one   *)
(* timer, for that time, in order; one that waits for a condition is       *)
(* subscribed to it, and when the condition has become true it has gone on *)
(* or will be evaluated by the reaction under way.                         *)
NothingOverlooked ==
  /\ \A r \in Rule :
       /\ rule[r].state = "timer" <=> \E i \in DOMAIN timers : timers[i].rule = r
       /\ rule[r].state = "timer" => \E i \in DOMAIN timers : timers[i] = [rule |-> r, at |-> rule[r].time]
       /\ rule[r].state = "running" /\ r \notin Evaluating =>
            LET at == Compiled[r][rule[r].ip]
            IN /\ at.op = "whenTest" /\ at.cond = rule[r].cond /\ <<at.cond, r>> \in subs
               /\ store[at.cond] \in True /\ r \notin scheduled => Head(at.todo).op = "on" /\ r \notin met
  /\ \A i, j \in DOMAIN timers : i < j => timers[i].rule # timers[j].rule /\ timers[i].at <= timers[j].at
  /\ calls = <<>> => scheduled = {}

(* No rule is lost or in two places, but for the stranded, however the     *)
(* commands of rules nest the reactions (nbRuleReact, nbRuleEval).         *)
RulesSound == TypeOK /\ ReadyOnce /\ NothingOverlooked

(* A command or an alarm comes to its end, however the commands of rules   *)
(* make other rules ready, since a rule is set going again only when its   *)
(* whole list has been acted upon; and a rule that waits for a time goes   *)
(* on when it has come.                                                    *)
Proceeds ==
  /\ calls # <<>> ~> calls = <<>>
  /\ \A r \in Rule : (rule[r].state = "timer" /\ rule[r].time <= MaxClock) ~> rule[r].state # "timer"

----------------------------------------------------------------------------
(* The rules as threads: what is left of a plan is what its next           *)
(* instruction stands for, behind the assertion or command that nbRuleReact*)
(* has yet to get to.                                                      *)
Position(r) ==
  LET e == SelectSeq(calls, LAMBDA c : c.op = "eval" /\ c.rule = r)
  IN IF e = <<>> THEN rule[r].ip ELSE e[1].ip
Counted(r, s) ==
  IF s.op # "again" THEN <<s>>
  ELSE LET n == rule[r].counter[s.counter]
       IN IF n <= 1 THEN <<>> ELSE <<[op |-> "repeat", count |-> n - 1, body |-> s.body]>>
Pending(r) ==
  (IF rule[r].assertions = Nil THEN <<>> ELSE <<[op |-> "assert", sets |-> rule[r].assertions]>>)
  \o (IF rule[r].command = Nil \/ \E i \in DOMAIN calls : calls[i].op = "next" /\ calls[i].rule = r THEN <<>>
      ELSE <<[op |-> "command", command |-> rule[r].command]>>)
Left(r) ==
  LET at == Compiled[r][Position(r)]
      left == FlattenSeq([i \in DOMAIN at.todo |-> Counted(r, at.todo[i])])
  IN IF rule[r].state = "free" THEN <<>> ELSE Unfold(Pending(r) \o left)
Waits(r) ==
  IF rule[r].cond = Nil \/ Head(Left(r)).op = "onif" THEN "none" ELSE IF r \in met THEN "changed" ELSE "armed"

Threads == INSTANCE SeqThread WITH
  Thread <- Rule,
  todo <- [r \in Rule |-> Left(r)],
  due <- [r \in Rule |-> rule[r].time],
  waits <- [r \in Rule |-> Waits(r)],
  follower <- {r \in Rule : \E t \in Term : t # rule[r].cond /\ <<t, r>> \in subs}

(* Whatever the reactions that nest, the rules do what threads would: each *)
(* performs its statements in order and none twice, and waits where its    *)
(* plan says so; only how far each has come is left to the lists.          *)
ImplementsThreads == Threads!Spec
============================================================================
