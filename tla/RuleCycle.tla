----------------------------- MODULE RuleCycle -----------------------------
(***************************************************************************)
(* The command cycle (nbrule.c, nbcmd.c, nbcondition.c): a command assigns *)
(* terms, the rules whose conditions change are alerted, the actions they  *)
(* schedule are taken from actList and fired one by one, and the command   *)
(* of an action runs to its end, reacting in its turn, before the next     *)
(* action fires.  nbRuleReact is thus on the C stack once for every action *)
(* that is being performed; `stack' is that stack.                         *)
(*                                                                         *)
(* Conditions are those of CellReact seen from outside: nbCellReact alerts *)
(* every rule whose condition has changed, once, in no promised order.     *)
(* Every rule has a condition of its own, on one context node.             *)
(***************************************************************************)
EXTENDS Integers, Sequences, FiniteSets, SequencesExt

CONSTANTS
  Term,          (* the cells that commands assign                         *)
  Value,         (* what they and the conditions can be                    *)
  True,          (* the values of kind NB_OBJECT_KIND_TRUE                 *)
  Disabled,      (* nb_Disabled                                            *)
  First,         (* First[t]: the value t starts with                      *)
  Rule,          (* the ACTION objects of on, when and if rules            *)
  Api,           (* the ACTION objects that node modules get from nbAction *)
  Alerting,      (* those that nbAction gave NB_CMDOPT_ALERT               *)
  NoAction,
  Type,          (* Type[r] \in {"on", "when", "if"}                       *)
  Condition(_, _), (* Condition(r, s): the condition of r when the terms   *)
                 (* have the values s                                      *)
  OnTerm,        (* rules whose condition is a term: alerted while the     *)
                 (* term is assigned, not by nbCellReact                   *)
  Referenced,    (* rules whose term other expressions refer to            *)
  Priority,      (* action.priority                                        *)
  Assertion,     (* Assertion[a]: the sequence of "set" steps of a.assert  *)
  Instruction,   (* Instruction[a]: what a does after that, see Performed  *)
  Command        (* the commands that arrive from outside                  *)

Action == Rule \cup Api

ASSUME RuleAssumption ==
  /\ True \subseteq Value
  /\ Disabled \notin Value
  /\ First \in [Term -> Value]
  /\ NoAction \notin Action
  /\ Rule \cap Api = {}
  /\ Alerting \subseteq Api
  /\ Type \in [Rule -> {"on", "when", "if"}]
  /\ OnTerm \subseteq Rule
  /\ Priority \in [Action -> -128..127]

VARIABLES
  store,         (* the values of the terms                                *)
  value,         (* rule.object.value                                      *)
  status,        (* action.status; "free" while there is no such object    *)
  defined,       (* the rules whose action.cond is not NULL                *)
  actList,       (* actList                                                *)
  ashList,       (* the members of ashList, the order never matters        *)
  ifrule,        (* node.ifrule                                            *)
  stack,         (* innermost last: the command, then calls of nbRuleReact *)
  fired,         (* history: how often each action fired, in this cycle or,  *)
                 (* if it belongs to a when() rule, since it was defined     *)
  stopped,       (* history: the rules a disable command has stopped       *)
  unreacted      (* history: an action was fired whose assertion the code  *)
                 (* does not react to, and nothing has reacted since       *)

lists == <<actList, ashList, ifrule>>
vars == <<store, value, status, defined, lists, stack, fired, stopped, unreacted>>

(* todo: the actions nbRuleReact still has to visit; act: the one that     *)
(* nbRuleAct performs; code: the steps before control returns from it;     *)
(* quiet: nbCmdAssert has seen no contextAlert since it noted alertCount.  *)
Frame(todo, code) == [todo |-> todo, act |-> NoAction, code |-> code, quiet |-> TRUE]

Status == {"free", "R", "S", "P", "A", "E", "D"}

----------------------------------------------------------------------------
(* The steps that the C functions are made of.                             *)
Set(t, v) == [op |-> "set", term |-> t, value |-> v]
Node(a) == [op |-> "node", action |-> a]
Op(name) == [op |-> name]
OnRule(name, r) == [op |-> name, rule |-> r]

(* A whole command: nbCmd ends with nbRuleReact, except after `?', which    *)
(* computes and shows an expression; a command that is refused or empty    *)
(* returns early like it.                                                  *)
CmdAssert(sets) == [verb |-> "assert", sets |-> sets]
CmdAlert(sets) == [verb |-> "alert", sets |-> sets]
Manage(verb, r) == [verb |-> verb, rule |-> r]
Compute == [verb |-> "compute"]

(* What a member of an assertion does.                                     *)
AssertStep ==
  [op : {"set"}, term : Term, value : Value] \cup [op : {"node"}, action : Api]

(* The commands.  To undefine an if() rule is not one of them: see the     *)
(* README for what destroyAction then does to the node's list.             *)
CommandType ==
  [verb : {"assert", "alert"}, sets : Seq(AssertStep)]
  \cup [verb : {"undefine"}, rule : {r \in Rule : Type[r] # "if"}]
  \cup [verb : {"disable", "enable"}, rule : Rule]
  \cup [verb : {"compute"}]

InstructionType ==
  [operation : {"null", "system"}] \cup [operation : {"perform"}, command : CommandType]
  \cup [operation : {"assert", "alert"}, sets : Seq(AssertStep)]

(* Conditions have values, and actions and commands are of these types.    *)
ASSUME CommandAssumption ==
  /\ \A r \in Rule, s \in [Term -> Value] : Condition(r, s) \in Value
  /\ Assertion \in [Action -> Seq(AssertStep)]
  /\ Instruction \in [Action -> InstructionType]
  /\ Command \subseteq CommandType

(* Every step there is.                                                    *)
IfRule == {r \in Rule : Type[r] = "if"}
Step ==
  AssertStep
  \cup [op : {"publish", "cells", "take", "react", "mark", "contextIfQuiet", "context"}]
  \cup [op : {"undefine"}, rule : Rule \ IfRule]
  \cup [op : {"disable", "enable"}, rule : Rule]
  \cup [op : {"ifrules"}, rules : Seq(IfRule)]

(* What is on the stack.                                                   *)
FrameType ==
  [todo : Seq(Action), act : Action \cup {NoAction}, code : Seq(Step), quiet : BOOLEAN]

(* nbCmdAssert and the other verbs, and the nbRuleReact at the end of      *)
(* nbCmd.                                                                  *)
CmdCode(cmd) ==
  CASE cmd.verb = "assert" -> cmd.sets \o <<Op("react")>>
    [] cmd.verb = "alert" ->
         cmd.sets \o <<Op("mark"), Op("react"), Op("contextIfQuiet"), Op("react")>>
    [] cmd.verb = "compute" -> <<>>
    [] OTHER -> <<OnRule(cmd.verb, cmd.rule), Op("react")>>

(* The assertion of an instruction `::assert' or `::alert', which need not *)
(* have one.                                                               *)
Reacted(sets) == IF sets # <<>> THEN sets \o <<Op("react")>> ELSE <<>>

(* Mutant: no reaction to the assertion of an action without a command.    *)
PerformedNoReact(a) ==
  LET sets == Assertion[a]
      ins == Instruction[a]
      asserted == IF a \in Alerting /\ sets # <<>>
                  THEN sets \o <<Op("cells"), Op("context")>> ELSE sets
  IN  asserted \o
      CASE ins.operation \in {"null", "system"} -> <<>>
        [] ins.operation = "perform" -> CmdCode(ins.command)
        [] ins.operation = "assert" -> Reacted(ins.sets)
        [] ins.operation = "alert" -> Reacted(ins.sets) \o <<Op("context")>>

(* nbRuleAct between status='P' and the removal of when() rules: the       *)
(* assertion of the action, which may be an alert, then its instruction.   *)
Performed(a) ==
  LET sets == Assertion[a]
      ins == Instruction[a]
      asserted == IF a \in Alerting /\ sets # <<>>
                  THEN sets \o <<Op("cells"), Op("context")>> ELSE sets
  IN  asserted \o
      CASE ins.operation = "null" -> IF sets # <<>> THEN <<Op("react")>> ELSE <<>>
        [] ins.operation = "perform" -> CmdCode(ins.command)
        [] ins.operation = "system" -> <<>>
        [] ins.operation = "assert" -> Reacted(ins.sets)
        [] ins.operation = "alert" -> Reacted(ins.sets) \o <<Op("context")>>

(* The instructions that react to the assertion the action has made before *)
(* them; the others leave it to whatever reacts next.                      *)
Reacting(ins) ==
  \/ ins.operation = "null"
  \/ ins.operation = "perform" /\ ins.command.verb # "compute"
  \/ ins.operation \in {"assert", "alert"} /\ ins.sets # <<>>

Unreacted ==
  {a \in Action \ Alerting : Assertion[a] # <<>> /\ ~Reacting(Instruction[a])}

----------------------------------------------------------------------------
(* scheduleAction: in front of the first action that does not come before  *)
(* a by priority, or at the end.                                           *)
Scheduled(list, a) ==
  LET later == {i \in 1..Len(list) : Priority[list[i]] >= Priority[a]}
  IN  InsertAt(list, Min(later \cup {Len(list) + 1}), a)

Top == stack[Len(stack)]
Below == SubSeq(stack, 1, Len(stack) - 1)
Running == stack # <<>>
Now == Head(Top.code)
At(name) == Running /\ Top.code # <<>> /\ Now.op = name

(* The innermost function goes on with the steps code.                     *)
GoOn(code) == stack' = Append(Below, [Top EXCEPT !.code = code])

(* fired when a new command cycle begins.                                  *)
FiredBefore == [a \in Action |-> IF a \in Rule /\ Type[a] = "when" THEN fired[a] ELSE 0]

Subscribed == {r \in defined : value[r] # Disabled}
Changed(R) == {r \in R \cap Subscribed : Condition(r, store) # value[r]}

----------------------------------------------------------------------------
Init ==
  /\ store = First
  /\ value = [r \in Rule |-> Disabled]
  /\ status = [a \in Action |-> "free"]
  /\ defined = {}
  /\ actList = <<>>
  /\ ashList = {}
  /\ ifrule = <<>>
  /\ stack = <<>>
  /\ fired = [a \in Action |-> 0]
  /\ stopped = {}
  /\ unreacted = FALSE

(* A command arrives from outside, or a timer expires; it begins a command *)
(* cycle.                                                                  *)
Input(cmd) ==
  /\ ~Running
  /\ stack' = <<Frame(<<>>, CmdCode(cmd))>>
  /\ fired' = FiredBefore
  /\ UNCHANGED <<store, value, status, defined, lists, stopped, unreacted>>

(* define r on(...), when(...) or if(...): nbCmdDefine and useCondition.   *)
(* A condition that is true already fires nothing; a true if() rule joins  *)
(* the list of its node.                                                   *)
Define(r) ==
  LET v == Condition(r, store)
  IN  /\ ~Running
      /\ status[r] = "free"
      /\ status' = [status EXCEPT ![r] = "R"]
      /\ defined' = defined \cup {r}
      /\ value' = [value EXCEPT ![r] = v]
      /\ ifrule' = IF Type[r] = "if" /\ v \in True THEN <<r>> \o ifrule ELSE ifrule
      /\ stack' = <<Frame(<<>>, <<Op("react")>>)>>
      /\ fired' = [FiredBefore EXCEPT ![r] = 0]
      /\ UNCHANGED <<store, actList, ashList, stopped, unreacted>>

(* One assignment of nbAssert; nbTermAssign publishes to the rules that    *)
(* watch the term itself.                                                  *)
Assign ==
  /\ At("set")
  /\ store' = [store EXCEPT ![Now.term] = Now.value]
  /\ GoOn(<<Op("publish")>> \o Tail(Top.code))
  /\ UNCHANGED <<value, status, defined, lists, fired, stopped, unreacted>>

(* An assertion for a node: the module calls nbAction, which schedules a   *)
(* new action.  There is at most one at a time for every member of Api.    *)
NodeAssert ==
  LET a == Now.action
  IN  /\ At("node")
      /\ GoOn(Tail(Top.code))
      /\ IF status[a] = "free"
         THEN status' = [status EXCEPT ![a] = "S"] /\ actList' = Scheduled(actList, a)
         ELSE UNCHANGED <<status, actList>>
      /\ UNCHANGED <<store, value, defined, ashList, ifrule, fired, stopped, unreacted>>

(* Mutant: a scheduled action stays scheduled when the condition is no     *)
(* longer true.                                                            *)
AlertedKeepScheduled(r, v) ==
  IF v \notin True THEN UNCHANGED <<status, actList>>
  ELSE IF status[r] # "R" THEN status' = [status EXCEPT ![r] = "E"] /\ UNCHANGED actList
  ELSE IF value[r] \notin True
  THEN status' = [status EXCEPT ![r] = "S"] /\ actList' = Scheduled(actList, r)
  ELSE UNCHANGED <<status, actList>>

(* alertRule for a rule whose condition has become v.                      *)
Alerted(r, v) ==
  IF v \notin True
  THEN /\ status' = [status EXCEPT ![r] = IF @ = "S" THEN "E" ELSE @]
       /\ UNCHANGED actList
  ELSE IF status[r] # "R" THEN status' = [status EXCEPT ![r] = "E"] /\ UNCHANGED actList
  ELSE IF value[r] \notin True
  THEN status' = [status EXCEPT ![r] = "S"] /\ actList' = Scheduled(actList, r)
  ELSE UNCHANGED <<status, actList>>


(* alertRuleIf: the node's list of true if() rules is kept.                *)
AlertedIf(r, v) ==
  LET listed == \E i \in DOMAIN ifrule : ifrule[i] = r
  IN  ifrule' = IF v \notin True THEN RemoveFirst(ifrule, r)
                ELSE IF listed THEN ifrule ELSE <<r>> \o ifrule


(* The rules of R whose condition has changed are alerted one by one; then *)
(* control goes on.                                                        *)
AlertRules(R) ==
  IF Changed(R) = {}
  THEN GoOn(Tail(Top.code)) /\ UNCHANGED <<value, status, actList, ifrule>>
  ELSE \E r \in Changed(R) :
         LET v == Condition(r, store)
         IN  /\ value' = [value EXCEPT ![r] = v]
             /\ IF Type[r] = "if"
                THEN AlertedIf(r, v) /\ UNCHANGED <<status, actList>>
                ELSE Alerted(r, v) /\ UNCHANGED ifrule
             /\ UNCHANGED stack

(* nbCellPublish of the term that was assigned.                            *)
Publish ==
  /\ At("publish")
  /\ AlertRules(OnTerm)
  /\ UNCHANGED <<store, defined, ashList, fired, stopped, unreacted>>

(* nbCellReact.                                                            *)
CellReact ==
  /\ At("cells")
  /\ AlertRules(Rule)
  /\ UNCHANGED <<store, defined, ashList, fired, stopped, unreacted>>

(* Call of nbRuleReact: nbCellReact comes first.                           *)
RuleReact ==
  /\ At("react")
  /\ GoOn(<<Op("cells"), Op("take")>> \o Tail(Top.code))
  /\ UNCHANGED <<store, value, status, defined, lists, fired, stopped, unreacted>>

(* nbRuleReact takes the list, if there is one, and starts a new one.      *)
TakeActions ==
  LET caller == [Top EXCEPT !.code = Tail(@)]
  IN  /\ At("take")
      /\ stack' = Append(Below, caller) \o
                  IF actList = <<>> THEN <<>> ELSE <<Frame(actList, <<>>)>>
      /\ actList' = <<>>
      /\ unreacted' = FALSE
      /\ UNCHANGED <<store, value, status, defined, ashList, ifrule, fired, stopped>>

(* nbRuleReact visits a scheduled action: nbRuleAct begins.                *)
Fire ==
  LET a == Head(Top.todo)
  IN  /\ Running
      /\ Top.code = <<>> /\ Top.act = NoAction /\ Top.todo # <<>>
      /\ status[a] = "S"
      /\ status' = [status EXCEPT ![a] = "P"]
      /\ stack' = Append(Below, [Top EXCEPT !.todo = Tail(@), !.act = a, !.code = Performed(a)])
      /\ fired' = [fired EXCEPT ![a] = IF @ < 2 THEN @ + 1 ELSE @]
      /\ unreacted' = (unreacted \/ a \in Unreacted)
      /\ UNCHANGED <<store, value, defined, lists, stopped>>

(* Mutant: an action that is not to be performed is not taken off.         *)
PassOverKept ==
  LET a == Head(Top.todo)
  IN  /\ Running
      /\ Top.code = <<>> /\ Top.act = NoAction /\ Top.todo # <<>>
      /\ status[a] # "S"
      /\ ashList' = ashList \cup {a}
      /\ UNCHANGED <<store, value, status, defined, actList, ifrule, stack, fired, stopped, unreacted>>

(* nbRuleReact visits an action that was suppressed or undefined since.    *)
PassOver ==
  LET a == Head(Top.todo)
  IN  /\ Running
      /\ Top.code = <<>> /\ Top.act = NoAction /\ Top.todo # <<>>
      /\ status[a] # "S"
      /\ ashList' = ashList \cup {a}
      /\ stack' = Append(Below, [Top EXCEPT !.todo = Tail(@)])
      /\ UNCHANGED <<store, value, status, defined, actList, ifrule, fired, stopped, unreacted>>

(* Mutant: when() rules are not undefined.                                 *)
UndefinedByFiringNone(a) == {}

(* A when() rule that is still there and that nobody refers to is removed. *)
UndefinedByFiring(a) ==
  IF a \in defined \ Referenced /\ Type[a] = "when" THEN {a} ELSE {}

(* The end of nbRuleAct, and the move to the ash list.  status='A' comes   *)
(* last and hides the 'D' of destroyRule.                                  *)
ActEnd ==
  LET a == Top.act
      gone == UndefinedByFiring(a)
  IN  /\ Running
      /\ Top.code = <<>> /\ a # NoAction
      /\ defined' = defined \ gone
      /\ value' = [r \in Rule |-> IF r \in gone THEN Disabled ELSE value[r]]
      /\ status' = [status EXCEPT ![a] = "A"]
      /\ ashList' = ashList \cup {a}
      /\ stack' = Append(Below, [Top EXCEPT !.act = NoAction])
      /\ UNCHANGED <<store, actList, ifrule, fired, stopped, unreacted>>

(* nbRuleDouse destroys the actions of nbAction and of undefined rules and *)
(* makes the others ready.                                                 *)
DousedStatus(a) ==
  IF a \notin ashList THEN status[a]
  ELSE IF a \in Api \/ status[a] = "D" THEN "free" ELSE "R"

(* The end of the loop of nbRuleReact: nbRuleDouse, and return.            *)
ReactEnd ==
  /\ Len(stack) > 1
  /\ Top.code = <<>> /\ Top.act = NoAction /\ Top.todo = <<>>
  /\ status' = [a \in Action |-> DousedStatus(a)]
  /\ ashList' = {}
  /\ stack' = Below
  /\ UNCHANGED <<store, value, defined, actList, ifrule, fired, stopped, unreacted>>

(* The command is done: the interpreter is ready for the next one.         *)
CommandEnd ==
  /\ Len(stack) = 1
  /\ Top.code = <<>>
  /\ stack' = <<>>
  /\ UNCHANGED <<store, value, status, defined, lists, fired, stopped, unreacted>>

----------------------------------------------------------------------------
(* alertCount is noted, after nbAssert and before nbRuleReact.             *)
Mark ==
  /\ At("mark")
  /\ stack' = Append(Below, [Top EXCEPT !.code = Tail(@), !.quiet = TRUE])
  /\ UNCHANGED <<store, value, status, defined, lists, fired, stopped, unreacted>>

(* nbCmdAssert alerts the context unless a skill or a rule did meanwhile.  *)
ContextIfQuiet ==
  /\ At("contextIfQuiet")
  /\ GoOn((IF Top.quiet THEN <<Op("context")>> ELSE <<>>) \o Tail(Top.code))
  /\ UNCHANGED <<store, value, status, defined, lists, fired, stopped, unreacted>>

(* Entry of contextAlert: alertCount++ and the walk along ifrule.          *)
ContextAlert ==
  LET seen == [i \in 1..Len(stack) |-> [stack[i] EXCEPT !.quiet = FALSE]]
  IN  /\ At("context")
      /\ stack' = [seen EXCEPT ![Len(stack)].code =
                     <<[op |-> "ifrules", rules |-> ifrule]>> \o Tail(@)]
      /\ UNCHANGED <<store, value, status, defined, lists, fired, stopped, unreacted>>

(* contextAlert schedules the next ready if() rule; in the end it reacts   *)
(* if there is an action to perform.                                       *)
IfRules ==
  LET rules == Now.rules
      r == Head(rules)
  IN  /\ At("ifrules")
      /\ IF rules = <<>>
         THEN /\ GoOn((IF actList = <<>> THEN <<>> ELSE <<Op("react")>>) \o Tail(Top.code))
              /\ UNCHANGED <<status, actList>>
         ELSE /\ GoOn(<<[op |-> "ifrules", rules |-> Tail(rules)]>> \o Tail(Top.code))
              /\ IF status[r] = "R"
                 THEN /\ status' = [status EXCEPT ![r] = "S"]
                      /\ actList' = Scheduled(actList, r)
                 ELSE UNCHANGED <<status, actList>>
      /\ UNCHANGED <<store, value, defined, ashList, ifrule, fired, stopped, unreacted>>

(* Mutant: the action of an undefined rule goes to the ash list whatever   *)
(* list it is on.                                                          *)
ToAshAlways(r) == {r}

(* destroyRule puts an action that is on no list on the ash list.          *)
ToAsh(r) == IF status[r] = "R" THEN {r} ELSE {}

(* undefine r: nbCmdUndefine, nbTermUndefine and destroyRule.  For if()    *)
(* rules see the README.                                                   *)
Undefine ==
  LET r == Now.rule
      done == r \in defined \ Referenced
  IN  /\ At("undefine")
      /\ GoOn(Tail(Top.code))
      /\ defined' = IF done THEN defined \ {r} ELSE defined
      /\ value' = IF done THEN [value EXCEPT ![r] = Disabled] ELSE value
      /\ ashList' = IF done THEN ashList \cup ToAsh(r) ELSE ashList
      /\ status' = IF done THEN [status EXCEPT ![r] = "D"] ELSE status
      /\ UNCHANGED <<store, actList, ifrule, fired, stopped, unreacted>>

(* disable r: nbCmdEnable and disableRule; the action is left as it is.    *)
Disable ==
  LET r == Now.rule
  IN  /\ At("disable")
      /\ GoOn(Tail(Top.code))
      /\ value' = [value EXCEPT ![r] = Disabled]
      /\ stopped' = IF r \in defined THEN stopped \cup {r} ELSE stopped
      /\ UNCHANGED <<store, status, defined, lists, fired, unreacted>>

(* enable r: the rule takes the value of its condition and schedules       *)
(* nothing.                                                                *)
Enable ==
  LET r == Now.rule
  IN  /\ At("enable")
      /\ GoOn(Tail(Top.code))
      /\ value' = IF r \in defined /\ value[r] = Disabled
                  THEN [value EXCEPT ![r] = Condition(r, store)] ELSE value
      /\ UNCHANGED <<store, status, defined, lists, fired, stopped, unreacted>>

----------------------------------------------------------------------------
Cycle ==
  \/ Assign \/ NodeAssert \/ Publish \/ CellReact \/ RuleReact \/ TakeActions
  \/ Fire \/ PassOver \/ ActEnd \/ ReactEnd \/ CommandEnd
  \/ Mark \/ ContextIfQuiet \/ ContextAlert \/ IfRules
  \/ Undefine \/ Disable \/ Enable

Next ==
  \/ \E cmd \in Command : Input(cmd)
  \/ \E r \in Rule : Define(r)
  \/ Cycle

Spec == Init /\ [][Next]_vars

(* A command cycle is one call: it waits for nothing.                      *)
FairSpec == Spec /\ WF_vars(Cycle)

----------------------------------------------------------------------------
Frames == DOMAIN stack

(* Every variable has its type.                                            *)
TypeOK ==
  /\ store \in [Term -> Value]
  /\ value \in [Rule -> Value \cup {Disabled}]
  /\ status \in [Action -> Status]
  /\ defined \subseteq Rule
  /\ actList \in Seq(Action)
  /\ ashList \subseteq Action
  /\ ifrule \in Seq(IfRule)
  /\ stack \in Seq(FrameType)
  /\ fired \in [Action -> 0..2]
  /\ stopped \subseteq Rule
  /\ unreacted \in BOOLEAN

(* The places an action can be linked at or referred to from: the action   *)
(* list, the ash list, and the list and the action of each nbRuleReact.    *)
Places(a) ==
  {<<"act", i>> : i \in {j \in DOMAIN actList : actList[j] = a}}
  \cup {<<"ash", 0>> : i \in {0} \cap (IF a \in ashList THEN {0} ELSE {})}
  \cup UNION {{<<"todo", f, i>> : i \in {j \in DOMAIN stack[f].todo : stack[f].todo[j] = a}}
                \cup (IF stack[f].act = a THEN {<<"fires", f>>} ELSE {}) : f \in Frames}

(* nextAct is the one link an action has: it is never in two places, so no *)
(* list runs into another one, and an action that is ready to be scheduled *)
(* or has been freed is in none, though nested reactions schedule, douse,  *)
(* undefine and free actions while outer ones walk their lists.            *)
OnePlace ==
  \A a \in Action :
    /\ Cardinality(Places(a)) <= 1
    /\ status[a] \in {"free", "R"} <=> Places(a) = {}

(* texi on priorities: actions scheduled in one evaluation cycle "fire in  *)
(* order from lowest to highest priority number", also when some of them   *)
(* are scheduled by another action's assertion.                            *)
InPriorityOrder ==
  \A s \in {actList} \cup {stack[f].todo : f \in Frames} :
    \A i, j \in DOMAIN s : i < j => Priority[s[i]] <= Priority[s[j]]

(* An on() or when() rule that is about to fire has a condition that is    *)
(* true, whatever the actions before it did to it; only a rule that was    *)
(* disabled meanwhile is an exception.                                     *)
ScheduledIsTrue ==
  \A r \in Rule \ stopped :
    status[r] = "S" /\ Type[r] # "if" => value[r] \in True

(* Both: what is about to fire is true and in its turn.                    *)
FiresInTurn == InPriorityOrder /\ ScheduledIsTrue

(* The node's list holds the if() rules whose conditions are true, each    *)
(* once, so an alert fires all of them and no other.                       *)
IfRulesListed ==
  /\ \A i, j \in DOMAIN ifrule : ifrule[i] = ifrule[j] => i = j
  /\ \A r \in defined \ stopped :
       Type[r] = "if" => (r \in ToSet(ifrule) <=> value[r] \in True)

(* Every variable has its type, no action is in two lists, and the list of *)
(* if() rules has the true ones, whatever nested reactions and alerts do.  *)
ListsSound == TypeOK /\ OnePlace /\ IfRulesListed

(* texi: a when() rule "only fires once": one that nothing refers to never *)
(* fires again, in this cycle or in a later one.                           *)
WhenFiresOnce == \A r \in Rule \ Referenced : Type[r] = "when" => fired[r] <= 1

(* Every command cycle ends, whatever the rules assert and alert.          *)
CycleEnds == Running ~> ~Running

(* texi: "At the end of an evaluation cycle, if no new cell evaluations    *)
(* have been scheduled, the command cycle is complete": when a command     *)
(* has ended nothing is waiting to be evaluated or fired, unless the last  *)
(* reaction was before the assertion of an action that is Unreacted.       *)
CycleComplete == ~Running /\ ~unreacted => actList = <<>> /\ Changed(Rule) = {}
============================================================================
