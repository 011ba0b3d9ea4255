-------------------------- MODULE RuleCycleProofs --------------------------
(***************************************************************************)
(* What RuleCycle promises, for every set of terms, rules and commands,    *)
(* every assignment of priorities and every condition.                     *)
(***************************************************************************)
EXTENDS RuleCycle, SequenceLemmas

(* What the kinds of steps carry.                                          *)
LEMMA StepFields ==
  ASSUME NEW s \in Step
  PROVE  /\ s.op = "set" => s.term \in Term /\ s.value \in Value
         /\ s.op = "node" => s.action \in Api
         /\ s.op \in {"undefine", "disable", "enable"} => s.rule \in Rule
         /\ s.op = "undefine" => s.rule \notin IfRule
         /\ s.op = "ifrules" => s.rules \in Seq(IfRule)
BY DEF Step, AssertStep

(* The steps that carry nothing are steps.                                 *)
LEMMA OpIsStep ==
  ASSUME NEW n \in {"publish", "cells", "take", "react", "mark", "contextIfQuiet", "context"}
  PROVE  Op(n) \in Step
BY DEF Op, Step

(* A command is made of steps.                                             *)
LEMMA CmdCodeType ==
  ASSUME NEW cmd \in CommandType
  PROVE  CmdCode(cmd) \in Seq(Step)
<1>1. CASE cmd \in [verb : {"assert", "alert"}, sets : Seq(AssertStep)]
  <2>1. cmd.sets \in Seq(Step)
    BY <1>1, SeqMonotonic DEF Step
  <2>2. /\ <<Op("react")>> \in Seq(Step)
        /\ <<Op("mark"), Op("react"), Op("contextIfQuiet"), Op("react")>> \in Seq(Step)
    BY OpIsStep
  <2>3. QED
    BY <1>1, <2>1, <2>2 DEF CmdCode
<1>2. CASE cmd \in [verb : {"undefine"}, rule : {r \in Rule : Type[r] # "if"}]
  <2>1. OnRule(cmd.verb, cmd.rule) \in Step
    BY <1>2 DEF OnRule, Step, IfRule
  <2>2. QED
    BY <1>2, <2>1, OpIsStep DEF CmdCode
<1>3. CASE cmd \in [verb : {"disable", "enable"}, rule : Rule]
  <2>1. OnRule(cmd.verb, cmd.rule) \in Step
    BY <1>3 DEF OnRule, Step
  <2>2. QED
    BY <1>3, <2>1, OpIsStep DEF CmdCode
<1>4. CASE cmd \in [verb : {"compute"}]
  <2>1. CmdCode(cmd) = <<>>
    BY <1>4 DEF CmdCode
  <2>2. QED
    BY <2>1
<1>5. QED
  BY <1>1, <1>2, <1>3, <1>4 DEF CommandType

(* The assertion of an instruction too.                                    *)
LEMMA ReactedType ==
  ASSUME NEW sets \in Seq(AssertStep)
  PROVE  /\ Reacted(sets) \in Seq(Step)
         /\ Reacted(sets) \o <<Op("context")>> \in Seq(Step)
<1>1. sets \in Seq(Step)
  BY SeqMonotonic DEF Step
<1>2. /\ <<Op("react")>> \in Seq(Step) /\ <<Op("context")>> \in Seq(Step) /\ <<>> \in Seq(Step)
  BY OpIsStep
<1>3. Reacted(sets) \in Seq(Step)
  BY <1>1, <1>2 DEF Reacted
<1>4. QED
  BY <1>2, <1>3

(* So is what an action performs.                                          *)
LEMMA PerformedType ==
  ASSUME NEW a \in Action
  PROVE  Performed(a) \in Seq(Step)
<1> DEFINE sets == Assertion[a]
           ins == Instruction[a]
           asserted == IF a \in Alerting /\ sets # <<>>
                       THEN sets \o <<Op("cells"), Op("context")>> ELSE sets
           done == CASE ins.operation = "null" -> IF sets # <<>> THEN <<Op("react")>> ELSE <<>>
                     [] ins.operation = "perform" -> CmdCode(ins.command)
                     [] ins.operation = "system" -> <<>>
                     [] ins.operation = "assert" -> Reacted(ins.sets)
                     [] ins.operation = "alert" -> Reacted(ins.sets) \o <<Op("context")>>
<1>1. sets \in Seq(Step)
  BY CommandAssumption, SeqMonotonic DEF Step
<1>2. /\ <<Op("cells"), Op("context")>> \in Seq(Step) /\ <<Op("react")>> \in Seq(Step)
      /\ <<>> \in Seq(Step)
  BY OpIsStep
<1>3. asserted \in Seq(Step)
  BY <1>1, <1>2
<1>4. done \in Seq(Step)
  <2>1. ins \in InstructionType
    BY CommandAssumption
  <2>2. CASE ins \in [operation : {"null", "system"}]
    BY <1>2, <2>2
  <2>3. CASE ins \in [operation : {"perform"}, command : CommandType]
    BY <2>3, CmdCodeType
  <2>4. CASE ins \in [operation : {"assert", "alert"}, sets : Seq(AssertStep)]
    <3>1. /\ Reacted(ins.sets) \in Seq(Step)
          /\ Reacted(ins.sets) \o <<Op("context")>> \in Seq(Step)
      BY <2>4, ReactedType
    <3>2. QED
      BY <2>4, <3>1
  <2>5. QED
    BY <2>1, <2>2, <2>3, <2>4 DEF InstructionType
<1>5. Performed(a) = asserted \o done
  BY DEF Performed
<1> HIDE DEF asserted, done
<1>6. QED
  BY <1>3, <1>4, <1>5

(* The innermost function and its next step.                               *)
LEMMA TopType ==
  ASSUME TypeOK, Running
  PROVE  /\ Len(stack) \in Nat \ {0} /\ DOMAIN stack = 1..Len(stack)
         /\ Top \in FrameType
         /\ Top.code # <<>> => Now \in Step /\ Tail(Top.code) \in Seq(Step)
<1>1. stack \in Seq(FrameType) /\ stack # <<>>
  BY DEF TypeOK, Running
<1>2. Len(stack) \in Nat \ {0} /\ DOMAIN stack = 1..Len(stack)
  BY <1>1
<1>3. Top \in FrameType
  BY <1>1, <1>2 DEF Top
<1>4. Top.code \in Seq(Step)
  BY <1>3 DEF FrameType
<1>5. QED
  BY <1>2, <1>3, <1>4, HeadTailProperties DEF Now

----------------------------------------------------------------------------
(* A priority is a number.                                                 *)
LEMMA PriorityType == \A a \in Action : Priority[a] \in Int
<1>1. (-128..127) \subseteq Int
  OBVIOUS
<1>2. QED
  BY <1>1, RuleAssumption

(* scheduleAction puts one more action into a list of actions.             *)
LEMMA ScheduledProperties ==
  ASSUME NEW list \in Seq(Action), NEW a \in Action
  PROVE  \E k \in 1..Len(list) + 1 :
           /\ Scheduled(list, a) = InsertAt(list, k, a)
           /\ k = Len(list) + 1 \/ Priority[list[k]] >= Priority[a]
           /\ \A i \in 1..k - 1 : Priority[list[i]] < Priority[a]
<1> DEFINE later == {i \in 1..Len(list) : Priority[list[i]] >= Priority[a]}
           places == later \cup {Len(list) + 1}
           k == Min(places)
<1>1. Len(list) \in Nat /\ \A i \in 1..Len(list) : list[i] \in Action
  OBVIOUS
<1>2. Priority[a] \in Int /\ \A i \in 1..Len(list) : Priority[list[i]] \in Int
  BY <1>1, PriorityType
<1>3. places \in SUBSET Nat /\ places # {}
  BY <1>1
<1>4. k \in places /\ \A y \in places : k <= y
  BY <1>3, MinOfNaturals
<1>5. Scheduled(list, a) = InsertAt(list, k, a)
  BY DEF Scheduled
<1> HIDE DEF k
<1>6. \A i \in 1..k - 1 : Priority[list[i]] < Priority[a]
  BY <1>1, <1>2, <1>4
<1>7. QED
  BY <1>1, <1>4, <1>5, <1>6

(* A list of actions stays one.                                            *)
LEMMA ScheduledType ==
  ASSUME NEW list \in Seq(Action), NEW a \in Action
  PROVE  Scheduled(list, a) \in Seq(Action)
BY ScheduledProperties, InsertAtProperties

(* The same calls of nbRuleReact are on the stack, with the same actions.  *)
SameFrames ==
  /\ stack' \in Seq(FrameType)
  /\ Len(stack') = Len(stack)
  /\ \A i \in 1..Len(stack) : stack'[i].todo = stack[i].todo /\ stack'[i].act = stack[i].act

(* Only the innermost frame is replaced.                                   *)
TopReplaced(f) ==
  /\ stack' \in Seq(FrameType)
  /\ Len(stack') = Len(stack)
  /\ stack'[Len(stack)] = f
  /\ \A i \in 1..Len(stack) - 1 : stack'[i] = stack[i]

(* A step that goes on in the innermost function.                          *)
LEMMA ReplaceTop ==
  ASSUME TypeOK, Running, NEW f \in FrameType, stack' = Append(Below, f)
  PROVE  TopReplaced(f)
<1>1. stack \in Seq(FrameType) /\ stack # <<>>
  BY DEF TypeOK, Running
<1>2. stack' = Append(SubSeq(stack, 1, Len(stack) - 1), f)
  BY DEF Below
<1>3. QED
  BY <1>1, <1>2, ReplaceLast DEF TopReplaced

(* Frames keep their actions when only the code of the innermost changes.  *)
LEMMA TopReplacedSame ==
  ASSUME TypeOK, Running, NEW f \in FrameType, TopReplaced(f), f.todo = Top.todo, f.act = Top.act
  PROVE  SameFrames
BY TopType DEF TopReplaced, SameFrames, Top

(* GoOn is such a step.                                                    *)
LEMMA GoOnTop ==
  ASSUME TypeOK, Running, NEW code \in Seq(Step), GoOn(code)
  PROVE  TopReplaced([Top EXCEPT !.code = code]) /\ SameFrames
<1> DEFINE f == [Top EXCEPT !.code = code]
<1>1. f \in FrameType /\ f.todo = Top.todo /\ f.act = Top.act
  BY TopType DEF FrameType
<1>2. stack' = Append(Below, f)
  BY DEF GoOn
<1> HIDE DEF f
<1>3. TopReplaced(f)
  BY <1>1, <1>2, ReplaceTop
<1>4. QED
  BY <1>1, <1>3, TopReplacedSame DEF f

(* What goes on is a list of steps.                                        *)
LEMMA ConsType ==
  ASSUME NEW c \in Seq(Step), NEW s \in Step
  PROVE  <<s>> \o c \in Seq(Step)
OBVIOUS

(* The innermost function has steps to take when control is at one.        *)
LEMMA AtType ==
  ASSUME TypeOK, NEW n, At(n)
  PROVE  /\ Running /\ Top.code \in Seq(Step) /\ Top.code # <<>>
         /\ Now \in Step /\ Now.op = n /\ Tail(Top.code) \in Seq(Step)
BY TopType DEF At, FrameType

(* These actions leave the calls of nbRuleReact and their lists alone.     *)
LEMMA CodeOnly ==
  ASSUME TypeOK,
         \/ Assign \/ NodeAssert \/ Publish \/ CellReact \/ RuleReact \/ Mark \/ ContextIfQuiet
         \/ ContextAlert \/ IfRules \/ Undefine \/ Disable \/ Enable
  PROVE  SameFrames
<1>1. CASE Assign
  <2>1. Running /\ Tail(Top.code) \in Seq(Step)
    BY <1>1, AtType DEF Assign
  <2>2. <<Op("publish")>> \o Tail(Top.code) \in Seq(Step)
    BY <2>1, OpIsStep, ConsType
  <2>3. QED
    BY <1>1, <2>1, <2>2, GoOnTop DEF Assign
<1>2. CASE NodeAssert \/ Undefine \/ Disable \/ Enable
  <2>1. Running /\ Tail(Top.code) \in Seq(Step) /\ GoOn(Tail(Top.code))
    BY <1>2, AtType DEF NodeAssert, Undefine, Disable, Enable
  <2>2. QED
    BY <2>1, GoOnTop
<1>3. CASE Publish \/ CellReact
  <2>1. Running /\ Tail(Top.code) \in Seq(Step)
    BY <1>3, AtType DEF Publish, CellReact
  <2>2. GoOn(Tail(Top.code)) \/ UNCHANGED stack
    BY <1>3 DEF Publish, CellReact, AlertRules
  <2>3. CASE GoOn(Tail(Top.code))
    BY <2>1, <2>3, GoOnTop
  <2>4. CASE UNCHANGED stack
    BY <2>4 DEF SameFrames, TypeOK
  <2>5. QED
    BY <2>2, <2>3, <2>4
<1>4. CASE RuleReact
  <2>1. Running /\ Tail(Top.code) \in Seq(Step)
    BY <1>4, AtType DEF RuleReact
  <2>2. <<Op("cells"), Op("take")>> \o Tail(Top.code) \in Seq(Step)
    BY <2>1, OpIsStep
  <2>3. QED
    BY <1>4, <2>1, <2>2, GoOnTop DEF RuleReact
<1>5. CASE Mark
  <2> DEFINE f == [Top EXCEPT !.code = Tail(@), !.quiet = TRUE]
  <2>1. Running /\ Tail(Top.code) \in Seq(Step)
    BY <1>5, AtType DEF Mark
  <2>2. f \in FrameType /\ f.todo = Top.todo /\ f.act = Top.act
    BY <2>1, TopType DEF FrameType
  <2>3. stack' = Append(Below, f)
    BY <1>5 DEF Mark
  <2> HIDE DEF f
  <2>4. QED
    BY <2>1, <2>2, <2>3, ReplaceTop, TopReplacedSame
<1>6. CASE ContextIfQuiet
  <2> DEFINE code == (IF Top.quiet THEN <<Op("context")>> ELSE <<>>) \o Tail(Top.code)
  <2>1. Running /\ Tail(Top.code) \in Seq(Step)
    BY <1>6, AtType DEF ContextIfQuiet
  <2>2. code \in Seq(Step)
    BY <2>1, OpIsStep
  <2>3. GoOn(code)
    BY <1>6 DEF ContextIfQuiet
  <2> HIDE DEF code
  <2>4. QED
    BY <2>1, <2>2, <2>3, GoOnTop
<1>7. CASE ContextAlert
  <2> DEFINE seen == [i \in 1..Len(stack) |-> [stack[i] EXCEPT !.quiet = FALSE]]
             walk == [op |-> "ifrules", rules |-> ifrule]
             code == <<walk>> \o Tail(seen[Len(stack)].code)
  <2>1. Running /\ Top.code \in Seq(Step) /\ Tail(Top.code) \in Seq(Step)
    BY <1>7, AtType DEF ContextAlert
  <2>2. /\ Len(stack) \in Nat \ {0} /\ DOMAIN stack = 1..Len(stack)
        /\ \A i \in 1..Len(stack) : stack[i] \in FrameType
    BY <2>1, TopType DEF TypeOK
  <2>3. walk \in Step
    BY DEF Step, TypeOK
  <2>4. seen[Len(stack)].code = Top.code
    BY <2>2 DEF Top, FrameType
  <2>5. code \in Seq(Step)
    BY <2>1, <2>3, <2>4, ConsType
  <2>6. stack' = [seen EXCEPT ![Len(stack)].code = code]
    BY <1>7 DEF ContextAlert
  <2> HIDE DEF code, walk
  <2>7. ASSUME NEW i \in 1..Len(stack)
        PROVE  /\ stack'[i] \in FrameType
               /\ stack'[i].todo = stack[i].todo /\ stack'[i].act = stack[i].act
    BY <2>2, <2>5, <2>6 DEF FrameType
  <2>8. DOMAIN stack' = 1..Len(stack) /\ stack' = [i \in 1..Len(stack) |-> stack'[i]]
    BY <2>6
  <2>9. stack' \in Seq(FrameType) /\ Len(stack') = Len(stack)
    BY <2>2, <2>7, <2>8
  <2>10. QED
    BY <2>7, <2>9 DEF SameFrames
<1>8. CASE IfRules
  <2>1. /\ Running /\ Tail(Top.code) \in Seq(Step) /\ Now \in Step /\ Now.op = "ifrules"
    BY <1>8, AtType DEF IfRules
  <2>2. CASE Now.rules = <<>>
    <3> DEFINE code == (IF actList = <<>> THEN <<>> ELSE <<Op("react")>>) \o Tail(Top.code)
    <3>1. code \in Seq(Step)
      BY <2>1, OpIsStep
    <3>2. GoOn(code)
      BY <1>8, <2>2 DEF IfRules
    <3> HIDE DEF code
    <3>3. QED
      BY <2>1, <3>1, <3>2, GoOnTop
  <2>3. CASE Now.rules # <<>>
    <3> DEFINE walk == [op |-> "ifrules", rules |-> Tail(Now.rules)]
               code == <<walk>> \o Tail(Top.code)
    <3>1. Tail(Now.rules) \in Seq(IfRule)
      BY <2>1, <2>3, StepFields
    <3>2. walk \in Step
      BY <3>1 DEF Step
    <3>3. code \in Seq(Step)
      BY <2>1, <3>2, ConsType
    <3>4. GoOn(code)
      BY <1>8, <2>3 DEF IfRules
    <3> HIDE DEF code
    <3>5. QED
      BY <2>1, <3>3, <3>4, GoOnTop
  <2>4. QED
    BY <2>2, <2>3
<1>9. QED
  BY <1>1, <1>2, <1>3, <1>4, <1>5, <1>6, <1>7, <1>8

(* A command begins on an empty stack, with nothing to visit.              *)
LEMMA BeginStep ==
  ASSUME TypeOK, NEW code \in Seq(Step), ~Running, stack' = <<Frame(<<>>, code)>>
  PROVE  /\ stack = <<>> /\ stack' \in Seq(FrameType) /\ Len(stack') = 1
         /\ stack'[1].todo = <<>> /\ stack'[1].act = NoAction /\ stack'[1].code = code
<1>1. Frame(<<>>, code) \in FrameType
  BY DEF Frame, FrameType
<1>2. QED
  BY <1>1 DEF Running, Frame

(* nbRuleReact takes the list: one more frame, unless there is none.       *)
LEMMA TakeStep ==
  ASSUME TypeOK, TakeActions
  PROVE  /\ stack' \in Seq(FrameType)
         /\ \A i \in 1..Len(stack) :
              stack'[i].todo = stack[i].todo /\ stack'[i].act = stack[i].act
         /\ \A i \in 1..Len(stack) - 1 : stack'[i] = stack[i]
         /\ stack'[Len(stack)].code = Tail(Top.code)
         /\ \/ actList = <<>> /\ Len(stack') = Len(stack)
            \/ /\ actList # <<>> /\ Len(stack') = Len(stack) + 1
               /\ stack'[Len(stack) + 1] = Frame(actList, <<>>)
<1> DEFINE caller == [Top EXCEPT !.code = Tail(@)]
           back == Append(Below, caller)
           f == Frame(actList, <<>>)
<1>1. Running /\ Tail(Top.code) \in Seq(Step)
  BY AtType DEF TakeActions
<1>2. /\ caller \in FrameType /\ caller.todo = Top.todo /\ caller.act = Top.act
      /\ caller.code = Tail(Top.code)
  BY <1>1, TopType DEF FrameType
<1>3. stack \in Seq(FrameType) /\ stack # <<>> /\ Len(stack) \in Nat \ {0}
  BY <1>1, TopType DEF TypeOK, Running
<1>4. stack' = back \o IF actList = <<>> THEN <<>> ELSE <<f>>
  BY DEF TakeActions
<1>5. back = Append(SubSeq(stack, 1, Len(stack) - 1), caller)
  BY DEF Below
<1> HIDE DEF caller, back
<1>6. /\ back \in Seq(FrameType) /\ Len(back) = Len(stack) /\ back[Len(stack)] = caller
      /\ \A i \in 1..Len(stack) - 1 : back[i] = stack[i]
  BY <1>2, <1>3, <1>5, ReplaceLast
<1>7. f \in FrameType
  BY DEF Frame, FrameType, TypeOK
<1> HIDE DEF f
<1>8. \A i \in 1..Len(stack) : back[i].todo = stack[i].todo /\ back[i].act = stack[i].act
  BY <1>2, <1>3, <1>6 DEF Top
<1>9. CASE actList = <<>>
  <2>1. stack' = back
    BY <1>4, <1>6, <1>9
  <2>2. QED
    BY <1>2, <1>3, <1>6, <1>8, <1>9, <2>1
<1>10. CASE actList # <<>>
  <2>1. stack' = Append(back, f)
    BY <1>4, <1>6, <1>7, <1>10
  <2>2. /\ stack' \in Seq(FrameType) /\ Len(stack') = Len(stack) + 1
        /\ stack'[Len(stack) + 1] = f
        /\ \A i \in 1..Len(stack) : stack'[i] = back[i]
    BY <1>3, <1>6, <1>7, <2>1, AppendProperties
  <2>3. QED
    BY <1>2, <1>3, <1>6, <1>8, <1>10, <2>2 DEF f
<1>11. QED
  BY <1>9, <1>10

(* nbRuleReact visits the first action of its list.                        *)
LEMMA VisitStep ==
  ASSUME TypeOK, Fire \/ PassOver
  PROVE  /\ Running /\ Top.todo \in Seq(Action) /\ Top.todo # <<>> /\ Head(Top.todo) \in Action
         /\ Tail(Top.todo) \in Seq(Action) /\ Top.act = NoAction /\ Top.code = <<>>
         /\ TopReplaced(stack'[Len(stack)])
         /\ stack'[Len(stack)].todo = Tail(Top.todo)
         /\ Fire => /\ stack'[Len(stack)].act = Head(Top.todo)
                    /\ stack'[Len(stack)].code = Performed(Head(Top.todo))
         /\ PassOver => /\ stack'[Len(stack)].act = NoAction
                        /\ stack'[Len(stack)].code = <<>>
<1>1. Running /\ Top.todo # <<>> /\ Top.act = NoAction /\ Top.code = <<>>
  BY DEF Fire, PassOver
<1>2. Top \in FrameType /\ Top.todo \in Seq(Action)
  BY <1>1, TopType DEF FrameType
<1>3. Head(Top.todo) \in Action /\ Tail(Top.todo) \in Seq(Action)
  BY <1>1, <1>2, HeadTailProperties
<1>4. CASE Fire
  <2> DEFINE a == Head(Top.todo)
             f == [Top EXCEPT !.todo = Tail(@), !.act = a, !.code = Performed(a)]
  <2>1. Performed(a) \in Seq(Step)
    BY <1>3, PerformedType
  <2>2. /\ f \in FrameType /\ f.todo = Tail(Top.todo) /\ f.act = a
        /\ f.code = Performed(a)
    BY <1>2, <1>3, <2>1 DEF FrameType
  <2>3. stack' = Append(Below, f)
    BY <1>4 DEF Fire
  <2>4. status[a] = "S"
    BY <1>4 DEF Fire
  <2> HIDE DEF f
  <2>5. TopReplaced(f)
    BY <1>1, <2>2, <2>3, ReplaceTop
  <2>6. ~PassOver
    BY <2>4 DEF PassOver
  <2>7. QED
    BY <1>1, <1>2, <1>3, <2>2, <2>5, <2>6 DEF TopReplaced
<1>5. CASE PassOver
  <2> DEFINE f == [Top EXCEPT !.todo = Tail(@)]
  <2>1. /\ f \in FrameType /\ f.todo = Tail(Top.todo) /\ f.act = NoAction
        /\ f.code = <<>>
    BY <1>1, <1>2, <1>3 DEF FrameType
  <2>2. stack' = Append(Below, f)
    BY <1>5 DEF PassOver
  <2>3. status[Head(Top.todo)] # "S"
    BY <1>5 DEF PassOver
  <2> HIDE DEF f
  <2>4. TopReplaced(f)
    BY <1>1, <2>1, <2>2, ReplaceTop
  <2>5. ~Fire
    BY <2>3 DEF Fire
  <2>6. QED
    BY <1>1, <1>2, <1>3, <2>1, <2>4, <2>5 DEF TopReplaced
<1>6. QED
  BY <1>4, <1>5

(* nbRuleAct is done with its action.                                      *)
LEMMA ActEndStep ==
  ASSUME TypeOK, ActEnd
  PROVE  /\ Running /\ Top.act \in Action /\ Top.act # NoAction /\ Top.code = <<>>
         /\ TopReplaced(stack'[Len(stack)])
         /\ stack'[Len(stack)].todo = Top.todo /\ stack'[Len(stack)].act = NoAction
         /\ stack'[Len(stack)].code = <<>>
<1> DEFINE f == [Top EXCEPT !.act = NoAction]
<1>1. Running /\ Top.act # NoAction /\ Top.code = <<>>
  BY DEF ActEnd
<1>2. Top \in FrameType /\ Top.act \in Action
  BY <1>1, TopType DEF FrameType
<1>3. f \in FrameType /\ f.todo = Top.todo /\ f.act = NoAction /\ f.code = <<>>
  BY <1>1, <1>2 DEF FrameType
<1>4. stack' = Append(Below, f)
  BY DEF ActEnd
<1> HIDE DEF f
<1>5. TopReplaced(f)
  BY <1>1, <1>3, <1>4, ReplaceTop
<1>6. QED
  BY <1>1, <1>2, <1>3, <1>5 DEF TopReplaced

(* A call of nbRuleReact, or the command, returns.                         *)
LEMMA ReturnStep ==
  ASSUME TypeOK, ReactEnd \/ CommandEnd
  PROVE  /\ Running /\ Top.code = <<>>
         /\ stack' \in Seq(FrameType) /\ Len(stack') = Len(stack) - 1
         /\ \A i \in 1..Len(stack) - 1 : stack'[i] = stack[i]
         /\ Len(stack) \in Nat \ {0}
<1>1. stack \in Seq(FrameType)
  BY DEF TypeOK
<1>2. Running /\ Top.code = <<>>
  BY <1>1 DEF ReactEnd, CommandEnd, Running
<1>3. Len(stack) \in Nat \ {0}
  BY <1>2, TopType
<1>4. CASE ReactEnd
  <2>1. stack' = SubSeq(stack, 1, Len(stack) - 1)
    BY <1>4 DEF ReactEnd, Below
  <2> DEFINE n == Len(stack) - 1
  <2>2. n \in 0..Len(stack) /\ 1 \in 1..Len(stack) + 1
    BY <1>3
  <2>3. /\ SubSeq(stack, 1, n) \in Seq(FrameType)
        /\ Len(SubSeq(stack, 1, n)) = IF 1 <= n THEN n - 1 + 1 ELSE 0
        /\ \A i \in 1..n - 1 + 1 : SubSeq(stack, 1, n)[i] = stack[1 + i - 1]
    BY <1>1, <2>2, SubSeqIsSeq
  <2>4. \A k \in Nat : k - 1 + 1 = k /\ 1 + k - 1 = k /\ (IF 1 <= k THEN k - 1 + 1 ELSE 0) = k
    OBVIOUS
  <2>5. n \in Nat
    BY <1>3
  <2> HIDE DEF n
  <2>6. Len(SubSeq(stack, 1, n)) = n
    BY <2>3, <2>4, <2>5
  <2>7. \A i \in 1..n : SubSeq(stack, 1, n)[i] = stack[i]
    BY <2>3, <2>4, <2>5
  <2>8. QED
    BY <1>2, <1>3, <2>1, <2>3, <2>6, <2>7 DEF n
<1>5. CASE CommandEnd
  BY <1>1, <1>2, <1>3, <1>5 DEF CommandEnd
<1>6. QED
  BY <1>4, <1>5

----------------------------------------------------------------------------
(* The list of true if() rules stays a list of if() rules.                 *)
LEMMA IfListType ==
  ASSUME NEW list \in Seq(IfRule), NEW r \in IfRule
  PROVE  /\ RemoveFirst(list, r) \in Seq(IfRule)
         /\ <<r>> \o list \in Seq(IfRule)
<1>1. RemoveFirst(list, r) \in Seq(IfRule)
  BY RemoveFirstProperties, RemoveAtProperties
<1>2. QED
  BY <1>1

(* Alerting rules keeps the types of what it changes.                      *)
LEMMA AlertRulesType ==
  ASSUME TypeOK, NEW R, AlertRules(R)
  PROVE  /\ value' \in [Rule -> Value \cup {Disabled}]
         /\ status' \in [Action -> Status]
         /\ actList' \in Seq(Action)
         /\ ifrule' \in Seq(IfRule)
<1>1. CASE Changed(R) = {}
  BY <1>1 DEF AlertRules, TypeOK
<1>2. CASE Changed(R) # {}
  <2>1. PICK r \in Changed(R) :
          LET v == Condition(r, store)
          IN  /\ value' = [value EXCEPT ![r] = v]
              /\ IF Type[r] = "if"
                 THEN AlertedIf(r, v) /\ UNCHANGED <<status, actList>>
                 ELSE Alerted(r, v) /\ UNCHANGED ifrule
    BY <1>2 DEF AlertRules
  <2>2. r \in Rule /\ r \in Action
    BY DEF Changed, Subscribed, TypeOK, Action
  <2>3. Condition(r, store) \in Value
    BY <2>2, CommandAssumption DEF TypeOK
  <2>4. value' \in [Rule -> Value \cup {Disabled}]
    BY <2>1, <2>3 DEF TypeOK
  <2>5. CASE Type[r] = "if"
    <3>1. r \in IfRule
      BY <2>2, <2>5 DEF IfRule
    <3>2. ifrule' \in Seq(IfRule)
      BY <2>1, <2>5, <3>1, IfListType DEF AlertedIf, TypeOK
    <3>3. QED
      BY <2>1, <2>4, <2>5, <3>2 DEF TypeOK
  <2>6. CASE Type[r] # "if"
    <3>1. status' \in [Action -> Status] /\ actList' \in Seq(Action)
      BY <2>1, <2>2, <2>6, ScheduledType DEF Alerted, TypeOK, Status
    <3>2. QED
      BY <2>1, <2>4, <2>6, <3>1 DEF TypeOK
  <2>7. QED
    BY <2>5, <2>6
<1>3. QED
  BY <1>1, <1>2

(* Every step keeps the types.                                             *)
LEMMA TypeStep == TypeOK /\ [Next]_vars => TypeOK'
<1> SUFFICES ASSUME TypeOK, [Next]_vars
             PROVE  TypeOK'
  OBVIOUS
<1> USE DEF lists
<1>1. ASSUME NEW cmd \in Command, Input(cmd)
      PROVE  TypeOK'
  <2>1. stack' \in Seq(FrameType)
    BY <1>1, BeginStep, CmdCodeType, CommandAssumption DEF Input
  <2>2. fired' \in [Action -> 0..2]
    BY <1>1 DEF Input, FiredBefore, TypeOK
  <2>3. QED
    BY <1>1, <2>1, <2>2 DEF Input, TypeOK
<1>2. ASSUME NEW r \in Rule, Define(r)
      PROVE  TypeOK'
  <2>1. <<Op("react")>> \in Seq(Step)
    BY OpIsStep
  <2>2. stack' \in Seq(FrameType)
    BY <1>2, <2>1, BeginStep DEF Define
  <2>3. fired' \in [Action -> 0..2]
    <3>1. FiredBefore \in [Action -> 0..2]
      BY DEF FiredBefore, TypeOK
    <3>2. fired' = [FiredBefore EXCEPT ![r] = 0]
      BY <1>2 DEF Define
    <3>3. r \in Action
      BY DEF Action
    <3>4. QED
      BY <3>1, <3>2, <3>3
  <2>4. value' \in [Rule -> Value \cup {Disabled}]
    BY <1>2, CommandAssumption DEF Define, TypeOK
  <2>5. ifrule' \in Seq(IfRule)
    BY <1>2, IfListType DEF Define, TypeOK, IfRule
  <2>6. status' \in [Action -> Status]
    BY <1>2 DEF Define, TypeOK, Status
  <2>7. QED
    BY <1>2, <2>2, <2>3, <2>4, <2>5, <2>6 DEF Define, TypeOK
<1>3. CASE Assign
  <2>1. Now \in Step /\ Now.op = "set"
    BY <1>3, AtType DEF Assign
  <2>2. store' \in [Term -> Value]
    BY <1>3, <2>1, StepFields DEF Assign, TypeOK
  <2>3. stack' \in Seq(FrameType)
    BY <1>3, CodeOnly DEF SameFrames
  <2>4. QED
    BY <1>3, <2>2, <2>3 DEF Assign, TypeOK
<1>4. CASE NodeAssert
  <2>1. Now \in Step /\ Now.op = "node"
    BY <1>4, AtType DEF NodeAssert
  <2>2. Now.action \in Action
    BY <2>1, StepFields DEF Action
  <2>3. status' \in [Action -> Status] /\ actList' \in Seq(Action)
    BY <1>4, <2>2, ScheduledType DEF NodeAssert, TypeOK, Status
  <2>4. stack' \in Seq(FrameType)
    BY <1>4, CodeOnly DEF SameFrames
  <2>5. QED
    BY <1>4, <2>3, <2>4 DEF NodeAssert, TypeOK
<1>5. CASE Publish \/ CellReact
  <2>1. stack' \in Seq(FrameType)
    BY <1>5, CodeOnly DEF SameFrames
  <2>2. \E R \in {Rule, OnTerm} : AlertRules(R)
    BY <1>5 DEF Publish, CellReact
  <2>3. /\ value' \in [Rule -> Value \cup {Disabled}] /\ status' \in [Action -> Status]
        /\ actList' \in Seq(Action) /\ ifrule' \in Seq(IfRule)
    BY <2>2, AlertRulesType
  <2>4. QED
    BY <1>5, <2>1, <2>3 DEF Publish, CellReact, TypeOK
<1>6. CASE RuleReact \/ Mark \/ ContextIfQuiet \/ ContextAlert
  <2>1. stack' \in Seq(FrameType)
    BY <1>6, CodeOnly DEF SameFrames
  <2>2. QED
    BY <1>6, <2>1 DEF RuleReact, Mark, ContextIfQuiet, ContextAlert, TypeOK
<1>7. CASE TakeActions
  <2>1. stack' \in Seq(FrameType)
    BY <1>7, TakeStep
  <2>2. unreacted' = FALSE /\ actList' = <<>>
    BY <1>7 DEF TakeActions
  <2>3. UNCHANGED <<store, value, status, defined, ashList, ifrule, fired, stopped>>
    BY <1>7 DEF TakeActions
  <2>4. unreacted' \in BOOLEAN
    BY <2>2
  <2>5. QED
    BY <2>1, <2>2, <2>3, <2>4 DEF TypeOK
<1>8. CASE Fire
  <2>1. stack' \in Seq(FrameType) /\ Head(Top.todo) \in Action
    BY <1>8, VisitStep DEF TopReplaced
  <2>2. fired' \in [Action -> 0..2]
    BY <1>8, <2>1 DEF Fire, TypeOK
  <2>3. QED
    BY <1>8, <2>1, <2>2 DEF Fire, TypeOK, Status
<1>9. CASE PassOver
  <2>1. stack' \in Seq(FrameType) /\ Head(Top.todo) \in Action
    BY <1>9, VisitStep DEF TopReplaced
  <2>2. QED
    BY <1>9, <2>1 DEF PassOver, TypeOK
<1>10. CASE ActEnd
  <2>1. stack' \in Seq(FrameType) /\ Top.act \in Action
    BY <1>10, ActEndStep DEF TopReplaced
  <2>2. QED
    BY <1>10, <2>1 DEF ActEnd, TypeOK, Status
<1>11. CASE ReactEnd
  <2>1. stack' \in Seq(FrameType)
    BY <1>11, ReturnStep
  <2>2. status' \in [Action -> Status]
    BY <1>11 DEF ReactEnd, DousedStatus, TypeOK, Status
  <2>3. QED
    BY <1>11, <2>1, <2>2 DEF ReactEnd, TypeOK
<1>12. CASE CommandEnd
  <2>1. stack' \in Seq(FrameType)
    BY <1>12, ReturnStep
  <2>2. QED
    BY <1>12, <2>1 DEF CommandEnd, TypeOK
<1>13. CASE IfRules
  <2>1. Now \in Step /\ Now.op = "ifrules"
    BY <1>13, AtType DEF IfRules
  <2>2. Now.rules # <<>> => Head(Now.rules) \in Action
    <3>1. Now.rules \in Seq(IfRule)
      BY <2>1, StepFields
    <3>2. QED
      BY <3>1, HeadTailProperties DEF IfRule, Action
  <2>3. status' \in [Action -> Status] /\ actList' \in Seq(Action)
    BY <1>13, <2>2, ScheduledType DEF IfRules, TypeOK, Status
  <2>4. stack' \in Seq(FrameType)
    BY <1>13, CodeOnly DEF SameFrames
  <2>5. QED
    BY <1>13, <2>3, <2>4 DEF IfRules, TypeOK
<1>14. CASE Undefine \/ Disable \/ Enable
  <2>1. Now \in Step /\ Now.op \in {"undefine", "disable", "enable"}
    BY <1>14, AtType DEF Undefine, Disable, Enable
  <2>2. Now.rule \in Rule /\ Now.rule \in Action
    BY <2>1, StepFields DEF Action
  <2>3. stack' \in Seq(FrameType)
    BY <1>14, CodeOnly DEF SameFrames
  <2>4. CASE Undefine
    BY <2>2, <2>3, <2>4 DEF Undefine, ToAsh, TypeOK, Status
  <2>5. CASE Disable
    BY <2>2, <2>3, <2>5 DEF Disable, TypeOK
  <2>6. CASE Enable
    BY <2>2, <2>3, <2>6, CommandAssumption DEF Enable, TypeOK
  <2>7. QED
    BY <1>14, <2>4, <2>5, <2>6
<1>15. CASE UNCHANGED vars
  BY <1>15 DEF vars, TypeOK
<1>16. QED
  BY <1>1, <1>2, <1>3, <1>4, <1>5, <1>6, <1>7, <1>8, <1>9, <1>10, <1>11, <1>12, <1>13,
     <1>14, <1>15 DEF Next, Cycle

(* The types hold initially.                                               *)
LEMMA InitType == Init => TypeOK
<1> SUFFICES ASSUME Init PROVE TypeOK
  OBVIOUS
<1>1. unreacted \in BOOLEAN
  BY DEF Init
<1>2. /\ store \in [Term -> Value] /\ value \in [Rule -> Value \cup {Disabled}]
      /\ status \in [Action -> Status] /\ fired \in [Action -> 0..2]
  BY RuleAssumption DEF Init, Status
<1>3. /\ defined \subseteq Rule /\ ashList \subseteq Action /\ stopped \subseteq Rule
      /\ actList \in Seq(Action) /\ ifrule \in Seq(IfRule) /\ stack \in Seq(FrameType)
  BY DEF Init
<1>4. QED
  BY <1>1, <1>2, <1>3 DEF TypeOK

----------------------------------------------------------------------------
(* Only a rule that is defined is enabled; one that is has not been        *)
(* destroyed, and has a value unless a disable command has stopped it.     *)
DefinedRules ==
  /\ \A r \in Rule \ defined : value[r] = Disabled
  /\ \A r \in defined : status[r] \notin {"free", "D"}
  /\ \A r \in defined \ stopped : value[r] \in Value

(* What one alert does: alertRuleIf changes the list of the node, alertRule *)
(* the status of the action.                                               *)
LEMMA AlertStep ==
  ASSUME TypeOK, NEW R \in SUBSET Rule, AlertRules(R), Changed(R) # {}
  PROVE  \E r \in Changed(R) :
           /\ r \in defined /\ r \in Rule /\ r \in Action /\ value[r] # Disabled
           /\ Condition(r, store) \in Value
           /\ value' = [value EXCEPT ![r] = Condition(r, store)]
           /\ UNCHANGED stack
           /\ \/ Type[r] = "if" /\ AlertedIf(r, Condition(r, store)) /\ UNCHANGED <<status, actList>>
              \/ Type[r] # "if" /\ Alerted(r, Condition(r, store)) /\ UNCHANGED ifrule
<1>1. PICK r \in Changed(R) :
        LET v == Condition(r, store)
        IN  /\ value' = [value EXCEPT ![r] = v]
            /\ IF Type[r] = "if"
               THEN AlertedIf(r, v) /\ UNCHANGED <<status, actList>>
               ELSE Alerted(r, v) /\ UNCHANGED ifrule
            /\ UNCHANGED stack
  BY DEF AlertRules
<1>2. r \in defined /\ r \in Rule /\ r \in Action /\ value[r] # Disabled
  BY DEF Changed, Subscribed, TypeOK, Action
<1>3. Condition(r, store) \in Value
  BY <1>2, CommandAssumption DEF TypeOK
<1>4. QED
  BY <1>1, <1>2, <1>3

(* And when there is nothing to alert.                                     *)
LEMMA NoAlertStep ==
  ASSUME NEW R, AlertRules(R), Changed(R) = {}
  PROVE  GoOn(Tail(Top.code)) /\ UNCHANGED <<value, status, actList, ifrule>>
BY DEF AlertRules

(* Alerts keep the facts about defined rules, and what they schedule has a *)
(* true condition.                                                         *)
LEMMA RulesAlertStep ==
  ASSUME TypeOK, DefinedRules, ScheduledIsTrue, NEW R \in SUBSET Rule, AlertRules(R),
         UNCHANGED <<defined, stopped>>
  PROVE  DefinedRules' /\ ScheduledIsTrue'
<1>1. CASE Changed(R) = {}
  <2>1. UNCHANGED <<value, status>>
    BY <1>1, NoAlertStep
  <2>2. QED
    BY <2>1 DEF DefinedRules, ScheduledIsTrue
<1>2. CASE Changed(R) # {}
  <2>1. PICK r \in Changed(R) :
           /\ r \in defined /\ r \in Rule /\ r \in Action /\ value[r] # Disabled
           /\ Condition(r, store) \in Value
           /\ value' = [value EXCEPT ![r] = Condition(r, store)]
           /\ UNCHANGED stack
           /\ \/ Type[r] = "if" /\ AlertedIf(r, Condition(r, store)) /\ UNCHANGED <<status, actList>>
              \/ Type[r] # "if" /\ Alerted(r, Condition(r, store)) /\ UNCHANGED ifrule
    BY <1>2, AlertStep
  <2> DEFINE v == Condition(r, store)
  <2>2. value'[r] = v /\ \A q \in Rule \ {r} : value'[q] = value[q]
    BY <2>1 DEF TypeOK
  <2>3. \A q \in Action \ {r} : status'[q] = status[q]
    BY <2>1 DEF Alerted, TypeOK
  <2>4. /\ status'[r] \notin {"free", "D"}
        /\ Type[r] # "if" /\ status'[r] = "S" => v \in True
    <3>1. CASE Type[r] = "if"
      BY <2>1, <3>1 DEF DefinedRules
    <3>2. CASE Type[r] # "if" /\ v \notin True
      BY <2>1, <3>2 DEF Alerted, DefinedRules, TypeOK
    <3>3. CASE Type[r] # "if" /\ v \in True
      BY <2>1, <3>3 DEF Alerted, DefinedRules, TypeOK
    <3>4. QED
      BY <3>1, <3>2, <3>3
  <2>5. DefinedRules'
    BY <2>1, <2>2, <2>3, <2>4 DEF DefinedRules, TypeOK, Action
  <2>6. ScheduledIsTrue'
    BY <2>1, <2>2, <2>3, <2>4 DEF ScheduledIsTrue, Action
  <2>7. QED
    BY <2>5, <2>6
<1>3. QED
  BY <1>1, <1>2

(* Every step keeps them: what takes the truth from a scheduled rule takes *)
(* the status 'S' too, unless it is a disable command.                     *)
LEMMA RulesStep ==
  ASSUME TypeOK, DefinedRules, ScheduledIsTrue, [Next]_vars
  PROVE  DefinedRules' /\ ScheduledIsTrue'
<1> USE DEF lists
<1>0. Disabled \notin True
  BY RuleAssumption
<1>1. CASE \/ \E cmd \in Command : Input(cmd)
           \/ Assign \/ RuleReact \/ TakeActions \/ PassOver \/ CommandEnd
           \/ Mark \/ ContextIfQuiet \/ ContextAlert \/ UNCHANGED vars
  <2>1. UNCHANGED <<value, status, defined, stopped>>
    BY <1>1 DEF Input, Assign, RuleReact, TakeActions, PassOver, CommandEnd, Mark,
                ContextIfQuiet, ContextAlert, vars
  <2>2. QED
    BY <2>1 DEF DefinedRules, ScheduledIsTrue
<1>2. ASSUME NEW r \in Rule, Define(r)
      PROVE  DefinedRules' /\ ScheduledIsTrue'
  <2>1. Condition(r, store) \in Value
    BY CommandAssumption DEF TypeOK
  <2>2. /\ value' = [value EXCEPT ![r] = Condition(r, store)]
        /\ status' = [status EXCEPT ![r] = "R"]
        /\ defined' = defined \cup {r} /\ stopped' = stopped
    BY <1>2 DEF Define
  <2>3. QED
    BY <2>1, <2>2 DEF DefinedRules, ScheduledIsTrue, TypeOK, Action
<1>3. CASE NodeAssert
  <2>1. Now.action \in Api
    BY <1>3, AtType, StepFields DEF NodeAssert
  <2>2. /\ \A r \in Rule : status'[r] = status[r]
        /\ UNCHANGED <<value, defined, stopped>>
    BY <1>3, <2>1, RuleAssumption DEF NodeAssert, TypeOK, Action
  <2>3. QED
    BY <2>2 DEF DefinedRules, ScheduledIsTrue, TypeOK
<1>4. CASE Publish \/ CellReact
  <2>1. /\ \E R \in SUBSET Rule : AlertRules(R)
        /\ UNCHANGED <<defined, stopped>>
    BY <1>4, RuleAssumption DEF Publish, CellReact
  <2>2. QED
    BY <2>1, RulesAlertStep
<1>5. CASE Fire
  <2>1. /\ status' = [status EXCEPT ![Head(Top.todo)] = "P"]
        /\ UNCHANGED <<value, defined, stopped>>
    BY <1>5 DEF Fire
  <2>2. QED
    BY <2>1 DEF DefinedRules, ScheduledIsTrue, TypeOK, Action
<1>6. CASE ActEnd
  <2> DEFINE a == Top.act
             gone == UndefinedByFiring(a)
  <2>1. /\ status' = [status EXCEPT ![a] = "A"]
        /\ value' = [r \in Rule |-> IF r \in gone THEN Disabled ELSE value[r]]
        /\ defined' = defined \ gone /\ stopped' = stopped
    BY <1>6 DEF ActEnd
  <2>2. gone \subseteq {a}
    BY DEF UndefinedByFiring
  <2> HIDE DEF gone
  <2>3. QED
    BY <2>1, <2>2 DEF DefinedRules, ScheduledIsTrue, TypeOK, Action
<1>7. CASE ReactEnd
  <2>1. UNCHANGED <<value, defined, stopped>>
    BY <1>7 DEF ReactEnd
  <2>2. \A r \in Rule : /\ status'[r] = "S" => status[r] = "S"
                        /\ status'[r] = "free" => status[r] \in {"free", "D"}
                        /\ status'[r] = "D" => status[r] = "D"
    BY <1>7, RuleAssumption DEF ReactEnd, DousedStatus, Action
  <2>3. QED
    BY <2>1, <2>2 DEF DefinedRules, ScheduledIsTrue, TypeOK
<1>8. CASE IfRules
  <2>1. UNCHANGED <<value, defined, stopped>>
    BY <1>8 DEF IfRules
  <2>2. \/ UNCHANGED status
        \/ \E r \in IfRule : status' = [status EXCEPT ![r] = "S"]
    <3>1. Now.rules \in Seq(IfRule)
      BY <1>8, AtType, StepFields DEF IfRules
    <3>2. Now.rules # <<>> => Head(Now.rules) \in IfRule
      BY <3>1, HeadTailProperties
    <3>3. QED
      BY <1>8, <3>2 DEF IfRules
  <2>3. QED
    BY <2>1, <2>2 DEF DefinedRules, ScheduledIsTrue, TypeOK, Action, IfRule
<1>9. CASE Undefine \/ Disable \/ Enable
  <2> DEFINE r == Now.rule
  <2>1. r \in Rule
    BY <1>9, AtType, StepFields DEF Undefine, Disable, Enable
  <2>2. CASE Undefine
    <3>1. CASE r \in defined \ Referenced
      <4>1. /\ defined' = defined \ {r} /\ value' = [value EXCEPT ![r] = Disabled]
            /\ status' = [status EXCEPT ![r] = "D"] /\ stopped' = stopped
        BY <2>2, <3>1 DEF Undefine
      <4>2. QED
        BY <2>1, <4>1 DEF DefinedRules, ScheduledIsTrue, TypeOK, Action
    <3>2. CASE r \notin defined \ Referenced
      <4>1. UNCHANGED <<value, status, defined, stopped>>
        BY <2>2, <3>2 DEF Undefine
      <4>2. QED
        BY <4>1 DEF DefinedRules, ScheduledIsTrue
    <3>3. QED
      BY <3>1, <3>2
  <2>3. CASE Disable
    <3>1. /\ value' = [value EXCEPT ![r] = Disabled]
          /\ stopped' = IF r \in defined THEN stopped \cup {r} ELSE stopped
          /\ UNCHANGED <<status, defined>>
      BY <2>3 DEF Disable
    <3>2. QED
      BY <1>0, <2>1, <3>1 DEF DefinedRules, ScheduledIsTrue, TypeOK
  <2>4. CASE Enable
    <3>1. /\ value' = IF r \in defined /\ value[r] = Disabled
                      THEN [value EXCEPT ![r] = Condition(r, store)] ELSE value
          /\ UNCHANGED <<status, defined, stopped>>
      BY <2>4 DEF Enable
    <3>2. Condition(r, store) \in Value
      BY <2>1, CommandAssumption DEF TypeOK
    <3>3. QED
      BY <1>0, <2>1, <3>1, <3>2, RuleAssumption DEF DefinedRules, ScheduledIsTrue, TypeOK
  <2>5. QED
    BY <1>9, <2>2, <2>3, <2>4
<1>10. QED
  BY <1>1, <1>2, <1>3, <1>4, <1>5, <1>6, <1>7, <1>8, <1>9 DEF Next, Cycle

----------------------------------------------------------------------------
(* A list in the order of priorities.                                      *)
Sorted(s) == \A i, j \in DOMAIN s : i < j => Priority[s[i]] <= Priority[s[j]]

(* scheduleAction keeps the order.                                         *)
LEMMA ScheduledSorted ==
  ASSUME NEW list \in Seq(Action), Sorted(list), NEW a \in Action
  PROVE  Sorted(Scheduled(list, a))
<1>1. PICK k \in 1..Len(list) + 1 :
        /\ Scheduled(list, a) = InsertAt(list, k, a)
        /\ k = Len(list) + 1 \/ Priority[list[k]] >= Priority[a]
        /\ \A i \in 1..k - 1 : Priority[list[i]] < Priority[a]
  BY ScheduledProperties
<1> DEFINE new == InsertAt(list, k, a)
<1>2. /\ new \in Seq(Action) /\ Len(new) = Len(list) + 1
      /\ \A j \in 1..Len(list) + 1 :
           new[j] = IF j < k THEN list[j] ELSE IF j = k THEN a ELSE list[j - 1]
  BY InsertAtProperties
<1> HIDE DEF new
<1>3. Len(list) \in Nat /\ DOMAIN list = 1..Len(list) /\ DOMAIN new = 1..Len(list) + 1
  BY <1>2
<1>4. \A i \in 1..Len(list) : Priority[list[i]] \in Int
  BY PriorityType
<1>5. Priority[a] \in Int
  BY PriorityType
<1>6. ASSUME NEW i \in k..Len(list)
      PROVE  Priority[list[i]] >= Priority[a]
  <2>1. k \in 1..Len(list) /\ Priority[list[k]] >= Priority[a]
    BY <1>1, <1>3
  <2>2. Priority[list[i]] >= Priority[list[k]]
    BY <1>3, <1>4, <2>1 DEF Sorted
  <2>3. QED
    BY <1>3, <1>4, <1>5, <2>1, <2>2
<1>7. ASSUME NEW i \in 1..Len(list) + 1, NEW j \in 1..Len(list) + 1, i < j
      PROVE  Priority[new[i]] <= Priority[new[j]]
  <2>1. CASE j < k
    <3>1. new[i] = list[i] /\ new[j] = list[j] /\ i \in 1..Len(list) /\ j \in 1..Len(list)
      BY <1>2, <1>3, <1>7, <2>1
    <3>2. QED
      BY <1>3, <1>7, <3>1 DEF Sorted
  <2>2. CASE j = k
    <3>1. new[i] = list[i] /\ new[j] = a /\ i \in 1..k - 1 /\ i \in 1..Len(list)
      BY <1>2, <1>3, <1>7, <2>2
    <3>2. QED
      BY <1>1, <1>4, <1>5, <3>1
  <2>3. CASE j > k /\ i < k
    <3>1. new[i] = list[i] /\ new[j] = list[j - 1] /\ i \in 1..Len(list) /\ j - 1 \in 1..Len(list)
          /\ i < j - 1
      BY <1>2, <1>3, <1>7, <2>3
    <3>2. QED
      BY <1>3, <3>1 DEF Sorted
  <2>4. CASE j > k /\ i = k
    <3>1. new[i] = a /\ new[j] = list[j - 1] /\ j - 1 \in k..Len(list) /\ j - 1 \in 1..Len(list)
      BY <1>2, <1>3, <1>7, <2>4
    <3>2. QED
      BY <1>4, <1>5, <1>6, <3>1
  <2>5. CASE j > k /\ i > k
    <3>1. new[i] = list[i - 1] /\ new[j] = list[j - 1]
          /\ i - 1 \in 1..Len(list) /\ j - 1 \in 1..Len(list) /\ i - 1 < j - 1
      BY <1>2, <1>3, <1>7, <2>5
    <3>2. QED
      BY <1>3, <3>1 DEF Sorted
  <2>6. QED
    BY <1>3, <1>7, <2>1, <2>2, <2>3, <2>4, <2>5
<1>8. QED
  BY <1>1, <1>3, <1>7 DEF Sorted, new

(* What is left of a list in order is in order.                            *)
LEMMA TailSorted ==
  ASSUME NEW list \in Seq(Action), list # <<>>, Sorted(list)
  PROVE  Sorted(Tail(list))
<1>1. /\ Tail(list) \in Seq(Action) /\ Len(Tail(list)) = Len(list) - 1
      /\ \A i \in 1..Len(Tail(list)) : Tail(list)[i] = list[i + 1]
  BY HeadTailProperties
<1>2. Len(list) \in Nat /\ DOMAIN list = 1..Len(list)
  OBVIOUS
<1>3. ASSUME NEW i \in DOMAIN Tail(list), NEW j \in DOMAIN Tail(list), i < j
      PROVE  Priority[Tail(list)[i]] <= Priority[Tail(list)[j]]
  <2>1. i \in 1..Len(Tail(list)) /\ j \in 1..Len(Tail(list))
    BY <1>1
  <2>2. i + 1 \in DOMAIN list /\ j + 1 \in DOMAIN list /\ i + 1 < j + 1
    BY <1>1, <1>2, <1>3, <2>1
  <2>3. QED
    BY <1>1, <2>1, <2>2 DEF Sorted
<1>4. QED
  BY <1>3 DEF Sorted

(* InPriorityOrder, list by list.                                          *)
LEMMA OrderDef ==
  ASSUME TypeOK
  PROVE  InPriorityOrder <=> /\ Sorted(actList)
                             /\ \A f \in 1..Len(stack) : Sorted(stack[f].todo)
<1>1. Frames = 1..Len(stack)
  BY DEF Frames, TypeOK
<1>2. QED
  BY <1>1 DEF InPriorityOrder, Sorted

(* What an alert schedules comes in its turn.                              *)
LEMMA OrderAlertStep ==
  ASSUME TypeOK, Sorted(actList), NEW R \in SUBSET Rule, AlertRules(R)
  PROVE  Sorted(actList')
<1>1. CASE Changed(R) = {}
  BY <1>1, NoAlertStep
<1>2. CASE Changed(R) # {}
  <2>1. PICK r \in Action : \/ UNCHANGED actList
                            \/ Alerted(r, Condition(r, store))
    BY <1>2, AlertStep
  <2>2. UNCHANGED actList \/ actList' = Scheduled(actList, r)
    BY <2>1 DEF Alerted
  <2>3. QED
    BY <2>2, ScheduledSorted DEF TypeOK
<1>3. QED
  BY <1>1, <1>2

(* Every step keeps the order of all the lists.                            *)
LEMMA OrderStep ==
  ASSUME TypeOK, TypeOK', InPriorityOrder, [Next]_vars
  PROVE  InPriorityOrder'
<1> USE DEF lists
<1>0. /\ Sorted(actList)
      /\ \A f \in 1..Len(stack) : Sorted(stack[f].todo)
  BY OrderDef
<1> SUFFICES /\ Sorted(actList')
             /\ \A f \in 1..Len(stack') : Sorted(stack'[f].todo)
  <2>1. Frames' = 1..Len(stack')
    BY DEF Frames, TypeOK
  <2>2. QED
    BY <2>1 DEF InPriorityOrder, Sorted
<1>1. ASSUME SameFrames
      PROVE  \A f \in 1..Len(stack') : Sorted(stack'[f].todo)
  BY <1>0, <1>1 DEF SameFrames
<1>2. CASE \/ \E cmd \in Command : Input(cmd)
           \/ \E r \in Rule : Define(r)
  <2>1. PICK code : code \in Seq(Step) /\ ~Running /\ stack' = <<Frame(<<>>, code)>>
    <3>1. <<Op("react")>> \in Seq(Step)
      BY OpIsStep
    <3>2. QED
      BY <1>2, <3>1, CmdCodeType, CommandAssumption DEF Input, Define
  <2>2. Len(stack') = 1 /\ stack'[1].todo = <<>>
    BY <2>1, BeginStep
  <2>3. UNCHANGED actList
    BY <1>2 DEF Input, Define
  <2>4. Sorted(<<>>)
    BY DEF Sorted
  <2>5. QED
    BY <1>0, <2>2, <2>3, <2>4
<1>3. CASE Assign \/ RuleReact \/ Mark \/ ContextIfQuiet \/ ContextAlert \/ Undefine \/ Disable \/ Enable
  <2>1. UNCHANGED actList
    BY <1>3 DEF Assign, RuleReact, Mark, ContextIfQuiet, ContextAlert, Undefine, Disable, Enable
  <2>2. SameFrames
    BY <1>3, CodeOnly
  <2>3. QED
    BY <1>0, <1>1, <2>1, <2>2
<1>4. CASE NodeAssert
  <2>1. Now.action \in Action
    BY <1>4, AtType, StepFields DEF NodeAssert, Action
  <2>2. UNCHANGED actList \/ actList' = Scheduled(actList, Now.action)
    BY <1>4 DEF NodeAssert
  <2>3. SameFrames
    BY <1>4, CodeOnly
  <2>4. QED
    BY <1>0, <1>1, <2>1, <2>2, <2>3, ScheduledSorted DEF TypeOK
<1>5. CASE Publish \/ CellReact
  <2>1. \E R \in SUBSET Rule : AlertRules(R)
    BY <1>5, RuleAssumption DEF Publish, CellReact
  <2>2. SameFrames
    BY <1>5, CodeOnly
  <2>3. QED
    BY <1>0, <1>1, <2>1, <2>2, OrderAlertStep
<1>6. CASE IfRules
  <2>1. Now.rules \in Seq(IfRule)
    BY <1>6, AtType, StepFields DEF IfRules
  <2>2. Now.rules # <<>> => Head(Now.rules) \in Action
    BY <2>1, HeadTailProperties DEF IfRule, Action
  <2>3. UNCHANGED actList \/ (Now.rules # <<>> /\ actList' = Scheduled(actList, Head(Now.rules)))
    BY <1>6 DEF IfRules
  <2>4. SameFrames
    BY <1>6, CodeOnly
  <2>5. QED
    BY <1>0, <1>1, <2>2, <2>3, <2>4, ScheduledSorted DEF TypeOK
<1>7. CASE TakeActions
  <2>1. actList' = <<>>
    BY <1>7 DEF TakeActions
  <2>2. Sorted(<<>>)
    BY DEF Sorted
  <2>3. ASSUME NEW f \in 1..Len(stack')
        PROVE  Sorted(stack'[f].todo)
    <3>1. CASE f \in 1..Len(stack)
      BY <1>0, <1>7, <3>1, TakeStep
    <3>2. CASE f \notin 1..Len(stack)
      <4>1. stack'[f] = Frame(actList, <<>>)
        BY <1>7, <2>3, <3>2, TakeStep DEF TypeOK
      <4>2. QED
        BY <1>0, <4>1 DEF Frame
    <3>3. QED
      BY <3>1, <3>2
  <2>4. QED
    BY <2>1, <2>2, <2>3
<1>8. CASE Fire \/ PassOver
  <2>1. UNCHANGED actList
    BY <1>8 DEF Fire, PassOver
  <2>2. /\ Running /\ Top.todo \in Seq(Action) /\ Top.todo # <<>>
        /\ TopReplaced(stack'[Len(stack)]) /\ stack'[Len(stack)].todo = Tail(Top.todo)
    BY <1>8, VisitStep
  <2>3. Sorted(Top.todo)
    BY <1>0, <2>2, TopType DEF Top
  <2>4. QED
    BY <1>0, <2>1, <2>2, <2>3, TailSorted DEF TopReplaced
<1>9. CASE ActEnd
  <2>1. UNCHANGED actList
    BY <1>9 DEF ActEnd
  <2>2. /\ Running /\ TopReplaced(stack'[Len(stack)]) /\ stack'[Len(stack)].todo = Top.todo
    BY <1>9, ActEndStep
  <2>3. Sorted(Top.todo)
    BY <1>0, <2>2, TopType DEF Top
  <2>4. QED
    BY <1>0, <2>1, <2>2, <2>3 DEF TopReplaced
<1>10. CASE ReactEnd \/ CommandEnd
  <2>1. UNCHANGED actList
    BY <1>10 DEF ReactEnd, CommandEnd
  <2>2. /\ Len(stack) \in Nat \ {0} /\ Len(stack') = Len(stack) - 1
        /\ \A i \in 1..Len(stack) - 1 : stack'[i] = stack[i]
    BY <1>10, ReturnStep
  <2>3. QED
    BY <1>0, <2>1, <2>2
<1>11. CASE UNCHANGED vars
  BY <1>0, <1>11 DEF vars
<1>12. QED
  BY <1>2, <1>3, <1>4, <1>5, <1>6, <1>7, <1>8, <1>9, <1>10, <1>11 DEF Next, Cycle

----------------------------------------------------------------------------
(* scheduleAction adds its action to the members of the list.              *)
LEMMA ScheduledMembers ==
  ASSUME NEW list \in Seq(Action), NEW a \in Action
  PROVE  /\ ToSet(Scheduled(list, a)) = ToSet(list) \cup {a}
         /\ IsInjective(list) /\ a \notin ToSet(list) => IsInjective(Scheduled(list, a))
BY ScheduledProperties, InsertAtMembers

----------------------------------------------------------------------------
(* The actions that the call f of nbRuleReact still has to visit, and the  *)
(* one it performs.                                                        *)
Held(f) == ToSet(stack[f].todo) \cup ({stack[f].act} \ {NoAction})

(* OnePlace in terms of sets: no list has an action twice, no two places   *)
(* share one, the command itself holds none, and the status tells whether  *)
(* an action is in a place at all.                                         *)
Apart ==
  /\ IsInjective(actList)
  /\ \A f \in 1..Len(stack) :
       /\ IsInjective(stack[f].todo) /\ stack[f].act \notin ToSet(stack[f].todo)
       /\ Held(f) \cap (ToSet(actList) \cup ashList) = {}
       /\ f = 1 => Held(f) = {}
  /\ \A f, g \in 1..Len(stack) : f # g => Held(f) \cap Held(g) = {}
  /\ ToSet(actList) \cap ashList = {}
  /\ \A a \in Action :
       status[a] \notin {"free", "R"} <=>
         a \in ToSet(actList) \cup ashList \/ \E f \in 1..Len(stack) : a \in Held(f)

(* Frames that keep their actions hold what they held.                     *)
LEMMA SameHeld ==
  ASSUME NEW f, stack'[f].todo = stack[f].todo, stack'[f].act = stack[f].act
  PROVE  Held(f)' = Held(f)
BY DEF Held

(* Nothing moves and no action becomes or ceases to be free or ready.      *)
LEMMA ApartSame ==
  ASSUME Apart, SameFrames, UNCHANGED <<actList, ashList>>,
         \A a \in Action : status'[a] \in {"free", "R"} <=> status[a] \in {"free", "R"}
  PROVE  Apart'
<1>1. \A f \in 1..Len(stack) : Held(f)' = Held(f)
  BY SameHeld DEF SameFrames
<1>2. Len(stack') = Len(stack) /\ \A f \in 1..Len(stack) :
        stack'[f].todo = stack[f].todo /\ stack'[f].act = stack[f].act
  BY DEF SameFrames
<1>3. QED
  BY <1>1, <1>2 DEF Apart

(* scheduleAction of an action that is in no place.                        *)
LEMMA ApartSchedule ==
  ASSUME TypeOK, Apart, SameFrames, UNCHANGED ashList,
         NEW a \in Action, status[a] \in {"free", "R"},
         status' = [status EXCEPT ![a] = "S"], actList' = Scheduled(actList, a)
  PROVE  Apart'
<1>1. \A f \in 1..Len(stack) : Held(f)' = Held(f)
  BY SameHeld DEF SameFrames
<1>2. Len(stack') = Len(stack) /\ \A f \in 1..Len(stack) :
        stack'[f].todo = stack[f].todo /\ stack'[f].act = stack[f].act
  BY DEF SameFrames
<1>3. a \notin ToSet(actList) \cup ashList /\ \A f \in 1..Len(stack) : a \notin Held(f)
  BY DEF Apart
<1>4. ToSet(actList') = ToSet(actList) \cup {a} /\ IsInjective(actList')
  BY <1>3, ScheduledMembers DEF Apart, TypeOK
<1>5. status'[a] = "S" /\ \A b \in Action \ {a} : status'[b] = status[b]
  BY DEF TypeOK
<1>6. QED
  BY <1>1, <1>2, <1>3, <1>4, <1>5 DEF Apart

(* nbRuleReact takes actList: its members are now those of a new frame.    *)
LEMMA ApartTake ==
  ASSUME TypeOK, Apart, TakeActions
  PROVE  Apart'
<1> USE DEF lists
<1>1. actList' = <<>> /\ UNCHANGED <<ashList, status>>
  BY DEF TakeActions
<1>2. \A f \in 1..Len(stack) : Held(f)' = Held(f)
  BY TakeStep, SameHeld
<1>3. \A f \in 1..Len(stack) : stack'[f].todo = stack[f].todo /\ stack'[f].act = stack[f].act
  BY TakeStep
<1>4. ToSet(actList') = {} /\ IsInjective(actList')
  BY <1>1 DEF ToSet, IsInjective
<1>5. Len(stack) \in Nat \ {0}
  BY TopType, AtType DEF TakeActions
<1>6. CASE actList = <<>>
  <2>1. Len(stack') = Len(stack)
    BY <1>6, TakeStep
  <2>2. actList' = actList
    BY <1>1, <1>6
  <2>3. QED
    BY <1>1, <1>2, <1>3, <2>1, <2>2 DEF Apart
<1>7. CASE actList # <<>>
  <2>0. PICK n : n = Len(stack) + 1
    OBVIOUS
  <2>1. Len(stack') = n /\ stack'[n].todo = actList /\ stack'[n].act = NoAction
    BY <1>7, <2>0, TakeStep DEF Frame
  <2>2. Held(n)' = ToSet(actList)
    BY <2>1 DEF Held
  <2>3. NoAction \notin ToSet(actList)
    BY RuleAssumption DEF TypeOK, ToSet
  <2>4. 1..n = 1..Len(stack) \cup {n} /\ n \notin 1..Len(stack) /\ n # 1
    BY <1>5, <2>0
  <2>5. ASSUME NEW f \in 1..n
        PROVE  /\ IsInjective(stack'[f].todo) /\ stack'[f].act \notin ToSet(stack'[f].todo)
               /\ Held(f)' \cap (ToSet(actList') \cup ashList') = {}
               /\ f = 1 => Held(f)' = {}
    <3>1. CASE f \in 1..Len(stack)
      BY <1>1, <1>2, <1>3, <1>4, <3>1 DEF Apart
    <3>2. CASE f = n
      BY <1>1, <1>4, <2>1, <2>2, <2>3, <2>4, <3>2 DEF Apart
    <3>3. QED
      BY <2>4, <3>1, <3>2
  <2>6. ASSUME NEW f \in 1..n, NEW g \in 1..n, f # g
        PROVE  Held(f)' \cap Held(g)' = {}
    BY <1>2, <2>2, <2>4, <2>6 DEF Apart
  <2>7. ASSUME NEW a \in Action
        PROVE  status'[a] \notin {"free", "R"} <=>
                 a \in ToSet(actList') \cup ashList' \/ \E f \in 1..n : a \in Held(f)'
    <3>1. (\E f \in 1..n : a \in Held(f)') <=>
            (\E f \in 1..Len(stack) : a \in Held(f)) \/ a \in ToSet(actList)
      BY <1>2, <2>2, <2>4
    <3>2. QED
      BY <1>1, <1>4, <3>1 DEF Apart
  <2>8. QED
    BY <1>1, <1>4, <2>1, <2>5, <2>6, <2>7 DEF Apart
<1>8. QED
  BY <1>6, <1>7

(* An action moves from the list of the innermost call to be performed, or *)
(* to the ash list.                                                        *)
LEMMA ApartVisit ==
  ASSUME TypeOK, Apart, Fire \/ PassOver
  PROVE  Apart'
<1> USE DEF lists
<1>1. PICK n, a : n = Len(stack) /\ a = Head(Top.todo)
  OBVIOUS
<1>2. /\ Running /\ Top.todo \in Seq(Action) /\ Top.todo # <<>> /\ a \in Action
      /\ Top.act = NoAction
      /\ TopReplaced(stack'[Len(stack)])
      /\ stack'[n].todo = Tail(Top.todo)
      /\ Fire => stack'[n].act = a
      /\ PassOver => stack'[n].act = NoAction
  BY <1>1, VisitStep
<1>3. n \in Nat \ {0} /\ n \in 1..n /\ Top = stack[n]
  BY <1>1, <1>2, TopType DEF Top
<1>4. /\ Len(stack') = n
      /\ \A f \in 1..n : f # n => stack'[f] = stack[f] /\ Held(f)' = Held(f)
  BY <1>1, <1>2, <1>3 DEF TopReplaced, Held
<1>5. a # NoAction
  BY <1>2, RuleAssumption
<1>6. /\ ToSet(stack[n].todo) = {a} \cup ToSet(stack'[n].todo)
      /\ a \notin ToSet(stack'[n].todo) /\ IsInjective(stack'[n].todo)
  BY <1>1, <1>2, <1>3, HeadMembers DEF Apart
<1>7. Held(n) = {a} \cup ToSet(stack'[n].todo)
  BY <1>2, <1>3, <1>6 DEF Held
<1>8. n # 1
  BY <1>1, <1>3, <1>7 DEF Apart
<1>9. NoAction \notin ToSet(stack'[n].todo)
  <2>1. Top.todo \in Seq(Action) /\ NoAction \notin ToSet(Top.todo)
    BY <1>2, RuleAssumption DEF ToSet
  <2>2. QED
    BY <1>3, <1>6, <2>1
<1>10. CASE Fire
  <2>1. /\ status[a] = "S" /\ status' = [status EXCEPT ![a] = "P"]
        /\ UNCHANGED <<actList, ashList>>
    BY <1>1, <1>10 DEF Fire
  <2>2. Held(n)' = Held(n)
    BY <1>2, <1>5, <1>7, <1>10 DEF Held
  <2>3. \A f \in 1..n : Held(f)' = Held(f)
    BY <1>4, <2>2
  <2>4. \A b \in Action : status'[b] \in {"free", "R"} <=> status[b] \in {"free", "R"}
    BY <1>2, <2>1 DEF TypeOK
  <2>5. stack'[n].act = a
    BY <1>2, <1>10
  <2>6. QED
    BY <1>1, <1>4, <1>6, <2>1, <2>3, <2>4, <2>5 DEF Apart
<1>11. CASE PassOver
  <2>1. ashList' = ashList \cup {a} /\ UNCHANGED <<status, actList>>
    BY <1>1, <1>11 DEF PassOver
  <2>2. stack'[n].act = NoAction
    BY <1>2, <1>11
  <2>3. Held(n)' = Held(n) \ {a} /\ a \in Held(n)
    BY <1>6, <1>7, <2>2 DEF Held
  <2>4. /\ a \notin ToSet(actList) \cup ashList
        /\ \A f \in 1..n : f # n => a \notin Held(f)
    BY <1>1, <1>3, <2>3 DEF Apart
  <2>5. ASSUME NEW f \in 1..n
        PROVE  /\ IsInjective(stack'[f].todo) /\ stack'[f].act \notin ToSet(stack'[f].todo)
               /\ Held(f)' \cap (ToSet(actList') \cup ashList') = {}
               /\ f = 1 => Held(f)' = {}
    <3>1. CASE f = n
      BY <1>1, <1>6, <1>8, <1>9, <2>1, <2>2, <2>3, <3>1 DEF Apart
    <3>2. CASE f # n
      BY <1>1, <1>4, <2>1, <2>4, <3>2 DEF Apart
    <3>3. QED
      BY <3>1, <3>2
  <2>6. \A f, g \in 1..n : f # g => Held(f)' \cap Held(g)' = {}
    BY <1>1, <1>4, <2>3 DEF Apart
  <2>7. ASSUME NEW b \in Action
        PROVE  status'[b] \notin {"free", "R"} <=>
                 b \in ToSet(actList') \cup ashList' \/ \E f \in 1..n : b \in Held(f)'
    <3>1. status[b] \notin {"free", "R"} <=>
            b \in ToSet(actList) \cup ashList \/ \E f \in 1..n : b \in Held(f)
      BY <1>1 DEF Apart
    <3>2. (\E f \in 1..n : b \in Held(f)') <=> b # a /\ \E f \in 1..n : b \in Held(f)
      BY <1>3, <1>4, <2>3, <2>4
    <3>3. status[a] \notin {"free", "R"}
      BY <1>1, <1>2, <1>3, <2>3 DEF Apart
    <3>4. QED
      BY <2>1, <3>1, <3>2, <3>3
  <2>8. ToSet(actList') \cap ashList' = {} /\ IsInjective(actList')
    BY <2>1, <2>4 DEF Apart
  <2>9. QED
    BY <1>4, <2>5, <2>6, <2>7, <2>8 DEF Apart
<1>12. QED
  BY <1>10, <1>11

(* The action that was performed goes to the ash list.                     *)
LEMMA ApartActEnd ==
  ASSUME TypeOK, Apart, ActEnd
  PROVE  Apart'
<1> USE DEF lists
<1>1. PICK n, a : n = Len(stack) /\ a = Top.act
  OBVIOUS
<1>2. /\ Running /\ a \in Action /\ a # NoAction
      /\ TopReplaced(stack'[Len(stack)])
      /\ stack'[n].todo = Top.todo /\ stack'[n].act = NoAction
  BY <1>1, ActEndStep
<1>3. n \in Nat \ {0} /\ n \in 1..n /\ Top = stack[n] /\ Top.todo \in Seq(Action)
  BY <1>1, <1>2, TopType DEF Top, FrameType
<1>4. /\ Len(stack') = n
      /\ \A f \in 1..n : f # n => stack'[f] = stack[f] /\ Held(f)' = Held(f)
  BY <1>1, <1>2, <1>3 DEF TopReplaced, Held
<1>5. /\ ashList' = ashList \cup {a} /\ UNCHANGED actList
      /\ status' = [status EXCEPT ![a] = "A"]
  BY <1>1 DEF ActEnd
<1>6. a \in Held(n) /\ Held(n)' = Held(n) \ {a}
  <2>1. stack[n].act = a /\ a \notin ToSet(stack[n].todo)
    BY <1>1, <1>3 DEF Apart
  <2>2. Held(n) = ToSet(stack[n].todo) \cup {a} /\ Held(n)' = ToSet(stack[n].todo)
    BY <1>2, <1>3, <2>1 DEF Held
  <2>3. QED
    BY <2>1, <2>2
<1>7. /\ a \notin ToSet(actList) \cup ashList
      /\ \A f \in 1..n : f # n => a \notin Held(f)
  BY <1>1, <1>3, <1>6 DEF Apart
<1>8. n # 1
  BY <1>1, <1>3, <1>6 DEF Apart
<1>9. NoAction \notin ToSet(Top.todo)
  BY <1>3, RuleAssumption DEF ToSet
<1>10. ASSUME NEW f \in 1..n
       PROVE  /\ IsInjective(stack'[f].todo) /\ stack'[f].act \notin ToSet(stack'[f].todo)
              /\ Held(f)' \cap (ToSet(actList') \cup ashList') = {}
              /\ f = 1 => Held(f)' = {}
  <2>1. CASE f = n
    BY <1>1, <1>2, <1>3, <1>5, <1>6, <1>8, <1>9, <2>1 DEF Apart
  <2>2. CASE f # n
    BY <1>1, <1>4, <1>5, <1>7, <2>2 DEF Apart
  <2>3. QED
    BY <2>1, <2>2
<1>11. \A f, g \in 1..n : f # g => Held(f)' \cap Held(g)' = {}
  BY <1>1, <1>4, <1>6 DEF Apart
<1>12. ASSUME NEW b \in Action
       PROVE  status'[b] \notin {"free", "R"} <=>
                b \in ToSet(actList') \cup ashList' \/ \E f \in 1..n : b \in Held(f)'
  <2>1. status[b] \notin {"free", "R"} <=>
          b \in ToSet(actList) \cup ashList \/ \E f \in 1..n : b \in Held(f)
    BY <1>1 DEF Apart
  <2>2. (\E f \in 1..n : b \in Held(f)') <=> b # a /\ \E f \in 1..n : b \in Held(f)
    BY <1>3, <1>4, <1>6, <1>7
  <2>3. status'[b] = IF b = a THEN "A" ELSE status[b]
    BY <1>2, <1>5 DEF TypeOK
  <2>4. QED
    BY <1>5, <2>1, <2>2, <2>3
<1>13. ToSet(actList') \cap ashList' = {} /\ IsInjective(actList')
  BY <1>5, <1>7 DEF Apart
<1>14. QED
  BY <1>4, <1>10, <1>11, <1>12, <1>13 DEF Apart

(* A call that returns holds nothing; nbRuleDouse empties the ash list.    *)
LEMMA ApartReturn ==
  ASSUME TypeOK, Apart, ReactEnd \/ CommandEnd
  PROVE  Apart'
<1> USE DEF lists
<1>1. PICK n : n = Len(stack)
  OBVIOUS
<1>2. /\ n \in Nat \ {0} /\ Len(stack') = n - 1
      /\ \A f \in 1..n - 1 : stack'[f] = stack[f]
  BY <1>1, ReturnStep
<1>3. \A f \in 1..n - 1 : f \in 1..n /\ Held(f)' = Held(f)
  BY <1>2 DEF Held
<1>4. Held(n) = {}
  <2>1. CASE ReactEnd
    <3>1. stack[n].act = NoAction /\ stack[n].todo = <<>>
      BY <1>1, <2>1 DEF ReactEnd, Top
    <3>2. QED
      BY <3>1 DEF Held, ToSet
  <2>2. CASE CommandEnd
    <3>1. n = 1
      BY <1>1, <2>2 DEF CommandEnd
    <3>2. QED
      BY <1>1, <3>1 DEF Apart
  <2>3. QED
    BY <2>1, <2>2
<1>5. \A b \in Action :
        (\E f \in 1..n : b \in Held(f)) <=> \E f \in 1..n - 1 : b \in Held(f)'
  <2>1. \A f \in 1..n : f = n \/ f \in 1..n - 1
    BY <1>2
  <2>2. QED
    BY <1>3, <1>4, <2>1
<1>6. CASE ReactEnd
  <2>1. actList' = actList /\ ashList' = {} /\ status' = [a \in Action |-> DousedStatus(a)]
    BY <1>6 DEF ReactEnd
  <2>2. ASSUME NEW b \in Action
        PROVE  status'[b] \notin {"free", "R"} <=>
                 b \in ToSet(actList') \cup ashList' \/ \E f \in 1..n - 1 : b \in Held(f)'
    <3>1. status[b] \notin {"free", "R"} <=>
            b \in ToSet(actList) \cup ashList \/ \E f \in 1..n : b \in Held(f)
      BY <1>1 DEF Apart
    <3>2. b \in ashList => b \notin ToSet(actList) /\ ~ \E f \in 1..n : b \in Held(f)
      BY <1>1 DEF Apart
    <3>3. status'[b] = DousedStatus(b)
      BY <2>1
    <3>4. QED
      BY <1>5, <2>1, <3>1, <3>2, <3>3 DEF DousedStatus
  <2>3. ASSUME NEW f \in 1..n - 1
        PROVE  /\ IsInjective(stack'[f].todo) /\ stack'[f].act \notin ToSet(stack'[f].todo)
               /\ Held(f)' \cap (ToSet(actList') \cup ashList') = {}
               /\ f = 1 => Held(f)' = {}
    <3>1. f \in 1..n /\ Held(f)' = Held(f) /\ stack'[f] = stack[f]
      BY <1>2, <1>3
    <3>2. QED
      BY <1>1, <2>1, <3>1 DEF Apart
  <2>4. \A f, g \in 1..n - 1 : f # g => Held(f)' \cap Held(g)' = {}
    BY <1>1, <1>3 DEF Apart
  <2>5. ToSet(actList') \cap ashList' = {} /\ IsInjective(actList')
    BY <2>1 DEF Apart
  <2>6. QED
    BY <1>2, <2>2, <2>3, <2>4, <2>5 DEF Apart
<1>7. CASE CommandEnd
  <2>1. UNCHANGED <<actList, ashList, status>>
    BY <1>7 DEF CommandEnd
  <2>2. n = 1 /\ Len(stack') = 0
    BY <1>1, <1>2, <1>7 DEF CommandEnd
  <2>3. \A f \in 1..Len(stack') : FALSE
    BY <2>2
  <2>4. \A b \in Action : ~ \E f \in 1..Len(stack) : b \in Held(f)
    BY <1>1, <1>4, <2>2
  <2>5. QED
    BY <2>1, <2>3, <2>4 DEF Apart
<1>8. QED
  BY <1>6, <1>7

(* An alert schedules an action only if it is ready, and otherwise gives a *)
(* linked action no status of an unlinked one.                             *)
LEMMA ApartAlert ==
  ASSUME TypeOK, Apart, DefinedRules, NEW R \in SUBSET Rule, AlertRules(R), SameFrames,
         UNCHANGED ashList
  PROVE  Apart'
<1>1. CASE Changed(R) = {}
  BY <1>1, NoAlertStep, ApartSame
<1>2. CASE Changed(R) # {}
  <2>1. PICK r \in Changed(R) :
           /\ r \in defined /\ r \in Action
           /\ \/ UNCHANGED <<status, actList>>
              \/ Alerted(r, Condition(r, store))
    BY <1>2, AlertStep
  <2>2. status[r] # "free"
    BY <2>1 DEF DefinedRules
  <2>3. \/ UNCHANGED <<status, actList>>
        \/ /\ status[r] = "R" /\ status' = [status EXCEPT ![r] = "S"]
           /\ actList' = Scheduled(actList, r)
        \/ /\ status[r] \notin {"free", "R"} /\ status' = [status EXCEPT ![r] = "E"]
           /\ UNCHANGED actList
    BY <2>1, <2>2 DEF Alerted, TypeOK
  <2>4. CASE UNCHANGED <<status, actList>>
    BY <2>4, ApartSame
  <2>5. CASE /\ status[r] = "R" /\ status' = [status EXCEPT ![r] = "S"]
             /\ actList' = Scheduled(actList, r)
    BY <2>1, <2>5, ApartSchedule
  <2>6. CASE /\ status[r] \notin {"free", "R"} /\ status' = [status EXCEPT ![r] = "E"]
             /\ UNCHANGED actList
    <3>1. \A b \in Action : status'[b] \in {"free", "R"} <=> status[b] \in {"free", "R"}
      BY <2>1, <2>6 DEF TypeOK
    <3>2. QED
      BY <2>6, <3>1, ApartSame
  <2>7. QED
    BY <2>3, <2>4, <2>5, <2>6
<1>3. QED
  BY <1>1, <1>2

(* undefine: the action of a rule that is in no place goes to the ash list *)
(* and the others stay where they are.                                     *)
LEMMA ApartUndefine ==
  ASSUME TypeOK, Apart, DefinedRules, Undefine
  PROVE  Apart'
<1> USE DEF lists
<1>1. PICK r : r = Now.rule
  OBVIOUS
<1>2. SameFrames /\ UNCHANGED actList
  BY CodeOnly DEF Undefine
<1>3. CASE r \notin defined \ Referenced
  <2>1. UNCHANGED <<ashList, status>>
    BY <1>1, <1>3 DEF Undefine
  <2>2. QED
    BY <1>2, <2>1, ApartSame
<1>4. CASE r \in defined \ Referenced
  <2>1. r \in Action /\ status[r] # "free"
    BY <1>4 DEF DefinedRules, TypeOK, Action
  <2>2. ashList' = ashList \cup ToAsh(r) /\ status' = [status EXCEPT ![r] = "D"]
    BY <1>1, <1>4 DEF Undefine
  <2>3. CASE status[r] # "R"
    <3>1. ashList' = ashList
      BY <2>2, <2>3 DEF ToAsh
    <3>2. \A b \in Action : status'[b] \in {"free", "R"} <=> status[b] \in {"free", "R"}
      BY <2>1, <2>2, <2>3 DEF TypeOK
    <3>3. QED
      BY <1>2, <3>1, <3>2, ApartSame
  <2>4. CASE status[r] = "R"
    <3>1. ashList' = ashList \cup {r}
      BY <2>2, <2>4 DEF ToAsh
    <3>2. r \notin ToSet(actList) \cup ashList /\ \A f \in 1..Len(stack) : r \notin Held(f)
      BY <2>1, <2>4 DEF Apart
    <3>3. status'[r] = "D" /\ \A b \in Action \ {r} : status'[b] = status[b]
      BY <2>1, <2>2 DEF TypeOK
    <3>4. \A f \in 1..Len(stack) : Held(f)' = Held(f)
      BY <1>2, SameHeld DEF SameFrames
    <3>5. Len(stack') = Len(stack) /\ \A f \in 1..Len(stack) :
            stack'[f].todo = stack[f].todo /\ stack'[f].act = stack[f].act
      BY <1>2 DEF SameFrames
    <3>6. QED
      BY <1>2, <3>1, <3>2, <3>3, <3>4, <3>5 DEF Apart
  <2>5. QED
    BY <2>3, <2>4
<1>5. QED
  BY <1>3, <1>4

(* A command begins with no action in a frame; the rule that it defines is *)
(* ready.                                                                  *)
LEMMA ApartBegin ==
  ASSUME TypeOK, Apart, (\E cmd \in Command : Input(cmd)) \/ (\E r \in Rule : Define(r))
  PROVE  Apart'
<1> USE DEF lists
<1>1. PICK code : code \in Seq(Step) /\ ~Running /\ stack' = <<Frame(<<>>, code)>>
  <2>1. <<Op("react")>> \in Seq(Step)
    BY OpIsStep
  <2>2. QED
    BY <2>1, CmdCodeType, CommandAssumption DEF Input, Define
<1>2. /\ stack = <<>> /\ Len(stack) = 0 /\ Len(stack') = 1
      /\ stack'[1].todo = <<>> /\ stack'[1].act = NoAction
  BY <1>1, BeginStep
<1>3. Held(1)' = {}
  BY <1>2 DEF Held, ToSet
<1>4. UNCHANGED <<actList, ashList>>
  BY DEF Input, Define
<1>5. \A a \in Action : status'[a] \in {"free", "R"} <=> status[a] \in {"free", "R"}
  <2>1. CASE \E cmd \in Command : Input(cmd)
    BY <2>1 DEF Input
  <2>2. CASE \E r \in Rule : Define(r)
    <3>1. PICK r \in Rule : status[r] = "free" /\ status' = [status EXCEPT ![r] = "R"]
      BY <2>2 DEF Define
    <3>2. QED
      BY <3>1 DEF TypeOK, Action
  <2>3. QED
    BY <2>1, <2>2
<1>6. 1..Len(stack) = {} /\ 1..Len(stack') = {1}
  BY <1>2
<1>7. IsInjective(stack'[1].todo) /\ stack'[1].act \notin ToSet(stack'[1].todo)
  BY <1>2 DEF IsInjective, ToSet
<1>8. QED
  BY <1>3, <1>4, <1>5, <1>6, <1>7 DEF Apart

(* Every step keeps the places of the actions apart.                       *)
LEMMA ApartStep ==
  ASSUME TypeOK, DefinedRules, Apart, [Next]_vars
  PROVE  Apart'
<1> USE DEF lists
<1>1. CASE (\E cmd \in Command : Input(cmd)) \/ (\E r \in Rule : Define(r))
  BY <1>1, ApartBegin
<1>2. CASE Assign \/ RuleReact \/ Mark \/ ContextIfQuiet \/ ContextAlert \/ Disable \/ Enable
  <2>1. UNCHANGED <<status, actList, ashList>>
    BY <1>2 DEF Assign, RuleReact, Mark, ContextIfQuiet, ContextAlert, Disable, Enable
  <2>2. SameFrames
    BY <1>2, CodeOnly
  <2>3. QED
    BY <2>1, <2>2, ApartSame
<1>3. CASE NodeAssert
  <2>1. PICK a \in Action : a = Now.action
    BY <1>3, AtType, StepFields DEF NodeAssert, Action
  <2>2. SameFrames /\ UNCHANGED ashList
    BY <1>3, CodeOnly DEF NodeAssert
  <2>3. CASE status[a] = "free"
    <3>1. status' = [status EXCEPT ![a] = "S"] /\ actList' = Scheduled(actList, a)
      BY <1>3, <2>1, <2>3 DEF NodeAssert
    <3>2. QED
      BY <2>2, <2>3, <3>1, ApartSchedule
  <2>4. CASE status[a] # "free"
    <3>1. UNCHANGED <<status, actList>>
      BY <1>3, <2>1, <2>4 DEF NodeAssert
    <3>2. QED
      BY <2>2, <3>1, ApartSame
  <2>5. QED
    BY <2>3, <2>4
<1>4. CASE Publish \/ CellReact
  <2>1. \E R \in SUBSET Rule : AlertRules(R)
    BY <1>4, RuleAssumption DEF Publish, CellReact
  <2>2. SameFrames /\ UNCHANGED ashList
    BY <1>4, CodeOnly DEF Publish, CellReact
  <2>3. QED
    BY <2>1, <2>2, ApartAlert
<1>5. CASE TakeActions
  BY <1>5, ApartTake
<1>6. CASE Fire \/ PassOver
  BY <1>6, ApartVisit
<1>7. CASE ActEnd
  BY <1>7, ApartActEnd
<1>8. CASE ReactEnd \/ CommandEnd
  BY <1>8, ApartReturn
<1>9. CASE IfRules
  <2>1. Now.rules \in Seq(IfRule)
    BY <1>9, AtType, StepFields DEF IfRules
  <2>2. SameFrames /\ UNCHANGED ashList
    BY <1>9, CodeOnly DEF IfRules
  <2>3. CASE Now.rules # <<>> /\ status[Head(Now.rules)] = "R"
    <3>1. PICK r \in Action : r = Head(Now.rules)
      BY <2>1, <2>3, HeadTailProperties DEF IfRule, Action
    <3>2. status' = [status EXCEPT ![r] = "S"] /\ actList' = Scheduled(actList, r)
      BY <1>9, <2>3, <3>1 DEF IfRules
    <3>3. QED
      BY <2>2, <2>3, <3>1, <3>2, ApartSchedule
  <2>4. CASE ~(Now.rules # <<>> /\ status[Head(Now.rules)] = "R")
    <3>1. UNCHANGED <<status, actList>>
      BY <1>9, <2>4 DEF IfRules
    <3>2. QED
      BY <2>2, <3>1, ApartSame
  <2>5. QED
    BY <2>3, <2>4
<1>10. CASE Undefine
  BY <1>10, ApartUndefine
<1>11. CASE UNCHANGED vars
  <2>1. SameFrames /\ UNCHANGED <<actList, ashList, status>>
    BY <1>11 DEF vars, SameFrames, TypeOK
  <2>2. QED
    BY <2>1, ApartSame
<1>12. QED
  BY <1>1, <1>2, <1>3, <1>4, <1>5, <1>6, <1>7, <1>8, <1>9, <1>10, <1>11 DEF Next, Cycle

(* Nothing is in a place before the first command.                         *)
LEMMA ApartInit == Init => Apart
<1> SUFFICES ASSUME Init PROVE Apart
  OBVIOUS
<1>1. Len(stack) = 0 /\ actList = <<>> /\ ashList = {} /\ \A a \in Action : status[a] = "free"
  BY DEF Init
<1>2. 1..Len(stack) = {} /\ ToSet(actList) = {} /\ IsInjective(actList)
  BY <1>1 DEF ToSet, IsInjective
<1>3. QED
  BY <1>1, <1>2 DEF Apart

(* The places, one by one.                                                 *)
LEMMA PlaceForms ==
  ASSUME TypeOK, NEW a \in Action, NEW p
  PROVE  p \in Places(a) <=>
           \/ \E i \in DOMAIN actList : actList[i] = a /\ p = <<"act", i>>
           \/ a \in ashList /\ p = <<"ash", 0>>
           \/ \E f \in 1..Len(stack) : \E i \in DOMAIN stack[f].todo :
                stack[f].todo[i] = a /\ p = <<"todo", f, i>>
           \/ \E f \in 1..Len(stack) : stack[f].act = a /\ p = <<"fires", f>>
<1>1. Frames = 1..Len(stack)
  BY DEF Frames, TypeOK
<1> DEFINE In(f) == {<<"todo", f, i>> : i \in {j \in DOMAIN stack[f].todo : stack[f].todo[j] = a}}
                      \cup (IF stack[f].act = a THEN {<<"fires", f>>} ELSE {})
<1>2. ASSUME NEW f \in 1..Len(stack)
      PROVE  p \in In(f) <=>
               \/ \E i \in DOMAIN stack[f].todo : stack[f].todo[i] = a /\ p = <<"todo", f, i>>
               \/ stack[f].act = a /\ p = <<"fires", f>>
  OBVIOUS
<1>3. p \in Places(a) <=>
        \/ \E i \in DOMAIN actList : actList[i] = a /\ p = <<"act", i>>
        \/ a \in ashList /\ p = <<"ash", 0>>
        \/ \E f \in 1..Len(stack) : p \in In(f)
  BY <1>1 DEF Places
<1> HIDE DEF In
<1>4. QED
  BY <1>2, <1>3

(* Apart in terms of places.                                               *)
LEMMA ApartPlaces ==
  ASSUME TypeOK, Apart
  PROVE  OnePlace
<1> SUFFICES ASSUME NEW a \in Action
             PROVE  /\ Cardinality(Places(a)) <= 1
                    /\ status[a] \in {"free", "R"} <=> Places(a) = {}
  BY DEF OnePlace
<1>1. a # NoAction
  BY RuleAssumption
<1>2. \A i \in DOMAIN actList : actList[i] = a => a \in ToSet(actList)
  BY DEF ToSet
<1>3. \A f \in 1..Len(stack) : \A i \in DOMAIN stack[f].todo :
        stack[f].todo[i] = a => a \in Held(f) /\ a \in ToSet(stack[f].todo)
  BY DEF Held, ToSet
<1>4. \A f \in 1..Len(stack) : stack[f].act = a => a \in Held(f)
  BY <1>1 DEF Held
<1>5. ASSUME NEW p \in Places(a), NEW q \in Places(a)
      PROVE  p = q
  <2>1. CASE \E i \in DOMAIN actList : actList[i] = a /\ p = <<"act", i>>
    <3>1. PICK i \in DOMAIN actList : actList[i] = a /\ p = <<"act", i>>
      BY <2>1
    <3>2. a \in ToSet(actList) /\ a \notin ashList /\ \A f \in 1..Len(stack) : a \notin Held(f)
      BY <1>2, <3>1 DEF Apart
    <3>3. \E j \in DOMAIN actList : actList[j] = a /\ q = <<"act", j>>
      BY <1>3, <1>4, <3>2, PlaceForms
    <3>4. QED
      BY <3>1, <3>3 DEF Apart, IsInjective
  <2>2. CASE a \in ashList /\ p = <<"ash", 0>>
    <3>1. a \notin ToSet(actList) /\ \A f \in 1..Len(stack) : a \notin Held(f)
      BY <2>2 DEF Apart
    <3>2. QED
      BY <1>2, <1>3, <1>4, <2>2, <3>1, PlaceForms
  <2>3. CASE \E f \in 1..Len(stack) : \E i \in DOMAIN stack[f].todo :
                stack[f].todo[i] = a /\ p = <<"todo", f, i>>
    <3>0. PICK f \in 1..Len(stack) : \E i \in DOMAIN stack[f].todo :
            stack[f].todo[i] = a /\ p = <<"todo", f, i>>
      BY <2>3
    <3>1. PICK i \in DOMAIN stack[f].todo : stack[f].todo[i] = a /\ p = <<"todo", f, i>>
      BY <3>0
    <3>2. /\ a \in Held(f) /\ a \in ToSet(stack[f].todo) /\ stack[f].act # a
          /\ a \notin ToSet(actList) \cup ashList
          /\ \A g \in 1..Len(stack) : g # f => a \notin Held(g)
      BY <1>3, <3>1 DEF Apart
    <3>3. \E j \in DOMAIN stack[f].todo : stack[f].todo[j] = a /\ q = <<"todo", f, j>>
      BY <1>2, <1>3, <1>4, <3>2, PlaceForms
    <3>4. QED
      BY <3>1, <3>3 DEF Apart, IsInjective
  <2>4. CASE \E f \in 1..Len(stack) : stack[f].act = a /\ p = <<"fires", f>>
    <3>1. PICK f \in 1..Len(stack) : stack[f].act = a /\ p = <<"fires", f>>
      BY <2>4
    <3>2. /\ a \in Held(f) /\ a \notin ToSet(stack[f].todo)
          /\ a \notin ToSet(actList) \cup ashList
          /\ \A g \in 1..Len(stack) : g # f => a \notin Held(g)
      BY <1>4, <3>1 DEF Apart
    <3>3. q = <<"fires", f>>
      BY <1>2, <1>3, <1>4, <3>1, <3>2, PlaceForms
    <3>4. QED
      BY <3>1, <3>3
  <2>5. QED
    BY <2>1, <2>2, <2>3, <2>4, PlaceForms
<1>6. Cardinality(Places(a)) <= 1
  <2>1. CASE Places(a) = {}
    BY <2>1, FS_EmptySet
  <2>2. CASE Places(a) # {}
    <3>1. PICK p : p \in Places(a)
      BY <2>2
    <3>2. Places(a) = {p}
      BY <1>5, <3>1
    <3>3. Cardinality({p}) = 1
      BY FS_Singleton
    <3>4. QED
      BY <3>2, <3>3
  <2>3. QED
    BY <2>1, <2>2
<1>7. Places(a) # {} <=> a \in ToSet(actList) \cup ashList \/ \E f \in 1..Len(stack) : a \in Held(f)
  <2>1. ASSUME Places(a) # {}
        PROVE  a \in ToSet(actList) \cup ashList \/ \E f \in 1..Len(stack) : a \in Held(f)
    <3>1. PICK p : p \in Places(a)
      BY <2>1
    <3>2. QED
      BY <1>2, <1>3, <1>4, <3>1, PlaceForms
  <2>2. CASE a \in ToSet(actList)
    <3>1. PICK i \in DOMAIN actList : actList[i] = a
      BY <2>2 DEF ToSet
    <3>2. <<"act", i>> \in Places(a)
      BY <3>1, PlaceForms
    <3>3. QED
      BY <2>2, <3>2
  <2>3. CASE a \in ashList
    <3>1. <<"ash", 0>> \in Places(a)
      BY <2>3, PlaceForms
    <3>2. QED
      BY <2>3, <3>1
  <2>4. CASE \E f \in 1..Len(stack) : a \in Held(f)
    <3>1. PICK f \in 1..Len(stack) : a \in Held(f)
      BY <2>4
    <3>2. CASE stack[f].act = a
      <4>1. <<"fires", f>> \in Places(a)
        BY <3>2, PlaceForms
      <4>2. QED
        BY <2>4, <4>1
    <3>3. CASE stack[f].act # a
      <4>1. PICK i \in DOMAIN stack[f].todo : stack[f].todo[i] = a
        BY <3>1, <3>3 DEF Held, ToSet
      <4>2. <<"todo", f, i>> \in Places(a)
        BY <4>1, PlaceForms
      <4>3. QED
        BY <2>4, <4>2
    <3>4. QED
      BY <3>2, <3>3
  <2>5. QED
    BY <2>1, <2>2, <2>3, <2>4
<1>8. QED
  BY <1>6, <1>7 DEF Apart

----------------------------------------------------------------------------
(* IfRulesListed, with the fact that only rules that are defined are on    *)
(* the node's list, so a rule that is defined is not on it yet.            *)
IfListed ==
  /\ IsInjective(ifrule)
  /\ ToSet(ifrule) \subseteq defined
  /\ \A r \in defined \ stopped :
       Type[r] = "if" => (r \in ToSet(ifrule) <=> value[r] \in True)

(* alertRuleIf moves a rule onto the list or off it as its condition       *)
(* becomes true or not.                                                    *)
LEMMA IfListAlert ==
  ASSUME TypeOK, IfListed, NEW R \in SUBSET Rule, AlertRules(R), UNCHANGED <<defined, stopped>>
  PROVE  IfListed'
<1>1. CASE Changed(R) = {}
  <2>1. UNCHANGED <<value, ifrule>>
    BY <1>1, NoAlertStep
  <2>2. QED
    BY <2>1 DEF IfListed
<1>2. CASE Changed(R) # {}
  <2>1. PICK r \in Changed(R) :
           /\ r \in defined /\ r \in Rule /\ r \in Action /\ value[r] # Disabled
           /\ Condition(r, store) \in Value
           /\ value' = [value EXCEPT ![r] = Condition(r, store)]
           /\ UNCHANGED stack
           /\ \/ Type[r] = "if" /\ AlertedIf(r, Condition(r, store)) /\ UNCHANGED <<status, actList>>
              \/ Type[r] # "if" /\ Alerted(r, Condition(r, store)) /\ UNCHANGED ifrule
    BY <1>2, AlertStep
  <2> DEFINE v == Condition(r, store)
  <2>2. value'[r] = v /\ \A q \in Rule \ {r} : value'[q] = value[q]
    BY <2>1 DEF TypeOK
  <2>3. CASE Type[r] # "if"
    <3>1. ifrule' = ifrule
      BY <2>1, <2>3
    <3>2. QED
      BY <2>2, <2>3, <3>1 DEF IfListed, TypeOK
  <2>4. CASE Type[r] = "if"
    <3>1. AlertedIf(r, v) /\ r \in IfRule /\ ifrule \in Seq(IfRule)
      BY <2>1, <2>4 DEF IfRule, TypeOK
    <3>2. (\E i \in DOMAIN ifrule : ifrule[i] = r) <=> r \in ToSet(ifrule)
      BY DEF ToSet
    <3>3. /\ IsInjective(ifrule')
          /\ ToSet(ifrule') = IF v \in True THEN ToSet(ifrule) \cup {r} ELSE ToSet(ifrule) \ {r}
      <4>1. CASE v \notin True
        <5>1. ifrule' = RemoveFirst(ifrule, r)
          BY <3>1, <4>1 DEF AlertedIf
        <5>2. QED
          BY <3>1, <4>1, <5>1, RemoveFirstMembers DEF IfListed
      <4>2. CASE v \in True /\ r \in ToSet(ifrule)
        <5>1. ifrule' = ifrule
          BY <3>1, <3>2, <4>2 DEF AlertedIf
        <5>2. QED
          BY <4>2, <5>1 DEF IfListed
      <4>3. CASE v \in True /\ r \notin ToSet(ifrule)
        <5>1. ifrule' = <<r>> \o ifrule
          BY <3>1, <3>2, <4>3 DEF AlertedIf
        <5>2. QED
          BY <3>1, <4>3, <5>1, ConsMembers DEF IfListed
      <4>4. QED
        BY <4>1, <4>2, <4>3
    <3>4. ASSUME NEW q \in defined \ stopped, Type[q] = "if"
          PROVE  q \in ToSet(ifrule') <=> value'[q] \in True
      <4>1. CASE q = r
        BY <2>2, <3>3, <4>1
      <4>2. CASE q # r
        BY <2>2, <3>3, <3>4, <4>2 DEF IfListed, TypeOK
      <4>3. QED
        BY <4>1, <4>2
    <3>5. QED
      BY <2>1, <3>3, <3>4 DEF IfListed
  <2>5. QED
    BY <2>3, <2>4
<1>3. QED
  BY <1>1, <1>2

(* Every step keeps the list of the node exact.                            *)
LEMMA IfListStep ==
  ASSUME TypeOK, DefinedRules, IfListed, [Next]_vars
  PROVE  IfListed'
<1> USE DEF lists
<1>1. CASE \/ \E cmd \in Command : Input(cmd)
           \/ Assign \/ NodeAssert \/ RuleReact \/ TakeActions \/ Fire \/ PassOver \/ ReactEnd
           \/ CommandEnd \/ Mark \/ ContextIfQuiet \/ ContextAlert \/ IfRules \/ UNCHANGED vars
  <2>1. UNCHANGED <<value, defined, stopped, ifrule>>
    BY <1>1 DEF Input, Assign, NodeAssert, RuleReact, TakeActions, Fire, PassOver, ReactEnd,
                CommandEnd, Mark, ContextIfQuiet, ContextAlert, IfRules, vars
  <2>2. QED
    BY <2>1 DEF IfListed
<1>2. ASSUME NEW r \in Rule, Define(r)
      PROVE  IfListed'
  <2>1. r \notin defined
    BY <1>2 DEF Define, DefinedRules
  <2>2. /\ value' = [value EXCEPT ![r] = Condition(r, store)]
        /\ defined' = defined \cup {r} /\ stopped' = stopped
        /\ ifrule' = IF Type[r] = "if" /\ Condition(r, store) \in True THEN <<r>> \o ifrule ELSE ifrule
    BY <1>2 DEF Define
  <2>3. r \notin ToSet(ifrule) /\ ifrule \in Seq(IfRule)
    BY <2>1 DEF IfListed, TypeOK
  <2>4. CASE Type[r] = "if" /\ Condition(r, store) \in True
    <3>1. IsInjective(ifrule') /\ ToSet(ifrule') = ToSet(ifrule) \cup {r}
      BY <2>2, <2>3, <2>4, ConsMembers DEF IfRule, IfListed
    <3>2. QED
      BY <2>1, <2>2, <2>4, <3>1 DEF IfListed, TypeOK
  <2>5. CASE ~(Type[r] = "if" /\ Condition(r, store) \in True)
    BY <2>1, <2>2, <2>3, <2>5 DEF IfListed, TypeOK
  <2>6. QED
    BY <2>4, <2>5
<1>3. CASE Publish \/ CellReact
  <2>1. (\E R \in SUBSET Rule : AlertRules(R)) /\ UNCHANGED <<defined, stopped>>
    BY <1>3, RuleAssumption DEF Publish, CellReact
  <2>2. QED
    BY <2>1, IfListAlert
<1>4. CASE ActEnd
  <2> DEFINE gone == UndefinedByFiring(Top.act)
  <2>1. /\ value' = [r \in Rule |-> IF r \in gone THEN Disabled ELSE value[r]]
        /\ defined' = defined \ gone /\ UNCHANGED <<stopped, ifrule>>
    BY <1>4 DEF ActEnd
  <2>2. \A r \in gone : Type[r] = "when"
    BY DEF UndefinedByFiring
  <2>3. ToSet(ifrule) \cap gone = {}
    BY <2>2 DEF TypeOK, ToSet, IfRule
  <2> HIDE DEF gone
  <2>4. QED
    BY <2>1, <2>3 DEF IfListed, TypeOK
<1>5. CASE Undefine
  <2>1. PICK r \in Rule \ IfRule : r = Now.rule
    BY <1>5, AtType, StepFields DEF Undefine
  <2>2. CASE r \in defined \ Referenced
    <3>1. /\ defined' = defined \ {r} /\ value' = [value EXCEPT ![r] = Disabled]
          /\ UNCHANGED <<stopped, ifrule>>
      BY <1>5, <2>1, <2>2 DEF Undefine
    <3>2. r \notin ToSet(ifrule) /\ Type[r] # "if"
      BY <2>1 DEF TypeOK, ToSet, IfRule
    <3>3. QED
      BY <3>1, <3>2 DEF IfListed, TypeOK
  <2>3. CASE r \notin defined \ Referenced
    <3>1. UNCHANGED <<value, defined, stopped, ifrule>>
      BY <1>5, <2>1, <2>3 DEF Undefine
    <3>2. QED
      BY <3>1 DEF IfListed
  <2>4. QED
    BY <2>2, <2>3
<1>6. CASE Disable
  <2>1. PICK r \in Rule : r = Now.rule
    BY <1>6, AtType, StepFields DEF Disable
  <2>2. /\ value' = [value EXCEPT ![r] = Disabled]
        /\ stopped' = IF r \in defined THEN stopped \cup {r} ELSE stopped
        /\ UNCHANGED <<defined, ifrule>>
    BY <1>6, <2>1 DEF Disable
  <2>3. QED
    BY <2>2 DEF IfListed, TypeOK
<1>7. CASE Enable
  <2>1. PICK r \in Rule : r = Now.rule
    BY <1>7, AtType, StepFields DEF Enable
  <2>2. /\ value' = IF r \in defined /\ value[r] = Disabled
                    THEN [value EXCEPT ![r] = Condition(r, store)] ELSE value
        /\ UNCHANGED <<defined, stopped, ifrule>>
    BY <1>7, <2>1 DEF Enable
  <2>3. r \in defined /\ value[r] = Disabled => r \in stopped
    BY RuleAssumption DEF DefinedRules
  <2>4. QED
    BY <2>2, <2>3 DEF IfListed, TypeOK
<1>8. QED
  BY <1>1, <1>2, <1>3, <1>4, <1>5, <1>6, <1>7 DEF Next, Cycle

(* IfListed is more than IfRulesListed.                                    *)
LEMMA IfListedEnough == IfListed => IfRulesListed
BY DEF IfListed, IfRulesListed, IsInjective

----------------------------------------------------------------------------
(* a is being performed by a call of nbRuleReact.                          *)
Performing(a) == \E f \in 1..Len(stack) : stack[f].act = a

(* WhenFiresOnce, with the reason: a when() rule that has fired is not     *)
(* scheduled, and while it is still there its action is being performed,   *)
(* which keeps alertRule from scheduling it again.                         *)
FiredOnce ==
  \A r \in Rule \ Referenced :
    Type[r] = "when" =>
      \/ fired[r] = 0
      \/ fired[r] = 1 /\ status[r] # "S" /\ (r \in defined => Performing(r))

(* An action is performed until nbRuleAct ends.                            *)
LEMMA PerformingStays ==
  ASSUME TypeOK, Apart, NEW a \in Action, Performing(a), [Next]_vars, ~(ActEnd /\ Top.act = a)
  PROVE  Performing(a)'
<1> USE DEF lists
<1>0. PICK f \in 1..Len(stack) : stack[f].act = a
  BY DEF Performing
<1>1. a # NoAction /\ Len(stack) \in Nat \ {0} /\ stack # <<>>
  BY <1>0, RuleAssumption DEF TypeOK
<1>2. f # 1
  BY <1>0, <1>1 DEF Apart, Held
<1>3. CASE (\E cmd \in Command : Input(cmd)) \/ (\E r \in Rule : Define(r))
  BY <1>1, <1>3 DEF Input, Define, Running
<1>4. CASE \/ Assign \/ NodeAssert \/ Publish \/ CellReact \/ RuleReact \/ Mark \/ ContextIfQuiet
           \/ ContextAlert \/ IfRules \/ Undefine \/ Disable \/ Enable \/ UNCHANGED vars
  <2>1. SameFrames
    BY <1>4, CodeOnly DEF vars, SameFrames, TypeOK
  <2>2. QED
    BY <1>0, <2>1 DEF SameFrames, Performing
<1>5. CASE TakeActions
  <2>1. f \in 1..Len(stack') /\ stack'[f].act = a
    BY <1>0, <1>1, <1>5, TakeStep
  <2>2. QED
    BY <2>1 DEF Performing
<1>6. CASE Fire \/ PassOver
  <2>1. Top.act = NoAction /\ TopReplaced(stack'[Len(stack)])
    BY <1>6, VisitStep
  <2>2. f # Len(stack)
    BY <1>0, <1>1, <2>1 DEF Top
  <2>3. f \in 1..Len(stack') /\ stack'[f].act = a
    BY <1>0, <1>1, <2>1, <2>2 DEF TopReplaced
  <2>4. QED
    BY <2>3 DEF Performing
<1>7. CASE ActEnd
  <2>1. f # Len(stack)
    BY <1>0, <1>7 DEF Top
  <2>2. TopReplaced(stack'[Len(stack)])
    BY <1>7, ActEndStep
  <2>3. f \in 1..Len(stack') /\ stack'[f].act = a
    BY <1>0, <1>1, <2>1, <2>2 DEF TopReplaced
  <2>4. QED
    BY <2>3 DEF Performing
<1>8. CASE ReactEnd \/ CommandEnd
  <2>1. f # Len(stack)
    BY <1>0, <1>1, <1>2, <1>8 DEF ReactEnd, CommandEnd, Top
  <2>2. f \in 1..Len(stack') /\ stack'[f].act = a
    BY <1>0, <1>1, <1>8, <2>1, ReturnStep
  <2>3. QED
    BY <2>2 DEF Performing
<1>9. QED
  BY <1>3, <1>4, <1>5, <1>6, <1>7, <1>8 DEF Next, Cycle

(* An action that is being performed is not ready.                         *)
LEMMA PerformingLinked ==
  ASSUME Apart, NEW a \in Action, Performing(a)
  PROVE  status[a] \notin {"free", "R"}
BY RuleAssumption DEF Apart, Held, Performing

(* Only a rule that is defined and ready is scheduled.                     *)
LEMMA BecomesScheduled ==
  ASSUME TypeOK, NEW r \in Rule \ IfRule, [Next]_vars, status[r] # "S", status'[r] = "S"
  PROVE  status[r] = "R" /\ r \in defined
<1> USE DEF lists
<1>1. r \in Action /\ Type[r] # "if"
  BY DEF Action, IfRule
<1>2. CASE \/ \E cmd \in Command : Input(cmd)
           \/ Assign \/ RuleReact \/ TakeActions \/ PassOver \/ CommandEnd
           \/ Mark \/ ContextIfQuiet \/ ContextAlert \/ Disable \/ Enable \/ UNCHANGED vars
  <2>1. UNCHANGED status
    BY <1>2 DEF Input, Assign, RuleReact, TakeActions, PassOver, CommandEnd, Mark,
                ContextIfQuiet, ContextAlert, Disable, Enable, vars
  <2>2. QED
    BY <2>1
<1>3. CASE \E q \in Rule : Define(q)
  BY <1>1, <1>3 DEF Define, TypeOK
<1>4. CASE NodeAssert
  <2>1. Now.action \in Api
    BY <1>4, AtType, StepFields DEF NodeAssert
  <2>2. QED
    BY <1>1, <1>4, <2>1, RuleAssumption DEF NodeAssert, TypeOK, Action
<1>5. CASE Publish \/ CellReact
  <2>1. PICK R \in SUBSET Rule : AlertRules(R)
    BY <1>5, RuleAssumption DEF Publish, CellReact
  <2>2. CASE Changed(R) = {}
    BY <2>1, <2>2, NoAlertStep
  <2>3. CASE Changed(R) # {}
    <3>1. PICK q \in Changed(R) :
            /\ q \in defined /\ q \in Action
            /\ UNCHANGED status \/ Alerted(q, Condition(q, store))
      BY <2>1, <2>3, AlertStep
    <3>2. q = r /\ Alerted(r, Condition(r, store))
      BY <1>1, <3>1 DEF Alerted, TypeOK
    <3>3. QED
      BY <1>1, <3>1, <3>2 DEF Alerted, TypeOK
  <2>4. QED
    BY <2>2, <2>3
<1>6. CASE Fire
  BY <1>1, <1>6 DEF Fire, TypeOK
<1>7. CASE ActEnd
  BY <1>1, <1>7 DEF ActEnd, TypeOK
<1>8. CASE ReactEnd
  BY <1>1, <1>8 DEF ReactEnd, DousedStatus
<1>9. CASE IfRules
  <2>1. Now.rules \in Seq(IfRule)
    BY <1>9, AtType, StepFields DEF IfRules
  <2>2. Now.rules # <<>> => Head(Now.rules) \in IfRule
    BY <2>1, HeadTailProperties
  <2>3. QED
    BY <1>1, <1>9, <2>2 DEF IfRules, TypeOK, IfRule
<1>10. CASE Undefine
  BY <1>1, <1>10 DEF Undefine, TypeOK
<1>11. QED
  BY <1>2, <1>3, <1>4, <1>5, <1>6, <1>7, <1>8, <1>9, <1>10 DEF Next, Cycle

(* What has been counted for a when() rule stays, until it fires again or  *)
(* is defined anew.                                                        *)
LEMMA FiredStep ==
  ASSUME TypeOK, NEW r \in Rule, Type[r] = "when", [Next]_vars
  PROVE  \/ fired'[r] = fired[r]
         \/ fired'[r] = 0
         \/ /\ Fire /\ Head(Top.todo) = r
            /\ fired'[r] = IF fired[r] < 2 THEN fired[r] + 1 ELSE fired[r]
<1> USE DEF lists
<1>1. r \in Action
  BY DEF Action
<1>2. CASE (\E cmd \in Command : Input(cmd)) \/ (\E q \in Rule : Define(q))
  <2>1. FiredBefore[r] = fired[r] /\ FiredBefore \in [Action -> 0..2]
    BY <1>1 DEF FiredBefore, TypeOK
  <2>2. QED
    BY <1>1, <1>2, <2>1 DEF Input, Define, Action
<1>3. CASE Fire
  BY <1>1, <1>3 DEF Fire, TypeOK
<1>4. CASE \/ Assign \/ NodeAssert \/ Publish \/ CellReact \/ RuleReact \/ TakeActions \/ PassOver
           \/ ActEnd \/ ReactEnd \/ CommandEnd \/ Mark \/ ContextIfQuiet \/ ContextAlert \/ IfRules
           \/ Undefine \/ Disable \/ Enable \/ UNCHANGED vars
  BY <1>4 DEF Assign, NodeAssert, Publish, CellReact, RuleReact, TakeActions, PassOver, ActEnd,
              ReactEnd, CommandEnd, Mark, ContextIfQuiet, ContextAlert, IfRules, Undefine,
              Disable, Enable, vars
<1>5. QED
  BY <1>2, <1>3, <1>4 DEF Next, Cycle

(* A rule that becomes defined has not fired yet.                          *)
LEMMA BecomesDefined ==
  ASSUME TypeOK, NEW r \in Rule, [Next]_vars, r \notin defined, r \in defined'
  PROVE  fired'[r] = 0
<1> USE DEF lists
<1>1. CASE \E q \in Rule : Define(q)
  <2>1. Define(r)
    BY <1>1 DEF Define
  <2>2. FiredBefore \in [Action -> 0..2] /\ r \in Action
    BY DEF FiredBefore, TypeOK, Action
  <2>3. QED
    BY <2>1, <2>2 DEF Define
<1>2. CASE ~ \E q \in Rule : Define(q)
  <2>1. defined' \subseteq defined
    BY <1>2 DEF Next, Cycle, Input, Assign, NodeAssert, Publish, CellReact, RuleReact, TakeActions,
                Fire, PassOver, ActEnd, ReactEnd, CommandEnd, Mark, ContextIfQuiet, ContextAlert,
                IfRules, Undefine, Disable, Enable, vars
  <2>2. QED
    BY <2>1
<1>3. QED
  BY <1>1, <1>2

(* Every step keeps FiredOnce.                                             *)
LEMMA OnceStep ==
  ASSUME TypeOK, Apart, FiredOnce, [Next]_vars
  PROVE  FiredOnce'
<1> USE DEF lists
<1> SUFFICES ASSUME NEW r \in Rule \ Referenced, Type[r] = "when"
             PROVE  \/ fired'[r] = 0
                    \/ /\ fired'[r] = 1 /\ status'[r] # "S"
                       /\ r \in defined' => Performing(r)'
  BY DEF FiredOnce
<1>0. r \in Action /\ r \notin IfRule
  BY DEF Action, IfRule
<1>1. CASE fired'[r] = 0
  BY <1>1
<1>2. CASE Fire /\ Head(Top.todo) = r
  <2>1. status[r] = "S" /\ status'[r] = "P"
    BY <1>0, <1>2 DEF Fire, TypeOK
  <2>2. fired[r] = 0
    BY <2>1 DEF FiredOnce
  <2>3. fired'[r] = 1
    BY <1>0, <1>2, <2>2 DEF Fire, TypeOK
  <2>4. stack'[Len(stack)].act = r /\ TopReplaced(stack'[Len(stack)]) /\ Running
    BY <1>2, VisitStep
  <2>5. Performing(r)'
    BY <2>4, TopType DEF TopReplaced, Performing
  <2>6. QED
    BY <2>1, <2>3, <2>5
<1>3. CASE fired'[r] = fired[r] /\ fired[r] # 0
  <2>1. fired[r] = 1 /\ status[r] # "S" /\ (r \in defined => Performing(r))
    BY <1>3 DEF FiredOnce
  <2>2. status'[r] # "S"
    <3>1. ASSUME status'[r] = "S" PROVE FALSE
      <4>1. status[r] = "R" /\ r \in defined
        BY <1>0, <2>1, <3>1, BecomesScheduled
      <4>2. QED
        BY <1>0, <2>1, <4>1, PerformingLinked
    <3>2. QED
      BY <3>1
  <2>3. ASSUME r \in defined'
        PROVE  Performing(r)'
    <3>1. r \in defined
      BY <1>3, <2>3, BecomesDefined
    <3>2. ~(ActEnd /\ Top.act = r)
      <4>1. ASSUME ActEnd, Top.act = r PROVE FALSE
        <5>1. defined' = defined \ UndefinedByFiring(r) /\ UndefinedByFiring(r) = {r}
          BY <3>1, <4>1 DEF ActEnd, UndefinedByFiring
        <5>2. QED
          BY <2>3, <5>1
      <4>2. QED
        BY <4>1
    <3>3. QED
      BY <1>0, <2>1, <3>1, <3>2, PerformingStays
  <2>4. QED
    BY <1>3, <2>1, <2>2, <2>3
<1>4. QED
  BY <1>1, <1>2, <1>3, FiredStep

----------------------------------------------------------------------------
(* The steps that evaluate the conditions that have changed, and those     *)
(* that take the actions that are scheduled.                               *)
Evaluates == {"react", "cells"}
Takes == {"react", "take", "context", "ifrules"}

(* What is still to be done does something in ops.                         *)
Has(code, ops) == \E i \in DOMAIN code : code[i].op \in ops
HasAfter(code, i, ops) == \E j \in DOMAIN code : j > i /\ code[j].op \in ops

(* Whatever changes a term is followed by an evaluation, and whatever may  *)
(* schedule an action by a reaction.                                       *)
Drains(code) ==
  \A i \in DOMAIN code :
    /\ code[i].op = "set" => HasAfter(code, i, Evaluates)
    /\ code[i].op \in {"set", "node", "publish", "cells"} => HasAfter(code, i, Takes)

(* nbRuleReact takes the list right after nbCellReact.                     *)
TakesFirst(code) ==
  \A i \in DOMAIN code : code[i].op = "take" => i = 1 \/ (i = 2 /\ code[1].op = "cells")

(* CycleComplete, with the work that the functions on the stack still owe: *)
(* a changed condition will be evaluated by the innermost one, and a       *)
(* scheduled action taken, before anything else is fired.                  *)
Owed ==
  /\ \A f \in 1..Len(stack) : Drains(stack[f].code)
  /\ \A f \in 1..Len(stack) - 1 : ~Has(stack[f].code, {"take"})
  /\ Running => /\ TakesFirst(Top.code)
                /\ Changed(Rule) # {} => Has(Top.code, Evaluates) /\ ~At("take")
                /\ actList # <<>> => Has(Top.code, Takes)
  /\ ~Running => actList = <<>> /\ Changed(Rule) = {}

(* The steps that react, or may.                                           *)
Turns == {"react", "take", "contextIfQuiet", "context", "ifrules"}

(* Drains, but for what comes before the first reaction.                   *)
LateDrains(code) ==
  \A k, i \in DOMAIN code : code[k].op \in Turns /\ i > k =>
    /\ code[i].op = "set" => HasAfter(code, i, Evaluates)
    /\ code[i].op \in {"set", "node", "publish", "cells"} => HasAfter(code, i, Takes)

(* What is left of Owed while an assertion is without a reaction: the next *)
(* reaction, if there is one, brings all of it back.                       *)
Lax ==
  /\ \A f \in 1..Len(stack) - 1 : Drains(stack[f].code) /\ ~Has(stack[f].code, {"take"})
  /\ Running => /\ TakesFirst(Top.code)
                /\ LateDrains(Top.code)
                /\ At("take") => Changed(Rule) = {}

(* Sequences of steps: the first step and the others.                      *)
LEMMA TailHas ==
  ASSUME NEW c \in Seq(Step), c # <<>>, NEW ops
  PROVE  Has(c, ops) <=> Head(c).op \in ops \/ Has(Tail(c), ops)
<1>1. /\ Tail(c) \in Seq(Step) /\ Len(Tail(c)) = Len(c) - 1 /\ Head(c) = c[1]
      /\ \A i \in 1..Len(Tail(c)) : Tail(c)[i] = c[i + 1]
  BY HeadTailProperties
<1>2. /\ Len(c) \in Nat \ {0} /\ DOMAIN c = 1..Len(c) /\ DOMAIN Tail(c) = 1..Len(c) - 1
  BY <1>1
<1>3. ASSUME NEW i \in DOMAIN c, c[i].op \in ops, i # 1
      PROVE  Has(Tail(c), ops)
  <2>1. i - 1 \in DOMAIN Tail(c) /\ Tail(c)[i - 1] = c[i]
    BY <1>1, <1>2, <1>3
  <2>2. QED
    BY <1>3, <2>1 DEF Has
<1>4. ASSUME NEW i \in DOMAIN Tail(c), Tail(c)[i].op \in ops
      PROVE  Has(c, ops)
  <2>1. i + 1 \in DOMAIN c /\ Tail(c)[i] = c[i + 1]
    BY <1>1, <1>2
  <2>2. QED
    BY <1>4, <2>1 DEF Has
<1>5. 1 \in DOMAIN c
  BY <1>2
<1>6. QED
  BY <1>1, <1>3, <1>4, <1>5 DEF Has

(* And what there is after one of the others.                              *)
LEMMA TailHasAfter ==
  ASSUME NEW c \in Seq(Step), c # <<>>, NEW ops
  PROVE  /\ HasAfter(c, 1, ops) <=> Has(Tail(c), ops)
         /\ \A i \in DOMAIN Tail(c) :
              i + 1 \in DOMAIN c /\ Tail(c)[i] = c[i + 1]
              /\ (HasAfter(c, i + 1, ops) <=> HasAfter(Tail(c), i, ops))
<1>1. /\ Tail(c) \in Seq(Step) /\ Len(Tail(c)) = Len(c) - 1
      /\ \A i \in 1..Len(Tail(c)) : Tail(c)[i] = c[i + 1]
  BY HeadTailProperties
<1>2. /\ Len(c) \in Nat \ {0} /\ DOMAIN c = 1..Len(c) /\ DOMAIN Tail(c) = 1..Len(c) - 1
  BY <1>1
<1>3. ASSUME NEW i \in Nat, NEW j \in DOMAIN c, j > i + 1
      PROVE  j - 1 \in DOMAIN Tail(c) /\ Tail(c)[j - 1] = c[j] /\ j - 1 > i
  BY <1>1, <1>2, <1>3
<1>4. ASSUME NEW i \in Nat, NEW j \in DOMAIN Tail(c), j > i
      PROVE  j + 1 \in DOMAIN c /\ Tail(c)[j] = c[j + 1] /\ j + 1 > i + 1
  BY <1>1, <1>2, <1>4
<1>5. ASSUME NEW i \in Nat
      PROVE  HasAfter(c, i + 1, ops) <=> HasAfter(Tail(c), i, ops)
  BY <1>3, <1>4 DEF HasAfter
<1>6. HasAfter(c, 1, ops) <=> Has(Tail(c), ops)
  <2>1. \A j \in DOMAIN Tail(c) : j > 0
    BY <1>2
  <2>2. HasAfter(Tail(c), 0, ops) <=> Has(Tail(c), ops)
    BY <2>1 DEF Has, HasAfter
  <2>3. HasAfter(c, 0 + 1, ops) <=> HasAfter(Tail(c), 0, ops)
    BY <1>5
  <2>4. QED
    BY <2>2, <2>3
<1>7. \A i \in DOMAIN Tail(c) : i \in Nat /\ i + 1 \in DOMAIN c /\ Tail(c)[i] = c[i + 1]
  BY <1>1, <1>2
<1>8. QED
  BY <1>5, <1>6, <1>7

(* Draining, step by step.                                                 *)
LEMMA TailDrains ==
  ASSUME NEW c \in Seq(Step), c # <<>>
  PROVE  Drains(c) <=>
           /\ Drains(Tail(c))
           /\ Head(c).op = "set" => Has(Tail(c), Evaluates)
           /\ Head(c).op \in {"set", "node", "publish", "cells"} => Has(Tail(c), Takes)
<1>1. /\ Len(c) \in Nat \ {0} /\ DOMAIN c = 1..Len(c) /\ Head(c) = c[1]
      /\ DOMAIN Tail(c) = 1..Len(c) - 1
  BY HeadTailProperties
<1>2. \A i \in DOMAIN c : i = 1 \/ (i - 1 \in DOMAIN Tail(c) /\ (i - 1) + 1 = i)
  BY <1>1
<1>3. 1 \in DOMAIN c
  BY <1>1
<1>4. ASSUME Drains(c)
      PROVE  /\ Drains(Tail(c))
             /\ Head(c).op = "set" => Has(Tail(c), Evaluates)
             /\ Head(c).op \in {"set", "node", "publish", "cells"} => Has(Tail(c), Takes)
  <2>1. Drains(Tail(c))
    BY <1>4, TailHasAfter DEF Drains
  <2>2. QED
    BY <1>1, <1>3, <1>4, <2>1, TailHasAfter DEF Drains
<1>5. ASSUME /\ Drains(Tail(c))
             /\ Head(c).op = "set" => Has(Tail(c), Evaluates)
             /\ Head(c).op \in {"set", "node", "publish", "cells"} => Has(Tail(c), Takes)
      PROVE  Drains(c)
  <2>1. ASSUME NEW i \in DOMAIN c
        PROVE  /\ c[i].op = "set" => HasAfter(c, i, Evaluates)
               /\ c[i].op \in {"set", "node", "publish", "cells"} => HasAfter(c, i, Takes)
    <3>1. CASE i = 1
      BY <1>1, <1>5, <3>1, TailHasAfter
    <3>2. CASE i - 1 \in DOMAIN Tail(c) /\ (i - 1) + 1 = i
      <4>1. PICK k \in DOMAIN Tail(c) : k + 1 = i
        BY <3>2
      <4>2. /\ Tail(c)[k] = c[i]
            /\ HasAfter(c, i, Evaluates) <=> HasAfter(Tail(c), k, Evaluates)
            /\ HasAfter(c, i, Takes) <=> HasAfter(Tail(c), k, Takes)
        BY <4>1, TailHasAfter
      <4>3. QED
        BY <1>5, <4>2 DEF Drains
    <3>3. QED
      BY <1>2, <3>1, <3>2
  <2>2. QED
    BY <2>1 DEF Drains
<1>6. QED
  BY <1>4, <1>5

(* The same for LateDrains.                                                *)
LEMMA TailLate ==
  ASSUME NEW c \in Seq(Step), c # <<>>
  PROVE  /\ LateDrains(c) <=>
              LateDrains(Tail(c)) /\ (Head(c).op \in Turns => Drains(Tail(c)))
         /\ Drains(c) => LateDrains(c)
<1>1. /\ Len(c) \in Nat \ {0} /\ DOMAIN c = 1..Len(c) /\ Head(c) = c[1]
      /\ DOMAIN Tail(c) = 1..Len(c) - 1
  BY HeadTailProperties
<1>2. \A i \in DOMAIN c : i \in Nat /\ (i = 1 \/ (i - 1 \in DOMAIN Tail(c) /\ (i - 1) + 1 = i))
  BY <1>1
<1>3. 1 \in DOMAIN c /\ \A i \in DOMAIN Tail(c) : i \in Nat /\ i + 1 > 1
  BY <1>1
<1>4. ASSUME LateDrains(c)
      PROVE  LateDrains(Tail(c)) /\ (Head(c).op \in Turns => Drains(Tail(c)))
  <2>1. ASSUME NEW k \in DOMAIN Tail(c), NEW i \in DOMAIN Tail(c), Tail(c)[k].op \in Turns, i > k
        PROVE  /\ Tail(c)[i].op = "set" => HasAfter(Tail(c), i, Evaluates)
               /\ Tail(c)[i].op \in {"set", "node", "publish", "cells"} =>
                    HasAfter(Tail(c), i, Takes)
    <3>1. i + 1 > k + 1
      BY <1>3, <2>1
    <3>2. QED
      BY <1>4, <2>1, <3>1, TailHasAfter DEF LateDrains
  <2>2. Head(c).op \in Turns => Drains(Tail(c))
    BY <1>1, <1>3, <1>4, TailHasAfter DEF LateDrains, Drains
  <2>3. QED
    BY <2>1, <2>2 DEF LateDrains
<1>5. ASSUME LateDrains(Tail(c)), Head(c).op \in Turns => Drains(Tail(c))
      PROVE  LateDrains(c)
  <2>1. ASSUME NEW k \in DOMAIN c, NEW i \in DOMAIN c, c[k].op \in Turns, i > k
        PROVE  /\ c[i].op = "set" => HasAfter(c, i, Evaluates)
               /\ c[i].op \in {"set", "node", "publish", "cells"} => HasAfter(c, i, Takes)
    <3>1. i # 1
      BY <1>1, <2>1
    <3>2. PICK j \in DOMAIN Tail(c) : j + 1 = i
      BY <1>2, <3>1
    <3>3. /\ Tail(c)[j] = c[i]
          /\ HasAfter(c, i, Evaluates) <=> HasAfter(Tail(c), j, Evaluates)
          /\ HasAfter(c, i, Takes) <=> HasAfter(Tail(c), j, Takes)
      BY <3>2, TailHasAfter
    <3>4. CASE k = 1
      BY <1>1, <1>5, <2>1, <3>3, <3>4 DEF Drains
    <3>5. CASE k # 1
      <4>1. PICK m \in DOMAIN Tail(c) : m + 1 = k
        BY <1>2, <3>5
      <4>2. Tail(c)[m] = c[k] /\ j > m
        BY <1>3, <2>1, <3>2, <4>1, TailHasAfter
      <4>3. QED
        BY <1>5, <2>1, <3>3, <4>2 DEF LateDrains
    <3>6. QED
      BY <3>4, <3>5
  <2>2. QED
    BY <2>1 DEF LateDrains
<1>6. Drains(c) => LateDrains(c)
  BY DEF Drains, LateDrains
<1>7. QED
  BY <1>4, <1>5, <1>6

(* A step in front.                                                        *)
LEMMA ConsCode ==
  ASSUME NEW c \in Seq(Step), NEW s \in Step
  PROVE  /\ <<s>> \o c \in Seq(Step) /\ <<s>> \o c # <<>>
         /\ Head(<<s>> \o c) = s /\ Tail(<<s>> \o c) = c
OBVIOUS

(* Nothing has to be drained when there is nothing to do.                  *)
LEMMA EmptyDrains ==
  Drains(<<>>) /\ LateDrains(<<>>) /\ TakesFirst(<<>>) /\ \A ops : ~Has(<<>>, ops)
BY DEF Drains, LateDrains, TakesFirst, Has

(* A list with no "take" in it, or one at the front.                       *)
LEMMA TakesFirstForms ==
  ASSUME NEW c \in Seq(Step)
  PROVE  /\ ~Has(c, {"take"}) => TakesFirst(c)
         /\ c # <<>> /\ ~Has(Tail(c), {"take"}) => TakesFirst(c)
         /\ c # <<>> /\ TakesFirst(c) /\ Head(c).op \notin {"take", "cells"} => ~Has(c, {"take"})
         /\ c # <<>> /\ TakesFirst(c) /\ Head(c).op = "take" => ~Has(Tail(c), {"take"})
         /\ c # <<>> /\ TakesFirst(c) /\ Head(c).op = "cells" => TakesFirst(Tail(c))
         /\ c # <<>> /\ Head(c).op = "cells" /\ Tail(c) # <<>> /\ ~Has(Tail(Tail(c)), {"take"})
              => TakesFirst(c)
<1>1. c # <<>> => /\ Tail(c) \in Seq(Step) /\ Len(Tail(c)) = Len(c) - 1 /\ Head(c) = c[1]
                  /\ \A i \in 1..Len(Tail(c)) : Tail(c)[i] = c[i + 1]
  BY HeadTailProperties
<1>2. c # <<>> => /\ Len(c) \in Nat \ {0} /\ DOMAIN c = 1..Len(c) /\ DOMAIN Tail(c) = 1..Len(c) - 1
  BY <1>1
<1>3. ASSUME c # <<>>, NEW i \in DOMAIN c, i # 1
      PROVE  i - 1 \in DOMAIN Tail(c) /\ Tail(c)[i - 1] = c[i]
  BY <1>1, <1>2, <1>3
<1>4. ASSUME c # <<>>, NEW i \in DOMAIN Tail(c)
      PROVE  i + 1 \in DOMAIN c /\ Tail(c)[i] = c[i + 1] /\ i \in Nat \ {0}
  BY <1>1, <1>2, <1>4
<1>5. ~Has(c, {"take"}) => TakesFirst(c)
  BY DEF Has, TakesFirst
<1>6. c # <<>> /\ ~Has(Tail(c), {"take"}) => TakesFirst(c)
  BY <1>3 DEF Has, TakesFirst
<1>7. c # <<>> /\ TakesFirst(c) /\ Head(c).op \notin {"take", "cells"} => ~Has(c, {"take"})
  BY <1>1 DEF Has, TakesFirst
<1>8. c # <<>> /\ TakesFirst(c) /\ Head(c).op = "take" => ~Has(Tail(c), {"take"})
  BY <1>1, <1>4 DEF Has, TakesFirst
<1>9. c # <<>> /\ TakesFirst(c) /\ Head(c).op = "cells" => TakesFirst(Tail(c))
  <2>1. ASSUME c # <<>>, TakesFirst(c), NEW i \in DOMAIN Tail(c), Tail(c)[i].op = "take"
        PROVE  i = 1
    <3>1. i + 1 \in DOMAIN c /\ c[i + 1].op = "take" /\ i \in Nat \ {0}
      BY <1>4, <2>1
    <3>2. i + 1 = 1 \/ i + 1 = 2
      BY <2>1, <3>1 DEF TakesFirst
    <3>3. QED
      BY <3>1, <3>2
  <2>2. QED
    BY <2>1 DEF TakesFirst
<1>10. c # <<>> /\ Head(c).op = "cells" /\ Tail(c) # <<>> /\ ~Has(Tail(Tail(c)), {"take"})
         => TakesFirst(c)
  <2>1. ASSUME c # <<>>, Head(c).op = "cells", Tail(c) # <<>>, ~Has(Tail(Tail(c)), {"take"}),
               NEW i \in DOMAIN c, c[i].op = "take"
        PROVE  i = 2
    <3>1. i # 1 /\ i \in Nat
      BY <1>1, <1>2, <2>1
    <3>2. i - 1 \in DOMAIN Tail(c) /\ Tail(c)[i - 1].op = "take"
      BY <1>3, <2>1, <3>1
    <3>3. ASSUME i - 1 # 1 PROVE FALSE
      <4>1. \A k \in DOMAIN Tail(Tail(c)) : Tail(Tail(c))[k].op # "take"
        BY <2>1 DEF Has
      <4>2. /\ Len(Tail(Tail(c))) = Len(Tail(c)) - 1
            /\ \A k \in 1..Len(Tail(Tail(c))) : Tail(Tail(c))[k] = Tail(c)[k + 1]
        BY <1>1, <2>1, HeadTailProperties
      <4>3. i - 2 \in DOMAIN Tail(Tail(c)) /\ Tail(Tail(c))[i - 2] = Tail(c)[i - 1]
        BY <1>1, <1>2, <2>1, <3>1, <3>2, <3>3, <4>2
      <4>4. QED
        BY <3>2, <4>1, <4>3
    <3>4. QED
      BY <3>1, <3>3
  <2>2. QED
    BY <1>1, <2>1 DEF TakesFirst
<1>11. QED
  BY <1>5, <1>6, <1>7, <1>8, <1>9, <1>10

(* One list of steps after another.                                        *)
LEMMA ConcatCode ==
  ASSUME NEW d \in Seq(Step), NEW e \in Seq(Step)
  PROVE  /\ d \o e \in Seq(Step)
         /\ \A ops : Has(d \o e, ops) <=> Has(d, ops) \/ Has(e, ops)
         /\ Drains(e) /\ Has(e, Evaluates) /\ Has(e, Takes) => Drains(d \o e)
         /\ Drains(d) /\ Drains(e) => Drains(d \o e)
<1>1. PICK c \in Seq(Step) : c = d \o e
  BY ConcatProperties
<1>2. /\ Len(c) = Len(d) + Len(e)
      /\ \A j \in 1..Len(d) + Len(e) : c[j] = IF j <= Len(d) THEN d[j] ELSE e[j - Len(d)]
  BY <1>1, ConcatProperties
<1>3. /\ Len(d) \in Nat /\ Len(e) \in Nat
      /\ DOMAIN d = 1..Len(d) /\ DOMAIN e = 1..Len(e) /\ DOMAIN c = 1..Len(d) + Len(e)
  BY <1>2
<1>4. \A j \in DOMAIN d : j \in DOMAIN c /\ c[j] = d[j]
  BY <1>2, <1>3
<1>5. ASSUME NEW j \in DOMAIN e
      PROVE  j + Len(d) \in DOMAIN c /\ c[j + Len(d)] = e[j]
  BY <1>2, <1>3
<1>6. ASSUME NEW j \in DOMAIN c
      PROVE  j \in DOMAIN d \/ \E k \in DOMAIN e : j = k + Len(d)
  <2>1. CASE j <= Len(d)
    BY <1>3, <2>1
  <2>2. CASE ~(j <= Len(d))
    <3>1. j - Len(d) \in DOMAIN e /\ j = (j - Len(d)) + Len(d)
      BY <1>3, <2>2
    <3>2. QED
      BY <3>1
  <2>3. QED
    BY <2>1, <2>2
<1>7. ASSUME NEW ops
      PROVE  Has(c, ops) <=> Has(d, ops) \/ Has(e, ops)
  BY <1>4, <1>5, <1>6 DEF Has
<1>8. ASSUME NEW ops, Has(e, ops), NEW i \in DOMAIN d
      PROVE  HasAfter(c, i, ops)
  <2>1. PICK j \in DOMAIN e : e[j].op \in ops
    BY <1>8 DEF Has
  <2>2. j + Len(d) > i
    BY <1>3
  <2>3. QED
    BY <1>5, <2>1, <2>2 DEF HasAfter
<1>9. ASSUME NEW ops, NEW i \in DOMAIN e, HasAfter(e, i, ops)
      PROVE  HasAfter(c, i + Len(d), ops)
  <2>1. PICK j \in DOMAIN e : j > i /\ e[j].op \in ops
    BY <1>9 DEF HasAfter
  <2>2. j + Len(d) > i + Len(d)
    BY <1>3, <2>1
  <2>3. QED
    BY <1>5, <2>1, <2>2 DEF HasAfter
<1>10. ASSUME Drains(e), Has(e, Evaluates), Has(e, Takes)
       PROVE  Drains(c)
  <2>1. ASSUME NEW i \in DOMAIN c
        PROVE  /\ c[i].op = "set" => HasAfter(c, i, Evaluates)
               /\ c[i].op \in {"set", "node", "publish", "cells"} => HasAfter(c, i, Takes)
    <3>1. CASE i \in DOMAIN d
      BY <1>8, <1>10, <3>1
    <3>2. CASE \E k \in DOMAIN e : i = k + Len(d)
      <4>1. PICK k \in DOMAIN e : i = k + Len(d)
        BY <3>2
      <4>2. c[i] = e[k]
        BY <1>5, <4>1
      <4>3. QED
        BY <1>9, <1>10, <4>1, <4>2 DEF Drains
    <3>3. QED
      BY <1>6, <3>1, <3>2
  <2>2. QED
    BY <2>1 DEF Drains
<1>11. ASSUME NEW ops, NEW i \in DOMAIN d, HasAfter(d, i, ops)
       PROVE  HasAfter(c, i, ops)
  BY <1>4, <1>11 DEF HasAfter
<1>12. ASSUME Drains(d), Drains(e)
       PROVE  Drains(c)
  <2>1. ASSUME NEW i \in DOMAIN c
        PROVE  /\ c[i].op = "set" => HasAfter(c, i, Evaluates)
               /\ c[i].op \in {"set", "node", "publish", "cells"} => HasAfter(c, i, Takes)
    <3>1. CASE i \in DOMAIN d
      BY <1>4, <1>11, <1>12, <3>1 DEF Drains
    <3>2. CASE \E k \in DOMAIN e : i = k + Len(d)
      <4>1. PICK k \in DOMAIN e : i = k + Len(d)
        BY <3>2
      <4>2. c[i] = e[k]
        BY <1>5, <4>1
      <4>3. QED
        BY <1>9, <1>12, <4>1, <4>2 DEF Drains
    <3>3. QED
      BY <1>6, <3>1, <3>2
  <2>2. QED
    BY <2>1 DEF Drains
<1>13. QED
  BY <1>1, <1>7, <1>10, <1>12

(* The endings of commands and actions.                                    *)
LEMMA Endings ==
  ASSUME NEW e \in {<<Op("react")>>, <<Op("cells"), Op("context")>>,
                    <<Op("mark"), Op("react"), Op("contextIfQuiet"), Op("react")>>}
  PROVE  /\ e \in Seq(Step) /\ Drains(e) /\ Has(e, Evaluates) /\ Has(e, Takes)
         /\ ~Has(e, {"take"})
<1>1. e \in Seq(Step)
  <2>1. /\ Op("react") \in Step /\ Op("cells") \in Step /\ Op("context") \in Step
        /\ Op("mark") \in Step /\ Op("contextIfQuiet") \in Step
    BY OpIsStep
  <2>2. /\ <<Op("react")>> \in Seq(Step) /\ <<Op("cells"), Op("context")>> \in Seq(Step)
        /\ <<Op("mark"), Op("react"), Op("contextIfQuiet"), Op("react")>> \in Seq(Step)
    BY <2>1
  <2>3. QED
    BY <2>2, Zenon
<1>2. CASE e = <<Op("react")>>
  <2>1. DOMAIN e = {1} /\ e[1].op = "react"
    BY <1>2 DEF Op
  <2>2. QED
    BY <1>1, <2>1 DEF Drains, Has, Evaluates, Takes
<1>3. CASE e = <<Op("cells"), Op("context")>>
  <2>1. DOMAIN e = {1, 2} /\ e[1].op = "cells" /\ e[2].op = "context"
    BY <1>3 DEF Op
  <2>2. HasAfter(e, 1, Takes)
    BY <2>1 DEF HasAfter, Takes
  <2>3. QED
    BY <1>1, <2>1, <2>2 DEF Drains, Has, Evaluates, Takes
<1>5. CASE e = <<Op("mark"), Op("react"), Op("contextIfQuiet"), Op("react")>>
  <2>1. /\ DOMAIN e = {1, 2, 3, 4} /\ e[1].op = "mark" /\ e[2].op = "react"
        /\ e[3].op = "contextIfQuiet" /\ e[4].op = "react"
    BY <1>5 DEF Op
  <2>2. QED
    BY <1>1, <2>1 DEF Drains, Has, Evaluates, Takes
<1>6. QED
  BY <1>2, <1>3, <1>5

(* The end of an alert.                                                    *)
LEMMA ContextEnding ==
  /\ <<Op("context")>> \in Seq(Step) /\ Drains(<<Op("context")>>)
  /\ Has(<<Op("context")>>, Takes) /\ ~Has(<<Op("context")>>, {"take"})
<1>1. PICK e : e = <<Op("context")>>
  OBVIOUS
<1>2. Op("context") \in Step
  BY OpIsStep
<1>3. e \in Seq(Step)
  BY <1>1, <1>2
<1>4. DOMAIN e = {1} /\ e[1].op = "context"
  BY <1>1 DEF Op
<1>5. Drains(e) /\ Has(e, Takes) /\ ~Has(e, {"take"})
  BY <1>4 DEF Drains, Has, Takes
<1>6. QED
  BY <1>1, <1>3, <1>5, Zenon

(* Every command ends with a reaction.                                     *)
LEMMA CmdCodeDrains ==
  ASSUME NEW cmd \in CommandType
  PROVE  /\ Drains(CmdCode(cmd)) /\ ~Has(CmdCode(cmd), {"take"})
         /\ cmd.verb # "compute" => Has(CmdCode(cmd), Evaluates) /\ Has(CmdCode(cmd), Takes)
         /\ cmd.verb = "compute" => CmdCode(cmd) = <<>>
<1>1. CASE cmd \in [verb : {"assert", "alert"}, sets : Seq(AssertStep)]
  <2>1. cmd.sets \in Seq(Step)
    BY <1>1, SeqMonotonic DEF Step
  <2>2. ~Has(cmd.sets, {"take"})
    BY <1>1 DEF Has, AssertStep
  <2>3. PICK e \in {<<Op("react")>>, <<Op("mark"), Op("react"), Op("contextIfQuiet"), Op("react")>>} :
          CmdCode(cmd) = cmd.sets \o e
    BY <1>1 DEF CmdCode
  <2>4. /\ e \in Seq(Step) /\ Drains(e) /\ Has(e, Evaluates) /\ Has(e, Takes)
        /\ ~Has(e, {"take"})
    BY Endings
  <2>5. cmd.verb # "compute"
    BY <1>1
  <2>6. PICK c : c = CmdCode(cmd) /\ c = cmd.sets \o e
    BY <2>3
  <2>7. Drains(c) /\ ~Has(c, {"take"}) /\ Has(c, Evaluates) /\ Has(c, Takes)
    BY <2>1, <2>2, <2>4, <2>6, ConcatCode
  <2>8. QED
    BY <2>5, <2>6, <2>7
<1>2. CASE \/ cmd \in [verb : {"undefine"}, rule : {r \in Rule : Type[r] # "if"}]
           \/ cmd \in [verb : {"disable", "enable"}, rule : Rule]
  <2>1. PICK s \in Step : /\ CmdCode(cmd) = <<s, Op("react")>>
                          /\ s.op \in {"undefine", "disable", "enable"}
    BY <1>2 DEF CmdCode, OnRule, Step, IfRule
  <2>2. PICK d \in Seq(Step) : d = <<s>>
    <3>1. <<s>> \in Seq(Step)
      OBVIOUS
    <3>2. QED
      BY <3>1, Zenon
  <2>3. PICK e \in {<<Op("react")>>} : CmdCode(cmd) = d \o e
    BY <2>1, <2>2
  <2>4. /\ e \in Seq(Step) /\ Drains(e) /\ Has(e, Evaluates) /\ Has(e, Takes)
        /\ ~Has(e, {"take"})
    BY Endings
  <2>5. ~Has(d, {"take"})
    BY <2>1, <2>2 DEF Has
  <2>6. cmd.verb # "compute"
    BY <1>2
  <2>7. PICK c : c = CmdCode(cmd) /\ c = d \o e
    BY <2>3
  <2>8. d \in Seq(Step)
    BY <2>2
  <2>9. e \in Seq(Step) /\ Drains(e) /\ Has(e, Evaluates) /\ Has(e, Takes)
    BY <2>4
  <2>10. /\ \A ops : Has(d \o e, ops) <=> Has(d, ops) \/ Has(e, ops)
         /\ Drains(d \o e)
    BY <2>8, <2>9, ConcatCode, Zenon
  <2>11. Drains(c)
    BY <2>7, <2>10, Zenon
  <2>12. \A ops : Has(c, ops) <=> Has(d, ops) \/ Has(e, ops)
    BY <2>7, <2>10, Zenon
  <2>13. Drains(c) /\ ~Has(c, {"take"}) /\ Has(c, Evaluates) /\ Has(c, Takes)
    BY <2>4, <2>5, <2>11, <2>12, Zenon
  <2>14. QED
    BY <2>6, <2>7, <2>13
<1>3. CASE cmd \in [verb : {"compute"}]
  <2>1. CmdCode(cmd) = <<>>
    BY <1>3 DEF CmdCode
  <2>2. QED
    BY <1>3, <2>1, EmptyDrains
<1>4. QED
  BY <1>1, <1>2, <1>3 DEF CommandType

(* The assertion of an instruction, if there is one.                       *)
LEMMA ReactedDrains ==
  ASSUME NEW sets \in Seq(AssertStep)
  PROVE  /\ Reacted(sets) \in Seq(Step) /\ ~Has(Reacted(sets), {"take"})
         /\ Drains(Reacted(sets))
         /\ sets # <<>> => Has(Reacted(sets), Evaluates) /\ Has(Reacted(sets), Takes)
<1>1. sets \in Seq(Step) /\ ~Has(sets, {"take"})
  BY SeqMonotonic DEF Step, Has, AssertStep
<1>2. PICK c : c = Reacted(sets)
  OBVIOUS
<1>3. CASE sets = <<>>
  <2>1. c = <<>>
    BY <1>2, <1>3 DEF Reacted
  <2>2. c \in Seq(Step)
    BY <2>1
  <2>3. Drains(c) /\ ~Has(c, {"take"})
    BY <2>1, EmptyDrains
  <2>4. QED
    BY <1>2, <1>3, <2>2, <2>3
<1>4. CASE sets # <<>>
  <2>1. PICK e \in {<<Op("react")>>} : c = sets \o e
    BY <1>2, <1>4 DEF Reacted
  <2>2. /\ e \in Seq(Step) /\ Drains(e) /\ Has(e, Evaluates) /\ Has(e, Takes)
        /\ ~Has(e, {"take"})
    BY Endings
  <2>3. QED
    BY <1>1, <1>2, <2>1, <2>2, ConcatCode
<1>5. QED
  BY <1>3, <1>4

(* What an action does after its assertion.                                *)
Done(a) ==
  LET ins == Instruction[a]
  IN  CASE ins.operation = "null" -> IF Assertion[a] # <<>> THEN <<Op("react")>> ELSE <<>>
        [] ins.operation = "perform" -> CmdCode(ins.command)
        [] ins.operation = "system" -> <<>>
        [] ins.operation = "assert" -> Reacted(ins.sets)
        [] ins.operation = "alert" -> Reacted(ins.sets) \o <<Op("context")>>

(* It reacts if the instruction does; if not, it is at most an alert.      *)
LEMMA DoneDrains ==
  ASSUME NEW a \in Action
  PROVE  /\ Done(a) \in Seq(Step) /\ ~Has(Done(a), {"take"}) /\ Drains(Done(a))
         /\ Assertion[a] # <<>> /\ Reacting(Instruction[a]) =>
              Has(Done(a), Evaluates) /\ Has(Done(a), Takes)
         /\ ~Reacting(Instruction[a]) => Done(a) \in {<<>>, <<Op("context")>>}
<1> DEFINE ins == Instruction[a]
<1>1. ins \in InstructionType
  BY CommandAssumption
<1>2. <<>> \in Seq(Step)
  OBVIOUS
<1>3. CASE ins \in [operation : {"null", "system"}] /\ ins.operation = "null"
  <2>1. Done(a) = IF Assertion[a] # <<>> THEN <<Op("react")>> ELSE <<>>
    BY <1>3 DEF Done
  <2>2. Reacting(ins)
    BY <1>3 DEF Reacting
  <2>3. QED
    BY <1>2, <2>1, <2>2, EmptyDrains, Endings
<1>4. CASE ins \in [operation : {"null", "system"}] /\ ins.operation = "system"
  <2>1. Done(a) = <<>>
    BY <1>4 DEF Done
  <2>2. ~Reacting(ins)
    BY <1>4 DEF Reacting
  <2>3. QED
    BY <1>2, <2>1, <2>2, EmptyDrains
<1>5. CASE ins \in [operation : {"perform"}, command : CommandType]
  <2>1. Done(a) = CmdCode(ins.command) /\ ins.command \in CommandType
    BY <1>5 DEF Done
  <2>2. Reacting(ins) <=> ins.command.verb # "compute"
    BY <1>5 DEF Reacting
  <2>3. QED
    BY <2>1, <2>2, CmdCodeType, CmdCodeDrains
<1>6. CASE ins \in [operation : {"assert", "alert"}, sets : Seq(AssertStep)] /\ ins.operation = "assert"
  <2>1. Done(a) = Reacted(ins.sets) /\ ins.sets \in Seq(AssertStep)
    BY <1>6 DEF Done
  <2>2. Reacting(ins) <=> ins.sets # <<>>
    BY <1>6 DEF Reacting
  <2>3. ins.sets = <<>> => Done(a) = <<>>
    BY <2>1 DEF Reacted
  <2>4. QED
    BY <2>1, <2>2, <2>3, ReactedDrains
<1>7. CASE ins \in [operation : {"assert", "alert"}, sets : Seq(AssertStep)] /\ ins.operation = "alert"
  <2>1. PICK d, e : d = Reacted(ins.sets) /\ e = <<Op("context")>>
    OBVIOUS
  <2>2. Done(a) = d \o e /\ ins.sets \in Seq(AssertStep)
    BY <1>7, <2>1 DEF Done
  <2>3. Reacting(ins) <=> ins.sets # <<>>
    BY <1>7 DEF Reacting
  <2>4. /\ d \in Seq(Step) /\ ~Has(d, {"take"}) /\ Drains(d)
        /\ ins.sets # <<>> => Has(d, Evaluates) /\ Has(d, Takes)
    BY <2>1, <2>2, ReactedDrains
  <2>5. e \in Seq(Step) /\ Drains(e) /\ ~Has(e, {"take"})
    BY <2>1, ContextEnding, Zenon
  <2>6. ins.sets = <<>> => Done(a) = e
    <3>1. ins.sets = <<>> => d = <<>>
      BY <2>1 DEF Reacted
    <3>2. QED
      BY <2>2, <2>5, <3>1
  <2>7. /\ Done(a) \in Seq(Step) /\ ~Has(Done(a), {"take"}) /\ Drains(Done(a))
        /\ ins.sets # <<>> => Has(Done(a), Evaluates) /\ Has(Done(a), Takes)
    BY <2>2, <2>4, <2>5, ConcatCode
  <2>8. QED
    BY <2>1, <2>3, <2>6, <2>7
<1>8. QED
  BY <1>1, <1>3, <1>4, <1>5, <1>6, <1>7 DEF InstructionType

(* Steps that react at the end at most have nothing left to do then.       *)
LEMMA LateConcat ==
  ASSUME NEW d \in Seq(AssertStep), NEW e \in {<<>>, <<Op("context")>>}
  PROVE  LateDrains(d \o e)
<1>1. d \in Seq(Step)
  BY SeqMonotonic DEF Step
<1>2. e \in Seq(Step) /\ Len(e) \in Nat /\ Len(e) <= 1
  <2>1. PICK s \in Step : s = Op("context")
    BY OpIsStep
  <2>2. <<s>> \in Seq(Step) /\ Len(<<s>>) = 1 /\ <<>> \in Seq(Step) /\ Len(<<>>) = 0
    OBVIOUS
  <2>3. e = <<>> \/ e = <<s>>
    BY <2>1
  <2>4. CASE e = <<>>
    BY <2>2, <2>4
  <2>5. CASE e = <<s>>
    BY <2>2, <2>5
  <2>6. QED
    BY <2>3, <2>4, <2>5
<1>3. PICK c : c = d \o e
  OBVIOUS
<1>4. /\ Len(c) = Len(d) + Len(e) /\ DOMAIN c = 1..Len(d) + Len(e) /\ Len(d) \in Nat
      /\ \A i \in 1..Len(d) : c[i] = d[i]
  BY <1>1, <1>2, <1>3, ConcatProperties
<1>5. ASSUME NEW k \in DOMAIN c, NEW i \in DOMAIN c, c[k].op \in Turns, i > k
      PROVE  FALSE
  <2>1. k \in 1..Len(d)
    BY <1>2, <1>4, <1>5
  <2>2. d[k] \in AssertStep /\ c[k] = d[k]
    BY <1>4, <2>1
  <2>3. QED
    BY <1>5, <2>2 DEF AssertStep, Turns
<1>6. LateDrains(c)
  BY <1>5 DEF LateDrains
<1>7. QED
  BY <1>3, <1>6

(* What an action performs drains unless its assertion is without a        *)
(* reaction.                                                               *)
LEMMA PerformedDrains ==
  ASSUME NEW a \in Action
  PROVE  /\ ~Has(Performed(a), {"take"}) /\ LateDrains(Performed(a))
         /\ a \notin Unreacted => Drains(Performed(a))
<1> DEFINE sets == Assertion[a]
           asserted == IF a \in Alerting /\ sets # <<>>
                       THEN sets \o <<Op("cells"), Op("context")>> ELSE sets
<1>1. sets \in Seq(AssertStep) /\ sets \in Seq(Step) /\ ~Has(sets, {"take"})
  <2>1. sets \in Seq(AssertStep)
    BY CommandAssumption
  <2>2. QED
    BY <2>1, SeqMonotonic DEF Step, Has, AssertStep
<1>2. asserted \in Seq(Step) /\ ~Has(asserted, {"take"})
  BY <1>1, Endings, ConcatCode
<1>3. asserted = <<>> \/ a \notin Alerting \/ Drains(asserted)
  BY <1>1, Endings, ConcatCode
<1>4. Performed(a) = asserted \o Done(a)
  BY DEF Performed, Done
<1>5. a \notin Alerting => asserted = sets
  OBVIOUS
<1>6. sets = <<>> => asserted = <<>>
  OBVIOUS
<1> HIDE DEF asserted
<1>7. /\ Done(a) \in Seq(Step) /\ ~Has(Done(a), {"take"}) /\ Drains(Done(a))
      /\ sets # <<>> /\ Reacting(Instruction[a]) => Has(Done(a), Evaluates) /\ Has(Done(a), Takes)
      /\ ~Reacting(Instruction[a]) => Done(a) \in {<<>>, <<Op("context")>>}
  BY DoneDrains
<1>8. Performed(a) \in Seq(Step) /\ ~Has(Performed(a), {"take"})
  BY <1>2, <1>4, <1>7, ConcatCode
<1>9. a \notin Unreacted => Drains(Performed(a))
  <2>1. CASE sets # <<>> /\ Reacting(Instruction[a])
    BY <1>2, <1>4, <1>7, <2>1, ConcatCode
  <2>2. CASE a \in Alerting \/ sets = <<>>
    <3>1. Drains(asserted)
      BY <1>3, <1>6, <2>2, EmptyDrains
    <3>2. QED
      BY <1>2, <1>4, <1>7, <3>1, ConcatCode
  <2>3. QED
    BY <2>1, <2>2 DEF Unreacted
<1>10. LateDrains(Performed(a))
  <2>1. CASE a \notin Unreacted
    <3>1. CASE Performed(a) = <<>>
      BY <3>1, EmptyDrains
    <3>2. CASE Performed(a) # <<>>
      BY <1>8, <1>9, <2>1, <3>2, TailLate
    <3>3. QED
      BY <3>1, <3>2
  <2>2. CASE a \in Unreacted
    <3>1. Performed(a) = sets \o Done(a) /\ Done(a) \in {<<>>, <<Op("context")>>}
      BY <1>4, <1>5, <1>7, <2>2 DEF Unreacted
    <3>2. QED
      BY <1>1, <3>1, LateConcat
  <2>3. QED
    BY <2>1, <2>2
<1>11. QED
  BY <1>8, <1>9, <1>10

----------------------------------------------------------------------------
(* Only an assignment makes conditions change: every other step evaluates, *)
(* stops or removes rules, or leaves them alone.                           *)
LEMMA ChangedShrinks ==
  ASSUME TypeOK, [Next]_vars, ~Assign
  PROVE  Changed(Rule)' \subseteq Changed(Rule)
<1> USE DEF lists
<1>0. /\ Changed(Rule) = {r \in defined : value[r] # Disabled /\ Condition(r, store) # value[r]}
      /\ Changed(Rule)' = {r \in defined' : value'[r] # Disabled /\ Condition(r, store') # value'[r]}
      /\ defined \subseteq Rule
  <2>1. defined \subseteq Rule /\ defined' \subseteq Rule
    BY TypeStep DEF TypeOK
  <2>2. QED
    BY <2>1 DEF Changed, Subscribed
<1>1. CASE \/ \E cmd \in Command : Input(cmd)
           \/ NodeAssert \/ RuleReact \/ TakeActions \/ Fire \/ PassOver \/ ReactEnd
           \/ CommandEnd \/ Mark \/ ContextIfQuiet \/ ContextAlert \/ IfRules \/ UNCHANGED vars
  <2>1. UNCHANGED <<store, value, defined>>
    BY <1>1 DEF Input, NodeAssert, RuleReact, TakeActions, Fire, PassOver, ReactEnd,
                CommandEnd, Mark, ContextIfQuiet, ContextAlert, IfRules, vars
  <2>2. QED
    BY <1>0, <2>1
<1>2. CASE \E r \in Rule : Define(r)
  BY <1>0, <1>2 DEF Define, TypeOK
<1>3. CASE Publish \/ CellReact
  <2>1. PICK R \in SUBSET Rule : AlertRules(R)
    BY <1>3, RuleAssumption DEF Publish, CellReact
  <2>2. UNCHANGED <<store, defined>>
    BY <1>3 DEF Publish, CellReact
  <2>3. CASE Changed(R) = {}
    BY <1>0, <2>1, <2>2, <2>3, NoAlertStep
  <2>4. CASE Changed(R) # {}
    <3>1. PICK r \in Rule : value' = [value EXCEPT ![r] = Condition(r, store)]
      BY <2>1, <2>4, AlertStep
    <3>2. QED
      BY <1>0, <2>2, <3>1 DEF TypeOK
  <2>5. QED
    BY <2>3, <2>4
<1>4. CASE ActEnd
  <2> DEFINE gone == UndefinedByFiring(Top.act)
  <2>1. /\ value' = [r \in Rule |-> IF r \in gone THEN Disabled ELSE value[r]]
        /\ defined' = defined \ gone /\ store' = store
    BY <1>4 DEF ActEnd
  <2> HIDE DEF gone
  <2>2. QED
    BY <1>0, <2>1
<1>5. CASE Undefine \/ Disable \/ Enable
  <2>1. PICK r \in Rule : r = Now.rule
    BY <1>5, AtType, StepFields DEF Undefine, Disable, Enable
  <2>2. /\ store' = store /\ defined' \subseteq defined
        /\ \/ value' = value
           \/ value' = [value EXCEPT ![r] = Disabled]
           \/ value' = [value EXCEPT ![r] = Condition(r, store)]
    BY <1>5, <2>1 DEF Undefine, Disable, Enable
  <2>3. QED
    BY <1>0, <2>1, <2>2 DEF TypeOK
<1>6. QED
  BY <1>1, <1>2, <1>3, <1>4, <1>5 DEF Next, Cycle

(* Lax is what is left of Owed.                                            *)
LEMMA OwedIsLax ==
  ASSUME TypeOK, Owed
  PROVE  Lax
<1>1. ASSUME Running
      PROVE  /\ TakesFirst(Top.code) /\ LateDrains(Top.code)
             /\ At("take") => Changed(Rule) = {}
  <2>1. Top.code \in Seq(Step) /\ Len(stack) \in 1..Len(stack)
    BY <1>1, TopType DEF FrameType
  <2>2. Drains(Top.code) /\ TakesFirst(Top.code)
    BY <1>1, <2>1 DEF Owed, Top
  <2>3. LateDrains(Top.code)
    BY <2>1, <2>2, TailLate, EmptyDrains
  <2>4. QED
    BY <1>1, <2>2, <2>3 DEF Owed
<1>2. \A f \in 1..Len(stack) - 1 : f \in 1..Len(stack)
  BY DEF TypeOK
<1>3. QED
  BY <1>1, <1>2 DEF Owed, Lax

(* What the innermost function does next when an assertion is unreacted.   *)
LEMMA LaxNow ==
  ASSUME TypeOK, Lax, Running, Top.code # <<>>
  PROVE  /\ Top.code \in Seq(Step) /\ Tail(Top.code) \in Seq(Step) /\ Now \in Step
         /\ LateDrains(Tail(Top.code))
         /\ Now.op \in Turns => Drains(Tail(Top.code))
         /\ Now.op \notin {"take", "cells"} => ~Has(Tail(Top.code), {"take"})
         /\ Now.op = "take" => ~Has(Tail(Top.code), {"take"}) /\ Changed(Rule) = {}
         /\ Now.op = "cells" => TakesFirst(Tail(Top.code))
<1>1. /\ Top \in FrameType /\ Now \in Step /\ Tail(Top.code) \in Seq(Step)
  BY TopType
<1>2. Top.code \in Seq(Step)
  BY <1>1 DEF FrameType
<1>3. LateDrains(Top.code) /\ TakesFirst(Top.code)
  BY DEF Lax
<1>4. Now.op = "take" => Changed(Rule) = {}
  BY DEF Lax, At
<1>5. QED
  BY <1>1, <1>2, <1>3, <1>4, TailHas, TailLate, TakesFirstForms DEF Now

(* What the innermost function owes, by its next step.                     *)
LEMMA OwedNow ==
  ASSUME TypeOK, Owed, Running, Top.code # <<>>
  PROVE  /\ Top.code \in Seq(Step) /\ Tail(Top.code) \in Seq(Step) /\ Now \in Step
         /\ Drains(Top.code) /\ Drains(Tail(Top.code))
         /\ Now.op = "set" => Has(Tail(Top.code), Evaluates)
         /\ Now.op \in {"set", "node", "publish", "cells"} => Has(Tail(Top.code), Takes)
         /\ Now.op \notin {"take", "cells"} =>
              ~Has(Top.code, {"take"}) /\ ~Has(Tail(Top.code), {"take"})
         /\ Now.op = "take" => ~Has(Tail(Top.code), {"take"}) /\ Changed(Rule) = {}
         /\ Now.op = "cells" => TakesFirst(Tail(Top.code))
         /\ Changed(Rule) # {} /\ Now.op \notin Evaluates => Has(Tail(Top.code), Evaluates)
         /\ actList # <<>> /\ Now.op \notin Takes => Has(Tail(Top.code), Takes)
<1>1. /\ Top \in FrameType /\ Now \in Step /\ Tail(Top.code) \in Seq(Step)
      /\ Len(stack) \in Nat \ {0}
  BY TopType
<1>2. Top.code \in Seq(Step)
  BY <1>1 DEF FrameType
<1>3. Drains(Top.code) /\ TakesFirst(Top.code)
  BY <1>1 DEF Owed, Top
<1>4. Now.op = "take" => Changed(Rule) = {}
  BY DEF Owed, At
<1>5. QED
  BY <1>1, <1>2, <1>3, <1>4, TailHas, TailDrains, TakesFirstForms DEF Owed, Now

(* The innermost function owes no reaction once it has nothing to do.      *)
LEMMA OwedNothing ==
  ASSUME Owed, Running, Top.code = <<>>
  PROVE  Changed(Rule) = {} /\ actList = <<>>
BY EmptyDrains DEF Owed

(* The other functions go on as they would; the innermost one goes on with *)
(* the steps c.                                                            *)
CodeReplaced(c) ==
  /\ stack' \in Seq(FrameType)
  /\ Len(stack') = Len(stack)
  /\ stack'[Len(stack)].code = c
  /\ \A i \in 1..Len(stack) - 1 : stack'[i].code = stack[i].code

(* It is enough to look at c then.                                         *)
LEMMA OwedGoesOn ==
  ASSUME TypeOK, Owed, Running, NEW c \in Seq(Step), CodeReplaced(c),
         Drains(c), TakesFirst(c), c # <<>> /\ Changed(Rule)' # {} => Head(c).op # "take",
         Changed(Rule)' # {} => Has(c, Evaluates),
         actList' # <<>> => Has(c, Takes)
  PROVE  Owed'
<1>1. PICK n : n = Len(stack)
  OBVIOUS
<1>2. n \in Nat \ {0} /\ n \in 1..n /\ \A f \in 1..n : f = n \/ f \in 1..n - 1
  BY <1>1, TopType
<1>3. /\ Len(stack') = n /\ stack'[n].code = c
      /\ \A f \in 1..n - 1 : stack'[f].code = stack[f].code /\ f \in 1..n
  BY <1>1, <1>2 DEF CodeReplaced
<1>4. Top'.code = c /\ Running'
  BY <1>2, <1>3 DEF Top, Running, CodeReplaced
<1>5. \A f \in 1..n : Drains(stack'[f].code)
  BY <1>1, <1>2, <1>3 DEF Owed
<1>6. \A f \in 1..n - 1 : ~Has(stack'[f].code, {"take"})
  BY <1>1, <1>3 DEF Owed
<1>7. At("take")' <=> c # <<>> /\ Head(c).op = "take"
  BY <1>4 DEF At, Now
<1>8. QED
  BY <1>3, <1>4, <1>5, <1>6, <1>7 DEF Owed

(* A list with no "take" does not begin with one.                          *)
LEMMA NoTakeNow ==
  ASSUME NEW c \in Seq(Step), ~Has(c, {"take"})
  PROVE  TakesFirst(c) /\ (c # <<>> => Head(c).op # "take")
BY TailHas, TakesFirstForms

(* GoOn, and a frame that is replaced as a whole.                          *)
LEMMA GoOnCode ==
  ASSUME TypeOK, Running, NEW c \in Seq(Step), GoOn(c)
  PROVE  CodeReplaced(c)
<1>1. TopReplaced([Top EXCEPT !.code = c])
  BY GoOnTop
<1>2. Top \in FrameType
  BY TopType
<1>3. QED
  BY <1>1, <1>2 DEF TopReplaced, CodeReplaced, FrameType

(* A step that leaves the stack alone.                                     *)
LEMMA SameCode ==
  ASSUME TypeOK, UNCHANGED stack
  PROVE  CodeReplaced(Top.code)
BY DEF CodeReplaced, Top, TypeOK

(* contextAlert begins its walk.                                           *)
LEMMA ContextStep ==
  ASSUME TypeOK, ContextAlert
  PROVE  \E s \in Step : s.op = "ifrules" /\ CodeReplaced(<<s>> \o Tail(Top.code))
<1> DEFINE seen == [i \in 1..Len(stack) |-> [stack[i] EXCEPT !.quiet = FALSE]]
           walk == [op |-> "ifrules", rules |-> ifrule]
           code == <<walk>> \o Tail(seen[Len(stack)].code)
<1>1. Running /\ Top.code \in Seq(Step) /\ Tail(Top.code) \in Seq(Step)
  BY AtType DEF ContextAlert
<1>2. /\ Len(stack) \in Nat \ {0} /\ DOMAIN stack = 1..Len(stack)
      /\ \A i \in 1..Len(stack) : stack[i] \in FrameType
  BY <1>1, TopType DEF TypeOK
<1>3. walk \in Step /\ walk.op = "ifrules"
  BY DEF Step, TypeOK
<1>4. seen[Len(stack)].code = Top.code
  BY <1>2 DEF Top, FrameType
<1>5. code \in Seq(Step) /\ code = <<walk>> \o Tail(Top.code)
  BY <1>1, <1>3, <1>4, ConsType
<1>6. stack' = [seen EXCEPT ![Len(stack)].code = code]
  BY DEF ContextAlert
<1> HIDE DEF code, walk
<1>7. \A i \in 1..Len(stack) - 1 : stack'[i].code = stack[i].code
  BY <1>2, <1>6 DEF FrameType
<1>8. stack'[Len(stack)].code = code
  BY <1>2, <1>6 DEF FrameType
<1>9. stack' \in Seq(FrameType) /\ Len(stack') = Len(stack)
  BY CodeOnly DEF SameFrames
<1>10. QED
  BY <1>3, <1>5, <1>7, <1>8, <1>9 DEF CodeReplaced

(* An assignment and its publication; the other steps that only go on to   *)
(* the next one.                                                           *)
LEMMA OwedAssign ==
  ASSUME TypeOK, Owed, Assign
  PROVE  Owed'
<1>1. Running /\ Top.code # <<>> /\ Now.op = "set"
  BY DEF Assign, At
<1>2. /\ Tail(Top.code) \in Seq(Step) /\ Drains(Tail(Top.code))
      /\ Has(Tail(Top.code), Evaluates) /\ Has(Tail(Top.code), Takes)
      /\ ~Has(Tail(Top.code), {"take"})
  BY <1>1, OwedNow
<1>3. PICK s \in Step : s = Op("publish")
  BY OpIsStep
<1>4. PICK c \in Seq(Step) : c = <<s>> \o Tail(Top.code)
  BY <1>2, ConsCode
<1>5. c # <<>> /\ Head(c) = s /\ Tail(c) = Tail(Top.code) /\ s.op = "publish"
  BY <1>2, <1>3, <1>4, ConsCode DEF Op
<1>6. CodeReplaced(c)
  BY <1>1, <1>3, <1>4, GoOnCode DEF Assign
<1>7. Drains(c) /\ Has(c, Evaluates) /\ Has(c, Takes) /\ ~Has(c, {"take"})
  BY <1>2, <1>5, TailDrains, TailHas
<1>8. QED
  BY <1>1, <1>5, <1>6, <1>7, NoTakeNow, OwedGoesOn

(* The steps of a cycle that only go on keep the claim on what is still    *)
(* owed.                                                                   *)
LEMMA OwedGoOn ==
  ASSUME TypeOK, Owed, NodeAssert \/ Mark \/ Undefine \/ Disable \/ Enable
  PROVE  Owed'
<1> USE DEF lists
<1>1. /\ Running /\ Top.code # <<>>
      /\ Now.op \in {"node", "mark", "undefine", "disable", "enable"}
      /\ Now.op = "node" \/ actList' = actList
  BY DEF NodeAssert, Mark, Undefine, Disable, Enable, At
<1>2. Changed(Rule)' \subseteq Changed(Rule)
  <2>1. ~Assign
    BY <1>1 DEF Assign, At
  <2>2. QED
    BY <2>1, ChangedShrinks DEF Next, Cycle
<1>3. PICK c \in Seq(Step) : c = Tail(Top.code)
  BY <1>1, OwedNow
<1>4. /\ Drains(c) /\ ~Has(c, {"take"})
      /\ Changed(Rule) # {} => Has(c, Evaluates)
      /\ actList # <<>> \/ Now.op = "node" => Has(c, Takes)
  BY <1>1, <1>3, OwedNow DEF Evaluates, Takes
<1>5. CodeReplaced(c)
  <2>1. CASE Mark
    <3>1. [Top EXCEPT !.code = Tail(@), !.quiet = TRUE] \in FrameType
      BY <1>1, <1>3, TopType DEF FrameType
    <3>2. TopReplaced([Top EXCEPT !.code = Tail(@), !.quiet = TRUE])
      BY <1>1, <2>1, <3>1, ReplaceTop DEF Mark
    <3>3. QED
      BY <1>1, <1>3, <3>2, TopType DEF TopReplaced, CodeReplaced, FrameType
  <2>2. CASE NodeAssert \/ Undefine \/ Disable \/ Enable
    BY <1>1, <1>3, <2>2, GoOnCode DEF NodeAssert, Undefine, Disable, Enable
  <2>3. QED
    BY <2>1, <2>2
<1>6. QED
  BY <1>1, <1>2, <1>4, <1>5, NoTakeNow, OwedGoesOn

(* Alerts: what they schedule is taken later, and when nbCellReact is done *)
(* no condition differs from its rule's value.                             *)
LEMMA OwedAlert ==
  ASSUME TypeOK, Owed, Publish \/ CellReact
  PROVE  Owed'
<1>1. /\ Running /\ Top.code # <<>> /\ Now.op \in {"publish", "cells"}
      /\ CellReact <=> Now.op = "cells"
  BY DEF Publish, CellReact, At
<1>2. Changed(Rule)' \subseteq Changed(Rule)
  <2>1. ~Assign
    BY <1>1 DEF Assign, At
  <2>2. QED
    BY <2>1, ChangedShrinks DEF Next, Cycle
<1>3. /\ Top.code \in Seq(Step) /\ Tail(Top.code) \in Seq(Step)
      /\ Drains(Top.code) /\ Drains(Tail(Top.code)) /\ Has(Tail(Top.code), Takes)
      /\ TakesFirst(Tail(Top.code))
      /\ Now.op = "publish" => ~Has(Tail(Top.code), {"take"})
      /\ Changed(Rule) # {} /\ Now.op = "publish" => Has(Tail(Top.code), Evaluates)
  BY <1>1, OwedNow, NoTakeNow DEF Evaluates
<1>4. CASE UNCHANGED stack
  <2>1. PICK c \in Seq(Step) : c = Top.code
    BY <1>3
  <2>2. CodeReplaced(c)
    BY <1>4, <2>1, SameCode
  <2>3. TakesFirst(c)
    BY <1>1, <2>1 DEF Owed
  <2>4. Head(c).op # "take"
    BY <1>1, <2>1 DEF Now
  <2>5. Changed(Rule) # {} => Has(c, Evaluates)
    BY <1>1, <2>1 DEF Owed
  <2>6. Has(c, Takes)
    BY <1>1, <1>3, <2>1, TailHas
  <2>7. QED
    BY <1>1, <1>2, <1>3, <2>1, <2>2, <2>3, <2>4, <2>5, <2>6, OwedGoesOn
<1>5. CASE GoOn(Tail(Top.code)) /\ (Now.op = "cells" => Changed(Rule) = {})
  <2>1. PICK c \in Seq(Step) : c = Tail(Top.code)
    BY <1>3
  <2>2. CodeReplaced(c)
    BY <1>1, <1>5, <2>1, GoOnCode
  <2>3. Changed(Rule)' # {} => Has(c, Evaluates) /\ (c # <<>> => Head(c).op # "take")
    BY <1>1, <1>2, <1>3, <1>5, <2>1, NoTakeNow
  <2>4. QED
    BY <1>1, <1>3, <2>1, <2>2, <2>3, OwedGoesOn
<1>6. \/ UNCHANGED stack
      \/ GoOn(Tail(Top.code)) /\ (Now.op = "cells" => Changed(Rule) = {})
  BY <1>1 DEF Publish, CellReact, AlertRules
<1>7. QED
  BY <1>4, <1>5, <1>6

(* nbRuleReact: the conditions, then the list.                             *)
LEMMA OwedReact ==
  ASSUME TypeOK, Owed, RuleReact
  PROVE  Owed'
<1> USE DEF lists
<1>1. Running /\ Top.code # <<>> /\ Now.op = "react"
  BY DEF RuleReact, At
<1>2. /\ Tail(Top.code) \in Seq(Step) /\ Drains(Tail(Top.code))
      /\ ~Has(Tail(Top.code), {"take"})
  BY <1>1, OwedNow
<1>3. PICK s \in Step, u \in Step : s = Op("cells") /\ u = Op("take")
  BY OpIsStep
<1>4. PICK d \in Seq(Step) : d = <<u>> \o Tail(Top.code)
  BY <1>2, ConsCode
<1>5. PICK c \in Seq(Step) : c = <<s>> \o d
  BY ConsCode
<1>6. /\ d # <<>> /\ Head(d) = u /\ Tail(d) = Tail(Top.code)
      /\ c # <<>> /\ Head(c) = s /\ Tail(c) = d
      /\ s.op = "cells" /\ u.op = "take"
  BY <1>2, <1>3, <1>4, <1>5, ConsCode DEF Op
<1>7. <<Op("cells"), Op("take")>> \o Tail(Top.code) = c
  BY <1>2, <1>3, <1>4, <1>5
<1>8. CodeReplaced(c)
  BY <1>1, <1>7, GoOnCode DEF RuleReact
<1>9. Has(d, Takes) /\ Drains(d)
  BY <1>2, <1>6, TailHas, TailDrains DEF Takes
<1>10. Has(c, Takes) /\ Has(c, Evaluates) /\ Drains(c)
  BY <1>6, <1>9, TailHas, TailDrains DEF Evaluates
<1>11. TakesFirst(c) /\ Head(c).op # "take"
  BY <1>2, <1>6, TakesFirstForms
<1>12. QED
  BY <1>1, <1>8, <1>10, <1>11, OwedGoesOn

(* When the list is taken nothing is owed any more, whatever was before.   *)
LEMMA OwedTake ==
  ASSUME TypeOK, Lax, TakeActions
  PROVE  Owed'
<1> USE DEF lists
<1>1. Running /\ Top.code # <<>> /\ Now.op = "take"
  BY DEF TakeActions, At
<1>2. Changed(Rule)' = {}
  <2>1. ~Assign
    BY <1>1 DEF Assign, At
  <2>2. QED
    BY <1>1, <2>1, LaxNow, ChangedShrinks DEF Next, Cycle
<1>3. actList' = <<>>
  BY DEF TakeActions
<1>4. PICK c \in Seq(Step) : c = Tail(Top.code)
  BY <1>1, LaxNow
<1>5. Drains(c) /\ ~Has(c, {"take"})
  BY <1>1, <1>4, LaxNow DEF Turns
<1>6. PICK n : n = Len(stack)
  OBVIOUS
<1>7. n \in Nat \ {0} /\ \A f \in 1..n : f = n \/ f \in 1..n - 1
  BY <1>1, <1>6, TopType
<1>8. /\ \A f \in 1..n - 1 : stack'[f] = stack[f]
      /\ stack'[n].code = c
      /\ stack' \in Seq(FrameType)
  BY <1>4, <1>6, TakeStep
<1>9. CASE actList = <<>>
  <2>1. Len(stack') = n
    BY <1>6, <1>9, TakeStep
  <2>2. Running' /\ Top'.code = c
    BY <1>7, <1>8, <2>1 DEF Running, Top
  <2>3. \A f \in 1..n : Drains(stack'[f].code)
    BY <1>5, <1>6, <1>7, <1>8 DEF Lax
  <2>4. \A f \in 1..n - 1 : ~Has(stack'[f].code, {"take"})
    BY <1>6, <1>8 DEF Lax
  <2>5. QED
    BY <1>2, <1>3, <1>5, <2>1, <2>2, <2>3, <2>4, TakesFirstForms DEF Owed
<1>10. CASE actList # <<>>
  <2>1. Len(stack') = n + 1 /\ stack'[n + 1].code = <<>>
    BY <1>6, <1>10, TakeStep DEF Frame
  <2>2. Running' /\ Top'.code = <<>>
    BY <1>7, <2>1 DEF Running, Top
  <2>3. \A f \in 1..n + 1 : f = n + 1 \/ f = n \/ f \in 1..n - 1
    BY <1>7
  <2>4. \A f \in 1..n + 1 : Drains(stack'[f].code)
    BY <1>5, <1>6, <1>7, <1>8, <2>1, <2>3, EmptyDrains DEF Lax
  <2>5. \A f \in 1..(n + 1) - 1 : ~Has(stack'[f].code, {"take"})
    BY <1>5, <1>6, <1>7, <1>8 DEF Lax
  <2>6. QED
    BY <1>2, <1>3, <2>1, <2>2, <2>4, <2>5, EmptyDrains DEF Owed
<1>11. QED
  BY <1>9, <1>10

(* The actions are performed with nothing left to evaluate or to take;     *)
(* those whose assertion is without a reaction see LaxPerform.             *)
LEMMA OwedPerform ==
  ASSUME TypeOK, Owed, (Fire /\ Head(Top.todo) \notin Unreacted) \/ PassOver \/ ActEnd
  PROVE  Owed'
<1> USE DEF lists
<1>1. Running /\ Top.code = <<>>
  BY DEF Fire, PassOver, ActEnd
<1>2. Changed(Rule)' = {} /\ actList' = <<>>
  <2>1. ~Assign
    BY <1>1 DEF Assign, At
  <2>2. actList' = actList
    BY DEF Fire, PassOver, ActEnd
  <2>3. QED
    BY <1>1, <2>1, <2>2, OwedNothing, ChangedShrinks DEF Next, Cycle
<1>3. PICK c \in Seq(Step) :
        /\ Drains(c) /\ ~Has(c, {"take"})
        /\ stack'[Len(stack)].code = c /\ TopReplaced(stack'[Len(stack)])
  <2>1. CASE Fire /\ Head(Top.todo) \notin Unreacted
    BY <2>1, VisitStep, PerformedDrains, PerformedType
  <2>2. CASE PassOver \/ ActEnd
    <3>1. stack'[Len(stack)].code = <<>> /\ TopReplaced(stack'[Len(stack)])
      BY <2>2, VisitStep, ActEndStep
    <3>2. <<>> \in Seq(Step)
      OBVIOUS
    <3>3. QED
      BY <3>1, <3>2, EmptyDrains
  <2>3. QED
    BY <2>1, <2>2
<1>4. CodeReplaced(c)
  BY <1>3 DEF TopReplaced, CodeReplaced
<1>5. QED
  BY <1>1, <1>2, <1>3, <1>4, NoTakeNow, OwedGoesOn

(* The caller of nbRuleReact goes on with nothing left either.             *)
LEMMA OwedReturn ==
  ASSUME TypeOK, Owed, ReactEnd \/ CommandEnd
  PROVE  Owed'
<1> USE DEF lists
<1>1. PICK n : n = Len(stack)
  OBVIOUS
<1>2. /\ Running /\ Top.code = <<>> /\ n \in Nat \ {0} /\ Len(stack') = n - 1
      /\ \A i \in 1..n - 1 : stack'[i] = stack[i]
      /\ stack' \in Seq(FrameType)
  BY <1>1, ReturnStep
<1>3. Changed(Rule)' = {} /\ actList' = <<>>
  <2>1. ~Assign
    BY <1>2 DEF Assign, At
  <2>2. actList' = actList
    BY DEF ReactEnd, CommandEnd
  <2>3. QED
    BY <1>2, <2>1, <2>2, OwedNothing, ChangedShrinks DEF Next, Cycle
<1>4. \A f \in 1..n - 1 : f \in 1..n /\ Drains(stack'[f].code) /\ ~Has(stack'[f].code, {"take"})
  BY <1>1, <1>2 DEF Owed
<1>5. \A f \in 1..(n - 1) - 1 : f \in 1..n - 1
  BY <1>2
<1>6. Running' => TakesFirst(Top'.code)
  <2>1. ASSUME Running'
        PROVE  TakesFirst(Top'.code)
    <3>1. Len(stack') # 0
      BY <1>2, <2>1 DEF Running
    <3>2. PICK m : m = Len(stack') /\ m \in 1..n - 1
      BY <1>2, <3>1
    <3>3. stack'[m] \in FrameType
      BY <1>2, <3>2
    <3>4. Top' = stack'[m] /\ stack'[m].code \in Seq(Step)
      BY <3>2, <3>3 DEF Top, FrameType
    <3>5. QED
      BY <1>4, <3>2, <3>4, TakesFirstForms
  <2>2. QED
    BY <2>1
<1>7. QED
  BY <1>2, <1>3, <1>4, <1>5, <1>6 DEF Owed

(* An alert of the context is followed by a reaction if it scheduled       *)
(* something.                                                              *)
LEMMA OwedContext ==
  ASSUME TypeOK, Owed, ContextIfQuiet \/ ContextAlert \/ IfRules
  PROVE  Owed'
<1> USE DEF lists
<1>1. /\ Running /\ Top.code # <<>>
      /\ Now.op \in {"contextIfQuiet", "context", "ifrules"}
  BY DEF ContextIfQuiet, ContextAlert, IfRules, At
<1>2. Changed(Rule)' \subseteq Changed(Rule)
  <2>1. ~Assign
    BY <1>1 DEF Assign, At
  <2>2. QED
    BY <2>1, ChangedShrinks DEF Next, Cycle
<1>3. PICK d \in Seq(Step) : d = Tail(Top.code)
  BY <1>1, OwedNow
<1>4. /\ Drains(d) /\ ~Has(d, {"take"})
      /\ Changed(Rule) # {} => Has(d, Evaluates)
      /\ actList # <<>> /\ Now.op = "contextIfQuiet" => Has(d, Takes)
  BY <1>1, <1>3, OwedNow DEF Evaluates, Takes
<1>5. ASSUME NEW s \in Step, s.op \in {"context", "ifrules", "react"}, CodeReplaced(<<s>> \o d)
      PROVE  Owed'
  <2>1. PICK c \in Seq(Step) : c = <<s>> \o d
    BY ConsCode
  <2>2. c # <<>> /\ Head(c) = s /\ Tail(c) = d
    BY <2>1, ConsCode
  <2>3. Drains(c) /\ Has(c, Takes) /\ ~Has(c, {"take"})
    BY <1>4, <1>5, <2>2, TailDrains, TailHas DEF Takes
  <2>4. Changed(Rule)' # {} => Has(c, Evaluates)
    BY <1>2, <1>4, <2>2, TailHas
  <2>5. CodeReplaced(c)
    BY <1>5, <2>1
  <2>6. QED
    BY <1>1, <2>3, <2>4, <2>5, NoTakeNow, OwedGoesOn
<1>6. ASSUME CodeReplaced(d), actList' # <<>> => Has(d, Takes)
      PROVE  Owed'
  BY <1>1, <1>2, <1>4, <1>6, NoTakeNow, OwedGoesOn
<1>7. CASE ContextIfQuiet
  <2>1. CASE Top.quiet
    <3>1. PICK s \in Step : s = Op("context")
      BY OpIsStep
    <3>2. <<s>> \o d \in Seq(Step)
      BY ConsCode
    <3>3. GoOn(<<s>> \o d)
      BY <1>3, <1>7, <2>1, <3>1 DEF ContextIfQuiet
    <3>4. s.op = "context"
      BY <3>1 DEF Op
    <3>5. QED
      BY <1>1, <1>5, <3>2, <3>3, <3>4, GoOnCode
  <2>2. CASE ~Top.quiet
    <3>1. <<>> \o Tail(Top.code) = d
      BY <1>3
    <3>2. GoOn(d)
      BY <1>7, <2>2, <3>1 DEF ContextIfQuiet
    <3>3. actList' = actList /\ Now.op = "contextIfQuiet"
      BY <1>7 DEF ContextIfQuiet, At
    <3>4. QED
      BY <1>1, <1>4, <1>6, <3>2, <3>3, GoOnCode
  <2>3. QED
    BY <2>1, <2>2
<1>8. CASE ContextAlert
  BY <1>3, <1>5, <1>8, ContextStep
<1>9. CASE IfRules /\ Now.rules = <<>>
  <2>1. actList' = actList
    BY <1>9 DEF IfRules
  <2>2. CASE actList = <<>>
    <3>1. <<>> \o Tail(Top.code) = d
      BY <1>3
    <3>2. GoOn(d)
      BY <1>9, <2>2, <3>1 DEF IfRules
    <3>3. QED
      BY <1>1, <1>6, <2>1, <2>2, <3>2, GoOnCode
  <2>3. CASE actList # <<>>
    <3>1. PICK s \in Step : s = Op("react")
      BY OpIsStep
    <3>2. <<s>> \o d \in Seq(Step)
      BY ConsCode
    <3>3. GoOn(<<s>> \o d)
      BY <1>3, <1>9, <2>3, <3>1 DEF IfRules
    <3>4. s.op = "react"
      BY <3>1 DEF Op
    <3>5. QED
      BY <1>1, <1>5, <3>2, <3>3, <3>4, GoOnCode
  <2>4. QED
    BY <2>2, <2>3
<1>10. CASE IfRules /\ Now.rules # <<>>
  <2>1. Now.rules \in Seq(IfRule)
    BY <1>10, AtType, StepFields DEF IfRules
  <2>2. PICK s : s = [op |-> "ifrules", rules |-> Tail(Now.rules)]
    OBVIOUS
  <2>3. s \in Step /\ s.op = "ifrules"
    BY <1>10, <2>1, <2>2 DEF Step
  <2>4. <<s>> \o d \in Seq(Step)
    BY <2>3, ConsCode
  <2>5. GoOn(<<s>> \o d)
    BY <1>3, <1>10, <2>2 DEF IfRules
  <2>6. QED
    BY <1>1, <1>5, <2>3, <2>4, <2>5, GoOnCode
<1>11. QED
  BY <1>7, <1>8, <1>9, <1>10

(* A command begins when nothing is owed, and ends with a reaction.        *)
LEMMA OwedBegin ==
  ASSUME TypeOK, Owed, (\E cmd \in Command : Input(cmd)) \/ (\E r \in Rule : Define(r))
  PROVE  Owed'
<1> USE DEF lists
<1>1. PICK code \in Seq(Step) :
        /\ ~Running /\ stack' = <<Frame(<<>>, code)>>
        /\ Drains(code) /\ ~Has(code, {"take"})
  <2>1. CASE \E cmd \in Command : Input(cmd)
    BY <2>1, CmdCodeType, CmdCodeDrains, CommandAssumption DEF Input
  <2>2. CASE \E r \in Rule : Define(r)
    <3>1. PICK e \in {<<Op("react")>>} : ~Running /\ stack' = <<Frame(<<>>, e)>>
      BY <2>2 DEF Define
    <3>2. QED
      BY <3>1, Endings
  <2>3. QED
    BY <2>1, <2>2
<1>2. Changed(Rule)' = {} /\ actList' = <<>>
  <2>1. ~Assign
    BY <1>1 DEF Assign, At
  <2>2. actList' = actList
    BY DEF Input, Define
  <2>3. QED
    BY <1>1, <2>1, <2>2, ChangedShrinks DEF Owed, Next
<1>3. stack' \in Seq(FrameType) /\ Len(stack') = 1 /\ stack'[1].code = code
  BY <1>1, BeginStep
<1>4. Running' /\ Top'.code = code
  <2>1. stack' # <<>>
    BY <1>1
  <2>2. Top' = stack'[1]
    BY <1>3 DEF Top
  <2>3. QED
    BY <1>3, <2>1, <2>2 DEF Running
<1>5. \A f \in 1..Len(stack') : Drains(stack'[f].code)
  BY <1>1, <1>3
<1>6. \A f \in 1..Len(stack') - 1 : FALSE
  BY <1>3
<1>7. TakesFirst(code)
  BY <1>1, TakesFirstForms
<1>8. QED
  BY <1>2, <1>4, <1>5, <1>6, <1>7 DEF Owed

(* Every step keeps what is owed.                                          *)
LEMMA OwedStep ==
  ASSUME TypeOK, Owed, [Next]_vars, ~(Fire /\ Head(Top.todo) \in Unreacted)
  PROVE  Owed'
<1> USE DEF lists
<1>1. CASE (\E cmd \in Command : Input(cmd)) \/ (\E r \in Rule : Define(r))
  BY <1>1, OwedBegin
<1>2. CASE Assign
  BY <1>2, OwedAssign
<1>3. CASE NodeAssert \/ Mark \/ Undefine \/ Disable \/ Enable
  BY <1>3, OwedGoOn
<1>4. CASE Publish \/ CellReact
  BY <1>4, OwedAlert
<1>5. CASE RuleReact
  BY <1>5, OwedReact
<1>6. CASE TakeActions
  BY <1>6, OwedIsLax, OwedTake
<1>7. CASE Fire \/ PassOver \/ ActEnd
  BY <1>7, OwedPerform
<1>8. CASE ReactEnd \/ CommandEnd
  BY <1>8, OwedReturn
<1>9. CASE ContextIfQuiet \/ ContextAlert \/ IfRules
  BY <1>9, OwedContext
<1>10. CASE UNCHANGED vars
  BY <1>10 DEF vars, Owed, Running, Top, Now, At, Changed, Subscribed
<1>11. QED
  BY <1>1, <1>2, <1>3, <1>4, <1>5, <1>6, <1>7, <1>8, <1>9, <1>10 DEF Next, Cycle

----------------------------------------------------------------------------
(* While an assertion is without a reaction, steps that are none keep Lax. *)
LEMMA LaxGoesOn ==
  ASSUME TypeOK, Lax, Running, NEW c \in Seq(Step), CodeReplaced(c),
         LateDrains(c), TakesFirst(c), c # <<>> /\ Head(c).op = "take" => Changed(Rule)' = {}
  PROVE  Lax'
<1>1. PICK n : n = Len(stack)
  OBVIOUS
<1>2. n \in Nat \ {0}
  BY <1>1, TopType
<1>3. /\ Len(stack') = n /\ stack'[n].code = c
      /\ \A f \in 1..n - 1 : stack'[f].code = stack[f].code
  BY <1>1, <1>2 DEF CodeReplaced
<1>4. Top'.code = c
  BY <1>3 DEF Top
<1>5. At("take")' => c # <<>> /\ Head(c).op = "take"
  BY <1>4 DEF At, Now
<1>6. QED
  BY <1>1, <1>3, <1>4, <1>5 DEF Lax

(* The steps that only go on, and assignments.                             *)
LEMMA LaxGoOn ==
  ASSUME TypeOK, Lax, Assign \/ NodeAssert \/ Mark \/ Undefine \/ Disable \/ Enable
  PROVE  Lax'
<1>1. /\ Running /\ Top.code # <<>>
      /\ Now.op \in {"set", "node", "mark", "undefine", "disable", "enable"}
  BY DEF Assign, NodeAssert, Mark, Undefine, Disable, Enable, At
<1>2. PICK d \in Seq(Step) : d = Tail(Top.code)
  BY <1>1, LaxNow
<1>3. LateDrains(d) /\ ~Has(d, {"take"})
  BY <1>1, <1>2, LaxNow
<1>4. CASE Assign
  <2>1. PICK s \in Step : s = Op("publish")
    BY OpIsStep
  <2>2. PICK c \in Seq(Step) : c = <<s>> \o d
    BY ConsCode
  <2>3. c # <<>> /\ Head(c) = s /\ Tail(c) = d /\ s.op = "publish"
    BY <2>1, <2>2, ConsCode DEF Op
  <2>4. CodeReplaced(c)
    BY <1>1, <1>2, <1>4, <2>1, <2>2, GoOnCode DEF Assign
  <2>5. LateDrains(c) /\ ~Has(c, {"take"})
    BY <1>3, <2>3, TailLate, TailHas DEF Turns
  <2>6. QED
    BY <1>1, <2>3, <2>4, <2>5, NoTakeNow, LaxGoesOn
<1>5. CASE Mark
  <2>1. [Top EXCEPT !.code = Tail(@), !.quiet = TRUE] \in FrameType
    BY <1>1, <1>2, TopType DEF FrameType
  <2>2. TopReplaced([Top EXCEPT !.code = Tail(@), !.quiet = TRUE])
    BY <1>1, <1>5, <2>1, ReplaceTop DEF Mark
  <2>3. CodeReplaced(d)
    BY <1>1, <1>2, <2>2, TopType DEF TopReplaced, CodeReplaced, FrameType
  <2>4. QED
    BY <1>1, <1>3, <2>3, NoTakeNow, LaxGoesOn
<1>6. CASE NodeAssert \/ Undefine \/ Disable \/ Enable
  <2>1. CodeReplaced(d)
    BY <1>1, <1>2, <1>6, GoOnCode DEF NodeAssert, Undefine, Disable, Enable
  <2>2. QED
    BY <1>1, <1>3, <2>1, NoTakeNow, LaxGoesOn
<1>7. QED
  BY <1>4, <1>5, <1>6

(* Alerts.                                                                 *)
LEMMA LaxAlert ==
  ASSUME TypeOK, Lax, Publish \/ CellReact
  PROVE  Lax'
<1>1. /\ Running /\ Top.code # <<>> /\ Now.op \in {"publish", "cells"}
      /\ CellReact <=> Now.op = "cells"
  BY DEF Publish, CellReact, At
<1>2. Changed(Rule)' \subseteq Changed(Rule)
  <2>1. ~Assign
    BY <1>1 DEF Assign, At
  <2>2. QED
    BY <2>1, ChangedShrinks DEF Next, Cycle
<1>3. /\ Top.code \in Seq(Step) /\ Tail(Top.code) \in Seq(Step)
      /\ LateDrains(Tail(Top.code)) /\ TakesFirst(Tail(Top.code))
      /\ Now.op = "publish" => ~Has(Tail(Top.code), {"take"})
  BY <1>1, LaxNow, NoTakeNow
<1>4. CASE UNCHANGED stack
  <2>1. PICK c \in Seq(Step) : c = Top.code
    BY <1>3
  <2>2. CodeReplaced(c)
    BY <1>4, <2>1, SameCode
  <2>3. TakesFirst(c) /\ LateDrains(c)
    BY <1>1, <2>1 DEF Lax
  <2>4. Head(c).op # "take"
    BY <1>1, <2>1 DEF Now
  <2>5. QED
    BY <1>1, <2>2, <2>3, <2>4, LaxGoesOn
<1>5. CASE GoOn(Tail(Top.code)) /\ (Now.op = "cells" => Changed(Rule) = {})
  <2>1. PICK c \in Seq(Step) : c = Tail(Top.code)
    BY <1>3
  <2>2. CodeReplaced(c)
    BY <1>1, <1>5, <2>1, GoOnCode
  <2>3. c # <<>> /\ Head(c).op = "take" => Changed(Rule)' = {}
    BY <1>1, <1>2, <1>3, <1>5, <2>1, NoTakeNow
  <2>4. QED
    BY <1>1, <1>3, <2>1, <2>2, <2>3, LaxGoesOn
<1>6. \/ UNCHANGED stack
      \/ GoOn(Tail(Top.code)) /\ (Now.op = "cells" => Changed(Rule) = {})
  BY <1>1 DEF Publish, CellReact, AlertRules
<1>7. QED
  BY <1>4, <1>5, <1>6

(* A reaction begins.                                                      *)
LEMMA LaxReact ==
  ASSUME TypeOK, Lax, RuleReact
  PROVE  Lax'
<1>1. Running /\ Top.code # <<>> /\ Now.op = "react"
  BY DEF RuleReact, At
<1>2. /\ Tail(Top.code) \in Seq(Step) /\ Drains(Tail(Top.code))
      /\ ~Has(Tail(Top.code), {"take"})
  BY <1>1, LaxNow DEF Turns
<1>3. PICK s \in Step, u \in Step : s = Op("cells") /\ u = Op("take")
  BY OpIsStep
<1>4. PICK d \in Seq(Step) : d = <<u>> \o Tail(Top.code)
  BY <1>2, ConsCode
<1>5. PICK c \in Seq(Step) : c = <<s>> \o d
  BY ConsCode
<1>6. /\ d # <<>> /\ Head(d) = u /\ Tail(d) = Tail(Top.code)
      /\ c # <<>> /\ Head(c) = s /\ Tail(c) = d
      /\ s.op = "cells" /\ u.op = "take"
  BY <1>2, <1>3, <1>4, <1>5, ConsCode DEF Op
<1>7. <<Op("cells"), Op("take")>> \o Tail(Top.code) = c
  BY <1>2, <1>3, <1>4, <1>5
<1>8. CodeReplaced(c)
  BY <1>1, <1>7, GoOnCode DEF RuleReact
<1>9. Has(d, Takes) /\ Drains(d)
  BY <1>2, <1>6, TailHas, TailDrains DEF Takes
<1>10. LateDrains(c)
  BY <1>6, <1>9, TailDrains, TailLate
<1>11. TakesFirst(c) /\ Head(c).op # "take"
  BY <1>2, <1>6, TakesFirstForms
<1>12. QED
  BY <1>1, <1>8, <1>10, <1>11, LaxGoesOn

(* An action is performed, whatever its instruction.                       *)
LEMMA LaxPerform ==
  ASSUME TypeOK, Lax, Fire \/ PassOver \/ ActEnd
  PROVE  Lax'
<1>1. Running
  BY DEF Fire, PassOver, ActEnd
<1>2. PICK c \in Seq(Step) :
        /\ LateDrains(c) /\ ~Has(c, {"take"})
        /\ stack'[Len(stack)].code = c /\ TopReplaced(stack'[Len(stack)])
  <2>1. CASE Fire
    BY <2>1, VisitStep, PerformedDrains, PerformedType
  <2>2. CASE PassOver \/ ActEnd
    <3>1. stack'[Len(stack)].code = <<>> /\ TopReplaced(stack'[Len(stack)])
      BY <2>2, VisitStep, ActEndStep
    <3>2. <<>> \in Seq(Step)
      OBVIOUS
    <3>3. QED
      BY <3>1, <3>2, EmptyDrains
  <2>3. QED
    BY <2>1, <2>2
<1>3. CodeReplaced(c)
  BY <1>2 DEF TopReplaced, CodeReplaced
<1>4. QED
  BY <1>1, <1>2, <1>3, NoTakeNow, LaxGoesOn

(* A function returns.                                                     *)
LEMMA LaxReturn ==
  ASSUME TypeOK, Lax, ReactEnd \/ CommandEnd
  PROVE  Lax'
<1>1. PICK n : n = Len(stack)
  OBVIOUS
<1>2. /\ Running /\ n \in Nat \ {0} /\ Len(stack') = n - 1
      /\ \A i \in 1..n - 1 : stack'[i] = stack[i]
      /\ stack' \in Seq(FrameType)
  BY <1>1, ReturnStep
<1>3. \A f \in 1..n - 1 : Drains(stack'[f].code) /\ ~Has(stack'[f].code, {"take"})
  BY <1>1, <1>2 DEF Lax
<1>4. \A f \in 1..(n - 1) - 1 : f \in 1..n - 1
  BY <1>2
<1>5. ASSUME Running'
      PROVE  TakesFirst(Top'.code) /\ LateDrains(Top'.code) /\ ~At("take")'
  <2>1. Len(stack') # 0
    BY <1>2, <1>5 DEF Running
  <2>2. PICK m : m = Len(stack') /\ m \in 1..n - 1
    BY <1>2, <2>1
  <2>3. stack'[m] \in FrameType
    BY <1>2, <2>2
  <2>4. PICK c \in Seq(Step) : c = Top'.code /\ Drains(c) /\ ~Has(c, {"take"})
    BY <1>3, <2>2, <2>3 DEF Top, FrameType
  <2>5. LateDrains(c)
    BY <2>4, EmptyDrains, TailLate
  <2>6. At("take")' <=> c # <<>> /\ Head(c).op = "take"
    BY <1>5, <2>4 DEF At, Now
  <2>7. QED
    BY <2>4, <2>5, <2>6, NoTakeNow
<1>6. QED
  BY <1>2, <1>3, <1>4, <1>5 DEF Lax

(* An alert of the context.                                                *)
LEMMA LaxContext ==
  ASSUME TypeOK, Lax, ContextIfQuiet \/ ContextAlert \/ IfRules
  PROVE  Lax'
<1>1. /\ Running /\ Top.code # <<>>
      /\ Now.op \in {"contextIfQuiet", "context", "ifrules"}
  BY DEF ContextIfQuiet, ContextAlert, IfRules, At
<1>2. PICK d \in Seq(Step) : d = Tail(Top.code)
  BY <1>1, LaxNow
<1>3. Drains(d) /\ LateDrains(d) /\ ~Has(d, {"take"})
  BY <1>1, <1>2, LaxNow DEF Turns
<1>4. ASSUME NEW s \in Step, s.op \in {"context", "ifrules", "react"}, CodeReplaced(<<s>> \o d)
      PROVE  Lax'
  <2>1. PICK c \in Seq(Step) : c = <<s>> \o d
    BY ConsCode
  <2>2. c # <<>> /\ Head(c) = s /\ Tail(c) = d
    BY <2>1, ConsCode
  <2>3. LateDrains(c) /\ ~Has(c, {"take"})
    BY <1>3, <1>4, <2>2, TailLate, TailHas
  <2>4. CodeReplaced(c)
    BY <1>4, <2>1
  <2>5. QED
    BY <1>1, <2>3, <2>4, NoTakeNow, LaxGoesOn
<1>5. ASSUME GoOn(d)
      PROVE  Lax'
  BY <1>1, <1>3, <1>5, GoOnCode, NoTakeNow, LaxGoesOn
<1>6. <<>> \o Tail(Top.code) = d
  BY <1>2
<1>7. ASSUME NEW s \in Step, s.op \in {"context", "ifrules", "react"}, GoOn(<<s>> \o d)
      PROVE  Lax'
  <2>1. <<s>> \o d \in Seq(Step)
    BY ConsCode
  <2>2. QED
    BY <1>1, <1>4, <1>7, <2>1, GoOnCode
<1>8. /\ Op("context") \in Step /\ Op("context").op = "context"
      /\ Op("react") \in Step /\ Op("react").op = "react"
  BY OpIsStep DEF Op
<1>9. CASE ContextIfQuiet
  <2>1. CASE Top.quiet
    <3>1. GoOn(<<Op("context")>> \o d)
      BY <1>2, <1>9, <2>1 DEF ContextIfQuiet
    <3>2. QED
      BY <1>7, <1>8, <3>1
  <2>2. CASE ~Top.quiet
    <3>1. GoOn(d)
      BY <1>6, <1>9, <2>2 DEF ContextIfQuiet
    <3>2. QED
      BY <1>5, <3>1
  <2>3. QED
    BY <2>1, <2>2
<1>10. CASE ContextAlert
  BY <1>2, <1>4, <1>10, ContextStep
<1>11. CASE IfRules /\ Now.rules = <<>>
  <2>1. CASE actList = <<>>
    <3>1. GoOn(d)
      BY <1>6, <1>11, <2>1 DEF IfRules
    <3>2. QED
      BY <1>5, <3>1
  <2>2. CASE actList # <<>>
    <3>1. GoOn(<<Op("react")>> \o d)
      BY <1>2, <1>11, <2>2 DEF IfRules
    <3>2. QED
      BY <1>7, <1>8, <3>1
  <2>3. QED
    BY <2>1, <2>2
<1>12. CASE IfRules /\ Now.rules # <<>>
  <2>1. Now.rules \in Seq(IfRule)
    BY <1>12, AtType, StepFields DEF IfRules
  <2>2. PICK s : s = [op |-> "ifrules", rules |-> Tail(Now.rules)]
    OBVIOUS
  <2>3. s \in Step /\ s.op = "ifrules"
    BY <1>12, <2>1, <2>2 DEF Step
  <2>4. GoOn(<<s>> \o d)
    BY <1>2, <1>12, <2>2 DEF IfRules
  <2>5. QED
    BY <1>7, <2>3, <2>4
<1>13. QED
  BY <1>9, <1>10, <1>11, <1>12

(* A command begins.                                                       *)
LEMMA LaxBegin ==
  ASSUME TypeOK, (\E cmd \in Command : Input(cmd)) \/ (\E r \in Rule : Define(r))
  PROVE  Lax'
<1>1. PICK code \in Seq(Step) :
        stack' = <<Frame(<<>>, code)>> /\ Drains(code) /\ ~Has(code, {"take"})
  <2>1. CASE \E cmd \in Command : Input(cmd)
    BY <2>1, CmdCodeType, CmdCodeDrains, CommandAssumption DEF Input
  <2>2. CASE \E r \in Rule : Define(r)
    <3>1. PICK e \in {<<Op("react")>>} : stack' = <<Frame(<<>>, e)>>
      BY <2>2 DEF Define
    <3>2. QED
      BY <3>1, Endings
  <2>3. QED
    BY <2>1, <2>2
<1>2. Len(stack') = 1 /\ Top'.code = code
  BY <1>1 DEF Top, Frame
<1>3. At("take")' => code # <<>> /\ Head(code).op = "take"
  BY <1>2 DEF At, Now
<1>4. TakesFirst(code) /\ LateDrains(code) /\ ~At("take")'
  BY <1>1, <1>3, NoTakeNow, EmptyDrains, TailLate
<1>5. \A f \in 1..Len(stack') - 1 : FALSE
  BY <1>2
<1>6. QED
  BY <1>2, <1>4, <1>5 DEF Lax

(* Every step that is no reaction keeps Lax, and unreacted.                *)
LEMMA LaxStep ==
  ASSUME TypeOK, Lax, [Next]_vars, ~TakeActions
  PROVE  Lax'
<1> USE DEF lists
<1>1. CASE (\E cmd \in Command : Input(cmd)) \/ (\E r \in Rule : Define(r))
  BY <1>1, LaxBegin
<1>2. CASE Assign \/ NodeAssert \/ Mark \/ Undefine \/ Disable \/ Enable
  BY <1>2, LaxGoOn
<1>3. CASE Publish \/ CellReact
  BY <1>3, LaxAlert
<1>4. CASE RuleReact
  BY <1>4, LaxReact
<1>5. CASE Fire \/ PassOver \/ ActEnd
  BY <1>5, LaxPerform
<1>6. CASE ReactEnd \/ CommandEnd
  BY <1>6, LaxReturn
<1>7. CASE ContextIfQuiet \/ ContextAlert \/ IfRules
  BY <1>7, LaxContext
<1>8. CASE UNCHANGED vars
  BY <1>8 DEF vars, Lax, Running, Top, Now, At, Changed, Subscribed
<1>9. QED
  BY <1>1, <1>2, <1>3, <1>4, <1>5, <1>6, <1>7, <1>8 DEF Next, Cycle

(* Only a reaction ends it.                                                *)
LEMMA StaysUnreacted ==
  ASSUME unreacted, [Next]_vars, ~TakeActions
  PROVE  unreacted'
BY DEF Next, Cycle, vars, Input, Define, Assign, NodeAssert, Publish, CellReact, RuleReact, Fire,
       PassOver, ActEnd, ReactEnd, CommandEnd, Mark, ContextIfQuiet, ContextAlert, IfRules,
       Undefine, Disable, Enable

(* All is owed, or an assertion is without a reaction.                     *)
OwedOrUnreacted == Owed \/ (unreacted /\ Lax)

(* Every step keeps that.                                                  *)
LEMMA OwedOrUnreactedStep ==
  ASSUME TypeOK, OwedOrUnreacted, [Next]_vars
  PROVE  OwedOrUnreacted'
<1>1. CASE Owed /\ ~(Fire /\ Head(Top.todo) \in Unreacted)
  BY <1>1, OwedStep DEF OwedOrUnreacted
<1>2. CASE Owed /\ Fire /\ Head(Top.todo) \in Unreacted
  <2>1. unreacted'
    BY <1>2 DEF Fire
  <2>2. Lax'
    BY <1>2, OwedIsLax, LaxPerform
  <2>3. QED
    BY <2>1, <2>2 DEF OwedOrUnreacted
<1>3. CASE unreacted /\ Lax /\ TakeActions
  BY <1>3, OwedTake DEF OwedOrUnreacted
<1>4. CASE unreacted /\ Lax /\ ~TakeActions
  BY <1>4, LaxStep, StaysUnreacted DEF OwedOrUnreacted
<1>5. QED
  BY <1>1, <1>2, <1>3, <1>4 DEF OwedOrUnreacted

(* Nothing is owed before the first command.                               *)
LEMMA OwedInit == Init => Owed
<1> SUFFICES ASSUME Init PROVE Owed
  OBVIOUS
<1>1. stack = <<>> /\ actList = <<>> /\ defined = {}
  BY DEF Init
<1>2. Len(stack) = 0
  BY <1>1
<1>3. (\A f \in 1..Len(stack) : FALSE) /\ (\A f \in 1..Len(stack) - 1 : FALSE)
  BY <1>2
<1>4. ~Running /\ Changed(Rule) = {}
  BY <1>1 DEF Running, Changed, Subscribed
<1>5. QED
  BY <1>1, <1>3, <1>4 DEF Owed

----------------------------------------------------------------------------
(* What holds of every state, for every choice of the constants: the types *)
(* and what each of the promises needs to be kept.                         *)
RulesInv ==
  /\ TypeOK /\ DefinedRules /\ ScheduledIsTrue /\ InPriorityOrder
  /\ Apart /\ IfListed /\ FiredOnce

(* The inductive invariant holds initially.                                *)
LEMMA RulesInit == Init => RulesInv
<1> SUFFICES ASSUME Init PROVE RulesInv
  OBVIOUS
<1>1. TypeOK /\ Apart
  BY InitType, ApartInit
<1>2. DefinedRules /\ ScheduledIsTrue
  BY DEF Init, DefinedRules, ScheduledIsTrue, Action
<1>3. InPriorityOrder
  <2>1. Len(stack) = 0 /\ Sorted(actList)
    BY DEF Init, Sorted
  <2>2. \A f \in 1..Len(stack) : FALSE
    BY <2>1
  <2>3. QED
    BY <1>1, <2>1, <2>2, OrderDef
<1>4. IfListed
  BY DEF Init, IfListed, IsInjective, ToSet
<1>5. FiredOnce
  BY DEF Init, FiredOnce, Action
<1>6. QED
  BY <1>1, <1>2, <1>3, <1>4, <1>5 DEF RulesInv

(* Every step of the command cycle keeps the inductive invariant.          *)
LEMMA RulesNext == RulesInv /\ [Next]_vars => RulesInv'
<1> SUFFICES ASSUME RulesInv, [Next]_vars PROVE RulesInv'
  OBVIOUS
<1>1. TypeOK'
  BY TypeStep DEF RulesInv
<1>2. DefinedRules' /\ ScheduledIsTrue'
  BY RulesStep DEF RulesInv
<1>3. InPriorityOrder'
  BY <1>1, OrderStep DEF RulesInv
<1>4. Apart'
  BY ApartStep DEF RulesInv
<1>5. IfListed'
  BY IfListStep DEF RulesInv
<1>6. FiredOnce'
  BY OnceStep DEF RulesInv
<1>7. QED
  BY <1>1, <1>2, <1>3, <1>4, <1>5, <1>6 DEF RulesInv

(* It holds in every behaviour.                                            *)
THEOREM RulesInvariant == Spec => []RulesInv
BY RulesInit, RulesNext, PTL DEF Spec

(* ListsSound: whatever nested reactions schedule, undefine and douse, no  *)
(* action is ever linked into two lists, those that are ready or freed are *)
(* in none, and the node's list has the true if() rules, each once.        *)
THEOREM ListsAreSound == Spec => []ListsSound
<1>1. RulesInv => ListsSound
  BY ApartPlaces, IfListedEnough DEF RulesInv, ListsSound
<1>2. QED
  BY <1>1, RulesInvariant, PTL

(* FiresInTurn: the lists that nbRuleReact walks are in the order of the   *)
(* priorities, and what is about to fire has a true condition.             *)
THEOREM RulesFireInTurn == Spec => []FiresInTurn
<1>1. RulesInv => FiresInTurn
  BY DEF RulesInv, FiresInTurn
<1>2. QED
  BY <1>1, RulesInvariant, PTL

(* WhenFiresOnce: a when() rule that nothing refers to fires at most once  *)
(* from its definition on, whatever its own command and nested reactions   *)
(* do to its condition.                                                    *)
THEOREM WhenRulesFireOnce == Spec => []WhenFiresOnce
<1>1. RulesInv => WhenFiresOnce
  BY DEF RulesInv, FiredOnce, WhenFiresOnce
<1>2. QED
  BY <1>1, RulesInvariant, PTL

(* CycleComplete: when a command has ended no condition that changed is    *)
(* left to be evaluated and no action to be fired, unless an action was    *)
(* fired whose instruction does not react to its assertion, and nothing    *)
(* has reacted since.                                                      *)
THEOREM CyclesComplete == Spec => []CycleComplete
<1>1. RulesInv => TypeOK
  BY DEF RulesInv
<1>2. TypeOK /\ OwedOrUnreacted /\ [Next]_vars => OwedOrUnreacted'
  BY OwedOrUnreactedStep
<1>3. Init => OwedOrUnreacted
  BY OwedInit DEF OwedOrUnreacted
<1>4. OwedOrUnreacted => CycleComplete
  BY DEF OwedOrUnreacted, Owed, CycleComplete
<1>5. QED
  BY <1>1, <1>2, <1>3, <1>4, RulesInvariant, PTL DEF Spec
============================================================================
