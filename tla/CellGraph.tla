----------------------------- MODULE CellGraph -----------------------------
(***************************************************************************)
(* How the graph that CellReact walks comes about and changes: terms are   *)
(* assigned values and expressions (nbTermAssign), rules subscribe to      *)
(* their conditions and are undefined (useCondition, destroyRule), and     *)
(* expressions are enabled while somebody subscribes to them and disabled  *)
(* when the last subscriber leaves (nbAxonEnable, nbAxonDisable), the lazy *)
(* operators even from inside their eval methods.                          *)
(*                                                                         *)
(* The functions of the source call each other recursively; each is an     *)
(* operator from a net (the state of all cells) to a net.                  *)
(***************************************************************************)
EXTENDS Naturals, FiniteSets, FiniteSetsExt, Functions, SequencesExt

CONSTANTS
  Term,      (* NB_Term objects                                            *)
  Cond,      (* condition cells; some reference always keeps them alive    *)
  Rule,      (* on() and when() rule cells                                 *)
  RuleTerm,  (* RuleTerm[r]: the term that names r if conditions refer to  *)
             (* it, else NoTerm                                            *)
  NoTerm,
  Value,     (* the truth values "F", "U", "T"                             *)
  Disabled,  (* nb_Disabled                                                *)
  Shapes,    (* the graphs: records of                                     *)
             (*   kind[c]: the operator of a condition                     *)
             (*   args[c]: its operands, or the condition of a rule        *)
             (*   first[t]: the definition a term starts with              *)
             (*   defs[t]: the definitions commands assign to a term       *)
  MaxLevel   (* the last index of evalVector                               *)

Cell == Term \cup Cond \cup Rule
Level == 0..MaxLevel

(* The operators with one operand (!a, ?a, !?a, -?a, +?a, !!a), with two   *)
(* (& | !& !| |!& and the default a ? b), the conditional cell "a true b   *)
(* else c" (nbconditional.c), whose operands are <<a, b, c, c>>, and those *)
(* that subscribe to the right operand only while it counts: && and ||,    *)
(* and the monitors "a then b" and a|~|b.                                  *)
Prefix == {"not", "unknown", "known", "assumefalse", "assumetrue", "true"}
Infix == {"and", "or", "nand", "nor", "xor", "default"}
Monitor == {"then", "orthen"}
Lazy == {"lazyand", "lazyor"} \cup Monitor

ASSUME GraphAssumption ==
  /\ Disabled \notin Value
  /\ NoTerm \notin Term
  /\ RuleTerm \in [Rule -> Term \cup {NoTerm}]
  /\ \A g \in Shapes :
       /\ g.kind \in [Cond -> Prefix \cup Infix \cup Lazy \cup {"conditional"}]
       /\ g.args \in [Cond \cup Rule -> Seq(Term \cup Cond)]
       /\ g.first \in [Term -> Value]
       /\ g.defs \in [Term -> SUBSET (Value \cup Cond)]

VARIABLES
  shape,     (* the graph: conditions and rules never change their operands*)
  net,       (* the cells: definitions, values, subscribers, levels, lists *)
  defined,   (* the rules that are defined                                 *)
  live,      (* those of them that no disable command has stopped          *)
  cursor,    (* linkP of nbCellReact                                       *)
  reacting,  (* control is inside nbCellReact                              *)
  clean      (* history: none of the hazards below has been met            *)

vars == <<shape, net, defined, live, cursor, reacting, clean>>

Kind == shape.kind
Args == shape.args
Left(c) == Args[c][1]
Right(c) == Args[c][2]

----------------------------------------------------------------------------
(* object->value of an object that may be a value itself.                  *)
ValueOf(n, x) == IF x \in Value THEN x ELSE n.val[x]

Max2(a, b) == IF a >= b THEN a ELSE b

(* nbCellAlert for every cell of A.                                        *)
Listed(n, A) ==
  LET new == A \ n.sched
  IN  [n EXCEPT !.sched = @ \cup new,
                !.vec = [l \in Level |-> @[l] \cup {s \in new : n.lev[s] = l}],
                !.top = FoldSet(LAMBDA s, t : Max2(n.lev[s], t), @, new)]


(* nbCellPublish: cells are listed; a rule (alertRule) takes the value of  *)
(* its condition at once and publishes in its turn.                        *)
RECURSIVE Publish(_, _)
Publish(n, p) ==
  LET rules == n.sub[p] \cap Rule
      heard == [n EXCEPT !.val = [c \in Cell |-> IF c \in rules THEN n.val[p] ELSE @[c]]]
  IN  FoldSet(LAMBDA r, m : Publish(m, r), Listed(heard, n.sub[p] \ Rule), rules)

(* nbCellLevel, nbCellLevelRecurse: lift what subscribes to p above p.     *)
RECURSIVE CellLevel(_, _)
Raised(n, s, p) ==
  IF s \in Cell /\ n.lev[s] <= n.lev[p]
  THEN CellLevel([n EXCEPT !.lev[s] = n.lev[p] + 1], s) ELSE n
CellLevel(n, p) == FoldSet(LAMBDA s, m : Raised(m, s, p), n, n.sub[p])

(* The eval methods.  Whatever is neither False nor Unknown counts as true,*)
(* Disabled too; a lazy operator asks for its right operand when the left  *)
(* one is true (lazyand, then), is not true (lazyor) or is False (orthen). *)
EvalNot(l) == IF l = "U" THEN "U" ELSE IF l = "F" THEN "T" ELSE "F"
EvalAnd(l, r) == IF "F" \in {l, r} THEN "F" ELSE IF "U" \in {l, r} THEN "U" ELSE "T"
EvalOr(l, r) == EvalNot(EvalAnd(EvalNot(l), EvalNot(r)))
EvalXor(l, r) == IF "U" \in {l, r} THEN "U" ELSE IF {l, r} = {"F", "T"} THEN "T" ELSE "F"
EvalPrefix(kind, l) ==
  CASE kind = "not" -> EvalNot(l)
    [] kind = "unknown" -> IF l = "U" THEN "T" ELSE "F"
    [] kind = "known" -> IF l = "U" THEN "F" ELSE "T"
    [] kind = "assumefalse" -> IF l = "U" THEN "F" ELSE l
    [] kind = "assumetrue" -> IF l = "U" THEN "T" ELSE l
    [] kind = "true" -> IF l \in {"U", "F"} THEN l ELSE "T"
EvalInfix(kind, l, r) ==
  CASE kind = "and" -> EvalAnd(l, r)
    [] kind = "or" -> EvalOr(l, r)
    [] kind = "nand" -> EvalNot(EvalAnd(l, r))
    [] kind = "nor" -> EvalNot(EvalOr(l, r))
    [] kind = "xor" -> EvalXor(l, r)
    [] kind = "default" -> IF l = "U" THEN r ELSE l
EvalConditional(v) == IF v[1] = "U" THEN v[4] ELSE IF v[1] = "F" THEN v[3] ELSE v[2]
IsTrue(v) == v \notin {"F", "U"}

(* Mutant: an unknown left operand is taken the other way.                 *)
NeedsRightUnknown(kind, l) ==
  CASE kind \in {"lazyand", "then"} -> l # "F"  [] OTHER -> l = "F"
NeedsRight(kind, l) ==
  CASE kind \in {"lazyand", "then"} -> IsTrue(l)
    [] kind = "lazyor" -> ~IsTrue(l)
    [] kind = "orthen" -> l = "F"
EvalLazy(kind, l, r) ==
  CASE kind \in Monitor -> IF NeedsRight(kind, l) THEN r ELSE "U"
    [] kind = "lazyand" -> IF NeedsRight(kind, l) THEN EvalAnd(l, r) ELSE l
    [] kind = "lazyor" -> IF NeedsRight(kind, l) THEN EvalOr(l, r) ELSE "T"
Evaluated(kind, v) ==
  CASE kind \in Prefix -> EvalPrefix(kind, v[1])
    [] kind \in Infix -> EvalInfix(kind, v[1], v[2])
    [] kind \in Lazy -> EvalLazy(kind, v[1], v[2])
    [] kind = "conditional" -> EvalConditional(v)

(* Enter s into pub->sub, unless there is no subscriber (nbCellCompute_).  *)
WithSubscriber(n, p, s) ==
  IF s \in Cell THEN [n EXCEPT !.sub[p] = @ \cup {s}] ELSE n

RECURSIVE AxonEnable(_, _, _), AxonDisable(_, _, _), Enable(_, _), Disable(_, _), EvalCell(_, _)

(* An evaluation e of p is kept as the value of p.                         *)
Kept(e, p) == [e.net EXCEPT !.val[p] = e.value]

(* nbAxonEnable(pub, sub).  The level of the subscriber is looked at only  *)
(* when the publisher has just been enabled.                               *)
AxonEnable(n, p, s) ==
  IF p \in Value THEN n
  ELSE IF n.val[p] # Disabled THEN WithSubscriber(n, p, s)
  ELSE Raised(Kept(EvalCell(Enable(WithSubscriber(n, p, s), p), p), p), s, p)

(* nbAxonDisable(pub, sub).                                                *)
AxonDisable(n, p, s) ==
  IF p \in Value \/ n.val[p] = Disabled THEN n
  ELSE LET m == [n EXCEPT !.sub[p] = @ \ {s}]
       IN  IF m.sub[p] = {} THEN Disable(m, p) ELSE m

(* What a cell subscribes to when it is enabled; of the operators in       *)
(* toggled, only to the left operand.                                      *)
Publishers(n, p, toggled) ==
  CASE p \in Term -> <<n.def[p]>>
    [] p \in Cond /\ Kind[p] \in toggled -> <<Left(p)>>
    [] OTHER -> Args[p]

(* The enable methods: enableTerm, enableRule, enablePrefix (also of the   *)
(* lazy operators), enableInfix, enableCapture, enableConditional.         *)
Enable(n, p) ==
  FoldLeft(LAMBDA m, a : AxonEnable(m, a, p),
           IF p \in Cond /\ Kind[p] \in Monitor THEN [n EXCEPT !.val[p] = "U"] ELSE n,
           Publishers(n, p, Lazy))

(* The disable methods, and the value the caller then sets: disableRule,   *)
(* disablePrefix (also of && and ||), disableInfix (also of the monitors), *)
(* disableConditional, and disableTerm, which leaves a term that holds a   *)
(* value alone.                                                            *)
HoldsValue(n, p) == p \in Term /\ n.val[p] \in {Disabled, n.def[p]}
Disable(n, p) ==
  IF HoldsValue(n, p) THEN n
  ELSE [FoldLeft(LAMBDA m, a : AxonDisable(m, a, p), n, Publishers(n, p, Lazy \ Monitor))
          EXCEPT !.val[p] = Disabled]

(* type->eval(p): the value and the net the method leaves behind.          *)
Evaluation(n, p) ==
  [net   |-> n,
   value |-> IF p \in Term THEN ValueOf(n, n.def[p])
             ELSE IF p \in Rule THEN n.val[Left(p)]
             ELSE Evaluated(Kind[p], [i \in DOMAIN Args[p] |-> n.val[Args[p][i]]])]
EvalCell(n, p) ==
  Evaluation(IF p \notin Cond \/ Kind[p] \notin Lazy THEN n
             ELSE IF NeedsRight(Kind[p], n.val[Left(p)]) THEN AxonEnable(n, Right(p), p)
             ELSE AxonDisable(n, Right(p), p),
             p)

----------------------------------------------------------------------------
(* The hazards.  An inversion: a subscriber that is not above what it      *)
(* subscribes to.  A silenced rule: one that lost its condition when the   *)
(* last subscriber of the rule's own term left.  Two more are noted where  *)
(* they happen: ReactCell evaluates a disabled condition; a command stops  *)
(* or restarts a rule that others read, and nothing is published.          *)
LevelsOrdered(n) ==
  \A p \in Cell : \A s \in n.sub[p] : s \in Term \cup Cond => n.lev[s] > n.lev[p]

Silenced(n, rules) == \E r \in rules : n.val[r] = Disabled

(* Mutant: nbTermAssign does not cancel the subscription to the old        *)
(* definition.                                                             *)
TermAssignKeepOld(n, t, d) ==
  LET m == [n EXCEPT !.def[t] = d]
  IN  IF n.val[t] = Disabled \/ d \notin Value
      THEN n
      ELSE IF n.val[t] = d THEN m
      ELSE Publish([m EXCEPT !.val[t] = d, !.lev[t] = 0], t)

(* nbTermAssign(t, d): the term that was known as old is known as d, or    *)
(* as the value d has.                                                     *)
Renewed(n, t, d, old) ==
  LET m == [n EXCEPT !.val[t] = ValueOf(n, d)]
  IN  IF m.val[t] = old THEN m ELSE Publish(m, t)
Redefined(n, t, d, old) ==
  IF d \in Value
  THEN IF old = Disabled THEN [n EXCEPT !.val[t] = d]
       ELSE Renewed([n EXCEPT !.lev[t] = 0], t, d, old)
  ELSE IF old = Disabled THEN n
  ELSE IF n.sub[t] = {} THEN [Raised(n, t, d) EXCEPT !.val[t] = Disabled]
  ELSE Renewed(AxonEnable(Raised(n, t, d), d, t), t, d, old)
TermAssign(n, t, d) ==
  Redefined([AxonDisable(n, n.def[t], t) EXCEPT !.def[t] = d], t, d, n.val[t])

----------------------------------------------------------------------------
(* Levels of conditions when only value terms lie below them: useCondition *)
(* and nbConditionalUse.  What comes after "else" is put in later, without *)
(* a look at its level.                                                    *)
RECURSIVE Depth(_)
Depth(x) ==
  IF x \in Term THEN 0
  ELSE 1 + FoldSet(LAMBDA i, d : Max2(Depth(Args[x][i]), d), 0, DOMAIN Args[x] \cap {1, 2})

Init ==
  /\ shape \in Shapes
  /\ net = [def   |-> shape.first,
            val   |-> [c \in Cell |-> IF c \in Term THEN shape.first[c] ELSE Disabled],
            sub   |-> [c \in Cell |-> {}],
            lev   |-> [c \in Cell |-> IF c \in Cond THEN Depth(c) ELSE 0],
            sched |-> {},
            vec   |-> [l \in Level |-> {}],
            top   |-> 0]
  /\ defined = {}
  /\ live = {}
  /\ cursor = 0
  /\ reacting = FALSE
  /\ clean = TRUE

(* The net n is left behind and the rules in rules are live.              *)
Leave(n, rules, hazard) ==
  /\ net' = n
  /\ live' = rules
  /\ clean' = (clean /\ ~hazard /\ LevelsOrdered(n) /\ ~Silenced(n, rules))

(* A command or a rule action runs; nbCellReact is not on the stack.       *)
Command(n, rules, hazard) ==
  /\ ~reacting
  /\ Leave(n, rules, hazard)
  /\ UNCHANGED <<cursor, reacting>>

(* assert t=v or assert t==c: one assignment of nbAssert.                  *)
Assign(t, d) ==
  /\ net.def[t] # d
  /\ d \in shape.defs[t]
  /\ Command(TermAssign(net, t, d), live, FALSE)
  /\ UNCHANGED defined

(* useCondition for a new rule: it subscribes to its condition.            *)
UseCondition(n, r) ==
  Kept(Evaluation(AxonEnable([n EXCEPT !.lev[r] = n.lev[Left(r)] + 1], Left(r), r), r), r)

(* nbCmdDefine for a rule; a term that is already referred to is assigned  *)
(* the rule.                                                               *)
Named(n, t, r) == IF n.sub[t] = {} THEN n ELSE CellLevel(AxonEnable(n, r, t), t)
DefineRule(r) ==
  /\ r \notin defined
  /\ defined' = defined \cup {r}
  /\ LET m == UseCondition(net, r)
         t == RuleTerm[r]
     IN  Command(IF t = NoTerm THEN m ELSE Named(TermAssign(m, t, r), t, r),
                 live \cup {r}, FALSE)

(* destroyRule.                                                            *)
DestroyRule(n, r) == [AxonDisable(n, Left(r), r) EXCEPT !.val[r] = Disabled]

(* nbTermUndefine of a rule's term, which no expression refers to: by      *)
(* command, or by nbRuleAct after a when() rule has fired.                 *)
UndefineRule(r) ==
  /\ r \in defined
  /\ RuleTerm[r] = NoTerm
  /\ defined' = defined \ {r}
  /\ Command(DestroyRule(net, r), live \ {r}, FALSE)

(* The disable command on a rule that has a value.                         *)
DisableRule(r) ==
  /\ r \in defined
  /\ net.val[r] # Disabled
  /\ Command(Disable(net, r), live \ {r}, net.sub[r] # {})
  /\ UNCHANGED defined

(* The enable command on a rule that has none.                             *)
EnableRule(r) ==
  /\ r \in defined
  /\ net.val[r] = Disabled
  /\ Command(Kept(Evaluation(Enable(net, r), r), r), live \cup {r}, net.sub[r] # {})
  /\ UNCHANGED defined

ReactBegin ==
  /\ ~reacting
  /\ reacting' = TRUE
  /\ cursor' = 0
  /\ UNCHANGED <<net, defined, live, clean>>

(* One link: evaluate, clear the flag, keep and publish a changed value,   *)
(* take the link out and with it what was put in front of it meanwhile.    *)
Changed(e, c) ==
  IF e.value = e.net.val[c] THEN e.net ELSE Publish(Kept(e, c), c)
ReactCell(c) ==
  /\ reacting
  /\ cursor <= net.top
  /\ c \in net.vec[cursor]
  /\ Leave([Changed([EvalCell(net, c) EXCEPT !.net.sched = @ \ {c}], c)
             EXCEPT !.vec[cursor] = net.vec[cursor] \ {c}],
           live, net.val[c] = Disabled)
  /\ UNCHANGED <<defined, cursor, reacting>>

ReactLevel ==
  /\ reacting
  /\ cursor <= net.top
  /\ net.vec[cursor] = {}
  /\ cursor' = cursor + 1
  /\ UNCHANGED <<net, defined, live, reacting, clean>>

ReactEnd ==
  /\ reacting
  /\ cursor > net.top
  /\ net' = [net EXCEPT !.top = 0]
  /\ reacting' = FALSE
  /\ UNCHANGED <<defined, live, cursor, clean>>

Step ==
  \/ \E t \in Term : \E d \in shape.defs[t] : Assign(t, d)
  \/ \E r \in Rule : DefineRule(r) \/ UndefineRule(r) \/ DisableRule(r) \/ EnableRule(r)
  \/ ReactBegin
  \/ \E c \in Cell : ReactCell(c)
  \/ ReactLevel
  \/ ReactEnd

Next == Step /\ UNCHANGED shape

Spec == Init /\ [][Next]_vars

----------------------------------------------------------------------------
(* Every variable has its type.                                            *)
TypeOK ==
  /\ shape \in Shapes
  /\ net.def \in [Term -> Value \cup Cond \cup Rule]
  /\ net.val \in [Cell -> Value \cup {Disabled}]
  /\ net.sub \in [Cell -> SUBSET Cell]
  /\ net.lev \in [Cell -> Level]
  /\ net.sched \subseteq Cell \ Rule
  /\ net.vec \in [Level -> SUBSET (Cell \ Rule)]
  /\ net.top \in Level
  /\ live \subseteq defined /\ defined \subseteq Rule
  /\ cursor \in 0..MaxLevel + 1
  /\ {reacting, clean} \subseteq BOOLEAN

(* What a cell refers to.                                                  *)
Refers(x) ==
  IF x \in Term THEN {net.def[x]} \ Value
  ELSE Range(Args[x])

(* A subscription is always to something the subscriber refers to now: no  *)
(* alert ever comes from a definition a term has given up or for a rule    *)
(* that is gone.                                                           *)
SubscriptionsCurrent ==
  \A p \in Cell : \A s \in net.sub[p] :
    p \in Refers(s) /\ (s \in Rule => s \in defined)

(* The references x subscribes to while it is enabled; whether a lazy       *)
(* operator also subscribes to its right operand is up to its eval method. *)
Needed(x) == IF x \in Cond /\ Kind[x] \in Lazy THEN {Left(x)} ELSE Refers(x)

(* Without a hazard an enabled cell subscribes to all it needs: the        *)
(* leaving of one subscriber never breaks the chain of another.            *)
EnabledSubscribes ==
  clean => \A x \in Cond \cup Term :
             net.val[x] # Disabled => \A p \in Needed(x) : x \in net.sub[p]

(* Subscriptions are to what is needed, and what is needed is subscribed   *)
(* to, however definitions come and go.                                    *)
SubscriptionsSound == TypeOK /\ SubscriptionsCurrent /\ EnabledSubscribes

(* The value an object has by its definitions alone.  A lazy operator      *)
(* gives B for A && B "if A is True, else A", for A || B "if A is False,   *)
(* else A" (texi), and a monitor B or Unknown.                             *)
Meant(kind, v) ==
  CASE kind = "lazyand" -> IF v[1] = "T" THEN EvalAnd(v[1], v[2]) ELSE v[1]
    [] kind = "lazyor" -> EvalOr(v[1], v[2])
    [] kind = "then" -> IF v[1] = "T" THEN v[2] ELSE "U"
    [] kind = "orthen" -> IF v[1] = "F" THEN v[2] ELSE "U"
    [] OTHER -> Evaluated(kind, v)
RECURSIVE Denoted(_)
Denoted(x) ==
  IF x \in Value THEN x
  ELSE IF x \in Term THEN Denoted(net.def[x])
  ELSE LET v == [i \in DOMAIN Args[x] |-> Denoted(Args[x][i])]
       IN  IF x \in Rule THEN v[1] ELSE Meant(Kind[x], v)

(* After a reaction every rule has seen the value its condition has by the *)
(* definitions of the terms, through any sequence of assignments, rule     *)
(* definitions, undefinitions, stops and restarts that met no hazard.      *)
RulesInformed ==
  clean /\ ~reacting /\ net.sched = {} =>
    \A r \in live : net.val[r] = Denoted(r)

============================================================================
