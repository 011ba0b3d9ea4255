------------------------------ MODULE RelAxon -------------------------------
(* Relational conditions on a term, with constants on their right: a=3,    *)
(* a<5 (nbcondition.c).  Few of them subscribe to the term themselves.     *)
(* When one more would make the term's tree of subscribers too deep, they  *)
(* are moved under axon cells (nbaxon.c), one for each operator, that keep *)
(* them in a search tree by constant, remember what the term was, and on a *)
(* change set those conditions right that the change is about.  A command  *)
(* assigns the term and enables and disables conditions; then the listed   *)
(* cells react and rules fire.                                             *)
EXTENDS AvlTree

CONSTANTS
  Const,        \* the constants: numbers in the order of the objects
  Other,        \* any value of the other type: a string if Const are reals
  Executions,   \* the type of the constants, and the conditions there are
  MaxDirect,    \* bound: relational conditions subscribed to the term itself
  None, Disabled

Op == {"eq", "ne", "lt", "le", "gt", "ge"}
Value == Const \cup {Unknown, Other}

ASSUME AxonAssumption ==
  /\ Const \subseteq Int /\ Other \notin Const /\ Unknown \notin Const \cup {Other}
  /\ Executions \subseteq [type : {"real", "string"}, conds : SUBSET (Op \X Const)]
  /\ MaxDirect \in Nat

VARIABLES
  given,        \* the execution
  pub,          \* the value of the term
  boost,        \* NB_CELL_MODE_AXON_BOOST of the term
  direct,       \* the conditions that subscribe to the term
  tree,         \* the subscribers of the axon of an operator; Nil: no axon
  last,         \* trueCell, falseCell, real or string of the axon
  val,          \* the values of conditions
  rule,         \* an on() rule on each: its value and the status of its action
  listed,       \* the conditions and axons in evalVector
  pc,           \* "command", "react" or "act"
  was,          \* history: what axons remembered before the reaction, and the
                \* values of the rules before the command
  had,          \* history: the strings the term has had
  clean         \* history: no hazard met

net == <<boost, direct, tree, last>>
vars == <<given, pub, net, val, rule, listed, pc, was, had, clean>>

Conds == given.conds
Axon(x) == <<x>>
Equality(x) == x \in {"eq", "ne"}
Strings(S) == IF given.type = "string" THEN S \cap Const ELSE {}
Keys(t) == {n.key : n \in Range(InOrder(t))}
Node(k) == [key |-> k, balance |-> 0, left |-> Nil, right |-> Nil]

Init ==
  /\ given \in Executions /\ pub \in {Unknown, Other} \cup Const
  /\ boost = FALSE /\ direct = {} /\ tree = [x \in Op |-> Nil] /\ last = [x \in Op |-> None]
  /\ val = [c \in Conds |-> Disabled] /\ rule = [c \in Conds |-> [status |-> "R", val |-> Disabled]]
  /\ listed = {} /\ pc = "command" /\ clean = TRUE
  /\ was = [last |-> last, rules |-> [c \in Conds |-> Disabled]]
  /\ had = Strings({pub})

-----------------------------------------------------------------------------
(* The eval methods of the conditions: evalRelEQ to evalRelGE.             *)
Holds(x, v, k) ==
  CASE x = "eq" -> v = k  [] x = "ne" -> v # k  [] x = "lt" -> v < k
    [] x = "le" -> v <= k [] x = "gt" -> v > k  [] x = "ge" -> v >= k
Truth(b) == IF b THEN "T" ELSE "F"
EvalRel(c) ==
  CASE pub = Unknown -> "U"
    [] pub \in Const -> Truth(Holds(c[1], pub, c[2]))
    [] OTHER -> IF Equality(c[1]) THEN Truth(c[1] = "ne") ELSE "U"

(* alertRule: the rule of a condition hears that it has been set to v.     *)
Alerted(r, v) ==
  [val |-> v,
   status |-> IF v # "T" THEN (IF r.status = "S" THEN "E" ELSE r.status)
              ELSE IF r.status # "R" THEN "E"
              ELSE IF r.val # "T" THEN "S" ELSE "R"]

(* nbCellPublish of conditions set in turn.                                *)
Told(changes) ==
  /\ val' = FoldLeft(LAMBDA f, s : [f EXCEPT ![s.cond] = s.value], val, changes)
  /\ rule' = FoldLeft(LAMBDA f, s : IF f[s.cond].val = Disabled THEN f
                                    ELSE [f EXCEPT ![s.cond] = Alerted(@, s.value)],
                      rule, changes)
Set(x, k, v) == [cond |-> <<x, k>>, value |-> v]

-----------------------------------------------------------------------------
(* nbAxonEnableBoost: a condition into the tree of its axon a, and what the *)
(* axon is to remember from now on.  An axon of = remembers the condition   *)
(* that is true, one of <> the one that is false.                           *)
LastOfRange == IF pub \in Const THEN pub ELSE None
LastAfter(x, k, old) ==
  CASE ~Equality(x) -> LastOfRange
    [] pub = Unknown -> Unknown
    [] OTHER -> IF pub = k THEN k ELSE old
Enter(a, c) ==
  LET x == c[1]  k == c[2]  path == nbTreeLocate(a.tree[x], k, ~Equality(x))
  IN [tree |-> [a.tree EXCEPT ![x] = nbTreeInsert(@, path, Node(k))],
      last |-> [a.last EXCEPT ![x] = LastAfter(x, k, @)]]

Axons == [tree |-> tree, last |-> last]
SetAxons(a) == tree' = a.tree /\ last' = a.last

(* nbAxonEnableRelEq, -RelNe, -RelRange and nbAxonEnableBoostMaybe.  How    *)
(* deep the path to a new subscriber is depends on addresses and on the     *)
(* other subscribers.  Once it is too deep all conditions get an axon.      *)
Subscribe(c) ==
  \/ /\ ~boost /\ Cardinality(direct) < MaxDirect
     /\ direct' = direct \cup {c} /\ UNCHANGED <<boost, tree, last>>
  \/ /\ ~boost
     /\ \E order \in SetToSeqs(direct) : SetAxons(FoldLeft(Enter, Axons, <<c>> \o order))
     /\ boost' = TRUE /\ direct' = {}
  \/ /\ boost /\ SetAxons(Enter(Axons, c)) /\ UNCHANGED <<boost, direct>>

(* nbAxonDisableRelEq, -RelNe, -RelRange; an axon without subscribers is    *)
(* destroyed.                                                               *)
Without(t, k, x) ==
  IF k \in Keys(t) THEN nbTreeRemove(t, nbTreeLocate(t, k, ~Equality(x))) ELSE t
(* Mutant: the axon still remembers the condition that leaves.              *)
LeaveRemembered(x, k) ==
  LET left == Without(tree[x], k, x)
  IN [tree |-> [tree EXCEPT ![x] = left], last |-> [last EXCEPT ![x] = IF left = Nil THEN None ELSE @]]
Leave(x, k) ==
  LET left == Without(tree[x], k, x)
  IN [tree |-> [tree EXCEPT ![x] = left],
      last |-> [last EXCEPT ![x] = IF left = Nil \/ (Equality(x) /\ @ = k) THEN None ELSE @]]

Unsubscribe(c) ==
  \/ ~boost /\ direct' = direct \ {c} /\ UNCHANGED <<boost, tree, last>>
  \/ boost /\ SetAxons(Leave(c[1], c[2])) /\ UNCHANGED <<boost, direct>>

-----------------------------------------------------------------------------
(* One command: assertions, and conditions that get or lose a subscriber,   *)
(* here the rule, when rules are defined and undefined or when terms are    *)
(* assigned expressions with them.                                          *)

(* Bound: nothing is claimed after a hazard, so no more is done.            *)
Commands == pc = "command" /\ clean

(* nbTermAssign publishes a new value.                                      *)
Assign(v) ==
  /\ Commands /\ v # pub
  /\ pub' = v /\ listed' = listed \cup direct \cup {Axon(x) : x \in {y \in Op : tree[y] # Nil}}
  /\ had' = Strings(had \cup {v})
  /\ UNCHANGED <<given, net, val, rule, pc, was, clean>>

(* nbAxonEnable of a condition; one that has a value is not enabled again.  *)
(* Conditions with = and <> are evaluated when they get under an axon, and  *)
(* nobody is told.  Hazards: what a listed axon remembers is lost, and so   *)
(* is the change of a listed condition.                                     *)
Moved == IF boost' THEN direct ELSE {}
Evaluated(c) == {d \in {c} : val[d] = Disabled} \cup {d \in Moved : Equality(d[1])}
Enable(c) ==
  /\ Commands /\ rule[c].val = Disabled
  /\ IF val[c] = Disabled THEN Subscribe(c) ELSE UNCHANGED net
  /\ val' = [d \in Conds |-> IF d \in Evaluated(c) THEN EvalRel(d) ELSE val[d]]
  /\ rule' = [rule EXCEPT ![c] = [status |-> "R", val |-> val'[c]]]
  /\ was' = [was EXCEPT !.rules[c] = val'[c]]
  /\ clean' = (clean /\ Moved \cap listed = {}
                     /\ (Axon(c[1]) \in listed => last'[c[1]] = last[c[1]]))
  /\ UNCHANGED <<given, pub, listed, pc, had>>

(* nbAxonDisable of a condition.  Hazards: it is listed, or its axon is and *)
(* goes with it.                                                            *)
Freed(c) == {a \in {Axon(c[1])} \cap listed : tree'[c[1]] = Nil}
Disable(c) ==
  /\ Commands /\ rule[c].val # Disabled
  /\ Unsubscribe(c)
  /\ val' = [val EXCEPT ![c] = Disabled]
  /\ rule' = [rule EXCEPT ![c] = [status |-> "R", val |-> Disabled]]
  /\ was' = [was EXCEPT !.rules[c] = Disabled]
  /\ listed' = (listed \ Freed(c)) \cup {Axon("freed") : a \in Freed(c)}
  /\ clean' = (clean /\ c \notin listed /\ Freed(c) = {})
  /\ UNCHANGED <<given, pub, pc, had>>

-----------------------------------------------------------------------------
(* nbCellReact.  Axons stand below their conditions, and neither the order  *)
(* among them nor among conditions makes a difference.                      *)

React ==
  /\ pc = "command" /\ pc' = "react" /\ was' = [was EXCEPT !.last = last]
  /\ UNCHANGED <<given, pub, net, val, rule, listed, had, clean>>

(* A condition is evaluated, and published if its value has changed.        *)
ReactCond(c) ==
  /\ pc = "react" /\ c \in listed
  /\ Told(IF EvalRel(c) = val[c] THEN <<>> ELSE <<Set(c[1], c[2], EvalRel(c))>>)
  /\ listed' = listed \ {c}
  /\ UNCHANGED <<given, pub, net, pc, was, had, clean>>

(* nbCellPublish of an axon: its conditions are listed.                     *)
ListAll(x) == listed' = (listed \ {Axon(x)}) \cup ({x} \X Keys(tree[x]))
Only(x) == listed' = listed \ {Axon(x)}

(* evalAxonRelEq and evalAxonRelNe.  The condition with the new value is    *)
(* set, and the one remembered is set the other way.                        *)
Hit(x) == Truth(x = "eq")
Miss(x) == Truth(x = "ne")
(* Mutant: the condition remembered stays as it is.                         *)
OutdatedNever(x) == <<>>
Outdated(x) == IF last[x] = None THEN <<>> ELSE <<Set(x, last[x], Miss(x))>>
EvalAxonEq(x) ==
  LET found == nbTreeFind(tree[x], pub, FALSE)
      match == IF found = Nil THEN None ELSE found.key
  IN IF Unknown \in {pub, last[x]}
     THEN /\ last' = [last EXCEPT ![x] = IF pub = Unknown THEN Unknown ELSE match]
          /\ ListAll(x) /\ UNCHANGED <<val, rule>>
     ELSE /\ last' = [last EXCEPT ![x] = match] /\ Only(x)
          /\ Told(IF match = last[x] THEN <<>>
                  ELSE IF match = None THEN Outdated(x)
                  ELSE <<Set(x, match, Hit(x))>> \o Outdated(x))

(* The sweep of evalAxonRelReal and nbAxonRelStringSweep: the constants     *)
(* between the old and the new value, with the lower end (-1) or the upper  *)
(* one (1).  First the stack is filled on the way down to the lower end;    *)
(* a node taken from it is followed by what lies to its right.              *)
Edge(x) ==
  IF given.type = "real" THEN (IF x \in {"gt", "le"} THEN -1 ELSE 1)
  ELSE IF x \in {"gt", "lt"} THEN -1 ELSE 1

Within(t, max, edge) == IF t.key < max \/ (t.key = max /\ edge = 1) THEN <<t>> ELSE <<>>
RECURSIVE Down(_, _, _, _), Along(_, _, _), Popped(_, _, _)
Down(t, min, max, edge) ==
  CASE t = Nil -> <<>>
    [] t.key > min -> Within(t, max, edge) \o Down(t.left, min, max, edge)
    [] t.key = min /\ edge = -1 -> <<t>> \o Down(t.right, min, max, edge)
    [] OTHER -> Down(t.right, min, max, edge)
Along(t, max, edge) ==
  IF t = Nil THEN <<>> ELSE Within(t, max, edge) \o Along(t.left, max, edge)
Popped(stack, max, edge) ==
  IF stack = <<>> THEN <<>>
  ELSE LET t == Last(stack)
       IN <<t.key>> \o Popped(Front(stack) \o Along(t.right, max, edge), max, edge)

Swept(x) ==
  LET min == Min({last[x], pub})  max == Max({last[x], pub})
  IN Popped(Down(tree[x], min, max, Edge(x)), max, Edge(x))

(* evalAxonRelReal, evalAxonRelLtString to evalAxonRelGeString.             *)
Rising(x) == IF given.type = "real" THEN last[x] < pub ELSE last[x] <= pub
EvalAxonRange(x) ==
  /\ last' = [last EXCEPT ![x] = LastOfRange]
  /\ IF pub \in Const /\ last[x] = None
     THEN ListAll(x) /\ UNCHANGED <<val, rule>>
     ELSE /\ Only(x)
          /\ LET new == Truth(Rising(x) = (x \in {"gt", "ge"}))
                 all == InOrder(tree[x])
             IN Told(IF pub \in Const
                     THEN [i \in DOMAIN Swept(x) |-> Set(x, Swept(x)[i], new)]
                     ELSE IF last[x] = None THEN <<>>
                     ELSE [i \in DOMAIN all |-> Set(x, all[i].key, "U")])

(* Hazard: a string was assigned back before the reaction; the sweep takes  *)
(* it for one that has risen.                                               *)
ReactAxon(x) ==
  /\ pc = "react" /\ Axon(x) \in listed
  /\ IF Equality(x) THEN EvalAxonEq(x) ELSE EvalAxonRange(x)
  /\ clean' = (clean /\ ~(given.type = "string" /\ ~Equality(x) /\ last[x] = pub))
  /\ UNCHANGED <<given, pub, boost, direct, tree, pc, was, had>>

(* The link to a destroyed axon is followed; nothing is claimed after it.   *)
ReactFreed ==
  /\ pc = "react" /\ Axon("freed") \in listed /\ listed' = listed \ {Axon("freed")}
  /\ UNCHANGED <<given, pub, net, val, rule, pc, was, had, clean>>

ReactEnd ==
  /\ pc = "react" /\ listed = {} /\ pc' = "act"
  /\ UNCHANGED <<given, pub, net, val, rule, listed, was, had, clean>>

(* nbRuleReact and nbRuleDouse: the rules with status S fire, and all are    *)
(* ready again.                                                             *)
(* Mutant: a rule that was suppressed stays so.                             *)
ActSuppressed ==
  /\ pc = "act" /\ pc' = "command"
  /\ rule' = [c \in Conds |-> [rule[c] EXCEPT !.status = IF @ = "S" THEN "R" ELSE @]]
  /\ was' = [last |-> [x \in Op |-> None], rules |-> [c \in Conds |-> rule[c].val]]
  /\ UNCHANGED <<given, pub, net, val, listed, had, clean>>
Act ==
  /\ pc = "act" /\ pc' = "command"
  /\ rule' = [c \in Conds |-> [rule[c] EXCEPT !.status = "R"]]
  /\ was' = [last |-> [x \in Op |-> None], rules |-> [c \in Conds |-> rule[c].val]]
  /\ UNCHANGED <<given, pub, net, val, listed, had, clean>>

Next ==
  \/ \E v \in Value : Assign(v)
  \/ \E c \in Conds : Enable(c) \/ Disable(c) \/ ReactCond(c)
  \/ \E x \in Op : ReactAxon(x)
  \/ React \/ ReactFreed \/ ReactEnd \/ Act

Spec == Init /\ [][Next]_vars

-----------------------------------------------------------------------------
Enabled == {c \in Conds : rule[c].val # Disabled}
Accelerated(c) == c[2] \in Keys(tree[c[1]])

(* The conditions with a subscriber are either all subscribers of the term  *)
(* or all in the trees of their axons, which are search trees in balance,   *)
(* and what an axon of = or <> remembers is one of its conditions that is   *)
(* true, or false: it never sets one that has left.                         *)
Remembers(x) ==
  \/ last[x] \in {None, Unknown}
  \/ <<x, last[x]>> \in Conds /\ Accelerated(<<x, last[x]>>) /\ val[<<x, last[x]>>] = Hit(x)
Sorted(t, k) == nbTreeFind(t, k, FALSE) # Nil
AxonsSound ==
  clean =>
    /\ Enabled = IF boost THEN UNION {{x} \X Keys(tree[x]) : x \in Op} ELSE direct
    /\ \A x \in Op : Balanced(tree[x])
    /\ \A x \in {"eq", "ne"} :
         Axon(x) \notin listed /\ ({x} \X Const) \cap listed = {} => Remembers(x)

(* After a reaction every condition has the value its operator gives, as if *)
(* it had been evaluated itself -- but conditions a<k and a<=k on a string  *)
(* k that the term has had: their axons have each other's edge.             *)
WrongEdge(c) ==
  given.type = "string" /\ c[1] \in {"lt", "le"} /\ c[2] \in had /\ Accelerated(c)
AxonsAccurate ==
  clean /\ pc = "act" => \A c \in Enabled : val[c] = EvalRel(c) \/ WrongEdge(c)

(* An on() rule fires after a command exactly if its condition has become   *)
(* true, however often the term was assigned -- but a sweep that starts at  *)
(* the constant of another condition may meet a condition twice, and the    *)
(* second alert suppresses the rule.                                        *)
MetTwice(c) ==
  /\ Edge(c[1]) = -1
  /\ {was.last[c[1]], pub} \subseteq Const
  /\ LET min == Min({was.last[c[1]], pub}) IN min < c[2] /\ Accelerated(<<c[1], min>>)
FiresOnce ==
  clean /\ pc = "act" =>
    \A c \in Enabled :
      LET turned == val[c] = "T" /\ was.rules[c] # "T"
      IN \/ (rule[c].status = "S") = turned /\ rule[c].status # "E"
         \/ rule[c].status = "E" /\ turned /\ MetTwice(c)
=============================================================================
