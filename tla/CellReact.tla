----------------------------- MODULE CellReact -----------------------------
(***************************************************************************)
(* The reaction engine of NodeBrain (lib/nbcell.c): a change of a term is  *)
(* published to the subscribers of the term, nbCellAlert puts each of them *)
(* into the list of its level, and nbCellReact walks the lists upward,     *)
(* re-evaluating every listed cell once and publishing what changed.       *)
(*                                                                         *)
(* Here every cell is enabled and the subscriptions and levels are the     *)
(* ones the behaviour starts with; CellGraph models how they come about    *)
(* and change.  A list is a set: nbCellReact takes its links last in,      *)
(* first out, the model takes them in any order.                           *)
(***************************************************************************)
EXTENDS Naturals, FiniteSets

CONSTANTS
  Cell,       (* NB_Cell objects: terms and the conditions built on them   *)
  Source,     (* terms whose definition is a value, set by assertions      *)
  Value,      (* the NB_Object values a cell can have                      *)
  MaxLevel,   (* the last index of evalVector                              *)
  Graph,      (* the subscriptions and levels a behaviour may start with   *)
  Eval(_, _)  (* Eval(c, args): the eval method of c applied to the values *)
              (* of its operands, args \in [operands of c -> Value]        *)

ASSUME CellAssumption ==
  /\ Source \subseteq Cell
  /\ MaxLevel \in Nat
  /\ Graph \subseteq [sub : [Cell -> SUBSET Cell], level : [Cell -> 0..MaxLevel]]
  /\ \A c \in Cell, S \in SUBSET Cell :
       \A args \in [S -> Value] : Eval(c, args) \in Value

VARIABLES
  sub,        (* sub[p]: the subscribers of p (the tree pub->sub)          *)
  level,      (* level[c]: cell.level                                      *)
  value,      (* value[c]: object.value                                    *)
  scheduled,  (* the cells with NB_CELL_MODE_SCHEDULED                     *)
  vector,     (* vector[l]: the cells linked from evalVector[l]            *)
  top,        (* evalVectorTop, as an index                                *)
  cursor,     (* linkP of nbCellReact, as an index                         *)
  reacting,   (* control is inside nbCellReact                             *)
  done        (* history: the cells this reaction has evaluated            *)

graph == <<sub, level>>
vars == <<sub, level, value, scheduled, vector, top, cursor, reacting, done>>

Level == 0..MaxLevel

----------------------------------------------------------------------------
Operands(c) == {p \in Cell : c \in sub[p]}

Args(c) == [p \in Operands(c) |-> value[p]]

Evaluated(c) == Eval(c, Args(c))

(* A subscriber lies above what it subscribes to; a term that holds a      *)
(* value subscribes to nothing (nbTermAssign, useCondition, nbAxonEnable). *)
LevelsOrdered ==
  \A p \in Cell : \A s \in sub[p] : s \in Cell \ Source /\ level[s] > level[p]

(* nbCellAlert for all of A: every cell of A gets the flag and a link in   *)
(* the list of its level.                                                  *)
Listed(v, A) == [l \in Level |-> v[l] \cup {s \in A : level[s] = l}]

(* Mutant: evalVectorTop is not raised for a cell listed above it.         *)
IsTopUnraised(t, A) == t = top

(* evalVectorTop after the cells of A have been listed.                    *)
IsTopAfter(t, A) ==
  /\ t \in {top} \cup {level[s] : s \in A}
  /\ t >= top
  /\ \A s \in A : t >= level[s]

----------------------------------------------------------------------------
Init ==
  /\ \E g \in Graph : sub = g.sub /\ level = g.level
  /\ LevelsOrdered
  /\ value \in [Cell -> Value]
  /\ \A c \in Cell \ Source : value[c] = Evaluated(c)
  /\ scheduled = {}
  /\ vector = [l \in Level |-> {}]
  /\ top = 0
  /\ cursor = 0
  /\ reacting = FALSE
  /\ done = {}

(* Mutant: the new value is stored without being published.                *)
AssignUnpublished(t, v) ==
  /\ ~reacting
  /\ t \in Source
  /\ value[t] # v
  /\ value' = [value EXCEPT ![t] = v]
  /\ UNCHANGED <<sub, level, scheduled, vector, top, cursor, reacting, done>>

(* nbTermAssign gives the enabled term t the value v and publishes it.  A  *)
(* command may make several assignments before anything reacts.            *)
Assign(t, v) ==
  LET alerted == sub[t] \ scheduled
  IN  /\ ~reacting
      /\ t \in Source
      /\ value[t] # v
      /\ value' = [value EXCEPT ![t] = v]
      /\ scheduled' = scheduled \cup alerted
      /\ vector' = Listed(vector, alerted)
      /\ IsTopAfter(top', alerted)
      /\ top' \in Level
      /\ UNCHANGED <<sub, level, cursor, reacting, done>>

(* Entry of nbCellReact: linkP=evalVector.                                 *)
ReactBegin ==
  /\ ~reacting
  /\ reacting' = TRUE
  /\ cursor' = 0
  /\ done' = {}
  /\ UNCHANGED <<sub, level, value, scheduled, vector, top>>

(* Mutant: the work list is not ordered by level.                          *)
ReactCellAnyLevel(c) ==
  LET new     == Evaluated(c)
      alerted == IF new # value[c] THEN sub[c] \ (scheduled \ {c}) ELSE {}
  IN  /\ reacting
      /\ c \in scheduled
      /\ value' = [value EXCEPT ![c] = new]
      /\ scheduled' = (scheduled \ {c}) \cup alerted
      /\ vector' = [Listed(vector, alerted) EXCEPT ![level[c]] = @ \ {c}]
      /\ IsTopAfter(top', alerted)
      /\ top' \in Level
      /\ done' = done \cup {c}
      /\ UNCHANGED <<sub, level, cursor, reacting>>

(* Mutant: the evaluated cell's link is not taken out of the list.         *)
ReactCellKept(c) ==
  LET new     == Evaluated(c)
      alerted == IF new # value[c] THEN sub[c] \ (scheduled \ {c}) ELSE {}
  IN  /\ reacting
      /\ cursor <= top
      /\ c \in vector[cursor]
      /\ value' = [value EXCEPT ![c] = new]
      /\ scheduled' = (scheduled \ {c}) \cup alerted
      /\ vector' = Listed(vector, alerted)
      /\ IsTopAfter(top', alerted)
      /\ top' \in Level
      /\ done' = done \cup {c}
      /\ UNCHANGED <<sub, level, cursor, reacting>>

(* One link of the list at linkP: evaluate the cell, clear its flag, keep  *)
(* and publish a changed value, take the link out.  The final              *)
(* *linkP=link->next also takes out whatever publishing put in front of    *)
(* the link in this very list.                                             *)
ReactCell(c) ==
  LET new     == Evaluated(c)
      alerted == IF new # value[c] THEN sub[c] \ (scheduled \ {c}) ELSE {}
  IN  /\ reacting
      /\ cursor <= top
      /\ c \in vector[cursor]
      /\ value' = [value EXCEPT ![c] = new]
      /\ scheduled' = (scheduled \ {c}) \cup alerted
      /\ vector' = [Listed(vector, alerted) EXCEPT ![cursor] = vector[cursor] \ {c}]
      /\ IsTopAfter(top', alerted)
      /\ top' \in Level
      /\ done' = done \cup {c}
      /\ UNCHANGED <<sub, level, cursor, reacting>>

(* Mutant: linkP is advanced without regard to evalVectorTop.              *)
ReactLevelUnbounded ==
  /\ reacting
  /\ cursor \in Level => vector[cursor] = {}
  /\ cursor' = cursor + 1
  /\ UNCHANGED <<sub, level, value, scheduled, vector, top, reacting, done>>

(* linkP++ once the list is empty.                                         *)
ReactLevel ==
  /\ reacting
  /\ cursor <= top
  /\ vector[cursor] = {}
  /\ cursor' = cursor + 1
  /\ UNCHANGED <<sub, level, value, scheduled, vector, top, reacting, done>>

(* Mutant: the loop tests linkP<evalVectorTop.                             *)
ReactEndEarly ==
  /\ reacting
  /\ cursor >= top
  /\ top' = 0
  /\ reacting' = FALSE
  /\ UNCHANGED <<sub, level, value, scheduled, vector, cursor, done>>

(* Beyond evalVectorTop: reset it and return.                              *)
ReactEnd ==
  /\ reacting
  /\ cursor > top
  /\ top' = 0
  /\ reacting' = FALSE
  /\ UNCHANGED <<sub, level, value, scheduled, vector, cursor, done>>

ReactStep == (\E c \in Cell : ReactCell(c)) \/ ReactLevel \/ ReactEnd

Next ==
  \/ \E t \in Cell, v \in Value : Assign(t, v)
  \/ ReactBegin
  \/ ReactStep

Spec == Init /\ [][Next]_vars

(* nbCellReact is a loop without waits: once entered it runs to its end.   *)
FairSpec == Spec /\ WF_vars(ReactStep)

----------------------------------------------------------------------------
(* Every variable has its type.                                            *)
TypeOK ==
  /\ sub \in [Cell -> SUBSET Cell]
  /\ level \in [Cell -> Level]
  /\ value \in [Cell -> Value]
  /\ scheduled \subseteq Cell
  /\ vector \in [Level -> SUBSET Cell]
  /\ top \in Level
  /\ cursor \in 0..MaxLevel + 1
  /\ reacting \in BOOLEAN
  /\ done \subseteq Cell

(* A cell that carries the SCHEDULED flag is linked, at its own level, at  *)
(* or below evalVectorTop and not behind linkP: the flag makes nbCellAlert *)
(* ignore the cell, so a flagged cell that no list holds, or one left      *)
(* below linkP, is never evaluated again.                                  *)
NothingLost ==
  /\ \A l \in Level : \A c \in vector[l] : c \in scheduled /\ level[c] = l
  /\ \A c \in scheduled : c \in vector[level[c]]
  /\ \A c \in scheduled : level[c] <= top
  /\ reacting => \A c \in scheduled : level[c] >= cursor

(* When nbCellReact has returned and nothing was asserted since, every     *)
(* cell has the value its expression has for the present values of its     *)
(* operands: no update was lost and none was taken from a stale operand.   *)
Settled == ~reacting /\ scheduled = {}

SettledConsistent ==
  Settled => \A c \in Cell \ Source : value[c] = Evaluated(c)

(* nbCellReact leaves no work behind when it returns.                      *)
ReactDrains == [][reacting /\ ~reacting' => scheduled = {}]_vars

(* Within one reaction a cell that has been evaluated keeps its value and  *)
(* is not scheduled again: "all parameters have been adjusted before a     *)
(* cell is re-evaluated" (nbcell.c), so what subscribes to it, a rule for  *)
(* one, never sees a value on the way to the final one.                    *)
NoGlitch == reacting => done \cap scheduled = {}

(* A reaction that has begun returns.                                      *)
ReactReturns == reacting ~> ~reacting
============================================================================
