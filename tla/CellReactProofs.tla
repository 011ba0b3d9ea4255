-------------------------- MODULE CellReactProofs --------------------------
(***************************************************************************)
(* What CellReact promises, for every set of cells, every evaluation       *)
(* method and every level-ordered subscription graph.                      *)
(***************************************************************************)
EXTENDS CellReact, TLAPS

(* Outside the lists every condition already has the value of its          *)
(* expression; SettledConsistent is this with nothing in the lists.        *)
Consistent ==
  \A c \in Cell \ Source : c \notin scheduled => value[c] = Evaluated(c)

(* What a reaction has evaluated lies at or below linkP and is not listed. *)
DoneBehind == reacting => \A c \in done : level[c] <= cursor /\ c \notin scheduled

(* The inductive invariant.                                                *)
Inv == TypeOK /\ LevelsOrdered /\ NothingLost /\ Consistent /\ DoneBehind

----------------------------------------------------------------------------
(* The eval method of c reads nothing but the values of its operands.      *)
LEMMA EvaluatedFrame ==
  ASSUME NEW c, UNCHANGED sub, \A p \in Operands(c) : value'[p] = value[p]
  PROVE  Evaluated(c)' = Evaluated(c)
<1>1. Operands(c)' = Operands(c)
  BY DEF Operands
<1>2. Args(c)' = Args(c)
  BY <1>1 DEF Args
<1>3. QED
  BY <1>2 DEF Evaluated

(* An eval method returns a value.                                         *)
LEMMA EvaluatedType ==
  ASSUME TypeOK, NEW c \in Cell
  PROVE  Evaluated(c) \in Value
<1>1. Operands(c) \in SUBSET Cell
  BY DEF Operands
<1>2. Args(c) \in [Operands(c) -> Value]
  BY <1>1 DEF Args, TypeOK
<1>3. QED
  BY <1>1, <1>2, CellAssumption DEF Evaluated

(* Linking the cells of A leaves a list of cells at every level.           *)
LEMMA ListedType ==
  ASSUME NEW v \in [Level -> SUBSET Cell], NEW A \in SUBSET Cell
  PROVE  /\ Listed(v, A) \in [Level -> SUBSET Cell]
         /\ \A l \in Level : Listed(v, A)[l] = v[l] \cup {s \in A : level[s] = l}
BY DEF Listed

----------------------------------------------------------------------------
(* Every step keeps the types.                                             *)
LEMMA TypeStep == TypeOK /\ [Next]_vars => TypeOK'
<1> SUFFICES ASSUME TypeOK, [Next]_vars
             PROVE  TypeOK'
  OBVIOUS
<1>1. ASSUME NEW t \in Cell, NEW v \in Value, Assign(t, v)
      PROVE  TypeOK'
  <2>1. sub[t] \ scheduled \in SUBSET Cell
    BY DEF TypeOK
  <2>2. vector' \in [Level -> SUBSET Cell]
    BY <1>1, <2>1, ListedType DEF Assign, TypeOK
  <2>3. QED
    BY <1>1, <2>1, <2>2 DEF Assign, TypeOK
<1>2. CASE ReactBegin
  BY <1>2, CellAssumption DEF ReactBegin, TypeOK
<1>3. ASSUME NEW c \in Cell, ReactCell(c)
      PROVE  TypeOK'
  <2> DEFINE alerted == IF Evaluated(c) # value[c] THEN sub[c] \ (scheduled \ {c}) ELSE {}
  <2>1. alerted \in SUBSET Cell
    BY DEF TypeOK
  <2>2. Listed(vector, alerted) \in [Level -> SUBSET Cell]
    BY <2>1, ListedType DEF TypeOK
  <2>3. vector' \in [Level -> SUBSET Cell]
    BY <1>3, <2>2 DEF ReactCell, TypeOK
  <2>4. value' \in [Cell -> Value]
    BY <1>3, EvaluatedType DEF ReactCell, TypeOK
  <2>5. scheduled' \subseteq Cell /\ done' \subseteq Cell
    BY <1>3, <2>1 DEF ReactCell, TypeOK
  <2>6. QED
    BY <1>3, <2>3, <2>4, <2>5 DEF ReactCell, TypeOK
<1>4. CASE ReactLevel
  BY <1>4, CellAssumption DEF ReactLevel, TypeOK, Level
<1>5. CASE ReactEnd
  <2>1. 0 \in Level
    BY CellAssumption DEF Level
  <2>2. QED
    BY <1>5, <2>1 DEF ReactEnd, TypeOK
<1>6. CASE UNCHANGED vars
  BY <1>6 DEF vars, TypeOK
<1>7. QED
  BY <1>1, <1>2, <1>3, <1>4, <1>5, <1>6 DEF Next, ReactStep

(* The subscription graph and the levels do not change here.               *)
LEMMA GraphStep == LevelsOrdered /\ [Next]_vars => LevelsOrdered' /\ UNCHANGED graph
BY DEF LevelsOrdered, Next, ReactStep, Assign, ReactBegin, ReactCell, ReactLevel,
       ReactEnd, vars, graph

----------------------------------------------------------------------------
(* An assignment schedules all that reads the term, and nothing else       *)
(* becomes stale.                                                          *)
LEMMA AssignStep ==
  ASSUME Inv, TypeOK', NEW t \in Cell, NEW v \in Value, Assign(t, v)
  PROVE  NothingLost' /\ Consistent' /\ DoneBehind'
<1> DEFINE alerted == sub[t] \ scheduled
<1>1. alerted \in SUBSET Cell
  BY DEF Inv, TypeOK
<1>2. /\ vector' = Listed(vector, alerted)
      /\ scheduled' = scheduled \cup alerted
      /\ UNCHANGED <<sub, level, cursor, reacting, done>>
      /\ ~reacting
  BY DEF Assign
<1>3. \A l \in Level : vector'[l] = vector[l] \cup {s \in alerted : level[s] = l}
  BY <1>1, <1>2, ListedType DEF Inv, TypeOK
<1>4. NothingLost'
  <2>1. ASSUME NEW l \in Level, NEW c \in vector'[l]
        PROVE  c \in scheduled' /\ level[c] = l
    <3>1. CASE c \in vector[l]
      BY <1>2, <3>1 DEF Inv, NothingLost
    <3>2. CASE c \in alerted /\ level[c] = l
      BY <1>2, <3>2
    <3>3. QED
      BY <1>3, <2>1, <3>1, <3>2
  <2>2. ASSUME NEW c \in scheduled'
        PROVE  c \in vector'[level[c]]
    <3>1. level[c] \in Level
      BY <1>1, <1>2, <2>2 DEF Inv, TypeOK
    <3>2. c \in vector[level[c]] \/ c \in alerted
      BY <1>2, <2>2 DEF Inv, NothingLost
    <3>3. QED
      BY <1>3, <3>1, <3>2
  <2>3. (\A c \in scheduled : level[c] <= top)'
    <3>1. top' \in Level /\ top' >= top /\ \A s \in alerted : top' >= level[s]
      BY DEF Assign, IsTopAfter
    <3>2. QED
      BY <1>1, <1>2, <3>1, CellAssumption DEF Inv, NothingLost, TypeOK, Level
  <2>4. QED
    BY <1>2, <2>1, <2>2, <2>3 DEF NothingLost
<1>5. ASSUME NEW c \in Cell \ Source, c \notin scheduled'
      PROVE  value'[c] = Evaluated(c)'
  <2>1. t \notin Operands(c)
    BY <1>2, <1>5 DEF Operands
  <2>2. \A p \in Operands(c) : value'[p] = value[p]
    BY <2>1 DEF Assign, Inv, TypeOK, Operands
  <2>3. Evaluated(c)' = Evaluated(c)
    BY <2>2, EvaluatedFrame DEF Assign
  <2>4. value'[c] = value[c]
    BY DEF Assign, Inv, TypeOK
  <2>5. QED
    BY <1>2, <1>5, <2>3, <2>4 DEF Inv, Consistent
<1>6. QED
  BY <1>4, <1>5 DEF Consistent, DoneBehind, Assign

(* Evaluating a cell makes it consistent for good: what it alerts lies     *)
(* above linkP, and all that was evaluated before lies at or below it.     *)
LEMMA ReactCellStep ==
  ASSUME Inv, TypeOK', NEW c \in Cell, ReactCell(c)
  PROVE  NothingLost' /\ Consistent' /\ DoneBehind'
<1> DEFINE alerted == IF Evaluated(c) # value[c] THEN sub[c] \ (scheduled \ {c}) ELSE {}
<1>1. alerted \in SUBSET Cell
  BY DEF Inv, TypeOK
<1>2. /\ scheduled' = (scheduled \ {c}) \cup alerted
      /\ vector' = [Listed(vector, alerted) EXCEPT ![cursor] = vector[cursor] \ {c}]
      /\ UNCHANGED <<sub, level, cursor, reacting>>
      /\ value' = [value EXCEPT ![c] = Evaluated(c)]
      /\ done' = done \cup {c}
      /\ reacting
  BY DEF ReactCell
<1>3. cursor \in Level /\ c \in vector[cursor] /\ c \in scheduled /\ level[c] = cursor
  BY CellAssumption DEF ReactCell, Inv, NothingLost, TypeOK, Level
<1>4. \A s \in sub[c] : s \in Cell \ Source /\ level[s] > cursor
  BY <1>3 DEF Inv, LevelsOrdered
<1>5. \A l \in Level : l # cursor => vector'[l] = vector[l] \cup {s \in alerted : level[s] = l}
  BY <1>1, <1>2, ListedType DEF Inv, TypeOK
<1>6. vector'[cursor] = vector[cursor] \ {c}
  BY <1>1, <1>2, <1>3, ListedType DEF Inv, TypeOK
<1>7. NothingLost'
  <2>1. ASSUME NEW l \in Level, NEW d \in vector'[l]
        PROVE  d \in scheduled' /\ level[d] = l
    <3>1. CASE l = cursor
      BY <1>2, <1>3, <1>6, <2>1, <3>1 DEF Inv, NothingLost
    <3>2. CASE l # cursor /\ d \in vector[l]
      BY <1>2, <1>3, <3>2 DEF Inv, NothingLost
    <3>3. CASE l # cursor /\ d \in alerted /\ level[d] = l
      BY <1>2, <3>3
    <3>4. QED
      BY <1>5, <2>1, <3>1, <3>2, <3>3
  <2>2. ASSUME NEW d \in scheduled'
        PROVE  d \in vector'[level[d]]
    <3>1. CASE d \in alerted
      <4>1. level[d] \in Level /\ level[d] # cursor
        BY <1>1, <1>3, <1>4, <3>1, CellAssumption DEF Inv, TypeOK, Level
      <4>2. QED
        BY <1>5, <3>1, <4>1
    <3>2. CASE d \in scheduled \ {c}
      <4>1. level[d] \in Level /\ d \in vector[level[d]]
        BY <3>2 DEF Inv, NothingLost, TypeOK
      <4>2. QED
        BY <1>5, <1>6, <3>2, <4>1
    <3>3. QED
      BY <1>2, <2>2, <3>1, <3>2
  <2>3. ASSUME NEW d \in scheduled'
        PROVE  level[d] <= top'
    <3>1. top' \in Level /\ top' >= top /\ \A s \in alerted : top' >= level[s]
      BY DEF ReactCell, IsTopAfter
    <3>2. QED
      BY <1>1, <1>2, <2>3, <3>1, CellAssumption DEF Inv, NothingLost, TypeOK, Level
  <2>4. ASSUME NEW d \in scheduled'
        PROVE  level[d] >= cursor
    BY <1>2, <1>4, <1>3, <2>4, CellAssumption DEF Inv, NothingLost, TypeOK, Level
  <2>5. QED
    BY <1>2, <2>1, <2>2, <2>3, <2>4 DEF NothingLost
<1>8. ASSUME NEW d \in Cell \ Source, d \notin scheduled'
      PROVE  value'[d] = Evaluated(d)'
  <2>1. \A p \in Operands(d) : value'[p] = value[p]
    BY <1>2, <1>4, <1>8 DEF Operands, Inv, TypeOK
  <2>2. Evaluated(d)' = Evaluated(d)
    BY <1>2, <2>1, EvaluatedFrame
  <2>3. CASE d = c
    BY <1>2, <2>2, <2>3 DEF Inv, TypeOK
  <2>4. CASE d # c
    BY <1>2, <1>8, <2>2, <2>4 DEF Inv, TypeOK, Consistent
  <2>5. QED
    BY <2>3, <2>4
<1>9. ASSUME NEW d \in done'
      PROVE  level[d] <= cursor /\ d \notin scheduled'
  BY <1>2, <1>3, <1>4, <1>9, CellAssumption DEF Inv, DoneBehind, TypeOK, Level
<1>10. QED
  BY <1>2, <1>7, <1>8, <1>9 DEF Consistent, DoneBehind

(* A level is left only when its list is empty.                            *)
LEMMA ReactLevelStep ==
  ASSUME Inv, TypeOK', ReactLevel
  PROVE  NothingLost' /\ Consistent' /\ DoneBehind'
<1>1. \A c \in scheduled : level[c] >= cursor + 1
  BY CellAssumption DEF Inv, ReactLevel, NothingLost, TypeOK, Level
<1>2. NothingLost'
  BY <1>1 DEF Inv, ReactLevel, NothingLost
<1>3. \A c \in Cell : Evaluated(c)' = Evaluated(c)
  BY EvaluatedFrame DEF ReactLevel
<1>4. Consistent'
  BY <1>3 DEF Inv, ReactLevel, Consistent
<1>5. DoneBehind'
  BY CellAssumption DEF Inv, ReactLevel, DoneBehind, TypeOK, Level
<1>6. QED
  BY <1>2, <1>4, <1>5

(* When linkP is beyond evalVectorTop every list is empty.                 *)
LEMMA ReactEndDrains ==
  ASSUME Inv, ReactEnd
  PROVE  scheduled = {}
BY CellAssumption DEF Inv, ReactEnd, NothingLost, TypeOK, Level

(* Entering and leaving nbCellReact.                                       *)
LEMMA ReactEdgeStep ==
  ASSUME Inv, TypeOK', ReactBegin \/ ReactEnd
  PROVE  NothingLost' /\ Consistent' /\ DoneBehind'
<1>1. UNCHANGED <<sub, level, value, scheduled, vector>>
  BY DEF ReactBegin, ReactEnd
<1>2. \A c \in Cell : Evaluated(c)' = Evaluated(c)
  BY <1>1, EvaluatedFrame
<1>3. Consistent'
  BY <1>1, <1>2 DEF Inv, Consistent
<1>4. CASE ReactBegin
  BY <1>1, <1>3, <1>4, CellAssumption
     DEF ReactBegin, Inv, NothingLost, DoneBehind, TypeOK, Level
<1>5. CASE ReactEnd
  BY <1>1, <1>3, <1>5, ReactEndDrains DEF ReactEnd, Inv, NothingLost, DoneBehind
<1>6. QED
  BY <1>4, <1>5

----------------------------------------------------------------------------
(* The invariant holds initially.                                          *)
LEMMA InitInv == Init => Inv
<1> SUFFICES ASSUME Init
             PROVE  Inv
  OBVIOUS
<1>1. TypeOK
  <2>1. 0 \in Level
    BY CellAssumption DEF Level
  <2>2. sub \in [Cell -> SUBSET Cell] /\ level \in [Cell -> Level]
    BY CellAssumption DEF Init, Level
  <2>3. cursor \in 0..MaxLevel + 1
    BY CellAssumption DEF Init
  <2>4. vector \in [Level -> SUBSET Cell]
    BY DEF Init
  <2>5. QED
    BY <2>1, <2>2, <2>3, <2>4 DEF Init, TypeOK
<1>2. NothingLost /\ Consistent /\ DoneBehind
  BY DEF Init, NothingLost, Consistent, DoneBehind
<1>3. QED
  BY <1>1, <1>2 DEF Init, Inv

(* Every step of the engine keeps the invariant.                           *)
LEMMA NextInv == Inv /\ [Next]_vars => Inv'
<1> SUFFICES ASSUME Inv, [Next]_vars
             PROVE  Inv'
  OBVIOUS
<1>1. TypeOK'
  BY TypeStep DEF Inv
<1>2. LevelsOrdered'
  BY GraphStep DEF Inv
<1>3. CASE \E t \in Cell, v \in Value : Assign(t, v)
  BY <1>1, <1>2, <1>3, AssignStep DEF Inv
<1>4. CASE \E c \in Cell : ReactCell(c)
  BY <1>1, <1>2, <1>4, ReactCellStep DEF Inv
<1>5. CASE ReactLevel
  BY <1>1, <1>2, <1>5, ReactLevelStep DEF Inv
<1>6. CASE ReactBegin \/ ReactEnd
  BY <1>1, <1>2, <1>6, ReactEdgeStep DEF Inv
<1>7. CASE UNCHANGED vars
  <2>1. \A c \in Cell : Evaluated(c)' = Evaluated(c)
    BY <1>7, EvaluatedFrame DEF vars
  <2>2. QED
    BY <1>1, <1>2, <1>7, <2>1 DEF vars, Inv, NothingLost, Consistent, DoneBehind
<1>8. QED
  BY <1>3, <1>4, <1>5, <1>6, <1>7 DEF Next, ReactStep

(* Every state of the engine satisfies the invariant.                      *)
THEOREM Invariance == Spec => []Inv
BY InitInv, NextInv, PTL DEF Spec

(* The variables keep their types (TypeOK).                                *)
THEOREM TypeCorrect == Spec => []TypeOK
<1>1. Inv => TypeOK
  BY DEF Inv
<1>2. QED
  BY <1>1, Invariance, PTL

(* No alert of nbCellAlert is ever lost by nbCellReact.                    *)
THEOREM NoLostAlert == Spec => []NothingLost
<1>1. Inv => NothingLost
  BY DEF Inv
<1>2. QED
  BY <1>1, Invariance, PTL

(* After nbCellReact every condition has the value of its expression.      *)
THEOREM SettledIsConsistent == Spec => []SettledConsistent
<1>1. Inv => SettledConsistent
  BY DEF Inv, SettledConsistent, Settled, Consistent
<1>2. QED
  BY <1>1, Invariance, PTL

(* A reaction evaluates no cell twice, so none shows a transient value.    *)
THEOREM GlitchFree == Spec => []NoGlitch
<1>1. Inv => NoGlitch
  BY DEF Inv, NoGlitch, DoneBehind
<1>2. QED
  BY <1>1, Invariance, PTL

(* nbCellReact returns only with nothing left to evaluate.                 *)
THEOREM ReactionDrains == Spec => ReactDrains
<1>1. Inv /\ [Next]_vars => [reacting /\ ~reacting' => scheduled = {}]_vars
  BY ReactEndDrains DEF Next, ReactStep, Assign, ReactBegin, ReactCell, ReactLevel, vars
<1>2. QED
  BY <1>1, Invariance, PTL DEF Spec, ReactDrains
============================================================================
