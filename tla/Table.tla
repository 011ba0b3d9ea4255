------------------------------- MODULE Table -------------------------------
(* What a tree node promises (module/tree): a table of rows, each a         *)
(* sequence of arguments with a value, which assertions add, replace and    *)
(* remove.  The elements are the rows and their heads; a head lives as long *)
(* as it has a value or a longer element, and a pruned one stays until a    *)
(* row below it is removed.                                                 *)
EXTENDS Sequences, Functions

VARIABLES
  value,        \* value[row]: a function on the rows that have a value
  elements,     \* the rows and their heads
  spoiled       \* nothing is promised any more

vars == <<value, elements, spoiled>>

Heads(row) == {SubSeq(row, 1, n) : n \in 1..Len(row)}
Below(row, set) == {r \in set : Len(r) > Len(row) /\ SubSeq(r, 1, Len(row)) = row}
Without(rows) == Restrict(value, DOMAIN value \ rows)

Init ==
  /\ ~spoiled
  /\ elements = UNION {Heads(row) : row \in DOMAIN value}

Assert(row, v) ==
  /\ value' = [r \in DOMAIN value \cup {row} |-> IF r = row THEN v ELSE value[r]]
  /\ elements' = elements \cup Heads(row)

(* The row's value is removed, then the element and the heads before it,   *)
(* one after another, up to the first that is still needed.                *)
Retract(row) ==
  /\ row \in elements
  /\ value' = Without({row})
  /\ LET needed(n) == LET head == SubSeq(row, 1, n)
                      IN head \in DOMAIN value' \/ Below(head, elements) \ Heads(row) # {}
     IN elements' = elements \ {h \in Heads(row) :
          \A n \in Len(h)..Len(row) : ~needed(n)}

Prune(row) ==
  /\ row \in elements
  /\ value' = Without(Below(row, elements))
  /\ elements' = elements \ Below(row, elements)

Clear == value' = <<>> /\ elements' = {}

Next ==
  \/ /\ ~spoiled /\ ~spoiled'
     /\ \E row \in elements' \cup elements :
          \/ \E v \in Range(value') : Assert(row, v)
          \/ Retract(row)
          \/ Prune(row)
  \/ Clear /\ ~spoiled'
  \/ spoiled'

Spec == Init /\ [][Next]_vars
============================================================================
