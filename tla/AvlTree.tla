------------------------------ MODULE AvlTree ------------------------------
(* The balanced search trees of nbtree.c, which hold subscribers, terms,    *)
(* hash entries and the rows of node modules.  A tree is Nil or a node with *)
(* a key, a balance factor and two subtrees, and whatever else its owner    *)
(* keeps in it.  An insertion or a removal follows a path that a locate     *)
(* function has found; it trusts the balance factors it meets, and where    *)
(* they are wrong it may follow a null pointer: the result is Crash.        *)
EXTENDS Integers, SequencesExt, FiniteSetsExt

CONSTANTS
  Nil, Crash,
  Unknown,      \* the key nb_Unknown, neither string nor number
  Reals,        \* the keys that are numbers; other keys are strings
  Rank,         \* Rank[k]: the place of a number or string among its like
  Address       \* Address[k]: where the object k lies

(* treeCompare of the node modules: a string is after a number.  An unknown *)
(* value is after every string and before every number if it is the first   *)
(* argument, and before every string and after every number if the second.  *)
treeCompare(a, b) ==
  CASE a = b -> 0
    [] a = Unknown -> IF b \in Reals THEN -3 ELSE 3
    [] b = Unknown -> IF a \in Reals THEN -2 ELSE 2
    [] (a \in Reals) # (b \in Reals) -> IF a \in Reals THEN -2 ELSE 2
    [] OTHER -> Rank[a] - Rank[b]

(* nbTreeLocate compares addresses, nbTreeLocateValue calls treeCompare.    *)
Compare(ordered, a, b) == IF ordered THEN treeCompare(a, b) ELSE Address[a] - Address[b]

Opposite(side) == IF side = "left" THEN "right" ELSE "left"
Sign(side) == IF side = "left" THEN -1 ELSE 1

(* The steps to the key, or to where it has to be inserted, and whether     *)
(* each node left behind is out of balance.                                 *)
RECURSIVE nbTreeLocate(_, _, _)
nbTreeLocate(tree, key, ordered) ==
  IF tree = Nil \/ Compare(ordered, key, tree.key) = 0 THEN <<>>
  ELSE LET side == IF Compare(ordered, key, tree.key) > 0 THEN "right" ELSE "left"
       IN <<[side |-> side, tilted |-> tree.balance # 0]>>
            \o nbTreeLocate(tree[side], key, ordered)

(* The node from which balance factors change: the last one on the path     *)
(* that is out of balance, or the root.                                     *)
BalanceDepth(path) == Max({1} \cup {n \in DOMAIN path : path[n].tilted})

RECURSIVE NodeAt(_, _)
NodeAt(tree, path) ==
  IF path = <<>> THEN tree ELSE NodeAt(tree[path[1].side], Tail(path))

RECURSIVE WithNode(_, _, _)
WithNode(tree, path, node) ==
  IF path = <<>> THEN node
  ELSE [tree EXCEPT ![path[1].side] = WithNode(@, Tail(path), node)]

nbTreeFind(tree, key, ordered) == NodeAt(tree, nbTreeLocate(tree, key, ordered))

(* The last key not above the given one.                                    *)
RECURSIVE Floor(_, _, _)
Floor(tree, key, floor) ==
  IF tree = Nil THEN floor
  ELSE LET c == treeCompare(key, tree.key)
       IN CASE c = 0 -> tree
            [] c > 0 -> Floor(tree.right, key, tree)
            [] OTHER -> Floor(tree.left, key, floor)
nbTreeFindFloor(tree, key) == Floor(tree, key, Nil)

-----------------------------------------------------------------------------
(* Rotations.  y is too tall on one side: its child x there is made the     *)
(* root, or x's child w on the other side.                                  *)

Rotated(y, side, ybalance, xbalance) ==
  LET x == y[side]  other == Opposite(side)
  IN [x EXCEPT !.balance = xbalance,
               ![other] = [y EXCEPT !.balance = ybalance, ![side] = x[other]]]

(* Mutant: the factors of x and y are exchanged.                            *)
RotatedTwiceExchanged(y, side) ==
  LET x == y[side]  other == Opposite(side)  w == x[other]  s == Sign(side)
  IN IF w = Nil THEN Crash
     ELSE [w EXCEPT
            !.balance = 0,
            ![side] = [x EXCEPT ![other] = w[side], !.balance = IF w.balance = s THEN -s ELSE 0],
            ![other] = [y EXCEPT ![side] = w[other], !.balance = IF w.balance = -s THEN s ELSE 0]]
RotatedTwice(y, side) ==
  LET x == y[side]  other == Opposite(side)  w == x[other]  s == Sign(side)
  IN IF w = Nil THEN Crash
     ELSE [w EXCEPT
            !.balance = 0,
            ![side] = [x EXCEPT ![other] = w[side],
                                !.balance = IF w.balance \in {0, s} THEN 0 ELSE s],
            ![other] = [y EXCEPT ![side] = w[other],
                                 !.balance = IF w.balance = s THEN -s ELSE 0]]

(* nbTreeInsert: the factors from balanceP down change; only the node at    *)
(* balanceP can then be too tall.                                           *)
AfterInsert(y, side) ==
  CASE y.balance # 2 * Sign(side) -> y
    [] y[side].balance = Sign(side) -> Rotated(y, side, 0, 0)
    [] OTHER -> RotatedTwice(y, side)

RECURSIVE Inserted(_, _, _, _)
Inserted(tree, path, depth, node) ==
  IF path = <<>> THEN node
  ELSE LET side == path[1].side
           below == Inserted(tree[side], Tail(path), depth - 1, node)
           y == [tree EXCEPT ![side] = below, !.balance = @ + Sign(side)]
       IN CASE below = Crash -> Crash
            [] depth > 1 -> [tree EXCEPT ![side] = below]
            [] depth = 1 -> AfterInsert(y, side)
            [] OTHER -> y
nbTreeInsert(tree, path, node) == Inserted(tree, path, BalanceDepth(path), node)

(* nbTreeRemove: on the way back, as long as the subtree has become shorter *)
(* (more), the factor changes and the node may be too tall on the other     *)
(* side.                                                                    *)
Step(tree, more) == [tree |-> tree, more |-> more]

AfterRemove(y0, side) ==
  LET other == Opposite(side)  s == Sign(other)
      y == [y0 EXCEPT !.balance = @ + s]
      x == y[other]
  IN CASE y.balance = s -> Step(y, FALSE)
       [] y.balance # 2 * s -> Step(y, TRUE)
       [] x = Nil -> Step(Crash, FALSE)
       [] x.balance = -s -> Step(RotatedTwice(y, other), TRUE)
       [] x.balance = 0 -> Step(Rotated(y, other, s, -s), FALSE)
       [] OTHER -> Step(Rotated(y, other, 0, 0), TRUE)

Rejoined(tree, side, below) ==
  LET y == [tree EXCEPT ![side] = below.tree]
  IN CASE below.tree = Crash -> below
       [] below.more -> AfterRemove(y, side)
       [] OTHER -> Step(y, FALSE)

RECURSIVE FirstRemoved(_)
FirstRemoved(tree) ==
  IF tree.left = Nil THEN Step(tree.right, TRUE)
  ELSE Rejoined(tree, "left", FirstRemoved(tree.left))
RECURSIVE First(_)
First(tree) == IF tree.left = Nil THEN tree ELSE First(tree.left)

(* A node with a right subtree is replaced by the first node of it.         *)
TopRemoved(node) ==
  IF node.right = Nil THEN Step(node.left, TRUE)
  ELSE Rejoined([First(node.right) EXCEPT !.left = node.left, !.right = node.right,
                                          !.balance = node.balance],
                "right", FirstRemoved(node.right))

RECURSIVE Removed(_, _)
Removed(tree, path) ==
  IF path = <<>> THEN TopRemoved(tree)
  ELSE Rejoined(tree, path[1].side, Removed(tree[path[1].side], Tail(path)))
nbTreeRemove(tree, path) == Removed(tree, path).tree

-----------------------------------------------------------------------------
(* nbTreeFlatten makes the tree a list, nbTreeBalance a tree of a list of   *)
(* more than two nodes.  Neither touches a balance factor.                  *)

RECURSIVE InOrder(_)
InOrder(tree) ==
  IF tree = Nil THEN <<>>
  ELSE InOrder(tree.left) \o <<tree>> \o InOrder(tree.right)

nbTreeFlatten(tree) ==
  FoldRight(LAMBDA node, list : [node EXCEPT !.left = Nil, !.right = list], InOrder(tree), Nil)

RECURSIVE Bisected(_)
Bisected(nodes) ==
  LET n == Len(nodes)  half == IF n = 2 THEN 0 ELSE n \div 2
  IN IF n = 0 THEN Nil
     ELSE [nodes[half + 1] EXCEPT !.left = Bisected(SubSeq(nodes, 1, half)),
                                  !.right = Bisected(SubSeq(nodes, half + 2, n))]
nbTreeBalance(tree) == Bisected(InOrder(tree))

-----------------------------------------------------------------------------
RECURSIVE Height(_)
Height(tree) == IF tree = Nil THEN 0 ELSE 1 + Max({Height(tree.left), Height(tree.right)})

(* Every factor is the difference in height of the two sides, and at most 1 *)
RECURSIVE Balanced(_)
Balanced(tree) ==
  tree = Nil \/ /\ tree.balance = Height(tree.right) - Height(tree.left)
                /\ tree.balance \in -1..1
                /\ Balanced(tree.left) /\ Balanced(tree.right)
============================================================================
