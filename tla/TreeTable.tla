----------------------------- MODULE TreeTable -----------------------------
(* A node with the tree skill (module/tree/nb_tree.c): a search tree of the *)
(* first arguments, with a search tree of the second arguments below each   *)
(* of them, and so on.  Assertions add, change and remove rows; commands    *)
(* prune, flatten, balance and store the tree.  The variables value and     *)
(* elements keep what module Table would hold.                              *)
EXTENDS AvlTree, Functions

CONSTANTS
  NoValue,      \* the value of an element that has none
  Configs       \* the nodes considered: their option, the rows and values
                \* asserted, other rows removed, the rows loaded when they
                \* are defined, and whether flatten and balance are used

VARIABLES
  node,         \* the configuration
  tree,         \* tree->root
  contents,     \* history: the elements in the tree and their values
  rearranged,   \* history: flattened or balanced since it was last empty
  mixed         \* history: ordered, and an argument was unknown since then

vars == <<node, tree, contents, rearranged, mixed>>
Ordered == node.option # "address"
Rows == UNION {{SubSeq(r, 1, n) : n \in 1..Len(r)} : r \in node.rows \cup node.others}

Element(key) == [key |-> key, balance |-> 0, left |-> Nil, right |-> Nil,
                 value |-> NoValue, root |-> Nil]
Branch(row, v) ==
  FoldRight(LAMBDA key, e : [Element(key) EXCEPT !.root = e], Front(row),
            [Element(Last(row)) EXCEPT !.value = v])

(* A new element's arguments after the first need no search.                *)
RECURSIVE treeAssert(_, _, _)
treeAssert(t, row, v) ==
  LET path == nbTreeLocate(t, row[1], Ordered)  found == NodeAt(t, path)
  IN CASE found = Nil -> nbTreeInsert(t, path, Branch(row, v))
       [] Len(row) = 1 -> WithNode(t, path, [found EXCEPT !.value = v])
       [] OTHER -> LET below == treeAssert(found.root, Tail(row), v)
                   IN IF below = Crash THEN Crash
                      ELSE WithNode(t, path, [found EXCEPT !.root = below])

(* code 0: the element before is kept; 1: it goes if it has no value and no *)
(* tree; 2: it was the last argument.                                       *)
RECURSIVE removeNode(_, _)
removeNode(t, row) ==
  IF row = <<>> THEN [tree |-> t, code |-> 2]
  ELSE LET path == nbTreeLocate(t, row[1], Ordered)  found == NodeAt(t, path)
           below == removeNode(found.root, Tail(row))
           kept == [found EXCEPT !.root = below.tree]
       IN CASE found = Nil -> [tree |-> t, code |-> 0]
            [] below.tree = Crash -> below
            [] below.code = 0 -> [tree |-> WithNode(t, path, kept), code |-> 0]
            [] below.code = 1 /\ kept.value # NoValue -> [tree |-> WithNode(t, path, kept), code |-> 0]
            [] kept.root # Nil -> [tree |-> WithNode(t, path, [kept EXCEPT !.value = NoValue]),
                                   code |-> 0]
            [] OTHER -> [tree |-> nbTreeRemove(t, path), code |-> 1]

(* treePrune looks for the arguments with treeFindArg, which compares the   *)
(* other way round.                                                         *)
RECURSIVE treeFindArg(_, _)
treeFindArg(t, key) ==
  IF t = Nil \/ Compare(Ordered, t.key, key) = 0 THEN <<>>
  ELSE LET side == IF Compare(Ordered, t.key, key) < 0 THEN "right" ELSE "left"
       IN <<[side |-> side, tilted |-> FALSE]>> \o treeFindArg(t[side], key)

(* Mutant: the element's own value goes too.                                *)
RECURSIVE treePruneValue(_, _)
treePruneValue(t, row) ==
  LET path == treeFindArg(t, row[1])  found == NodeAt(t, path)
  IN CASE found = Nil -> t
       [] Len(row) = 1 -> WithNode(t, path, [found EXCEPT !.root = Nil, !.value = NoValue])
       [] OTHER -> WithNode(t, path, [found EXCEPT !.root = treePruneValue(@, Tail(row))])
RECURSIVE treePrune(_, _)
treePrune(t, row) ==
  LET path == treeFindArg(t, row[1])  found == NodeAt(t, path)
  IN CASE found = Nil -> t
       [] Len(row) = 1 -> WithNode(t, path, [found EXCEPT !.root = Nil])
       [] OTHER -> WithNode(t, path, [found EXCEPT !.root = treePrune(@, Tail(row))])

RECURSIVE treeEvaluate(_, _)
treeEvaluate(t, row) ==
  LET found == IF node.option = "partition" THEN nbTreeFindFloor(t, row[1])
               ELSE nbTreeFind(t, row[1], Ordered)
  IN CASE found = Nil -> "notfound"
       [] Len(row) > 1 -> treeEvaluate(found.root, Tail(row))
       [] found.value = NoValue -> "found"
       [] OTHER -> found.value

(* treeStore writes an assertion for each element that has a value, and a   *)
(* program that is started again performs them.                             *)
(* Mutant: it goes no further at an element without a value.                *)
RECURSIVE treeStoreNodeStop(_, _)
treeStoreNodeStop(t, head) ==
  IF t = Nil \/ t.value = NoValue THEN <<>>
  ELSE LET row == Append(head, t.key)
       IN <<[row |-> row, value |-> t.value]>>
            \o treeStoreNodeStop(t.root, row) \o treeStoreNodeStop(t.left, head)
            \o treeStoreNodeStop(t.right, head)
RECURSIVE treeStoreNode(_, _)
treeStoreNode(t, head) ==
  IF t = Nil THEN <<>>
  ELSE LET row == Append(head, t.key)
       IN (IF t.value = NoValue THEN <<>> ELSE <<[row |-> row, value |-> t.value]>>)
            \o treeStoreNode(t.root, row) \o treeStoreNode(t.left, head)
            \o treeStoreNode(t.right, head)
Loaded(file) == FoldLeft(LAMBDA t, line : treeAssert(t, line.row, line.value), Nil, file)

(* The elements in a tree and the trees below it, with their values.        *)
RECURSIVE Elements(_, _)
Elements(t, head) ==
  LET nodes == InOrder(t)
  IN UNION {{[row |-> Append(head, nodes[i].key), value |-> nodes[i].value]}
              \cup Elements(nodes[i].root, Append(head, nodes[i].key)) : i \in DOMAIN nodes}
Contents(t) ==
  LET set == IF t = Crash THEN {} ELSE Elements(t, <<>>)
  IN [row \in {e.row : e \in set} |-> (CHOOSE e \in set : e.row = row).value]
Valued(c) == Restrict(c, {row \in DOMAIN c : c[row] # NoValue})

-----------------------------------------------------------------------------
Init ==
  /\ node \in Configs
  /\ tree = Loaded(node.file) /\ contents = Contents(tree)
  /\ rearranged = FALSE /\ mixed = FALSE

Becomes(t) ==
  /\ tree # Crash
  /\ tree' = t /\ contents' = Contents(t)
  /\ rearranged' = (rearranged /\ t # Nil)
  /\ UNCHANGED node
Arguments(row) == mixed' = (tree' # Nil /\ (mixed \/ (Ordered /\ Unknown \in Range(row))))

AssertRow(row, v) == Becomes(treeAssert(tree, row, v)) /\ Arguments(row)
Retract(row) == Becomes(removeNode(tree, row).tree) /\ Arguments(row)
Clear == Becomes(Nil) /\ Arguments(<<>>)
Prune(row) == Becomes(treePrune(tree, row)) /\ Arguments(row)

Rearrange(t) ==
  /\ tree \notin {Nil, Crash}
  /\ tree' = t /\ contents' = Contents(t) /\ rearranged' = TRUE
  /\ UNCHANGED <<node, mixed>>
Flatten == node.rearranges /\ Rearrange(nbTreeFlatten(tree))
Balance ==
  /\ node.rearranges
  /\ Rearrange(IF Len(InOrder(tree)) > 2 THEN nbTreeBalance(tree) ELSE nbTreeFlatten(tree))

Next ==
  \/ \E row \in node.rows, v \in node.values : AssertRow(row, v)
  \/ \E row \in Rows : Retract(row) \/ Prune(row)
  \/ Clear
  \/ Flatten
  \/ Balance

Spec == Init /\ [][Next]_vars

-----------------------------------------------------------------------------
Represented == INSTANCE Table WITH
  value <- Valued(contents),
  elements <- DOMAIN contents,
  spoiled <- mixed \/ tree = Crash

(* Whatever is asserted, removed and pruned, in whatever order, the rows    *)
(* found in the trees are those of a table: balancing loses and doubles     *)
(* none, an element is removed with its value only when nothing is below    *)
(* it, and with it the heads that are no longer needed.                     *)
ImplementsTable == Represented!Spec

(* The trees stay balanced, whichever rotations insertions and removals     *)
(* bring about in whichever column, and a null pointer is never followed:   *)
(* unless flatten or balance has been used, which leave the factors as they *)
(* were.                                                                    *)
RECURSIVE AllBalanced(_)
AllBalanced(t) ==
  /\ Balanced(t)
  /\ LET nodes == InOrder(t)
     IN \A i \in DOMAIN nodes : AllBalanced(nodes[i].root)
StaysBalanced == rearranged \/ (tree # Crash /\ AllBalanced(tree))

(* An evaluation gives the value of the row, what stands for a head, or     *)
(* what stands for nothing; with the partition option, at every argument    *)
(* the greatest element not above it is taken.  (Not once an unknown        *)
(* argument has been put into an ordered tree: treeCompare gives it two     *)
(* places among the others.)                                                *)
Matching(rows, head, key) ==
  LET keys == {Last(r) : r \in {x \in rows : Front(x) = head}}
      below == {k \in keys : treeCompare(k, key) <= 0}
  IN CASE key \in keys -> {key}
       [] node.option # "partition" -> {}
       [] OTHER -> {k \in below : \A j \in below : treeCompare(j, k) <= 0}
RECURSIVE Taken(_, _, _)
Taken(rows, head, row) ==
  IF row = <<>> THEN {head}
  ELSE UNION {Taken(rows, Append(head, k), Tail(row)) : k \in Matching(rows, head, row[1])}
Meant(row) ==
  LET taken == Taken(DOMAIN contents, <<>>, row)
  IN CASE taken = {} -> "notfound"
       [] \E r \in taken : contents[r] = NoValue -> "found"
       [] OTHER -> contents[CHOOSE r \in taken : TRUE]
EvaluatesRight ==
  mixed \/ tree = Crash \/ \A row \in Rows : treeEvaluate(tree, row) = Meant(row)

(* What store has written makes the same table again when it is performed   *)
(* on an empty node, although it is written in no order and the new trees   *)
(* may have other shapes.                                                   *)
StoredLoads ==
  mixed \/ tree = Crash \/
    Valued(Contents(Loaded(treeStoreNode(tree, <<>>)))) = Valued(contents)

(* The trees are in balance, searches in them find what the rows mean, and *)
(* what is stored is the table.                                            *)
TreesSound == StaysBalanced /\ EvaluatesRight /\ StoredLoads
============================================================================
