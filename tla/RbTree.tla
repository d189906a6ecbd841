------------------------------- MODULE RbTree -------------------------------
(***************************************************************************)
(* The red-black tree behind Map (lib/internal/tree.h).  A node is named   *)
(* by its value, which never moves to another node, and tree[n] holds its  *)
(* pointers and its colour; a node that is not allocated is not in the     *)
(* domain of tree.  The end node has the root as its left child.           *)
(*                                                                         *)
(* An operator that stands for a procedure takes the tree and returns the  *)
(* tree as the procedure leaves it.                                        *)
(***************************************************************************)
EXTENDS Integers, FiniteSets, Sequences, TLC

CONSTANT
  Keys   \* bound: the values that are inserted, positive integers

ASSUME KeysAssumption == Keys \subseteq Nat \ {0}

VARIABLES
  tree,       \* the nodes
  leftmost,   \* leftmost_
  size,       \* size_
  keys        \* ghost: the values a sorted set would hold

treeVars == <<tree, leftmost, size, keys>>

Null == -1
End == 0
Node == [parent : Keys \cup {End, Null}, left : Keys \cup {Null},
         right : Keys \cup {Null}, type : {"red", "black"}]
NewNode(parent, type) == [parent |-> parent, left |-> Null, right |-> Null, type |-> type]

(* The end node is value-initialised: its type reads as red.               *)
NewTree == [n \in {End} |-> NewNode(Null, "red")]

Root(t) == t[End].left
Other(side) == IF side = "left" THEN "right" ELSE "left"
IsLeft(t, n) == t[t[n].parent].left = n
Side(t, n) == IF IsLeft(t, n) THEN "left" ELSE "right"
Neighbor(t, n) == t[t[n].parent][Other(Side(t, n))]

Paint(t, n, type) == [t EXCEPT ![n].type = type]
SetParent(t, n, parent) == IF n = Null THEN t ELSE [t EXCEPT ![n].parent = parent]

(* Unplugs n from its parent and plugs the replacement in.                 *)
Replace(t, n, replacement) ==
  SetParent([t EXCEPT ![t[n].parent][Side(t, n)] = replacement], replacement, t[n].parent)

SetRoot(t, n) == Paint([t EXCEPT ![End].left = n, ![n].parent = End], n, "black")

(* rotate_(x, direction), where side names the first field of direction.   *)
Rotate(t, x, side) ==
  LET y     == t[x][Other(side)]
      inner == t[y][side]
      moved == Replace(SetParent([t EXCEPT ![x][Other(side)] = inner], inner, x), x, y)
  IN  [moved EXCEPT ![y][side] = x, ![x].parent = y]

RECURSIVE Lowest(_, _), Highest(_, _), Up(_, _, _), Find(_, _, _), Position(_, _, _)
Lowest(t, n) == IF t[n].left = Null THEN n ELSE Lowest(t, t[n].left)
Highest(t, n) == IF t[n].right = Null THEN n ELSE Highest(t, t[n].right)

(* The parent of the first node from n up that hangs on the given side.    *)
Up(t, n, side) == IF Side(t, n) = side THEN t[n].parent ELSE Up(t, t[n].parent, side)

NextNode(t, n) == IF t[n].right # Null THEN Lowest(t, t[n].right) ELSE Up(t, n, "left")
PrevNode(t, n) == IF t[n].left # Null THEN Highest(t, t[n].left) ELSE Up(t, n, "right")

Find(t, n, v) ==
  IF n = v \/ n = Null THEN n
  ELSE Find(t, IF v < n THEN t[n].left ELSE t[n].right, v)

-----------------------------------------------------------------------------
(* Inserting.                                                              *)

(* Where Node::emplace ends up: at the node of v, or at its future parent. *)
Position(t, n, v) ==
  LET next == IF v < n THEN t[n].left ELSE t[n].right
  IN  IF n = v \/ next = Null THEN n ELSE Position(t, next, v)

Emplace(t, parent, v) ==
  [n \in DOMAIN t \cup {v} |-> IF n = v THEN NewNode(parent, "red") ELSE
     IF n = parent THEN [t[n] EXCEPT ![IF v < n THEN "left" ELSE "right"] = v] ELSE t[n]]

RECURSIVE FixupInsert(_, _), FixupDelete(_, _)
FixupInsert(t, n) ==
  IF t[t[n].parent].type # "red" \/ n = Root(t) THEN t
  ELSE LET parent == t[n].parent
           side   == Side(t, parent)
           grand  == t[parent].parent
           uncle  == t[grand][Other(side)]
       IN  IF uncle # Null /\ t[uncle].type = "red"
           THEN FixupInsert([t EXCEPT ![parent].type = "black", ![uncle].type = "black",
                               ![grand].type = IF grand = Root(t) THEN "black" ELSE "red"],
                            grand)
           ELSE LET inner == Side(t, n) # side
                    bent  == IF inner THEN Rotate(t, parent, side) ELSE t
                    top   == IF inner THEN n ELSE parent
                IN  Rotate([bent EXCEPT ![top].type = "black", ![grand].type = "red"],
                           grand, Other(side))

Insert(v) ==
  LET parent == Position(tree, Root(tree), v)
      hung   == Emplace(tree, parent, v)
      fixed  == FixupInsert(hung, v)
  IN  /\ keys' = keys \cup {v}
      /\ IF Root(tree) # Null /\ parent = v   \* the value is there already
         THEN UNCHANGED <<tree, leftmost, size>>
         ELSE /\ size' = size + 1
              /\ IF Root(tree) = Null
                 THEN /\ tree' = SetRoot(Emplace(tree, Null, v), v)
                      /\ leftmost' = v
                 ELSE /\ tree' = Paint(fixed, Root(fixed), "black")
                      /\ leftmost' = IF hung[leftmost].left # Null THEN v ELSE leftmost

-----------------------------------------------------------------------------
(* Erasing.                                                                *)

NullOrBlack(t, n) == n = Null \/ t[n].type = "black"

(* Mistake: leaves the colour of the parent as it is.                      *)
LendRedness(t, parent) == t

(* The case of two black children under a parent that can pay for it.      *)
TakeRedness(t, parent) == Paint(t, parent, "black")

(* The subtree on the other side of neighbor is one black node short.      *)
FixupDelete(t0, neighbor0) ==
  LET side     == Other(Side(t0, neighbor0))
      far      == Other(side)
      above    == t0[neighbor0].parent
      redCase  == t0[neighbor0].type = "red"
      t        == IF redCase
                  THEN Rotate([t0 EXCEPT ![neighbor0].type = "black", ![above].type = "red"],
                              above, side)
                  ELSE t0
      neighbor == IF redCase THEN t[above][far] ELSE neighbor0
      paled    == Paint(t, neighbor, "red")
      bend     == NullOrBlack(t, t[neighbor][far])
      bent     == IF bend
                  THEN Rotate(Paint(Paint(t, t[neighbor][side], "black"), neighbor, "red"),
                              neighbor, far)
                  ELSE t
      outer    == IF bend THEN bent[neighbor].parent ELSE neighbor
      painted  == [bent EXCEPT ![outer].type = bent[above].type, ![above].type = "black",
                               ![bent[outer][far]].type = "black"]
  IN  IF NullOrBlack(t, t[neighbor].left) /\ NullOrBlack(t, t[neighbor].right)
      THEN IF above = Root(t) \/ t[above].type = "red"
           THEN TakeRedness(paled, above)
           ELSE FixupDelete(paled, Neighbor(paled, above))
      ELSE Rotate(painted, above, side)

(* y takes the place, the children and the colour of n.                    *)
TakePlace(t, n, y) ==
  LET placed == Replace(t, n, y)
      left   == SetParent([placed EXCEPT ![y].left = placed[n].left], placed[n].left, y)
  IN  Paint(SetParent([left EXCEPT ![y].right = left[n].right], left[n].right, y), y, left[n].type)

Delete(t, n) ==
  LET full     == t[n].left # Null /\ t[n].right # Null
      y        == IF full THEN Lowest(t, t[n].right) ELSE n
      child    == IF t[y].left # Null THEN t[y].left ELSE t[y].right
      neighbor == IF y = Root(t) THEN Null ELSE Neighbor(t, y)
      cut      == Replace(t, y, child)
      placed   == IF full THEN TakePlace(cut, n, y) ELSE cut
  IN  CASE t[y].type = "red" \/ Root(cut) = Null -> placed
        [] child # Null -> Paint(placed, child, "black")
        [] OTHER -> FixupDelete(placed, neighbor)

(* Mistake: the parent is taken for the successor of the leftmost node.    *)
EraseThenParent(n) ==
  /\ n \in DOMAIN tree \ {End}
  /\ LET t == Delete(tree, n) IN tree' = [m \in DOMAIN t \ {n} |-> t[m]]
  /\ leftmost' = IF n = leftmost THEN tree[n].parent ELSE leftmost
  /\ size' = size - 1
  /\ keys' = keys \ {n}

(* The iterator points to a node of this tree; end() is refused.           *)
Erase(n) ==
  /\ n \in DOMAIN tree \ {End}
  /\ LET t == Delete(tree, n) IN tree' = [m \in DOMAIN t \ {n} |-> t[m]]
  /\ leftmost' = IF n = leftmost THEN NextNode(tree, n) ELSE leftmost
  /\ size' = size - 1
  /\ keys' = keys \ {n}

-----------------------------------------------------------------------------
TreeInit ==
  /\ tree = NewTree
  /\ leftmost = End
  /\ size = 0
  /\ keys = {}

Clear ==
  /\ tree' = NewTree
  /\ leftmost' = End
  /\ size' = 0
  /\ keys' = {}

(* The nodes of the clone of the subtree of n, under the given parent.     *)
RECURSIVE Clone(_, _, _)
Clone(t, n, parent) ==
  IF n = Null THEN <<>>
  ELSE (n :> [t[n] EXCEPT !.parent = parent]) @@ Clone(t, t[n].left, n) @@ Clone(t, t[n].right, n)

(* operator=: another tree takes a clone of this one and goes on in its    *)
(* place.                                                                  *)
AssignClone ==
  /\ tree' = Clone(tree, End, Null)
  /\ leftmost' = Lowest(tree', End)
  /\ UNCHANGED <<size, keys>>

TreeNext ==
  \/ \E v \in Keys : Insert(v) \/ Erase(v)
  \/ Clear
  \/ AssignClone

TreeSpec == TreeInit /\ [][TreeNext]_treeVars

-----------------------------------------------------------------------------
(* Properties                                                              *)

Sorted == [i \in 1 .. Cardinality(keys) |->
             CHOOSE k \in keys : Cardinality({j \in keys : j <= k}) = i]

RECURSIVE InOrder(_), BlackNodes(_)
InOrder(n) ==
  IF n = Null THEN <<>> ELSE InOrder(tree[n].left) \o <<n>> \o InOrder(tree[n].right)

(* The black nodes on the way down from n by the left.                     *)
BlackNodes(n) ==
  IF n = Null THEN 0
  ELSE BlackNodes(tree[n].left) + IF tree[n].type = "black" THEN 1 ELSE 0

(* After any insertions and erasures in any order, the values are in the   *)
(* tree in their order, the pointers up agree with the pointers down, the  *)
(* root is black, no red node has a red child, and the two sides of every  *)
(* node have the same number of black nodes (fixupInsert_, fixupDelete_).  *)
TreeIsRedBlack ==
  /\ tree \in [keys \cup {End} -> Node]
  /\ InOrder(Root(tree)) = Sorted
  /\ Root(tree) # Null => tree[Root(tree)].type = "black"
  /\ \A n \in keys :
       /\ n \in {tree[tree[n].parent].left, tree[tree[n].parent].right}
       /\ BlackNodes(tree[n].left) = BlackNodes(tree[n].right)
       /\ tree[n].type = "red" => \A child \in {tree[n].left, tree[n].right} : NullOrBlack(tree, child)

(* An iterator steps through the values in their order from begin() to     *)
(* end() and back, find() finds the values of the tree and nothing else,   *)
(* and the size is their number.                                           *)
WalksInOrder ==
  LET stops == Append(Sorted, End)
  IN  /\ leftmost = Head(stops)
      /\ \A i \in 1 .. Cardinality(keys) :
           /\ NextNode(tree, stops[i]) = stops[i + 1]
           /\ PrevNode(tree, stops[i + 1]) = stops[i]
      /\ \A v \in Keys : Find(tree, Root(tree), v) = IF v \in keys THEN v ELSE Null
      /\ size = Cardinality(keys)

=============================================================================
