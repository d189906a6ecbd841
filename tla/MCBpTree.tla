------------------------------ MODULE MCBpTree ------------------------------
(* Small instances of BpTree.                                              *)
EXTENDS BpTree

CONSTANTS
  none,
  MaxSteps    \* bound: the operations on a grown tree

VARIABLE steps    \* operations on a grown tree so far

(* Five keys with three values each, but for the last.                     *)
Grown == {<<key, value>> : key \in 1 .. 5, value \in 1 .. 3} \ {<<5, 3>>}

(* Two keys whose values fill more than one record node.                   *)
Few == {p \in Grown : p[1] <= 2}

(* Nine keys.                                                              *)
ManyKeys == {<<key, 0>> : key \in 1 .. 9}

(* A tree to which pairs were inserted in ascending or in descending order:*)
(* about to get a third level, about to split an inner node, and larger.   *)
AfterInsertion(f, p) == LET result == AfterInsert(f, p) IN Update(result.file, result.node)
GrownInit ==
  /\ \E order \in {SortedPairs(Pairs), Reverse(SortedPairs(Pairs))}, n \in {7, 11, 14} :
       /\ file = FoldLeft(AfterInsertion, WithRoot(EmptyFile), SubSeq(order, 1, n))
       /\ pairs = Range(SubSeq(order, 1, n))
  /\ intact = TRUE
  /\ steps = 1

(* Any operations on a tree of a few pairs, or MaxSteps on a grown one.    *)
SmallStep == steps = 0 /\ Next /\ pairs' \subseteq Few /\ UNCHANGED steps
GrownStep == steps \in 1 .. MaxSteps /\ Next /\ steps' = steps + 1

MCSpec ==
  /\ (Init /\ steps = 0) \/ GrownInit
  /\ [][SmallStep \/ GrownStep]_<<vars, steps>>

(* Any operations from an empty tree.                                      *)
EmptySpec == Init /\ steps = 0 /\ [][Next /\ UNCHANGED steps]_<<vars, steps>>
=============================================================================
