---------------------------- MODULE PairingHeap ----------------------------
(***************************************************************************)
(* The heap below PriorityQueue (priority-queue.h), as operators on heaps. *)
(* A heap is a sequence: empty, or with the root alone.  The children of a *)
(* node, a list that goes from its first child from neighbor to neighbor,  *)
(* are a sequence too.                                                     *)
(***************************************************************************)
LOCAL INSTANCE Integers
LOCAL INSTANCE Sequences

CONSTANT Less(_, _)    \* whether one value is smaller than another

EmptyHeap == <<>>

Node(value) == [value |-> value, children |-> <<>>]

(* Mistake: the root that is smaller stays on top.                         *)
MergeRootsUnswapped(a, b) == [a EXCEPT !.children = <<b>> \o @]

MergeRoots(a, b) ==
  IF Less(a.value, b.value) THEN [b EXCEPT !.children = <<a>> \o @]
  ELSE [a EXCEPT !.children = <<b>> \o @]

(* Children are merged two by two, and the pairs from the last one on.     *)
MergeChildren(children) ==
  LET merged[i \in 1 .. Len(children) + 2] ==
        IF i > Len(children) THEN EmptyHeap
        ELSE IF i = Len(children) THEN <<children[i]>>
        ELSE LET pair == MergeRoots(children[i], children[i + 1])
             IN  IF merged[i + 2] = EmptyHeap THEN <<pair>>
                 ELSE <<MergeRoots(pair, merged[i + 2][1])>>
  IN  merged[1]

-----------------------------------------------------------------------------
(* PriorityQueue                                                           *)

TopOf(heap) == heap[1].value

Pushed(heap, value) ==
  IF heap = EmptyHeap THEN <<Node(value)>>
  ELSE <<MergeRoots(heap[1], Node(value))>>

PushedAll(heap, values) ==
  LET after[n \in 0 .. Len(values)] ==
        IF n = 0 THEN heap ELSE Pushed(after[n - 1], values[n])
  IN  after[Len(values)]

Popped(heap) == MergeChildren(heap[1].children)

-----------------------------------------------------------------------------
Members(list) == {list[i] : i \in DOMAIN list}

(* The values in a heap that is no deeper than a bound.                    *)
ValuesIn(heap, depth) ==
  LET level[n \in 0 .. depth] ==
        IF n = 0 THEN Members(heap)
        ELSE UNION {Members(node.children) : node \in level[n - 1]}
  IN  {node.value : node \in UNION {level[n] : n \in 0 .. depth}}

=============================================================================
