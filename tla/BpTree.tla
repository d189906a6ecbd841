------------------------------- MODULE BpTree -------------------------------
(***************************************************************************)
(* The B+ tree of an index (bptree.h), node by node, in a file of chunks.  *)
(* A tree holds pairs <<key, value>>, sorted; the pairs are in record      *)
(* nodes, which form a list, and index nodes hold the ids of their         *)
(* children with the least pair of each.  The root is the node in chunk 0. *)
(*                                                                         *)
(* A handler works on copies of nodes and writes them with update(): here, *)
(* a node is a record that knows its id, and an operation on nodes returns *)
(* a record of what it changed: the file, the node, its parent.            *)
(***************************************************************************)
EXTENDS Chunks, SequencesExt

CONSTANTS
  Pairs,        \* the pairs the users of the tree insert
  k,            \* half the limit of an index node
  l,            \* half the limit of a record node
  AfterDamage   \* whether to go on after the root was written elsewhere

ASSUME LimitsAssumption == k \in Nat /\ k >= 2 /\ l \in Nat /\ l >= 2
ASSUME DamageAssumption == AfterDamage \in BOOLEAN
ASSUME PairsAssumption == Pairs \subseteq Int \X Int

VARIABLES
  file,       \* file_
  intact,     \* the root has always been written to chunk 0
  pairs       \* what was inserted and not removed

vars == <<file, intact, pairs>>

-----------------------------------------------------------------------------
(* Sorted arrays (set.h)                                                   *)

Lt(p, q) == p[1] < q[1] \/ (p[1] = q[1] /\ p[2] < q[2])

(* lowerBound and upperBound, as the number of elements before the bound.  *)
LowerBound(s, p) == Cardinality({i \in DOMAIN s : Lt(s[i], p)})
UpperBound(s, p) == Cardinality({i \in DOMAIN s : ~ Lt(p, s[i])})

InsertPair(s, p) == InsertAt(s, LowerBound(s, p) + 1, p)
RemovePair(s, p) == RemoveAt(s, LowerBound(s, p) + 1)

-----------------------------------------------------------------------------
(* Nodes                                                                   *)

Unsaved == -1

IndexNode(type, leaf, children, splits) ==
  [id |-> Unsaved, type |-> type, leaf |-> leaf, children |-> children, splits |-> splits]
RecordNode(prev, next, entries) ==
  [id |-> Unsaved, type |-> "record", prev |-> prev, next |-> next, entries |-> entries]

IsRecord(node) == node.type = "record"
Items(node) == IF IsRecord(node) THEN node.entries ELSE node.children
HalfLimit(node) == IF IsRecord(node) THEN l ELSE k
Length(node) == Len(Items(node))
ShouldSplit(node) == Length(node) = 2 * HalfLimit(node)
ShouldMerge(node) == Length(node) < HalfLimit(node)
Least(node) == IF IsRecord(node) THEN node.entries[1] ELSE node.splits[1]

(* UnmanagedObject: get, save, update and destroy.  The id is not stored.  *)
Get(f, id) == [f.chunks[id] EXCEPT !.id = id]
Save(f, node) ==
  [file |-> AfterPush(f, node), node |-> [node EXCEPT !.id = PushId(f)]]
Update(f, node) == AfterSet(f, node.id, [node EXCEPT !.id = Unsaved])
Destroy(f, node) == AfterRemove(f, node.id)

Root(f) == Get(f, 0)

(* init_                                                                   *)
WithRoot(f) == AfterPush(f, IndexNode("root", TRUE, <<>>, <<>>))

(* The child that an entry belongs to: the last one whose least pair is    *)
(* not above it, or the first.                                             *)
IxInsert(node, p) == LET n == UpperBound(node.splits, p) IN IF n = 0 THEN 1 ELSE n

-----------------------------------------------------------------------------
(* insert                                                                  *)

SplitRoot(f, root) ==
  LET left  == Save(f, IndexNode("intermediate", root.leaf,
                                 SubSeq(root.children, 1, k), SubSeq(root.splits, 1, k)))
      right == Save(left.file, IndexNode("intermediate", root.leaf,
                                 SubSeq(root.children, k + 1, 2 * k),
                                 SubSeq(root.splits, k + 1, 2 * k)))
  IN  [file |-> right.file,
       node |-> [root EXCEPT !.leaf = FALSE,
                             !.children = <<left.node.id, right.node.id>>,
                             !.splits = <<Least(left.node), Least(right.node)>>]]

(* The new node gets the upper half; a record node enters the list.        *)
SplitIndex(f, node) ==
  LET next == Save(f, [node EXCEPT !.children = SubSeq(@, k + 1, 2 * k),
                                   !.splits = SubSeq(@, k + 1, 2 * k)])
  IN  [file |-> next.file, next |-> next.node,
       node |-> [node EXCEPT !.children = SubSeq(@, 1, k), !.splits = SubSeq(@, 1, k)]]

(* Mistake: the node after the new one keeps its prev.                     *)
SplitRecordKeepsPrev(f, node) ==
  LET next == Save(f, RecordNode(node.id, node.next, SubSeq(node.entries, l + 1, 2 * l)))
  IN  [file |-> next.file,
       next |-> next.node,
       node |-> [node EXCEPT !.entries = SubSeq(@, 1, l), !.next = next.node.id]]

SplitRecord(f, node) ==
  LET next == Save(f, RecordNode(node.id, node.next, SubSeq(node.entries, l + 1, 2 * l)))
  IN  [file |-> IF node.next = 0 THEN next.file
                ELSE Update(next.file, [Get(next.file, node.next) EXCEPT !.prev = next.node.id]),
       next |-> next.node,
       node |-> [node EXCEPT !.entries = SubSeq(@, 1, l), !.next = next.node.id]]

Split(f, node, parent, ix) ==
  LET halves == IF IsRecord(node) THEN SplitRecord(f, node) ELSE SplitIndex(f, node)
      root   == SplitRoot(f, node)
  IN  IF node.type = "root" THEN [file |-> root.file, node |-> root.node, parent |-> parent]
      ELSE [file |-> halves.file,
            node |-> halves.node,
            parent |-> [parent EXCEPT !.children = InsertAt(@, ix + 1, halves.next.id),
                                      !.splits = InsertPair(@, Least(halves.next))]]

(* insert_: the node as it is after the insertion, not yet written.        *)
RECURSIVE InsertInto(_, _, _)
InsertInto(f, node, p) ==
  IF IsRecord(node) THEN [file |-> f, node |-> [node EXCEPT !.entries = InsertPair(@, p)]]
  ELSE IF node.children = <<>>
  THEN LET first == Save(f, RecordNode(0, 0, <<p>>))
       IN  [file |-> first.file,
            node |-> [node EXCEPT !.children = <<first.node.id>>, !.splits = <<p>>]]
  ELSE LET ix     == IxInsert(node, p)
           below  == InsertInto(f, Get(f, node.children[ix]), p)
           parent == [node EXCEPT !.splits[ix] = Least(below.node)]
           split  == IF ShouldSplit(below.node) THEN Split(below.file, below.node, parent, ix)
                     ELSE [file |-> below.file, node |-> below.node, parent |-> parent]
       IN  [file |-> Update(split.file, split.node), node |-> split.parent]

AfterInsert(f, p) ==
  LET below == InsertInto(f, Root(f), p)
  IN  IF ShouldSplit(below.node) THEN SplitRoot(below.file, below.node) ELSE below

-----------------------------------------------------------------------------
(* remove                                                                  *)

(* merge_ of the root: an only child takes its place.  The copy of the     *)
(* child brings its id along.                                              *)
MergeRoot(f, root) ==
  IF Length(root) > 1 \/ root.leaf THEN root
  ELSE [Get(f, root.children[1]) EXCEPT !.type = "root"]

(* The node takes the last item of its left neighbour, or the first one of *)
(* its right neighbour.                                                    *)
BorrowFromPrev(f, node, parent, ix, prev) ==
  LET taken == IF IsRecord(node)
               THEN [node EXCEPT !.entries = InsertPair(@, Last(prev.entries))]
               ELSE [node EXCEPT !.children = <<Last(prev.children)>> \o @,
                                 !.splits = InsertPair(@, Last(prev.splits))]
      left  == IF IsRecord(node) THEN [prev EXCEPT !.entries = Front(@)]
               ELSE [prev EXCEPT !.children = Front(@), !.splits = Front(@)]
  IN  [file |-> Update(f, left), node |-> taken,
       parent |-> [parent EXCEPT !.splits[ix] = Least(taken)]]

(* Mistake: the parent keeps the least pair the neighbour had.             *)
BorrowFromNextKeepsSplit(f, node, parent, ix, next) ==
  LET taken == IF IsRecord(node)
               THEN [node EXCEPT !.entries = InsertPair(@, Head(next.entries))]
               ELSE [node EXCEPT !.children = Append(@, Head(next.children)),
                                 !.splits = InsertPair(@, Head(next.splits))]
      right == IF IsRecord(node) THEN [next EXCEPT !.entries = Tail(@)]
               ELSE [next EXCEPT !.children = Tail(@), !.splits = Tail(@)]
  IN  [file |-> Update(f, right), node |-> taken, parent |-> parent]

BorrowFromNext(f, node, parent, ix, next) ==
  LET taken == IF IsRecord(node)
               THEN [node EXCEPT !.entries = InsertPair(@, Head(next.entries))]
               ELSE [node EXCEPT !.children = Append(@, Head(next.children)),
                                 !.splits = InsertPair(@, Head(next.splits))]
      right == IF IsRecord(node) THEN [next EXCEPT !.entries = Tail(@)]
               ELSE [next EXCEPT !.children = Tail(@), !.splits = Tail(@)]
  IN  [file |-> Update(f, right), node |-> taken,
       parent |-> [parent EXCEPT !.splits[ix + 1] = Least(right)]]

(* The node swallows a neighbour, which is destroyed.                      *)
MergeWithPrev(f, node, parent, ix, prev) ==
  LET merged == IF IsRecord(node)
                THEN [node EXCEPT !.entries = prev.entries \o @, !.prev = prev.prev]
                ELSE [node EXCEPT !.children = prev.children \o @, !.splits = prev.splits \o @]
      linked == IF IsRecord(node) /\ prev.prev # 0
                THEN Update(f, [Get(f, prev.prev) EXCEPT !.next = node.id])
                ELSE f
  IN  [file |-> Destroy(linked, prev), node |-> merged,
       parent |-> [parent EXCEPT !.splits = RemoveAt([@ EXCEPT ![ix] = Least(merged)], ix - 1),
                                 !.children = RemoveAt(@, ix - 1)]]

(* Mistake: the neighbour's chunk is not freed.                            *)
MergeWithNextLeaks(f, node, parent, ix, next) ==
  LET merged == IF IsRecord(node)
                THEN [node EXCEPT !.entries = @ \o next.entries, !.next = next.next]
                ELSE [node EXCEPT !.children = @ \o next.children, !.splits = @ \o next.splits]
      linked == IF IsRecord(node) /\ next.next # 0
                THEN Update(f, [Get(f, next.next) EXCEPT !.prev = node.id])
                ELSE f
  IN  [file |-> linked, node |-> merged,
       parent |-> [parent EXCEPT !.splits = RemoveAt(@, ix + 1), !.children = RemoveAt(@, ix + 1)]]

MergeWithNext(f, node, parent, ix, next) ==
  LET merged == IF IsRecord(node)
                THEN [node EXCEPT !.entries = @ \o next.entries, !.next = next.next]
                ELSE [node EXCEPT !.children = @ \o next.children, !.splits = @ \o next.splits]
      linked == IF IsRecord(node) /\ next.next # 0
                THEN Update(f, [Get(f, next.next) EXCEPT !.prev = node.id])
                ELSE f
  IN  [file |-> Destroy(linked, next), node |-> merged,
       parent |-> [parent EXCEPT !.splits = RemoveAt(@, ix + 1), !.children = RemoveAt(@, ix + 1)]]

(* merge_ of another node: with the right neighbour if there is one.       *)
Merge(f, node, parent, ix) ==
  LET hasPrev == ix > 1
      hasNext == ix < Len(parent.children)
      prev    == Get(f, parent.children[ix - 1])
      next    == Get(f, parent.children[ix + 1])
  IN  IF ~ hasNext
      THEN IF ~ hasPrev THEN [file |-> f, node |-> node, parent |-> parent]
           ELSE IF Length(prev) > HalfLimit(prev) THEN BorrowFromPrev(f, node, parent, ix, prev)
           ELSE MergeWithPrev(f, node, parent, ix, prev)
      ELSE IF Length(next) > HalfLimit(next) THEN BorrowFromNext(f, node, parent, ix, next)
           ELSE MergeWithNext(f, node, parent, ix, next)

(* remove_: the node as it is after the removal, not yet written.          *)
RECURSIVE RemoveFrom(_, _, _)
RemoveFrom(f, node, p) ==
  IF IsRecord(node) THEN [file |-> f, node |-> [node EXCEPT !.entries = RemovePair(@, p)]]
  ELSE LET ix     == IxInsert(node, p)
           below  == RemoveFrom(f, Get(f, node.children[ix]), p)
           parent == [node EXCEPT !.splits[ix] = Least(below.node)]
           merge  == IF ShouldMerge(below.node) THEN Merge(below.file, below.node, parent, ix)
                     ELSE [file |-> below.file, node |-> below.node, parent |-> parent]
       IN  IF Length(below.node) = 0
           THEN [file |-> Destroy(below.file, below.node),
                 node |-> [node EXCEPT !.children = <<>>, !.splits = <<>>]]
           ELSE [file |-> Update(merge.file, merge.node), node |-> merge.parent]

AfterRemoval(f, p) ==
  LET below == RemoveFrom(f, Root(f), p)
  IN  [file |-> below.file,
       node |-> IF ShouldMerge(below.node) THEN MergeRoot(below.file, below.node) ELSE below.node]

-----------------------------------------------------------------------------
(* Queries                                                                 *)

Before(s, key) == Cardinality({i \in DOMAIN s : s[i][1] < key})

(* findFirstChildWithKey_: the child before the first split with the key,  *)
(* and that split's child.                                                 *)
FirstChild(node, key) == LET n == Before(node.splits, key) IN node.children[IF n = 0 THEN 1 ELSE n]
HasSecondChild(node, key) ==
  LET n == Before(node.splits, key) IN n < Length(node) /\ node.splits[n + 1][1] = key
SecondChild(node, key) == node.children[Before(node.splits, key) + 1]

(* addValuesToVectorForAllKeyFrom_: the values from entry i of the node    *)
(* on, along the list, until an entry has another key.                     *)
RECURSIVE ValuesFrom(_, _, _, _)
ValuesFrom(f, key, node, i) ==
  LET n    == Length(node)
      rest == {j \in i .. n : node.entries[j][1] # key}
      end  == IF rest = {} THEN n ELSE Min(rest) - 1
      here == [j \in 1 .. (end - i + 1) |-> node.entries[i + j - 1][2]]
  IN  IF rest = {} /\ node.next # 0 THEN here \o ValuesFrom(f, key, Get(f, node.next), 1) ELSE here

RECURSIVE FindManyIn(_, _, _)
FindManyIn(f, key, node) ==
  IF IsRecord(node)
  THEN IF Before(node.entries, key) >= Length(node) THEN <<>>
       ELSE ValuesFrom(f, key, node, Before(node.entries, key) + 1)
  ELSE IF Length(node) = 0 THEN <<>>
  ELSE LET first == FindManyIn(f, key, Get(f, FirstChild(node, key)))
       IN  IF HasSecondChild(node, key) /\ first = <<>>
           THEN FindManyIn(f, key, Get(f, SecondChild(node, key)))
           ELSE first

FindMany(f, key) == FindManyIn(f, key, Root(f))

(* findOne: <<>> for none.                                                 *)
RECURSIVE FindOneIn(_, _, _)
FindOneIn(f, key, node) ==
  LET n == Before(node.entries, key) + 1
  IN  IF IsRecord(node)
      THEN IF n <= Length(node) /\ node.entries[n][1] = key THEN <<node.entries[n][2]>> ELSE <<>>
      ELSE IF Length(node) = 0 THEN <<>>
      ELSE LET first == FindOneIn(f, key, Get(f, FirstChild(node, key)))
           IN  IF HasSecondChild(node, key) /\ first = <<>>
               THEN FindOneIn(f, key, Get(f, SecondChild(node, key)))
               ELSE first

FindOne(f, key) == FindOneIn(f, key, Root(f))

(* The record nodes from one on, along the list.                           *)
RECURSIVE EntriesFrom(_, _)
EntriesFrom(f, node) ==
  IF node.next = 0 THEN node.entries ELSE node.entries \o EntriesFrom(f, Get(f, node.next))

RECURSIVE FindAllIn(_, _)
FindAllIn(f, node) ==
  IF IsRecord(node) THEN EntriesFrom(f, node)
  ELSE IF Length(node) = 0 THEN <<>>
  ELSE FindAllIn(f, Get(f, node.children[1]))

FindAll(f) == FindAllIn(f, Root(f))

(* The chunks on the way from a node down to the place of a pair.          *)
RECURSIVE Path(_, _, _)
Path(f, id, p) ==
  IF id \notin DOMAIN f.chunks \/ "type" \notin DOMAIN f.chunks[id] THEN {Unsaved}
  ELSE LET node == Get(f, id)
       IN  {id} \cup IF IsRecord(node) \/ Length(node) = 0 THEN {}
                     ELSE Path(f, node.children[IxInsert(node, p)], p)

(* A handler that reads a free chunk as a node is outside the model.       *)
Readable(f, p) == Unsaved \notin Path(f, 0, p)

RECURSIVE IncludesIn(_, _, _)
IncludesIn(f, p, node) ==
  IF IsRecord(node) THEN p \in Range(node.entries)
  ELSE Length(node) # 0 /\ IncludesIn(f, p, Get(f, node.children[IxInsert(node, p)]))

Includes(f, p) == IncludesIn(f, p, Root(f))

-----------------------------------------------------------------------------
(* The operations of a tree.  Inserting a pair twice and removing one that *)
(* is not there are undefined.  After the root has been written to another *)
(* chunk than chunk 0, only insertions are followed, if AfterDamage.       *)

Write(result) ==
  /\ file' = Update(result.file, result.node)
  /\ intact' = (intact /\ result.node.id = 0)

Init ==
  /\ file = WithRoot(EmptyFile)
  /\ intact = TRUE
  /\ pairs = {}

Insert(p) ==
  /\ intact \/ (AfterDamage /\ Readable(file, p))
  /\ p \notin pairs
  /\ Write(AfterInsert(file, p))
  /\ pairs' = pairs \cup {p}

RemoveOne(p) ==
  /\ intact
  /\ p \in pairs
  /\ Write(AfterRemoval(file, p))
  /\ pairs' = pairs \ {p}

TruncateTree ==
  /\ pairs # {}
  /\ file' = WithRoot(AfterTruncate(file))
  /\ intact' = TRUE
  /\ pairs' = {}

Next ==
  \/ \E p \in Pairs : Insert(p) \/ RemoveOne(p)
  \/ TruncateTree

Spec == Init /\ [][Next]_vars

-----------------------------------------------------------------------------
(* Properties                                                              *)

Keys == {p[1] : p \in Pairs}

(* What a tree promises about a set of pairs: the values of a key in       *)
(* ascending order.                                                        *)
SortedPairs(S) ==
  [n \in 1 .. Cardinality(S) |-> CHOOSE p \in S : Cardinality({q \in S : Lt(q, p)}) = n - 1]
SortedValues(key) ==
  LET found == SortedPairs({p \in pairs : p[1] = key}) IN [n \in DOMAIN found |-> found[n][2]]

(* While the root is where it is looked for, the queries answer from what  *)
(* was inserted and not removed, however it is spread over nodes: all      *)
(* values of a key, in order, also when they go on in the next record      *)
(* node; the first of them; membership; and all pairs in order.            *)
QueriesExact ==
  intact =>
    /\ \A key \in Keys :
         /\ FindMany(file, key) = SortedValues(key)
         /\ FindOne(file, key) = (IF SortedValues(key) = <<>> THEN <<>> ELSE <<Head(SortedValues(key))>>)
    /\ \A p \in Pairs : Includes(file, p) <=> p \in pairs
    /\ FindAll(file) = SortedPairs(pairs)

(* The chunks of the nodes below a node, itself included.                  *)
RECURSIVE Below(_)
Below(id) ==
  LET node == Get(file, id)
  IN  {id} \cup IF IsRecord(node) THEN {} ELSE UNION {Below(c) : c \in Range(node.children)}

(* The record nodes below a node, from left to right.                      *)
RECURSIVE Records(_)
Records(id) ==
  LET node == Get(file, id)
  IN  IF IsRecord(node) THEN <<id>>
      ELSE FlattenSeq([i \in DOMAIN node.children |-> Records(node.children[i])])

(* The height of a node, by its first child.                               *)
RECURSIVE Height(_)
Height(id) ==
  LET node == Get(file, id)
  IN  IF IsRecord(node) \/ Length(node) = 0 THEN 0 ELSE 1 + Height(node.children[1])

(* A node other than the root, and the only record node, is at least half  *)
(* full, and no node is full.                                              *)
HalfFull(id) ==
  LET node == Get(file, id)
  IN  /\ Length(node) < 2 * HalfLimit(node)
      /\ id # 0 => \/ Length(node) >= HalfLimit(node)
                   \/ IsRecord(node) /\ Cardinality(pairs) < l

(* An index node knows the least pair of each child, all its children have *)
(* one height, and only a node above record nodes says that it is a leaf.  *)
IndexRight(id) ==
  LET node == Get(file, id)
  IN  IsRecord(node) \/
        /\ Len(node.splits) = Len(node.children)
        /\ \A i \in DOMAIN node.children :
             /\ node.splits[i] = Least(Get(file, node.children[i]))
             /\ Height(node.children[i]) = Height(id) - 1
             /\ node.leaf <=> IsRecord(Get(file, node.children[i]))

(* The free chunks, from a header on.                                      *)
RECURSIVE FreeFrom(_)
FreeFrom(header) ==
  IF header.hasNext THEN {header.next} \cup FreeFrom(file.chunks[header.next]) ELSE {}

RECURSIVE Allocated(_)
Allocated(header) == IF header.hasNext THEN Allocated(file.chunks[header.next]) ELSE header.next

(* A chunk that was given out is a node of the tree, or free, and not both *)
(* (merges free the node they empty, and no other).                        *)
NoLeak ==
  /\ Below(0) \cup FreeFrom(file.header) = 0 .. (Allocated(file.header) - 1)
  /\ Below(0) \cap FreeFrom(file.header) = {}

(* The tree is balanced, its splits are right, its record nodes form a     *)
(* list in both directions, and its file holds nothing else: what splits,  *)
(* loans and merges must keep, on two levels at once.                      *)
WellFormed ==
  intact =>
    /\ \A id \in Below(0) : HalfFull(id) /\ IndexRight(id)
    /\ LET list == Records(0)
       IN  \A i \in DOMAIN list :
             /\ Get(file, list[i]).prev = IF i = 1 THEN 0 ELSE list[i - 1]
             /\ Get(file, list[i]).next = IF i = Len(list) THEN 0 ELSE list[i + 1]
    /\ NoLeak

(* "checks if the given key-value pair exists in the tree." (bptree.h:81): *)
(* what was inserted is found, if no free chunk is read on the way.        *)
FindsAllEntries ==
  \A p \in pairs : Readable(file, p) => Includes(file, p)

=============================================================================
