------------------------------ MODULE HashMap ------------------------------
(***************************************************************************)
(* The hash map that remembers the order of insertion (hashmap.h), as      *)
(* operators on maps.  Every node hangs in two circular lists, that of its *)
(* bucket and that of all nodes, whose heads belong to no node; `links'    *)
(* has the two pointers of every list node.  `buckets' is the number of    *)
(* buckets, pow2[capacity_] in the code, and 0 while none is allocated.    *)
(***************************************************************************)
EXTENDS Integers, SequencesExt

CONSTANT Hash    \* the hash of each key, after rehash()

kThreshold == 2

Pivot == <<"pivot", 0>>
Bucket(ix) == <<"bucket", ix>>
IteratorList(k) == <<"iterator", k>>
HashList(k) == <<"hash", k>>

(* The function f where it is defined, and g elsewhere.                    *)
Over(f, g) == [x \in DOMAIN f \cup DOMAIN g |-> IF x \in DOMAIN f THEN f[x] ELSE g[x]]

Alone(nodes) == [n \in nodes |-> [prev |-> n, next |-> n]]

EmptyMap == [links |-> Alone({Pivot}), value |-> <<>>, size |-> 0, buckets |-> 0]

-----------------------------------------------------------------------------
(* ListNode                                                                *)

InsertNodeBefore(links, n, pivot) ==
  LET prev == links[pivot].prev
  IN  [x \in DOMAIN links \cup {n} |->
         IF x = n THEN [prev |-> prev, next |-> pivot]
         ELSE [prev |-> IF x = pivot THEN n ELSE links[x].prev,
               next |-> IF x = prev THEN n ELSE links[x].next]]

RemoveNode(links, n) ==
  LET prev == links[n].prev
      next == links[n].next
  IN  [x \in DOMAIN links \ {n} |->
         [prev |-> IF x = next THEN prev ELSE links[x].prev,
          next |-> IF x = prev THEN next ELSE links[x].next]]

(* The keys of the nodes in the list of a head, of a map of a given size.  *)
KeysAfter(links, head, size) ==
  LET node[n \in 0 .. size + 1] == IF n = 0 THEN head ELSE links[node[n - 1]].next
      length == Min({n \in 0 .. size : node[n + 1] = head} \cup {size + 1})
  IN  [n \in 1 .. length |-> node[n][2]]

-----------------------------------------------------------------------------
(* HashMap                                                                 *)

InOrder(m) == KeysAfter(m.links, Pivot, m.size)
First(m) == m.links[Pivot].next[2]

Buckets(count) == {Bucket(ix) : ix \in 0 .. count - 1}
BucketOf(k, count) == Bucket(Hash[k] % count)

HasKey(m, k) == m.size > 0 /\ k \in ToSet(KeysAfter(m.links, BucketOf(k, m.buckets), m.size))

Enlarged(count) == IF count = 0 THEN 4 ELSE 2 * count

(* Mistake: the nodes stay in the lists they were in.                      *)
GrowButRehash(m) ==
  LET count == Enlarged(m.buckets)
  IN  [m EXCEPT !.buckets = count, !.links = Over(@, Alone(Buckets(count)))]

(* grow_: new buckets, which take over the nodes in order of insertion.    *)
Grow(m) ==
  LET count == Enlarged(m.buckets)
      keys == InOrder(m)
      rest == Restrict(m.links, DOMAIN m.links \ Buckets(m.buckets))
      moved[n \in 0 .. m.size] ==
        IF n = 0 THEN Over(Alone(Buckets(count)), rest)
        ELSE InsertNodeBefore(moved[n - 1], HashList(keys[n]), BucketOf(keys[n], count))
  IN  [m EXCEPT !.buckets = count, !.links = moved[m.size]]

GrowIfNeeded(m) == IF (m.size + 1) * kThreshold > m.buckets THEN Grow(m) ELSE m

(* insert() of a key that is not in the map; one that is prevents its      *)
(* insertion.                                                              *)
InsertKey(m, k, v) ==
  LET grown == GrowIfNeeded(m)
      links == InsertNodeBefore(grown.links, HashList(k), BucketOf(k, grown.buckets))
  IN  [grown EXCEPT !.links = InsertNodeBefore(links, IteratorList(k), Pivot),
                    !.value = Over([x \in {k} |-> v], @),
                    !.size = @ + 1]

Erase(m, k) ==
  [m EXCEPT !.links = RemoveNode(RemoveNode(@, HashList(k)), IteratorList(k)),
            !.value = Restrict(@, DOMAIN @ \ {k}),
            !.size = @ - 1]

-----------------------------------------------------------------------------
(* What keeps a map in order: each key in the map is in the list of its    *)
(* bucket and in that of all nodes, once each, the lists can be walked in  *)
(* both directions, and there are twice as many buckets as nodes.          *)
MapExact(m) ==
  /\ m.size = Cardinality(DOMAIN m.value)
  /\ IsInjective(InOrder(m))
  /\ ToSet(InOrder(m)) = DOMAIN m.value
  /\ \A ix \in 0 .. m.buckets - 1 :
       LET keys == KeysAfter(m.links, Bucket(ix), m.size)
       IN  /\ IsInjective(keys)
           /\ ToSet(keys) = {k \in DOMAIN m.value : BucketOf(k, m.buckets) = Bucket(ix)}
  /\ \A n \in DOMAIN m.links : m.links[m.links[n].next].prev = n
  /\ m.size * kThreshold <= m.buckets

=============================================================================
