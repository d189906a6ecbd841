-------------------------- MODULE CachedFileProofs --------------------------
(***************************************************************************)
(* A file behind its cache behaves as a file without one, and as a         *)
(* function from ids to objects, for any number of chunks and any hash     *)
(* function. The hash map of the cache comes first: the rings of its       *)
(* lists, the maps they make, and what insertion, growth and erasure do to *)
(* them.                                                                   *)
(***************************************************************************)
EXTENDS CachedFile, TLAPS, FiniteSetTheorems, WellFoundedInduction, NaturalsInduction

-----------------------------------------------------------------------------
(* Least numbers                                                           *)

LEMMA LeastNat ==
  ASSUME NEW T \in SUBSET Nat, T # {}
  PROVE  \E x \in T : \A y \in T : x <= y
<1> DEFINE Less == {p \in Nat \X Nat : p[1] < p[2]}
<1>1. IsWellFoundedOn(Less, Nat)
  BY NatLessThanWellFounded, Zenon DEF OpToRel
<1>2. \E x \in T : \A y \in T : ~ (<<y, x>> \in Less)
  BY <1>1, WFMin, Zenon
<1>3. ASSUME NEW x \in T, NEW y \in T, ~ (<<y, x>> \in Less)
      PROVE  x <= y
  <2>1. <<y, x>> \in Nat \X Nat
    OBVIOUS
  <2>2. ~ (y < x)
    BY <2>1, <1>3
  <2> QED
    BY <2>2
<1> QED
  BY <1>2, <1>3, Zenon

(* The list of the head `head' has n nodes: those of p, in this order, and *)
(* after the last of them the head comes again.                            *)
Ring(links, head, n, p) ==
  /\ n \in Nat
  /\ p = [i \in 0 .. n + 1 |-> p[i]]
  /\ p[0] = head /\ p[n + 1] = head
  /\ \A i, j \in 0 .. n : p[i] = p[j] => i = j
  /\ \A i \in 0 .. n : /\ p[i] \in DOMAIN links
                       /\ links[p[i]].next = p[i + 1]
                       /\ links[p[i + 1]].prev = p[i]

RingOf(links, head, S) ==
  \E n, p : Ring(links, head, n, p) /\ S = {p[i] : i \in 1 .. n}

LEMMA RingLocal ==
  ASSUME NEW links, NEW other, NEW head, NEW S, RingOf(links, head, S),
         \A x \in S \cup {head} : /\ x \in DOMAIN other
                                  /\ other[x].next = links[x].next
                                  /\ other[x].prev = links[x].prev
  PROVE  RingOf(other, head, S)
<1>1. PICK n, p : Ring(links, head, n, p) /\ S = {p[i] : i \in 1 .. n}
  BY DEF RingOf
<1>2. n \in Nat
  BY <1>1 DEF Ring
<1>3. \A i \in 0 .. n + 1 : p[i] \in S \cup {head}
  <2>1. \A i \in 0 .. n + 1 : i = 0 \/ i = n + 1 \/ i \in 1 .. n
    BY <1>2
  <2> QED
    BY <1>1, <2>1 DEF Ring
<1>4. \A i \in 0 .. n : i \in 0 .. n + 1 /\ i + 1 \in 0 .. n + 1
  BY <1>2
<1>5. Ring(other, head, n, p)
  BY <1>1, <1>3, <1>4 DEF Ring
<1> QED
  BY <1>1, <1>5 DEF RingOf

LEMMA EmptyRing ==
  ASSUME NEW links, NEW head, head \in DOMAIN links,
         links[head].next = head, links[head].prev = head
  PROVE  RingOf(links, head, {})
<1> DEFINE p == [i \in 0 .. 0 + 1 |-> head]
<1>1. Ring(links, head, 0, p)
  BY DEF Ring
<1>2. {} = {p[i] : i \in 1 .. 0}
  OBVIOUS
<1> QED
  BY <1>1, <1>2 DEF RingOf

(* The nodes of a list are distinct from each other and from the head.     *)
LEMMA RingDistinct ==
  ASSUME NEW links, NEW head, NEW n, NEW p, Ring(links, head, n, p)
  PROVE  /\ \A i \in 0 .. n : p[i] = p[n + 1] => i = 0
         /\ \A i, j \in 1 .. n + 1 : p[i] = p[j] => i = j
         /\ head \notin {p[i] : i \in 1 .. n}
<1>1. n \in Nat /\ 0 \in 0 .. n
  BY DEF Ring
<1>2. \A i \in 0 .. n : p[i] = p[n + 1] => i = 0
  BY <1>1 DEF Ring
<1>3. \A i \in 1 .. n + 1 : i = n + 1 \/ (i \in 0 .. n /\ i # 0)
  BY <1>1
<1>4. \A i, j \in 1 .. n + 1 : p[i] = p[j] => i = j
  BY <1>2, <1>3 DEF Ring
<1>5. \A i \in 1 .. n : i \in 0 .. n /\ i # 0
  BY <1>1
<1> QED
  BY <1>2, <1>4, <1>5 DEF Ring

LEMMA RingInsert ==
  ASSUME NEW links, NEW head, NEW S, NEW x, x \notin S, x # head, RingOf(links, head, S)
  PROVE  RingOf(InsertNodeBefore(links, x, head), head, S \cup {x})
<1>1. PICK n, p : Ring(links, head, n, p) /\ S = {p[i] : i \in 1 .. n}
  BY DEF RingOf
<1>2. n \in Nat /\ n + 1 \in Nat /\ 0 \in 0 .. n /\ n \in 0 .. n
  BY <1>1 DEF Ring
<1> DEFINE q == [i \in 0 .. (n + 1) + 1 |->
                   IF i <= n THEN p[i] ELSE IF i = n + 1 THEN x ELSE head]
           new == InsertNodeBefore(links, x, head)
<1>3. links[head].prev = p[n]
  BY <1>1, <1>2 DEF Ring
<1>4. /\ DOMAIN new = DOMAIN links \cup {x}
      /\ new[x].prev = p[n] /\ new[x].next = head
      /\ \A y \in DOMAIN links : y # x => /\ new[y].prev = IF y = head THEN x ELSE links[y].prev
                                          /\ new[y].next = IF y = p[n] THEN x ELSE links[y].next
  BY <1>3 DEF InsertNodeBefore
<1>5. /\ q[0] = head /\ q[(n + 1) + 1] = head /\ q[n + 1] = x
      /\ \A i \in 0 .. n : q[i] = p[i]
      /\ DOMAIN q = 0 .. (n + 1) + 1
  <2>1. \A i \in 0 .. n : i \in 0 .. (n + 1) + 1 /\ i <= n
    BY <1>2
  <2>2. ~ (n + 1 <= n) /\ n + 1 \in 0 .. (n + 1) + 1
    BY <1>2
  <2>3. ~ ((n + 1) + 1 <= n) /\ (n + 1) + 1 \in 0 .. (n + 1) + 1 /\ (n + 1) + 1 # n + 1
    BY <1>2
  <2>4. p[0] = head
    BY <1>1 DEF Ring
  <2> QED
    BY <1>2, <2>1, <2>2, <2>3, <2>4, Zenon
<1>6. \A i \in 0 .. n : p[i] # x /\ p[i] \in DOMAIN links
  <2>1. \A i \in 0 .. n : i = 0 \/ i \in 1 .. n
    BY <1>2
  <2> QED
    BY <1>1, <2>1 DEF Ring
<1>7. \A i \in 0 .. n : i # 0 => p[i] # head
  BY <1>1, <1>2 DEF Ring
<1> HIDE DEF q, new
<1>8. \A i, j \in 0 .. n + 1 : q[i] = q[j] => i = j
  <2>1. \A i \in 0 .. n + 1 : i \in 0 .. n \/ i = n + 1
    BY <1>2
  <2>2. \A i, j \in 0 .. n : p[i] = p[j] => i = j
    BY <1>1 DEF Ring
  <2> QED
    BY <2>1, <2>2, <1>5, <1>6
<1>9. ASSUME NEW i \in 0 .. n + 1
      PROVE  /\ q[i] \in DOMAIN new
             /\ new[q[i]].next = q[i + 1]
             /\ new[q[i + 1]].prev = q[i]
  <2>1. CASE i = n + 1
    <3>1. head # x /\ head \in DOMAIN links
      BY <1>6, <1>2, <1>1 DEF Ring
    <3> QED
      BY <2>1, <3>1, <1>4, <1>5
  <2>2. CASE i = n
    BY <2>2, <1>2, <1>4, <1>5, <1>6
  <2>3. CASE i # n /\ i # n + 1
    <3>1. i \in 0 .. n /\ i + 1 \in 0 .. n /\ i + 1 # 0
      BY <2>3, <1>2
    <3>2. p[i] # p[n]
      BY <3>1, <2>3, <1>1, <1>2 DEF Ring
    <3>3. links[p[i]].next = p[i + 1] /\ links[p[i + 1]].prev = p[i]
      BY <3>1, <1>1 DEF Ring
    <3> QED
      BY <3>1, <3>2, <3>3, <1>4, <1>5, <1>6, <1>7
  <2> QED
    BY <2>1, <2>2, <2>3
<1>10. q = [i \in 0 .. (n + 1) + 1 |-> q[i]]
  BY DEF q
<1>11. Ring(new, head, n + 1, q)
  BY <1>2, <1>5, <1>8, <1>9, <1>10 DEF Ring
<1>12. S \cup {x} = {q[i] : i \in 1 .. n + 1}
  <2>1. \A i \in 1 .. n : i \in 1 .. n + 1 /\ i \in 0 .. n
    BY <1>2
  <2>2. n + 1 \in 1 .. n + 1 /\ \A i \in 1 .. n + 1 : i \in 1 .. n \/ i = n + 1
    BY <1>2
  <2> QED
    BY <2>1, <2>2, <1>1, <1>5
<1>13. RingOf(new, head, S \cup {x})
  BY <1>11, <1>12 DEF RingOf
<1> QED
  BY <1>13 DEF new

(* Another list, which shares no node with this one, is not disturbed.     *)
LEMMA OtherRingInsert ==
  ASSUME NEW links, NEW head, NEW S, NEW x, RingOf(links, head, S),
         NEW g, NEW T, RingOf(links, g, T), x \notin T \cup {g},
         (T \cup {g}) \cap (S \cup {head}) = {}
  PROVE  RingOf(InsertNodeBefore(links, x, head), g, T)
<1>1. PICK n, p : Ring(links, head, n, p) /\ S = {p[i] : i \in 1 .. n}
  BY DEF RingOf
<1>2. n \in Nat /\ n \in 0 .. n /\ (n = 0 \/ n \in 1 .. n)
  BY <1>1 DEF Ring
<1>3. links[head].prev = p[n] /\ p[n] \in S \cup {head}
  BY <1>1, <1>2 DEF Ring
<1>4. PICK k, q : Ring(links, g, k, q) /\ T = {q[i] : i \in 1 .. k}
  BY DEF RingOf
<1>5. \A y \in T \cup {g} : y \in DOMAIN links
  <2>1. k \in Nat /\ 0 \in 0 .. k /\ \A i \in 1 .. k : i \in 0 .. k
    BY <1>4 DEF Ring
  <2>2. g = q[0] /\ \A i \in 0 .. k : q[i] \in DOMAIN links
    BY <1>4 DEF Ring
  <2> QED
    BY <1>4, <2>1, <2>2
<1>6. \A y \in T \cup {g} : y # x /\ y # head /\ y # links[head].prev
  BY <1>3
<1> DEFINE new == InsertNodeBefore(links, x, head)
<1>7. \A y \in T \cup {g} : /\ y \in DOMAIN new
                            /\ new[y].next = links[y].next
                            /\ new[y].prev = links[y].prev
  BY <1>5, <1>6 DEF InsertNodeBefore
<1> HIDE DEF new
<1>8. RingOf(new, g, T)
  BY <1>7, RingLocal
<1> QED
  BY <1>8 DEF new

LEMMA RingRemove ==
  ASSUME NEW links, NEW head, NEW S, NEW x \in S, RingOf(links, head, S)
  PROVE  RingOf(RemoveNode(links, x), head, S \ {x})
<1>1. PICK n, p : Ring(links, head, n, p) /\ S = {p[i] : i \in 1 .. n}
  BY DEF RingOf
<1>2. PICK j \in 1 .. n : x = p[j]
  BY <1>1
<1>3. n \in Nat /\ n - 1 \in Nat /\ j \in 0 .. n /\ j - 1 \in 0 .. n /\ j \in Nat /\ j # 0 /\ j + 1 \in 0 .. n + 1
  BY <1>1, <1>2 DEF Ring
<1> DEFINE q == [i \in 0 .. (n - 1) + 1 |-> IF i < j THEN p[i] ELSE p[i + 1]]
           new == RemoveNode(links, x)
<1>4. links[x].prev = p[j - 1] /\ links[x].next = p[j + 1]
  <2>1. (j - 1) + 1 = j
    BY <1>3
  <2> QED
    BY <1>1, <1>2, <1>3, <2>1 DEF Ring
<1>5. /\ DOMAIN new = DOMAIN links \ {x}
      /\ \A y \in DOMAIN new : /\ new[y].prev = IF y = p[j + 1] THEN p[j - 1] ELSE links[y].prev
                               /\ new[y].next = IF y = p[j - 1] THEN p[j + 1] ELSE links[y].next
  BY <1>4 DEF RemoveNode
<1>6. /\ \A i \in 0 .. n : i < j => q[i] = p[i]
      /\ \A i \in 0 .. n : i >= j => q[i] = p[i + 1]
      /\ (n - 1) + 1 = n
  BY <1>3
<1>7. q = [i \in 0 .. (n - 1) + 1 |-> q[i]]
  OBVIOUS
<1> HIDE DEF q, new
<1>8. q[0] = head /\ q[n] = head
  <2>1. 0 \in 0 .. n /\ 0 < j /\ n \in 0 .. n /\ n >= j
    BY <1>3, <1>2
  <2> QED
    BY <2>1, <1>6, <1>1 DEF Ring
<1>9. /\ \A i \in 0 .. n : p[i] = p[n + 1] => i = 0
      /\ \A i, k \in 1 .. n + 1 : p[i] = p[k] => i = k
      /\ \A i, k \in 0 .. n : p[i] = p[k] => i = k
  <2>1. Ring(links, head, n, p)
    BY <1>1
  <2>2. \A i, k \in 0 .. n : p[i] = p[k] => i = k
    BY <2>1 DEF Ring
  <2> QED
    BY <2>1, <2>2, RingDistinct
<1>10. \A i, k \in 0 .. n - 1 : q[i] = q[k] => i = k
  <2>1. \A i \in 0 .. n - 1 : i \in 0 .. n /\ i + 1 \in 0 .. n /\ i \in Int
    BY <1>3
  <2>2. ASSUME NEW i \in 0 .. n - 1, NEW k \in 0 .. n - 1, q[i] = q[k]
        PROVE  i = k
    <3>1. CASE i < j /\ k < j
      BY <3>1, <2>1, <2>2, <1>6, <1>9
    <3>2. CASE i < j /\ k >= j
      BY <3>2, <2>1, <2>2, <1>6, <1>9, <1>3
    <3>3. CASE i >= j /\ k < j
      BY <3>3, <2>1, <2>2, <1>6, <1>9, <1>3
    <3>4. CASE i >= j /\ k >= j
      BY <3>4, <2>1, <2>2, <1>6, <1>9
    <3> QED
      BY <3>1, <3>2, <3>3, <3>4, <1>3
  <2> QED
    BY <2>2
<1>11. \A i \in 0 .. n : i # j => p[i] \in DOMAIN new /\ p[i] # x
  BY <1>1, <1>2, <1>3, <1>5, <1>9 DEF Ring
<1>12. \A i \in 0 .. n : links[p[i]].next = p[i + 1] /\ links[p[i + 1]].prev = p[i]
  BY <1>1 DEF Ring
<1>13. head \in DOMAIN new /\ p[n + 1] = head
  <2>1. 0 \in 0 .. n /\ p[0] = head /\ p[n + 1] = head
    BY <1>1, <1>3 DEF Ring
  <2> QED
    BY <2>1, <1>11, <1>3
<1>14. ASSUME NEW i \in 0 .. n - 1
       PROVE  /\ q[i] \in DOMAIN new
              /\ new[q[i]].next = q[i + 1]
              /\ new[q[i + 1]].prev = q[i]
  <2>0. i \in 0 .. n /\ i + 1 \in 0 .. n /\ i \in Int
    BY <1>3
  <2>1. CASE i + 1 < j
    <3>1. q[i] = p[i] /\ q[i + 1] = p[i + 1] /\ i # j /\ i + 1 # j /\ i # j - 1
      BY <2>0, <2>1, <1>3, <1>6
    <3>2. p[i] # p[j - 1]
      BY <3>1, <2>0, <1>3, <1>9
    <3>3. p[i + 1] # p[j + 1]
      BY <2>0, <2>1, <1>3, <1>9
    <3> QED
      BY <3>1, <3>2, <3>3, <2>0, <1>5, <1>11, <1>12
  <2>2. CASE i + 1 = j
    <3>1. q[i] = p[j - 1] /\ q[i + 1] = p[j + 1] /\ i # j
      BY <2>0, <2>2, <1>3, <1>6
    <3>2. p[j + 1] \in DOMAIN new
      <4>1. (j + 1 \in 0 .. n /\ j + 1 # j) \/ j + 1 = n + 1
        BY <1>3
      <4> QED
        BY <4>1, <1>11, <1>13
    <3>3. q[i] \in DOMAIN new
      BY <3>1, <2>0, <2>2, <1>3, <1>11
    <3> QED
      BY <3>1, <3>2, <3>3, <1>5
  <2>3. CASE i >= j
    <3>1. q[i] = p[i + 1] /\ q[i + 1] = p[(i + 1) + 1] /\ i + 1 # j /\ i + 1 # j - 1
      BY <2>0, <2>3, <1>3, <1>6
    <3>2. p[i + 1] # p[j - 1]
      BY <3>1, <2>0, <1>3, <1>9
    <3>3. p[(i + 1) + 1] # p[j + 1]
      BY <2>0, <2>3, <1>3, <1>9
    <3>4. p[(i + 1) + 1] \in DOMAIN new
      <4>1. ((i + 1) + 1 \in 0 .. n /\ (i + 1) + 1 # j) \/ (i + 1) + 1 = n + 1
        BY <2>0, <2>3, <1>3
      <4> QED
        BY <4>1, <1>11, <1>13
    <3> QED
      BY <3>1, <3>2, <3>3, <3>4, <2>0, <1>5, <1>11, <1>12
  <2> QED
    BY <2>0, <2>1, <2>2, <2>3, <1>3
<1>15. Ring(new, head, n - 1, q)
  <2>1. n - 1 \in Nat /\ (n - 1) + 1 = n
    BY <1>3
  <2> QED
    BY <2>1, <1>7, <1>8, <1>10, <1>14 DEF Ring
<1>16. S \ {x} = {q[i] : i \in 1 .. n - 1}
  <2>1. ASSUME NEW i \in 1 .. n - 1
        PROVE  q[i] \in S \ {x}
    <3>1. i \in 1 .. n /\ i + 1 \in 1 .. n /\ i \in 0 .. n /\ i \in Int
      BY <1>3
    <3>2. CASE i < j
      BY <3>1, <3>2, <1>1, <1>6, <1>11, <1>3
    <3>3. CASE i >= j
      <4>1. i + 1 # j /\ i + 1 \in 0 .. n
        BY <3>1, <3>3, <1>3
      <4> QED
        BY <3>1, <3>3, <4>1, <1>1, <1>6, <1>11
    <3> QED
      BY <3>1, <3>2, <3>3, <1>3
  <2>2. ASSUME NEW i \in 1 .. n, i # j
        PROVE  \E k \in 1 .. n - 1 : p[i] = q[k]
    <3>1. CASE i < j
      <4>1. i \in 1 .. n - 1 /\ i \in 0 .. n
        BY <3>1, <1>2, <1>3
      <4> QED
        BY <3>1, <4>1, <1>6
    <3>2. CASE i > j
      <4>1. i - 1 \in 1 .. n - 1 /\ i - 1 \in 0 .. n /\ i - 1 >= j /\ (i - 1) + 1 = i
        BY <3>2, <1>2, <1>3
      <4> QED
        BY <4>1, <1>6
    <3> QED
      BY <3>1, <3>2, <2>2, <1>3
  <2>3. \A y \in S \ {x} : \E i \in 1 .. n : i # j /\ y = p[i]
    BY <1>1, <1>2
  <2> QED
    BY <2>1, <2>2, <2>3
<1>17. RingOf(new, head, S \ {x})
  BY <1>15, <1>16 DEF RingOf
<1> QED
  BY <1>17 DEF new

LEMMA OtherRingRemove ==
  ASSUME NEW links, NEW head, NEW S, NEW x \in S, RingOf(links, head, S),
         NEW g, NEW T, RingOf(links, g, T),
         (T \cup {g}) \cap (S \cup {head}) = {}
  PROVE  RingOf(RemoveNode(links, x), g, T)
<1>1. PICK n, p : Ring(links, head, n, p) /\ S = {p[i] : i \in 1 .. n}
  BY DEF RingOf
<1>2. PICK j \in 1 .. n : x = p[j]
  BY <1>1
<1>3. n \in Nat /\ j \in 0 .. n /\ j - 1 \in 0 .. n /\ (j - 1) + 1 = j
  BY <1>1, <1>2 DEF Ring
<1>4. links[x].prev = p[j - 1] /\ links[x].next = p[j + 1]
  BY <1>1, <1>2, <1>3 DEF Ring
<1>5. p[j - 1] \in S \cup {head} /\ p[j + 1] \in S \cup {head}
  <2>1. (j - 1 = 0 \/ j - 1 \in 1 .. n) /\ (j + 1 \in 1 .. n \/ j + 1 = n + 1)
    BY <1>2, <1>3
  <2> QED
    BY <1>1, <2>1 DEF Ring
<1>6. PICK k, q : Ring(links, g, k, q) /\ T = {q[i] : i \in 1 .. k}
  BY DEF RingOf
<1>7. \A y \in T \cup {g} : y \in DOMAIN links
  <2>1. k \in Nat /\ 0 \in 0 .. k /\ \A i \in 1 .. k : i \in 0 .. k
    BY <1>6 DEF Ring
  <2>2. g = q[0] /\ \A i \in 0 .. k : q[i] \in DOMAIN links
    BY <1>6 DEF Ring
  <2> QED
    BY <1>6, <2>1, <2>2
<1>8. \A y \in T \cup {g} : y # x /\ y # links[x].prev /\ y # links[x].next
  BY <1>4, <1>5
<1> DEFINE new == RemoveNode(links, x)
<1>9. \A y \in T \cup {g} : /\ y \in DOMAIN new
                            /\ new[y].next = links[y].next
                            /\ new[y].prev = links[y].prev
  BY <1>7, <1>8 DEF RemoveNode
<1> HIDE DEF new
<1>10. RingOf(new, g, T)
  BY <1>9, RingLocal
<1> QED
  BY <1>10 DEF new


(* f follows the pointers `next', from the head on.                        *)
IsWalk(f, links, head, top) ==
  f = [n \in 0 .. top |-> IF n = 0 THEN head ELSE links[f[n - 1]].next]

LEMMA WalkExists ==
  ASSUME NEW links, NEW head, NEW top \in Nat
  PROVE  \E f : IsWalk(f, links, head, top)
<1> DEFINE None == {n \in Nat : ~ \E f : IsWalk(f, links, head, n)}
<1>1. SUFFICES ASSUME None # {}
               PROVE  FALSE
  OBVIOUS
<1>2. PICK n \in None : \A k \in None : n <= k
  BY <1>1, LeastNat
<1>3. CASE n = 0
  <2> DEFINE f == [i \in 0 .. 0 |-> head]
  <2>1. IsWalk(f, links, head, 0)
    BY DEF IsWalk
  <2> QED
    BY <2>1, <1>3
<1>4. CASE n # 0
  <2>1. n \in Nat /\ n - 1 \in Nat /\ ~ (n <= n - 1)
    BY <1>4
  <2>2. n - 1 \notin None
    BY <1>2, <2>1
  <2>3. PICK f : IsWalk(f, links, head, n - 1)
    BY <2>1, <2>2
  <2> DEFINE g == [i \in 0 .. n |-> IF i = n THEN links[f[n - 1]].next ELSE f[i]]
  <2>4. \A i \in 0 .. n - 1 : f[i] = IF i = 0 THEN head ELSE links[f[i - 1]].next
    BY <2>3 DEF IsWalk
  <2>5. \A i \in 0 .. n : i = n \/ i \in 0 .. n - 1
    BY <2>1
  <2>6. \A i \in 0 .. n : i # 0 => i - 1 \in 0 .. n - 1 /\ i - 1 \in 0 .. n /\ i - 1 # n
    BY <2>1
  <2>7. \A i \in 0 .. n : g[i] = IF i = 0 THEN head ELSE links[g[i - 1]].next
    BY <2>4, <2>5, <2>6, <1>4
  <2>8. g = [i \in 0 .. n |-> g[i]]
    OBVIOUS
  <2> HIDE DEF g
  <2>9. IsWalk(g, links, head, n)
    BY <2>7, <2>8 DEF IsWalk
  <2> QED
    BY <2>9
<1> QED
  BY <1>3, <1>4

LEMMA WalkFollows ==
  ASSUME NEW links, NEW head, NEW n, NEW p, Ring(links, head, n, p),
         NEW size \in Nat, n <= size, NEW f, IsWalk(f, links, head, size + 1)
  PROVE  \A i \in 0 .. n + 1 : f[i] = p[i]
<1> DEFINE Off == {i \in 0 .. n + 1 : f[i] # p[i]}
<1>1. SUFFICES ASSUME Off # {}
               PROVE  FALSE
  OBVIOUS
<1>2. n \in Nat /\ Off \in SUBSET Nat
  BY DEF Ring
<1>3. PICK i \in Off : \A k \in Off : i <= k
  BY <1>1, <1>2, LeastNat
<1>4. i \in 0 .. n + 1 /\ i \in 0 .. size + 1 /\ f[i] # p[i]
  BY <1>2
<1>5. f[i] = IF i = 0 THEN head ELSE links[f[i - 1]].next
  BY <1>4 DEF IsWalk
<1>6. i # 0
  BY <1>4, <1>5 DEF Ring
<1>7. i - 1 \in 0 .. n /\ i - 1 \in 0 .. n + 1 /\ (i - 1) + 1 = i /\ ~ (i <= i - 1)
  BY <1>2, <1>4, <1>6
<1>8. f[i - 1] = p[i - 1]
  BY <1>3, <1>7
<1>9. links[p[i - 1]].next = p[(i - 1) + 1]
  BY <1>7 DEF Ring
<1> QED
  BY <1>4, <1>5, <1>6, <1>7, <1>8, <1>9

TheWalk(links, head, size) == CHOOSE f : IsWalk(f, links, head, size + 1)
Ends(links, head, size) == {n \in 0 .. size : TheWalk(links, head, size)[n + 1] = head}

LEMMA KeysAreWalk ==
  ASSUME NEW links, NEW head, NEW size
  PROVE  KeysAfter(links, head, size)
           = [n \in 1 .. Min(Ends(links, head, size) \cup {size + 1})
                |-> TheWalk(links, head, size)[n][2]]
  BY DEF KeysAfter, Ends, TheWalk, IsWalk

LEMMA KeysOfRing ==
  ASSUME NEW links, NEW head, NEW n, NEW p, Ring(links, head, n, p),
         NEW size \in Nat, n <= size
  PROVE  KeysAfter(links, head, size) = [i \in 1 .. n |-> p[i][2]]
<1> DEFINE f == TheWalk(links, head, size)
           S == Ends(links, head, size) \cup {size + 1}
<1>1. n \in Nat /\ size + 1 \in Nat
  BY DEF Ring
<1>2. IsWalk(f, links, head, size + 1)
  BY <1>1, WalkExists DEF TheWalk
<1> HIDE DEF f
<1>3. \A i \in 0 .. n + 1 : f[i] = p[i]
  BY <1>2, WalkFollows
<1>4. n \in S
  <2>1. n \in 0 .. size /\ n + 1 \in 0 .. n + 1
    BY <1>1
  <2>2. f[n + 1] = head
    BY <2>1, <1>3 DEF Ring
  <2> QED
    BY <2>1, <2>2 DEF Ends, f
<1>5. ASSUME NEW k \in S
      PROVE  n <= k /\ k \in Nat
  <2>1. CASE k = size + 1
    BY <2>1, <1>1
  <2>2. CASE k # size + 1
    <3>1. k \in 0 .. size /\ f[k + 1] = head
      BY <2>2 DEF Ends, f
    <3>2. CASE k < n
      <4>1. k + 1 \in 1 .. n + 1 /\ n + 1 \in 1 .. n + 1 /\ k + 1 # n + 1 /\ k + 1 \in 0 .. n + 1
        BY <3>1, <3>2, <1>1
      <4>2. p[k + 1] = head /\ p[n + 1] = head
        BY <4>1, <3>1, <1>3 DEF Ring
      <4>3. \A i, j \in 1 .. n + 1 : p[i] = p[j] => i = j
        BY RingDistinct
      <4> QED
        BY <4>1, <4>2, <4>3
    <3> QED
      BY <3>1, <3>2, <1>1
  <2> QED
    BY <2>1, <2>2
<1> HIDE DEF S
<1>6. Min(S) = n
  <2>1. \A x \in S : (\A y \in S : x <= y) => x = n
    BY <1>4, <1>5
  <2>2. \E x \in S : \A y \in S : x <= y
    BY <1>4, <1>5
  <2>3. Min(S) \in S /\ \A y \in S : Min(S) <= y
    BY <2>2, Zenon DEF Min
  <2> QED
    BY <2>1, <2>3
<1>7. \A i \in 1 .. n : i \in 0 .. n + 1
  BY <1>1
<1>8. KeysAfter(links, head, size) = [i \in 1 .. Min(S) |-> f[i][2]]
  BY KeysAreWalk, Zenon DEF S, f
<1> QED
  BY <1>3, <1>6, <1>7, <1>8

(* The nodes of one list of the keys T.                                    *)
Nodes(tag, T) == {<<tag, k>> : k \in T}

LEMMA NodesTake ==
  ASSUME NEW tag, NEW T, NEW k
  PROVE  /\ Nodes(tag, T \cup {k}) = Nodes(tag, T) \cup {<<tag, k>>}
         /\ Nodes(tag, T \ {k}) = Nodes(tag, T) \ {<<tag, k>>}
         /\ <<tag, k>> \in Nodes(tag, T) <=> k \in T
  BY DEF Nodes

LEMMA RingKeys ==
  ASSUME NEW links, NEW head, NEW n, NEW p, NEW tag, NEW T,
         Ring(links, head, n, p), Nodes(tag, T) = {p[i] : i \in 1 .. n}
  PROVE  /\ \A i \in 1 .. n : p[i][2] \in T
         /\ \A i, j \in 1 .. n : p[i][2] = p[j][2] => i = j
         /\ \A k \in T : \E i \in 1 .. n : p[i][2] = k
<1>1. \A i \in 1 .. n : \E k \in T : p[i] = <<tag, k>>
  BY DEF Nodes
<1>2. \A k \in T : \E i \in 1 .. n : p[i] = <<tag, k>>
  BY DEF Nodes
<1>3. \A i \in 1 .. n : p[i] = <<tag, p[i][2]>> /\ p[i][2] \in T
  BY <1>1
<1>4. \A k \in T : \E i \in 1 .. n : p[i][2] = k
  BY <1>2
<1>5. \A i, j \in 1 .. n : p[i] = p[j] => i = j
  <2>1. \A i \in 1 .. n : i \in 1 .. n + 1
    BY DEF Ring
  <2> QED
    BY <2>1, RingDistinct
<1>6. \A i, j \in 1 .. n : p[i][2] = p[j][2] => i = j
  BY <1>3, <1>5
<1> QED
  BY <1>3, <1>4, <1>6

(* A walk that is as long as the map is large lists the keys once each.    *)
LEMMA WalkOfKeys ==
  ASSUME NEW links, NEW head, NEW tag, NEW T, NEW V, RingOf(links, head, Nodes(tag, T)),
         IsFiniteSet(V), T \subseteq V
  PROVE  LET keys == KeysAfter(links, head, Cardinality(V))
         IN  /\ Cardinality(T) \in Nat
             /\ keys = [i \in 1 .. Cardinality(T) |-> keys[i]]
             /\ IsInjective(keys)
             /\ ToSet(keys) = T
<1>1. PICK n, p : Ring(links, head, n, p) /\ Nodes(tag, T) = {p[i] : i \in 1 .. n}
  BY DEF RingOf
<1> DEFINE keys == KeysAfter(links, head, Cardinality(V))
           f == [i \in 1 .. n |-> p[i][2]]
<1>2. n \in Nat /\ Cardinality(V) \in Nat
  BY <1>1, FS_CardinalityType DEF Ring
<1>3. /\ \A i \in 1 .. n : p[i][2] \in T
      /\ \A i, j \in 1 .. n : p[i][2] = p[j][2] => i = j
      /\ \A k \in T : \E i \in 1 .. n : p[i][2] = k
  BY <1>1, RingKeys
<1>4. f \in Bijection(1 .. n, T)
  <2>1. f \in [1 .. n -> T]
    BY <1>3
  <2>2. IsInjective(f)
    BY <1>3 DEF IsInjective
  <2>3. \A k \in T : \E i \in 1 .. n : f[i] = k
    BY <1>3
  <2> HIDE DEF f
  <2> QED
    BY <2>1, <2>2, <2>3 DEF Injection, Surjection, Bijection, IsInjective
<1>5. IsFiniteSet(1 .. n) /\ Cardinality(1 .. n) = n
  BY <1>2, FS_Interval
<1>6. Cardinality(T) = n
  <2> HIDE DEF f
  <2>1. ExistsBijection(1 .. n, T)
    BY <1>4 DEF ExistsBijection
  <2>2. Cardinality(T) = Cardinality(1 .. n)
    BY <2>1, <1>5, FS_Bijection, Zenon
  <2> QED
    BY <2>2, <1>5
<1>7. n <= Cardinality(V)
  BY <1>6, FS_Subset
<1>8. keys = f
  BY <1>1, <1>2, <1>7, KeysOfRing
<1> HIDE DEF keys
<1>9. IsInjective(keys) /\ ToSet(keys) = T
  BY <1>8, <1>3 DEF IsInjective, ToSet
<1>10. keys = [i \in 1 .. n |-> keys[i]]
  BY <1>8
<1> QED
  BY <1>2, <1>6, <1>9, <1>10 DEF keys


InBucket(H, total, ix) == {k \in H : Hash[k] % total = ix}

(* The keys I are in the list of all nodes, and the keys H each in that of *)
(* its bucket.                                                             *)
Hung(links, I, H, total) ==
  /\ RingOf(links, Pivot, Nodes("iterator", I))
  /\ \A ix \in 0 .. total - 1 :
       RingOf(links, Bucket(ix), Nodes("hash", InBucket(H, total, ix)))

LEMMA ListsApart ==
  ASSUME NEW S, NEW T
  PROVE  /\ Nodes("iterator", S) \cap Nodes("hash", T) = {}
         /\ Pivot \notin Nodes("iterator", S) /\ Pivot \notin Nodes("hash", T)
         /\ \A ix : /\ Bucket(ix) # Pivot
                    /\ Bucket(ix) \notin Nodes("iterator", S)
                    /\ Bucket(ix) \notin Nodes("hash", T)
         /\ \A ix, jx : Bucket(ix) = Bucket(jx) => ix = jx
         /\ \A k : /\ IteratorList(k) # Pivot /\ HashList(k) # Pivot
                   /\ \A ix : IteratorList(k) # Bucket(ix) /\ HashList(k) # Bucket(ix)
                   /\ IteratorList(k) \notin Nodes("hash", T)
                   /\ HashList(k) \notin Nodes("iterator", S)
                   /\ IteratorList(k) \in Nodes("iterator", S) <=> k \in S
                   /\ HashList(k) \in Nodes("hash", T) <=> k \in T
BY DEF Nodes, Pivot, Bucket, IteratorList, HashList

LEMMA BucketsApart ==
  ASSUME NEW H, NEW total, NEW ix, NEW jx, ix # jx
  PROVE  Nodes("hash", InBucket(H, total, ix)) \cap Nodes("hash", InBucket(H, total, jx)) = {}
BY DEF Nodes, InBucket

LEMMA InsertDomain ==
  ASSUME NEW links, NEW n, NEW pivot
  PROVE  DOMAIN InsertNodeBefore(links, n, pivot) = DOMAIN links \cup {n}
BY DEF InsertNodeBefore

LEMMA RemoveDomain ==
  ASSUME NEW links, NEW n
  PROVE  DOMAIN RemoveNode(links, n) = DOMAIN links \ {n}
BY DEF RemoveNode

LEMMA HashInRange ==
  ASSUME NEW total \in Nat \ {0}, NEW h \in Nat
  PROVE  h % total \in 0 .. total - 1
OBVIOUS

LEMMA HangHash ==
  ASSUME NEW links, NEW I, NEW H, NEW total \in Nat \ {0}, Hung(links, I, H, total),
         NEW k, k \notin H, Hash[k] \in Nat
  PROVE  Hung(InsertNodeBefore(links, HashList(k), BucketOf(k, total)), I, H \cup {k}, total)
<1> DEFINE at == Hash[k] % total
           new == InsertNodeBefore(links, HashList(k), Bucket(at))
           In(ix) == Nodes("hash", InBucket(H, total, ix))
<1>1. at \in 0 .. total - 1
  BY HashInRange
<1>2. \A ix \in 0 .. total - 1 : RingOf(links, Bucket(ix), In(ix))
  BY DEF Hung
<1>3. RingOf(links, Pivot, Nodes("iterator", I))
  BY DEF Hung
<1>4. \A ix : HashList(k) \notin In(ix) /\ HashList(k) # Bucket(ix)
  <2>1. \A ix : k \notin InBucket(H, total, ix)
    BY DEF InBucket
  <2> QED
    BY <2>1, ListsApart
<1> HIDE DEF at
<1>5. RingOf(new, Bucket(at), In(at) \cup {HashList(k)})
  <2> HIDE DEF In
  <2>1. RingOf(links, Bucket(at), In(at)) /\ HashList(k) \notin In(at) /\ HashList(k) # Bucket(at)
    BY <1>1, <1>2, <1>4
  <2> QED
    BY <2>1, RingInsert
<1>6. RingOf(new, Pivot, Nodes("iterator", I))
  <2>1. RingOf(links, Bucket(at), In(at)) /\ RingOf(links, Pivot, Nodes("iterator", I))
    BY <1>1, <1>2, <1>3
  <2>2. /\ HashList(k) \notin Nodes("iterator", I) \cup {Pivot}
        /\ (Nodes("iterator", I) \cup {Pivot}) \cap (In(at) \cup {Bucket(at)}) = {}
    BY ListsApart
  <2> HIDE DEF In
  <2> QED
    BY <2>1, <2>2, OtherRingInsert
<1>7. ASSUME NEW ix \in 0 .. total - 1, ix # at
      PROVE  RingOf(new, Bucket(ix), In(ix))
  <2>1. RingOf(links, Bucket(at), In(at)) /\ RingOf(links, Bucket(ix), In(ix))
    BY <1>1, <1>2
  <2>2. HashList(k) \notin In(ix) \cup {Bucket(ix)}
    BY <1>4
  <2>3. (In(ix) \cup {Bucket(ix)}) \cap (In(at) \cup {Bucket(at)}) = {}
    <3>1. In(ix) \cap In(at) = {}
      BY <1>7, BucketsApart
    <3>2. Bucket(ix) # Bucket(at) /\ Bucket(ix) \notin In(at) /\ Bucket(at) \notin In(ix)
      BY <1>7, ListsApart
    <3> HIDE DEF In
    <3> QED
      BY <3>1, <3>2
  <2> HIDE DEF In
  <2> QED
    BY <2>1, <2>2, <2>3, OtherRingInsert
<1>8. /\ InBucket(H \cup {k}, total, at) = InBucket(H, total, at) \cup {k}
      /\ \A ix : ix # at => InBucket(H \cup {k}, total, ix) = InBucket(H, total, ix)
  BY DEF InBucket, at
<1>9. Nodes("hash", InBucket(H \cup {k}, total, at)) = In(at) \cup {HashList(k)}
  <2>1. Nodes("hash", InBucket(H, total, at) \cup {k})
          = Nodes("hash", InBucket(H, total, at)) \cup {<<"hash", k>>}
    BY DEF Nodes
  <2>2. InBucket(H \cup {k}, total, at) = InBucket(H, total, at) \cup {k}
    BY <1>8
  <2> QED
    BY <2>1, <2>2, Zenon DEF HashList
<1>10. \A ix \in 0 .. total - 1 :
         RingOf(new, Bucket(ix), Nodes("hash", InBucket(H \cup {k}, total, ix)))
  <2> HIDE DEF new
  <2> QED
    BY <1>5, <1>7, <1>8, <1>9
<1>11. Hung(new, I, H \cup {k}, total)
  BY <1>6, <1>10, Zenon DEF Hung
<1>12. new = InsertNodeBefore(links, HashList(k), BucketOf(k, total))
  BY DEF BucketOf, at
<1> QED
  BY <1>11, <1>12

LEMMA HangIterator ==
  ASSUME NEW links, NEW I, NEW H, NEW total, Hung(links, I, H, total), NEW k, k \notin I
  PROVE  Hung(InsertNodeBefore(links, IteratorList(k), Pivot), I \cup {k}, H, total)
<1> DEFINE new == InsertNodeBefore(links, IteratorList(k), Pivot)
           All == Nodes("iterator", I)
<1>1. RingOf(links, Pivot, All)
  BY DEF Hung
<1>2. RingOf(new, Pivot, Nodes("iterator", I \cup {k}))
  <2>1. IteratorList(k) \notin All /\ IteratorList(k) # Pivot
    BY ListsApart
  <2>2. RingOf(new, Pivot, All \cup {IteratorList(k)})
    <3> HIDE DEF All
    <3> QED
      BY <1>1, <2>1, RingInsert
  <2>3. Nodes("iterator", I \cup {k}) = All \cup {IteratorList(k)}
    BY NodesTake DEF IteratorList
  <2> QED
    BY <2>2, <2>3
<1>3. ASSUME NEW ix \in 0 .. total - 1
      PROVE  RingOf(new, Bucket(ix), Nodes("hash", InBucket(H, total, ix)))
  <2> DEFINE T == Nodes("hash", InBucket(H, total, ix))
  <2>1. RingOf(links, Bucket(ix), T)
    BY DEF Hung
  <2>2. /\ IteratorList(k) \notin T \cup {Bucket(ix)}
        /\ (T \cup {Bucket(ix)}) \cap (All \cup {Pivot}) = {}
    BY ListsApart
  <2> HIDE DEF T, All
  <2>3. RingOf(new, Bucket(ix), T)
    BY <1>1, <2>1, <2>2, OtherRingInsert
  <2> QED
    BY <2>3 DEF T
<1> HIDE DEF new
<1>4. Hung(new, I \cup {k}, H, total)
  BY <1>2, <1>3, Zenon DEF Hung
<1> QED
  BY <1>4 DEF new

LEMMA UnhangHash ==
  ASSUME NEW links, NEW I, NEW H, NEW total \in Nat \ {0}, Hung(links, I, H, total),
         NEW k \in H, Hash[k] \in Nat
  PROVE  Hung(RemoveNode(links, HashList(k)), I, H \ {k}, total)
<1> DEFINE at == Hash[k] % total
           new == RemoveNode(links, HashList(k))
           In(ix) == Nodes("hash", InBucket(H, total, ix))
<1>1. at \in 0 .. total - 1
  BY HashInRange
<1>2. \A ix \in 0 .. total - 1 : RingOf(links, Bucket(ix), In(ix))
  BY DEF Hung
<1>3. RingOf(links, Pivot, Nodes("iterator", I))
  BY DEF Hung
<1>4. HashList(k) \in In(at)
  <2>1. k \in InBucket(H, total, at)
    BY DEF InBucket
  <2> QED
    BY <2>1, ListsApart
<1> HIDE DEF at
<1>5. RingOf(new, Bucket(at), In(at) \ {HashList(k)})
  <2> HIDE DEF In
  <2>1. RingOf(links, Bucket(at), In(at))
    BY <1>1, <1>2
  <2> QED
    BY <2>1, <1>4, RingRemove
<1>6. RingOf(new, Pivot, Nodes("iterator", I))
  <2>1. RingOf(links, Bucket(at), In(at)) /\ RingOf(links, Pivot, Nodes("iterator", I))
    BY <1>1, <1>2, <1>3
  <2>2. (Nodes("iterator", I) \cup {Pivot}) \cap (In(at) \cup {Bucket(at)}) = {}
    BY ListsApart
  <2> HIDE DEF In
  <2> QED
    BY <2>1, <2>2, <1>4, OtherRingRemove
<1>7. ASSUME NEW ix \in 0 .. total - 1, ix # at
      PROVE  RingOf(new, Bucket(ix), In(ix))
  <2>1. RingOf(links, Bucket(at), In(at)) /\ RingOf(links, Bucket(ix), In(ix))
    BY <1>1, <1>2
  <2>2. (In(ix) \cup {Bucket(ix)}) \cap (In(at) \cup {Bucket(at)}) = {}
    <3>1. In(ix) \cap In(at) = {}
      BY <1>7, BucketsApart
    <3>2. Bucket(ix) # Bucket(at) /\ Bucket(ix) \notin In(at) /\ Bucket(at) \notin In(ix)
      BY <1>7, ListsApart
    <3> HIDE DEF In
    <3> QED
      BY <3>1, <3>2
  <2> HIDE DEF In
  <2> QED
    BY <2>1, <2>2, <1>4, OtherRingRemove
<1>8. /\ InBucket(H \ {k}, total, at) = InBucket(H, total, at) \ {k}
      /\ \A ix : ix # at => InBucket(H \ {k}, total, ix) = InBucket(H, total, ix)
  BY DEF InBucket, at
<1>9. Nodes("hash", InBucket(H \ {k}, total, at)) = In(at) \ {HashList(k)}
  <2>1. Nodes("hash", InBucket(H, total, at) \ {k})
          = Nodes("hash", InBucket(H, total, at)) \ {<<"hash", k>>}
    BY NodesTake, Zenon
  <2>2. InBucket(H \ {k}, total, at) = InBucket(H, total, at) \ {k}
    BY <1>8
  <2> QED
    BY <2>1, <2>2, Zenon DEF HashList
<1>10. \A ix \in 0 .. total - 1 :
         RingOf(new, Bucket(ix), Nodes("hash", InBucket(H \ {k}, total, ix)))
  <2> HIDE DEF new
  <2> QED
    BY <1>5, <1>7, <1>8, <1>9
<1> HIDE DEF new
<1>11. Hung(new, I, H \ {k}, total)
  BY <1>6, <1>10, Zenon DEF Hung
<1> QED
  BY <1>11 DEF new

LEMMA UnhangIterator ==
  ASSUME NEW links, NEW I, NEW H, NEW total, Hung(links, I, H, total), NEW k \in I
  PROVE  Hung(RemoveNode(links, IteratorList(k)), I \ {k}, H, total)
<1> DEFINE new == RemoveNode(links, IteratorList(k))
           All == Nodes("iterator", I)
<1>1. RingOf(links, Pivot, All)
  BY DEF Hung
<1>2. IteratorList(k) \in All
  BY ListsApart
<1>3. RingOf(new, Pivot, Nodes("iterator", I \ {k}))
  <2>1. RingOf(new, Pivot, All \ {IteratorList(k)})
    <3> HIDE DEF All
    <3> QED
      BY <1>1, <1>2, RingRemove
  <2>2. Nodes("iterator", I \ {k}) = All \ {IteratorList(k)}
    BY NodesTake DEF IteratorList
  <2> QED
    BY <2>1, <2>2
<1>4. ASSUME NEW ix \in 0 .. total - 1
      PROVE  RingOf(new, Bucket(ix), Nodes("hash", InBucket(H, total, ix)))
  <2> DEFINE T == Nodes("hash", InBucket(H, total, ix))
  <2>1. RingOf(links, Bucket(ix), T)
    BY DEF Hung
  <2>2. (T \cup {Bucket(ix)}) \cap (All \cup {Pivot}) = {}
    BY ListsApart
  <2> HIDE DEF T, All
  <2>3. RingOf(new, Bucket(ix), T)
    BY <1>1, <1>2, <2>1, <2>2, OtherRingRemove
  <2> QED
    BY <2>3 DEF T
<1> HIDE DEF new
<1>5. Hung(new, I \ {k}, H, total)
  BY <1>3, <1>4, Zenon DEF Hung
<1> QED
  BY <1>5 DEF new


LinkNodes(keys, total) ==
  {Pivot} \cup Buckets(total) \cup Nodes("iterator", keys) \cup Nodes("hash", keys)

(* The lists of a map of the keys in it and of nothing else.               *)
MapOK(m) ==
  /\ m = [links |-> m.links, value |-> m.value, size |-> m.size, buckets |-> m.buckets]
  /\ m.buckets \in Nat
  /\ IsFiniteSet(DOMAIN m.value)
  /\ m.size = Cardinality(DOMAIN m.value)
  /\ m.size * kThreshold <= m.buckets
  /\ \A k \in DOMAIN m.value : Hash[k] \in Nat
  /\ DOMAIN m.links = LinkNodes(DOMAIN m.value, m.buckets)
  /\ Hung(m.links, DOMAIN m.value, DOMAIN m.value, m.buckets)

LEMMA RingBack ==
  ASSUME NEW links, NEW head, NEW S, RingOf(links, head, S)
  PROVE  /\ \A x \in S \cup {head} : links[links[x].next].prev = x
         /\ S # {} => links[head].next \in S
<1>1. PICK n, p : Ring(links, head, n, p) /\ S = {p[i] : i \in 1 .. n}
  BY DEF RingOf
<1>2. n \in Nat /\ 0 \in 0 .. n /\ \A i \in 1 .. n : i \in 0 .. n
  BY <1>1 DEF Ring
<1>3. /\ head = p[0]
      /\ \A i \in 0 .. n : links[p[i]].next = p[i + 1] /\ links[p[i + 1]].prev = p[i]
  BY <1>1 DEF Ring
<1>4. ASSUME S # {}
      PROVE  links[head].next \in S
  <2>1. 0 + 1 \in 1 .. n
    BY <1>1, <1>2, <1>4
  <2> QED
    BY <1>1, <1>2, <1>3, <2>1
<1> QED
  BY <1>1, <1>2, <1>3, <1>4

LEMMA EmptyMapOK == MapOK(EmptyMap)
<1> DEFINE links == Alone({Pivot})
<1>1. /\ EmptyMap = [links |-> links, value |-> <<>>, size |-> 0, buckets |-> 0]
      /\ links[Pivot].next = Pivot /\ links[Pivot].prev = Pivot /\ DOMAIN links = {Pivot}
  BY DEF EmptyMap, Alone
<1>2. DOMAIN (<<>>) = {} /\ IsFiniteSet({}) /\ Cardinality({}) = 0
  BY FS_EmptySet
<1> HIDE DEF links
<1>3. RingOf(links, Pivot, {})
  BY <1>1, EmptyRing
<1>4. /\ Nodes("iterator", {}) = {} /\ Nodes("hash", {}) = {}
      /\ Buckets(0) = {}
  BY DEF Nodes, Buckets
<1>5. Hung(links, {}, {}, 0)
  BY <1>3, <1>4 DEF Hung
<1>6. DOMAIN links = LinkNodes({}, 0)
  BY <1>1, <1>4 DEF LinkNodes
<1>7. /\ EmptyMap.links = links /\ EmptyMap.value = <<>> /\ EmptyMap.size = 0
      /\ EmptyMap.buckets = 0
  BY <1>1
<1>8. EmptyMap = [links |-> EmptyMap.links, value |-> EmptyMap.value,
                  size |-> EmptyMap.size, buckets |-> EmptyMap.buckets]
  BY <1>1, <1>7
<1>9. 0 * kThreshold <= 0
  BY DEF kThreshold
<1> QED
  BY <1>2, <1>5, <1>6, <1>7, <1>8, <1>9 DEF MapOK

LEMMA SomeBucket ==
  ASSUME NEW m, MapOK(m), NEW k \in DOMAIN m.value
  PROVE  m.size \in Nat \ {0} /\ m.buckets \in Nat \ {0}
<1>1. m.size \in Nat /\ m.size # 0
  BY FS_CardinalityType, FS_EmptySet DEF MapOK
<1> QED
  BY <1>1 DEF MapOK, kThreshold

LEMMA BucketIs ==
  ASSUME NEW k, NEW total \in Nat \ {0}, Hash[k] \in Nat
  PROVE  /\ BucketOf(k, total) = Bucket(Hash[k] % total)
         /\ Hash[k] % total \in 0 .. total - 1
BY HashInRange DEF BucketOf

(* A key is found, in its bucket, when it is in the map.                   *)
LEMMA FoundInBucket ==
  ASSUME NEW m, MapOK(m), NEW k, Hash[k] \in Nat
  PROVE  HasKey(m, k) <=> k \in DOMAIN m.value
<1> DEFINE V == DOMAIN m.value
<1>0. IsFiniteSet(V) /\ m.size = Cardinality(V) /\ m.buckets \in Nat /\ m.size \in Nat
  BY FS_CardinalityType DEF MapOK
<1>1. CASE m.size = 0
  <2>1. V = {}
    BY <1>0, <1>1, FS_EmptySet
  <2> QED
    BY <2>1, <1>1 DEF HasKey
<1>2. CASE m.size # 0
  <2>1. m.buckets \in Nat \ {0}
    BY <1>0, <1>2 DEF MapOK, kThreshold
  <2> DEFINE at == Hash[k] % m.buckets
             T == InBucket(V, m.buckets, at)
  <2>2. BucketOf(k, m.buckets) = Bucket(at) /\ at \in 0 .. m.buckets - 1
    BY <2>1, BucketIs
  <2>3. RingOf(m.links, Bucket(at), Nodes("hash", T))
    BY <2>2 DEF MapOK, Hung
  <2>4. T \subseteq V /\ (k \in T <=> k \in V)
    BY DEF InBucket
  <2> HIDE DEF T, V, at
  <2>5. ToSet(KeysAfter(m.links, Bucket(at), Cardinality(V))) = T
    BY <2>3, <2>4, <1>0, WalkOfKeys
  <2>6. HasKey(m, k) <=> k \in T
    BY <2>2, <2>5, <1>0, <1>2 DEF HasKey
  <2> QED
    BY <2>4, <2>6 DEF V
<1> QED
  BY <1>1, <1>2

LEMMA OrderListsKeys ==
  ASSUME NEW m, MapOK(m)
  PROVE  /\ m.size \in Nat
         /\ InOrder(m) = [i \in 1 .. m.size |-> InOrder(m)[i]]
         /\ IsInjective(InOrder(m))
         /\ ToSet(InOrder(m)) = DOMAIN m.value
<1>1. /\ IsFiniteSet(DOMAIN m.value) /\ m.size = Cardinality(DOMAIN m.value)
      /\ RingOf(m.links, Pivot, Nodes("iterator", DOMAIN m.value))
  BY DEF MapOK, Hung
<1> QED
  BY <1>1, WalkOfKeys DEF InOrder

LEMMA FirstIsKey ==
  ASSUME NEW m, MapOK(m), DOMAIN m.value # {}
  PROVE  First(m) \in DOMAIN m.value
<1>1. RingOf(m.links, Pivot, Nodes("iterator", DOMAIN m.value))
  BY DEF MapOK, Hung
<1>2. Nodes("iterator", DOMAIN m.value) # {}
  BY DEF Nodes
<1>3. m.links[Pivot].next \in Nodes("iterator", DOMAIN m.value)
  BY <1>1, <1>2, RingBack
<1> QED
  BY <1>3 DEF Nodes, First

LEMMA MapOKIsExact ==
  ASSUME NEW m, MapOK(m)
  PROVE  MapExact(m)
<1> DEFINE V == DOMAIN m.value
<1>1. /\ m.size = Cardinality(V) /\ IsFiniteSet(V) /\ m.size * kThreshold <= m.buckets
      /\ m.buckets \in Nat /\ \A k \in V : Hash[k] \in Nat
      /\ Hung(m.links, V, V, m.buckets) /\ DOMAIN m.links = LinkNodes(V, m.buckets)
  BY DEF MapOK
<1>2. IsInjective(InOrder(m)) /\ ToSet(InOrder(m)) = V
  BY OrderListsKeys
<1> HIDE DEF V
<1>3. ASSUME NEW ix \in 0 .. m.buckets - 1
      PROVE  LET keys == KeysAfter(m.links, Bucket(ix), m.size)
             IN  /\ IsInjective(keys)
                 /\ ToSet(keys) = {k \in V : BucketOf(k, m.buckets) = Bucket(ix)}
  <2>1. RingOf(m.links, Bucket(ix), Nodes("hash", InBucket(V, m.buckets, ix)))
    BY <1>1 DEF Hung
  <2>2. InBucket(V, m.buckets, ix) \subseteq V
    BY DEF InBucket
  <2>3. InBucket(V, m.buckets, ix) = {k \in V : BucketOf(k, m.buckets) = Bucket(ix)}
    BY DEF InBucket, BucketOf, Bucket
  <2>4. /\ IsInjective(KeysAfter(m.links, Bucket(ix), Cardinality(V)))
        /\ ToSet(KeysAfter(m.links, Bucket(ix), Cardinality(V))) = InBucket(V, m.buckets, ix)
    BY <2>1, <2>2, <1>1, WalkOfKeys
  <2> QED
    BY <2>3, <2>4, <1>1
<1>4. ASSUME NEW n \in DOMAIN m.links
      PROVE  m.links[m.links[n].next].prev = n
  <2>1. CASE n \in Nodes("iterator", V) \cup {Pivot}
    BY <2>1, <1>1, RingBack DEF Hung
  <2>2. CASE n \in Buckets(m.buckets)
    <3>1. PICK ix \in 0 .. m.buckets - 1 : n = Bucket(ix)
      BY <2>2 DEF Buckets
    <3> QED
      BY <3>1, <1>1, RingBack DEF Hung
  <2>3. CASE n \in Nodes("hash", V)
    <3>1. PICK k \in V : n = HashList(k)
      BY <2>3 DEF Nodes, HashList
    <3> DEFINE at == Hash[k] % m.buckets
    <3>2. at \in 0 .. m.buckets - 1
      <4>1. k \in DOMAIN m.value
        BY DEF V
      <4> QED
        BY <4>1, <1>1, SomeBucket, HashInRange
    <3>3. n \in Nodes("hash", InBucket(V, m.buckets, at))
      BY <3>1 DEF Nodes, HashList, InBucket
    <3> HIDE DEF at
    <3> QED
      BY <3>2, <3>3, <1>1, RingBack DEF Hung
  <2> QED
    BY <1>1, <2>1, <2>2, <2>3 DEF LinkNodes
<1> QED
  BY <1>1, <1>2, <1>3, <1>4 DEF MapExact, V


LEMMA NodesWithout ==
  ASSUME NEW V, NEW total, NEW k
  PROVE  LinkNodes(V \ {k}, total) = LinkNodes(V, total) \ {HashList(k), IteratorList(k)}
BY DEF LinkNodes, Nodes, HashList, IteratorList, Buckets, Bucket, Pivot

LEMMA EraseOK ==
  ASSUME NEW m, MapOK(m), NEW k \in DOMAIN m.value
  PROVE  /\ MapOK(Erase(m, k))
         /\ Erase(m, k).value = [i \in DOMAIN m.value \ {k} |-> m.value[i]]
         /\ Erase(m, k).size = m.size - 1
         /\ Erase(m, k).buckets = m.buckets
<1> DEFINE V == DOMAIN m.value
           links == RemoveNode(RemoveNode(m.links, HashList(k)), IteratorList(k))
           value == [i \in V \ {k} |-> m.value[i]]
           new == [links |-> links, value |-> value, size |-> m.size - 1, buckets |-> m.buckets]
<1>1. Erase(m, k) = new
  <2>1. m = [links |-> m.links, value |-> m.value, size |-> m.size, buckets |-> m.buckets]
    BY DEF MapOK
  <2>2. Erase(m, k) = [m EXCEPT !.links = links, !.value = value, !.size = m.size - 1]
    BY DEF Erase, Restrict
  <2> HIDE DEF links, value
  <2> QED
    BY <2>1, <2>2
<1>2. /\ m.size = Cardinality(V) /\ IsFiniteSet(V) /\ m.size * kThreshold <= m.buckets
      /\ m.buckets \in Nat \ {0} /\ \A i \in V : Hash[i] \in Nat
      /\ Hung(m.links, V, V, m.buckets) /\ DOMAIN m.links = LinkNodes(V, m.buckets)
      /\ m.size \in Nat \ {0}
  BY SomeBucket DEF MapOK
<1>3. DOMAIN value = V \ {k}
  OBVIOUS
<1>4. IsFiniteSet(V \ {k}) /\ Cardinality(V \ {k}) = m.size - 1
  BY <1>2, FS_RemoveElement
<1>5. Hung(links, V \ {k}, V \ {k}, m.buckets)
  <2>1. Hung(RemoveNode(m.links, HashList(k)), V, V \ {k}, m.buckets)
    BY <1>2, UnhangHash
  <2> QED
    BY <2>1, UnhangIterator
<1>6. DOMAIN links = LinkNodes(V \ {k}, m.buckets)
  <2> DEFINE first == RemoveNode(m.links, HashList(k))
  <2>0. DOMAIN first = DOMAIN m.links \ {HashList(k)}
    BY RemoveDomain
  <2>1. DOMAIN links = (DOMAIN m.links \ {HashList(k)}) \ {IteratorList(k)}
    <3> HIDE DEF first
    <3>1. DOMAIN RemoveNode(first, IteratorList(k)) = DOMAIN first \ {IteratorList(k)}
      BY RemoveDomain
    <3> QED
      BY <2>0, <3>1 DEF first
  <2>2. LinkNodes(V \ {k}, m.buckets) = LinkNodes(V, m.buckets) \ {HashList(k), IteratorList(k)}
    BY NodesWithout
  <2> HIDE DEF links, V
  <2> QED
    BY <2>1, <2>2, <1>2
<1>7. (m.size - 1) * kThreshold <= m.buckets
  BY <1>2 DEF kThreshold
<1>8. /\ new.links = links /\ new.value = value /\ new.size = m.size - 1
      /\ new.buckets = m.buckets
      /\ new = [links |-> new.links, value |-> new.value, size |-> new.size,
                buckets |-> new.buckets]
  OBVIOUS
<1>9. \A i \in V \ {k} : Hash[i] \in Nat
  BY <1>2
<1> HIDE DEF links, value, V, new
<1>10. MapOK(new)
  BY <1>2, <1>3, <1>4, <1>5, <1>6, <1>7, <1>8, <1>9 DEF MapOK
<1> QED
  BY <1>1, <1>8, <1>10 DEF value, V

-----------------------------------------------------------------------------
(* grow_ hangs the nodes into the new buckets, one after the other.        *)

IsMove(f, base, keys, total, top) ==
  f = [n \in 0 .. top |->
         IF n = 0 THEN base
         ELSE InsertNodeBefore(f[n - 1], HashList(keys[n]), BucketOf(keys[n], total))]

TheMove(base, keys, total, top) == CHOOSE f : IsMove(f, base, keys, total, top)
Moved(base, keys, total, top) == TheMove(base, keys, total, top)[top]

LEMMA MoveExists ==
  ASSUME NEW base, NEW keys, NEW total, NEW top \in Nat
  PROVE  \E f : IsMove(f, base, keys, total, top)
<1> DEFINE None == {n \in Nat : ~ \E f : IsMove(f, base, keys, total, n)}
           Step(links, n) == InsertNodeBefore(links, HashList(keys[n]), BucketOf(keys[n], total))
<1>1. SUFFICES ASSUME None # {}
               PROVE  FALSE
  OBVIOUS
<1>2. PICK n \in None : \A k \in None : n <= k
  BY <1>1, LeastNat
<1>3. CASE n = 0
  <2> DEFINE f == [i \in 0 .. 0 |-> base]
  <2>1. IsMove(f, base, keys, total, 0)
    BY DEF IsMove
  <2> QED
    BY <2>1, <1>3
<1>4. CASE n # 0
  <2>1. n \in Nat /\ n - 1 \in Nat /\ ~ (n <= n - 1)
    BY <1>4
  <2>2. n - 1 \notin None
    BY <1>2, <2>1
  <2>3. PICK f : IsMove(f, base, keys, total, n - 1)
    BY <2>1, <2>2
  <2> DEFINE g == [i \in 0 .. n |-> IF i = n THEN Step(f[n - 1], n) ELSE f[i]]
  <2>4. \A i \in 0 .. n - 1 : f[i] = IF i = 0 THEN base ELSE Step(f[i - 1], i)
    BY <2>3 DEF IsMove
  <2>5. \A i \in 0 .. n : i = n \/ i \in 0 .. n - 1
    BY <2>1
  <2>6. \A i \in 0 .. n : i # 0 => i - 1 \in 0 .. n - 1 /\ i - 1 \in 0 .. n /\ i - 1 # n
    BY <2>1
  <2> HIDE DEF Step
  <2>7. \A i \in 0 .. n : g[i] = IF i = 0 THEN base ELSE Step(g[i - 1], i)
    BY <2>4, <2>5, <2>6, <1>4
  <2>8. g = [i \in 0 .. n |-> g[i]]
    OBVIOUS
  <2> HIDE DEF g
  <2>9. IsMove(g, base, keys, total, n)
    BY <2>7, <2>8 DEF IsMove, Step
  <2> QED
    BY <2>9
<1> QED
  BY <1>3, <1>4

KeysTo(keys, n) == {keys[i] : i \in 1 .. n}

Hashed(keys, top) ==
  /\ \A i, j \in 1 .. top : keys[i] = keys[j] => i = j
  /\ \A i \in 1 .. top : Hash[keys[i]] \in Nat

LEMMA MoveHangs ==
  ASSUME NEW base, NEW I, NEW total \in Nat \ {0}, NEW top \in Nat, NEW keys,
         Hung(base, I, {}, total), Nodes("hash", KeysTo(keys, top)) \subseteq DOMAIN base,
         Hashed(keys, top)
  PROVE  /\ Hung(Moved(base, keys, total, top), I, KeysTo(keys, top), total)
         /\ DOMAIN Moved(base, keys, total, top) = DOMAIN base
<1> DEFINE f == TheMove(base, keys, total, top)
           Good(n) == Hung(f[n], I, KeysTo(keys, n), total) /\ DOMAIN f[n] = DOMAIN base
           Bad == {n \in 0 .. top : ~ Good(n)}
<1>1. IsMove(f, base, keys, total, top)
  BY MoveExists DEF TheMove
<1> HIDE DEF f
<1>2. SUFFICES ASSUME Bad # {}
               PROVE  FALSE
  BY DEF f, Moved
<1>3. PICK n \in Bad : \A k \in Bad : n <= k
  <2>1. Bad \in SUBSET Nat
    OBVIOUS
  <2> HIDE DEF Bad
  <2> QED
    BY <1>2, <2>1, LeastNat
<1>4. n \in 0 .. top
  OBVIOUS
<1>5. f[n] = IF n = 0 THEN base
             ELSE InsertNodeBefore(f[n - 1], HashList(keys[n]), BucketOf(keys[n], total))
  BY <1>1, <1>4 DEF IsMove
<1>6. CASE n = 0
  <2>1. KeysTo(keys, 0) = {} /\ f[0] = base
    BY <1>5, <1>6 DEF KeysTo
  <2> QED
    BY <2>1, <1>6
<1>7. CASE n # 0
  <2>1. n \in 1 .. top /\ n - 1 \in 0 .. top /\ ~ (n <= n - 1)
    BY <1>4, <1>7
  <2>2. n - 1 \notin Bad
    <3> HIDE DEF Bad
    <3> QED
      BY <1>3, <2>1
  <2>3. Hung(f[n - 1], I, KeysTo(keys, n - 1), total) /\ DOMAIN f[n - 1] = DOMAIN base
    BY <2>1, <2>2
  <2>4. keys[n] \notin KeysTo(keys, n - 1) /\ keys[n] \in KeysTo(keys, top)
    <3>1. \A i \in 1 .. n - 1 : i \in 1 .. top /\ i # n
      BY <2>1
    <3> QED
      BY <3>1, <2>1 DEF KeysTo, Hashed
  <2>5. KeysTo(keys, n) = KeysTo(keys, n - 1) \cup {keys[n]}
    <3>1. \A i : i \in 1 .. n <=> i \in 1 .. n - 1 \/ i = n
      BY <2>1
    <3> QED
      BY <3>1 DEF KeysTo
  <2>6. Hash[keys[n]] \in Nat
    BY <2>1 DEF Hashed
  <2>7. Hung(f[n], I, KeysTo(keys, n), total)
    BY <1>5, <1>7, <2>3, <2>4, <2>5, <2>6, HangHash
  <2>8. HashList(keys[n]) \in DOMAIN base
    BY <2>4 DEF Nodes, HashList
  <2>9. DOMAIN f[n] = DOMAIN f[n - 1] \cup {HashList(keys[n])}
    <3>1. f[n] = InsertNodeBefore(f[n - 1], HashList(keys[n]), BucketOf(keys[n], total))
      BY <1>5, <1>7
    <3>2. DOMAIN InsertNodeBefore(f[n - 1], HashList(keys[n]), BucketOf(keys[n], total))
            = DOMAIN f[n - 1] \cup {HashList(keys[n])}
      BY InsertDomain
    <3> QED
      BY <3>1, <3>2
  <2> QED
    BY <2>3, <2>7, <2>8, <2>9
<1> QED
  BY <1>6, <1>7

NewBuckets(m) ==
  Over(Alone(Buckets(Enlarged(m.buckets))),
       Restrict(m.links, DOMAIN m.links \ Buckets(m.buckets)))

LEMMA GrowIs ==
  ASSUME NEW m
  PROVE  Grow(m) = [m EXCEPT !.buckets = Enlarged(m.buckets),
                             !.links = Moved(NewBuckets(m), InOrder(m), Enlarged(m.buckets),
                                             m.size)]
BY DEF Grow, Moved, TheMove, IsMove, NewBuckets

LEMMA NewBucketsHang ==
  ASSUME NEW m, MapOK(m)
  PROVE  /\ Hung(NewBuckets(m), DOMAIN m.value, {}, Enlarged(m.buckets))
         /\ DOMAIN NewBuckets(m) = LinkNodes(DOMAIN m.value, Enlarged(m.buckets))
<1> DEFINE V == DOMAIN m.value
           total == Enlarged(m.buckets)
           new == NewBuckets(m)
<1>1. DOMAIN m.links = LinkNodes(V, m.buckets) /\ RingOf(m.links, Pivot, Nodes("iterator", V))
  BY DEF MapOK, Hung
<1>2. /\ DOMAIN new = Buckets(total) \cup (DOMAIN m.links \ Buckets(m.buckets))
      /\ \A x \in Buckets(total) : new[x] = [prev |-> x, next |-> x]
      /\ \A x \in DOMAIN m.links \ Buckets(m.buckets) : x \notin Buckets(total) => new[x] = m.links[x]
  BY DEF NewBuckets, Over, Alone, Restrict
<1>3. \A c : Buckets(c) \cap (Nodes("iterator", V) \cup Nodes("hash", V) \cup {Pivot}) = {}
  BY DEF Buckets, Nodes, Pivot, Bucket
<1> HIDE DEF total, new, V
<1>4. DOMAIN new = LinkNodes(V, total)
  BY <1>1, <1>2, <1>3 DEF LinkNodes
<1>5. \A x \in Nodes("iterator", V) \cup {Pivot} : x \in DOMAIN new /\ new[x] = m.links[x]
  BY <1>1, <1>2, <1>3 DEF LinkNodes
<1>6. RingOf(new, Pivot, Nodes("iterator", V))
  BY <1>1, <1>5, RingLocal
<1>7. ASSUME NEW ix \in 0 .. total - 1
      PROVE  RingOf(new, Bucket(ix), Nodes("hash", InBucket({}, total, ix)))
  <2>1. Bucket(ix) \in Buckets(total)
    BY DEF Buckets
  <2>2. new[Bucket(ix)].next = Bucket(ix) /\ new[Bucket(ix)].prev = Bucket(ix)
    BY <2>1, <1>2
  <2>3. Bucket(ix) \in DOMAIN new
    BY <2>1, <1>2
  <2>4. RingOf(new, Bucket(ix), {})
    BY <2>2, <2>3, EmptyRing
  <2>5. Nodes("hash", InBucket({}, total, ix)) = {}
    BY DEF Nodes, InBucket
  <2> QED
    BY <2>4, <2>5
<1>8. Hung(new, V, {}, total)
  BY <1>6, <1>7 DEF Hung
<1> QED
  BY <1>4, <1>8 DEF total, new, V

LEMMA GrowOK ==
  ASSUME NEW m, MapOK(m)
  PROVE  /\ MapOK(Grow(m))
         /\ Grow(m).value = m.value
         /\ Grow(m).size = m.size
         /\ (m.size + 1) * kThreshold <= Grow(m).buckets
<1> DEFINE V == DOMAIN m.value
           total == Enlarged(m.buckets)
           keys == InOrder(m)
           base == NewBuckets(m)
           links == Moved(base, keys, total, m.size)
           new == [links |-> links, value |-> m.value, size |-> m.size, buckets |-> total]
<1>1. Grow(m) = new
  <2>1. m = [links |-> m.links, value |-> m.value, size |-> m.size, buckets |-> m.buckets]
    BY DEF MapOK
  <2>2. Grow(m) = [m EXCEPT !.buckets = total, !.links = links]
    BY GrowIs
  <2> HIDE DEF total, links
  <2> QED
    BY <2>1, <2>2
<1>2. /\ m.size = Cardinality(V) /\ IsFiniteSet(V) /\ m.size * kThreshold <= m.buckets
      /\ m.buckets \in Nat /\ \A i \in V : Hash[i] \in Nat
  BY DEF MapOK
<1>3. /\ m.size \in Nat
      /\ keys = [i \in 1 .. m.size |-> keys[i]]
      /\ IsInjective(keys)
      /\ ToSet(keys) = V
  BY OrderListsKeys
<1>4. Hung(base, V, {}, total) /\ DOMAIN base = LinkNodes(V, total)
  BY NewBucketsHang
<1>5. total \in Nat \ {0} /\ (m.size + 1) * kThreshold <= total
  BY <1>2, <1>3 DEF Enlarged, kThreshold
<1> HIDE DEF keys, base, total, V
<1>6. DOMAIN keys = 1 .. m.size
  BY <1>3
<1>7. KeysTo(keys, m.size) = V
  BY <1>3, <1>6 DEF KeysTo, ToSet
<1>8. Nodes("hash", KeysTo(keys, m.size)) \subseteq DOMAIN base
  BY <1>4, <1>7 DEF LinkNodes
<1>9. Hashed(keys, m.size)
  BY <1>2, <1>3, <1>6, <1>7 DEF IsInjective, KeysTo, Hashed
<1>10. Hung(links, V, V, total) /\ DOMAIN links = LinkNodes(V, total)
  <2>1. Hung(links, V, KeysTo(keys, m.size), total) /\ DOMAIN links = DOMAIN base
    BY <1>3, <1>4, <1>5, <1>8, <1>9, MoveHangs
  <2> QED
    BY <2>1, <1>4, <1>7
<1>11. /\ new.links = links /\ new.value = m.value /\ new.size = m.size /\ new.buckets = total
       /\ new = [links |-> new.links, value |-> new.value, size |-> new.size,
                 buckets |-> new.buckets]
  OBVIOUS
<1>12. m.size * kThreshold <= total
  BY <1>3, <1>5 DEF kThreshold
<1> HIDE DEF links, new
<1>13. MapOK(new)
  BY <1>2, <1>5, <1>10, <1>11, <1>12 DEF MapOK, V
<1> QED
  BY <1>1, <1>5, <1>11, <1>13

LEMMA InsertKeyOK ==
  ASSUME NEW m, MapOK(m), NEW k, k \notin DOMAIN m.value, Hash[k] \in Nat, NEW v
  PROVE  /\ MapOK(InsertKey(m, k, v))
         /\ InsertKey(m, k, v).value = Over([x \in {k} |-> v], m.value)
         /\ InsertKey(m, k, v).size = m.size + 1
<1> DEFINE V == DOMAIN m.value
           grown == GrowIfNeeded(m)
           total == grown.buckets
           links == InsertNodeBefore(InsertNodeBefore(grown.links, HashList(k), BucketOf(k, total)),
                                     IteratorList(k), Pivot)
           value == Over([x \in {k} |-> v], m.value)
           new == [links |-> links, value |-> value, size |-> m.size + 1, buckets |-> total]
<1>1. /\ MapOK(grown) /\ grown.value = m.value /\ grown.size = m.size
      /\ (m.size + 1) * kThreshold <= total
  <2>1. CASE (m.size + 1) * kThreshold > m.buckets
    BY <2>1, GrowOK DEF GrowIfNeeded
  <2>2. CASE ~ ((m.size + 1) * kThreshold > m.buckets)
    <3>1. m.size \in Nat /\ m.buckets \in Nat
      BY OrderListsKeys DEF MapOK
    <3> QED
      BY <2>2, <3>1 DEF GrowIfNeeded, kThreshold
  <2> QED
    BY <2>1, <2>2
<1> HIDE DEF grown
<1>2. InsertKey(m, k, v) = new
  <2>1. grown = [links |-> grown.links, value |-> m.value, size |-> m.size, buckets |-> total]
    BY <1>1 DEF MapOK
  <2>2. InsertKey(m, k, v) = [grown EXCEPT !.links = links, !.value = value, !.size = m.size + 1]
    BY <1>1 DEF InsertKey, grown
  <2> HIDE DEF links, value
  <2> QED
    BY <2>1, <2>2
<1>3. /\ m.size = Cardinality(V) /\ IsFiniteSet(V) /\ total \in Nat /\ \A i \in V : Hash[i] \in Nat
      /\ Hung(grown.links, V, V, total) /\ DOMAIN grown.links = LinkNodes(V, total)
  BY <1>1 DEF MapOK
<1>4. m.size \in Nat /\ total \in Nat \ {0}
  <2>1. m.size \in Nat
    BY OrderListsKeys
  <2> QED
    BY <2>1, <1>1, <1>3 DEF kThreshold
<1>5. DOMAIN value = V \cup {k}
  BY DEF Over
<1>6. IsFiniteSet(V \cup {k}) /\ Cardinality(V \cup {k}) = m.size + 1
  BY <1>3, FS_AddElement
<1> HIDE DEF total
<1>7. Hung(links, V \cup {k}, V \cup {k}, total)
  <2>1. Hung(InsertNodeBefore(grown.links, HashList(k), BucketOf(k, total)), V, V \cup {k}, total)
    BY <1>3, <1>4, HangHash
  <2> QED
    BY <2>1, HangIterator
<1>8. DOMAIN links = LinkNodes(V \cup {k}, total)
  <2> DEFINE first == InsertNodeBefore(grown.links, HashList(k), BucketOf(k, total))
  <2>0. DOMAIN first = DOMAIN grown.links \cup {HashList(k)}
    BY InsertDomain
  <2>1. DOMAIN links = (DOMAIN grown.links \cup {HashList(k)}) \cup {IteratorList(k)}
    <3> HIDE DEF first
    <3>1. DOMAIN InsertNodeBefore(first, IteratorList(k), Pivot)
            = DOMAIN first \cup {IteratorList(k)}
      BY InsertDomain
    <3> QED
      BY <2>0, <3>1 DEF first
  <2>2. LinkNodes(V \cup {k}, total) = LinkNodes(V, total) \cup {HashList(k), IteratorList(k)}
    <3> HIDE DEF V, links, value
    <3> QED
      BY DEF LinkNodes, Nodes, HashList, IteratorList
  <2> HIDE DEF links, V
  <2> QED
    BY <2>1, <2>2, <1>3
<1>9. \A i \in V \cup {k} : Hash[i] \in Nat
  BY <1>3
<1>10. /\ new.links = links /\ new.value = value /\ new.size = m.size + 1 /\ new.buckets = total
       /\ new = [links |-> new.links, value |-> new.value, size |-> new.size,
                 buckets |-> new.buckets]
  OBVIOUS
<1> HIDE DEF links, value, V, new
<1>11. MapOK(new)
  BY <1>1, <1>3, <1>5, <1>6, <1>7, <1>8, <1>9, <1>10 DEF MapOK
<1> QED
  BY <1>2, <1>10, <1>11 DEF value

-----------------------------------------------------------------------------
(* The store: what the cache holds goes before what the stream holds       *)

Ids == -1 .. MaxChunks - 1

IsDirty(entry) == entry.dirty

(* An entry that is not marked as changed is what the stream holds.        *)
Faithful(disk, i, entry) ==
  ~ IsDirty(entry) => i \in DOMAIN disk /\ disk[i] = entry.value

StoreOK(s) ==
  /\ s = [disk |-> s.disk, cache |-> s.cache]
  /\ MapOK(s.cache)
  /\ s.cache.size <= kSize
  /\ DOMAIN s.cache.value \subseteq Ids
  /\ DOMAIN s.disk \subseteq Ids
  /\ \A i \in DOMAIN s.cache.value : Faithful(s.disk, i, s.cache.value[i])

(* The chunks of the file, wherever they are kept.                         *)
Whole(s) == Over([i \in DOMAIN s.cache.value |-> s.cache.value[i].value], s.disk)

LEMMA PayloadIs ==
  ASSUME NEW v
  PROVE  /\ \A d : Payload(v, d).value = v
         /\ IsDirty(Payload(v, TRUE))
         /\ ~ IsDirty(Payload(v, FALSE))
<1>1. \A d : Payload(v, d).value = v
  BY DEF Payload
<1>2. Payload(v, TRUE).dirty = TRUE /\ Payload(v, FALSE).dirty = FALSE
  BY DEF Payload
<1> QED
  BY <1>1, <1>2, Zenon DEF IsDirty

LEMMA WholeAt ==
  ASSUME NEW s
  PROVE  /\ DOMAIN Whole(s) = DOMAIN s.cache.value \cup DOMAIN s.disk
         /\ \A i \in DOMAIN s.cache.value : Whole(s)[i] = s.cache.value[i].value
         /\ \A i \in DOMAIN s.disk \ DOMAIN s.cache.value : Whole(s)[i] = s.disk[i]
         /\ Whole(s) = [i \in DOMAIN Whole(s) |-> Whole(s)[i]]
BY DEF Whole, Over

LEMMA SameFunction ==
  ASSUME NEW f, NEW g, f = [i \in DOMAIN f |-> f[i]], g = [i \in DOMAIN g |-> g[i]],
         DOMAIN f = DOMAIN g, \A i \in DOMAIN f : f[i] = g[i]
  PROVE  f = g
OBVIOUS

(* What a record of a stream and a cache that is put together is.          *)
Both(disk, cache) == [disk |-> disk, cache |-> cache]

LEMMA BothIs ==
  ASSUME NEW disk, NEW cache
  PROVE  /\ Both(disk, cache).disk = disk
         /\ Both(disk, cache).cache = cache
         /\ Both(disk, cache) = [disk |-> Both(disk, cache).disk,
                                 cache |-> Both(disk, cache).cache]
BY DEF Both

LEMMA IdHashes ==
  ASSUME NEW i \in Ids
  PROVE  Hash[i] \in Nat
BY CacheAssumption DEF Ids

LEMMA TakeEntry ==
  ASSUME NEW s, StoreOK(s), NEW i \in DOMAIN s.cache.value
  PROVE  LET t == Both(s.disk, Erase(s.cache, i))
         IN  /\ StoreOK(t)
             /\ t.cache.size = s.cache.size - 1
             /\ DOMAIN t.cache.value = DOMAIN s.cache.value \ {i}
             /\ \A v : Stored(Whole(t), i, v) = Stored(Whole(s), i, v)
             /\ i \in DOMAIN s.disk /\ s.disk[i] = s.cache.value[i].value => Whole(t) = Whole(s)
<1> DEFINE t == Both(s.disk, Erase(s.cache, i))
           V == DOMAIN s.cache.value
<1>1. /\ MapOK(Erase(s.cache, i))
      /\ Erase(s.cache, i).value = [j \in V \ {i} |-> s.cache.value[j]]
      /\ Erase(s.cache, i).size = s.cache.size - 1
  BY EraseOK DEF StoreOK
<1>2. /\ t.disk = s.disk /\ t.cache = Erase(s.cache, i)
      /\ t = [disk |-> t.disk, cache |-> t.cache]
  BY BothIs
<1>3. s.cache.size \in Nat
  BY OrderListsKeys DEF StoreOK
<1> HIDE DEF t
<1>4. /\ DOMAIN t.cache.value = V \ {i}
      /\ \A j \in V \ {i} : t.cache.value[j] = s.cache.value[j]
  BY <1>1, <1>2
<1>5. StoreOK(t)
  <2>1. t.cache.size <= kSize
    BY <1>1, <1>2, <1>3, CacheAssumption DEF StoreOK
  <2> QED
    BY <1>1, <1>2, <1>4, <2>1 DEF StoreOK
<1>6. /\ DOMAIN Whole(t) = (V \ {i}) \cup DOMAIN s.disk
      /\ \A j \in V \ {i} : Whole(t)[j] = s.cache.value[j].value
      /\ \A j \in DOMAIN s.disk \ (V \ {i}) : Whole(t)[j] = s.disk[j]
  <2>1. /\ DOMAIN Whole(t) = DOMAIN t.cache.value \cup DOMAIN t.disk
        /\ \A j \in DOMAIN t.cache.value : Whole(t)[j] = t.cache.value[j].value
        /\ \A j \in DOMAIN t.disk \ DOMAIN t.cache.value : Whole(t)[j] = t.disk[j]
    BY WholeAt
  <2> HIDE DEF V
  <2> QED
    BY <1>2, <1>4, <2>1
<1>7. /\ DOMAIN Whole(s) = V \cup DOMAIN s.disk
      /\ \A j \in V : Whole(s)[j] = s.cache.value[j].value
      /\ \A j \in DOMAIN s.disk \ V : Whole(s)[j] = s.disk[j]
  BY WholeAt
<1> HIDE DEF V
<1>8. ASSUME NEW v
      PROVE  Stored(Whole(t), i, v) = Stored(Whole(s), i, v)
  <2>1. i \in V
    BY DEF V
  <2>2. DOMAIN Whole(t) \cup {i} = DOMAIN Whole(s) \cup {i}
    BY <1>6, <1>7, <2>1
  <2>3. \A j \in DOMAIN Whole(s) : j # i => Whole(t)[j] = Whole(s)[j]
    BY <1>6, <1>7
  <2> QED
    BY <2>2, <2>3 DEF Stored
<1>9. ASSUME i \in DOMAIN s.disk, s.disk[i] = s.cache.value[i].value
      PROVE  Whole(t) = Whole(s)
  <2>1. i \in V
    BY DEF V
  <2>2. DOMAIN Whole(t) = DOMAIN Whole(s)
    BY <1>6, <1>7, <1>9, <2>1
  <2>3. \A j \in DOMAIN Whole(s) : Whole(t)[j] = Whole(s)[j]
    BY <1>6, <1>7, <1>9, <2>1
  <2> QED
    BY <2>2, <2>3, WholeAt, SameFunction
<1> QED
  BY <1>1, <1>2, <1>4, <1>5, <1>8, <1>9 DEF t, V

LEMMA PutEntry ==
  ASSUME NEW s, StoreOK(s), NEW i \in Ids, i \notin DOMAIN s.cache.value,
         s.cache.size < kSize, NEW entry, Faithful(s.disk, i, entry)
  PROVE  LET t == Both(s.disk, InsertKey(s.cache, i, entry))
         IN  /\ StoreOK(t)
             /\ Whole(t) = Stored(Whole(s), i, entry.value)
<1> DEFINE t == Both(s.disk, InsertKey(s.cache, i, entry))
           V == DOMAIN s.cache.value
<1>0. Hash[i] \in Nat
  BY IdHashes
<1>1. /\ MapOK(InsertKey(s.cache, i, entry))
      /\ InsertKey(s.cache, i, entry).value = Over([x \in {i} |-> entry], s.cache.value)
      /\ InsertKey(s.cache, i, entry).size = s.cache.size + 1
  BY <1>0, InsertKeyOK DEF StoreOK
<1>2. /\ t.disk = s.disk /\ t.cache = InsertKey(s.cache, i, entry)
      /\ t = [disk |-> t.disk, cache |-> t.cache]
  BY BothIs
<1>3. s.cache.size \in Nat
  BY OrderListsKeys DEF StoreOK
<1> HIDE DEF t
<1>4. /\ DOMAIN t.cache.value = V \cup {i}
      /\ \A j \in V : t.cache.value[j] = s.cache.value[j]
      /\ t.cache.value[i] = entry
  <2>1. i \notin V
    OBVIOUS
  <2> HIDE DEF V
  <2>2. t.cache.value = [x \in V \cup {i} |-> IF x = i THEN entry ELSE s.cache.value[x]]
    BY <1>1, <1>2 DEF Over, V
  <2> QED
    BY <2>1, <2>2
<1>5. StoreOK(t)
  <2>1. t.cache.size <= kSize
    BY <1>1, <1>2, <1>3, CacheAssumption DEF StoreOK
  <2>2. \A j \in V : Faithful(t.disk, j, t.cache.value[j])
    BY <1>2, <1>4 DEF StoreOK
  <2>3. Faithful(t.disk, i, t.cache.value[i])
    BY <1>2, <1>4
  <2>4. DOMAIN t.cache.value \subseteq Ids /\ DOMAIN t.disk \subseteq Ids
    BY <1>2, <1>4 DEF StoreOK
  <2> HIDE DEF V
  <2>5. \A j \in DOMAIN t.cache.value : Faithful(t.disk, j, t.cache.value[j])
    BY <1>4, <2>2, <2>3
  <2> QED
    BY <1>1, <1>2, <2>1, <2>4, <2>5 DEF StoreOK
<1>6. /\ DOMAIN Whole(t) = (V \cup {i}) \cup DOMAIN s.disk
      /\ \A j \in V \cup {i} : Whole(t)[j] = t.cache.value[j].value
      /\ \A j \in DOMAIN s.disk \ (V \cup {i}) : Whole(t)[j] = s.disk[j]
  <2>1. /\ DOMAIN Whole(t) = DOMAIN t.cache.value \cup DOMAIN t.disk
        /\ \A j \in DOMAIN t.cache.value : Whole(t)[j] = t.cache.value[j].value
        /\ \A j \in DOMAIN t.disk \ DOMAIN t.cache.value : Whole(t)[j] = t.disk[j]
    BY WholeAt
  <2> HIDE DEF V
  <2> QED
    BY <1>2, <1>4, <2>1
<1>7. /\ DOMAIN Whole(s) = V \cup DOMAIN s.disk
      /\ \A j \in V : Whole(s)[j] = s.cache.value[j].value
      /\ \A j \in DOMAIN s.disk \ V : Whole(s)[j] = s.disk[j]
  BY WholeAt
<1>8. i \notin V
  OBVIOUS
<1> HIDE DEF V
<1>9. Whole(t) = Stored(Whole(s), i, entry.value)
  <2> DEFINE g == Stored(Whole(s), i, entry.value)
  <2>1. /\ DOMAIN g = DOMAIN Whole(s) \cup {i} /\ g = [j \in DOMAIN g |-> g[j]]
        /\ g[i] = entry.value
        /\ \A j \in DOMAIN Whole(s) : j # i => g[j] = Whole(s)[j]
    BY DEF Stored
  <2> HIDE DEF g
  <2>2. DOMAIN Whole(t) = DOMAIN g
    BY <1>6, <1>7, <2>1
  <2>3. \A j \in DOMAIN g : Whole(t)[j] = g[j]
    BY <1>4, <1>6, <1>7, <1>8, <2>1
  <2>4. Whole(t) = [j \in DOMAIN Whole(t) |-> Whole(t)[j]]
    BY WholeAt
  <2>5. Whole(t) = g
    BY <2>1, <2>2, <2>3, <2>4, SameFunction
  <2> QED
    BY <2>5 DEF g
<1> QED
  BY <1>5, <1>9 DEF t

LEMMA WriteBackOK ==
  ASSUME NEW s, StoreOK(s), NEW S, S \subseteq DOMAIN s.cache.value
  PROVE  LET w == WriteBack(s, S)
         IN  /\ StoreOK(w)
             /\ w.cache = s.cache
             /\ Whole(w) = Whole(s)
             /\ \A i \in S : i \in DOMAIN w.disk /\ w.disk[i] = s.cache.value[i].value
             /\ \A i \in DOMAIN s.disk \ S : i \in DOMAIN w.disk /\ w.disk[i] = s.disk[i]
<1> DEFINE w == WriteBack(s, S)
           dirty == {i \in S : s.cache.value[i].dirty}
           V == DOMAIN s.cache.value
<1>1. dirty = {i \in S : IsDirty(s.cache.value[i])}
  BY DEF IsDirty
<1>2. w = [disk |-> Over([i \in dirty |-> s.cache.value[i].value], s.disk), cache |-> s.cache]
  <2>1. s = [disk |-> s.disk, cache |-> s.cache]
    BY DEF StoreOK
  <2>2. w = [s EXCEPT !.disk = Over([i \in dirty |-> s.cache.value[i].value], @)]
    BY DEF WriteBack
  <2> HIDE DEF w, dirty
  <2> QED
    BY <2>1, <2>2
<1>3. /\ w.cache = s.cache
      /\ w = [disk |-> w.disk, cache |-> w.cache]
      /\ w.disk = Over([i \in dirty |-> s.cache.value[i].value], s.disk)
  <2> HIDE DEF w, dirty
  <2> QED
    BY <1>2
<1> HIDE DEF w, dirty
<1>4. /\ DOMAIN w.disk = dirty \cup DOMAIN s.disk
      /\ \A i \in dirty : w.disk[i] = s.cache.value[i].value
      /\ \A i \in DOMAIN s.disk \ dirty : w.disk[i] = s.disk[i]
  BY <1>3 DEF Over
<1>5. dirty \subseteq S /\ dirty \subseteq V /\ \A i \in S \ dirty : ~ IsDirty(s.cache.value[i])
  BY <1>1
<1>6. \A i \in V : Faithful(s.disk, i, s.cache.value[i])
  BY DEF StoreOK
<1>7. \A i \in S : i \in DOMAIN w.disk /\ w.disk[i] = s.cache.value[i].value
  BY <1>4, <1>5, <1>6 DEF Faithful
<1>8. \A i \in V : Faithful(w.disk, i, s.cache.value[i])
  BY <1>4, <1>5, <1>6 DEF Faithful
<1>9. StoreOK(w)
  <2>1. DOMAIN w.disk \subseteq Ids
    BY <1>4, <1>5 DEF StoreOK
  <2> QED
    BY <1>3, <1>8, <2>1 DEF StoreOK
<1>10. Whole(w) = Whole(s)
  <2>1. /\ DOMAIN Whole(w) = V \cup DOMAIN w.disk
        /\ \A j \in V : Whole(w)[j] = s.cache.value[j].value
        /\ \A j \in DOMAIN w.disk \ V : Whole(w)[j] = w.disk[j]
    <3>1. /\ DOMAIN Whole(w) = DOMAIN w.cache.value \cup DOMAIN w.disk
          /\ \A j \in DOMAIN w.cache.value : Whole(w)[j] = w.cache.value[j].value
          /\ \A j \in DOMAIN w.disk \ DOMAIN w.cache.value : Whole(w)[j] = w.disk[j]
      BY WholeAt
    <3> QED
      BY <1>3, <3>1
  <2>2. /\ DOMAIN Whole(s) = V \cup DOMAIN s.disk
        /\ \A j \in V : Whole(s)[j] = s.cache.value[j].value
        /\ \A j \in DOMAIN s.disk \ V : Whole(s)[j] = s.disk[j]
    BY WholeAt
  <2> HIDE DEF V
  <2>3. DOMAIN Whole(w) = DOMAIN Whole(s) /\ \A j \in DOMAIN Whole(s) : Whole(w)[j] = Whole(s)[j]
    BY <2>1, <2>2, <1>4, <1>5
  <2> QED
    BY <2>3, WholeAt, SameFunction
<1>11. \A i \in DOMAIN s.disk \ S : i \in DOMAIN w.disk /\ w.disk[i] = s.disk[i]
  BY <1>4, <1>5
<1> QED
  BY <1>3, <1>7, <1>9, <1>10, <1>11 DEF w

-----------------------------------------------------------------------------
(* The gets and sets of chunks keep the store in order                     *)

LEMMA TouchOK ==
  ASSUME NEW s, StoreOK(s), NEW i \in DOMAIN s.cache.value, NEW entry, Faithful(s.disk, i, entry)
  PROVE  /\ StoreOK(Touch(s, i, entry))
         /\ Whole(Touch(s, i, entry)) = Stored(Whole(s), i, entry.value)
<1> DEFINE t == Both(s.disk, Erase(s.cache, i))
<1>1. /\ StoreOK(t)
      /\ t.cache.size = s.cache.size - 1
      /\ DOMAIN t.cache.value = DOMAIN s.cache.value \ {i}
      /\ \A v : Stored(Whole(t), i, v) = Stored(Whole(s), i, v)
  BY TakeEntry
<1>2. t.disk = s.disk /\ t.cache = Erase(s.cache, i)
  BY BothIs
<1>3. s.cache.size \in Nat /\ s.cache.size <= kSize /\ i \in Ids
  BY OrderListsKeys DEF StoreOK
<1> HIDE DEF t
<1>4. t.cache.size < kSize /\ i \notin DOMAIN t.cache.value
  BY <1>1, <1>3, CacheAssumption
<1> DEFINE u == Both(t.disk, InsertKey(t.cache, i, entry))
<1>5. StoreOK(u) /\ Whole(u) = Stored(Whole(t), i, entry.value)
  BY <1>1, <1>2, <1>3, <1>4, PutEntry
<1>6. Touch(s, i, entry) = u
  <2>1. s = [disk |-> s.disk, cache |-> s.cache]
    BY DEF StoreOK
  <2> QED
    BY <1>2, <2>1 DEF Touch, Both
<1> HIDE DEF u
<1> QED
  BY <1>1, <1>5, <1>6

LEMMA InsertOK ==
  ASSUME NEW s, StoreOK(s), NEW i \in Ids, i \notin DOMAIN s.cache.value,
         NEW entry, Faithful(s.disk, i, entry)
  PROVE  /\ StoreOK(Insert(s, i, entry))
         /\ Whole(Insert(s, i, entry)) = Stored(Whole(s), i, entry.value)
<1>1. s = [disk |-> s.disk, cache |-> s.cache] /\ s.cache.size \in Nat /\ s.cache.size <= kSize
  BY OrderListsKeys DEF StoreOK
<1>2. CASE s.cache.size # kSize
  <2>1. s.cache.size < kSize
    BY <1>1, <1>2, CacheAssumption
  <2> DEFINE u == Both(s.disk, InsertKey(s.cache, i, entry))
  <2>2. StoreOK(u) /\ Whole(u) = Stored(Whole(s), i, entry.value)
    BY <2>1, PutEntry
  <2>3. Insert(s, i, entry) = u
    BY <1>1, <1>2 DEF Insert, Both
  <2> HIDE DEF u
  <2> QED
    BY <2>2, <2>3
<1>3. CASE s.cache.size = kSize
  <2> DEFINE lru == First(s.cache)
             w == WriteBack(s, {lru})
             t == Both(w.disk, Erase(w.cache, lru))
             u == Both(t.disk, InsertKey(t.cache, i, entry))
  <2>1. lru \in DOMAIN s.cache.value
    <3>1. s.cache.size # 0
      BY <1>3, CacheAssumption
    <3>2. MapOK(s.cache) /\ s.cache.size = Cardinality(DOMAIN s.cache.value)
      BY DEF StoreOK, MapOK
    <3>3. DOMAIN s.cache.value # {}
      BY <3>1, <3>2, FS_EmptySet
    <3> QED
      BY <3>2, <3>3, FirstIsKey
  <2> HIDE DEF lru
  <2>2. /\ StoreOK(w)
        /\ w.cache = s.cache
        /\ Whole(w) = Whole(s)
        /\ lru \in DOMAIN w.disk /\ w.disk[lru] = s.cache.value[lru].value
        /\ \A j \in DOMAIN s.disk \ {lru} : j \in DOMAIN w.disk /\ w.disk[j] = s.disk[j]
    <3>1. {lru} \subseteq DOMAIN s.cache.value
      BY <2>1
    <3> QED
      BY <3>1, WriteBackOK
  <2>3. w = [disk |-> w.disk, cache |-> w.cache]
    BY <2>2 DEF StoreOK
  <2> HIDE DEF w
  <2>4. /\ StoreOK(t)
        /\ t.cache.size = w.cache.size - 1
        /\ DOMAIN t.cache.value = DOMAIN w.cache.value \ {lru}
        /\ Whole(t) = Whole(w)
    <3>1. lru \in DOMAIN w.cache.value /\ w.disk[lru] = w.cache.value[lru].value
      BY <2>1, <2>2
    <3> QED
      BY <3>1, <2>2, TakeEntry
  <2>5. t.disk = w.disk /\ t.cache = Erase(w.cache, lru)
    BY BothIs
  <2> HIDE DEF t
  <2>6. t.cache.size < kSize /\ i \notin DOMAIN t.cache.value
    BY <1>3, <2>2, <2>4, CacheAssumption
  <2>7. Faithful(t.disk, i, entry)
    <3>1. i # lru
      BY <2>1
    <3> QED
      BY <3>1, <2>2, <2>5 DEF Faithful
  <2>8. StoreOK(u) /\ Whole(u) = Stored(Whole(t), i, entry.value)
    BY <2>4, <2>6, <2>7, PutEntry
  <2>9. Insert(s, i, entry) = u
    <3>1. Insert(s, i, entry)
            = [[w EXCEPT !.cache = Erase(@, lru)] EXCEPT !.cache = InsertKey(@, i, entry)]
      BY <1>3 DEF Insert, lru, w
    <3> QED
      BY <3>1, <2>3, <2>5 DEF Both
  <2> HIDE DEF u
  <2> QED
    BY <2>2, <2>4, <2>8, <2>9
<1> QED
  BY <1>2, <1>3

LEMMA CachedIs ==
  ASSUME NEW s, StoreOK(s), NEW i \in Ids
  PROVE  Cached(s, i) <=> i \in DOMAIN s.cache.value
<1>1. MapOK(s.cache) /\ Hash[i] \in Nat
  BY IdHashes DEF StoreOK
<1> QED
  BY <1>1, FoundInBucket DEF Cached

LEMMA WholeIds ==
  ASSUME NEW s, StoreOK(s)
  PROVE  DOMAIN Whole(s) \subseteq Ids
BY WholeAt DEF StoreOK

LEMMA ReadWhole ==
  ASSUME NEW s, StoreOK(s), NEW i \in DOMAIN Whole(s)
  PROVE  Read(s, i) = Whole(s)[i]
<1>1. i \in Ids
  BY WholeIds
<1>2. i \in DOMAIN s.cache.value \/ i \in DOMAIN s.disk \ DOMAIN s.cache.value
  BY WholeAt
<1> QED
  BY <1>1, <1>2, CachedIs, WholeAt DEF Read

LEMMA StoredAgain ==
  ASSUME NEW f, f = [j \in DOMAIN f |-> f[j]], NEW i \in DOMAIN f
  PROVE  Stored(f, i, f[i]) = f
BY DEF Stored

(* A get changes nothing but what is in the cache.                         *)
LEMMA AfterGetOK ==
  ASSUME NEW s, StoreOK(s), NEW i \in DOMAIN Whole(s)
  PROVE  StoreOK(AfterGet(s, i)) /\ Whole(AfterGet(s, i)) = Whole(s)
<1>1. i \in Ids
  BY WholeIds
<1>2. Stored(Whole(s), i, Whole(s)[i]) = Whole(s)
  BY WholeAt, StoredAgain
<1>3. CASE i \in DOMAIN s.cache.value
  <2>1. Whole(s)[i] = s.cache.value[i].value /\ Faithful(s.disk, i, s.cache.value[i])
    BY <1>3, WholeAt DEF StoreOK
  <2>2. AfterGet(s, i) = Touch(s, i, s.cache.value[i])
    BY <1>1, <1>3, CachedIs DEF AfterGet
  <2> QED
    BY <1>2, <1>3, <2>1, <2>2, TouchOK
<1>4. CASE i \notin DOMAIN s.cache.value
  <2>1. i \in DOMAIN s.disk
    BY <1>4, WholeAt
  <2> DEFINE entry == Payload(s.disk[i], FALSE)
  <2>2. Whole(s)[i] = s.disk[i] /\ entry.value = s.disk[i]
    BY <1>4, <2>1, WholeAt, PayloadIs
  <2>3. AfterGet(s, i) = Insert(s, i, entry)
    BY <1>1, <1>4, CachedIs DEF AfterGet
  <2> HIDE DEF entry
  <2>4. Faithful(s.disk, i, entry)
    BY <2>1, <2>2 DEF Faithful
  <2> QED
    BY <1>1, <1>2, <1>4, <2>2, <2>3, <2>4, InsertOK
<1> QED
  BY <1>3, <1>4

(* A set changes one chunk.                                                *)
LEMMA WrittenOK ==
  ASSUME NEW s, StoreOK(s), NEW i \in Ids, NEW v
  PROVE  StoreOK(Written(s, i, v)) /\ Whole(Written(s, i, v)) = Stored(Whole(s), i, v)
<1> DEFINE entry == Payload(v, TRUE)
<1>1. entry.value = v /\ Faithful(s.disk, i, entry)
  BY PayloadIs DEF Faithful
<1>2. CASE i \in DOMAIN s.cache.value
  <2>1. Written(s, i, v) = Touch(s, i, entry)
    BY <1>2, CachedIs DEF Written
  <2> HIDE DEF entry
  <2> QED
    BY <1>1, <1>2, <2>1, TouchOK
<1>3. CASE i \notin DOMAIN s.cache.value
  <2>1. Written(s, i, v) = Insert(s, i, entry)
    BY <1>3, CachedIs DEF Written
  <2> HIDE DEF entry
  <2> QED
    BY <1>1, <1>3, <2>1, InsertOK
<1> QED
  BY <1>2, <1>3

LEMMA EmptyCache ==
  /\ EmptyMap.value = <<>> /\ DOMAIN EmptyMap.value = {} /\ EmptyMap.size = 0
BY DEF EmptyMap

LEMMA ClearedOK ==
  ASSUME NEW s, StoreOK(s)
  PROVE  LET t == [WriteBack(s, DOMAIN s.cache.value) EXCEPT !.cache = EmptyMap]
         IN  StoreOK(t) /\ Whole(t) = Whole(s)
<1> DEFINE V == DOMAIN s.cache.value
           w == WriteBack(s, V)
           t == [w EXCEPT !.cache = EmptyMap]
<1>1. /\ StoreOK(w)
      /\ w.cache = s.cache
      /\ Whole(w) = Whole(s)
      /\ \A i \in V : i \in DOMAIN w.disk /\ w.disk[i] = s.cache.value[i].value
  BY WriteBackOK
<1>2. w = [disk |-> w.disk, cache |-> w.cache]
  BY <1>1 DEF StoreOK
<1> HIDE DEF w
<1>3. t = Both(w.disk, EmptyMap)
  BY <1>2 DEF Both
<1> HIDE DEF t
<1>4. t.disk = w.disk /\ t.cache = EmptyMap /\ t = [disk |-> t.disk, cache |-> t.cache]
  BY <1>3, BothIs
<1>5. StoreOK(t)
  BY <1>1, <1>4, EmptyMapOK, EmptyCache, CacheAssumption DEF StoreOK
<1>6. Whole(t) = Whole(w)
  <2>1. DOMAIN Whole(w) = DOMAIN w.disk
    BY <1>1, WholeAt
  <2>2. \A i \in DOMAIN w.disk : Whole(w)[i] = w.disk[i]
    <3>1. /\ \A i \in DOMAIN w.cache.value : Whole(w)[i] = w.cache.value[i].value
          /\ \A i \in DOMAIN w.disk \ DOMAIN w.cache.value : Whole(w)[i] = w.disk[i]
      BY WholeAt
    <3> QED
      BY <3>1, <1>1
  <2>3. DOMAIN Whole(t) = DOMAIN w.disk /\ \A i \in DOMAIN w.disk : Whole(t)[i] = w.disk[i]
    <3>1. /\ DOMAIN Whole(t) = DOMAIN t.cache.value \cup DOMAIN t.disk
          /\ \A i \in DOMAIN t.disk \ DOMAIN t.cache.value : Whole(t)[i] = t.disk[i]
      BY WholeAt
    <3> QED
      BY <3>1, <1>4, EmptyCache
  <2>4. DOMAIN Whole(t) = DOMAIN Whole(w) /\ \A i \in DOMAIN Whole(t) : Whole(t)[i] = Whole(w)[i]
    BY <2>1, <2>2, <2>3
  <2>5. /\ Whole(t) = [i \in DOMAIN Whole(t) |-> Whole(t)[i]]
        /\ Whole(w) = [i \in DOMAIN Whole(w) |-> Whole(w)[i]]
    BY WholeAt
  <2> QED
    BY <2>4, <2>5, SameFunction
<1> QED
  BY <1>1, <1>5, <1>6 DEF t, w

-----------------------------------------------------------------------------
(* The chunks of a file: those in use and the stack of free ones           *)

(* The record that leads to the j-th of the free chunks, or, if there is   *)
(* none below it, to the end of the n chunks.                              *)
HasNext(link) == link.hasNext

LeadsTo(link, free, j, n) ==
  /\ link = [next |-> link.next, hasNext |-> link.hasNext, user |-> link.user]
  /\ HasNext(link) <=> j > 0
  /\ link.next = IF j > 0 THEN free[j] ELSE n

(* The free list of a file is a stack of r of the n chunks ever given out; *)
(* the header leads to its top, and each chunk to the one under it.        *)
FreeStack(f, used, n, r, free) ==
  /\ n \in 0 .. MaxChunks /\ r \in Nat
  /\ \A i, j \in 1 .. r : free[i] = free[j] => i = j
  /\ \A j \in 1 .. r : free[j] \in (0 .. n - 1) \ used
  /\ \A i \in (0 .. n - 1) \ used : \E j \in 1 .. r : i = free[j]
  /\ used \subseteq 0 .. n - 1
  /\ f = [header |-> f.header, chunks |-> f.chunks]
  /\ 0 .. n - 1 \subseteq DOMAIN f.chunks
  /\ LeadsTo(f.header, free, r, n)
  /\ \A j \in 1 .. r : LeadsTo(f.chunks[free[j]], free, j - 1, n)

FileOK(f, used) == \E n, r, free : FreeStack(f, used, n, r, free)

LEMMA HeaderIs ==
  ASSUME NEW next
  PROVE  /\ \A flag : Header(next, flag).next = next
         /\ HasNext(Header(next, TRUE)) /\ ~ HasNext(Header(next, FALSE))
         /\ \A flag : Header(next, flag) = [next |-> Header(next, flag).next,
                                            hasNext |-> Header(next, flag).hasNext,
                                            user |-> Header(next, flag).user]
<1>1. \A flag : /\ Header(next, flag).next = next
                /\ Header(next, flag) = [next |-> Header(next, flag).next,
                                         hasNext |-> Header(next, flag).hasNext,
                                         user |-> Header(next, flag).user]
  BY DEF Header
<1>2. Header(next, TRUE).hasNext = TRUE /\ Header(next, FALSE).hasNext = FALSE
  BY DEF Header
<1> QED
  BY <1>1, <1>2, Zenon DEF HasNext

(* A list is not disturbed when chunks that are not on it change.          *)
LEMMA LeadsSame ==
  ASSUME NEW link, NEW free, NEW other, NEW j \in Nat, NEW n, LeadsTo(link, free, j, n),
         j > 0 => other[j] = free[j]
  PROVE  LeadsTo(link, other, j, n)
BY DEF LeadsTo

LEMMA PushFreeStack ==
  ASSUME NEW f, NEW used, NEW n, NEW r, NEW free, FreeStack(f, used, n, r, free), r > 0, NEW v
  PROVE  /\ HasNext(f.header) /\ f.header.next = free[r]
         /\ FreeStack([header |-> f.chunks[free[r]], chunks |-> Stored(f.chunks, free[r], v)],
                      used \cup {free[r]}, n, r - 1, free)
<1> DEFINE g == [header |-> f.chunks[free[r]], chunks |-> Stored(f.chunks, free[r], v)]
           id == free[r]
<1>1. r \in 1 .. r /\ r - 1 \in Nat /\ \A j \in 1 .. r - 1 : j \in 1 .. r /\ j # r
  BY DEF FreeStack
<1>2. id \in (0 .. n - 1) \ used /\ 0 .. n - 1 \subseteq DOMAIN f.chunks
  BY <1>1 DEF FreeStack
<1>3. /\ g.header = f.chunks[id] /\ g.chunks = Stored(f.chunks, id, v)
      /\ g = [header |-> g.header, chunks |-> g.chunks]
  OBVIOUS
<1> HIDE DEF g
<1>4. LeadsTo(g.header, free, r - 1, n)
  BY <1>1, <1>3 DEF FreeStack
<1>5. \A j \in 1 .. r - 1 : free[j] # id /\ free[j] \in (0 .. n - 1) \ used
  BY <1>1 DEF FreeStack
<1>6. \A j \in 1 .. r - 1 : LeadsTo(g.chunks[free[j]], free, j - 1, n)
  <2>1. \A j \in 1 .. r - 1 : g.chunks[free[j]] = f.chunks[free[j]]
    BY <1>2, <1>3, <1>5 DEF Stored
  <2> QED
    BY <2>1, <1>1 DEF FreeStack
<1>7. \A i \in (0 .. n - 1) \ (used \cup {id}) : \E j \in 1 .. r - 1 : i = free[j]
  <2>1. \A j \in 1 .. r : j = r \/ j \in 1 .. r - 1
    BY <1>1
  <2>2. \A i \in (0 .. n - 1) \ used : \E j \in 1 .. r : i = free[j]
    BY DEF FreeStack
  <2> QED
    BY <2>1, <2>2
<1>8. 0 .. n - 1 \subseteq DOMAIN g.chunks
  BY <1>2, <1>3 DEF Stored
<1>9. FreeStack(g, used \cup {id}, n, r - 1, free)
  <2>1. n \in 0 .. MaxChunks /\ used \cup {id} \subseteq 0 .. n - 1
    BY <1>2 DEF FreeStack
  <2>2. \A i, j \in 1 .. r - 1 : free[i] = free[j] => i = j
    BY <1>1 DEF FreeStack
  <2>3. \A j \in 1 .. r - 1 : free[j] \in (0 .. n - 1) \ (used \cup {id})
    BY <1>5
  <2> HIDE DEF id
  <2> QED
    BY <1>1, <1>3, <1>4, <1>6, <1>7, <1>8, <2>1, <2>2, <2>3 DEF FreeStack
<1> QED
  BY <1>1, <1>9 DEF g, FreeStack, LeadsTo

LEMMA PushEndStack ==
  ASSUME NEW f, NEW used, NEW n, NEW free, FreeStack(f, used, n, 0, free), n < MaxChunks, NEW v
  PROVE  /\ ~ HasNext(f.header) /\ f.header.next = n
         /\ FreeStack([header |-> [f.header EXCEPT !.next = @ + 1],
                       chunks |-> Stored(f.chunks, n, v)],
                      used \cup {n}, n + 1, 0, free)
<1> DEFINE head == [f.header EXCEPT !.next = @ + 1]
           g == [header |-> head, chunks |-> Stored(f.chunks, n, v)]
<1>1. /\ f.header = [next |-> f.header.next, hasNext |-> f.header.hasNext, user |-> f.header.user]
      /\ ~ HasNext(f.header)
      /\ f.header.next = n
  BY DEF FreeStack, LeadsTo
<1>2. /\ head = [next |-> n + 1, hasNext |-> f.header.hasNext, user |-> f.header.user]
      /\ head.next = n + 1 /\ head.hasNext = f.header.hasNext
      /\ head.user = f.header.user
  BY <1>1
<1> HIDE DEF head
<1>3. ~ HasNext(head)
  BY <1>1, <1>2, Zenon DEF HasNext
<1>4. head = [next |-> head.next, hasNext |-> head.hasNext, user |-> head.user]
  BY <1>2, Zenon
<1>5. LeadsTo(head, free, 0, n + 1)
  BY <1>2, <1>3, <1>4 DEF LeadsTo
<1>6. /\ g.header = head /\ g.chunks = Stored(f.chunks, n, v)
      /\ g = [header |-> g.header, chunks |-> g.chunks]
  OBVIOUS
<1>7. n \in Nat /\ MaxChunks \in Nat /\ n + 1 \in 0 .. MaxChunks
  BY CacheAssumption DEF FreeStack
<1>8. 1 .. 0 = {} /\ \A i : i \in 0 .. (n + 1) - 1 <=> i \in 0 .. n - 1 \/ i = n
  BY <1>7
<1>9. used \subseteq 0 .. n - 1 /\ 0 .. n - 1 \subseteq used /\ 0 .. n - 1 \subseteq DOMAIN f.chunks
  BY <1>8 DEF FreeStack
<1> HIDE DEF g
<1>10. 0 .. (n + 1) - 1 \subseteq DOMAIN g.chunks
  BY <1>6, <1>8, <1>9 DEF Stored
<1>11. (0 .. (n + 1) - 1) \ (used \cup {n}) = {} /\ used \cup {n} \subseteq 0 .. (n + 1) - 1
  BY <1>8, <1>9
<1>12. FreeStack(g, used \cup {n}, n + 1, 0, free)
  BY <1>5, <1>6, <1>7, <1>8, <1>10, <1>11 DEF FreeStack
<1> QED
  BY <1>1, <1>12 DEF g, head

Onto(free, r, id) == [j \in 1 .. r + 1 |-> IF j = r + 1 THEN id ELSE free[j]]

LEMMA RemoveStack ==
  ASSUME NEW f, NEW used, NEW n, NEW r, NEW free, FreeStack(f, used, n, r, free), NEW id \in used
  PROVE  FreeStack([header |-> Header(id, TRUE), chunks |-> Stored(f.chunks, id, f.header)],
                   used \ {id}, n, r + 1, Onto(free, r, id))
<1> DEFINE head == Header(id, TRUE)
           g == [header |-> head, chunks |-> Stored(f.chunks, id, f.header)]
           more == Onto(free, r, id)
<1>1. r \in Nat /\ r + 1 \in Nat /\ id \in 0 .. n - 1 /\ 0 .. n - 1 \subseteq DOMAIN f.chunks
  BY DEF FreeStack
<1>2. /\ \A j \in 1 .. r : j \in 1 .. r + 1 /\ j # r + 1
      /\ r + 1 \in 1 .. r + 1
      /\ \A j \in 1 .. r + 1 : j = r + 1 \/ j \in 1 .. r
  BY <1>1
<1>3. more[r + 1] = id /\ \A j \in 1 .. r : more[j] = free[j]
  BY <1>2 DEF Onto
<1>4. /\ g.header = head /\ g.chunks = Stored(f.chunks, id, f.header)
      /\ g = [header |-> g.header, chunks |-> g.chunks]
  OBVIOUS
<1>5. \A j \in 1 .. r : free[j] \in (0 .. n - 1) \ used /\ free[j] # id
  BY DEF FreeStack
<1> HIDE DEF g, more, head
<1>6. LeadsTo(g.header, more, r + 1, n)
  <2>1. HasNext(head) /\ head.next = id
        /\ head = [next |-> head.next, hasNext |-> head.hasNext, user |-> head.user]
    BY HeaderIs DEF head
  <2> QED
    BY <1>1, <1>3, <1>4, <2>1 DEF LeadsTo
<1>7. LeadsTo(g.chunks[id], more, r, n)
  <2>1. g.chunks[id] = f.header
    BY <1>4 DEF Stored
  <2>2. r > 0 => more[r] = free[r]
    BY <1>1, <1>3
  <2> QED
    BY <1>1, <2>1, <2>2, LeadsSame DEF FreeStack
<1>8. ASSUME NEW j \in 1 .. r
      PROVE  LeadsTo(g.chunks[more[j]], more, j - 1, n)
  <2>1. g.chunks[more[j]] = f.chunks[free[j]]
    BY <1>1, <1>3, <1>4, <1>5 DEF Stored
  <2>2. j - 1 \in Nat /\ (j - 1 > 0 => j - 1 \in 1 .. r)
    BY <1>1
  <2>3. LeadsTo(f.chunks[free[j]], free, j - 1, n)
    BY DEF FreeStack
  <2> QED
    BY <1>3, <2>1, <2>2, <2>3, LeadsSame
<1>9. \A j \in 1 .. r + 1 : LeadsTo(g.chunks[more[j]], more, j - 1, n)
  <2>1. (r + 1) - 1 = r
    BY <1>1
  <2> QED
    BY <1>2, <1>3, <1>7, <1>8, <2>1
<1>10. \A i, j \in 1 .. r + 1 : more[i] = more[j] => i = j
  <2>1. \A i, j \in 1 .. r : free[i] = free[j] => i = j
    BY DEF FreeStack
  <2> QED
    BY <1>2, <1>3, <1>5, <2>1
<1>11. \A j \in 1 .. r + 1 : more[j] \in (0 .. n - 1) \ (used \ {id})
  BY <1>1, <1>2, <1>3, <1>5
<1>12. \A i \in (0 .. n - 1) \ (used \ {id}) : \E j \in 1 .. r + 1 : i = more[j]
  <2>1. \A i \in (0 .. n - 1) \ used : \E j \in 1 .. r : i = free[j]
    BY DEF FreeStack
  <2> QED
    BY <1>2, <1>3, <2>1
<1>13. 0 .. n - 1 \subseteq DOMAIN g.chunks
  BY <1>1, <1>4 DEF Stored
<1>14. n \in 0 .. MaxChunks /\ used \ {id} \subseteq 0 .. n - 1
  BY DEF FreeStack
<1>15. FreeStack(g, used \ {id}, n, r + 1, more)
  BY <1>1, <1>4, <1>6, <1>9, <1>10, <1>11, <1>12, <1>13, <1>14 DEF FreeStack
<1> QED
  BY <1>15 DEF g, head, more

-----------------------------------------------------------------------------
(* The operations of Chunks keep the stack                                 *)

LEMMA SetStack ==
  ASSUME NEW f, NEW used, NEW n, NEW r, NEW free, FreeStack(f, used, n, r, free),
         NEW id \in used, NEW v
  PROVE  FreeStack([header |-> f.header, chunks |-> Stored(f.chunks, id, v)], used, n, r, free)
<1> DEFINE g == [header |-> f.header, chunks |-> Stored(f.chunks, id, v)]
<1>1. /\ g.header = f.header /\ g.chunks = Stored(f.chunks, id, v)
      /\ g = [header |-> g.header, chunks |-> g.chunks]
  OBVIOUS
<1> HIDE DEF g
<1>2. id \in 0 .. n - 1 /\ 0 .. n - 1 \subseteq DOMAIN f.chunks
  BY DEF FreeStack
<1>3. \A j \in 1 .. r : free[j] \in (0 .. n - 1) \ used /\ free[j] # id
  BY DEF FreeStack
<1>4. \A j \in 1 .. r : g.chunks[free[j]] = f.chunks[free[j]]
  BY <1>1, <1>2, <1>3 DEF Stored
<1>5. 0 .. n - 1 \subseteq DOMAIN g.chunks
  BY <1>1, <1>2 DEF Stored
<1>6. FreeStack(g, used, n, r, free)
  BY <1>1, <1>4, <1>5 DEF FreeStack
<1> QED
  BY <1>6 DEF g

LEMMA MetaStack ==
  ASSUME NEW f, NEW used, NEW n, NEW r, NEW free, FreeStack(f, used, n, r, free), NEW user
  PROVE  FreeStack([header |-> [f.header EXCEPT !.user = user], chunks |-> f.chunks],
                   used, n, r, free)
<1> DEFINE head == [f.header EXCEPT !.user = user]
           g == [header |-> head, chunks |-> f.chunks]
<1>1. LeadsTo(f.header, free, r, n)
  BY DEF FreeStack
<1>2. f.header = [next |-> f.header.next, hasNext |-> f.header.hasNext, user |-> f.header.user]
  BY <1>1 DEF LeadsTo
<1>3. head = [next |-> f.header.next, hasNext |-> f.header.hasNext, user |-> user]
  BY <1>2
<1> HIDE DEF head
<1>4. head.next = f.header.next /\ head.hasNext = f.header.hasNext /\ head.user = user
  BY <1>3
<1>5. LeadsTo(head, free, r, n)
  <2>1. HasNext(head) <=> HasNext(f.header)
    BY <1>4, Zenon DEF HasNext
  <2>2. head = [next |-> head.next, hasNext |-> head.hasNext, user |-> head.user]
    BY <1>3, <1>4, Zenon
  <2> QED
    BY <1>1, <1>4, <2>1, <2>2 DEF LeadsTo
<1>6. /\ g.header = head /\ g.chunks = f.chunks
      /\ g = [header |-> g.header, chunks |-> g.chunks]
  OBVIOUS
<1> HIDE DEF g
<1>7. FreeStack(g, used, n, r, free)
  BY <1>5, <1>6 DEF FreeStack
<1> QED
  BY <1>7 DEF g, head

LEMMA NewStack ==
  ASSUME NEW chunks, NEW free
  PROVE  FreeStack([header |-> Header(0, FALSE), chunks |-> chunks], {}, 0, 0, free)
<1> DEFINE head == Header(0, FALSE)
           g == [header |-> head, chunks |-> chunks]
<1>1. /\ g.header = head /\ g.chunks = chunks
      /\ g = [header |-> g.header, chunks |-> g.chunks]
  OBVIOUS
<1>2. /\ head.next = 0 /\ ~ HasNext(head)
      /\ head = [next |-> head.next, hasNext |-> head.hasNext, user |-> head.user]
  BY HeaderIs
<1> HIDE DEF g, head
<1>3. LeadsTo(head, free, 0, 0)
  BY <1>2 DEF LeadsTo
<1>4. 1 .. 0 = {} /\ 0 .. 0 - 1 = {} /\ 0 \in 0 .. MaxChunks
  BY CacheAssumption
<1>5. FreeStack(g, {}, 0, 0, free)
  BY <1>1, <1>3, <1>4 DEF FreeStack
<1> QED
  BY <1>5 DEF g, head

-----------------------------------------------------------------------------
(* The operations on a file keep its free list.                            *)

LEMMA FileShape ==
  ASSUME NEW f, NEW used, FileOK(f, used)
  PROVE  /\ f = [header |-> f.header, chunks |-> f.chunks]
         /\ used \subseteq 0 .. MaxChunks - 1
         /\ used \subseteq DOMAIN f.chunks
         /\ HasNext(f.header) => f.header.next \in DOMAIN f.chunks
<1>1. PICK n, r, free : FreeStack(f, used, n, r, free)
  BY DEF FileOK
<1>2. n \in 0 .. MaxChunks /\ r \in Nat /\ used \subseteq 0 .. n - 1 /\ 0 .. n - 1 \subseteq DOMAIN f.chunks
  BY <1>1 DEF FreeStack
<1>3. HasNext(f.header) => f.header.next \in DOMAIN f.chunks
  <2>1. SUFFICES ASSUME HasNext(f.header)
                 PROVE  f.header.next \in DOMAIN f.chunks
    OBVIOUS
  <2>2. r > 0
    BY <2>1, <1>1 DEF FreeStack, LeadsTo
  <2>3. f.header.next = free[r] /\ r \in 1 .. r
    BY <1>1, <1>2, <2>2 DEF FreeStack, LeadsTo
  <2> QED
    BY <1>1, <1>2, <2>3 DEF FreeStack
<1> QED
  BY <1>1, <1>2, <1>3, CacheAssumption DEF FreeStack

LEMMA PushIdFree ==
  ASSUME NEW f, NEW used, FileOK(f, used)
  PROVE  /\ HasNext(f.header) => PushId(f) \in (0 .. MaxChunks - 1) \ used
         /\ ~ HasNext(f.header) => PushId(f) \in (0 .. MaxChunks) \ used
<1>1. PICK n, r, free : FreeStack(f, used, n, r, free)
  BY DEF FileOK
<1>2. n \in 0 .. MaxChunks /\ r \in Nat /\ used \subseteq 0 .. n - 1 /\ MaxChunks \in Nat
  BY <1>1, CacheAssumption DEF FreeStack
<1>3. CASE r > 0
  <2>1. HasNext(f.header) /\ f.header.next = free[r]
    BY <1>1, <1>2, <1>3 DEF FreeStack, LeadsTo
  <2>2. r \in 1 .. r
    BY <1>2, <1>3
  <2>3. free[r] \in (0 .. n - 1) \ used
    BY <1>1, <2>2 DEF FreeStack
  <2> QED
    BY <1>2, <2>1, <2>3 DEF PushId
<1>4. CASE r = 0
  <2>1. ~ HasNext(f.header) /\ f.header.next = n
    BY <1>1, <1>4 DEF FreeStack, LeadsTo
  <2> QED
    BY <1>2, <2>1 DEF PushId
<1> QED
  BY <1>2, <1>3, <1>4

LEMMA PushFile ==
  ASSUME NEW f, NEW used, FileOK(f, used), PushId(f) < MaxChunks, NEW data
  PROVE  FileOK(AfterPush(f, data), used \cup {PushId(f)})
<1>1. PICK n, r, free : FreeStack(f, used, n, r, free)
  BY DEF FileOK
<1>2. r \in Nat
  BY <1>1 DEF FreeStack
<1>3. CASE r > 0
  <2>1. /\ HasNext(f.header) /\ f.header.next = free[r]
        /\ FreeStack([header |-> f.chunks[free[r]], chunks |-> Stored(f.chunks, free[r], data)],
                     used \cup {free[r]}, n, r - 1, free)
    BY <1>1, <1>3, PushFreeStack
  <2>2. AfterPush(f, data) = [header |-> f.chunks[free[r]],
                              chunks |-> Stored(f.chunks, free[r], data)]
    BY <2>1, Zenon DEF AfterPush, HasNext
  <2> QED
    BY <2>1, <2>2, Zenon DEF FileOK, PushId
<1>4. CASE r = 0
  <2>0. f.header.next = n
    BY <1>1, <1>4 DEF FreeStack, LeadsTo
  <2>1. /\ ~ HasNext(f.header) /\ f.header.next = n
        /\ FreeStack([header |-> [f.header EXCEPT !.next = @ + 1],
                      chunks |-> Stored(f.chunks, n, data)],
                     used \cup {n}, n + 1, 0, free)
    BY <1>1, <1>4, <2>0, PushEndStack DEF PushId
  <2>2. AfterPush(f, data) = [header |-> [f.header EXCEPT !.next = @ + 1],
                              chunks |-> Stored(f.chunks, n, data)]
    BY <2>1, Zenon DEF AfterPush, HasNext
  <2> QED
    BY <2>1, <2>2, Zenon DEF FileOK, PushId
<1> QED
  BY <1>2, <1>3, <1>4

LEMMA SetFile ==
  ASSUME NEW f, NEW used, FileOK(f, used), NEW id \in used, NEW data
  PROVE  FileOK(AfterSet(f, id, data), used)
<1>1. PICK n, r, free : FreeStack(f, used, n, r, free)
  BY DEF FileOK
<1>2. f = [header |-> f.header, chunks |-> f.chunks]
  BY FileShape
<1>3. AfterSet(f, id, data) = [header |-> f.header, chunks |-> Stored(f.chunks, id, data)]
  BY <1>2 DEF AfterSet
<1>4. FreeStack([header |-> f.header, chunks |-> Stored(f.chunks, id, data)], used, n, r, free)
  BY <1>1, SetStack
<1> QED
  BY <1>3, <1>4, Zenon DEF FileOK

LEMMA RemoveFile ==
  ASSUME NEW f, NEW used, FileOK(f, used), NEW id \in used
  PROVE  FileOK(AfterRemove(f, id), used \ {id})
<1>1. PICK n, r, free : FreeStack(f, used, n, r, free)
  BY DEF FileOK
<1>2. FreeStack([header |-> Header(id, TRUE), chunks |-> Stored(f.chunks, id, f.header)],
                used \ {id}, n, r + 1, Onto(free, r, id))
  BY <1>1, RemoveStack
<1> QED
  BY <1>2, Zenon DEF FileOK, AfterRemove

LEMMA SetMetaFile ==
  ASSUME NEW f, NEW used, FileOK(f, used), NEW user
  PROVE  FileOK(AfterSetMeta(f, user), used)
<1>1. PICK n, r, free : FreeStack(f, used, n, r, free)
  BY DEF FileOK
<1>2. f = [header |-> f.header, chunks |-> f.chunks]
  BY FileShape
<1>3. AfterSetMeta(f, user) = [header |-> [f.header EXCEPT !.user = user], chunks |-> f.chunks]
  BY <1>2 DEF AfterSetMeta
<1>4. FreeStack([header |-> [f.header EXCEPT !.user = user], chunks |-> f.chunks], used, n, r, free)
  BY <1>1, MetaStack
<1> QED
  BY <1>3, <1>4, Zenon DEF FileOK

LEMMA TruncateFile ==
  ASSUME NEW f, NEW used, FileOK(f, used)
  PROVE  FileOK(AfterTruncate(f), {})
<1>1. f = [header |-> f.header, chunks |-> f.chunks]
  BY FileShape
<1>2. AfterTruncate(f) = [header |-> Header(0, FALSE), chunks |-> f.chunks]
  <2> DEFINE head == Header(0, FALSE)
  <2>1. AfterTruncate(f) = [f EXCEPT !.header = head]
    BY DEF AfterTruncate
  <2> HIDE DEF head
  <2>2. AfterTruncate(f) = [header |-> head, chunks |-> f.chunks]
    BY <1>1, <2>1
  <2> QED
    BY <2>2 DEF head
<1>3. FreeStack([header |-> Header(0, FALSE), chunks |-> f.chunks], {}, 0, 0, <<>>)
  BY NewStack
<1> QED
  BY <1>2, <1>3, Zenon DEF FileOK

LEMMA EmptyFileOK == FileOK(EmptyFile, {})
<1>1. FreeStack([header |-> Header(0, FALSE), chunks |-> <<>>], {}, 0, 0, <<>>)
  BY NewStack
<1> QED
  BY <1>1, Zenon DEF FileOK, EmptyFile

-----------------------------------------------------------------------------
(* FreeListExact, which counts along the list, in terms of the stack       *)

(* The headers to come, and the same records counted from the end of the   *)
(* free list.                                                              *)
IsLater(after, f) ==
  after = [n \in 0 .. MaxChunks |->
             IF n = 0 THEN f.header
             ELSE IF after[n - 1].hasNext THEN f.chunks[after[n - 1].next] ELSE after[n - 1]]

Link(f, free, r, j) == IF j = r THEN f.header ELSE f.chunks[free[j + 1]]

Down(n, r) == IF n <= r THEN r - n ELSE 0

LEMMA LinkLeads ==
  ASSUME NEW f, NEW used, NEW n, NEW r, NEW free, FreeStack(f, used, n, r, free), NEW j \in 0 .. r
  PROVE  /\ LeadsTo(Link(f, free, r, j), free, j, n)
         /\ HasNext(Link(f, free, r, j)) <=> j > 0
         /\ Link(f, free, r, j).next = IF j > 0 THEN free[j] ELSE n
<1>1. CASE j = r
  BY <1>1 DEF FreeStack, Link, LeadsTo
<1>2. CASE j # r
  <2>1. j + 1 \in 1 .. r /\ (j + 1) - 1 = j
    BY <1>2 DEF FreeStack
  <2> QED
    BY <2>1, <1>2 DEF FreeStack, Link, LeadsTo
<1> QED
  BY <1>1, <1>2

LEMMA LaterExists ==
  ASSUME NEW f, NEW used, NEW n, NEW r, NEW free, FreeStack(f, used, n, r, free)
  PROVE  \E after : IsLater(after, f)
<1> DEFINE g == [k \in 0 .. MaxChunks |-> Link(f, free, r, Down(k, r))]
<1>1. r \in Nat /\ MaxChunks \in Nat
  BY CacheAssumption DEF FreeStack
<1>2. ASSUME NEW k \in 0 .. MaxChunks
      PROVE  g[k] = IF k = 0 THEN f.header
                    ELSE IF HasNext(g[k - 1]) THEN f.chunks[g[k - 1].next] ELSE g[k - 1]
  <2>0. g[k] = Link(f, free, r, Down(k, r))
    OBVIOUS
  <2>1. CASE k = 0
    BY <1>1, <2>0, <2>1 DEF Down, Link
  <2>2. CASE k # 0
    <3>1. k - 1 \in 0 .. MaxChunks /\ g[k - 1] = Link(f, free, r, Down(k - 1, r))
      BY <1>1, <2>2
    <3>2. Down(k - 1, r) \in 0 .. r
      BY <1>1, <3>1 DEF Down
    <3> HIDE DEF g
    <3>3. /\ HasNext(g[k - 1]) <=> Down(k - 1, r) > 0
          /\ Down(k - 1, r) > 0 => g[k - 1].next = free[Down(k - 1, r)]
      BY <3>1, <3>2, LinkLeads
    <3>4. CASE k <= r
      <4>1. /\ Down(k, r) = r - k /\ Down(k - 1, r) = (r - k) + 1
            /\ r - k # r /\ (r - k) + 1 > 0
        BY <1>1, <2>2, <3>4 DEF Down
      <4>2. g[k] = f.chunks[free[(r - k) + 1]]
        BY <2>0, <4>1 DEF Link
      <4> QED
        BY <2>2, <3>3, <4>1, <4>2
    <3>5. CASE ~ (k <= r)
      <4>1. Down(k, r) = 0 /\ Down(k - 1, r) = 0
        BY <1>1, <2>2, <3>5 DEF Down
      <4> QED
        BY <2>0, <2>2, <3>1, <3>3, <4>1
    <3> QED
      BY <3>4, <3>5
  <2> QED
    BY <2>1, <2>2
<1>3. g = [k \in 0 .. MaxChunks |-> g[k]]
  OBVIOUS
<1> HIDE DEF g
<1>4. IsLater(g, f)
  <2>1. \A k \in 0 .. MaxChunks :
          g[k] = IF k = 0 THEN f.header
                 ELSE IF g[k - 1].hasNext THEN f.chunks[g[k - 1].next] ELSE g[k - 1]
    BY <1>2, Zenon DEF HasNext
  <2> QED
    BY <2>1, <1>3, Zenon DEF IsLater
<1> QED
  BY <1>4

LEMMA LaterIs ==
  ASSUME NEW f, NEW used, NEW n, NEW r, NEW free, FreeStack(f, used, n, r, free),
         NEW after, IsLater(after, f)
  PROVE  \A k \in 0 .. MaxChunks : after[k] = Link(f, free, r, Down(k, r))
<1> DEFINE Off == {k \in 0 .. MaxChunks : after[k] # Link(f, free, r, Down(k, r))}
<1>1. SUFFICES ASSUME Off # {}
               PROVE  FALSE
  OBVIOUS
<1>2. PICK k \in Off : \A i \in Off : k <= i
  <2>1. Off \in SUBSET Nat
    OBVIOUS
  <2> HIDE DEF Off
  <2> QED
    BY <1>1, <2>1, LeastNat
<1>3. r \in Nat /\ MaxChunks \in Nat /\ k \in 0 .. MaxChunks
  BY CacheAssumption DEF FreeStack
<1>4. after[k] = IF k = 0 THEN f.header
                 ELSE IF HasNext(after[k - 1]) THEN f.chunks[after[k - 1].next] ELSE after[k - 1]
  <2>1. after[k] = IF k = 0 THEN f.header
                   ELSE IF after[k - 1].hasNext THEN f.chunks[after[k - 1].next] ELSE after[k - 1]
    BY <1>3, Zenon DEF IsLater
  <2> QED
    BY <2>1, Zenon DEF HasNext
<1>5. CASE k = 0
  BY <1>3, <1>4, <1>5 DEF Down, Link
<1>6. CASE k # 0
  <2>1. k - 1 \in 0 .. MaxChunks /\ ~ (k <= k - 1)
    BY <1>3, <1>6
  <2>2. after[k - 1] = Link(f, free, r, Down(k - 1, r))
    BY <1>2, <2>1
  <2>3. Down(k - 1, r) \in 0 .. r
    BY <1>3, <2>1 DEF Down
  <2>4. /\ HasNext(after[k - 1]) <=> Down(k - 1, r) > 0
        /\ Down(k - 1, r) > 0 => after[k - 1].next = free[Down(k - 1, r)]
    BY <2>2, <2>3, LinkLeads
  <2>5. CASE k <= r
    <3>1. /\ Down(k, r) = r - k /\ Down(k - 1, r) = (r - k) + 1
          /\ r - k # r /\ (r - k) + 1 > 0
      BY <1>3, <1>6, <2>5 DEF Down
    <3>2. after[k] = f.chunks[free[(r - k) + 1]]
      BY <1>4, <1>6, <2>4, <3>1
    <3> QED
      BY <3>1, <3>2 DEF Link
  <2>6. CASE ~ (k <= r)
    <3>1. Down(k, r) = 0 /\ Down(k - 1, r) = 0
      BY <1>3, <1>6, <2>6 DEF Down
    <3> QED
      BY <1>4, <1>6, <2>2, <2>4, <3>1
  <2> QED
    BY <2>5, <2>6
<1> QED
  BY <1>5, <1>6

LEMMA StackFits ==
  ASSUME NEW f, NEW used, NEW n, NEW r, NEW free, FreeStack(f, used, n, r, free)
  PROVE  r <= n /\ Cardinality({free[j] : j \in 1 .. r}) = r
<1> DEFINE g == [j \in 1 .. r |-> free[j]]
           S == {free[j] : j \in 1 .. r}
<1>1. n \in Nat /\ r \in Nat
  BY CacheAssumption DEF FreeStack
<1>2. g \in Bijection(1 .. r, S)
  <2>1. g \in [1 .. r -> S]
    OBVIOUS
  <2>2. IsInjective(g)
    BY DEF FreeStack, IsInjective
  <2>3. \A x \in S : \E j \in 1 .. r : g[j] = x
    OBVIOUS
  <2> HIDE DEF g, S
  <2> QED
    BY <2>1, <2>2, <2>3 DEF Injection, Surjection, Bijection, IsInjective
<1>3. IsFiniteSet(1 .. r) /\ Cardinality(1 .. r) = r
  BY <1>1, FS_Interval
<1>4. IsFiniteSet(0 .. n - 1) /\ Cardinality(0 .. n - 1) = n
  <2>1. 0 \in Int /\ n - 1 \in Int /\ (IF 0 > n - 1 THEN 0 ELSE n - 1 - 0 + 1) = n
    BY <1>1
  <2> QED
    BY <2>1, FS_Interval
<1>5. S \subseteq 0 .. n - 1
  BY DEF FreeStack
<1> HIDE DEF g, S
<1>6. ExistsBijection(1 .. r, S)
  BY <1>2 DEF ExistsBijection
<1>7. Cardinality(S) = r
  BY <1>3, <1>6, FS_Bijection, Zenon
<1>8. Cardinality(S) <= Cardinality(0 .. n - 1)
  BY <1>4, <1>5, FS_Subset
<1> QED
  BY <1>4, <1>7, <1>8 DEF S

LEMMA SameCardinality ==
  ASSUME NEW S
  PROVE  File!Cardinality(S) = Cardinality(S)
BY DEF File!Cardinality, Cardinality

LEMMA FreeListIs ==
  ASSUME FileOK(Contents, live)
  PROVE  File!FreeListExact
<1>1. PICK n, r, free : FreeStack(Contents, live, n, r, free)
  BY DEF FileOK
<1> DEFINE after == File!Later
           More == {m \in 0 .. MaxChunks : HasNext(after[m])}
<1>2. after = CHOOSE g : IsLater(g, Contents)
  BY DEF File!Later, IsLater
<1>3. IsLater(after, Contents)
  <2>1. \E g : IsLater(g, Contents)
    BY <1>1, LaterExists
  <2> HIDE DEF after
  <2> QED
    BY <1>2, <2>1
<1> HIDE DEF after
<1>4. \A k \in 0 .. MaxChunks : after[k] = Link(Contents, free, r, Down(k, r))
  BY <1>1, <1>3, LaterIs
<1>5. r \in Nat /\ MaxChunks \in Nat /\ n \in 0 .. MaxChunks /\ r <= n
  BY <1>1, StackFits, CacheAssumption DEF FreeStack
<1>6. \A k \in 0 .. MaxChunks : Down(k, r) \in 0 .. r /\ (Down(k, r) > 0 <=> k < r)
  BY <1>5 DEF Down
<1>7. \A k \in 0 .. MaxChunks : /\ HasNext(after[k]) <=> k < r
                                /\ after[k].next = IF k < r THEN free[Down(k, r)] ELSE n
  <2>1. \A k \in 0 .. MaxChunks :
          /\ HasNext(Link(Contents, free, r, Down(k, r))) <=> Down(k, r) > 0
          /\ Link(Contents, free, r, Down(k, r)).next = IF Down(k, r) > 0 THEN free[Down(k, r)] ELSE n
    BY <1>1, <1>6, LinkLeads
  <2> QED
    BY <1>4, <1>6, <2>1
<1>8. More = 0 .. r - 1
  BY <1>5, <1>7
<1>9. ~ HasNext(after[MaxChunks]) /\ after[MaxChunks].next = n
  BY <1>5, <1>7
<1> DEFINE S == {free[j] : j \in 1 .. r}
<1>10. {after[k].next : k \in More} = S
  <2>1. \A k \in 0 .. r - 1 : k \in 0 .. MaxChunks /\ k < r /\ Down(k, r) \in 1 .. r
    BY <1>5 DEF Down
  <2>2. \A j \in 1 .. r : r - j \in 0 .. r - 1 /\ Down(r - j, r) = j
    BY <1>5 DEF Down
  <2>3. \A k \in 0 .. r - 1 : after[k].next = free[Down(k, r)]
    BY <1>7, <2>1
  <2> HIDE DEF More
  <2>4. \A j \in 1 .. r : free[j] = after[r - j].next
    BY <2>2, <2>3
  <2> QED
    BY <1>8, <2>1, <2>2, <2>3, <2>4
<1>11. S \cap live = {} /\ S \cup live = 0 .. n - 1
  BY <1>1 DEF FreeStack
<1>12. Cardinality(S) = r /\ Cardinality(0 .. r - 1) = r
  <2>1. Cardinality(S) = r
    BY <1>1, StackFits
  <2>2. 0 \in Int /\ r - 1 \in Int /\ (IF 0 > r - 1 THEN 0 ELSE r - 1 - 0 + 1) = r
    BY <1>5
  <2> QED
    BY <2>1, <2>2, FS_Interval
<1> HIDE DEF S
<1>13. {m \in 0 .. MaxChunks : after[m].hasNext} = More
  BY Zenon DEF HasNext, More
<1> HIDE DEF More
<1>14. File!FreeIds = S
  <2>1. File!FreeIds = {after[k].next : k \in {m \in 0 .. MaxChunks : after[m].hasNext}}
    BY DEF File!FreeIds, after
  <2> QED
    BY <2>1, <1>10, <1>13
<1>15. ~ after[MaxChunks].hasNext
  BY <1>9, Zenon DEF HasNext
<1>16. Cardinality({m \in 0 .. MaxChunks : after[m].hasNext}) = r
  BY <1>8, <1>12, <1>13
<1>17. Cardinality(File!FreeIds) = Cardinality({m \in 0 .. MaxChunks : after[m].hasNext})
  BY <1>12, <1>14, <1>16
<1>18. File!FreeIds \cap live = {} /\ File!FreeIds \cup live = 0 .. (after[MaxChunks].next - 1)
  BY <1>9, <1>11, <1>14
<1>19. File!Cardinality(File!FreeIds)
         = File!Cardinality({m \in 0 .. MaxChunks : after[m].hasNext})
  BY <1>17, SameCardinality, Zenon
<1> QED
  BY <1>15, <1>18, <1>19, Zenon DEF File!FreeListExact, after

-----------------------------------------------------------------------------
(* The inductive invariant and the steps of CachedFile                     *)

FileOf(header, chunks) == [header |-> header, chunks |-> chunks]

Split(whole) == FileOf(whole[Top], Restrict(whole, DOMAIN whole \ {Top}))

(* Behind the cache is the file f.                                         *)
Holds(s, f) ==
  /\ StoreOK(s)
  /\ Top \in DOMAIN Whole(s)
  /\ f = Split(Whole(s))

CacheInv == Holds(store, Contents) /\ FileOK(Contents, live)

LEMMA FileOfIs ==
  ASSUME NEW header, NEW chunks
  PROVE  /\ FileOf(header, chunks).header = header
         /\ FileOf(header, chunks).chunks = chunks
BY DEF FileOf

LEMMA SplitIs ==
  ASSUME NEW s, NEW f, Holds(s, f)
  PROVE  /\ f.header = Whole(s)[Top]
         /\ DOMAIN f.chunks = DOMAIN Whole(s) \ {Top}
         /\ \A i \in DOMAIN f.chunks : f.chunks[i] = Whole(s)[i]
         /\ f.chunks = [i \in DOMAIN f.chunks |-> f.chunks[i]]
         /\ f = FileOf(f.header, f.chunks)
         /\ DOMAIN f.chunks \subseteq 0 .. MaxChunks - 1
<1>1. f.header = Whole(s)[Top] /\ f.chunks = Restrict(Whole(s), DOMAIN Whole(s) \ {Top})
  BY FileOfIs DEF Holds, Split
<1>2. DOMAIN Whole(s) \subseteq Ids
  BY WholeIds DEF Holds
<1>3. f = FileOf(f.header, f.chunks)
  BY <1>1 DEF Holds, Split
<1> QED
  BY <1>1, <1>2, <1>3, CacheAssumption DEF Restrict, Ids, Top

LEMMA ContentsIs == Contents = Split(Whole(store))
BY DEF Contents, Split, Whole, FileOf

LEMMA ReadHolds ==
  ASSUME NEW s, NEW f, Holds(s, f)
  PROVE  /\ Read(s, Top) = f.header
         /\ \A i \in DOMAIN f.chunks : Read(s, i) = f.chunks[i]
<1>1. StoreOK(s) /\ Top \in DOMAIN Whole(s)
  BY DEF Holds
<1>2. /\ f.header = Whole(s)[Top]
      /\ DOMAIN f.chunks = DOMAIN Whole(s) \ {Top}
      /\ \A i \in DOMAIN f.chunks : f.chunks[i] = Whole(s)[i]
  BY SplitIs
<1>3. \A i \in DOMAIN Whole(s) : Read(s, i) = Whole(s)[i]
  BY <1>1, ReadWhole
<1> QED
  BY <1>1, <1>2, <1>3

LEMMA GetHolds ==
  ASSUME NEW s, NEW f, Holds(s, f), NEW i, i = Top \/ i \in DOMAIN f.chunks
  PROVE  Holds(AfterGet(s, i), f)
<1>1. i \in DOMAIN Whole(s)
  BY SplitIs DEF Holds
<1>2. StoreOK(AfterGet(s, i)) /\ Whole(AfterGet(s, i)) = Whole(s)
  BY <1>1, AfterGetOK DEF Holds
<1> QED
  BY <1>2 DEF Holds

LEMMA WriteTop ==
  ASSUME NEW s, NEW f, Holds(s, f), NEW v
  PROVE  Holds(Written(s, Top, v), FileOf(v, f.chunks))
<1> DEFINE w == Whole(s)
           u == Stored(w, Top, v)
<1>1. Top \in Ids
  BY CacheAssumption DEF Top, Ids
<1>2. StoreOK(Written(s, Top, v)) /\ Whole(Written(s, Top, v)) = u
  BY <1>1, WrittenOK DEF Holds
<1>3. /\ Top \in DOMAIN w
      /\ DOMAIN f.chunks = DOMAIN w \ {Top}
      /\ \A i \in DOMAIN f.chunks : f.chunks[i] = w[i]
      /\ f.chunks = [i \in DOMAIN f.chunks |-> f.chunks[i]]
  BY SplitIs DEF Holds
<1> HIDE DEF w
<1>4. /\ DOMAIN u = DOMAIN w /\ u[Top] = v
      /\ \A i \in DOMAIN w \ {Top} : u[i] = w[i]
  BY <1>3 DEF Stored
<1> HIDE DEF u
<1>5. Restrict(u, DOMAIN u \ {Top}) = f.chunks
  BY <1>3, <1>4 DEF Restrict
<1>6. Split(u) = FileOf(v, f.chunks)
  BY <1>4, <1>5 DEF Split
<1> QED
  BY <1>2, <1>3, <1>4, <1>6 DEF Holds

LEMMA WriteChunk ==
  ASSUME NEW s, NEW f, Holds(s, f), NEW i \in 0 .. MaxChunks - 1, NEW v
  PROVE  Holds(Written(s, i, v), FileOf(f.header, Stored(f.chunks, i, v)))
<1> DEFINE w == Whole(s)
           u == Stored(w, i, v)
<1>1. i \in Ids /\ i # Top
  BY CacheAssumption DEF Top, Ids
<1>2. StoreOK(Written(s, i, v)) /\ Whole(Written(s, i, v)) = u
  BY <1>1, WrittenOK DEF Holds
<1>3. /\ Top \in DOMAIN w /\ f.header = w[Top]
      /\ DOMAIN f.chunks = DOMAIN w \ {Top}
      /\ \A j \in DOMAIN f.chunks : f.chunks[j] = w[j]
  <2>1. /\ f.header = w[Top]
        /\ DOMAIN f.chunks = DOMAIN w \ {Top}
        /\ \A j \in DOMAIN f.chunks : f.chunks[j] = w[j]
    BY SplitIs
  <2> QED
    BY <2>1 DEF Holds
<1> HIDE DEF w
<1>4. /\ DOMAIN u = DOMAIN w \cup {i} /\ u[i] = v
      /\ \A j \in DOMAIN w : j # i => u[j] = w[j]
  BY <1>1 DEF Stored
<1> HIDE DEF u
<1>5. Restrict(u, DOMAIN u \ {Top}) = Stored(f.chunks, i, v)
  <2>1. DOMAIN u \ {Top} = DOMAIN f.chunks \cup {i}
    BY <1>1, <1>3, <1>4
  <2>2. \A j \in DOMAIN f.chunks : j # i => u[j] = f.chunks[j]
    BY <1>3, <1>4
  <2> QED
    BY <1>4, <2>1, <2>2 DEF Restrict, Stored
<1>6. u[Top] = f.header /\ Top \in DOMAIN u
  BY <1>1, <1>3, <1>4
<1>7. Split(u) = FileOf(f.header, Stored(f.chunks, i, v))
  BY <1>5, <1>6 DEF Split
<1> QED
  BY <1>2, <1>6, <1>7 DEF Holds

-----------------------------------------------------------------------------
(* What each operation does to the file behind the cache.                  *)

LEMMA LiveInFile ==
  ASSUME CacheInv
  PROVE  live \subseteq DOMAIN Contents.chunks /\ live \subseteq 0 .. MaxChunks - 1
BY FileShape DEF CacheInv

LEMMA InitHolds ==
  ASSUME Init
  PROVE  Holds(store, EmptyFile) /\ Contents = EmptyFile
<1> DEFINE s == Both(<<>>, EmptyMap)
           head == Header(0, FALSE)
           u == Stored(Whole(s), Top, head)
<1>1. s.disk = <<>> /\ s.cache = EmptyMap /\ s = [disk |-> s.disk, cache |-> s.cache]
  BY BothIs
<1>2. DOMAIN (<<>>) = {}
  OBVIOUS
<1>3. store = Written(s, Top, head)
  BY DEF Init, Both
<1> HIDE DEF s, head
<1>4. StoreOK(s)
  BY <1>1, <1>2, EmptyMapOK, EmptyCache, CacheAssumption DEF StoreOK
<1>5. DOMAIN Whole(s) = {}
  BY <1>1, <1>2, EmptyCache, WholeAt
<1>6. Top \in Ids
  BY CacheAssumption DEF Top, Ids
<1>7. StoreOK(store) /\ Whole(store) = u
  BY <1>3, <1>4, <1>6, WrittenOK
<1>8. DOMAIN u = {Top} /\ u[Top] = head
  BY <1>5 DEF Stored
<1> HIDE DEF u
<1>9. Restrict(u, DOMAIN u \ {Top}) = <<>>
  BY <1>8 DEF Restrict
<1>10. Split(u) = EmptyFile
  BY <1>8, <1>9, Zenon DEF Split, FileOf, EmptyFile, head
<1> QED
  BY <1>7, <1>8, <1>10, ContentsIs DEF Holds

LEMMA HoldsContents ==
  ASSUME NEW f, Holds(store', f)
  PROVE  Contents' = f /\ Holds(store', Contents')
<1>1. Contents' = Split(Whole(store'))
  BY DEF Contents, Split, Whole, FileOf
<1> QED
  BY <1>1 DEF Holds

LEMMA GetStep ==
  ASSUME CacheInv, NEW id \in live, Get(id)
  PROVE  Holds(store', Contents)
BY LiveInFile, GetHolds DEF CacheInv, Get

LEMMA PushFreedStep ==
  ASSUME CacheInv, NEW data, PushFreed(data)
  PROVE  /\ HasNext(Contents.header)
         /\ live' = live \cup {PushId(Contents)} /\ count' = count + 1
         /\ Holds(store', AfterPush(Contents, data))
<1> DEFINE f == Contents
           id == PushId(f)
           opened == AfterGet(store, Top)
           found == AfterGet(opened, id)
           first == Written(found, Top, f.chunks[id])
<1>1. Holds(store, f) /\ FileOK(f, live)
  BY DEF CacheInv
<1>2. Read(store, Top) = f.header
  BY <1>1, ReadHolds
<1>3. /\ HasNext(f.header)
      /\ store' = Written(Written(found, Top, Read(opened, id)), id, data)
      /\ live' = live \cup {id}
      /\ count' = count + 1
  BY <1>2 DEF PushFreed, HasNext, PushId
<1>4. id \in DOMAIN f.chunks /\ id \in 0 .. MaxChunks - 1
  BY <1>1, <1>3, FileShape, PushIdFree DEF PushId
<1> HIDE DEF f, id
<1>5. Holds(opened, f)
  BY <1>1, GetHolds
<1> HIDE DEF opened
<1>6. Holds(found, f) /\ Read(opened, id) = f.chunks[id]
  BY <1>4, <1>5, GetHolds, ReadHolds
<1> HIDE DEF found
<1> DEFINE g == FileOf(f.chunks[id], f.chunks)
<1>7. Holds(first, g)
  BY <1>6, WriteTop
<1>8. g.header = f.chunks[id] /\ g.chunks = f.chunks
  BY FileOfIs
<1> HIDE DEF first, g
<1>9. Holds(Written(first, id, data), FileOf(g.header, Stored(g.chunks, id, data)))
  BY <1>4, <1>7, WriteChunk
<1>10. store' = Written(first, id, data)
  BY <1>3, <1>6 DEF first
<1>11. FileOf(g.header, Stored(g.chunks, id, data)) = AfterPush(f, data)
  <2>1. AfterPush(f, data) = FileOf(f.chunks[id], Stored(f.chunks, id, data))
    BY <1>3, Zenon DEF AfterPush, FileOf, HasNext, id, PushId
  <2> QED
    BY <1>8, <2>1
<1> QED
  BY <1>3, <1>9, <1>10, <1>11 DEF f, id

LEMMA PushNewStep ==
  ASSUME CacheInv, NEW data, PushNew(data)
  PROVE  /\ ~ HasNext(Contents.header) /\ PushId(Contents) < MaxChunks
         /\ live' = live \cup {PushId(Contents)} /\ count' = count + 1
         /\ Holds(store', AfterPush(Contents, data))
<1> DEFINE f == Contents
           id == PushId(f)
           opened == AfterGet(store, Top)
           head == [f.header EXCEPT !.next = @ + 1]
           first == Written(opened, Top, head)
<1>1. Holds(store, f) /\ FileOK(f, live)
  BY DEF CacheInv
<1>2. Read(store, Top) = f.header
  BY <1>1, ReadHolds
<1>3. /\ ~ HasNext(f.header) /\ id < MaxChunks
      /\ store' = Written(Written(opened, Top, head), id, data)
      /\ live' = live \cup {id}
      /\ count' = count + 1
  BY <1>2 DEF PushNew, HasNext, PushId
<1>4. id \in 0 .. MaxChunks - 1
  <2>1. id \in 0 .. MaxChunks
    BY <1>1, <1>3, PushIdFree
  <2> QED
    BY <1>3, <2>1, CacheAssumption
<1>5. AfterPush(f, data) = FileOf(head, Stored(f.chunks, id, data))
  BY <1>3, Zenon DEF AfterPush, FileOf, HasNext, PushId
<1> HIDE DEF f, id, head
<1>6. Holds(opened, f)
  BY <1>1, GetHolds
<1> HIDE DEF opened
<1> DEFINE g == FileOf(head, f.chunks)
<1>7. Holds(first, g)
  BY <1>6, WriteTop
<1>8. g.header = head /\ g.chunks = f.chunks
  BY FileOfIs
<1> HIDE DEF first, g
<1>9. Holds(Written(first, id, data), FileOf(g.header, Stored(g.chunks, id, data)))
  BY <1>4, <1>7, WriteChunk
<1>10. store' = Written(first, id, data)
  BY <1>3 DEF first
<1> QED
  BY <1>3, <1>5, <1>8, <1>9, <1>10 DEF f, id

LEMMA SetStep ==
  ASSUME CacheInv, NEW id \in live, NEW data, Set(id, data)
  PROVE  Holds(store', AfterSet(Contents, id, data))
<1> DEFINE f == Contents
<1>1. Holds(store, f) /\ id \in 0 .. MaxChunks - 1
  BY LiveInFile DEF CacheInv
<1>2. f = FileOf(f.header, f.chunks)
  BY <1>1, SplitIs
<1> HIDE DEF f
<1>3. AfterSet(f, id, data) = FileOf(f.header, Stored(f.chunks, id, data))
  BY <1>2 DEF AfterSet, FileOf
<1>4. Holds(Written(store, id, data), FileOf(f.header, Stored(f.chunks, id, data)))
  BY <1>1, WriteChunk
<1> QED
  BY <1>3, <1>4 DEF Set, f

LEMMA DestroyStep ==
  ASSUME CacheInv, NEW id \in live, Destroy(id)
  PROVE  Holds(store', AfterRemove(Contents, id))
<1> DEFINE f == Contents
           opened == AfterGet(store, Top)
           first == Written(opened, id, f.header)
           head == Header(id, TRUE)
<1>1. Holds(store, f) /\ id \in 0 .. MaxChunks - 1
  BY LiveInFile DEF CacheInv
<1>2. Read(store, Top) = f.header
  BY <1>1, ReadHolds
<1>3. store' = Written(first, Top, head)
  BY <1>2 DEF Destroy
<1>4. AfterRemove(f, id) = FileOf(head, Stored(f.chunks, id, f.header))
  BY DEF AfterRemove, FileOf
<1> HIDE DEF f, head
<1>5. Holds(opened, f)
  BY <1>1, GetHolds
<1> HIDE DEF opened
<1> DEFINE g == FileOf(f.header, Stored(f.chunks, id, f.header))
<1>6. Holds(first, g)
  BY <1>1, <1>5, WriteChunk
<1>7. g.chunks = Stored(f.chunks, id, f.header)
  BY FileOfIs
<1> HIDE DEF first, g
<1>8. Holds(Written(first, Top, head), FileOf(head, g.chunks))
  BY <1>6, WriteTop
<1> QED
  BY <1>3, <1>4, <1>7, <1>8 DEF f

LEMMA SetMetaStep ==
  ASSUME CacheInv, NEW user, SetMeta(user)
  PROVE  Holds(store', AfterSetMeta(Contents, user))
<1> DEFINE f == Contents
           opened == AfterGet(store, Top)
           head == [f.header EXCEPT !.user = user]
<1>1. Holds(store, f)
  BY DEF CacheInv
<1>2. Read(store, Top) = f.header
  BY <1>1, ReadHolds
<1>3. store' = Written(opened, Top, head)
  BY <1>2 DEF SetMeta
<1>4. f = FileOf(f.header, f.chunks)
  BY <1>1, SplitIs
<1> HIDE DEF f
<1>5. AfterSetMeta(f, user) = FileOf(head, f.chunks)
  BY <1>4 DEF AfterSetMeta, FileOf
<1> HIDE DEF head
<1>6. Holds(opened, f)
  BY <1>1, GetHolds
<1> HIDE DEF opened
<1>7. Holds(Written(opened, Top, head), FileOf(head, f.chunks))
  BY <1>6, WriteTop
<1> QED
  BY <1>3, <1>5, <1>7 DEF f

LEMMA TruncateStep ==
  ASSUME CacheInv, Truncate
  PROVE  Holds(store', AfterTruncate(Contents))
<1> DEFINE f == Contents
           head == Header(0, FALSE)
<1>1. Holds(store, f)
  BY DEF CacheInv
<1>2. f = FileOf(f.header, f.chunks)
  BY <1>1, SplitIs
<1>3. store' = Written(store, Top, head) /\ AfterTruncate(f) = [f EXCEPT !.header = head]
  BY DEF Truncate, AfterTruncate
<1> HIDE DEF f, head
<1>4. AfterTruncate(f) = FileOf(head, f.chunks)
  BY <1>2, <1>3 DEF FileOf
<1>5. Holds(Written(store, Top, head), FileOf(head, f.chunks))
  BY <1>1, WriteTop
<1> QED
  BY <1>3, <1>4, <1>5 DEF f

LEMMA ClearStep ==
  ASSUME CacheInv, ClearCache
  PROVE  Holds(store', Contents)
<1>1. StoreOK(store') /\ Whole(store') = Whole(store)
  BY ClearedOK DEF CacheInv, Holds, ClearCache
<1> QED
  BY <1>1 DEF CacheInv, Holds

-----------------------------------------------------------------------------
(* What follows: the cache and the free list are exact, and the file       *)
(* behaves as one without a cache                                          *)

(* The operations of ChunkFile are those of Chunks.                        *)
LEMMA FileOps ==
  ASSUME NEW f
  PROVE  /\ File!PushId(f) = PushId(f)
         /\ \A data : File!AfterPush(f, data) = AfterPush(f, data)
         /\ \A id, data : File!AfterSet(f, id, data) = AfterSet(f, id, data)
         /\ \A id : File!AfterRemove(f, id) = AfterRemove(f, id)
         /\ \A user : File!AfterSetMeta(f, user) = AfterSetMeta(f, user)
         /\ File!AfterTruncate(f) = AfterTruncate(f)
<1>1. File!PushId(f) = PushId(f)
  BY DEF File!PushId, PushId
<1>2. \A data : File!AfterPush(f, data) = AfterPush(f, data)
  BY Zenon DEF File!AfterPush, AfterPush, File!Stored, Stored
<1>3. \A id, data : File!AfterSet(f, id, data) = AfterSet(f, id, data)
  BY Zenon DEF File!AfterSet, AfterSet, File!Stored, Stored
<1>4. \A id : File!AfterRemove(f, id) = AfterRemove(f, id)
  BY Zenon DEF File!AfterRemove, AfterRemove, File!Header, Header, File!Stored, Stored
<1>5. \A user : File!AfterSetMeta(f, user) = AfterSetMeta(f, user)
  BY Zenon DEF File!AfterSetMeta, AfterSetMeta
<1>6. File!AfterTruncate(f) = AfterTruncate(f)
  BY Zenon DEF File!AfterTruncate, AfterTruncate, File!Header, Header
<1> QED
  BY <1>1, <1>2, <1>3, <1>4, <1>5, <1>6

LEMMA EmptyFileOp == File!EmptyFile = EmptyFile
BY Zenon DEF File!EmptyFile, EmptyFile, File!Header, Header

(* A step of the cached file is one of the file without a cache.           *)
LEMMA StepOfFile ==
  ASSUME CacheInv, Next
  PROVE  /\ Holds(store', Contents') /\ FileOK(Contents', live')
         /\ \/ UNCHANGED <<Contents, live, count>>
            \/ File!Next
<1>0. FileOK(Contents, live)
  BY DEF CacheInv
<1>1. ASSUME NEW data \in Data, PushFreed(data) \/ PushNew(data)
      PROVE  /\ Holds(store', Contents') /\ FileOK(Contents', live')
             /\ File!Push(data)
  <2>1. /\ PushId(Contents) < MaxChunks
        /\ live' = live \cup {PushId(Contents)} /\ count' = count + 1
        /\ Holds(store', AfterPush(Contents, data))
    <3>1. CASE PushFreed(data)
      <4>1. /\ HasNext(Contents.header)
            /\ live' = live \cup {PushId(Contents)} /\ count' = count + 1
            /\ Holds(store', AfterPush(Contents, data))
        BY <3>1, PushFreedStep
      <4>2. PushId(Contents) \in 0 .. MaxChunks - 1
        BY <4>1, <1>0, PushIdFree
      <4> QED
        BY <4>1, <4>2, CacheAssumption
    <3>2. CASE PushNew(data)
      BY <3>2, PushNewStep
    <3> QED
      BY <1>1, <3>1, <3>2
  <2>2. Contents' = AfterPush(Contents, data) /\ Holds(store', Contents')
    BY <2>1, HoldsContents
  <2>3. FileOK(AfterPush(Contents, data), live \cup {PushId(Contents)})
    BY <2>1, <1>0, PushFile
  <2>4. FileOK(Contents', live')
    BY <2>1, <2>2, <2>3, Zenon
  <2>5. File!Push(data)
    BY <2>1, <2>2, FileOps DEF File!Push
  <2> QED
    BY <2>2, <2>4, <2>5
<1>2. ASSUME NEW id \in live, Get(id)
      PROVE  /\ Holds(store', Contents') /\ FileOK(Contents', live')
             /\ UNCHANGED <<Contents, live, count>>
  <2>1. Holds(store', Contents)
    BY <1>2, GetStep
  <2>2. Contents' = Contents /\ Holds(store', Contents')
    BY <2>1, HoldsContents
  <2>3. UNCHANGED <<live, count>>
    BY <1>2 DEF Get
  <2> QED
    BY <2>2, <2>3, <1>0
<1>3. ASSUME NEW id \in live, Destroy(id)
      PROVE  /\ Holds(store', Contents') /\ FileOK(Contents', live')
             /\ File!Remove(id)
  <2>1. Holds(store', AfterRemove(Contents, id))
    BY <1>3, DestroyStep
  <2>2. Contents' = AfterRemove(Contents, id) /\ Holds(store', Contents')
    BY <2>1, HoldsContents
  <2>3. live' = live \ {id} /\ count' = count - 1
    BY <1>3 DEF Destroy
  <2>4. FileOK(AfterRemove(Contents, id), live \ {id})
    BY <1>0, RemoveFile
  <2>5. FileOK(Contents', live')
    BY <2>2, <2>3, <2>4, Zenon
  <2>6. File!Remove(id)
    BY <2>2, <2>3, FileOps DEF File!Remove
  <2> QED
    BY <2>2, <2>5, <2>6
<1>4. ASSUME NEW id \in live, NEW data \in Data, Set(id, data)
      PROVE  /\ Holds(store', Contents') /\ FileOK(Contents', live')
             /\ File!Set(id, data)
  <2>1. Holds(store', AfterSet(Contents, id, data))
    BY <1>4, SetStep
  <2>2. Contents' = AfterSet(Contents, id, data) /\ Holds(store', Contents')
    BY <2>1, HoldsContents
  <2>3. UNCHANGED <<live, count>>
    BY <1>4 DEF Set
  <2>4. FileOK(AfterSet(Contents, id, data), live)
    BY <1>0, SetFile
  <2>5. FileOK(Contents', live')
    BY <2>2, <2>3, <2>4, Zenon
  <2>6. File!Set(id, data)
    BY <2>2, <2>3, FileOps DEF File!Set
  <2> QED
    BY <2>2, <2>5, <2>6
<1>5. ASSUME NEW user \in UserMeta, SetMeta(user)
      PROVE  /\ Holds(store', Contents') /\ FileOK(Contents', live')
             /\ File!SetMeta(user)
  <2>1. Holds(store', AfterSetMeta(Contents, user))
    BY <1>5, SetMetaStep
  <2>2. Contents' = AfterSetMeta(Contents, user) /\ Holds(store', Contents')
    BY <2>1, HoldsContents
  <2>3. UNCHANGED <<live, count>>
    BY <1>5 DEF SetMeta
  <2>4. FileOK(AfterSetMeta(Contents, user), live)
    BY <1>0, SetMetaFile
  <2>5. FileOK(Contents', live')
    BY <2>2, <2>3, <2>4, Zenon
  <2>6. File!SetMeta(user)
    BY <2>2, <2>3, FileOps DEF File!SetMeta
  <2> QED
    BY <2>2, <2>5, <2>6
<1>6. ASSUME Truncate
      PROVE  /\ Holds(store', Contents') /\ FileOK(Contents', live')
             /\ File!Truncate
  <2>1. Holds(store', AfterTruncate(Contents))
    BY <1>6, TruncateStep
  <2>2. Contents' = AfterTruncate(Contents) /\ Holds(store', Contents')
    BY <2>1, HoldsContents
  <2>3. live' = {} /\ count' = 0
    BY <1>6 DEF Truncate
  <2>4. FileOK(AfterTruncate(Contents), {})
    BY <1>0, TruncateFile
  <2>5. FileOK(Contents', live')
    BY <2>2, <2>3, <2>4, Zenon
  <2>6. File!Truncate
    BY <2>2, <2>3, FileOps DEF File!Truncate
  <2> QED
    BY <2>2, <2>5, <2>6
<1>7. ASSUME ClearCache
      PROVE  /\ Holds(store', Contents') /\ FileOK(Contents', live')
             /\ UNCHANGED <<Contents, live, count>>
  <2>1. Holds(store', Contents)
    BY <1>7, ClearStep
  <2>2. Contents' = Contents /\ Holds(store', Contents')
    BY <2>1, HoldsContents
  <2>3. UNCHANGED <<live, count>>
    BY <1>7 DEF ClearCache
  <2> QED
    BY <2>2, <2>3, <1>0
<1> QED
  BY <1>1, <1>2, <1>3, <1>4, <1>5, <1>6, <1>7, Zenon DEF Next, File!Next

LEMMA CacheInit == Init => CacheInv
<1> SUFFICES ASSUME Init
             PROVE  CacheInv
  OBVIOUS
<1>1. Holds(store, EmptyFile) /\ Contents = EmptyFile
  BY InitHolds
<1>2. live = {}
  BY DEF Init
<1> QED
  BY <1>1, <1>2, EmptyFileOK, Zenon DEF CacheInv

LEMMA CacheNext == CacheInv /\ [Next]_vars => CacheInv'
<1> SUFFICES ASSUME CacheInv, [Next]_vars
             PROVE  CacheInv'
  OBVIOUS
<1>1. CASE Next
  BY <1>1, StepOfFile DEF CacheInv
<1>2. CASE UNCHANGED vars
  <2>1. store' = store /\ live' = live
    BY <1>2 DEF vars
  <2>2. Contents' = Contents
    BY <2>1 DEF Contents
  <2> QED
    BY <2>1, <2>2, Zenon DEF CacheInv
<1> QED
  BY <1>1, <1>2

(* Whatever is cached, the lists of the map are in order, the cache and    *)
(* the stream together hold the chunks, and the free list is a stack of    *)
(* the ids that are not in use.                                            *)
THEOREM CacheInvariant == Spec => []CacheInv
BY CacheInit, CacheNext, PTL DEF Spec

(* The cache is exact, for any hash function and any number of chunks: its *)
(* map finds every key it holds and no other, the list in the order of use *)
(* names each key once, there are never more than kSize entries, and an    *)
(* entry that is not marked as changed is what the stream holds (LruCache  *)
(* and the hash map under it).                                             *)
THEOREM CacheStaysExact == Spec => []CacheExact
<1>1. CacheInv => CacheExact
  <2> SUFFICES ASSUME CacheInv
               PROVE  CacheExact
    OBVIOUS
  <2>1. StoreOK(store)
    BY DEF CacheInv, Holds
  <2>2. TypeOK
    <3>1. live \subseteq 0 .. MaxChunks - 1
      BY LiveInFile
    <3>2. Ids \subseteq {Top} \cup 0 .. MaxChunks - 1
      BY CacheAssumption DEF Ids, Top
    <3> QED
      BY <2>1, <3>1, <3>2 DEF TypeOK, StoreOK
  <2>3. MapExact(store.cache)
    BY <2>1, MapOKIsExact DEF StoreOK
  <2>4. \A i \in DOMAIN store.cache.value :
          ~ IsDirty(store.cache.value[i]) =>
            i \in DOMAIN store.disk /\ store.disk[i] = store.cache.value[i].value
    BY <2>1 DEF StoreOK, Faithful
  <2> QED
    BY <2>2, <2>3, <2>4, Zenon DEF CacheExact, IsDirty
<1> QED
  BY <1>1, CacheInvariant, PTL

(* The list of free chunks, walked from the header, has every chunk that   *)
(* was given out and taken back exactly once and no chunk in use, so that  *)
(* push never gives out an id that a client still holds (File::push and    *)
(* File::remove).                                                          *)
THEOREM FreeListStaysExact == Spec => []FreeListExact
<1>1. CacheInv => FreeListExact
  BY FreeListIs DEF CacheInv, FreeListExact
<1> QED
  BY <1>1, CacheInvariant, PTL

LEMMA InitOfFile == Init => File!Init
<1> SUFFICES ASSUME Init
             PROVE  File!Init
  OBVIOUS
<1>1. Contents = File!EmptyFile
  BY InitHolds, EmptyFileOp
<1> QED
  BY <1>1 DEF Init, File!Init

LEMMA NextOfFile == CacheInv /\ [Next]_vars => [File!Next]_File!vars
<1> SUFFICES ASSUME CacheInv, [Next]_vars
             PROVE  [File!Next]_File!vars
  OBVIOUS
<1>1. CASE Next
  <2>1. UNCHANGED <<Contents, live, count>> \/ File!Next
    BY <1>1, StepOfFile
  <2> QED
    BY <2>1 DEF File!vars
<1>2. CASE UNCHANGED vars
  BY <1>2 DEF vars, File!vars, Contents
<1> QED
  BY <1>1, <1>2

(* A file behind its cache is a file without one: whatever was evicted,    *)
(* written back, or still waits to be written, every read gives what was   *)
(* written last (File::get and File::set over LruCache).                   *)
THEOREM CachedFileIsFile == Spec => ImplementsFile
<1> QED
  BY CacheInvariant, InitOfFile, NextOfFile, PTL DEF Spec, ImplementsFile, File!Spec

-----------------------------------------------------------------------------
(* The file behaves as a function from ids to objects                      *)

(* The objects in a file, as its clients know them.                        *)
ObjectsIn(f, used) == [id \in used |-> f.chunks[id]]

LEMMA PushedObjects ==
  ASSUME NEW f, NEW used, FileOK(f, used), NEW data
  PROVE  ObjectsIn(AfterPush(f, data), used \cup {PushId(f)})
           = [i \in DOMAIN ObjectsIn(f, used) \cup {PushId(f)} |->
                IF i = PushId(f) THEN data ELSE ObjectsIn(f, used)[i]]
<1>1. AfterPush(f, data).chunks = Stored(f.chunks, PushId(f), data)
  BY DEF AfterPush, PushId
<1>2. used \subseteq DOMAIN f.chunks
  BY FileShape
<1>3. /\ AfterPush(f, data).chunks[PushId(f)] = data
      /\ \A i \in used : i # PushId(f) => AfterPush(f, data).chunks[i] = f.chunks[i]
  BY <1>1, <1>2 DEF Stored
<1> QED
  BY <1>3 DEF ObjectsIn

LEMMA SetObjects ==
  ASSUME NEW f, NEW used, FileOK(f, used), NEW id \in used, NEW data
  PROVE  ObjectsIn(AfterSet(f, id, data), used) = [ObjectsIn(f, used) EXCEPT ![id] = data]
<1>1. f = [header |-> f.header, chunks |-> f.chunks] /\ used \subseteq DOMAIN f.chunks
  BY FileShape
<1>2. AfterSet(f, id, data).chunks = Stored(f.chunks, id, data)
  BY <1>1 DEF AfterSet
<1>3. /\ AfterSet(f, id, data).chunks[id] = data
      /\ \A i \in used : i # id => AfterSet(f, id, data).chunks[i] = f.chunks[i]
  BY <1>1, <1>2 DEF Stored
<1> QED
  BY <1>3 DEF ObjectsIn

LEMMA RemovedObjects ==
  ASSUME NEW f, NEW used, FileOK(f, used), NEW id \in used
  PROVE  ObjectsIn(AfterRemove(f, id), used \ {id})
           = [i \in DOMAIN ObjectsIn(f, used) \ {id} |-> ObjectsIn(f, used)[i]]
<1>1. AfterRemove(f, id).chunks = Stored(f.chunks, id, f.header)
  BY DEF AfterRemove
<1>2. used \subseteq DOMAIN f.chunks
  BY FileShape
<1>3. \A i \in used : i # id => AfterRemove(f, id).chunks[i] = f.chunks[i]
  BY <1>1, <1>2 DEF Stored
<1> QED
  BY <1>3 DEF ObjectsIn

LEMMA SetMetaObjects ==
  ASSUME NEW f, NEW used, FileOK(f, used), NEW user
  PROVE  ObjectsIn(AfterSetMeta(f, user), used) = ObjectsIn(f, used)
<1>1. f = [header |-> f.header, chunks |-> f.chunks]
  BY FileShape
<1>2. AfterSetMeta(f, user).chunks = f.chunks
  BY <1>1 DEF AfterSetMeta
<1> QED
  BY <1>2 DEF ObjectsIn

LEMMA NoObjects ==
  ASSUME NEW f
  PROVE  ObjectsIn(f, {}) = <<>>
BY DEF ObjectsIn

LEMMA FileStepOfStore ==
  ASSUME FileOK(Contents, live), File!Next
  PROVE  File!Store!Next \/ UNCHANGED File!Store!vars
<1> DEFINE before == ObjectsIn(Contents, live)
           after == ObjectsIn(Contents', live')
<1>0. DOMAIN before = live
  BY DEF ObjectsIn
<1>1. ASSUME NEW d \in Data, File!Push(d)
      PROVE  \E id \in 0 .. MaxChunks : File!Store!Push(id, d)
  <2>1. /\ PushId(Contents) < MaxChunks
        /\ Contents' = AfterPush(Contents, d)
        /\ live' = live \cup {PushId(Contents)}
        /\ count' = count + 1
    BY <1>1, FileOps DEF File!Push
  <2>2. PushId(Contents) \in (0 .. MaxChunks) \ live
    BY PushIdFree, CacheAssumption
  <2>3. after = [i \in DOMAIN before \cup {PushId(Contents)} |->
                   IF i = PushId(Contents) THEN d ELSE before[i]]
    BY <2>1, PushedObjects
  <2>4. File!Store!Push(PushId(Contents), d)
    BY <1>0, <2>1, <2>2, <2>3, Zenon DEF File!Store!Push, ObjectsIn
  <2> QED
    BY <2>2, <2>4
<1>2. ASSUME NEW d \in Data, NEW id \in live, File!Set(id, d)
      PROVE  File!Store!Set(id, d)
  <2>1. Contents' = AfterSet(Contents, id, d) /\ live' = live /\ count' = count
    BY <1>2, FileOps DEF File!Set
  <2>2. after = [before EXCEPT ![id] = d]
    BY <2>1, SetObjects
  <2> QED
    BY <2>1, <2>2, Zenon DEF File!Store!Set, ObjectsIn
<1>3. ASSUME NEW id \in live, File!Remove(id)
      PROVE  File!Store!Remove(id)
  <2>1. Contents' = AfterRemove(Contents, id) /\ live' = live \ {id} /\ count' = count - 1
    BY <1>3, FileOps DEF File!Remove
  <2>2. after = [i \in DOMAIN before \ {id} |-> before[i]]
    BY <2>1, RemovedObjects
  <2> QED
    BY <2>1, <2>2, Zenon DEF File!Store!Remove, ObjectsIn
<1>4. ASSUME NEW user \in UserMeta, File!SetMeta(user)
      PROVE  UNCHANGED File!Store!vars
  <2>1. Contents' = AfterSetMeta(Contents, user) /\ live' = live /\ count' = count
    BY <1>4, FileOps DEF File!SetMeta
  <2>2. after = before
    BY <2>1, SetMetaObjects
  <2> QED
    BY <2>1, <2>2, Zenon DEF File!Store!vars, ObjectsIn
<1>5. ASSUME File!Truncate
      PROVE  File!Store!Truncate
  <2>1. live' = {} /\ count' = 0
    BY <1>5 DEF File!Truncate
  <2>2. after = <<>>
    BY <2>1, NoObjects
  <2> QED
    BY <2>1, <2>2, Zenon DEF File!Store!Truncate, ObjectsIn
<1> QED
  BY <1>1, <1>2, <1>3, <1>4, <1>5 DEF File!Next, File!Store!Next

LEMMA InitOfStore == Init => File!Store!Init
<1> SUFFICES ASSUME Init
             PROVE  File!Store!Init
  OBVIOUS
<1>1. live = {} /\ count = 0
  BY DEF Init
<1>2. ObjectsIn(Contents, live) = <<>>
  BY <1>1, NoObjects
<1> QED
  BY <1>1, <1>2, Zenon DEF File!Store!Init, ObjectsIn

LEMMA NextOfStore == CacheInv /\ [Next]_vars => [File!Store!Next]_File!Store!vars
<1> SUFFICES ASSUME CacheInv, [Next]_vars
             PROVE  [File!Store!Next]_File!Store!vars
  OBVIOUS
<1>1. [File!Next]_File!vars
  BY NextOfFile
<1>2. CASE File!Next
  BY <1>2, FileStepOfStore DEF CacheInv
<1>3. CASE UNCHANGED File!vars
  <2>1. Contents' = Contents /\ live' = live /\ count' = count
    BY <1>3 DEF File!vars
  <2> QED
    BY <2>1 DEF File!Store!vars
<1> QED
  BY <1>1, <1>2, <1>3

(* A file behind its cache is a function from the ids its clients hold to  *)
(* the objects they saved last (Managed over File over LruCache).          *)
THEOREM CachedFileIsStore == Spec => ImplementsStore
<1> QED
  BY CacheInvariant, InitOfStore, NextOfStore, PTL
     DEF Spec, ImplementsStore, File!ImplementsStore, File!Store!Spec

=============================================================================
