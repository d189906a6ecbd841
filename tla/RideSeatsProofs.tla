-------------------------- MODULE RideSeatsProofs --------------------------
(***************************************************************************)
(* What the seat arithmetic of RideSeats does to an array of any length.   *)
(***************************************************************************)
EXTENDS RideSeats, FiniteSetTheorems, TLAPS, WellFoundedInduction

(* Every non-empty set of natural numbers has a least element.             *)
LEMMA LeastNat ==
  ASSUME NEW T \in SUBSET Nat, T # {}
  PROVE  \E x \in T : \A y \in T : x <= y
<1> DEFINE Less == {p \in Nat \X Nat : p[1] < p[2]}
<1>1. IsWellFoundedOn(Less, Nat)
  BY NatLessThanWellFounded, Zenon DEF OpToRel
<1>2. \E x \in T : \A y \in T : ~ (<<y, x>> \in Less)
  BY <1>1, WFMin, Zenon
<1>3. ASSUME NEW x \in T, NEW y \in T, ~ (<<y, x>> \in Less)
      PROVE  x <= y
  <2>1. <<y, x>> \in Nat \X Nat
    OBVIOUS
  <2>2. ~ (y < x)
    BY <2>1, <1>3
  <2> QED
    BY <2>2
<1> QED
  BY <1>2, <1>3, Zenon

(* A non-empty stretch of an array of integers has a least value.          *)
LEMMA LeastOfTrip ==
  ASSUME NEW S, NEW rem \in [S -> Int], NEW from \in Nat, NEW to \in Nat,
         from < to, from .. (to - 1) \subseteq S
  PROVE  \E e \in from .. (to - 1) : \A i \in from .. (to - 1) : rem[e] <= rem[i]
<1> DEFINE Stuck == {n \in Nat : /\ from < n
                                 /\ n <= to
                                 /\ ~ \E e \in from .. (n - 1) :
                                        \A i \in from .. (n - 1) : rem[e] <= rem[i]}
<1>1. SUFFICES ASSUME Stuck # {} PROVE FALSE
  <2>1. to \notin Stuck
    BY <1>1
  <2> QED
    BY <2>1
<1>2. PICK n \in Stuck : \A m \in Stuck : n <= m
  BY <1>1, LeastNat
<1>3. CASE n = from + 1
  <2>1. from .. (n - 1) = {from} /\ from \in S /\ rem[from] \in Int
    BY <1>3
  <2> QED
    BY <2>1
<1>4. CASE n # from + 1
  <2>1. n \in Nat /\ n - 1 \in Nat /\ from < n - 1 /\ n - 1 <= to
    BY <1>4
  <2>2. n - 1 \notin Stuck
    <3> HIDE DEF Stuck
    <3> QED
      BY <1>2, <2>1
  <2>3. PICK e \in from .. (n - 1 - 1) : \A i \in from .. (n - 1 - 1) : rem[e] <= rem[i]
    BY <2>1, <2>2
  <2>4. /\ n - 1 \in from .. (to - 1)
        /\ e \in from .. (to - 1)
        /\ \A i \in from .. (n - 1) : i \in from .. (n - 1 - 1) \/ i = n - 1
    BY <2>1
  <2>5. rem[n - 1] \in Int /\ rem[e] \in Int /\ \A i \in from .. (n - 1) : rem[i] \in Int
    BY <2>1, <2>4
  <2>6. CASE rem[e] <= rem[n - 1]
    <3>1. \A i \in from .. (n - 1) : rem[e] <= rem[i]
      BY <2>3, <2>4, <2>6
    <3>2. e \in from .. (n - 1)
      BY <2>1
    <3> QED
      BY <3>1, <3>2
  <2>7. CASE rem[n - 1] < rem[e]
    <3>1. \A i \in from .. (n - 1) : rem[n - 1] <= rem[i]
      BY <2>3, <2>4, <2>5, <2>7
    <3>2. n - 1 \in from .. (n - 1)
      BY <2>1
    <3> QED
      BY <3>1, <3>2
  <2> QED
    BY <2>5, <2>6, <2>7
<1> QED
  BY <1>3, <1>4

(* ticketsAvailable answers at least n exactly when every edge of the trip *)
(* has n seats left.                                                       *)
THEOREM TicketsAvailableIsMinimum ==
  ASSUME NEW S, NEW rem \in [S -> Int], NEW from \in Nat, NEW to \in Nat,
         from < to, Trip(from, to) \subseteq S, NEW n \in Int
  PROVE  /\ TicketsAvailable(rem, from, to) \in Int
         /\ TicketsAvailable(rem, from, to) >= n <=> \A e \in Trip(from, to) : rem[e] >= n
<1> DEFINE M == {rem[e] : e \in {from} \cup Trip(from, to)}
           m == TicketsAvailable(rem, from, to)
<1>1. {from} \cup Trip(from, to) = from .. (to - 1)
  BY DEF Trip
<1>2. \E x \in M : \A y \in M : x <= y
  <2>1. PICK e \in from .. (to - 1) : \A i \in from .. (to - 1) : rem[e] <= rem[i]
    BY LeastOfTrip DEF Trip
  <2> QED
    BY <2>1, <1>1
<1>3. m \in M /\ \A y \in M : m <= y
  BY <1>2 DEF TicketsAvailable, Min
<1>4. M \subseteq Int
  BY <1>1 DEF Trip
<1>5. m \in Int
  BY <1>3, <1>4
<1>6. ASSUME m >= n, NEW e \in Trip(from, to) PROVE rem[e] >= n
  <2>1. rem[e] \in M
    OBVIOUS
  <2> QED
    BY <1>3, <1>4, <1>5, <1>6, <2>1
<1>7. ASSUME \A e \in Trip(from, to) : rem[e] >= n PROVE m >= n
  <2>1. PICK e \in Trip(from, to) : m = rem[e]
    BY <1>1, <1>3 DEF Trip
  <2> QED
    BY <1>7, <2>1
<1> QED
  BY <1>5, <1>6, <1>7

(* rangeAdd keeps the shape of the array, and adding -dx undoes dx.        *)
LEMMA RangeAddType ==
  ASSUME NEW S, NEW rem \in [S -> Int], NEW dx \in Int, NEW from \in Nat, NEW to \in Nat
  PROVE  RangeAdd(rem, dx, from, to) \in [S -> Int]
BY DEF RangeAdd

LEMMA RangeAddInverse ==
  ASSUME NEW S, NEW rem \in [S -> Int], NEW dx \in Int, NEW from \in Nat, NEW to \in Nat
  PROVE  /\ RangeAdd(RangeAdd(rem, dx, from, to), -dx, from, to) = rem
         /\ RangeAdd(RangeAdd(rem, -dx, from, to), dx, from, to) = rem
BY DEF RangeAdd

(* rangeAdd edge by edge.                                                  *)
LEMMA RangeAddAt ==
  ASSUME NEW S, NEW rem \in [S -> Int], NEW dx \in Int, NEW from, NEW to, NEW e \in S
  PROVE  RangeAdd(rem, dx, from, to)[e] = rem[e] + (IF e \in Trip(from, to) THEN dx ELSE 0)
BY DEF RangeAdd

-----------------------------------------------------------------------------
(* Sums over finite sets: the seats of the orders with the ids in S, as    *)
(* MapThenSumSet adds them up.                                             *)

SeatsOf(book, S) == MapThenSumSet(LAMBDA id : book[id].seats, S)

Chosen(s) == CHOOSE x \in s : TRUE

IsSum(g, book, S) ==
  g = [s \in S |-> IF s = {} THEN 0 ELSE book[Chosen(s)].seats + g[s \ {Chosen(s)}]]

LEMMA SeatsOfIsSum ==
  ASSUME NEW book, NEW S
  PROVE  SeatsOf(book, S) = (CHOOSE g : IsSum(g, book, SUBSET S))[S]
BY DEF SeatsOf, MapThenSumSet, MapThenFoldSet, IsSum, Chosen

LEMMA ChosenIsMember ==
  ASSUME NEW s, s # {}
  PROVE  Chosen(s) \in s
BY DEF Chosen

LEMMA WithoutChosen ==
  ASSUME NEW s, IsFiniteSet(s), s # {}
  PROVE  /\ IsFiniteSet(s \ {Chosen(s)})
         /\ Cardinality(s) \in Nat \ {0}
         /\ Cardinality(s \ {Chosen(s)}) = Cardinality(s) - 1
<1>1. Chosen(s) \in s /\ Cardinality(s) \in Nat
  BY ChosenIsMember, FS_CardinalityType
<1>2. IsFiniteSet(s \ {Chosen(s)}) /\ Cardinality(s \ {Chosen(s)}) = Cardinality(s) - 1
  BY <1>1, FS_RemoveElement
<1>3. Cardinality(s \ {Chosen(s)}) \in Nat
  BY <1>2, FS_CardinalityType
<1> QED
  BY <1>1, <1>2, <1>3

(* The function that the recursion of the sum defines exists.              *)
LEMMA SumExists ==
  ASSUME NEW book, NEW S, IsFiniteSet(S)
  PROVE  \E g : IsSum(g, book, SUBSET S)
<1> DEFINE Small(n) == {s \in SUBSET S : Cardinality(s) <= n}
           Stuck == {n \in Nat : ~ \E g : IsSum(g, book, Small(n))}
<1>1. \A s \in SUBSET S : IsFiniteSet(s) /\ Cardinality(s) \in Nat /\ Cardinality(s) <= Cardinality(S)
  BY FS_Subset, FS_CardinalityType
<1>2. Cardinality(S) \in Nat /\ Small(Cardinality(S)) = SUBSET S
  BY <1>1, FS_CardinalityType
<1>3. SUFFICES ASSUME Stuck # {} PROVE FALSE
  <2>1. Cardinality(S) \notin Stuck
    BY <1>3
  <2> QED
    BY <1>2, <2>1
<1>4. PICK n \in Stuck : \A m \in Stuck : n <= m
  <2>1. Stuck \in SUBSET Nat
    OBVIOUS
  <2> HIDE DEF Stuck
  <2> QED
    BY <1>3, <2>1, LeastNat
<1>5. CASE n = 0
  <2>1. \A s \in Small(0) : s = {}
    <3>1. \A s \in SUBSET S : Cardinality(s) <= 0 => Cardinality(s) = 0
      BY <1>1
    <3> QED
      BY <1>1, <3>1, FS_EmptySet
  <2>2. PICK g : g = [s \in Small(0) |-> 0]
    OBVIOUS
  <2>3. g = [s \in Small(0) |-> IF s = {} THEN 0 ELSE book[Chosen(s)].seats + g[s \ {Chosen(s)}]]
    <3> HIDE DEF Small
    <3> QED
      BY <2>1, <2>2
  <2> QED
    BY <1>5, <2>3 DEF IsSum
<1>6. CASE n # 0
  <2>1. n \in Nat /\ n - 1 \in Nat /\ ~ (n <= n - 1)
    BY <1>6
  <2>2. n - 1 \notin Stuck
    <3> HIDE DEF Stuck
    <3> QED
      BY <1>4, <2>1
  <2>3. PICK g : IsSum(g, book, Small(n - 1))
    BY <2>1, <2>2
  <2>4. PICK h : h = [s \in Small(n) |-> IF s = {} THEN 0 ELSE book[Chosen(s)].seats + g[s \ {Chosen(s)}]]
    OBVIOUS
  <2>5. ASSUME NEW s \in Small(n), s # {}
        PROVE  s \ {Chosen(s)} \in Small(n - 1) /\ s \ {Chosen(s)} \in Small(n)
    <3>1. Cardinality(s \ {Chosen(s)}) = Cardinality(s) - 1 /\ Cardinality(s) \in Nat
      BY <1>1, <2>5, WithoutChosen
    <3>2. Cardinality(s) <= n
      BY <2>5
    <3> QED
      BY <2>1, <3>1, <3>2
  <2>6. \A s \in Small(n - 1) : s \in Small(n) /\ h[s] = g[s]
    <3>1. \A s \in Small(n - 1) : s \in Small(n)
      BY <1>1, <2>1
    <3> HIDE DEF Small
    <3> QED
      BY <2>3, <2>4, <3>1 DEF IsSum
  <2>7. h = [s \in Small(n) |-> IF s = {} THEN 0 ELSE book[Chosen(s)].seats + h[s \ {Chosen(s)}]]
    <3> HIDE DEF Small
    <3> QED
      BY <2>4, <2>5, <2>6
  <2> QED
    BY <2>7 DEF IsSum
<1> QED
  BY <1>5, <1>6

(* Two such functions agree where both are defined.                        *)
LEMMA SumUnique ==
  ASSUME NEW book, NEW S, NEW T, IsFiniteSet(T), T \subseteq S
  PROVE  \A g, h : IsSum(g, book, SUBSET S) /\ IsSum(h, book, SUBSET T) => g[T] = h[T]
<1> SUFFICES ASSUME NEW g, NEW h, IsSum(g, book, SUBSET S), IsSum(h, book, SUBSET T)
             PROVE  g[T] = h[T]
  OBVIOUS
<1> DEFINE Stuck == {n \in Nat : \E s \in SUBSET T : Cardinality(s) = n /\ g[s] # h[s]}
<1>1. SUFFICES ASSUME Stuck # {} PROVE FALSE
  <2>1. Cardinality(T) \in Nat /\ Cardinality(T) \notin Stuck
    BY <1>1, FS_CardinalityType
  <2> QED
    BY <2>1
<1>2. PICK n \in Stuck : \A m \in Stuck : n <= m
  <2>1. Stuck \in SUBSET Nat
    OBVIOUS
  <2> HIDE DEF Stuck
  <2> QED
    BY <1>1, <2>1, LeastNat
<1>3. PICK s \in SUBSET T : Cardinality(s) = n /\ g[s] # h[s]
  BY <1>2
<1>4. s \in SUBSET S /\ s \in SUBSET T /\ IsFiniteSet(s)
  BY FS_Subset
<1>5. s # {}
  <2>1. g[{}] = 0 /\ h[{}] = 0
    BY DEF IsSum
  <2> QED
    BY <1>3, <2>1
<1>6. /\ g[s] = book[Chosen(s)].seats + g[s \ {Chosen(s)}]
      /\ h[s] = book[Chosen(s)].seats + h[s \ {Chosen(s)}]
  BY <1>4, <1>5 DEF IsSum
<1>7. g[s \ {Chosen(s)}] # h[s \ {Chosen(s)}]
  BY <1>3, <1>6
<1>8. Cardinality(s \ {Chosen(s)}) = n - 1 /\ n - 1 \in Nat /\ ~ (n <= n - 1)
  BY <1>3, <1>4, <1>5, WithoutChosen
<1>9. n - 1 \in Stuck
  <2>1. s \ {Chosen(s)} \in SUBSET T
    OBVIOUS
  <2> QED
    BY <1>7, <1>8, <2>1
<1> HIDE DEF Stuck
<1> QED
  BY <1>2, <1>8, <1>9

(* The sum over the empty set, and the one over a set without its chosen   *)
(* element.                                                                *)
LEMMA SeatsOfEmpty ==
  ASSUME NEW book
  PROVE  SeatsOf(book, {}) = 0
<1>1. PICK g : g = (CHOOSE x : IsSum(x, book, SUBSET {}))
  OBVIOUS
<1>2. IsSum(g, book, SUBSET {})
  BY <1>1, SumExists, FS_EmptySet
<1>3. SeatsOf(book, {}) = g[{}]
  BY <1>1, SeatsOfIsSum
<1> QED
  BY <1>2, <1>3 DEF IsSum

LEMMA SeatsOfChosen ==
  ASSUME NEW book, NEW S, IsFiniteSet(S), S # {}
  PROVE  SeatsOf(book, S) = book[Chosen(S)].seats + SeatsOf(book, S \ {Chosen(S)})
<1>1. PICK T : T = S \ {Chosen(S)}
  OBVIOUS
<1>2. IsFiniteSet(T) /\ T \subseteq S
  BY <1>1, FS_Subset
<1>3. PICK g : g = (CHOOSE x : IsSum(x, book, SUBSET S))
  OBVIOUS
<1>4. PICK h : h = (CHOOSE x : IsSum(x, book, SUBSET T))
  OBVIOUS
<1>5. IsSum(g, book, SUBSET S) /\ IsSum(h, book, SUBSET T)
  BY <1>2, <1>3, <1>4, SumExists
<1>6. SeatsOf(book, S) = g[S] /\ SeatsOf(book, T) = h[T]
  BY <1>3, <1>4, SeatsOfIsSum
<1>7. g[S] = book[Chosen(S)].seats + g[T]
  <2>1. S \in SUBSET S
    OBVIOUS
  <2> QED
    BY <1>1, <1>5, <2>1 DEF IsSum
<1>8. g[T] = h[T]
  <2>1. \A x, y : IsSum(x, book, SUBSET S) /\ IsSum(y, book, SUBSET T) => x[T] = y[T]
    BY <1>2, SumUnique
  <2> QED
    BY <1>5, <2>1
<1> QED
  BY <1>1, <1>6, <1>7, <1>8

(* A sum of integers is an integer, and it does not matter which of the    *)
(* books is read that agree on the seats.                                  *)
LEMMA SeatsOfType ==
  ASSUME NEW book, NEW other, NEW S, IsFiniteSet(S),
         \A x \in S : book[x].seats \in Int /\ other[x].seats = book[x].seats
  PROVE  SeatsOf(book, S) \in Int /\ SeatsOf(other, S) = SeatsOf(book, S)
<1> DEFINE Stuck == {n \in Nat : \E s \in SUBSET S :
                       Cardinality(s) = n /\ ~ (SeatsOf(book, s) \in Int /\ SeatsOf(other, s) = SeatsOf(book, s))}
<1>1. SUFFICES ASSUME Stuck # {} PROVE FALSE
  <2>1. Cardinality(S) \in Nat /\ Cardinality(S) \notin Stuck
    BY <1>1, FS_CardinalityType
  <2> QED
    BY <2>1
<1>2. PICK n \in Stuck : \A m \in Stuck : n <= m
  <2>1. Stuck \in SUBSET Nat
    OBVIOUS
  <2> HIDE DEF Stuck
  <2> QED
    BY <1>1, <2>1, LeastNat
<1>3. PICK s \in SUBSET S : Cardinality(s) = n /\ ~ (SeatsOf(book, s) \in Int /\ SeatsOf(other, s) = SeatsOf(book, s))
  BY <1>2
<1>4. s # {} /\ IsFiniteSet(s)
  <2>1. SeatsOf(book, {}) = 0 /\ SeatsOf(other, {}) = 0
    BY SeatsOfEmpty
  <2>2. s # {}
    BY <1>3, <2>1
  <2> QED
    BY <2>2, FS_Subset
<1>5. PICK t : t = s \ {Chosen(s)}
  OBVIOUS
<1>6. Cardinality(t) = n - 1 /\ n - 1 \in Nat /\ ~ (n <= n - 1) /\ t \in SUBSET S
  <2>1. Cardinality(s) \in Nat \ {0} /\ Cardinality(t) = Cardinality(s) - 1
    BY <1>4, <1>5, WithoutChosen
  <2>2. t \in SUBSET S
    BY <1>5
  <2> QED
    BY <1>3, <2>1, <2>2
<1>7. n - 1 \notin Stuck
  <2> HIDE DEF Stuck
  <2> QED
    BY <1>2, <1>6
<1>8. SeatsOf(book, t) \in Int /\ SeatsOf(other, t) = SeatsOf(book, t)
  BY <1>6, <1>7
<1>9. /\ SeatsOf(book, s) = book[Chosen(s)].seats + SeatsOf(book, t)
      /\ SeatsOf(other, s) = other[Chosen(s)].seats + SeatsOf(other, t)
      /\ book[Chosen(s)].seats \in Int
      /\ other[Chosen(s)].seats = book[Chosen(s)].seats
  BY <1>4, <1>5, SeatsOfChosen, ChosenIsMember
<1> QED
  BY <1>3, <1>8, <1>9

(* One more order adds its seats.                                          *)
LEMMA SeatsOfAdded ==
  ASSUME NEW book, NEW S, IsFiniteSet(S), NEW x, x \notin S,
         \A y \in S \cup {x} : book[y].seats \in Int
  PROVE  SeatsOf(book, S \cup {x}) = SeatsOf(book, S) + book[x].seats
<1> DEFINE All == S \cup {x}
           Holds(s, z) == SeatsOf(book, s \cup {z}) = SeatsOf(book, s) + book[z].seats
           Stuck == {n \in Nat : \E s \in SUBSET All, z \in All :
                                   z \notin s /\ Cardinality(s) = n /\ ~ Holds(s, z)}
<1>1. IsFiniteSet(All) /\ \A s \in SUBSET All : IsFiniteSet(s) /\ Cardinality(s) \in Nat
  BY FS_AddElement, FS_Subset, FS_CardinalityType
<1>2. SUFFICES ASSUME Stuck # {} PROVE FALSE
  <2>1. Cardinality(S) \in Nat /\ S \in SUBSET All /\ x \in All
    BY <1>1
  <2>2. Cardinality(S) \notin Stuck
    BY <1>2
  <2>3. Holds(S, x)
    BY <2>1, <2>2
  <2> QED
    BY <2>3
<1>3. PICK n \in Stuck : \A m \in Stuck : n <= m
  <2>1. Stuck \in SUBSET Nat
    OBVIOUS
  <2> HIDE DEF Stuck
  <2> QED
    BY <1>2, <2>1, LeastNat
<1>4. PICK s \in SUBSET All, z \in All : z \notin s /\ Cardinality(s) = n /\ ~ Holds(s, z)
  BY <1>3
<1>5. IsFiniteSet(s) /\ s \cup {z} \in SUBSET All /\ s \cup {z} # {}
  BY <1>1
<1>6. PICK y : y = Chosen(s \cup {z})
  OBVIOUS
<1>7. y \in s \cup {z} /\ SeatsOf(book, s \cup {z}) = book[y].seats + SeatsOf(book, (s \cup {z}) \ {y})
  <2>1. IsFiniteSet(s \cup {z})
    BY <1>1, <1>5
  <2> QED
    BY <1>5, <1>6, <2>1, ChosenIsMember, SeatsOfChosen
<1>8. ASSUME NEW t \in SUBSET All PROVE SeatsOf(book, t) \in Int
  <2>1. IsFiniteSet(t) /\ \A i \in t : book[i].seats \in Int
    BY <1>1
  <2> QED
    BY <2>1, SeatsOfType
<1>9. book[z].seats \in Int /\ book[y].seats \in Int /\ SeatsOf(book, s) \in Int
  BY <1>5, <1>7, <1>8
<1>10. CASE y = z
  <2>1. (s \cup {z}) \ {y} = s
    BY <1>4, <1>10
  <2>2. SeatsOf(book, s \cup {z}) = book[z].seats + SeatsOf(book, s)
    BY <1>7, <1>10, <2>1
  <2>3. SeatsOf(book, s \cup {z}) = SeatsOf(book, s) + book[z].seats
    BY <1>9, <2>2
  <2> QED
    BY <1>4, <2>3
<1>11. CASE y # z
  <2>1. PICK t : t = s \ {y}
    OBVIOUS
  <2>2. /\ y \in s /\ y \in All /\ (s \cup {z}) \ {y} = t \cup {z}
        /\ t \in SUBSET All /\ t \cup {y} = s /\ y \notin t /\ z \notin t
    BY <1>4, <1>7, <1>11, <2>1
  <2>3. Cardinality(t) = Cardinality(s) - 1
    BY <1>5, <2>1, <2>2, FS_RemoveElement
  <2>4. Cardinality(t) = n - 1 /\ n - 1 \in Nat /\ ~ (n <= n - 1)
    BY <1>1, <1>4, <2>2, <2>3
  <2>5. n - 1 \notin Stuck
    <3> HIDE DEF Stuck
    <3> QED
      BY <1>3, <2>4
  <2>6. Holds(t, z) /\ Holds(t, y)
    <3> HIDE DEF Holds
    <3> QED
      BY <2>2, <2>4, <2>5
  <2>7. SeatsOf(book, t) \in Int
    BY <1>8, <2>2
  <2>8. /\ SeatsOf(book, t \cup {z}) = SeatsOf(book, t) + book[z].seats
        /\ SeatsOf(book, s) = SeatsOf(book, t) + book[y].seats
        /\ SeatsOf(book, s \cup {z}) = book[y].seats + SeatsOf(book, t \cup {z})
    BY <1>7, <2>2, <2>6
  <2>9. SeatsOf(book, s \cup {z}) = SeatsOf(book, s) + book[z].seats
    BY <1>9, <2>7, <2>8
  <2> QED
    BY <1>4, <2>9
<1> QED
  BY <1>10, <1>11

(* One order less takes its seats away.                                    *)
LEMMA SeatsOfRemoved ==
  ASSUME NEW book, NEW S, IsFiniteSet(S), NEW x \in S,
         \A y \in S : book[y].seats \in Int
  PROVE  SeatsOf(book, S \ {x}) = SeatsOf(book, S) - book[x].seats
<1>1. PICK T : T = S \ {x}
  OBVIOUS
<1>2. IsFiniteSet(T) /\ x \notin T /\ T \cup {x} = S
  BY <1>1, FS_Subset
<1>3. SeatsOf(book, T) \in Int
  <2>1. \A y \in T : book[y].seats \in Int
    BY <1>1
  <2> QED
    BY <1>2, <2>1, SeatsOfType
<1>4. SeatsOf(book, S) = SeatsOf(book, T) + book[x].seats
  <2>1. \A y \in T \cup {x} : book[y].seats \in Int
    BY <1>2
  <2>2. SeatsOf(book, T \cup {x}) = SeatsOf(book, T) + book[x].seats
    BY <1>2, <2>1, SeatsOfAdded
  <2> QED
    BY <1>2, <2>2
<1>5. book[x].seats \in Int
  OBVIOUS
<1> QED
  BY <1>1, <1>3, <1>4, <1>5

-----------------------------------------------------------------------------
(* The seats that the orders of a book hold.                               *)

(* The orders of a book that hold seats on edge e of ride r.               *)
Holders(book, r, e) ==
  {id \in DOMAIN book : /\ book[id].ride = r
                        /\ book[id].status = "success"
                        /\ e \in Trip(book[id].from, book[id].to)}

Held(book, r, e) == SeatsOf(book, Holders(book, r, e))

Uses(o, r, e) == o.ride = r /\ e \in Trip(o.from, o.to)

LEMMA HoldersFinite ==
  ASSUME NEW book, IsFiniteSet(DOMAIN book), NEW r, NEW e
  PROVE  IsFiniteSet(Holders(book, r, e)) /\ Holders(book, r, e) \subseteq DOMAIN book
<1>1. Holders(book, r, e) \subseteq DOMAIN book
  BY DEF Holders
<1> QED
  BY <1>1, FS_Subset

LEMMA HeldType ==
  ASSUME NEW book, IsFiniteSet(DOMAIN book), NEW r, NEW e,
         \A i \in DOMAIN book : book[i].seats \in Int
  PROVE  Held(book, r, e) \in Int
BY HoldersFinite, SeatsOfType DEF Held

(* Two books whose successful orders are the same hold the same seats.     *)
LEMMA SameHeld ==
  ASSUME NEW book, IsFiniteSet(DOMAIN book), NEW other, NEW r, NEW e,
         \A i \in DOMAIN book : book[i].seats \in Int,
         Holders(other, r, e) = Holders(book, r, e),
         \A i \in Holders(book, r, e) : other[i].seats = book[i].seats
  PROVE  Held(other, r, e) = Held(book, r, e)
<1>1. PICK S : S = Holders(book, r, e)
  OBVIOUS
<1>2. IsFiniteSet(S) /\ \A i \in S : book[i].seats \in Int /\ other[i].seats = book[i].seats
  BY <1>1, HoldersFinite
<1>3. SeatsOf(other, S) = SeatsOf(book, S)
  BY <1>2, SeatsOfType
<1> QED
  BY <1>1, <1>3 DEF Held

(* `other' is `book' without the successful order id.                      *)
LEMMA LeavesHeld ==
  ASSUME NEW book, IsFiniteSet(DOMAIN book), NEW other, NEW id \in DOMAIN book, NEW r, NEW e,
         \A i \in DOMAIN book : book[i].seats \in Int,
         book[id].status = "success",
         Holders(other, r, e) = Holders(book, r, e) \ {id},
         \A i \in Holders(other, r, e) : other[i].seats = book[i].seats
  PROVE  Held(other, r, e) = Held(book, r, e) - (IF Uses(book[id], r, e) THEN book[id].seats ELSE 0)
<1>1. PICK S : S = Holders(book, r, e)
  OBVIOUS
<1>2. IsFiniteSet(S) /\ IsFiniteSet(S \ {id}) /\ \A i \in S : book[i].seats \in Int
  BY <1>1, HoldersFinite, FS_Subset
<1>3. SeatsOf(other, S \ {id}) = SeatsOf(book, S \ {id})
  <2>1. \A i \in S \ {id} : book[i].seats \in Int /\ other[i].seats = book[i].seats
    BY <1>1, <1>2
  <2> QED
    BY <1>2, <2>1, SeatsOfType
<1>4. Held(other, r, e) = SeatsOf(book, S \ {id}) /\ Held(book, r, e) = SeatsOf(book, S)
  BY <1>1, <1>3 DEF Held
<1>5. id \in S <=> Uses(book[id], r, e)
  BY <1>1 DEF Holders, Uses
<1>6. CASE id \in S
  <2>1. SeatsOf(book, S \ {id}) = SeatsOf(book, S) - book[id].seats
    BY <1>2, <1>6, SeatsOfRemoved
  <2> QED
    BY <1>4, <1>5, <1>6, <2>1
<1>7. CASE id \notin S
  <2>1. S \ {id} = S
    BY <1>7
  <2>2. SeatsOf(book, S) \in Int
    BY <1>2, SeatsOfType
  <2>3. Held(other, r, e) = Held(book, r, e) /\ Held(book, r, e) \in Int /\ ~ Uses(book[id], r, e)
    BY <1>4, <1>5, <1>7, <2>1, <2>2
  <2> QED
    BY <2>3
<1> QED
  BY <1>6, <1>7

(* The seats that an order holds on edge e of ride r.                      *)
Weight(o, r, e) == IF o.status = "success" /\ Uses(o, r, e) THEN o.seats ELSE 0

LEMMA HeldSplit ==
  ASSUME NEW book, IsFiniteSet(DOMAIN book), NEW r, NEW e, NEW id \in DOMAIN book,
         \A i \in DOMAIN book : book[i].seats \in Int
  PROVE  /\ Held(book, r, e) = SeatsOf(book, Holders(book, r, e) \ {id}) + Weight(book[id], r, e)
         /\ SeatsOf(book, Holders(book, r, e) \ {id}) \in Int
<1>1. PICK S : S = Holders(book, r, e)
  OBVIOUS
<1>2. IsFiniteSet(S) /\ IsFiniteSet(S \ {id}) /\ \A i \in S : book[i].seats \in Int
  BY <1>1, HoldersFinite, FS_Subset
<1>3. SeatsOf(book, S) \in Int /\ SeatsOf(book, S \ {id}) \in Int
  BY <1>2, SeatsOfType
<1>4. id \in S <=> book[id].status = "success" /\ Uses(book[id], r, e)
  BY <1>1 DEF Holders, Uses
<1>5. Held(book, r, e) = SeatsOf(book, S)
  BY <1>1 DEF Held
<1>6. CASE id \in S
  <2>1. SeatsOf(book, S \ {id}) = SeatsOf(book, S) - book[id].seats
    BY <1>2, <1>6, SeatsOfRemoved
  <2> QED
    BY <1>1, <1>3, <1>4, <1>5, <1>6, <2>1 DEF Weight
<1>7. CASE id \notin S
  <2>1. S \ {id} = S
    BY <1>7
  <2> QED
    BY <1>1, <1>3, <1>4, <1>5, <1>7, <2>1 DEF Weight
<1> QED
  BY <1>6, <1>7

(* A book in which the order id is new, or has changed.                    *)
Put(book, id, o) == [i \in DOMAIN book \cup {id} |-> IF i = id THEN o ELSE book[i]]

LEMMA HeldAfterPut ==
  ASSUME NEW book, IsFiniteSet(DOMAIN book), NEW r, NEW e, NEW id, NEW o, o.seats \in Int,
         \A i \in DOMAIN book : book[i].seats \in Int
  PROVE  /\ IsFiniteSet(DOMAIN Put(book, id, o))
         /\ Held(book, r, e) \in Int
         /\ Held(Put(book, id, o), r, e)
              = Held(book, r, e) + Weight(o, r, e)
                  - (IF id \in DOMAIN book THEN Weight(book[id], r, e) ELSE 0)
<1>1. PICK other : other = Put(book, id, o)
  OBVIOUS
<1>2. /\ DOMAIN other = DOMAIN book \cup {id} /\ other[id] = o
      /\ \A i \in DOMAIN book : i # id => other[i] = book[i]
  BY <1>1 DEF Put
<1>3. IsFiniteSet(DOMAIN other) /\ \A i \in DOMAIN other : other[i].seats \in Int
  <2>1. IsFiniteSet(DOMAIN book \cup {id})
    BY FS_AddElement
  <2> QED
    BY <1>2, <2>1
<1>4. PICK S : S = Holders(other, r, e) \ {id}
  OBVIOUS
<1>5. S = Holders(book, r, e) \ {id}
  BY <1>2, <1>4 DEF Holders
<1>6. SeatsOf(other, S) = SeatsOf(book, S) /\ SeatsOf(book, S) \in Int
  <2>1. Holders(book, r, e) \subseteq DOMAIN book /\ IsFiniteSet(Holders(book, r, e))
    BY HoldersFinite
  <2>2. IsFiniteSet(S) /\ \A i \in S : book[i].seats \in Int /\ other[i].seats = book[i].seats
    BY <1>2, <1>5, <2>1, FS_Subset
  <2> QED
    BY <2>2, SeatsOfType
<1>7. Held(other, r, e) = SeatsOf(book, S) + Weight(o, r, e)
  <2>1. id \in DOMAIN other
    BY <1>2
  <2>2. Held(other, r, e) = SeatsOf(other, Holders(other, r, e) \ {id}) + Weight(other[id], r, e)
    BY <1>3, <2>1, HeldSplit
  <2> QED
    BY <1>2, <1>4, <1>6, <2>2
<1>8. Held(book, r, e) = SeatsOf(book, S) + (IF id \in DOMAIN book THEN Weight(book[id], r, e) ELSE 0)
  <2>1. CASE id \in DOMAIN book
    BY <1>5, <2>1, HeldSplit
  <2>2. CASE id \notin DOMAIN book
    <3>1. Holders(book, r, e) \ {id} = Holders(book, r, e)
      BY <2>2 DEF Holders
    <3> QED
      BY <1>5, <1>6, <2>2, <3>1 DEF Held
  <2> QED
    BY <2>1, <2>2
<1>9. Weight(o, r, e) \in Int /\ (id \in DOMAIN book => Weight(book[id], r, e) \in Int)
  BY DEF Weight
<1> QED
  BY <1>1, <1>3, <1>6, <1>7, <1>8, <1>9

=============================================================================
