--------------------------- MODULE TransferProofs ---------------------------
(***************************************************************************)
(* What the search for a journey with one change does, for any timetable   *)
(* and query, and what the calendar and the clock compute that it counts   *)
(* with (lib/datetime.cpp).                                                *)
(*                                                                         *)
(* The proof of the search is about sections as runs of trains on dates: a *)
(* section from the origin is the run that leaves it on the date asked     *)
(* for, a section to the destination has gone through all the dates on     *)
(* which its train would leave too early.  The heap holds every value a    *)
(* section has had, so one that can still be changed to is found in it     *)
(* whatever was popped, as only what is refused is taken off.              *)
(***************************************************************************)
EXTENDS Transfer, TLAPS, FiniteSetTheorems, WellFoundedInduction, NaturalsInduction, SequenceTheorems

-----------------------------------------------------------------------------
(* The calendar and the clock.                                             *)

(* The constants of the clock,                                             *)
LEMMA Constants == kDay = 1440 /\ kMinutesInHour = 60 /\ kHoursInDay = 24
BY DEF kDay, kMinutesInHour, kHoursInDay

(* and of the months.                                                      *)
LEMMA Months ==
  /\ daysInYear[0] = 0 /\ daysInYear[1] = 30 /\ daysInYear[2] = 61 /\ daysInYear[3] = 92
  /\ kMonthBase = 6 /\ kMonthMax = 8
BY DEF daysInYear, kMonthBase, kMonthMax

(* Division of a natural number.                                           *)
LEMMA DivideNat ==
  ASSUME NEW a \in Nat, NEW b \in {10, 24, 60, 1440}
  PROVE  /\ Quotient(a, b) \in Nat
         /\ Remainder(a, b) \in Nat
         /\ Remainder(a, b) < b
         /\ a = b * Quotient(a, b) + Remainder(a, b)
<1>1. a \div 10 \in Nat /\ a - 10 * (a \div 10) \in 0 .. 9
  OBVIOUS
<1>2. a \div 24 \in Nat /\ a - 24 * (a \div 24) \in 0 .. 23
  OBVIOUS
<1>3. a \div 60 \in Nat /\ a - 60 * (a \div 60) \in 0 .. 59
  OBVIOUS
<1>4. a \div 1440 \in Nat /\ a - 1440 * (a \div 1440) \in 0 .. 1439
  OBVIOUS
<1>5. Quotient(a, b) = a \div b
  BY DEF Quotient
<1> QED
  BY <1>1, <1>2, <1>3, <1>4, <1>5 DEF Remainder

-----------------------------------------------------------------------------
(* A date of the summer has a month and a day, and they give the date.     *)
THEOREM CalendarRoundTrip ==
  ASSUME NEW days \in 0 .. 91
  PROVE  /\ MdFromDays(days).month \in 6 .. 8
         /\ MdFromDays(days).date \in 1 .. 31
         /\ DaysFromMd(MdFromDays(days).month, MdFromDays(days).date) = days
<1>1. CASE days >= 61
  <2>1. MdFromDays(days) = [month |-> 8, date |-> days - 60]
    BY <1>1, Months DEF MdFromDays
  <2> QED
    BY <1>1, <2>1, Months DEF DaysFromMd
<1>2. CASE days >= 30 /\ days < 61
  <2>1. MdFromDays(days) = [month |-> 7, date |-> days - 29]
    BY <1>2, Months DEF MdFromDays
  <2> QED
    BY <1>2, <2>1, Months DEF DaysFromMd
<1>3. CASE days < 30
  <2>1. MdFromDays(days) = [month |-> 6, date |-> days + 1]
    BY <1>3, Months DEF MdFromDays
  <2> QED
    BY <1>3, <2>1, Months DEF DaysFromMd
<1> QED
  BY <1>1, <1>2, <1>3

(* Two digits hold a number below a hundred.                               *)
LEMMA DigitsRoundTrip ==
  ASSUME NEW number \in 0 .. 99
  PROVE  /\ SetNumber(number)[1] \in 0 .. 9
         /\ SetNumber(number)[2] \in 0 .. 9
         /\ GetNumber(SetNumber(number)[1], SetNumber(number)[2]) = number
<1>1. number \in Nat
  OBVIOUS
<1>2. PICK q \in Nat : q = Quotient(number, 10)
  BY <1>1, DivideNat
<1>3. PICK r \in Nat : r = Remainder(number, 10)
  BY <1>1, DivideNat
<1>4. r < 10 /\ number = 10 * q + r
  BY <1>1, <1>2, <1>3, DivideNat
<1>5. SetNumber(number)[1] = q /\ SetNumber(number)[2] = r
  BY <1>2, <1>3 DEF SetNumber
<1>6. q <= 9 /\ r <= 9
  BY <1>4
<1> QED
  BY <1>4, <1>5, <1>6 DEF GetNumber

(* Two numbers are read back from the four digits they are written with.   *)
LEMMA NumbersRoundTrip ==
  ASSUME NEW a \in 0 .. 99, NEW b \in 0 .. 99
  PROVE  /\ GetNumber(SetNumbers(a, b)[1], SetNumbers(a, b)[2]) = a
         /\ GetNumber(SetNumbers(a, b)[3], SetNumbers(a, b)[4]) = b
<1>1. /\ SetNumbers(a, b)[1] = SetNumber(a)[1] /\ SetNumbers(a, b)[2] = SetNumber(a)[2]
      /\ SetNumbers(a, b)[3] = SetNumber(b)[1] /\ SetNumbers(a, b)[4] = SetNumber(b)[2]
  BY DEF SetNumbers
<1> QED
  BY <1>1, DigitsRoundTrip

(* A date that is written and read is the same date.                       *)
THEOREM DateTextRoundTrip ==
  ASSUME NEW days \in 0 .. 91
  PROVE  DateOfText(TextOfDate(days)) = days
<1>1. MdFromDays(days).month \in 0 .. 99 /\ MdFromDays(days).date \in 0 .. 99
  BY CalendarRoundTrip
<1> QED
  BY <1>1, NumbersRoundTrip, CalendarRoundTrip DEF DateOfText, TextOfDate

-----------------------------------------------------------------------------
(* The clock of an instant that is not before its day.                     *)
LEMMA ClockOfNat ==
  ASSUME NEW n \in Nat,
         NEW k, k = Quotient(n, 60), NEW m, m = Remainder(n, 60),
         NEW d, d = Quotient(k, 24), NEW h, h = Remainder(k, 24)
  PROVE  /\ d \in Nat /\ h \in Nat /\ m \in Nat
         /\ h <= 23 /\ m <= 59
         /\ n = 1440 * d + 60 * h + m
<1>1. k \in Nat /\ m \in Nat /\ m < 60 /\ n = 60 * k + m
  BY DivideNat
<1>2. d \in Nat /\ h \in Nat /\ h < 24 /\ k = 24 * d + h
  BY <1>1, DivideNat
<1> QED
  BY <1>1, <1>2

(* The days that are added to an instant before its day.                   *)
LEMMA DaysBack ==
  ASSUME NEW minutes \in Int, minutes < 0,
         NEW d, d = Quotient(-minutes, 1440) + IF Remainder(-minutes, 1440) = 0 THEN 0 ELSE 1
  PROVE  d \in Nat /\ minutes + d * 1440 \in Nat /\ minutes + d * 1440 < 1440
<1>1. -minutes \in Nat
  OBVIOUS
<1>2. PICK q \in Nat : q = Quotient(-minutes, 1440)
  BY <1>1, DivideNat
<1>3. PICK r \in Nat : r = Remainder(-minutes, 1440)
  BY <1>1, DivideNat
<1>4. -minutes = 1440 * q + r /\ r < 1440
  BY <1>1, <1>2, <1>3, DivideNat
<1>5. d = q + IF r = 0 THEN 0 ELSE 1
  BY <1>2, <1>3
<1> QED
  BY <1>4, <1>5

(* An instant has one number of days, hours and minutes.                   *)
LEMMA OneClock ==
  ASSUME NEW d \in Int, NEW q \in Int, NEW x \in Int, NEW y \in Int,
         0 <= x, x < 1440, 0 <= y, y < 1440, d * 1440 + x = q * 1440 + y
  PROVE  x = y
<1>1. d = q
  OBVIOUS
<1> QED
  BY <1>1

(* The days, hours and minutes of an instant, which may lie before or      *)
(* after its day, make up the instant, and the hours and minutes are those *)
(* of a clock.                                                             *)
THEOREM ClockExact ==
  ASSUME NEW minutes \in Int
  PROVE  /\ DhmFromMinutes(minutes).days \in Int
         /\ DhmFromMinutes(minutes).hours \in 0 .. 23
         /\ DhmFromMinutes(minutes).minutes \in 0 .. 59
         /\ minutes = DhmFromMinutes(minutes).days * kDay
                        + DhmFromMinutes(minutes).hours * kMinutesInHour
                        + DhmFromMinutes(minutes).minutes
<1>1. CASE minutes < 0
  <2>1. PICK d : d = Quotient(-minutes, 1440) + IF Remainder(-minutes, 1440) = 0 THEN 0 ELSE 1
    OBVIOUS
  <2>2. d \in Nat /\ minutes + d * 1440 \in Nat /\ minutes + d * 1440 < 1440
    BY <1>1, <2>1, DaysBack
  <2>3. PICK n \in Nat : n = minutes + d * 1440
    BY <2>2
  <2>4. PICK k : k = Quotient(n, 60)
    OBVIOUS
  <2>5. PICK m : m = Remainder(n, 60)
    OBVIOUS
  <2>6. PICK h : h = Remainder(k, 24)
    OBVIOUS
  <2>7. PICK e : e = Quotient(k, 24)
    OBVIOUS
  <2>8. e \in Nat /\ h \in Nat /\ m \in Nat /\ h <= 23 /\ m <= 59 /\ n = 1440 * e + 60 * h + m
    BY <2>4, <2>5, <2>6, <2>7, ClockOfNat
  <2>9. DhmFromMinutes(minutes) = [days |-> -d, hours |-> h, minutes |-> m]
    BY <1>1, <2>1, <2>3, <2>4, <2>5, <2>6, Constants DEF DhmFromMinutes
  <2>10. e = 0
    BY <2>2, <2>3, <2>8
  <2>11. minutes = (-d) * 1440 + h * 60 + m
    BY <2>2, <2>3, <2>8, <2>10
  <2> QED
    BY <2>2, <2>8, <2>9, <2>11, Constants
<1>2. CASE ~ (minutes < 0)
  <2>1. minutes \in Nat
    BY <1>2
  <2>2. PICK k : k = Quotient(minutes, 60)
    OBVIOUS
  <2>3. PICK m : m = Remainder(minutes, 60)
    OBVIOUS
  <2>4. PICK h : h = Remainder(k, 24)
    OBVIOUS
  <2>5. PICK d : d = Quotient(k, 24)
    OBVIOUS
  <2>6. d \in Nat /\ h \in Nat /\ m \in Nat /\ h <= 23 /\ m <= 59
        /\ minutes = 1440 * d + 60 * h + m
    BY <2>1, <2>2, <2>3, <2>4, <2>5, ClockOfNat
  <2>7. minutes + 0 * 1440 = minutes
    OBVIOUS
  <2>8. DhmFromMinutes(minutes) = [days |-> d, hours |-> h, minutes |-> m]
    BY <1>2, <2>2, <2>3, <2>4, <2>5, <2>7, Constants DEF DhmFromMinutes
  <2>9. minutes = d * 1440 + h * 60 + m
    BY <2>6
  <2>10. /\ DhmFromMinutes(minutes).days = d
         /\ DhmFromMinutes(minutes).hours = h
         /\ DhmFromMinutes(minutes).minutes = m
    BY <2>8
  <2>11. d \in Int /\ h \in 0 .. 23 /\ m \in 0 .. 59
    BY <2>6
  <2> QED
    BY <2>9, <2>10, <2>11, Constants
<1> QED
  BY <1>1, <1>2

(* An instant of the day or later shows the time of withoutOverflow().     *)
THEOREM InstantTextRoundTrip ==
  ASSUME NEW instant \in Nat
  PROVE  InstantOfText(TextOfInstant(instant)) = WithoutOverflow(instant)
<1>1. PICK d \in Int : d = DhmFromMinutes(instant).days
  BY ClockExact
<1>2. PICK h \in 0 .. 23 : h = DhmFromMinutes(instant).hours
  BY ClockExact
<1>3. PICK m \in 0 .. 59 : m = DhmFromMinutes(instant).minutes
  BY ClockExact
<1>4. instant = d * 1440 + (h * 60 + m)
  BY <1>1, <1>2, <1>3, ClockExact, Constants
<1>5. InstantOfText(TextOfInstant(instant)) = h * 60 + m
  <2>1. h \in 0 .. 99 /\ m \in 0 .. 99
    OBVIOUS
  <2>2. /\ GetNumber(SetNumbers(h, m)[1], SetNumbers(h, m)[2]) = h
        /\ GetNumber(SetNumbers(h, m)[3], SetNumbers(h, m)[4]) = m
    BY <2>1, NumbersRoundTrip
  <2>3. TextOfInstant(instant) = SetNumbers(h, m)
    BY <1>2, <1>3 DEF TextOfInstant
  <2> QED
    BY <2>2, <2>3, Constants DEF InstantOfText, MinutesFromHm
<1>6. PICK q \in Nat : q = Quotient(instant, 1440)
  BY DivideNat
<1>7. PICK r \in Nat : r = Remainder(instant, 1440)
  BY DivideNat
<1>8. instant = q * 1440 + r /\ r < 1440
  BY <1>6, <1>7, DivideNat
<1>9. h * 60 + m \in Int /\ 0 <= h * 60 + m /\ h * 60 + m < 1440
  OBVIOUS
<1>10. r = h * 60 + m
  BY <1>4, <1>8, <1>9, OneClock
<1> QED
  BY <1>5, <1>7, <1>10, Constants DEF WithoutOverflow

-----------------------------------------------------------------------------
(* The heap.  An order of pairs, and trees in which no pair ranks above    *)
(* one it is below.  Trees are counted by their nodes, as no induction     *)
(* over them is possible.                                                  *)

(* Every non-empty set of natural numbers has a least element.             *)
LEMMA LeastOf ==
  ASSUME NEW T \in SUBSET Nat, T # {}
  PROVE  \E x \in T : \A y \in T : x <= y
<1> DEFINE Less == {p \in Nat \X Nat : p[1] < p[2]}
<1>1. IsWellFoundedOn(Less, Nat)
  BY NatLessThanWellFounded, Zenon DEF OpToRel
<1>2. \E x \in T : \A y \in T : ~ (<<y, x>> \in Less)
  BY <1>1, WFMin, Zenon
<1>3. ASSUME NEW x \in T, NEW y \in T, ~ (<<y, x>> \in Less)
      PROVE  x <= y
  <2>1. <<y, x>> \in Nat \X Nat
    OBVIOUS
  <2>2. ~ (y < x)
    BY <2>1, <1>3
  <2> QED
    BY <2>2
<1> QED
  BY <1>2, <1>3, Zenon

(* The order of the queue, for either way to sort.                         *)
RankBy(sort, section) ==
  IF sort = "cost" THEN <<section.price, section.arrival, section.train>>
  ELSE <<section.arrival, section.price, section.train>>

Under(sort, a, b) == Smaller(RankBy(sort, b.first), RankBy(sort, a.first))

(* The order of the queue, with the way to sort as a parameter.            *)
LEMMA LowerIsUnder == \A a, b : Lower(a, b) <=> Under(cmd.sort, a, b)
BY DEF Lower, Under, Rank, RankBy

(* The lexicographic order of three numbers.                               *)
LEMMA SmallerOfThree ==
  ASSUME NEW a1 \in Int, NEW a2 \in Int, NEW a3 \in Int,
         NEW b1 \in Int, NEW b2 \in Int, NEW b3 \in Int
  PROVE  Smaller(<<a1, a2, a3>>, <<b1, b2, b3>>)
           <=> a1 < b1 \/ (a1 = b1 /\ (a2 < b2 \/ (a2 = b2 /\ a3 < b3)))
<1> DEFINE a == <<a1, a2, a3>>
           b == <<b1, b2, b3>>
<1>1. DOMAIN a = {1, 2, 3}
  OBVIOUS
<1>2. a[1] = a1 /\ a[2] = a2 /\ a[3] = a3 /\ b[1] = b1 /\ b[2] = b2 /\ b[3] = b3
  OBVIOUS
<1>3. \A j : j \in 1 .. 1 - 1 <=> FALSE
  OBVIOUS
<1>4. \A j : j \in 1 .. 2 - 1 <=> j = 1
  OBVIOUS
<1>5. \A j : j \in 1 .. 3 - 1 <=> j = 1 \/ j = 2
  OBVIOUS
<1> HIDE DEF a, b
<1>6. Smaller(a, b) <=> a[1] < b[1] \/ (a[2] < b[2] /\ a[1] = b[1])
                          \/ (a[3] < b[3] /\ a[1] = b[1] /\ a[2] = b[2])
  BY <1>1, <1>3, <1>4, <1>5 DEF Smaller
<1> QED
  BY <1>2, <1>6 DEF a, b

(* A pair in the queue: a section of the train that the sequence ids has   *)
(* at its place.                                                           *)
IsPair(ids, v) ==
  /\ v.second \in DOMAIN ids
  /\ v.first.train = ids[v.second]
  /\ v.first.train \in Int
  /\ v.first.price \in Int
  /\ v.first.arrival \in Int

(* It is an order: what is not lower than one that is not lower is not     *)
(* lower.                                                                  *)
LEMMA UnderOrder ==
  ASSUME NEW sort, NEW ids, NEW a, IsPair(ids, a), NEW b, IsPair(ids, b)
  PROVE  /\ ~ Under(sort, a, a)
         /\ Under(sort, a, b) => ~ Under(sort, b, a)
         /\ \A c : IsPair(ids, c) /\ ~ Under(sort, a, b) /\ ~ Under(sort, b, c) => ~ Under(sort, a, c)
<1>1. ASSUME NEW x, IsPair(ids, x), NEW y, IsPair(ids, y), sort = "cost"
      PROVE  Under(sort, x, y) <=> y.first.price < x.first.price
               \/ (y.first.price = x.first.price
                     /\ (y.first.arrival < x.first.arrival
                           \/ (y.first.arrival = x.first.arrival /\ y.first.train < x.first.train)))
  BY <1>1, SmallerOfThree DEF Under, RankBy, IsPair
<1>2. ASSUME NEW x, IsPair(ids, x), NEW y, IsPair(ids, y), sort # "cost"
      PROVE  Under(sort, x, y) <=> y.first.arrival < x.first.arrival
               \/ (y.first.arrival = x.first.arrival
                     /\ (y.first.price < x.first.price
                           \/ (y.first.price = x.first.price /\ y.first.train < x.first.train)))
  BY <1>2, SmallerOfThree DEF Under, RankBy, IsPair
<1>3. \A x : IsPair(ids, x) =>
        x.first.train \in Int /\ x.first.price \in Int /\ x.first.arrival \in Int
  BY DEF IsPair
<1>4. CASE sort = "cost"
  BY <1>1, <1>3, <1>4
<1>5. CASE sort # "cost"
  BY <1>2, <1>3, <1>5
<1> QED
  BY <1>4, <1>5

-----------------------------------------------------------------------------
(* The trees of the heap                                                   *)

(* The sequence of the children of a node of w nodes: the first k of them  *)
(* have p[k] nodes, and one is left for their parent.                      *)
Weights(children, p, w) ==
  /\ children = [k \in 1 .. Len(children) |-> children[k]]
  /\ Len(children) \in Nat
  /\ w \in Nat
  /\ \A k \in 0 .. Len(children) : p[k] \in Nat
  /\ p[0] = 0
  /\ p[Len(children)] + 1 <= w

(* In the set S are the trees x[1], of x[2] nodes at most, and all theirs. *)
Closed(S, ids, sort) ==
  \A x \in S :
    /\ x[1] = [value |-> x[1].value, children |-> x[1].children]
    /\ IsPair(ids, x[1].value)
    /\ \E p : /\ Weights(x[1].children, p, x[2])
              /\ \A k \in 1 .. Len(x[1].children) :
                   /\ <<x[1].children[k], p[k] - p[k - 1]>> \in S
                   /\ ~ Under(sort, x[1].value, x[1].children[k].value)

Tree(tree, ids, sort, w) == \E S : Closed(S, ids, sort) /\ <<tree, w>> \in S

Subtree(tree, c, ids, sort, w) ==
  Tree(c, ids, sort, w) /\ ~ Under(sort, tree.value, c.value)

Branches(tree, p, ids, sort) ==
  \A k \in 1 .. Len(tree.children) : Subtree(tree, tree.children[k], ids, sort, p[k] - p[k - 1])

(* A tree has a pair at its root and trees that do not rank above it       *)
(* below.                                                                  *)
LEMMA TreeUnfold ==
  ASSUME NEW tree, NEW ids, NEW sort, NEW w, Tree(tree, ids, sort, w)
  PROVE  /\ tree = [value |-> tree.value, children |-> tree.children]
         /\ IsPair(ids, tree.value)
         /\ \E p : Weights(tree.children, p, w) /\ Branches(tree, p, ids, sort)
<1>1. PICK S : Closed(S, ids, sort) /\ <<tree, w>> \in S
  BY DEF Tree
<1>2. PICK x \in S : x = <<tree, w>>
  BY <1>1
<1>3. x[1] = tree /\ x[2] = w
  BY <1>2
<1>4. /\ x[1] = [value |-> x[1].value, children |-> x[1].children]
      /\ IsPair(ids, x[1].value)
      /\ \E p : /\ Weights(x[1].children, p, x[2])
                /\ \A k \in 1 .. Len(x[1].children) :
                     /\ <<x[1].children[k], p[k] - p[k - 1]>> \in S
                     /\ ~ Under(sort, x[1].value, x[1].children[k].value)
  BY <1>1, <1>2, Zenon DEF Closed
<1>5. PICK p : /\ Weights(tree.children, p, w)
               /\ \A k \in 1 .. Len(tree.children) :
                    /\ <<tree.children[k], p[k] - p[k - 1]>> \in S
                    /\ ~ Under(sort, tree.value, tree.children[k].value)
  BY <1>3, <1>4, Zenon
<1>6. \A c, n : <<c, n>> \in S => Tree(c, ids, sort, n)
  BY <1>1, Zenon DEF Tree
<1>7. Branches(tree, p, ids, sort)
  BY <1>5, <1>6, Zenon DEF Branches, Subtree
<1> QED
  BY <1>3, <1>4, <1>5, <1>7, Zenon

(* And whatever is built that way is a tree.                               *)
LEMMA TreeFold ==
  ASSUME NEW tree, NEW ids, NEW sort, NEW w, NEW p,
         tree = [value |-> tree.value, children |-> tree.children],
         IsPair(ids, tree.value),
         Weights(tree.children, p, w), Branches(tree, p, ids, sort)
  PROVE  Tree(tree, ids, sort, w)
<1> DEFINE D == 1 .. Len(tree.children)
           of == [k \in D |-> CHOOSE S : /\ Closed(S, ids, sort)
                                         /\ <<tree.children[k], p[k] - p[k - 1]>> \in S]
           all == UNION {of[k] : k \in D}
           pair == <<tree, w>>
           S == all \cup {pair}
<1>1. ASSUME NEW k \in D
      PROVE  /\ Closed(of[k], ids, sort)
             /\ <<tree.children[k], p[k] - p[k - 1]>> \in of[k]
             /\ ~ Under(sort, tree.value, tree.children[k].value)
  <2>0. of[k] = CHOOSE T : Closed(T, ids, sort) /\ <<tree.children[k], p[k] - p[k - 1]>> \in T
    BY Zenon
  <2>1. /\ \E T : Closed(T, ids, sort) /\ <<tree.children[k], p[k] - p[k - 1]>> \in T
        /\ ~ Under(sort, tree.value, tree.children[k].value)
    BY Zenon DEF Branches, Subtree, Tree
  <2> QED
    BY <2>0, <2>1, Zenon
<1> HIDE DEF of
<1>2. /\ \A x \in S : x = <<tree, w>> \/ \E k \in D : x \in of[k]
      /\ \A k \in D : of[k] \subseteq S
      /\ <<tree, w>> \in S
  <2>1. \A x \in all : \E k \in D : x \in of[k]
    BY SMT
  <2>2. \A k \in D : of[k] \subseteq all
    BY SMT
  <2> HIDE DEF pair, all
  <2>3. /\ \A x \in all \cup {pair} : x \in all \/ x = pair
        /\ all \subseteq all \cup {pair}
        /\ pair \in all \cup {pair}
    OBVIOUS
  <2> QED
    BY <2>1, <2>2, <2>3, Zenon DEF pair
<1>3. \A k \in D : of[k] \subseteq S
  BY <1>2
<1>4. <<tree, w>> \in S
  BY <1>2
<1> HIDE DEF S
<1>5. ASSUME NEW x \in S
      PROVE  /\ x[1] = [value |-> x[1].value, children |-> x[1].children]
             /\ IsPair(ids, x[1].value)
             /\ \E q : /\ Weights(x[1].children, q, x[2])
                       /\ \A k \in 1 .. Len(x[1].children) :
                            /\ <<x[1].children[k], q[k] - q[k - 1]>> \in S
                            /\ ~ Under(sort, x[1].value, x[1].children[k].value)
  <2>1. CASE x = <<tree, w>>
    <3>1. x[1] = tree /\ x[2] = w
      BY <2>1
    <3>2. \A k \in D : /\ <<tree.children[k], p[k] - p[k - 1]>> \in S
                       /\ ~ Under(sort, tree.value, tree.children[k].value)
      BY <1>1, <1>3, Zenon
    <3> QED
      BY <3>1, <3>2, Zenon
  <2>2. CASE \E k \in D : x \in of[k]
    <3>1. PICK k \in D : x \in of[k]
      BY <2>2
    <3>2. /\ x[1] = [value |-> x[1].value, children |-> x[1].children]
          /\ IsPair(ids, x[1].value)
          /\ \E q : /\ Weights(x[1].children, q, x[2])
                    /\ \A i \in 1 .. Len(x[1].children) :
                         /\ <<x[1].children[i], q[i] - q[i - 1]>> \in of[k]
                         /\ ~ Under(sort, x[1].value, x[1].children[i].value)
      BY <3>1, <1>1, Zenon DEF Closed
    <3> QED
      BY <3>2, <1>3, Zenon
  <2> QED
    BY <1>2, <2>1, <2>2, Zenon
<1>6. Closed(S, ids, sort)
  BY <1>5, Zenon DEF Closed
<1> QED
  BY <1>4, <1>6, Zenon DEF Tree

Grafted(a, b) == [a EXCEPT !.children = <<b>> \o @]

IsSeq(s) == Len(s) \in Nat /\ s = [k \in 1 .. Len(s) |-> s[k]]

(* A sequence with one more in front.                                      *)
LEMMA Prepended ==
  ASSUME NEW s, IsSeq(s), NEW b
  PROVE  /\ IsSeq(<<b>> \o s)
         /\ Len(<<b>> \o s) = Len(s) + 1
         /\ (<<b>> \o s)[1] = b
         /\ \A k \in 1 .. Len(s) : (<<b>> \o s)[k + 1] = s[k]
<1> DEFINE S == {s[k] : k \in 1 .. Len(s)} \cup {b}
           t == <<b>> \o s
<1>1. s \in Seq(S) /\ <<b>> \in Seq(S)
  BY DEF IsSeq
<1>2. /\ t \in Seq(S) /\ Len(t) = 1 + Len(s)
      /\ \A k \in 1 .. Len(t) : t[k] = IF k <= 1 THEN <<b>>[k] ELSE s[k - 1]
  BY <1>1
<1>3. Len(s) \in Nat
  BY DEF IsSeq
<1> HIDE DEF t, S
<1>4. IsSeq(t) /\ Len(t) = Len(s) + 1
  BY <1>2, <1>3 DEF IsSeq
<1>5. t[1] = b /\ \A k \in 1 .. Len(s) : t[k + 1] = s[k]
  BY <1>2, <1>3
<1> QED
  BY <1>4, <1>5 DEF t

(* A node with one more child.                                             *)
LEMMA GraftedIs ==
  ASSUME NEW a, a = [value |-> a.value, children |-> a.children], NEW b
  PROVE  /\ Grafted(a, b).value = a.value
         /\ Grafted(a, b).children = <<b>> \o a.children
         /\ Grafted(a, b) = [value |-> a.value, children |-> <<b>> \o a.children]
<1>0. \A c : [a EXCEPT !.children = c] = [value |-> a.value, children |-> c]
  OBVIOUS
<1>1. Grafted(a, b) = [value |-> a.value, children |-> <<b>> \o a.children]
  BY <1>0, Zenon DEF Grafted
<1> QED
  BY <1>1

(* A tree below another whose root is not lower gives a tree.              *)
LEMMA GraftTree ==
  ASSUME NEW ids, NEW sort, NEW a, NEW v, Tree(a, ids, sort, v), NEW b, NEW w,
         Tree(b, ids, sort, w), ~ Under(sort, a.value, b.value)
  PROVE  Tree(Grafted(a, b), ids, sort, v + w)
<1>1. /\ a = [value |-> a.value, children |-> a.children] /\ IsPair(ids, a.value)
      /\ \E p : Weights(a.children, p, v) /\ Branches(a, p, ids, sort)
  BY TreeUnfold
<1>2. PICK p : Weights(a.children, p, v) /\ Branches(a, p, ids, sort)
  BY <1>1
<1>3. w \in Nat
  <2>1. \E q : Weights(b.children, q, w)
    BY TreeUnfold, Zenon
  <2> QED
    BY <2>1 DEF Weights
<1> DEFINE n == Len(a.children)
           q == [k \in 0 .. n + 1 |-> IF k = 0 THEN 0 ELSE w + p[k - 1]]
           new == Grafted(a, b)
<1>4. /\ n \in Nat /\ IsSeq(a.children) /\ v \in Nat /\ p[0] = 0 /\ p[n] + 1 <= v
      /\ \A k \in 0 .. n : p[k] \in Nat
  BY <1>2 DEF Weights, IsSeq
<1>5. /\ new.value = a.value /\ new = [value |-> new.value, children |-> new.children]
      /\ new.children = <<b>> \o a.children
  BY <1>1, GraftedIs
<1>6. /\ IsSeq(new.children) /\ Len(new.children) = n + 1 /\ new.children[1] = b
      /\ \A k \in 1 .. n : new.children[k + 1] = a.children[k]
  BY <1>4, <1>5, Prepended
<1> HIDE DEF new, n
<1>7. /\ q[0] = 0 /\ q[1] - q[0] = w /\ q[n + 1] = w + p[n]
      /\ \A k \in 0 .. n + 1 : q[k] \in Nat
      /\ \A k \in 1 .. n : q[k + 1] - q[k] = p[k] - p[k - 1]
  BY <1>3, <1>4
<1> HIDE DEF q
<1>8. Weights(new.children, q, v + w)
  BY <1>3, <1>4, <1>6, <1>7 DEF Weights, IsSeq
<1>9. Branches(new, q, ids, sort)
  <2> SUFFICES ASSUME NEW k \in 1 .. n + 1
               PROVE  Subtree(new, new.children[k], ids, sort, q[k] - q[k - 1])
    BY <1>6, Zenon DEF Branches
  <2>1. CASE k = 1
    BY <2>1, <1>5, <1>6, <1>7 DEF Subtree
  <2>2. CASE k # 1
    <3>1. k - 1 \in 1 .. n /\ k = (k - 1) + 1
      BY <2>2, <1>4
    <3>2. Subtree(a, a.children[k - 1], ids, sort, p[k - 1] - p[(k - 1) - 1])
      BY <3>1, <1>2, Zenon DEF Branches, n
    <3>3. new.children[k] = a.children[k - 1] /\ q[k] - q[k - 1] = p[k - 1] - p[(k - 1) - 1]
      BY <3>1, <1>6, <1>7
    <3> QED
      BY <3>2, <3>3, <1>5, Zenon DEF Subtree
  <2> QED
    BY <2>1, <2>2
<1>10. IsPair(ids, new.value)
  BY <1>1, <1>5
<1> QED
  BY <1>5, <1>8, <1>9, <1>10, TreeFold, Zenon DEF new

(* mergeRoots puts one of the two below the other.                         *)
LEMMA MergeRootsIs ==
  ASSUME NEW a, NEW b
  PROVE  MergeRoots(a, b)
           = IF Under(cmd.sort, a.value, b.value) THEN Grafted(b, a) ELSE Grafted(a, b)
BY LowerIsUnder, Zenon DEF MergeRoots, Grafted

(* Two trees are merged to one with the nodes of both.                     *)
LEMMA MergeTree ==
  ASSUME NEW ids, NEW a, NEW v, Tree(a, ids, cmd.sort, v), NEW b, NEW w, Tree(b, ids, cmd.sort, w)
  PROVE  Tree(MergeRoots(a, b), ids, cmd.sort, v + w)
<1>1. IsPair(ids, a.value) /\ IsPair(ids, b.value)
  BY TreeUnfold, Zenon
<1>2. v \in Nat /\ w \in Nat
  <2>1. (\E q : Weights(b.children, q, w)) /\ \E q : Weights(a.children, q, v)
    BY TreeUnfold, Zenon
  <2> QED
    BY <2>1 DEF Weights
<1>3. CASE Under(cmd.sort, a.value, b.value)
  <2>1. ~ Under(cmd.sort, b.value, a.value)
    BY <1>1, <1>3, UnderOrder, Zenon
  <2>2. Tree(Grafted(b, a), ids, cmd.sort, w + v)
    BY <2>1, GraftTree, Zenon
  <2>3. w + v = v + w
    BY <1>2
  <2> QED
    BY <2>2, <2>3, <1>3, MergeRootsIs, Zenon
<1>4. CASE ~ Under(cmd.sort, a.value, b.value)
  BY <1>4, GraftTree, MergeRootsIs, Zenon
<1> QED
  BY <1>3, <1>4

(* The bound on the number of nodes can be raised.                         *)
LEMMA TreeGrows ==
  ASSUME NEW tree, NEW ids, NEW sort, NEW w, Tree(tree, ids, sort, w), NEW v \in Nat, w <= v
  PROVE  Tree(tree, ids, sort, v)
<1>1. /\ tree = [value |-> tree.value, children |-> tree.children]
      /\ IsPair(ids, tree.value)
      /\ \E p : Weights(tree.children, p, w) /\ Branches(tree, p, ids, sort)
  BY TreeUnfold
<1>2. PICK p : Weights(tree.children, p, w) /\ Branches(tree, p, ids, sort)
  BY <1>1
<1>3. Weights(tree.children, p, v)
  BY <1>2 DEF Weights
<1> QED
  BY <1>1, <1>2, <1>3, TreeFold, Zenon

(* A node alone is a tree.                                                 *)
LEMMA NodeTree ==
  ASSUME NEW ids, NEW sort, NEW v, IsPair(ids, v)
  PROVE  Tree(Node(v), ids, sort, 1)
<1> DEFINE new == Node(v)
           p == [k \in {0} |-> 0]
<1>1. new.value = v /\ new.children = <<>> /\ new = [value |-> new.value, children |-> new.children]
  BY DEF Node
<1>2. Len(<<>>) = 0 /\ <<>> = [k \in 1 .. 0 |-> <<>>[k]]
  OBVIOUS
<1>3. p[0] = 0
  OBVIOUS
<1> HIDE DEF new, p
<1>4. Weights(new.children, p, 1)
  BY <1>1, <1>2, <1>3 DEF Weights
<1>5. Branches(new, p, ids, sort)
  BY <1>1, <1>2 DEF Branches
<1> QED
  BY <1>1, <1>4, <1>5, TreeFold, Zenon DEF new

-----------------------------------------------------------------------------
(* The values of a tree                                                    *)

(* A way down from the root of the tree to the value.                      *)
Way(tree, v, n, path) ==
  /\ n \in Nat
  /\ path = [k \in 0 .. n |-> path[k]]
  /\ path[0] = tree
  /\ \A k \in 0 .. n - 1 : \E i \in 1 .. Len(path[k].children) : path[k + 1] = path[k].children[i]
  /\ path[n].value = v

HasValue(tree, v) == \E n, path : Way(tree, v, n, path)

(* A tree has the value of its root,                                       *)
LEMMA HasRoot ==
  ASSUME NEW tree
  PROVE  HasValue(tree, tree.value)
<1> DEFINE path == [k \in 0 .. 0 |-> tree]
<1>1. Way(tree, tree.value, 0, path)
  BY DEF Way
<1> QED
  BY <1>1, Zenon DEF HasValue

(* the values of its children,                                             *)
LEMMA HasChild ==
  ASSUME NEW tree, NEW i \in 1 .. Len(tree.children), NEW v, HasValue(tree.children[i], v)
  PROVE  HasValue(tree, v)
<1>1. PICK n, path : Way(tree.children[i], v, n, path)
  BY DEF HasValue
<1> DEFINE new == [k \in 0 .. n + 1 |-> IF k = 0 THEN tree ELSE path[k - 1]]
<1>2. n \in Nat /\ n + 1 \in Nat
  BY <1>1 DEF Way
<1>3. new[0] = tree /\ \A k \in 0 .. n : new[k + 1] = path[k]
  BY <1>2
<1>9. new = [k \in 0 .. n + 1 |-> new[k]]
  OBVIOUS
<1> HIDE DEF new
<1>4. ASSUME NEW k \in 0 .. n
      PROVE  \E j \in 1 .. Len(new[k].children) : new[k + 1] = new[k].children[j]
  <2>1. CASE k = 0
    <3>1. path[0] = tree.children[i]
      BY <1>1 DEF Way
    <3> QED
      BY <2>1, <3>1, <1>3
  <2>2. CASE k # 0
    <3>1. k - 1 \in 0 .. n - 1 /\ k = (k - 1) + 1 /\ k - 1 \in 0 .. n
      BY <1>2, <2>2
    <3>2. \E j \in 1 .. Len(path[k - 1].children) : path[(k - 1) + 1] = path[k - 1].children[j]
      BY <3>1, <1>1, Zenon DEF Way
    <3>3. new[k] = path[k - 1] /\ new[k + 1] = path[(k - 1) + 1]
      BY <3>1, <1>3
    <3> QED
      BY <3>2, <3>3
  <2> QED
    BY <2>1, <2>2
<1>5. new[n + 1].value = v
  <2>1. new[n + 1] = path[n]
    BY <1>2, <1>3
  <2> QED
    BY <2>1, <1>1, Zenon DEF Way
<1>6. (n + 1) - 1 = n
  BY <1>2
<1>7. Way(tree, v, n + 1, new)
  BY <1>2, <1>3, <1>4, <1>5, <1>6, <1>9 DEF Way
<1> QED
  BY <1>7, Zenon DEF HasValue

(* and no others.                                                          *)
LEMMA HasUnfold ==
  ASSUME NEW tree, NEW v, HasValue(tree, v), v # tree.value
  PROVE  \E i \in 1 .. Len(tree.children) : HasValue(tree.children[i], v)
<1>1. PICK n, path : Way(tree, v, n, path)
  BY DEF HasValue
<1>2. n \in Nat /\ n # 0
  BY <1>1 DEF Way
<1>3. PICK i \in 1 .. Len(tree.children) : path[1] = tree.children[i]
  <2>1. 0 \in 0 .. n - 1 /\ 0 + 1 = 1
    BY <1>2
  <2>2. \E i \in 1 .. Len(path[0].children) : path[0 + 1] = path[0].children[i]
    BY <2>1, <1>1, Zenon DEF Way
  <2> QED
    BY <2>1, <2>2, <1>1 DEF Way
<1> DEFINE new == [k \in 0 .. n - 1 |-> path[k + 1]]
<1>4. n - 1 \in Nat /\ (n - 1) + 1 = n
  BY <1>2
<1>5. \A k \in 0 .. n - 1 : new[k] = path[k + 1]
  OBVIOUS
<1>9. new = [k \in 0 .. n - 1 |-> new[k]]
  OBVIOUS
<1> HIDE DEF new
<1>6. new[0] = tree.children[i] /\ new[n - 1].value = v
  <2>1. new[0] = path[1] /\ new[n - 1] = path[n]
    BY <1>4, <1>5
  <2> QED
    BY <2>1, <1>1, <1>3, Zenon DEF Way
<1>7. ASSUME NEW k \in 0 .. (n - 1) - 1
      PROVE  \E j \in 1 .. Len(new[k].children) : new[k + 1] = new[k].children[j]
  <2>1. k + 1 \in 0 .. n - 1 /\ k \in 0 .. n - 1
    BY <1>2
  <2>2. \E j \in 1 .. Len(path[k + 1].children) : path[(k + 1) + 1] = path[k + 1].children[j]
    BY <2>1, <1>1, Zenon DEF Way
  <2> QED
    BY <2>1, <2>2, <1>5
<1>8. Way(tree.children[i], v, n - 1, new)
  BY <1>4, <1>6, <1>7, <1>9 DEF Way
<1> QED
  BY <1>8, Zenon DEF HasValue

(* A tree below another keeps the values of both.                          *)
LEMMA GraftHas ==
  ASSUME NEW a, a = [value |-> a.value, children |-> a.children], IsSeq(a.children), NEW b, NEW v,
         HasValue(a, v) \/ HasValue(b, v)
  PROVE  HasValue(Grafted(a, b), v)
<1> DEFINE new == Grafted(a, b)
<1>1. /\ new.value = a.value /\ IsSeq(new.children) /\ Len(new.children) = Len(a.children) + 1
      /\ new.children[1] = b /\ Len(a.children) \in Nat
      /\ \A k \in 1 .. Len(a.children) : new.children[k + 1] = a.children[k]
  <2>1. new.value = a.value /\ new.children = <<b>> \o a.children
    BY GraftedIs
  <2> HIDE DEF new
  <2> QED
    BY <2>1, Prepended DEF IsSeq
<1> HIDE DEF new
<1>2. CASE HasValue(b, v)
  <2>1. 1 \in 1 .. Len(new.children)
    BY <1>1
  <2>2. HasValue(new.children[1], v)
    BY <1>1, <1>2, Zenon
  <2>3. HasValue(new, v)
    BY <2>1, <2>2, HasChild, Zenon
  <2> QED
    BY <2>3, Zenon DEF new
<1>3. CASE HasValue(a, v) /\ v = a.value
  BY <1>1, <1>3, HasRoot, Zenon DEF new
<1>4. CASE HasValue(a, v) /\ v # a.value
  <2>1. PICK i \in 1 .. Len(a.children) : HasValue(a.children[i], v)
    BY <1>4, HasUnfold
  <2>2. i + 1 \in 1 .. Len(new.children) /\ new.children[i + 1] = a.children[i]
    BY <1>1
  <2> QED
    BY <2>1, <2>2, HasChild, Zenon DEF new
<1> QED
  BY <1>2, <1>3, <1>4

(* So does the tree two are merged to.                                     *)
LEMMA MergeHas ==
  ASSUME NEW ids, NEW sort, NEW a, NEW u, Tree(a, ids, sort, u),
         NEW b, NEW w, Tree(b, ids, sort, w), NEW v,
         HasValue(a, v) \/ HasValue(b, v)
  PROVE  HasValue(MergeRoots(a, b), v)
<1>1. \A t, n : Tree(t, ids, sort, n) =>
        t = [value |-> t.value, children |-> t.children] /\ IsSeq(t.children)
  <2> SUFFICES ASSUME NEW t, NEW n, Tree(t, ids, sort, n)
               PROVE  t = [value |-> t.value, children |-> t.children] /\ IsSeq(t.children)
    BY Zenon
  <2>1. t = [value |-> t.value, children |-> t.children] /\ \E q : Weights(t.children, q, n)
    BY TreeUnfold, Zenon
  <2> QED
    BY <2>1 DEF Weights, IsSeq
<1>2. HasValue(Grafted(a, b), v)
  BY <1>1, GraftHas, Zenon
<1>3. HasValue(Grafted(b, a), v)
  BY <1>1, GraftHas, Zenon
<1> QED
  BY <1>2, <1>3, MergeRootsIs, Zenon

(* What the children from the i-th on are merged to, if those from the     *)
(* i + 2-nd on are merged to f[i + 2].                                     *)
MergedAt(f, children, i) ==
  IF i > Len(children) THEN EmptyHeap
  ELSE IF i = Len(children) THEN <<children[i]>>
  ELSE LET pair == MergeRoots(children[i], children[i + 1])
       IN  IF f[i + 2] = EmptyHeap THEN <<pair>>
           ELSE <<MergeRoots(pair, f[i + 2][1])>>

IsMerged(f, children) == f = [i \in 1 .. Len(children) + 2 |-> MergedAt(f, children, i)]

(* The function with which mergeChildren is written exists.                *)
LEMMA MergedExists ==
  ASSUME NEW c, Len(c) \in Nat
  PROVE  \E f : IsMerged(f, c)
<1> DEFINE L == Len(c)
           From(f, m) == f = [i \in m .. L + 2 |-> MergedAt(f, c, i)]
           Missing == {n \in Nat : n <= L + 1 /\ ~ \E f : From(f, L + 2 - n)}
<1>1. Missing = {}
  <2> SUFFICES ASSUME Missing # {} PROVE FALSE
    OBVIOUS
  <2>1. PICK n \in Missing : \A y \in Missing : n <= y
    <3>1. Missing \in SUBSET Nat
      OBVIOUS
    <3> QED
      BY <3>1, LeastOf, Zenon
  <2>2. n # 0
    <3> DEFINE g == [i \in L + 2 .. L + 2 |-> EmptyHeap]
    <3>1. g = [i \in L + 2 .. L + 2 |-> MergedAt(g, c, i)]
      <4>1. ASSUME NEW i \in L + 2 .. L + 2 PROVE MergedAt(g, c, i) = EmptyHeap
        BY DEF MergedAt
      <4> QED
        BY <4>1
    <3>2. L + 2 - 0 = L + 2
      OBVIOUS
    <3> HIDE DEF g
    <3> QED
      BY <2>1, <3>1, <3>2
  <2> DEFINE m == L + 2 - n
  <2>3. n \in Nat /\ n <= L + 1 /\ n - 1 \in Nat /\ n - 1 <= L + 1 /\ ~ (n <= n - 1)
    BY <2>2
  <2>4. L + 2 - (n - 1) = m + 1 /\ m \in 1 .. L + 1
    BY <2>3
  <2>5. PICK f : From(f, m + 1)
    <3>1. n - 1 \notin Missing
      BY <2>1, <2>3
    <3>2. \E f : From(f, L + 2 - (n - 1))
      BY <2>3, <3>1, Zenon
    <3> QED
      BY <2>4, <3>2
  <2>6. \A i \in m + 1 .. L + 2 : f[i] = MergedAt(f, c, i)
    BY <2>5, Zenon
  <2> HIDE DEF m
  <2> DEFINE g == [i \in m .. L + 2 |-> IF i = m THEN MergedAt(f, c, m) ELSE f[i]]
  <2>7. \A i \in m + 1 .. L + 2 : g[i] = f[i]
    BY <2>4
  <2>8. g[m] = MergedAt(f, c, m)
    BY <2>4
  <2>9. \A i \in m .. L + 2 : i = m \/ i \in m + 1 .. L + 2
    BY <2>4
  <2>10. g = [i \in m .. L + 2 |-> g[i]]
    OBVIOUS
  <2> HIDE DEF g
  <2>11. ASSUME NEW i \in m .. L + 2 PROVE MergedAt(g, c, i) = MergedAt(f, c, i)
    <3>1. CASE i >= L
      BY <3>1, <2>4 DEF MergedAt
    <3>2. CASE i < L
      <4>1. i + 2 \in m + 1 .. L + 2
        BY <3>2, <2>4
      <4> QED
        BY <4>1, <2>7 DEF MergedAt
    <3> QED
      BY <3>1, <3>2, <2>4
  <2>12. \A i \in m .. L + 2 : g[i] = MergedAt(g, c, i)
    BY <2>6, <2>7, <2>8, <2>9, <2>11, Zenon
  <2>13. From(g, m)
    BY <2>10, <2>12
  <2> QED
    BY <2>1, <2>13, Zenon DEF m
<1>2. L + 1 \in Nat /\ L + 2 - (L + 1) = 1 /\ L + 1 <= L + 1
  OBVIOUS
<1>3. \E f : From(f, L + 2 - (L + 1))
  BY <1>1, <1>2, Zenon
<1> QED
  BY <1>2, <1>3 DEF IsMerged

(* It is what mergeChildren uses.                                          *)
LEMMA MergeChildrenIs ==
  ASSUME NEW c
  PROVE  MergeChildren(c) = (CHOOSE f : IsMerged(f, c))[1]
BY DEF MergeChildren, IsMerged, MergedAt

(* From the i-th child on, all are in the tree t.                          *)
Gathers(c, p, i, ids, sort, t) ==
  /\ Tree(t, ids, sort, p[Len(c)] - p[i - 1])
  /\ \A k \in i .. Len(c) : \A v : HasValue(c[k], v) => HasValue(t, v)

(* The children are merged to one tree, or none, with all their values.    *)
LEMMA MergedGathers ==
  ASSUME NEW ids, NEW c, NEW p, Len(c) \in Nat,
         \A k \in 0 .. Len(c) : p[k] \in Nat,
         \A k \in 1 .. Len(c) : Tree(c[k], ids, cmd.sort, p[k] - p[k - 1]),
         NEW f, IsMerged(f, c), NEW i \in 1 .. Len(c)
  PROVE  \E t : f[i] = <<t>> /\ Gathers(c, p, i, ids, cmd.sort, t)
<1> DEFINE L == Len(c)
           Good(j) == \E t : f[j] = <<t>> /\ Gathers(c, p, j, ids, cmd.sort, t)
           Bad == {n \in Nat : n < L /\ ~ Good(L - n)}
<1>0. \A j \in 1 .. L + 2 : f[j] = MergedAt(f, c, j)
  BY Zenon DEF IsMerged
<1>1. ASSUME NEW n \in Bad, \A y \in Bad : n <= y
      PROVE  FALSE
  <2> DEFINE j == L - n
  <2>1. n \in Nat /\ n < L /\ ~ Good(j) /\ j \in 1 .. L /\ j \in 1 .. L + 2 /\ j + 2 \in 1 .. L + 2
    OBVIOUS
  <2> HIDE DEF j, Good
  <2>2. f[j] = MergedAt(f, c, j)
    BY <1>0, <2>1
  <2>3. CASE j = L
    <3>1. f[j] = <<c[j]>>
      BY <2>1, <2>2, <2>3 DEF MergedAt
    <3>2. Gathers(c, p, j, ids, cmd.sort, c[j])
      BY <2>1, <2>3 DEF Gathers
    <3> QED
      BY <3>1, <3>2, <2>1, Zenon DEF Good
  <2>4. CASE j < L
    <3> DEFINE pair == MergeRoots(c[j], c[j + 1])
    <3>1. j + 1 \in 1 .. L /\ (j + 1) - 1 = j /\ j - 1 \in 0 .. L /\ j \in 0 .. L /\ j + 1 \in 0 .. L
      BY <2>1, <2>4
    <3>2. Tree(c[j], ids, cmd.sort, p[j] - p[j - 1]) /\ Tree(c[j + 1], ids, cmd.sort, p[j + 1] - p[j])
      <4>1. Tree(c[j + 1], ids, cmd.sort, p[j + 1] - p[(j + 1) - 1])
        BY <3>1
      <4> QED
        BY <3>1, <4>1, <2>1
    <3>3. Tree(pair, ids, cmd.sort, (p[j] - p[j - 1]) + (p[j + 1] - p[j]))
      BY <3>2, MergeTree, Zenon
    <3>4. \A v : HasValue(c[j], v) \/ HasValue(c[j + 1], v) => HasValue(pair, v)
      BY <3>2, MergeHas, Zenon
    <3>5. (p[j] - p[j - 1]) + (p[j + 1] - p[j]) = p[j + 1] - p[j - 1]
      BY <3>1
    <3>6. Tree(pair, ids, cmd.sort, p[j + 1] - p[j - 1])
      BY <3>3, <3>5, Zenon
    <3> HIDE DEF pair
    <3>7. f[j] = IF f[j + 2] = EmptyHeap THEN <<pair>> ELSE <<MergeRoots(pair, f[j + 2][1])>>
      BY <2>1, <2>2, <2>4 DEF MergedAt, pair
    <3>8. CASE j + 1 = L
      <4>1. f[j + 2] = EmptyHeap
        <5>1. j + 2 \in 1 .. L + 2 /\ j + 2 > Len(c)
          BY <3>8, <2>1
        <5>2. f[j + 2] = MergedAt(f, c, j + 2)
          BY <5>1, <1>0, Zenon
        <5> QED
          BY <5>1, <5>2, Zenon DEF MergedAt
      <4>2. \A k \in j .. L : k = j \/ k = j + 1
        BY <3>8, <2>1
      <4>3. Gathers(c, p, j, ids, cmd.sort, pair)
        BY <3>4, <3>6, <3>8, <4>2, Zenon DEF Gathers
      <4> QED
        BY <4>1, <4>3, <3>7, <2>1, Zenon DEF Good
    <3>9. CASE j + 1 < L
      <4>1. j + 2 \in 1 .. L /\ L - (n - 2) = j + 2 /\ n - 2 \in Nat /\ n - 2 < L /\ ~ (n <= n - 2)
        BY <3>9, <2>1 DEF j
      <4>2. Good(j + 2)
        <5>1. n - 2 \notin Bad
          BY <1>1, <4>1
        <5>2. Good(L - (n - 2))
          BY <4>1, <5>1, Zenon
        <5> QED
          BY <4>1, <5>2
      <4>3. PICK t : f[j + 2] = <<t>> /\ Gathers(c, p, j + 2, ids, cmd.sort, t)
        BY <4>2 DEF Good
      <4>4. f[j + 2] # EmptyHeap /\ f[j + 2][1] = t
        BY <4>3 DEF EmptyHeap
      <4>5. (j + 2) - 1 = j + 1 /\ (p[j + 1] - p[j - 1]) + (p[L] - p[j + 1]) = p[L] - p[j - 1]
        <5>1. p[j + 1] \in Nat /\ p[j - 1] \in Nat /\ p[L] \in Nat
          BY <3>1
        <5> QED
          BY <5>1, <2>1
      <4>6. Tree(t, ids, cmd.sort, p[L] - p[j + 1])
        BY <4>3, <4>5 DEF Gathers
      <4> DEFINE new == MergeRoots(pair, t)
      <4>7. Tree(new, ids, cmd.sort, (p[j + 1] - p[j - 1]) + (p[L] - p[j + 1]))
        BY <4>6, <3>6, MergeTree, Zenon
      <4>8. Tree(new, ids, cmd.sort, p[L] - p[j - 1])
        BY <4>5, <4>7, Zenon
      <4>9. \A v : HasValue(pair, v) \/ HasValue(t, v) => HasValue(new, v)
        BY <4>6, <3>6, MergeHas, Zenon
      <4>10. \A k \in j .. L : k = j \/ k = j + 1 \/ k \in j + 2 .. L
        BY <2>1
      <4>11. \A k \in j + 2 .. L : \A v : HasValue(c[k], v) => HasValue(t, v)
        BY <4>3, Zenon DEF Gathers
      <4> HIDE DEF new
      <4>12. Gathers(c, p, j, ids, cmd.sort, new)
        BY <3>4, <4>8, <4>9, <4>10, <4>11, Zenon DEF Gathers
      <4>13. f[j] = <<new>>
        BY <3>7, <4>4, Zenon DEF new
      <4> QED
        BY <4>12, <4>13, <2>1, Zenon DEF Good
    <3> QED
      BY <3>8, <3>9, <2>1, <2>4
  <2> QED
    BY <2>1, <2>3, <2>4
<1>2. Bad = {}
  <2>1. Bad \in SUBSET Nat
    OBVIOUS
  <2> HIDE DEF Bad
  <2> QED
    BY <1>1, <2>1, LeastOf, Zenon
<1>3. L - i \in Nat /\ L - i < L /\ L - (L - i) = i
  OBVIOUS
<1>4. Good(L - (L - i))
  BY <1>2, <1>3, Zenon
<1> QED
  BY <1>3, <1>4

(* Heaps: of w nodes at most, with pairs of sections of the trains ids.    *)
Heap(heap, ids, sort, w) ==
  /\ w \in Nat
  /\ heap # EmptyHeap => heap = <<heap[1]>> /\ Tree(heap[1], ids, sort, w)

InHeap(heap, v) == heap # EmptyHeap /\ HasValue(heap[1], v)

(* A heap of one tree.                                                     *)
LEMMA HeapOfOne ==
  ASSUME NEW tree
  PROVE  /\ <<tree>> # EmptyHeap /\ <<tree>>[1] = tree
         /\ \A ids, sort, w : w \in Nat /\ Tree(tree, ids, sort, w) => Heap(<<tree>>, ids, sort, w)
         /\ \A v : HasValue(tree, v) => InHeap(<<tree>>, v)
<1>1. <<tree>> # EmptyHeap /\ <<tree>>[1] = tree
  BY DEF EmptyHeap
<1>2. \A ids, sort, w : w \in Nat /\ Tree(tree, ids, sort, w) => Heap(<<tree>>, ids, sort, w)
  BY <1>1, Zenon DEF Heap
<1>3. \A v : HasValue(tree, v) => InHeap(<<tree>>, v)
  BY <1>1, Zenon DEF InHeap
<1> QED
  BY <1>1, <1>2, <1>3, Zenon

(* What is pushed is in the heap, with all that was.                       *)
LEMMA PushedHeap ==
  ASSUME NEW ids, NEW heap, NEW w, Heap(heap, ids, cmd.sort, w), NEW v, IsPair(ids, v)
  PROVE  /\ Heap(Pushed(heap, v), ids, cmd.sort, w + 1)
         /\ InHeap(Pushed(heap, v), v)
         /\ \A u : InHeap(heap, u) => InHeap(Pushed(heap, v), u)
<1> DEFINE node == Node(v)
<1>1. Tree(node, ids, cmd.sort, 1)
  BY NodeTree
<1>2. w \in Nat /\ w + 1 \in Nat /\ 1 <= w + 1
  BY DEF Heap
<1>3. HasValue(node, v)
  <2>1. node.value = v
    BY DEF Node
  <2> QED
    BY <2>1, HasRoot, Zenon
<1> HIDE DEF node
<1>4. CASE heap = EmptyHeap
  <2>1. Pushed(heap, v) = <<node>>
    BY <1>4 DEF Pushed, node
  <2>2. Tree(node, ids, cmd.sort, w + 1)
    BY <1>1, <1>2, TreeGrows, Zenon
  <2>3. \A u : ~ InHeap(heap, u)
    BY <1>4 DEF InHeap
  <2> QED
    BY <2>1, <2>2, <2>3, <1>2, <1>3, HeapOfOne, Zenon
<1>5. CASE heap # EmptyHeap
  <2> DEFINE new == MergeRoots(heap[1], node)
  <2>1. Pushed(heap, v) = <<new>>
    BY <1>5, Zenon DEF Pushed, node
  <2>2. Tree(heap[1], ids, cmd.sort, w)
    BY <1>5, Zenon DEF Heap
  <2>3. Tree(new, ids, cmd.sort, w + 1)
    BY <1>1, <2>2, MergeTree, Zenon
  <2>4. \A u : HasValue(heap[1], u) \/ HasValue(node, u) => HasValue(new, u)
    BY <1>1, <2>2, MergeHas, Zenon
  <2> HIDE DEF new
  <2>5. Heap(<<new>>, ids, cmd.sort, w + 1)
    BY <2>3, <1>2, HeapOfOne, Zenon
  <2>6. InHeap(<<new>>, v)
    BY <2>4, <1>3, HeapOfOne, Zenon
  <2>7. \A u : InHeap(heap, u) => InHeap(<<new>>, u)
    BY <2>4, HeapOfOne, Zenon DEF InHeap
  <2> QED
    BY <2>1, <2>5, <2>6, <2>7, Zenon
<1> QED
  BY <1>4, <1>5, Zenon

(* Nothing but the value at the root goes.                                 *)
LEMMA PoppedHeap ==
  ASSUME NEW ids, NEW heap, NEW w, Heap(heap, ids, cmd.sort, w), heap # EmptyHeap
  PROVE  /\ Heap(Popped(heap), ids, cmd.sort, w)
         /\ \A u : InHeap(heap, u) /\ u # TopOf(heap) => InHeap(Popped(heap), u)
<1> DEFINE tree == heap[1]
           c == tree.children
           f == CHOOSE f : IsMerged(f, c)
           L == Len(c)
<1>1. Tree(tree, ids, cmd.sort, w) /\ w \in Nat
  BY Zenon DEF Heap
<1>2. PICK p : Weights(c, p, w) /\ Branches(tree, p, ids, cmd.sort)
  BY <1>1, TreeUnfold, Zenon
<1>3. /\ L \in Nat /\ p[0] = 0 /\ p[L] + 1 <= w /\ \A k \in 0 .. L : p[k] \in Nat
  BY <1>2 DEF Weights
<1>4. \A k \in 1 .. L : Tree(c[k], ids, cmd.sort, p[k] - p[k - 1])
  BY <1>2, Zenon DEF Branches, Subtree
<1>5. IsMerged(f, c)
  <2>1. \E g : IsMerged(g, c)
    BY <1>3, MergedExists
  <2> QED
    BY <2>1, Zenon
<1>6. Popped(heap) = f[1]
  BY MergeChildrenIs, Zenon DEF Popped
<1>7. \A u : InHeap(heap, u) /\ u # TopOf(heap) => \E k \in 1 .. L : HasValue(c[k], u)
  BY HasUnfold, Zenon DEF InHeap, TopOf
<1> HIDE DEF f, c
<1>8. CASE L = 0
  <2>1. f[1] = EmptyHeap
    <3>1. f[1] = MergedAt(f, c, 1)
      BY <1>5, <1>8 DEF IsMerged
    <3> QED
      BY <3>1, <1>8 DEF MergedAt
  <2>2. Heap(EmptyHeap, ids, cmd.sort, w)
    BY <1>1, Zenon DEF Heap
  <2>3. \A k : k \notin 1 .. L
    BY <1>8
  <2> QED
    BY <2>1, <2>2, <2>3, <1>6, <1>7, Zenon
<1>9. CASE L # 0
  <2>1. 1 \in 1 .. L /\ 1 - 1 = 0
    BY <1>3, <1>9
  <2>2. PICK t : f[1] = <<t>> /\ Gathers(c, p, 1, ids, cmd.sort, t)
    BY <2>1, <1>3, <1>4, <1>5, MergedGathers
  <2>3. Tree(t, ids, cmd.sort, p[L])
    <3>1. Tree(t, ids, cmd.sort, p[L] - p[1 - 1]) /\ p[L] \in Nat
      BY <2>2, <1>3 DEF Gathers
    <3>2. p[L] - p[1 - 1] = p[L]
      BY <3>1, <2>1, <1>3
    <3> QED
      BY <3>1, <3>2, Zenon
  <2>4. Tree(t, ids, cmd.sort, w)
    <3>1. p[L] <= w
      BY <1>1, <1>3
    <3> QED
      BY <3>1, <2>3, <1>1, TreeGrows, Zenon
  <2>5. \A k \in 1 .. L : \A u : HasValue(c[k], u) => HasValue(t, u)
    BY <2>2, Zenon DEF Gathers
  <2>6. Heap(<<t>>, ids, cmd.sort, w)
    BY <2>4, <1>1, HeapOfOne, Zenon
  <2>7. \A u : HasValue(t, u) => InHeap(<<t>>, u)
    BY HeapOfOne, Zenon
  <2>8. Popped(heap) = <<t>>
    BY <2>2, <1>6, Zenon
  <2>9. \A u : InHeap(heap, u) /\ u # TopOf(heap) => InHeap(<<t>>, u)
    BY <2>5, <2>7, <1>7, Zenon
  <2> QED
    BY <2>6, <2>8, <2>9, Zenon
<1> QED
  BY <1>8, <1>9, Zenon

-----------------------------------------------------------------------------
(* The k-th node on a way down.                                            *)
LEMMA WayDown ==
  ASSUME NEW ids, NEW sort, NEW tree, NEW w, Tree(tree, ids, sort, w),
         NEW v, NEW n, NEW path, Way(tree, v, n, path), NEW k \in 0 .. n
  PROVE  \E u : /\ Tree(path[k], ids, sort, u) /\ u \in Nat /\ 1 <= u /\ u + k <= w
                /\ ~ Under(sort, tree.value, path[k].value)
<1> DEFINE Fits(x, j, u) == /\ Tree(x, ids, sort, u) /\ u \in Nat /\ 1 <= u /\ u + j <= w
                            /\ ~ Under(sort, tree.value, x.value)
           Good(j) == \E u : Fits(path[j], j, u)
           Bad == {j \in Nat : j <= n /\ ~ Good(j)}
<1>0. n \in Nat /\ path[0] = tree
  BY DEF Way
<1>1. ASSUME NEW t, NEW u, Tree(t, ids, sort, u)
      PROVE  u \in Nat /\ 1 <= u /\ IsPair(ids, t.value)
  <2>1. IsPair(ids, t.value) /\ \E p : Weights(t.children, p, u)
    BY <1>1, TreeUnfold, Zenon
  <2> QED
    BY <2>1 DEF Weights
<1>2. Good(0)
  <2>1. ~ Under(sort, tree.value, tree.value)
    BY <1>1, UnderOrder, Zenon
  <2>2. w \in Nat /\ 1 <= w /\ w + 0 <= w
    BY <1>1
  <2> QED
    BY <2>1, <2>2, <1>0
<1>3. ASSUME NEW j \in Bad, \A y \in Bad : j <= y
      PROVE  FALSE
  <2>1. j \in Nat /\ j <= n /\ ~ Good(j) /\ j # 0
    BY <1>2
  <2>2. j - 1 \in Nat /\ j - 1 <= n /\ ~ (j <= j - 1) /\ j - 1 \in 0 .. n - 1 /\ (j - 1) + 1 = j
    BY <2>1, <1>0
  <2> HIDE DEF Good, Fits
  <2>3. Good(j - 1)
    BY <1>3, <2>2
  <2>4. PICK u : Fits(path[j - 1], j - 1, u)
    BY <2>3 DEF Good
  <2> DEFINE x == path[j - 1]
  <2>5. PICK i \in 1 .. Len(x.children) : path[j] = x.children[i]
    <3>1. \E i \in 1 .. Len(path[j - 1].children) : path[(j - 1) + 1] = path[j - 1].children[i]
      BY <2>2, Zenon DEF Way
    <3> QED
      BY <3>1, <2>2
  <2>6. /\ Tree(x, ids, sort, u) /\ u + (j - 1) <= w /\ ~ Under(sort, tree.value, x.value)
    BY <2>4 DEF Fits
  <2> HIDE DEF x
  <2>7. PICK p : Weights(x.children, p, u) /\ Branches(x, p, ids, sort)
    BY <2>6, TreeUnfold, Zenon
  <2> DEFINE m == p[i] - p[i - 1]
  <2>8. Tree(path[j], ids, sort, m) /\ ~ Under(sort, x.value, path[j].value)
    BY <2>5, <2>7, Zenon DEF Branches, Subtree
  <2>9. m \in Nat /\ 1 <= m /\ IsPair(ids, path[j].value) /\ IsPair(ids, x.value) /\ IsPair(ids, tree.value)
    BY <2>6, <2>8, <1>1, Zenon
  <2>10. ~ Under(sort, tree.value, path[j].value)
    BY <2>6, <2>8, <2>9, UnderOrder, Zenon
  <2>11. m + 1 <= u
    <3>1. /\ Len(x.children) \in Nat /\ p[i] \in Nat /\ p[i - 1] \in Nat
          /\ p[Len(x.children)] + 1 <= u /\ p[Len(x.children)] \in Nat
      BY <2>5, <2>7 DEF Weights
    <3>2. p[i] <= p[Len(x.children)]
      <4> DEFINE c == x.children
                 L == Len(c)
                 Low == {h \in Nat : h <= L - i /\ ~ (p[i] <= p[i + h])}
      <4>1. ASSUME NEW h \in Low, \A y \in Low : h <= y
            PROVE  FALSE
        <5>1. h \in Nat /\ h <= L - i /\ h # 0 /\ ~ (p[i] <= p[i + h])
          BY <3>1
        <5>2. h - 1 \in Nat /\ h - 1 <= L - i /\ ~ (h <= h - 1) /\ i + (h - 1) \in 1 .. L /\ i + h \in 1 .. L
              /\ (i + h) - 1 = i + (h - 1)
          BY <5>1, <3>1
        <5>3. p[i] <= p[i + (h - 1)]
          BY <5>1, <5>2, <4>1
        <5>4. Tree(c[i + h], ids, sort, p[i + h] - p[(i + h) - 1])
          BY <5>2, <2>7, Zenon DEF Branches, Subtree
        <5>5. 1 <= p[i + h] - p[i + (h - 1)]
          BY <5>2, <5>4, <1>1
        <5>6. p[i + h] \in Nat /\ p[i + (h - 1)] \in Nat
          BY <5>2, <2>7 DEF Weights
        <5> QED
          BY <5>1, <5>3, <5>5, <5>6, <3>1
      <4>2. Low = {}
        <5>1. Low \in SUBSET Nat
          OBVIOUS
        <5> HIDE DEF Low
        <5> QED
          BY <4>1, <5>1, LeastOf, Zenon
      <4>3. L - i \in Nat /\ L - i <= L - i /\ i + (L - i) = L
        BY <3>1, <2>5
      <4>4. p[i] <= p[i + (L - i)]
        BY <4>2, <4>3, Zenon
      <4> QED
        BY <4>3, <4>4
    <3>3. u \in Nat
      BY <2>6, <1>1
    <3> QED
      BY <3>1, <3>2, <3>3
  <2>12. m + j <= w
    <3>1. u \in Nat /\ w \in Nat
      BY <2>6, <1>1
    <3> QED
      BY <3>1, <2>1, <2>6, <2>9, <2>11
  <2>13. Fits(path[j], j, m)
    BY <2>8, <2>9, <2>10, <2>12, Zenon DEF Fits
  <2> QED
    BY <2>1, <2>13, Zenon DEF Good
<1>4. Bad = {}
  <2>1. Bad \in SUBSET Nat
    OBVIOUS
  <2> HIDE DEF Bad
  <2> QED
    BY <1>3, <2>1, LeastOf, Zenon
<1>5. k \in Nat /\ k <= n
  BY <1>0
<1>6. Good(k)
  BY <1>4, <1>5, Zenon
<1> QED
  BY <1>6, Zenon

(* No value in a heap ranks above the one at the root.                     *)
LEMMA TopIsBest ==
  ASSUME NEW ids, NEW sort, NEW heap, NEW w, Heap(heap, ids, sort, w), heap # EmptyHeap
  PROVE  /\ InHeap(heap, TopOf(heap))
         /\ \A v : InHeap(heap, v) => IsPair(ids, v) /\ ~ Under(sort, TopOf(heap), v)
<1>1. Tree(heap[1], ids, sort, w)
  BY Zenon DEF Heap
<1>2. InHeap(heap, TopOf(heap))
  BY HasRoot, Zenon DEF InHeap, TopOf
<1>3. ASSUME NEW v, InHeap(heap, v)
      PROVE  IsPair(ids, v) /\ ~ Under(sort, TopOf(heap), v)
  <2>1. PICK n, path : Way(heap[1], v, n, path)
    BY <1>3, Zenon DEF InHeap, HasValue
  <2>2. n \in 0 .. n /\ path[n].value = v
    BY <2>1 DEF Way
  <2>3. PICK u : Tree(path[n], ids, sort, u) /\ ~ Under(sort, heap[1].value, path[n].value)
    BY <1>1, <2>1, <2>2, WayDown, Zenon
  <2>4. IsPair(ids, path[n].value)
    BY <2>3, TreeUnfold, Zenon
  <2> QED
    BY <2>2, <2>3, <2>4, Zenon DEF TopOf
<1> QED
  BY <1>2, <1>3, Zenon

(* The empty heap.                                                         *)
LEMMA EmptyHeapIs ==
  /\ \A ids, sort, w : w \in Nat => Heap(EmptyHeap, ids, sort, w)
  /\ \A v : ~ InHeap(EmptyHeap, v)
BY Zenon DEF Heap, InHeap

(* The heap while the values are pushed.                                   *)
IsPushing(f, heap, values, L) ==
  f = [n \in 0 .. L |-> IF n = 0 THEN heap ELSE Pushed(f[n - 1], values[n])]

(* The function that pushes values one by one exists.                      *)
LEMMA PushingExists ==
  ASSUME NEW heap, NEW values, NEW L \in Nat
  PROVE  \E f : IsPushing(f, heap, values, L)
<1> DEFINE Missing == {n \in Nat : ~ \E f : IsPushing(f, heap, values, n)}
<1>1. ASSUME NEW m \in Missing, \A y \in Missing : m <= y
      PROVE  FALSE
  <2>1. m # 0
    <3> DEFINE g == [n \in 0 .. 0 |-> heap]
    <3>1. IsPushing(g, heap, values, 0)
      BY DEF IsPushing
    <3> QED
      BY <3>1, Zenon
  <2>2. m \in Nat /\ m - 1 \in Nat /\ ~ (m <= m - 1)
    BY <2>1
  <2>3. PICK f : IsPushing(f, heap, values, m - 1)
    BY <1>1, <2>2, Zenon
  <2> DEFINE g == [n \in 0 .. m |-> IF n = m THEN Pushed(f[m - 1], values[m]) ELSE f[n]]
  <2>4. \A n \in 0 .. m - 1 : f[n] = IF n = 0 THEN heap ELSE Pushed(f[n - 1], values[n])
    BY <2>3, Zenon DEF IsPushing
  <2>5. /\ g[m] = Pushed(f[m - 1], values[m])
        /\ \A n \in 0 .. m - 1 : g[n] = f[n]
        /\ \A n \in 0 .. m : n = m \/ n \in 0 .. m - 1
        /\ \A n \in 0 .. m : n # 0 => n - 1 \in 0 .. m - 1
    BY <2>2
  <2>6. g = [n \in 0 .. m |-> g[n]]
    OBVIOUS
  <2> HIDE DEF g
  <2>7. \A n \in 0 .. m : g[n] = IF n = 0 THEN heap ELSE Pushed(g[n - 1], values[n])
    BY <2>1, <2>4, <2>5
  <2>8. IsPushing(g, heap, values, m)
    BY <2>6, <2>7 DEF IsPushing
  <2> QED
    BY <2>8, Zenon
<1>2. Missing = {}
  <2>1. Missing \in SUBSET Nat
    OBVIOUS
  <2> HIDE DEF Missing
  <2> QED
    BY <1>1, <2>1, LeastOf, Zenon
<1> QED
  BY <1>2, Zenon

(* It is what PushedAll uses.                                              *)
LEMMA PushedAllIs ==
  ASSUME NEW heap, NEW values
  PROVE  PushedAll(heap, values)
         = (CHOOSE f : IsPushing(f, heap, values, Len(values)))[Len(values)]
BY DEF PushedAll, IsPushing

(* All that is pushed is in the heap, with all that was.                   *)
LEMMA PushedAllHeap ==
  ASSUME NEW ids, NEW heap, NEW w, Heap(heap, ids, cmd.sort, w),
         NEW values, Len(values) \in Nat, \A n \in 1 .. Len(values) : IsPair(ids, values[n])
  PROVE  /\ Heap(PushedAll(heap, values), ids, cmd.sort, w + Len(values))
         /\ \A n \in 1 .. Len(values) : InHeap(PushedAll(heap, values), values[n])
         /\ \A u : InHeap(heap, u) => InHeap(PushedAll(heap, values), u)
<1> DEFINE L == Len(values)
           f == CHOOSE f : IsPushing(f, heap, values, L)
           Good(n) == /\ Heap(f[n], ids, cmd.sort, w + n)
                      /\ \A i \in 1 .. n : InHeap(f[n], values[i])
                      /\ \A u : InHeap(heap, u) => InHeap(f[n], u)
           Bad == {n \in Nat : n <= L /\ ~ Good(n)}
<1>1. IsPushing(f, heap, values, L)
  BY PushingExists, Zenon
<1>2. PushedAll(heap, values) = f[L]
  BY PushedAllIs, Zenon
<1> HIDE DEF f
<1>3. \A n \in 0 .. L : f[n] = IF n = 0 THEN heap ELSE Pushed(f[n - 1], values[n])
  BY <1>1, Zenon DEF IsPushing
<1>4. w \in Nat
  BY DEF Heap
<1>5. ASSUME NEW m \in Bad, \A y \in Bad : m <= y
      PROVE  FALSE
  <2>1. m # 0
    <3>1. f[0] = heap /\ w + 0 = w /\ \A i : i \notin 1 .. 0
      BY <1>3, <1>4
    <3>2. Good(0)
      BY <3>1, Zenon
    <3> QED
      BY <3>2, Zenon
  <2>2. /\ m \in Nat /\ m <= L /\ m - 1 \in Nat /\ m - 1 <= L /\ ~ (m <= m - 1)
        /\ m \in 0 .. L /\ m \in 1 .. L /\ (w + (m - 1)) + 1 = w + m
        /\ \A i \in 1 .. m : i = m \/ i \in 1 .. m - 1
    BY <2>1, <1>4
  <2>3. Good(m - 1)
    BY <2>2, <1>5, Zenon
  <2>4. f[m] = Pushed(f[m - 1], values[m])
    BY <2>1, <2>2, <1>3, Zenon
  <2>5. IsPair(ids, values[m])
    BY <2>2
  <2> DEFINE h == f[m - 1]
  <2>6. Heap(h, ids, cmd.sort, w + (m - 1)) 
    BY <2>3, Zenon
  <2> HIDE DEF h
  <2>7. /\ Heap(Pushed(h, values[m]), ids, cmd.sort, (w + (m - 1)) + 1)
        /\ InHeap(Pushed(h, values[m]), values[m])
        /\ \A u : InHeap(h, u) => InHeap(Pushed(h, values[m]), u)
    BY <2>5, <2>6, PushedHeap, Zenon
  <2>8. Good(m)
    BY <2>2, <2>3, <2>4, <2>7, Zenon DEF h
  <2> QED
    BY <2>8, Zenon
<1>6. Bad = {}
  <2>1. Bad \in SUBSET Nat
    OBVIOUS
  <2> HIDE DEF Bad
  <2> QED
    BY <1>5, <2>1, LeastOf, Zenon
<1>7. L <= L
  OBVIOUS
<1>8. Good(L)
  BY <1>6, <1>7, Zenon
<1> QED
  BY <1>2, <1>8, Zenon

-----------------------------------------------------------------------------
(* The values of a heap, level by level.                                   *)

IsLevels(f, heap, depth) ==
  f = [n \in 0 .. depth |->
         IF n = 0 THEN Members(heap)
         ELSE UNION {Members(node.children) : node \in f[n - 1]}]

(* The function that gathers the levels of a heap exists.                  *)
LEMMA LevelsExist ==
  ASSUME NEW heap, NEW depth \in Nat
  PROVE  \E f : IsLevels(f, heap, depth)
<1> DEFINE Below(T) == UNION {Members(node.children) : node \in T}
           Missing == {n \in Nat : ~ \E f : IsLevels(f, heap, n)}
<1>1. ASSUME NEW m \in Missing, \A y \in Missing : m <= y
      PROVE  FALSE
  <2>1. m # 0
    <3> DEFINE g == [n \in 0 .. 0 |-> Members(heap)]
    <3>1. IsLevels(g, heap, 0)
      BY DEF IsLevels
    <3> QED
      BY <3>1, Zenon
  <2>2. m \in Nat /\ m - 1 \in Nat /\ ~ (m <= m - 1)
    BY <2>1
  <2>3. PICK f : IsLevels(f, heap, m - 1)
    BY <1>1, <2>2, Zenon
  <2> DEFINE g == [n \in 0 .. m |-> IF n = m THEN Below(f[m - 1]) ELSE f[n]]
  <2>4. \A n \in 0 .. m - 1 : f[n] = IF n = 0 THEN Members(heap) ELSE Below(f[n - 1])
    BY <2>3, Zenon DEF IsLevels
  <2> HIDE DEF Below
  <2>5. /\ g[m] = Below(f[m - 1])
        /\ \A n \in 0 .. m - 1 : g[n] = f[n]
        /\ \A n \in 0 .. m : n = m \/ n \in 0 .. m - 1
        /\ \A n \in 0 .. m : n # 0 => n - 1 \in 0 .. m - 1
    BY <2>2
  <2>6. g = [n \in 0 .. m |-> g[n]]
    OBVIOUS
  <2> HIDE DEF g
  <2>7. \A n \in 0 .. m : g[n] = IF n = 0 THEN Members(heap) ELSE Below(g[n - 1])
    BY <2>1, <2>4, <2>5
  <2>9. g = [n \in 0 .. m |-> IF n = 0 THEN Members(heap) ELSE Below(g[n - 1])]
    BY <2>6, <2>7
  <2>8. IsLevels(g, heap, m)
    BY <2>9, Zenon DEF IsLevels, Below
  <2> QED
    BY <2>8, Zenon
<1>2. Missing = {}
  <2>1. Missing \in SUBSET Nat
    OBVIOUS
  <2> HIDE DEF Missing
  <2> QED
    BY <1>1, <2>1, LeastOf, Zenon
<1> QED
  BY <1>2, Zenon

TheLevels(heap, depth) == CHOOSE f : IsLevels(f, heap, depth)

(* It is what ValuesIn uses.                                               *)
LEMMA ValuesInIs ==
  ASSUME NEW heap, NEW depth
  PROVE  ValuesIn(heap, depth)
         = {node.value : node \in UNION {TheLevels(heap, depth)[n] : n \in 0 .. depth}}
BY DEF ValuesIn, TheLevels, IsLevels

(* The first level is the root, the next ones are the children of the one  *)
(* before.                                                                 *)
LEMMA LevelsAre ==
  ASSUME NEW heap, NEW depth \in Nat
  PROVE  LET level == TheLevels(heap, depth)
         IN  /\ level[0] = Members(heap)
             /\ \A n \in 0 .. depth : n # 0 =>
                  level[n] = UNION {Members(node.children) : node \in level[n - 1]}
<1>1. IsLevels(TheLevels(heap, depth), heap, depth)
  BY LevelsExist, Zenon DEF TheLevels
<1>2. 0 \in 0 .. depth
  OBVIOUS
<1>3. \A n \in 0 .. depth : TheLevels(heap, depth)[n] =
        IF n = 0 THEN Members(heap)
        ELSE UNION {Members(node.children) : node \in TheLevels(heap, depth)[n - 1]}
  BY <1>1, Zenon DEF IsLevels
<1> QED
  BY <1>2, <1>3, Zenon

(* The children of a tree are trees of fewer nodes.                        *)
LEMMA TreeChildren ==
  ASSUME NEW tree, NEW ids, NEW sort, NEW w, Tree(tree, ids, sort, w)
  PROVE  /\ DOMAIN tree.children = 1 .. Len(tree.children)
         /\ \A k \in 1 .. Len(tree.children) : \E u : Tree(tree.children[k], ids, sort, u)
<1>1. PICK p : Weights(tree.children, p, w) /\ Branches(tree, p, ids, sort)
  BY TreeUnfold, Zenon
<1>2. DOMAIN tree.children = 1 .. Len(tree.children)
  BY <1>1 DEF Weights
<1>3. \A k \in 1 .. Len(tree.children) : \E u : Tree(tree.children[k], ids, sort, u)
  BY <1>1, Zenon DEF Branches, Subtree
<1> QED
  BY <1>2, <1>3

(* The root of a heap is its only member.                                  *)
LEMMA HeapMembers ==
  ASSUME NEW heap, NEW ids, NEW sort, NEW w, Heap(heap, ids, sort, w)
  PROVE  \A node : node \in Members(heap) <=> heap # EmptyHeap /\ node = heap[1]
<1>1. CASE heap = EmptyHeap
  BY <1>1 DEF EmptyHeap, Members
<1>2. CASE heap # EmptyHeap
  <2>1. heap = <<heap[1]>>
    BY <1>2, Zenon DEF Heap
  <2>2. \A x : DOMAIN <<x>> = {1} /\ <<x>>[1] = x
    OBVIOUS
  <2>3. DOMAIN heap = {1}
    BY <2>1, <2>2, Zenon
  <2> QED
    BY <2>3, <1>2 DEF Members
<1> QED
  BY <1>1, <1>2, Zenon

(* A heap with no more nodes than the depth has the values that ValuesIn   *)
(* finds.                                                                  *)
LEMMA ValuesAre ==
  ASSUME NEW heap, NEW ids, NEW sort, NEW w, Heap(heap, ids, sort, w),
         NEW depth \in Nat, w <= depth + 1
  PROVE  \A v : v \in ValuesIn(heap, depth) <=> InHeap(heap, v)
<1> DEFINE level == TheLevels(heap, depth)
<1>1. /\ level[0] = Members(heap)
      /\ \A n \in 0 .. depth : n # 0 =>
           level[n] = UNION {Members(node.children) : node \in level[n - 1]}
  BY LevelsAre, Zenon
<1>2. \A v : v \in ValuesIn(heap, depth) <=> \E n \in 0 .. depth : \E node \in level[n] : node.value = v
  <2>1. ValuesIn(heap, depth) = {node.value : node \in UNION {level[n] : n \in 0 .. depth}}
    BY ValuesInIs, Zenon
  <2> HIDE DEF level
  <2> QED
    BY <2>1
<1> HIDE DEF level
<1>3. w \in Nat
  BY DEF Heap
<1>4. heap # EmptyHeap => Tree(heap[1], ids, sort, w)
  BY Zenon DEF Heap
<1>5. ASSUME NEW n \in 0 .. depth, NEW node \in level[n]
      PROVE  InHeap(heap, node.value)
  <2> DEFINE Sound(x) == /\ \E u : Tree(x, ids, sort, u)
                         /\ \A v : HasValue(x, v) => InHeap(heap, v)
             Bad == {k \in Nat : k <= depth /\ ~ \A x \in level[k] : Sound(x)}
  <2>1. ASSUME NEW m \in Bad, \A y \in Bad : m <= y
        PROVE  FALSE
    <3>1. m # 0
      <4>1. ASSUME NEW x \in level[0] PROVE Sound(x)
        <5>1. heap # EmptyHeap /\ x = heap[1]
          BY <4>1, <1>1, HeapMembers, Zenon
        <5> QED
          BY <5>1, <1>4, Zenon DEF InHeap
      <4> QED
        BY <4>1, Zenon
    <3>2. m \in Nat /\ m <= depth /\ m - 1 \in Nat /\ m - 1 <= depth /\ ~ (m <= m - 1) /\ m \in 0 .. depth
      BY <3>1
    <3>3. \A x \in level[m - 1] : Sound(x)
      BY <3>2, <2>1, Zenon
    <3> HIDE DEF Sound
    <3>4. ASSUME NEW x \in level[m] PROVE Sound(x)
      <4>1. level[m] = UNION {Members(y.children) : y \in level[m - 1]}
        BY <3>1, <3>2, <1>1, Zenon
      <4>2. PICK y \in level[m - 1] : x \in Members(y.children)
        BY <4>1
      <4>3. PICK u : Tree(y, ids, sort, u)
        BY <3>3, Zenon DEF Sound
      <4>4. PICK k \in 1 .. Len(y.children) : x = y.children[k]
        BY <4>2, <4>3, TreeChildren, Zenon DEF Members
      <4>5. \E z : Tree(x, ids, sort, z)
        BY <4>3, <4>4, TreeChildren, Zenon
      <4>6. \A v : HasValue(x, v) => HasValue(y, v)
        BY <4>4, HasChild, Zenon
      <4> QED
        BY <4>5, <4>6, <3>3, Zenon DEF Sound
    <3> QED
      BY <3>4, Zenon
  <2>2. Bad = {}
    <3>1. Bad \in SUBSET Nat
      OBVIOUS
    <3> HIDE DEF Bad
    <3> QED
      BY <2>1, <3>1, LeastOf, Zenon
  <2>3. n \in Nat /\ n <= depth
    OBVIOUS
  <2>4. Sound(node)
    BY <2>2, <2>3, Zenon
  <2> QED
    BY <2>4, HasRoot, Zenon
<1>6. ASSUME NEW v, InHeap(heap, v)
      PROVE  \E n \in 0 .. depth : \E node \in level[n] : node.value = v
  <2>1. heap # EmptyHeap /\ HasValue(heap[1], v)
    BY <1>6 DEF InHeap
  <2>2. PICK n, path : Way(heap[1], v, n, path)
    BY <2>1 DEF HasValue
  <2>3. n \in Nat /\ path[0] = heap[1] /\ path[n].value = v
    BY <2>2 DEF Way
  <2>4. \A k \in 0 .. n : \E u : Tree(path[k], ids, sort, u) /\ u \in Nat /\ 1 <= u /\ u + k <= w
    BY <1>4, <2>1, <2>2, WayDown, Zenon
  <2>5. n \in 0 .. depth
    <3>1. \E u \in Nat : 1 <= u /\ u + n <= w
      BY <2>3, <2>4
    <3> QED
      BY <3>1, <2>3, <1>3
  <2> DEFINE Bad == {k \in Nat : k <= n /\ path[k] \notin level[k]}
  <2>6. ASSUME NEW m \in Bad, \A y \in Bad : m <= y
        PROVE  FALSE
    <3>1. path[0] \in level[0]
      BY <2>1, <2>3, <1>1, HeapMembers, Zenon
    <3>2. /\ m \in Nat /\ m # 0 /\ m - 1 \in Nat /\ m - 1 <= n /\ ~ (m <= m - 1) /\ m \in 0 .. depth
          /\ m - 1 \in 0 .. n - 1 /\ m - 1 \in 0 .. n /\ (m - 1) + 1 = m
      BY <3>1, <2>5, <2>3
    <3>3. path[m - 1] \in level[m - 1]
      BY <3>2, <2>6, Zenon
    <3>4. PICK i \in 1 .. Len(path[m - 1].children) : path[m] = path[m - 1].children[i]
      <4>1. \E i \in 1 .. Len(path[m - 1].children) : path[(m - 1) + 1] = path[m - 1].children[i]
        BY <3>2, <2>2, Zenon DEF Way
      <4> QED
        BY <4>1, <3>2
    <3>5. DOMAIN path[m - 1].children = 1 .. Len(path[m - 1].children)
      BY <3>2, <2>4, TreeChildren, Zenon
    <3>6. path[m] \in Members(path[m - 1].children)
      BY <3>4, <3>5, Zenon DEF Members
    <3>7. path[m] \in UNION {Members(y.children) : y \in level[m - 1]}
      BY <3>3, <3>6
    <3>8. path[m] \in level[m]
      BY <3>2, <3>7, <1>1, Zenon
    <3> QED
      BY <3>8
  <2>7. Bad = {}
    <3>1. Bad \in SUBSET Nat
      OBVIOUS
    <3> HIDE DEF Bad
    <3> QED
      BY <2>6, <3>1, LeastOf, Zenon
  <2>8. path[n] \in level[n]
    BY <2>3, <2>7
  <2> QED
    BY <2>3, <2>5, <2>8, Zenon
<1> QED
  BY <1>2, <1>5, <1>6, Zenon

-----------------------------------------------------------------------------
(* Instants and dates.                                                     *)

(* The days of an instant, rounded down.                                   *)
LEMMA Overflow ==
  ASSUME NEW x \in Int
  PROVE  /\ DaysOverflow(x) \in Int
         /\ DaysOverflow(x) * kDay <= x /\ x < DaysOverflow(x) * kDay + kDay
         /\ DaysOverflow(x) >= 0 <=> x >= 0
         /\ DaysOverflow(x) = 0 <=> x >= 0 /\ x < kDay
<1>1. PICK d : d = DhmFromMinutes(x).days
  OBVIOUS
<1>2. PICK h : h = DhmFromMinutes(x).hours
  OBVIOUS
<1>3. PICK m : m = DhmFromMinutes(x).minutes
  OBVIOUS
<1>4. d \in Int /\ h \in 0 .. 23 /\ m \in 0 .. 59 /\ x = d * 1440 + h * 60 + m
  BY <1>1, <1>2, <1>3, ClockExact, Constants
<1>5. DaysOverflow(x) = d
  BY <1>1 DEF DaysOverflow
<1>6. d * 1440 <= x /\ x < d * 1440 + 1440
  BY <1>4
<1> QED
  BY <1>4, <1>5, <1>6, Constants

(* The days of an instant that is moved by days.                           *)
LEMMA SameDay ==
  ASSUME NEW x \in Int, NEW k \in Int
  PROVE  x + k * kDay >= 0 <=> DaysOverflow(x) + k >= 0
<1>1. PICK d \in Int : d = DaysOverflow(x)
  BY Overflow
<1>2. d * 1440 <= x /\ x < d * 1440 + 1440
  BY <1>1, Overflow, Constants
<1>3. x + k * 1440 >= 0 <=> d + k >= 0
  BY <1>2
<1> QED
  BY <1>1, <1>3, Constants

(* The time of day is what is left of an instant without its days.         *)
LEMMA TimeOfDay ==
  ASSUME NEW x \in Nat
  PROVE  WithoutOverflow(x) = x - DaysOverflow(x) * kDay
<1>0. PICK d \in Int : d = DaysOverflow(x)
  BY Overflow
<1>1. d * 1440 <= x /\ x < d * 1440 + 1440
  BY <1>0, Overflow, Constants
<1>2. /\ Quotient(x, 1440) \in Nat /\ Remainder(x, 1440) \in Nat /\ Remainder(x, 1440) < 1440
      /\ x = 1440 * Quotient(x, 1440) + Remainder(x, 1440)
  BY DivideNat
<1>3. PICK q \in Nat : q = Quotient(x, 1440)
  BY <1>2
<1>4. PICK r \in Nat : r = Remainder(x, 1440)
  BY <1>2
<1>5. d = q
  <2>1. r < 1440 /\ x = 1440 * q + r
    BY <1>2, <1>3, <1>4
  <2> QED
    BY <1>1, <2>1
<1>6. WithoutOverflow(x) = r
  BY <1>4, Constants DEF WithoutOverflow
<1> QED
  BY <1>0, <1>2, <1>3, <1>4, <1>5, <1>6, Constants

-----------------------------------------------------------------------------
(* Trains                                                                  *)

Edge(train) == 1 .. Len(train.stops) - 1

IsTrain(train) ==
  /\ train.stops \in Seq(ToSet(train.stops))
  /\ IsInjective(train.stops)
  /\ train.departs \in [Edge(train) -> Nat]
  /\ train.arrives \in [Edge(train) -> Nat]
  /\ train.prices \in [Edge(train) -> Nat]
  /\ \A e \in Edge(train) :
       /\ train.departs[e] <= train.arrives[e]
       /\ e + 1 \in Edge(train) => train.arrives[e] <= train.departs[e + 1]
  /\ train.begin \in Int /\ train.end \in Int /\ train.begin <= train.end

(* What the assumption on the timetables says of the trains.               *)
LEMMA TrainsAre ==
  ASSUME trains \in Timetables
  PROVE  /\ Len(trains) \in Nat /\ DOMAIN trains = 1 .. Len(trains)
         /\ \A id \in DOMAIN trains : IsTrain(trains[id])
<1>1. trains \in Seq(ToSet(trains))
  BY TimetablesAssumption, Zenon
<1>2. Len(trains) \in Nat /\ DOMAIN trains = 1 .. Len(trains)
  BY <1>1
<1>3. \A id \in DOMAIN trains : IsTrain(trains[id])
  BY TimetablesAssumption, Zenon DEF IsTrain, Edge
<1> QED
  BY <1>2, <1>3

(* The stops of a train are a sequence.                                    *)
LEMMA StopsAre ==
  ASSUME NEW train, IsTrain(train)
  PROVE  /\ Len(train.stops) \in Nat /\ DOMAIN train.stops = 1 .. Len(train.stops)
         /\ \A i, j \in 1 .. Len(train.stops) : train.stops[i] = train.stops[j] => i = j
<1>1. Len(train.stops) \in Nat /\ DOMAIN train.stops = 1 .. Len(train.stops)
  <2>1. train.stops \in Seq(ToSet(train.stops))
    BY Zenon DEF IsTrain
  <2> QED
    BY <2>1
<1>2. IsInjective(train.stops)
  BY Zenon DEF IsTrain
<1> QED
  BY <1>1, <1>2 DEF IsInjective

(* indexOfStop finds an index of the stop, or 0.                           *)
LEMMA IndexOf ==
  ASSUME NEW train, IsTrain(train), NEW station
  PROVE  /\ IndexOfStop(train, station) \in 0 .. Len(train.stops)
         /\ IndexOfStop(train, station) # 0 => train.stops[IndexOfStop(train, station)] = station
         /\ \A j \in 1 .. Len(train.stops) :
              train.stops[j] = station => IndexOfStop(train, station) = j
<1> DEFINE I == {i \in 1 .. Len(train.stops) : train.stops[i] = station}
           ix == IndexOfStop(train, station)
<1>1. ix = IF I # {} THEN Min(I) ELSE 0
  BY DEF IndexOfStop, SelectInSeq
<1>2. /\ Len(train.stops) \in Nat
      /\ \A i, j \in 1 .. Len(train.stops) : train.stops[i] = train.stops[j] => i = j
  BY StopsAre
<1> HIDE DEF ix
<1>3. ASSUME NEW j \in I PROVE ix = j
  <2>1. \A i \in I : i = j
    BY <1>2
  <2>2. I # {} /\ j <= j
    BY <1>2
  <2>3. Min(I) = j
    <3>1. \E x \in I : \A y \in I : x =< y
      BY <2>1, <2>2
    <3>2. Min(I) \in I
      BY <3>1, Zenon DEF Min
    <3> QED
      BY <2>1, <3>2
  <2> QED
    BY <1>1, <2>2, <2>3
<1>4. CASE I = {}
  <2>1. ix = 0
    BY <1>1, <1>4
  <2>2. 0 \in 0 .. Len(train.stops)
    BY <1>2
  <2> QED
    BY <2>1, <2>2, <1>4 DEF ix
<1>5. CASE I # {}
  <2>1. PICK j : j \in I
    BY <1>5
  <2>2. ix = j
    BY <1>3, <2>1
  <2>3. j \in 1 .. Len(train.stops) /\ train.stops[j] = station /\ j \in 0 .. Len(train.stops)
    BY <2>1, <1>2
  <2> QED
    BY <2>2, <2>3, <1>2 DEF ix
<1> QED
  BY <1>4, <1>5

(* A train is not earlier anywhere than at the stops before.               *)
LEMMA TimesAscend ==
  ASSUME NEW train, IsTrain(train), NEW i \in Edge(train), NEW e \in Edge(train), i <= e
  PROVE  train.departs[i] <= train.arrives[e]
<1>0. Len(train.stops) \in Nat
  BY StopsAre
<1>1. /\ \A x \in Edge(train) : /\ train.departs[x] \in Nat /\ train.arrives[x] \in Nat
                                /\ train.departs[x] <= train.arrives[x]
      /\ \A x \in Edge(train) : x + 1 \in Edge(train) => train.arrives[x] <= train.departs[x + 1]
  BY DEF IsTrain
<1> DEFINE Bad == {n \in Nat : i + n \in Edge(train) /\ ~ (train.departs[i] <= train.arrives[i + n])}
<1>2. ASSUME NEW n \in Bad, \A y \in Bad : n <= y
      PROVE  FALSE
  <2>1. n \in Nat /\ i + n \in Edge(train) /\ ~ (train.departs[i] <= train.arrives[i + n])
    OBVIOUS
  <2>2. n # 0
    BY <2>1, <1>1, <1>0 DEF Edge
  <2>3. n - 1 \in Nat /\ ~ (n <= n - 1) /\ i + (n - 1) \in Edge(train) /\ (i + (n - 1)) + 1 = i + n
    BY <2>1, <2>2, <1>0 DEF Edge
  <2>4. train.departs[i] <= train.arrives[i + (n - 1)]
    BY <2>3, <1>2
  <2>5. train.arrives[i + (n - 1)] <= train.departs[i + n]
    BY <2>1, <2>3, <1>1
  <2> QED
    BY <2>1, <2>3, <2>4, <2>5, <1>1
<1>3. Bad = {}
  <2>1. Bad \in SUBSET Nat
    OBVIOUS
  <2> HIDE DEF Bad
  <2> QED
    BY <1>2, <2>1, LeastOf, Zenon
<1>4. e - i \in Nat /\ i + (e - i) = e
  BY <1>0 DEF Edge
<1>5. train.departs[i] <= train.arrives[i + (e - i)]
  BY <1>3, <1>4
<1> QED
  BY <1>4, <1>5

(* Prices                                                                  *)

IsPrice(f, train, ixFrom, ixTo) ==
  f = [j \in ixFrom .. ixTo |-> IF j = ixFrom THEN 0 ELSE f[j - 1] + train.prices[j - 1]]

(* The function with which a price is summed up exists.                    *)
LEMMA PriceExists ==
  ASSUME NEW train, NEW i \in Int, NEW n \in Nat
  PROVE  \E f : IsPrice(f, train, i, i + n)
<1> DEFINE Missing == {k \in Nat : ~ \E f : IsPrice(f, train, i, i + k)}
<1>1. ASSUME NEW m \in Missing, \A y \in Missing : m <= y
      PROVE  FALSE
  <2>1. m # 0
    <3> DEFINE g == [j \in i .. i |-> 0]
    <3>1. IsPrice(g, train, i, i)
      BY DEF IsPrice
    <3>2. i + 0 = i
      OBVIOUS
    <3> QED
      BY <3>1, <3>2, Zenon
  <2>2. m \in Nat /\ m - 1 \in Nat /\ ~ (m <= m - 1)
    BY <2>1
  <2>3. PICK f : IsPrice(f, train, i, i + (m - 1))
    BY <1>1, <2>2, Zenon
  <2> DEFINE g == [j \in i .. i + m |-> IF j = i + m THEN f[j - 1] + train.prices[j - 1] ELSE f[j]]
  <2>4. \A j \in i .. i + (m - 1) : f[j] = IF j = i THEN 0 ELSE f[j - 1] + train.prices[j - 1]
    BY <2>3, Zenon DEF IsPrice
  <2>5. /\ g[i + m] = f[(i + m) - 1] + train.prices[(i + m) - 1]
        /\ \A j \in i .. i + (m - 1) : g[j] = f[j]
        /\ \A j \in i .. i + m : j = i + m \/ j \in i .. i + (m - 1)
        /\ \A j \in i .. i + m : j # i => j - 1 \in i .. i + (m - 1)
        /\ i + m # i
    BY <2>2
  <2>6. g = [j \in i .. i + m |-> g[j]]
    OBVIOUS
  <2> HIDE DEF g
  <2>7. ASSUME NEW j \in i .. i + m
        PROVE  g[j] = IF j = i THEN 0 ELSE g[j - 1] + train.prices[j - 1]
    <3>1. j # i => g[j - 1] = f[j - 1]
      BY <2>5, Zenon
    <3>2. CASE j = i + m
      BY <3>1, <3>2, <2>5, Zenon
    <3>3. CASE j \in i .. i + (m - 1)
      BY <3>1, <3>3, <2>4, <2>5, Zenon
    <3> QED
      BY <3>2, <3>3, <2>5, Zenon
  <2>8. IsPrice(g, train, i, i + m)
    BY <2>6, <2>7 DEF IsPrice
  <2> QED
    BY <2>8, Zenon
<1>2. Missing = {}
  <2>1. Missing \in SUBSET Nat
    OBVIOUS
  <2> HIDE DEF Missing
  <2> QED
    BY <1>1, <2>1, LeastOf, Zenon
<1> QED
  BY <1>2, Zenon

(* It is what TotalPrice uses.                                             *)
LEMMA TotalPriceIs ==
  ASSUME NEW train, NEW i, NEW j
  PROVE  TotalPrice(train, i, j) = (CHOOSE f : IsPrice(f, train, i, j))[j]
BY DEF TotalPrice, IsPrice

(* A price is a natural number.                                            *)
LEMMA PriceIsNat ==
  ASSUME NEW train, IsTrain(train), NEW i \in 1 .. Len(train.stops), NEW j \in i .. Len(train.stops)
  PROVE  TotalPrice(train, i, j) \in Nat
<1> DEFINE f == CHOOSE f : IsPrice(f, train, i, j)
<1>0. Len(train.stops) \in Nat /\ \A e \in Edge(train) : train.prices[e] \in Nat
  BY StopsAre DEF IsTrain
<1>1. IsPrice(f, train, i, j)
  <2>1. j - i \in Nat /\ i + (j - i) = j /\ i \in Int
    BY <1>0
  <2>2. \E g : IsPrice(g, train, i, i + (j - i))
    BY <2>1, PriceExists
  <2> QED
    BY <2>1, <2>2, Zenon
<1>2. TotalPrice(train, i, j) = f[j]
  BY TotalPriceIs
<1> HIDE DEF f
<1>3. \A k \in i .. j : f[k] = IF k = i THEN 0 ELSE f[k - 1] + train.prices[k - 1]
  BY <1>1, Zenon DEF IsPrice
<1> DEFINE Bad == {n \in Nat : i + n <= j /\ f[i + n] \notin Nat}
<1>4. ASSUME NEW n \in Bad, \A y \in Bad : n <= y
      PROVE  FALSE
  <2>1. n # 0
    BY <1>3, <1>0
  <2>2. /\ n \in Nat /\ i + n <= j /\ n - 1 \in Nat /\ i + (n - 1) <= j /\ ~ (n <= n - 1)
        /\ i + n \in i .. j /\ (i + n) - 1 = i + (n - 1) /\ i + (n - 1) \in Edge(train) /\ i + n # i
    BY <2>1, <1>0 DEF Edge
  <2>3. f[i + (n - 1)] \in Nat
    BY <2>2, <1>4
  <2>4. f[i + n] = f[i + (n - 1)] + train.prices[i + (n - 1)]
    BY <2>2, <1>3
  <2> QED
    BY <2>2, <2>3, <2>4, <1>0
<1>5. Bad = {}
  <2>1. Bad \in SUBSET Nat
    OBVIOUS
  <2> HIDE DEF Bad
  <2> QED
    BY <1>4, <2>1, LeastOf, Zenon
<1>6. j - i \in Nat /\ i + (j - i) = j /\ i + (j - i) <= j
  BY <1>0
<1>7. f[j] \in Nat
  BY <1>5, <1>6
<1> QED
  BY <1>2, <1>7

(* A timetable and a query.                                                *)
Setting(T, Q) ==
  /\ Len(T) \in Nat /\ DOMAIN T = 1 .. Len(T)
  /\ \A id \in DOMAIN T : IsTrain(T[id])
  /\ Q.date \in Int /\ Q.from # Q.to /\ Q.sort \in {"time", "cost"}

(* Every timetable and query of the constants is one.                      *)
LEMMA SettingIs == trains \in Timetables /\ cmd \in Queries => Setting(trains, cmd)
BY TrainsAre, QueriesAssumption DEF Setting

(* What a timetable says of one of its trains.                             *)
LEMMA TrainIs ==
  ASSUME NEW T, NEW Q, Setting(T, Q), NEW id \in DOMAIN T
  PROVE  /\ id \in Int /\ IsTrain(T[id])
         /\ T[id].begin \in Int /\ T[id].end \in Int /\ T[id].begin <= T[id].end
<1>1. id \in Int /\ IsTrain(T[id])
  BY DEF Setting
<1> QED
  BY <1>1 DEF IsTrain

(* The train stops at a and, later, at b.                                  *)
Stops(train, a, b) ==
  0 < IndexOfStop(train, a) /\ IndexOfStop(train, a) < IndexOfStop(train, b)

DepartsOn(train, day, stop, date) == (date - day) * kDay + train.departs[IndexOfStop(train, stop)]
ArrivesOn(train, day, stop, date) == (date - day) * kDay + train.arrives[IndexOfStop(train, stop) - 1]
PriceOf(train, a, b) == TotalPrice(train, IndexOfStop(train, a), IndexOfStop(train, b))

(* The stops of a trip have times and are in order.                        *)
LEMMA StopsIs ==
  ASSUME NEW train, IsTrain(train), NEW a, NEW b, Stops(train, a, b)
  PROVE  /\ IndexOfStop(train, a) \in Edge(train)
         /\ IndexOfStop(train, b) - 1 \in Edge(train)
         /\ IndexOfStop(train, a) <= IndexOfStop(train, b) - 1
         /\ IndexOfStop(train, a) \in 1 .. Len(train.stops)
         /\ IndexOfStop(train, b) \in IndexOfStop(train, a) .. Len(train.stops)
<1>1. Len(train.stops) \in Nat
  BY StopsAre
<1>2. IndexOfStop(train, a) \in 0 .. Len(train.stops) /\ IndexOfStop(train, b) \in 0 .. Len(train.stops)
  BY IndexOf
<1> QED
  BY <1>1, <1>2 DEF Stops, Edge

(* A train arrives after it has left.                                      *)
LEMMA TimesOn ==
  ASSUME NEW train, IsTrain(train), NEW a, NEW b, Stops(train, a, b), NEW day \in Int, NEW date \in Int
  PROVE  /\ DepartsOn(train, day, a, date) \in Int
         /\ ArrivesOn(train, day, b, date) \in Int
         /\ DepartsOn(train, day, a, date) <= ArrivesOn(train, day, b, date)
         /\ PriceOf(train, a, b) \in Nat
<1> DEFINE i == IndexOfStop(train, a)
           e == IndexOfStop(train, b) - 1
<1>1. /\ i \in Edge(train) /\ e \in Edge(train) /\ i <= e
  BY StopsIs
<1>2. train.departs[i] \in Nat /\ train.arrives[e] \in Nat
  BY <1>1 DEF IsTrain
<1>3. train.departs[i] <= train.arrives[e]
  BY <1>1, TimesAscend
<1>4. PriceOf(train, a, b) \in Nat
  BY StopsIs, PriceIsNat DEF PriceOf
<1>5. PICK x \in Nat : x = train.departs[i]
  BY <1>2
<1>6. PICK y \in Nat : y = train.arrives[e]
  BY <1>2
<1>7. /\ DepartsOn(train, day, a, date) = (date - day) * 1440 + x
      /\ ArrivesOn(train, day, b, date) = (date - day) * 1440 + y
  BY <1>5, <1>6, Constants DEF DepartsOn, ArrivesOn
<1> HIDE DEF i, e
<1> QED
  BY <1>3, <1>4, <1>5, <1>6, <1>7

(* Another date moves both times by as many days.                          *)
LEMMA TimesMove ==
  ASSUME NEW train, IsTrain(train), NEW a, NEW b, Stops(train, a, b),
         NEW day \in Int, NEW date \in Int, NEW k \in Int
  PROVE  /\ DepartsOn(train, day, a, date + k) = DepartsOn(train, day, a, date) + k * kDay
         /\ ArrivesOn(train, day, b, date + k) = ArrivesOn(train, day, b, date) + k * kDay
<1> DEFINE i == IndexOfStop(train, a)
           e == IndexOfStop(train, b) - 1
<1>1. /\ i \in Edge(train) /\ e \in Edge(train)
  BY StopsIs
<1>2. train.departs[i] \in Nat /\ train.arrives[e] \in Nat
  BY <1>1 DEF IsTrain
<1>5. PICK x \in Nat : x = train.departs[i]
  BY <1>2
<1>6. PICK y \in Nat : y = train.arrives[e]
  BY <1>2
<1>7. /\ DepartsOn(train, day, a, date) = (date - day) * 1440 + x
      /\ ArrivesOn(train, day, b, date) = (date - day) * 1440 + y
      /\ DepartsOn(train, day, a, date + k) = ((date + k) - day) * 1440 + x
      /\ ArrivesOn(train, day, b, date + k) = ((date + k) - day) * 1440 + y
  BY <1>5, <1>6, Constants DEF DepartsOn, ArrivesOn
<1> HIDE DEF i, e
<1> QED
  BY <1>7, Constants

-----------------------------------------------------------------------------
(* Sections                                                                *)

Sec(id, mid, departure, arrival, price, res, deleted) ==
  [train |-> id, mid |-> mid, departure |-> departure, arrival |-> arrival,
   price |-> price, res |-> res, deleted |-> deleted]

(* The fields of a section.                                                *)
LEMMA SecIs ==
  ASSUME NEW id, NEW mid, NEW departure, NEW arrival, NEW price, NEW res, NEW deleted
  PROVE  LET s == Sec(id, mid, departure, arrival, price, res, deleted)
         IN  /\ s.train = id /\ s.mid = mid /\ s.departure = departure /\ s.arrival = arrival
             /\ s.price = price /\ s.res = res /\ s.deleted = deleted
BY DEF Sec

(* move_to_tomorrow moves both times by a day and takes one date.          *)
LEMMA SecMoves ==
  ASSUME NEW id, NEW mid, NEW departure \in Int, NEW arrival \in Int, NEW price, NEW res \in Int,
         NEW deleted
  PROVE  MoveToTomorrow(Sec(id, mid, departure, arrival, price, res, deleted))
         = Sec(id, mid, departure + kDay, arrival + kDay, price, res - 1, deleted)
<1>1. PICK s : s = Sec(id, mid, departure, arrival, price, res, deleted)
  OBVIOUS
<1>2. s = [train |-> id, mid |-> mid, departure |-> departure, arrival |-> arrival,
           price |-> price, res |-> res, deleted |-> deleted]
  BY <1>1 DEF Sec
<1>3. PICK d, a, r : d = s.departure + kDay /\ a = s.arrival + kDay /\ r = s.res - 1
  OBVIOUS
<1>4. MoveToTomorrow(s) = [s EXCEPT !.departure = d, !.arrival = a, !.res = r]
  BY <1>3 DEF MoveToTomorrow
<1>5. [s EXCEPT !.departure = d, !.arrival = a, !.res = r]
      = [train |-> id, mid |-> mid, departure |-> d, arrival |-> a,
         price |-> price, res |-> r, deleted |-> deleted]
  <2>1. PICK t : t = [s EXCEPT !.departure = d]
    OBVIOUS
  <2>2. t = [train |-> id, mid |-> mid, departure |-> d, arrival |-> arrival,
             price |-> price, res |-> res, deleted |-> deleted]
    BY <1>2, <2>1
  <2>3. PICK u : u = [t EXCEPT !.arrival = a]
    OBVIOUS
  <2>4. u = [train |-> id, mid |-> mid, departure |-> d, arrival |-> a,
             price |-> price, res |-> res, deleted |-> deleted]
    BY <2>2, <2>3
  <2>5. [u EXCEPT !.res = r]
        = [train |-> id, mid |-> mid, departure |-> d, arrival |-> a,
           price |-> price, res |-> r, deleted |-> deleted]
    BY <2>4
  <2>6. [s EXCEPT !.departure = d, !.arrival = a, !.res = r]
        = [[[s EXCEPT !.departure = d] EXCEPT !.arrival = a] EXCEPT !.res = r]
    OBVIOUS
  <2> QED
    BY <2>1, <2>3, <2>5, <2>6
<1>6. d = departure + kDay /\ a = arrival + kDay /\ r = res - 1
  BY <1>2, <1>3
<1> QED
  BY <1>1, <1>4, <1>5, <1>6 DEF Sec

(* Deleting a section changes nothing else.                                *)
LEMMA SecDeleted ==
  ASSUME NEW id, NEW mid, NEW departure, NEW arrival, NEW price, NEW res, NEW deleted, NEW b
  PROVE  [Sec(id, mid, departure, arrival, price, res, deleted) EXCEPT !.deleted = b]
         = Sec(id, mid, departure, arrival, price, res, b)
BY DEF Sec

(* A train from mid to the destination, and from the origin to mid.        *)
ToSec(T, Q, mid, id, date, deleted) ==
  Sec(id, mid, DepartsOn(T[id], Q.date, mid, date), ArrivesOn(T[id], Q.date, Q.to, date),
      PriceOf(T[id], mid, Q.to), T[id].end - date, deleted)

FromSec(T, Q, mid, id, date) ==
  Sec(id, mid, DepartsOn(T[id], Q.date, Q.from, date), ArrivesOn(T[id], Q.date, mid, date),
      PriceOf(T[id], Q.from, mid), 0, FALSE)

(* The fields of a section to the destination.                             *)
LEMMA ToSecIs ==
  ASSUME NEW T, NEW Q, NEW mid, NEW id, NEW date, NEW deleted
  PROVE  LET s == ToSec(T, Q, mid, id, date, deleted)
         IN  /\ s.train = id /\ s.mid = mid
             /\ s.departure = DepartsOn(T[id], Q.date, mid, date)
             /\ s.arrival = ArrivesOn(T[id], Q.date, Q.to, date)
             /\ s.price = PriceOf(T[id], mid, Q.to)
             /\ s.res = T[id].end - date /\ s.deleted = deleted
BY SecIs DEF ToSec

(* The fields of a section from the origin.                                *)
LEMMA FromSecIs ==
  ASSUME NEW T, NEW Q, NEW mid, NEW id, NEW date
  PROVE  LET s == FromSec(T, Q, mid, id, date)
         IN  /\ s.train = id /\ s.mid = mid
             /\ s.departure = DepartsOn(T[id], Q.date, Q.from, date)
             /\ s.arrival = ArrivesOn(T[id], Q.date, mid, date)
             /\ s.price = PriceOf(T[id], Q.from, mid)
<1>1. PICK d : d = FALSE
  OBVIOUS
<1>2. FromSec(T, Q, mid, id, date)
      = Sec(id, mid, DepartsOn(T[id], Q.date, Q.from, date), ArrivesOn(T[id], Q.date, mid, date),
            PriceOf(T[id], Q.from, mid), 0, d)
  BY <1>1, Zenon DEF FromSec
<1> QED
  BY <1>2, SecIs

(* A section to the destination that is moved to tomorrow.                 *)
LEMMA ToSecMoves ==
  ASSUME NEW T, NEW Q, Setting(T, Q), NEW mid, NEW id \in DOMAIN T, Stops(T[id], mid, Q.to),
         NEW date \in Int, NEW deleted
  PROVE  MoveToTomorrow(ToSec(T, Q, mid, id, date, deleted)) = ToSec(T, Q, mid, id, date + 1, deleted)
<1>1. IsTrain(T[id]) /\ Q.date \in Int /\ T[id].end \in Int
  BY TrainIs DEF Setting
<1>2. /\ DepartsOn(T[id], Q.date, mid, date + 1) = DepartsOn(T[id], Q.date, mid, date) + 1 * kDay
      /\ ArrivesOn(T[id], Q.date, Q.to, date + 1) = ArrivesOn(T[id], Q.date, Q.to, date) + 1 * kDay
  BY <1>1, TimesMove
<1>4. /\ DepartsOn(T[id], Q.date, mid, date) \in Int /\ ArrivesOn(T[id], Q.date, Q.to, date) \in Int
      /\ T[id].end - date \in Int
  BY <1>1, TimesOn
<1>3. 1 * kDay = kDay /\ T[id].end - (date + 1) = (T[id].end - date) - 1
  BY <1>1, Constants
<1> QED
  BY <1>1, <1>2, <1>3, <1>4, SecMoves DEF ToSec

(* How often a section is moved for a time.                                *)
StepsOf(section, time) ==
  Min({section.res} \cup {k \in 0 .. section.res : section.departure + k * kDay >= time})

IsMoving(f, section, n) ==
  f = [k \in 0 .. n |-> IF k = 0 THEN section ELSE MoveToTomorrow(f[k - 1])]

(* It is what Moves uses.                                                  *)
LEMMA MovesIs ==
  ASSUME NEW section, NEW time
  PROVE  Moves(section, time) = CHOOSE f : IsMoving(f, section, StepsOf(section, time))
BY DEF Moves, IsMoving, StepsOf

(* The least of a set of natural numbers.                                  *)
LEMMA MinIs ==
  ASSUME NEW S \in SUBSET Nat, S # {}
  PROVE  Min(S) \in S /\ \A y \in S : Min(S) <= y
<1>1. \E x \in S : \A y \in S : x =< y
  BY LeastOf, Zenon
<1> QED
  BY <1>1, Zenon DEF Min

(* The steps of a section end at the first date that is not too early, or  *)
(* at the last.                                                            *)
LEMMA StepsAre ==
  ASSUME NEW s, s.res \in Nat, s.departure \in Int, NEW time \in Int
  PROVE  /\ StepsOf(s, time) \in 0 .. s.res
         /\ StepsOf(s, time) = s.res \/ s.departure + StepsOf(s, time) * kDay >= time
         /\ \A k \in 0 .. s.res : k < StepsOf(s, time) => s.departure + k * kDay < time
<1> DEFINE S == {s.res} \cup {k \in 0 .. s.res : s.departure + k * kDay >= time}
<1>1. S \in SUBSET Nat /\ S # {} /\ s.res \in S
  OBVIOUS
<1>2. StepsOf(s, time) = Min(S)
  BY Zenon DEF StepsOf
<1>3. Min(S) \in S /\ \A y \in S : Min(S) <= y
  <2> HIDE DEF S
  <2> QED
    BY <1>1, MinIs
<1>4. PICK n : n = StepsOf(s, time)
  OBVIOUS
<1>5. n \in S /\ \A y \in S : n <= y
  BY <1>2, <1>3, <1>4, Zenon
<1>6. n \in 0 .. s.res /\ (n = s.res \/ s.departure + n * kDay >= time)
  BY <1>5
<1>7. ASSUME NEW k \in 0 .. s.res, k < n
      PROVE  s.departure + k * kDay < time
  <2>1. k \notin S
    <3> HIDE DEF S
    <3>1. k \in S => n <= k
      BY <1>5
    <3> QED
      BY <3>1, <1>6, <1>7
  <2>2. ~ (s.departure + k * kDay >= time)
    BY <2>1
  <2>3. s.departure + k * kDay \in Int
    BY Constants
  <2> QED
    BY <2>2, <2>3
<1> QED
  BY <1>4, <1>6, <1>7, Zenon

(* The n days after the date that a section is put off for a time.         *)
PutOff(train, day, mid, date, time, n) ==
  /\ n \in 0 .. train.end - date
  /\ date + n = train.end \/ DepartsOn(train, day, mid, date + n) >= time
  /\ \A d \in Int : date <= d /\ d < date + n => DepartsOn(train, day, mid, d) < time

(* Moving a section goes through the dates that follow, one by one.        *)
LEMMA MovesAre ==
  ASSUME NEW T, NEW Q, Setting(T, Q), NEW mid, NEW id \in DOMAIN T, Stops(T[id], mid, Q.to),
         NEW date \in T[id].begin .. T[id].end, NEW deleted, NEW time \in Int
  PROVE  \E n : /\ PutOff(T[id], Q.date, mid, date, time, n)
                /\ Moves(ToSec(T, Q, mid, id, date, deleted), time)
                     = [k \in 0 .. n |-> ToSec(T, Q, mid, id, date + k, deleted)]
<1>0. /\ IsTrain(T[id]) /\ Q.date \in Int /\ T[id].end \in Int /\ T[id].begin \in Int
      /\ date \in Int /\ T[id].end - date \in Nat
  <2>1. IsTrain(T[id]) /\ T[id].end \in Int /\ T[id].begin \in Int
    BY TrainIs
  <2>2. Q.date \in Int
    BY DEF Setting
  <2> QED
    BY <2>1, <2>2
<1>1. PICK s : s = ToSec(T, Q, mid, id, date, deleted)
  OBVIOUS
<1>2. /\ s.res = T[id].end - date /\ s.departure = DepartsOn(T[id], Q.date, mid, date)
      /\ s.departure \in Int
  BY <1>0, <1>1, ToSecIs, TimesOn
<1>3. PICK n : n = StepsOf(s, time)
  OBVIOUS
<1>4. /\ n \in 0 .. s.res
      /\ n = s.res \/ s.departure + n * kDay >= time
      /\ \A k \in 0 .. s.res : k < n => s.departure + k * kDay < time
  BY <1>0, <1>2, <1>3, StepsAre
<1>5. \A k \in Int : DepartsOn(T[id], Q.date, mid, date + k) = s.departure + k * kDay
  <2>1. ASSUME NEW k \in Int
        PROVE  DepartsOn(T[id], Q.date, mid, date + k) = s.departure + k * kDay
    <3>1. DepartsOn(T[id], Q.date, mid, date + k) = DepartsOn(T[id], Q.date, mid, date) + k * kDay
      <4>1. PICK train, day : train = T[id] /\ day = Q.date
        OBVIOUS
      <4>2. IsTrain(train) /\ Stops(train, mid, Q.to) /\ day \in Int
        BY <1>0, <4>1
      <4>3. DepartsOn(train, day, mid, date + k) = DepartsOn(train, day, mid, date) + k * kDay
        BY <1>0, <4>2, TimesMove
      <4> QED
        BY <4>1, <4>3, Zenon
    <3> QED
      BY <3>1, <1>2, Zenon
  <2> QED
    BY <2>1
<1>6. PutOff(T[id], Q.date, mid, date, time, n)
  <2>1. n \in 0 .. T[id].end - date
    BY <1>2, <1>4
  <2>2. date + n = T[id].end \/ DepartsOn(T[id], Q.date, mid, date + n) >= time
    <3>1. CASE n = s.res
      BY <3>1, <1>0, <1>2
    <3>2. CASE s.departure + n * kDay >= time
      BY <3>2, <2>1, <1>0, <1>5
    <3> QED
      BY <3>1, <3>2, <1>4
  <2>3. ASSUME NEW d \in Int, date <= d, d < date + n
        PROVE  DepartsOn(T[id], Q.date, mid, d) < time
    <3>1. d - date \in 0 .. s.res /\ d - date < n /\ date + (d - date) = d /\ d - date \in Int
      BY <2>1, <2>3, <1>0, <1>2
    <3>2. s.departure + (d - date) * kDay < time
      BY <3>1, <1>4, Zenon
    <3>3. DepartsOn(T[id], Q.date, mid, date + (d - date)) = s.departure + (d - date) * kDay
      BY <3>1, <1>5, Zenon
    <3> QED
      BY <3>1, <3>2, <3>3, Zenon
  <2> QED
    BY <2>1, <2>2, <2>3, Zenon DEF PutOff
<1>7. Moves(s, time) = [k \in 0 .. n |-> ToSec(T, Q, mid, id, date + k, deleted)]
  <2> DEFINE g == [k \in 0 .. n |-> ToSec(T, Q, mid, id, date + k, deleted)]
             f == CHOOSE f : IsMoving(f, s, n)
  <2>1. n \in Nat
    BY <1>4, <1>0, <1>2
  <2>2. ASSUME NEW k \in 0 .. n
        PROVE  g[k] = IF k = 0 THEN s ELSE MoveToTomorrow(g[k - 1])
    <3>1. CASE k = 0
      <4>1. date + 0 = date /\ 0 \in 0 .. n
        BY <2>1, <1>0
      <4> QED
        BY <3>1, <4>1, <1>1, Zenon
    <3>2. CASE k # 0
      <4>1. /\ k - 1 \in 0 .. n /\ date + (k - 1) \in Int /\ (date + (k - 1)) + 1 = date + k
        BY <3>2, <2>1, <1>0
      <4>2. MoveToTomorrow(ToSec(T, Q, mid, id, date + (k - 1), deleted))
            = ToSec(T, Q, mid, id, (date + (k - 1)) + 1, deleted)
        BY <4>1, ToSecMoves
      <4> QED
        BY <3>2, <4>1, <4>2, Zenon
    <3> QED
      BY <3>1, <3>2
  <2>3. IsMoving(g, s, n)
    <3>1. g = [k \in 0 .. n |-> g[k]]
      OBVIOUS
    <3> HIDE DEF g
    <3> QED
      BY <3>1, <2>2 DEF IsMoving
  <2>4. IsMoving(f, s, n)
    <3> HIDE DEF g
    <3> QED
      BY <2>3, Zenon
  <2>5. Moves(s, time) = f
    BY <1>3, MovesIs, Zenon
  <2> HIDE DEF f
  <2> DEFINE Bad == {k \in Nat : k <= n /\ f[k] # g[k]}
  <2>6. /\ f = [k \in 0 .. n |-> f[k]]
        /\ \A k \in 0 .. n : f[k] = IF k = 0 THEN s ELSE MoveToTomorrow(f[k - 1])
    <3>1. f = [k \in 0 .. n |-> IF k = 0 THEN s ELSE MoveToTomorrow(f[k - 1])]
      BY <2>4, Zenon DEF IsMoving
    <3> QED
      BY <3>1
  <2>7. ASSUME NEW k \in Bad, \A y \in Bad : k <= y
        PROVE  FALSE
    <3>1. k \in Nat /\ k <= n /\ f[k] # g[k] /\ k \in 0 .. n
      BY <2>1
    <3>2. k # 0
      BY <3>1, <2>2, <2>6, Zenon
    <3>3. k - 1 \in Nat /\ k - 1 <= n /\ ~ (k <= k - 1)
      BY <3>1, <3>2, <2>1
    <3> HIDE DEF g
    <3>4. f[k - 1] = g[k - 1]
      BY <3>3, <2>7
    <3> QED
      BY <3>1, <3>2, <3>4, <2>2, <2>6, Zenon
  <2>8. Bad = {}
    <3>1. Bad \in SUBSET Nat
      OBVIOUS
    <3> HIDE DEF Bad
    <3> QED
      BY <2>7, <3>1, LeastOf, Zenon
  <2>9. \A k \in 0 .. n : f[k] = g[k]
    <3>1. \A k \in 0 .. n : k \in Nat /\ k <= n
      BY <2>1
    <3> HIDE DEF g
    <3> QED
      BY <3>1, <2>8
  <2>10. g = [k \in 0 .. n |-> g[k]]
    OBVIOUS
  <2>11. f = g
    <3> HIDE DEF g
    <3> QED
      BY <2>6, <2>9, <2>10
  <2> QED
    BY <2>5, <2>11
<1> QED
  BY <1>1, <1>6, <1>7, Zenon

Pair(section, i) == [first |-> section, second |-> i]

(* The fields of a pair.                                                   *)
LEMMA PairIs ==
  ASSUME NEW section, NEW i
  PROVE  /\ Pair(section, i).first = section /\ Pair(section, i).second = i
         /\ \A s, j : Pair(section, i) = Pair(s, j) => section = s /\ i = j
BY DEF Pair

PairsOf(section, i, time) ==
  LET moved == Moves(section, time)
  IN  [k \in DOMAIN moved \ {0} |-> [first |-> moved[k], second |-> i]]

(* A truth value is one of two.                                            *)
LEMMA BoolIs == \A b \in BOOLEAN : (b => b = TRUE) /\ (~ b => b = FALSE)
OBVIOUS

(* The section s, of the train id on the date, is moved n times.           *)
MoveOf(T, Q, mid, id, date, deleted, time, i, s, n, b) ==
  /\ b \in BOOLEAN
  /\ PutOff(T[id], Q.date, mid, date, time, n)
  /\ b <=> deleted \/ DepartsOn(T[id], Q.date, mid, date + n) < time
  /\ Moved(s, time) = ToSec(T, Q, mid, id, date + n, b)
  /\ PairsOf(s, i, time)
       = [k \in 1 .. n |-> Pair(ToSec(T, Q, mid, id, date + k, deleted), i)]

(* What a section is moved to and what is pushed on the way.               *)
LEMMA MovedIs ==
  ASSUME NEW T, NEW Q, Setting(T, Q), NEW mid, NEW id \in DOMAIN T, Stops(T[id], mid, Q.to),
         NEW date \in T[id].begin .. T[id].end, NEW deleted \in BOOLEAN, NEW time \in Int, NEW i,
         NEW s, s = ToSec(T, Q, mid, id, date, deleted)
  PROVE  \E n, b : MoveOf(T, Q, mid, id, date, deleted, time, i, s, n, b)
<1>1. PICK n : /\ PutOff(T[id], Q.date, mid, date, time, n)
               /\ Moves(s, time) = [k \in 0 .. n |-> ToSec(T, Q, mid, id, date + k, deleted)]
  BY MovesAre
<1>2. n \in Nat
  <2>1. T[id].begin \in Int /\ T[id].end \in Int
    BY TrainIs
  <2>2. n \in 0 .. T[id].end - date
    BY <1>1, Zenon DEF PutOff
  <2> QED
    BY <2>1, <2>2
<1>3. PICK m : m = Moves(s, time)
  OBVIOUS
<1>4. /\ DOMAIN m = 0 .. n
      /\ \A k \in 0 .. n : m[k] = ToSec(T, Q, mid, id, date + k, deleted)
  BY <1>1, <1>3
<1>5. Max(DOMAIN m) = n
  <2>1. n \in DOMAIN m /\ \A y \in DOMAIN m : n >= y
    BY <1>2, <1>4
  <2>2. Max(DOMAIN m) \in DOMAIN m /\ \A y \in DOMAIN m : Max(DOMAIN m) >= y
    BY <2>1, Zenon DEF Max
  <2>3. Max(DOMAIN m) >= n /\ n >= Max(DOMAIN m) /\ Max(DOMAIN m) \in 0 .. n
    BY <2>1, <2>2, <1>4, Zenon
  <2> QED
    BY <2>3, <1>2
<1>6. PICK last : last = ToSec(T, Q, mid, id, date + n, deleted)
  OBVIOUS
<1>7. last = m[Max(DOMAIN m)]
  <2>1. n \in 0 .. n
    BY <1>2
  <2> QED
    BY <2>1, <1>4, <1>5, <1>6, Zenon
<1>8. PICK b : b = (last.deleted \/ last.departure < time)
  OBVIOUS
<1>9. b \in BOOLEAN
  BY <1>8
<1>10. last.deleted = deleted /\ last.departure = DepartsOn(T[id], Q.date, mid, date + n)
  BY <1>6, ToSecIs
<1>11. b <=> deleted \/ DepartsOn(T[id], Q.date, mid, date + n) < time
  BY <1>8, <1>10, Zenon
<1>12. Moved(s, time) = [last EXCEPT !.deleted = b]
  BY <1>3, <1>7, <1>8, Zenon DEF Moved
<1>13. [last EXCEPT !.deleted = b] = ToSec(T, Q, mid, id, date + n, b)
  BY <1>6, SecDeleted DEF ToSec
<1>14. PairsOf(s, i, time)
       = [k \in 1 .. n |-> Pair(ToSec(T, Q, mid, id, date + k, deleted), i)]
  <2>1. PairsOf(s, i, time) = [k \in DOMAIN m \ {0} |-> Pair(m[k], i)]
    BY <1>3, Zenon DEF PairsOf, Pair
  <2>2. DOMAIN m \ {0} = 1 .. n
    BY <1>2, <1>4
  <2>3. \A k \in 1 .. n : m[k] = ToSec(T, Q, mid, id, date + k, deleted)
    BY <1>2, <1>4
  <2> QED
    BY <2>1, <2>2, <2>3
<1> QED
  BY <1>1, <1>9, <1>11, <1>12, <1>13, <1>14, Zenon DEF MoveOf

-----------------------------------------------------------------------------
(* The sections from the origin                                            *)

(* How many days after the train it leaves the origin.                     *)
LateAt(train, stop) == DaysOverflow(train.departs[IndexOfStop(train, stop)])

(* There is one date on which a train leaves the origin on the date asked  *)
(* for.                                                                    *)
LEMMA LateIs ==
  ASSUME NEW T, NEW Q, Setting(T, Q), NEW id \in DOMAIN T, NEW mid, Stops(T[id], Q.from, mid)
  PROVE  /\ LateAt(T[id], Q.from) \in Int
         /\ WithoutOverflow(T[id].departs[IndexOfStop(T[id], Q.from)])
              = DepartsOn(T[id], Q.date, Q.from, Q.date - LateAt(T[id], Q.from))
         /\ \A date \in Int : DaysOverflow(DepartsOn(T[id], Q.date, Q.from, date)) = 0
                                <=> date = Q.date - LateAt(T[id], Q.from)
<1>1. IsTrain(T[id]) /\ Q.date \in Int
  BY DEF Setting
<1>2. IndexOfStop(T[id], Q.from) \in Edge(T[id])
  BY <1>1, StopsIs
<1>3. PICK x \in Nat : x = T[id].departs[IndexOfStop(T[id], Q.from)]
  BY <1>1, <1>2 DEF IsTrain
<1>4. PICK d \in Int : d = DaysOverflow(x)
  BY <1>3, Overflow
<1>5. d * 1440 <= x /\ x < d * 1440 + 1440
  BY <1>3, <1>4, Overflow, Constants
<1>6. LateAt(T[id], Q.from) = d
  BY <1>3, <1>4, Zenon DEF LateAt
<1>7. WithoutOverflow(x) = x - d * 1440
  BY <1>3, <1>4, TimeOfDay, Constants
<1>8. \A date : DepartsOn(T[id], Q.date, Q.from, date) = (date - Q.date) * 1440 + x
  BY <1>3, Constants DEF DepartsOn
<1>9. ((Q.date - d) - Q.date) * 1440 + x = x - d * 1440
  BY <1>1
<1>10. ASSUME NEW date \in Int
       PROVE  DaysOverflow(DepartsOn(T[id], Q.date, Q.from, date)) = 0 <=> date = Q.date - d
  <2>1. PICK y \in Int : y = (date - Q.date) * 1440 + x
    BY <1>1
  <2>2. DaysOverflow(y) = 0 <=> (y >= 0 /\ y < kDay)
    BY <2>1, Overflow
  <2>3. (y >= 0 /\ y < kDay) <=> date = Q.date - d
    <3>1. PICK q \in Int : q = Q.date
      BY <1>1
    <3>2. y = (date - q) * 1440 + x
      BY <2>1, <3>1
    <3>3. (y >= 0 /\ y < 1440) <=> date = q - d
      BY <2>1, <3>2, <1>5
    <3> QED
      BY <3>1, <3>3, Constants
  <2>4. DepartsOn(T[id], Q.date, Q.from, date) = y
    BY <2>1, <1>8
  <2> QED
    BY <2>2, <2>3, <2>4, Zenon
<1> QED
  BY <1>3, <1>6, <1>7, <1>8, <1>9, <1>10

(* The section from the origin to the j-th stop.                           *)
FromAt(T, Q, id, j) ==
  Section(id, T[id].stops[j], WithoutOverflow(T[id].departs[IndexOfStop(T[id], Q.from)]),
          T[id].arrives[j - 1] - LateAt(T[id], Q.from) * kDay,
          TotalPrice(T[id], IndexOfStop(T[id], Q.from), j), 0)

(* A section before anything is moved.                                     *)
LEMMA SectionIs ==
  ASSUME NEW id, NEW mid, NEW departure, NEW arrival, NEW price, NEW res
  PROVE  Section(id, mid, departure, arrival, price, res)
         = Sec(id, mid, departure, arrival, price, res, FALSE)
BY Zenon DEF Section, Sec

(* A section from the origin is the run of the train on that date.         *)
LEMMA FromAtIs ==
  ASSUME NEW T, NEW Q, Setting(T, Q), NEW id \in DOMAIN T, NEW mid, Stops(T[id], Q.from, mid)
  PROVE  FromAt(T, Q, id, IndexOfStop(T[id], mid))
         = FromSec(T, Q, mid, id, Q.date - LateAt(T[id], Q.from))
<1>1. IsTrain(T[id]) /\ Q.date \in Int
  BY DEF Setting
<1> DEFINE j == IndexOfStop(T[id], mid)
           late == LateAt(T[id], Q.from)
<1>2. T[id].stops[j] = mid
  <2>1. IndexOfStop(T[id], mid) # 0
    BY <1>1, StopsIs DEF Edge
  <2> QED
    BY <1>1, <2>1, IndexOf
<1>3. late \in Int /\ WithoutOverflow(T[id].departs[IndexOfStop(T[id], Q.from)])
                       = DepartsOn(T[id], Q.date, Q.from, Q.date - late)
  BY LateIs
<1>4. T[id].arrives[j - 1] - late * kDay = ArrivesOn(T[id], Q.date, mid, Q.date - late)
  <2>1. j - 1 \in Edge(T[id])
    BY <1>1, StopsIs
  <2>2. PICK y \in Nat : y = T[id].arrives[j - 1]
    BY <1>1, <2>1 DEF IsTrain
  <2>3. PICK q \in Int : q = Q.date
    BY <1>1
  <2>4. ArrivesOn(T[id], Q.date, mid, Q.date - late) = ((q - late) - q) * 1440 + y
    BY <2>2, <2>3, Constants DEF ArrivesOn
  <2>5. ((q - late) - q) * 1440 + y = y - late * 1440
    BY <1>3
  <2> QED
    BY <2>2, <2>4, <2>5, Constants
<1>5. FromAt(T, Q, id, j)
      = Sec(id, mid, DepartsOn(T[id], Q.date, Q.from, Q.date - late),
            ArrivesOn(T[id], Q.date, mid, Q.date - late), PriceOf(T[id], Q.from, mid), 0, FALSE)
  BY <1>2, <1>3, <1>4, SectionIs, Zenon DEF FromAt, PriceOf
<1> QED
  BY <1>5, Zenon DEF FromSec

(* The sections from the origin, by the stop they end at.                  *)
LEMMA SectionsFromIs ==
  ASSUME NEW id
  PROVE  SectionsFrom(id)
         = IF /\ IndexOfStop(trains[id], cmd.from) \in 1 .. Len(trains[id].stops) - 1
              /\ trains[id].begin <= cmd.date - LateAt(trains[id], cmd.from)
              /\ cmd.date - LateAt(trains[id], cmd.from) <= trains[id].end
           THEN {FromAt(trains, cmd, id, j) :
                   j \in IndexOfStop(trains[id], cmd.from) + 1 .. Len(trains[id].stops)}
           ELSE {}
BY Zenon DEF SectionsFrom, FromAt, LateAt, InRange

(* Its train and the station it ends at.                                   *)
LEMMA FromAtMid ==
  ASSUME NEW T, NEW Q, NEW id, NEW j
  PROVE  FromAt(T, Q, id, j).mid = T[id].stops[j] /\ FromAt(T, Q, id, j).train = id
BY DEF FromAt, Section

(* The date on which a train has to set out to leave the origin in time.   *)
Start(T, Q, id) == Q.date - LateAt(T[id], Q.from)

(* The sections from the origin to a station.                              *)
LEMMA SectionsFromAre ==
  ASSUME Setting(trains, cmd), NEW id \in DOMAIN trains, NEW mid, NEW s
  PROVE  s \in SectionsFrom(id) /\ s.mid = mid
           <=> /\ Stops(trains[id], cmd.from, mid)
               /\ Start(trains, cmd, id) \in trains[id].begin .. trains[id].end
               /\ s = FromSec(trains, cmd, mid, id, Start(trains, cmd, id))
<1> DEFINE train == trains[id]
           key == IndexOfStop(train, cmd.from)
           date == Start(trains, cmd, id)
<1>1. IsTrain(train) /\ train.begin \in Int /\ train.end \in Int /\ cmd.date \in Int
  BY TrainIs DEF Setting
<1>2. Len(train.stops) \in Nat /\ key \in 0 .. Len(train.stops)
  BY <1>1, StopsAre, IndexOf
<1>3. ASSUME s \in SectionsFrom(id), s.mid = mid
      PROVE  Stops(train, cmd.from, mid) /\ date \in train.begin .. train.end
             /\ s = FromSec(trains, cmd, mid, id, date)
  <2>1. /\ key \in 1 .. Len(train.stops) - 1
        /\ train.begin <= cmd.date - LateAt(train, cmd.from)
        /\ cmd.date - LateAt(train, cmd.from) <= train.end
        /\ \E j \in key + 1 .. Len(train.stops) : s = FromAt(trains, cmd, id, j)
    BY <1>3, SectionsFromIs, Zenon
  <2>2. PICK j \in key + 1 .. Len(train.stops) : s = FromAt(trains, cmd, id, j)
    BY <2>1
  <2>3. train.stops[j] = mid
    BY <2>2, <1>3, FromAtMid
  <2>4. j \in 1 .. Len(train.stops)
    BY <1>2, <2>2
  <2>5. IndexOfStop(train, mid) = j
    BY <1>1, <2>3, <2>4, IndexOf
  <2>6. Stops(train, cmd.from, mid)
    BY <1>2, <2>1, <2>2, <2>5 DEF Stops
  <2>7. s = FromSec(trains, cmd, mid, id, date)
    BY <2>2, <2>5, <2>6, FromAtIs, Zenon DEF Start
  <2>8. LateAt(train, cmd.from) \in Int
    BY <2>6, LateIs
  <2>9. date \in train.begin .. train.end
    BY <1>1, <2>1, <2>8 DEF Start
  <2> QED
    BY <2>6, <2>7, <2>9
<1>4. ASSUME Stops(train, cmd.from, mid), date \in train.begin .. train.end,
             s = FromSec(trains, cmd, mid, id, date)
      PROVE  s \in SectionsFrom(id) /\ s.mid = mid
  <2>1. /\ key \in 1 .. Len(train.stops) - 1
        /\ IndexOfStop(train, mid) \in key + 1 .. Len(train.stops)
    <3>1. IndexOfStop(train, mid) \in 0 .. Len(train.stops)
      BY <1>1, IndexOf
    <3> QED
      BY <1>2, <1>4, <3>1 DEF Stops
  <2>2. train.begin <= cmd.date - LateAt(train, cmd.from) /\ cmd.date - LateAt(train, cmd.from) <= train.end
    <3>1. date \in Int /\ train.begin <= date /\ date <= train.end
      BY <1>1, <1>4
    <3> QED
      BY <3>1, Zenon DEF Start
  <2>3. s = FromAt(trains, cmd, id, IndexOfStop(train, mid))
    BY <1>4, FromAtIs, Zenon DEF Start
  <2>4. s \in SectionsFrom(id)
    BY <2>1, <2>2, <2>3, SectionsFromIs, Zenon
  <2>5. s.mid = mid
    BY <1>4, FromSecIs
  <2> QED
    BY <2>4, <2>5
<1> QED
  BY <1>3, <1>4, Zenon

-----------------------------------------------------------------------------
(* The sections to the destination                                         *)

(* The days a train is put off when the query is read.                     *)
LEMMA DaysToPutOffIs ==
  ASSUME NEW train, IsTrain(train), NEW a, NEW b, Stops(train, a, b), NEW day \in Int,
         NEW departure, departure = DepartsOn(train, day, a, train.begin)
  PROVE  PutOff(train, day, a, train.begin, 0, DaysToPutOff(train, departure))
<1> DEFINE r == train.end - train.begin
           S == {r} \cup {n \in 0 .. r : DaysOverflow(departure) + n >= 0}
<1>1. train.begin \in Int /\ train.end \in Int /\ r \in Nat
  BY DEF IsTrain
<1>2. departure \in Int
  BY <1>1, TimesOn
<1>3. S \in SUBSET Nat /\ S # {} /\ r \in S
  BY <1>1
<1>4. DaysToPutOff(train, departure) = Min(S)
  BY Zenon DEF DaysToPutOff
<1>5. Min(S) \in S /\ \A y \in S : Min(S) <= y
  <2> HIDE DEF S
  <2> QED
    BY <1>3, MinIs
<1>6. PICK n : n = DaysToPutOff(train, departure)
  OBVIOUS
<1>7. n \in S /\ \A y \in S : n <= y
  BY <1>4, <1>5, <1>6, Zenon
<1>8. \A k \in Int : DepartsOn(train, day, a, train.begin + k) = departure + k * kDay
  <2>1. ASSUME NEW k \in Int
        PROVE  DepartsOn(train, day, a, train.begin + k) = departure + k * kDay
    BY <1>1, TimesMove
  <2> QED
    BY <2>1
<1>9. \A k \in Int : DaysOverflow(departure) + k >= 0 <=> DepartsOn(train, day, a, train.begin + k) >= 0
  <2>1. ASSUME NEW k \in Int
        PROVE  DaysOverflow(departure) + k >= 0 <=> DepartsOn(train, day, a, train.begin + k) >= 0
    <3>1. departure + k * kDay >= 0 <=> DaysOverflow(departure) + k >= 0
      BY <1>2, SameDay
    <3>2. DepartsOn(train, day, a, train.begin + k) = departure + k * kDay
      BY <1>8
    <3> QED
      BY <3>1, <3>2, Zenon
  <2> QED
    BY <2>1
<1>10. n \in 0 .. r /\ (n = r \/ DaysOverflow(departure) + n >= 0)
  BY <1>1, <1>7
<1>11. train.begin + n = train.end \/ DepartsOn(train, day, a, train.begin + n) >= 0
  <2>1. CASE n = r
    BY <2>1, <1>1
  <2>2. CASE DaysOverflow(departure) + n >= 0
    BY <2>2, <1>9, <1>10
  <2> QED
    BY <2>1, <2>2, <1>10
<1>12. ASSUME NEW d \in Int, train.begin <= d, d < train.begin + n
       PROVE  DepartsOn(train, day, a, d) < 0
  <2>1. d - train.begin \in 0 .. r /\ d - train.begin < n /\ train.begin + (d - train.begin) = d
        /\ d - train.begin \in Int
    BY <1>1, <1>10, <1>12
  <2>2. d - train.begin \notin S
    <3> HIDE DEF S
    <3>1. d - train.begin \in S => n <= d - train.begin
      BY <1>7
    <3> QED
      BY <3>1, <2>1, <1>10
  <2>3. ~ (DaysOverflow(departure) + (d - train.begin) >= 0)
    BY <2>1, <2>2
  <2>4. ~ (DepartsOn(train, day, a, d) >= 0)
    BY <2>1, <2>3, <1>9, Zenon
  <2>5. DepartsOn(train, day, a, d) \in Int
    BY TimesOn
  <2> QED
    BY <2>4, <2>5
<1> QED
  BY <1>6, <1>10, <1>11, <1>12 DEF PutOff

(* The section to the destination from the j-th stop.                      *)
ShiftTo(T, Q, id) == (T[id].begin - Q.date) * kDay
ToAt(T, Q, id, j) ==
  LET n == DaysToPutOff(T[id], T[id].departs[j] + ShiftTo(T, Q, id))
      key == IndexOfStop(T[id], Q.to)
  IN  Section(id, T[id].stops[j],
              T[id].departs[j] + ShiftTo(T, Q, id) + n * kDay,
              T[id].arrives[key - 1] + ShiftTo(T, Q, id) + n * kDay,
              TotalPrice(T[id], j, key), T[id].end - T[id].begin - n)

(* The sections to the destination, by the stop they begin at.             *)
LEMMA SectionsToIs ==
  ASSUME NEW id
  PROVE  SectionsTo(id)
         = {section \in {ToAt(trains, cmd, id, j) : j \in 1 .. IndexOfStop(trains[id], cmd.to) - 1} :
              DaysOverflow(section.departure) >= 0}
BY Zenon DEF SectionsTo, ToAt, ShiftTo

(* The days the first run is put off before it leaves mid on a date that   *)
(* is not too early.                                                       *)
FirstDays(T, Q, mid, id) ==
  DaysToPutOff(T[id], DepartsOn(T[id], Q.date, mid, T[id].begin))

(* The days the first run is put off end within the dates of the train.    *)
LEMMA FirstDaysIs ==
  ASSUME NEW T, NEW Q, Setting(T, Q), NEW id \in DOMAIN T, NEW mid, Stops(T[id], mid, Q.to)
  PROVE  /\ FirstDays(T, Q, mid, id) \in 0 .. T[id].end - T[id].begin
         /\ T[id].begin + FirstDays(T, Q, mid, id) \in T[id].begin .. T[id].end
         /\ PutOff(T[id], Q.date, mid, T[id].begin, 0, FirstDays(T, Q, mid, id))
<1>1. IsTrain(T[id]) /\ T[id].begin \in Int /\ T[id].end \in Int
  BY TrainIs
<1>2. Q.date \in Int
  BY DEF Setting
<1>3. PutOff(T[id], Q.date, mid, T[id].begin, 0, FirstDays(T, Q, mid, id))
  BY <1>1, <1>2, DaysToPutOffIs, Zenon DEF FirstDays
<1>4. FirstDays(T, Q, mid, id) \in 0 .. T[id].end - T[id].begin
  BY <1>3, Zenon DEF PutOff
<1> QED
  BY <1>1, <1>3, <1>4

(* A section to the destination is the run of the train after those days.  *)
LEMMA ToAtIs ==
  ASSUME NEW T, NEW Q, Setting(T, Q), NEW id \in DOMAIN T, NEW mid, Stops(T[id], mid, Q.to)
  PROVE  ToAt(T, Q, id, IndexOfStop(T[id], mid))
         = ToSec(T, Q, mid, id, T[id].begin + FirstDays(T, Q, mid, id), FALSE)
<1>1. IsTrain(T[id]) /\ T[id].begin \in Int /\ T[id].end \in Int
  BY TrainIs
<1>2. Q.date \in Int
  BY DEF Setting
<1> DEFINE j == IndexOfStop(T[id], mid)
           key == IndexOfStop(T[id], Q.to)
<1>3. T[id].stops[j] = mid
  <2>1. IndexOfStop(T[id], mid) # 0
    BY <1>1, StopsIs DEF Edge
  <2> QED
    BY <1>1, <2>1, IndexOf
<1>4. j \in Edge(T[id]) /\ key - 1 \in Edge(T[id])
  BY <1>1, StopsIs
<1>5. PICK x \in Nat : x = T[id].departs[j]
  BY <1>1, <1>4 DEF IsTrain
<1>6. PICK y \in Nat : y = T[id].arrives[key - 1]
  BY <1>1, <1>4 DEF IsTrain
<1>7. PICK c \in Int : c = T[id].begin - Q.date
  BY <1>1, <1>2
<1>8. PICK n : n = FirstDays(T, Q, mid, id)
  OBVIOUS
<1>9. n \in 0 .. T[id].end - T[id].begin
  BY <1>8, FirstDaysIs
<1>10. ShiftTo(T, Q, id) = c * 1440
  BY <1>7, Constants DEF ShiftTo
<1>11. DepartsOn(T[id], Q.date, mid, T[id].begin) = c * 1440 + x
  BY <1>5, <1>7, Constants DEF DepartsOn
<1>12. T[id].departs[j] + ShiftTo(T, Q, id) = DepartsOn(T[id], Q.date, mid, T[id].begin)
  BY <1>5, <1>7, <1>10, <1>11
<1>13. n = DaysToPutOff(T[id], T[id].departs[j] + ShiftTo(T, Q, id))
  BY <1>8, <1>12, Zenon DEF FirstDays
<1>14. /\ T[id].departs[j] + ShiftTo(T, Q, id) + n * kDay
            = DepartsOn(T[id], Q.date, mid, T[id].begin + n)
       /\ T[id].arrives[key - 1] + ShiftTo(T, Q, id) + n * kDay
            = ArrivesOn(T[id], Q.date, Q.to, T[id].begin + n)
       /\ T[id].end - T[id].begin - n = T[id].end - (T[id].begin + n)
  <2>1. PICK b \in Int : b = T[id].begin
    BY <1>1
  <2>2. PICK q \in Int : q = Q.date
    BY <1>2
  <2>3. PICK e \in Int : e = T[id].end
    BY <1>1
  <2>4. n \in Int
    BY <1>1, <1>9
  <2>5. /\ DepartsOn(T[id], Q.date, mid, T[id].begin + n) = ((b + n) - q) * 1440 + x
        /\ ArrivesOn(T[id], Q.date, Q.to, T[id].begin + n) = ((b + n) - q) * 1440 + y
    BY <1>5, <1>6, <2>1, <2>2, Constants DEF DepartsOn, ArrivesOn
  <2>6. c = b - q
    BY <1>7, <2>1, <2>2
  <2>7. /\ x + c * 1440 + n * 1440 = ((b + n) - q) * 1440 + x
        /\ y + c * 1440 + n * 1440 = ((b + n) - q) * 1440 + y
        /\ e - b - n = e - (b + n)
    BY <2>4, <2>6
  <2> QED
    BY <1>5, <1>6, <1>10, <2>1, <2>3, <2>5, <2>7, Constants
<1>15. ToAt(T, Q, id, j)
       = Section(id, mid, DepartsOn(T[id], Q.date, mid, T[id].begin + n),
                 ArrivesOn(T[id], Q.date, Q.to, T[id].begin + n),
                 PriceOf(T[id], mid, Q.to), T[id].end - (T[id].begin + n))
  BY <1>3, <1>13, <1>14, Zenon DEF ToAt, PriceOf
<1> QED
  BY <1>8, <1>15, SectionIs, Zenon DEF ToSec

(* Its train and the station it begins at.                                 *)
LEMMA ToAtMid ==
  ASSUME NEW T, NEW Q, NEW id, NEW j
  PROVE  ToAt(T, Q, id, j).mid = T[id].stops[j] /\ ToAt(T, Q, id, j).train = id
BY DEF ToAt, Section

(* The first section to the destination of a train.                        *)
FirstSec(T, Q, mid, id) == ToSec(T, Q, mid, id, T[id].begin + FirstDays(T, Q, mid, id), FALSE)

(* The sections to the destination from a station.                         *)
LEMMA SectionsToAre ==
  ASSUME Setting(trains, cmd), NEW id \in DOMAIN trains, NEW mid, NEW s
  PROVE  s \in SectionsTo(id) /\ s.mid = mid
           <=> /\ Stops(trains[id], mid, cmd.to)
               /\ s = FirstSec(trains, cmd, mid, id)
               /\ s.departure >= 0
<1> DEFINE train == trains[id]
           key == IndexOfStop(train, cmd.to)
<1>1. IsTrain(train) /\ train.begin \in Int /\ train.end \in Int /\ cmd.date \in Int
  BY TrainIs DEF Setting
<1>2. Len(train.stops) \in Nat /\ key \in 0 .. Len(train.stops)
  BY <1>1, StopsAre, IndexOf
<1>3. ASSUME Stops(train, mid, cmd.to)
      PROVE  /\ ToAt(trains, cmd, id, IndexOfStop(train, mid)) = FirstSec(trains, cmd, mid, id)
             /\ FirstSec(trains, cmd, mid, id).departure \in Int
             /\ FirstSec(trains, cmd, mid, id).mid = mid
  <2>1. ToAt(trains, cmd, id, IndexOfStop(train, mid)) = FirstSec(trains, cmd, mid, id)
    BY <1>3, ToAtIs DEF FirstSec
  <2>2. train.begin + FirstDays(trains, cmd, mid, id) \in Int
    BY <1>1, <1>3, FirstDaysIs
  <2>3. FirstSec(trains, cmd, mid, id).departure
        = DepartsOn(train, cmd.date, mid, train.begin + FirstDays(trains, cmd, mid, id))
        /\ FirstSec(trains, cmd, mid, id).mid = mid
    <3>1. PICK d : d = FALSE
      OBVIOUS
    <3>2. FirstSec(trains, cmd, mid, id)
          = ToSec(trains, cmd, mid, id, train.begin + FirstDays(trains, cmd, mid, id), d)
      BY <3>1, Zenon DEF FirstSec
    <3> QED
      BY <3>2, ToSecIs
  <2> QED
    BY <2>1, <2>2, <2>3, <1>1, <1>3, TimesOn
<1>4. ASSUME s \in SectionsTo(id), s.mid = mid
      PROVE  Stops(train, mid, cmd.to) /\ s = FirstSec(trains, cmd, mid, id) /\ s.departure >= 0
  <2>1. PICK j \in 1 .. key - 1 : s = ToAt(trains, cmd, id, j)
    BY <1>4, SectionsToIs
  <2>2. DaysOverflow(s.departure) >= 0
    BY <1>4, SectionsToIs, Zenon
  <2>3. train.stops[j] = mid
    BY <2>1, <1>4, ToAtMid
  <2>4. j \in 1 .. Len(train.stops)
    BY <1>2, <2>1
  <2>5. IndexOfStop(train, mid) = j
    BY <1>1, <2>3, <2>4, IndexOf
  <2>6. Stops(train, mid, cmd.to)
    BY <1>2, <2>1, <2>5 DEF Stops
  <2>7. s = FirstSec(trains, cmd, mid, id) /\ s.departure \in Int
    BY <2>1, <2>5, <2>6, <1>3
  <2>8. s.departure >= 0
    BY <2>2, <2>7, Overflow
  <2> QED
    BY <2>6, <2>7, <2>8
<1>5. ASSUME Stops(train, mid, cmd.to), s = FirstSec(trains, cmd, mid, id), s.departure >= 0
      PROVE  s \in SectionsTo(id) /\ s.mid = mid
  <2>1. IndexOfStop(train, mid) \in 1 .. key - 1
    <3>1. IndexOfStop(train, mid) \in 0 .. Len(train.stops)
      BY <1>1, IndexOf
    <3> QED
      BY <1>2, <1>5, <3>1 DEF Stops
  <2>2. s = ToAt(trains, cmd, id, IndexOfStop(train, mid)) /\ s.departure \in Int /\ s.mid = mid
    BY <1>3, <1>5
  <2>3. DaysOverflow(s.departure) >= 0
    BY <1>5, <2>2, Overflow
  <2> QED
    BY <2>1, <2>2, <2>3, SectionsToIs, Zenon
<1> QED
  BY <1>4, <1>5, Zenon

-----------------------------------------------------------------------------
(* Sections and journeys                                                   *)

(* The sections from the origin to mid, and the first ones on from mid.    *)
IsFrom(T, Q, mid, s) ==
  \E id \in DOMAIN T :
    /\ Stops(T[id], Q.from, mid)
    /\ Start(T, Q, id) \in T[id].begin .. T[id].end
    /\ s = FromSec(T, Q, mid, id, Start(T, Q, id))

IsFirst(T, Q, mid, s) ==
  \E id \in DOMAIN T :
    Stops(T[id], mid, Q.to) /\ s = FirstSec(T, Q, mid, id) /\ s.departure >= 0

(* Vf of a station.                                                        *)
LEMMA AtFrom ==
  ASSUME Setting(trains, cmd), NEW mid, NEW s
  PROVE  s \in At(mid, AllFrom) <=> IsFrom(trains, cmd, mid, s)
<1>1. s \in At(mid, AllFrom) <=> \E id \in DOMAIN trains : s \in SectionsFrom(id) /\ s.mid = mid
  BY Zenon DEF At, AllFrom
<1> QED
  BY <1>1, SectionsFromAre, Zenon DEF IsFrom

(* Vt of a station.                                                        *)
LEMMA AtTo ==
  ASSUME Setting(trains, cmd), NEW mid, NEW s
  PROVE  s \in At(mid, AllTo) <=> IsFirst(trains, cmd, mid, s)
<1>1. s \in At(mid, AllTo) <=> \E id \in DOMAIN trains : s \in SectionsTo(id) /\ s.mid = mid
  BY Zenon DEF At, AllTo
<1> QED
  BY <1>1, SectionsToAre, Zenon DEF IsFirst

(* A section from the origin leaves on the date asked for.                 *)
LEMMA FromFacts ==
  ASSUME NEW T, NEW Q, Setting(T, Q), NEW mid, NEW s, IsFrom(T, Q, mid, s)
  PROVE  /\ s.train \in DOMAIN T /\ s.mid = mid
         /\ s.departure \in Int /\ s.arrival \in Int /\ s.price \in Int
         /\ DaysOverflow(s.departure) = 0 /\ 0 <= s.departure /\ s.departure <= s.arrival
         /\ Stops(T[s.train], Q.from, mid)
<1>1. PICK id \in DOMAIN T :
        /\ Stops(T[id], Q.from, mid)
        /\ Start(T, Q, id) \in T[id].begin .. T[id].end
        /\ s = FromSec(T, Q, mid, id, Start(T, Q, id))
  BY DEF IsFrom
<1>2. IsTrain(T[id]) /\ T[id].begin \in Int /\ T[id].end \in Int /\ Q.date \in Int
  BY TrainIs DEF Setting
<1>3. PICK date \in Int : date = Start(T, Q, id)
  BY <1>1, <1>2
<1>4. /\ s.train = id /\ s.mid = mid
      /\ s.departure = DepartsOn(T[id], Q.date, Q.from, date)
      /\ s.arrival = ArrivesOn(T[id], Q.date, mid, date)
      /\ s.price = PriceOf(T[id], Q.from, mid)
  BY <1>1, <1>3, FromSecIs
<1>5. /\ s.departure \in Int /\ s.arrival \in Int /\ s.price \in Nat /\ s.departure <= s.arrival
  BY <1>1, <1>2, <1>3, <1>4, TimesOn
<1>6. DaysOverflow(s.departure) = 0
  <2>1. date = Q.date - LateAt(T[id], Q.from)
    BY <1>3 DEF Start
  <2> QED
    BY <1>1, <1>3, <1>4, <2>1, LateIs
<1>7. 0 <= s.departure
  BY <1>5, <1>6, Overflow
<1> QED
  BY <1>1, <1>4, <1>5, <1>6, <1>7

-----------------------------------------------------------------------------
(* Legs and journeys                                                       *)

OnLeg(T, Q, id, a, b, date) ==
  [train |-> id,
   departure |-> DepartsOn(T[id], Q.date, a, date),
   arrival |-> ArrivesOn(T[id], Q.date, b, date),
   price |-> PriceOf(T[id], a, b)]

(* The fields of a leg.                                                    *)
LEMMA OnLegIs ==
  ASSUME NEW T, NEW Q, NEW id, NEW a, NEW b, NEW date
  PROVE  /\ OnLeg(T, Q, id, a, b, date).train = id
         /\ OnLeg(T, Q, id, a, b, date).departure = DepartsOn(T[id], Q.date, a, date)
         /\ OnLeg(T, Q, id, a, b, date).arrival = ArrivesOn(T[id], Q.date, b, date)
         /\ OnLeg(T, Q, id, a, b, date).price = PriceOf(T[id], a, b)
BY DEF OnLeg

(* A leg, with the stops for the indices.                                  *)
LEMMA LegIs ==
  ASSUME NEW id, NEW a, NEW b, NEW date
  PROVE  Leg(id, IndexOfStop(trains[id], a), IndexOfStop(trains[id], b), date)
         = OnLeg(trains, cmd, id, a, b, date)
BY Zenon DEF Leg, OnLeg, DepartsOn, ArrivesOn, PriceOf

(* The legs between two stations are the runs of the trains that stop at   *)
(* both.                                                                   *)
LEMMA LegsAre ==
  ASSUME NEW a, NEW b, NEW leg
  PROVE  leg \in Legs(a, b)
           <=> \E id \in DOMAIN trains : \E date \in trains[id].begin .. trains[id].end :
                 Stops(trains[id], a, b) /\ leg = OnLeg(trains, cmd, id, a, b, date)
<1>1. leg \in Legs(a, b) <=> \E id \in DOMAIN trains : leg \in LegsOf(id, a, b)
  BY Zenon DEF Legs
<1>2. ASSUME NEW id \in DOMAIN trains
      PROVE  leg \in LegsOf(id, a, b)
               <=> \E date \in trains[id].begin .. trains[id].end :
                     Stops(trains[id], a, b) /\ leg = OnLeg(trains, cmd, id, a, b, date)
  <2>1. leg \in LegsOf(id, a, b)
        <=> \E date \in IF Stops(trains[id], a, b) THEN trains[id].begin .. trains[id].end ELSE {} :
              leg = Leg(id, IndexOfStop(trains[id], a), IndexOfStop(trains[id], b), date)
    BY Zenon DEF LegsOf, Stops
  <2> QED
    BY <2>1, LegIs, Zenon
<1> QED
  BY <1>1, <1>2, Zenon

(* A section to the destination as a leg.                                  *)
LEMMA LegOfTo ==
  ASSUME NEW T, NEW Q, NEW mid, NEW id, NEW date, NEW deleted
  PROVE  LegOf(ToSec(T, Q, mid, id, date, deleted)) = OnLeg(T, Q, id, mid, Q.to, date)
<1>1. PICK s : s = ToSec(T, Q, mid, id, date, deleted)
  OBVIOUS
<1>2. /\ s.train = id /\ s.departure = DepartsOn(T[id], Q.date, mid, date)
      /\ s.arrival = ArrivesOn(T[id], Q.date, Q.to, date) /\ s.price = PriceOf(T[id], mid, Q.to)
  BY <1>1, ToSecIs
<1> QED
  BY <1>1, <1>2 DEF LegOf, OnLeg

(* A section from the origin as a leg.                                     *)
LEMMA LegOfFrom ==
  ASSUME NEW T, NEW Q, NEW mid, NEW id, NEW date
  PROVE  LegOf(FromSec(T, Q, mid, id, date)) = OnLeg(T, Q, id, Q.from, mid, date)
<1>1. PICK s : s = FromSec(T, Q, mid, id, date)
  OBVIOUS
<1>2. /\ s.train = id /\ s.departure = DepartsOn(T[id], Q.date, Q.from, date)
      /\ s.arrival = ArrivesOn(T[id], Q.date, mid, date) /\ s.price = PriceOf(T[id], Q.from, mid)
  BY <1>1, FromSecIs
<1> QED
  BY <1>1, <1>2 DEF LegOf, OnLeg

(* What makes two legs a journey.                                          *)
LEMMA JourneyIs ==
  ASSUME NEW mid, NEW j
  PROVE  j \in Journeys(mid)
           <=> /\ j \in [from : Legs(cmd.from, mid), to : Legs(mid, cmd.to)]
               /\ j.from.train # j.to.train
               /\ DaysOverflow(j.from.departure) = 0
               /\ j.from.arrival <= j.to.departure
BY Zenon DEF Journeys

(* The origin of a journey is a section from the origin.                   *)
LEMMA LegIsFrom ==
  ASSUME Setting(trains, cmd), NEW mid, NEW leg \in Legs(cmd.from, mid), DaysOverflow(leg.departure) = 0
  PROVE  \E f : IsFrom(trains, cmd, mid, f) /\ LegOf(f) = leg
<1>1. PICK id \in DOMAIN trains : \E date \in trains[id].begin .. trains[id].end :
        Stops(trains[id], cmd.from, mid) /\ leg = OnLeg(trains, cmd, id, cmd.from, mid, date)
  BY LegsAre
<1>2. PICK date \in trains[id].begin .. trains[id].end :
        Stops(trains[id], cmd.from, mid) /\ leg = OnLeg(trains, cmd, id, cmd.from, mid, date)
  BY <1>1
<1>3. trains[id].begin \in Int /\ trains[id].end \in Int
  BY TrainIs
<1>4. leg.departure = DepartsOn(trains[id], cmd.date, cmd.from, date)
  BY <1>2, OnLegIs
<1>5. date = cmd.date - LateAt(trains[id], cmd.from)
  <2>1. date \in Int
    BY <1>3
  <2>2. DaysOverflow(DepartsOn(trains[id], cmd.date, cmd.from, date)) = 0
    BY <1>4, Zenon
  <2> QED
    BY <1>2, <2>1, <2>2, LateIs
<1>6. date = Start(trains, cmd, id)
  BY <1>5, Zenon DEF Start
<1>7. PICK f : f = FromSec(trains, cmd, mid, id, date)
  OBVIOUS
<1>8. IsFrom(trains, cmd, mid, f)
  BY <1>2, <1>6, <1>7, Zenon DEF IsFrom
<1>9. LegOf(f) = leg
  BY <1>2, <1>7, LegOfFrom
<1> QED
  BY <1>8, <1>9

(* A section from the origin is a leg.                                     *)
LEMMA FromIsLeg ==
  ASSUME Setting(trains, cmd), NEW mid, NEW f, IsFrom(trains, cmd, mid, f)
  PROVE  LegOf(f) \in Legs(cmd.from, mid)
<1>1. PICK id \in DOMAIN trains :
        /\ Stops(trains[id], cmd.from, mid)
        /\ Start(trains, cmd, id) \in trains[id].begin .. trains[id].end
        /\ f = FromSec(trains, cmd, mid, id, Start(trains, cmd, id))
  BY DEF IsFrom
<1>2. LegOf(f) = OnLeg(trains, cmd, id, cmd.from, mid, Start(trains, cmd, id))
  BY <1>1, LegOfFrom
<1> QED
  BY <1>1, <1>2, LegsAre, Zenon

-----------------------------------------------------------------------------
(* Where the sections to the destination are while those from the origin   *)
(* are met                                                                 *)

(* A section is no longer ready at a time: no earlier date is, nor, when   *)
(* it is deleted, any.                                                     *)
TooLate(train, day, mid, date, deleted, time) ==
  \A d \in train.begin .. train.end :
    d < date \/ deleted => DepartsOn(train, day, mid, d) < time

IsPlace(T, Q, mid, s, id, date, deleted) ==
  /\ id \in DOMAIN T
  /\ date \in T[id].begin .. T[id].end
  /\ deleted \in BOOLEAN
  /\ Stops(T[id], mid, Q.to)
  /\ s = ToSec(T, Q, mid, id, date, deleted)

(* A section to the destination is as it should be when those of F are the *)
(* ones to be met.                                                         *)
Placed(T, Q, mid, s, F) ==
  \E id, date, deleted :
    /\ IsPlace(T, Q, mid, s, id, date, deleted)
    /\ \A f \in F : TooLate(T[id], Q.date, mid, date, deleted, f.arrival)

(* The fields of a section at its place.                                   *)
LEMMA PlaceFacts ==
  ASSUME NEW T, NEW Q, Setting(T, Q), NEW mid, NEW s, NEW id, NEW date, NEW deleted,
         IsPlace(T, Q, mid, s, id, date, deleted)
  PROVE  /\ s.train = id /\ s.mid = mid /\ s.deleted = deleted
         /\ date \in Int /\ IsTrain(T[id]) /\ T[id].begin \in Int /\ T[id].end \in Int /\ Q.date \in Int
         /\ T[id].begin <= date /\ date <= T[id].end
         /\ s.departure = DepartsOn(T[id], Q.date, mid, date) /\ s.departure \in Int
         /\ s.arrival = ArrivesOn(T[id], Q.date, Q.to, date) /\ s.arrival \in Int
         /\ s.price = PriceOf(T[id], mid, Q.to) /\ s.price \in Int
         /\ s.res = T[id].end - date /\ s.res \in Nat
         /\ LegOf(s) = OnLeg(T, Q, id, mid, Q.to, date)
<1>0. /\ id \in DOMAIN T /\ date \in T[id].begin .. T[id].end
      /\ Stops(T[id], mid, Q.to)
      /\ s = ToSec(T, Q, mid, id, date, deleted)
  BY Zenon DEF IsPlace
<1>1. IsTrain(T[id]) /\ T[id].begin \in Int /\ T[id].end \in Int
  BY <1>0, TrainIs
<1>2. Q.date \in Int
  BY DEF Setting
<1>3. date \in Int /\ T[id].begin <= date /\ date <= T[id].end /\ T[id].end - date \in Nat
  BY <1>0, <1>1
<1>4. /\ s.train = id /\ s.mid = mid /\ s.deleted = deleted
      /\ s.departure = DepartsOn(T[id], Q.date, mid, date)
      /\ s.arrival = ArrivesOn(T[id], Q.date, Q.to, date)
      /\ s.price = PriceOf(T[id], mid, Q.to)
      /\ s.res = T[id].end - date
  BY <1>0, ToSecIs
<1>5. /\ DepartsOn(T[id], Q.date, mid, date) \in Int
      /\ ArrivesOn(T[id], Q.date, Q.to, date) \in Int
      /\ PriceOf(T[id], mid, Q.to) \in Nat
  BY <1>0, <1>1, <1>2, <1>3, TimesOn
<1>6. PriceOf(T[id], mid, Q.to) \in Int
  BY <1>5
<1>7. LegOf(s) = OnLeg(T, Q, id, mid, Q.to, date)
  BY <1>0, LegOfTo, Zenon
<1> QED
  BY <1>1, <1>2, <1>3, <1>4, <1>5, <1>6, <1>7, Zenon

(* The same when only that it has a place is known.                        *)
LEMMA PlacedFacts ==
  ASSUME NEW T, NEW Q, Setting(T, Q), NEW mid, NEW F, NEW s, Placed(T, Q, mid, s, F)
  PROVE  /\ s.train \in DOMAIN T /\ s.mid = mid /\ Stops(T[s.train], mid, Q.to)
         /\ s.departure \in Int /\ s.arrival \in Int /\ s.price \in Int
         /\ s.res \in Nat /\ s.res <= T[s.train].end - T[s.train].begin
<1>1. PICK id, date, deleted : IsPlace(T, Q, mid, s, id, date, deleted)
  BY Zenon DEF Placed
<1>2. id \in DOMAIN T /\ Stops(T[id], mid, Q.to)
  BY <1>1, Zenon DEF IsPlace
<1>3. /\ s.train = id /\ s.mid = mid
      /\ s.departure \in Int /\ s.arrival \in Int /\ s.price \in Int
      /\ s.res = T[id].end - date /\ s.res \in Nat /\ date \in Int /\ T[id].begin <= date
      /\ T[id].begin \in Int /\ T[id].end \in Int
  BY <1>1, PlaceFacts
<1>4. s.res <= T[id].end - T[id].begin
  BY <1>3
<1> QED
  BY <1>2, <1>3, <1>4, Zenon

(* The first section is at its place, whichever have to be met.            *)
LEMMA FirstPlaced ==
  ASSUME NEW T, NEW Q, Setting(T, Q), NEW mid, NEW s, IsFirst(T, Q, mid, s),
         NEW F, \A f \in F : f.arrival \in Int /\ 0 <= f.arrival
  PROVE  Placed(T, Q, mid, s, F) /\ ~ s.deleted
<1>1. PICK id \in DOMAIN T :
        Stops(T[id], mid, Q.to) /\ s = FirstSec(T, Q, mid, id) /\ s.departure >= 0
  BY DEF IsFirst
<1>2. PICK n : n = FirstDays(T, Q, mid, id)
  OBVIOUS
<1>3. PICK deleted : deleted = FALSE
  OBVIOUS
<1>4. /\ n \in 0 .. T[id].end - T[id].begin
      /\ T[id].begin + n \in T[id].begin .. T[id].end
      /\ PutOff(T[id], Q.date, mid, T[id].begin, 0, n)
  BY <1>1, <1>2, FirstDaysIs
<1>5. IsPlace(T, Q, mid, s, id, T[id].begin + n, deleted)
  BY <1>1, <1>2, <1>3, <1>4, Zenon DEF IsPlace, FirstSec
<1>6. ASSUME NEW f \in F
      PROVE  TooLate(T[id], Q.date, mid, T[id].begin + n, deleted, f.arrival)
  <2>1. ASSUME NEW d \in T[id].begin .. T[id].end, d < T[id].begin + n
        PROVE  DepartsOn(T[id], Q.date, mid, d) < f.arrival
    <3>1. T[id].begin \in Int /\ T[id].end \in Int /\ IsTrain(T[id]) /\ Q.date \in Int
      BY TrainIs DEF Setting
    <3>2. d \in Int /\ T[id].begin <= d
      BY <3>1
    <3>3. DepartsOn(T[id], Q.date, mid, d) < 0
      BY <3>2, <2>1, <1>4 DEF PutOff
    <3>4. DepartsOn(T[id], Q.date, mid, d) \in Int
      BY <3>1, <3>2, <1>1, TimesOn
    <3> QED
      BY <3>3, <3>4
  <2> QED
    BY <2>1, <1>3, Zenon DEF TooLate
<1>7. Placed(T, Q, mid, s, F)
  BY <1>5, <1>6, Zenon DEF Placed
<1>8. s.deleted = deleted
  BY <1>5, PlaceFacts
<1> QED
  BY <1>3, <1>7, <1>8, Zenon

(* The move of a section at its place.                                     *)
PlaceMove(T, Q, mid, s, id, date, deleted, time, i, n, b) ==
  /\ n \in Nat
  /\ date + n \in T[id].begin .. T[id].end
  /\ PutOff(T[id], Q.date, mid, date, time, n)
  /\ b \in BOOLEAN
  /\ b <=> deleted \/ DepartsOn(T[id], Q.date, mid, date + n) < time
  /\ IsPlace(T, Q, mid, Moved(s, time), id, date + n, b)
  /\ \A k \in 1 .. n : IsPlace(T, Q, mid, PairsOf(s, i, time)[k].first, id, date + k, deleted)
  /\ PairsOf(s, i, time)
       = [k \in 1 .. n |-> Pair(ToSec(T, Q, mid, id, date + k, deleted), i)]

(* A section that is moved comes to a later place, or is deleted.          *)
LEMMA PlaceMoves ==
  ASSUME NEW T, NEW Q, Setting(T, Q), NEW mid, NEW s, NEW id, NEW date, NEW deleted,
         IsPlace(T, Q, mid, s, id, date, deleted), NEW time \in Int, NEW i
  PROVE  \E n, b : PlaceMove(T, Q, mid, s, id, date, deleted, time, i, n, b)
<1>0. /\ id \in DOMAIN T /\ date \in T[id].begin .. T[id].end /\ deleted \in BOOLEAN
      /\ Stops(T[id], mid, Q.to) /\ s = ToSec(T, Q, mid, id, date, deleted)
  BY Zenon DEF IsPlace
<1>1. T[id].begin \in Int /\ T[id].end \in Int
  BY <1>0, TrainIs
<1>2. PICK n, b : MoveOf(T, Q, mid, id, date, deleted, time, i, s, n, b)
  BY <1>0, MovedIs
<1>3. /\ b \in BOOLEAN
      /\ PutOff(T[id], Q.date, mid, date, time, n)
      /\ b <=> deleted \/ DepartsOn(T[id], Q.date, mid, date + n) < time
      /\ Moved(s, time) = ToSec(T, Q, mid, id, date + n, b)
      /\ PairsOf(s, i, time)
           = [k \in 1 .. n |-> Pair(ToSec(T, Q, mid, id, date + k, deleted), i)]
  BY <1>2, Zenon DEF MoveOf
<1>4. n \in 0 .. T[id].end - date
  BY <1>3, Zenon DEF PutOff
<1>5. /\ n \in Nat /\ date + n \in T[id].begin .. T[id].end
      /\ \A k \in 1 .. n : date + k \in T[id].begin .. T[id].end
  BY <1>0, <1>1, <1>4
<1>6. IsPlace(T, Q, mid, Moved(s, time), id, date + n, b)
  BY <1>0, <1>3, <1>5, Zenon DEF IsPlace
<1>7. ASSUME NEW k \in 1 .. n
      PROVE  IsPlace(T, Q, mid, PairsOf(s, i, time)[k].first, id, date + k, deleted)
  <2>1. PairsOf(s, i, time)[k] = Pair(ToSec(T, Q, mid, id, date + k, deleted), i)
    BY <1>3
  <2>2. PairsOf(s, i, time)[k].first = ToSec(T, Q, mid, id, date + k, deleted)
    BY <2>1, PairIs, Zenon
  <2> QED
    BY <2>2, <1>0, <1>5, Zenon DEF IsPlace
<1> QED
  BY <1>3, <1>5, <1>6, <1>7, Zenon DEF PlaceMove

(* What becomes of a section when one from the origin has to be met, and   *)
(* what is pushed on the way.                                              *)
MovedFor(T, Q, mid, s, f, G, i) ==
  /\ Placed(T, Q, mid, Moved(s, f.arrival), G)
  /\ Moved(s, f.arrival).train = s.train
  /\ Moved(s, f.arrival).deleted \/ f.arrival <= Moved(s, f.arrival).departure
  /\ Len(PairsOf(s, i, f.arrival)) = s.res - Moved(s, f.arrival).res
  /\ Len(PairsOf(s, i, f.arrival)) \in Nat
  /\ \A k \in 1 .. Len(PairsOf(s, i, f.arrival)) :
       /\ PairsOf(s, i, f.arrival)[k].second = i
       /\ PairsOf(s, i, f.arrival)[k].first.train = s.train
       /\ PairsOf(s, i, f.arrival)[k].first.price \in Int
       /\ PairsOf(s, i, f.arrival)[k].first.arrival \in Int
  /\ ~ Moved(s, f.arrival).deleted =>
       /\ ~ s.deleted
       /\ \/ Moved(s, f.arrival) = s
          \/ \E k \in 1 .. Len(PairsOf(s, i, f.arrival)) :
               PairsOf(s, i, f.arrival)[k] = Pair(Moved(s, f.arrival), i)

(* A section that is moved for the next one to be met is as it should be   *)
(* for the later ones.                                                     *)
LEMMA PlacedMoves ==
  ASSUME NEW T, NEW Q, Setting(T, Q), NEW mid, NEW F, NEW s, Placed(T, Q, mid, s, F),
         NEW f \in F, \A g \in F : g.arrival \in Int,
         NEW G \in SUBSET F, \A g \in G : f.arrival <= g.arrival, NEW i
  PROVE  MovedFor(T, Q, mid, s, f, G, i)
<1>1. PICK id, date, deleted :
        /\ IsPlace(T, Q, mid, s, id, date, deleted)
        /\ \A g \in F : TooLate(T[id], Q.date, mid, date, deleted, g.arrival)
  BY Zenon DEF Placed
<1>2. PICK time \in Int : time = f.arrival
  OBVIOUS
<1>20. PICK n, b : PlaceMove(T, Q, mid, s, id, date, deleted, time, i, n, b)
  BY <1>1, PlaceMoves
<1>3. /\ n \in Nat
      /\ date + n \in T[id].begin .. T[id].end
      /\ PutOff(T[id], Q.date, mid, date, time, n)
      /\ b \in BOOLEAN
      /\ b <=> deleted \/ DepartsOn(T[id], Q.date, mid, date + n) < time
      /\ IsPlace(T, Q, mid, Moved(s, time), id, date + n, b)
      /\ \A k \in 1 .. n : IsPlace(T, Q, mid, PairsOf(s, i, time)[k].first, id, date + k, deleted)
      /\ PairsOf(s, i, time)
           = [k \in 1 .. n |-> Pair(ToSec(T, Q, mid, id, date + k, deleted), i)]
  BY <1>20, Zenon DEF PlaceMove
<1>4. PICK m : m = Moved(s, time)
  OBVIOUS
<1>5. PICK p : p = PairsOf(s, i, time)
  OBVIOUS
<1>6. /\ s.train = id /\ s.res = T[id].end - date /\ s.deleted = deleted
      /\ date \in Int /\ IsTrain(T[id]) /\ T[id].begin \in Int /\ T[id].end \in Int /\ Q.date \in Int
      /\ T[id].begin <= date /\ date <= T[id].end
  BY <1>1, PlaceFacts
<1>7. /\ m.train = id /\ m.res = T[id].end - (date + n) /\ m.deleted = b
      /\ m.departure = DepartsOn(T[id], Q.date, mid, date + n)
      /\ m.departure \in Int
  <2>1. IsPlace(T, Q, mid, m, id, date + n, b)
    BY <1>3, <1>4, Zenon
  <2> QED
    BY <2>1, PlaceFacts
<1>8. Stops(T[id], mid, Q.to) /\ id \in DOMAIN T /\ deleted \in BOOLEAN
  BY <1>1, Zenon DEF IsPlace
<1>9. Len(p) = n
  BY <1>3, <1>5
<1>10. Placed(T, Q, mid, m, G)
  <2>1. ASSUME NEW g \in G, NEW d \in T[id].begin .. T[id].end, d < date + n \/ b
        PROVE  DepartsOn(T[id], Q.date, mid, d) < g.arrival
    <3>1. /\ d \in Int /\ T[id].begin <= d /\ d <= T[id].end
          /\ g \in F /\ time <= g.arrival /\ g.arrival \in Int
      BY <1>2, <1>6
    <3>2. DepartsOn(T[id], Q.date, mid, d) \in Int
      BY <3>1, <1>6, <1>8, TimesOn
    <3>3. TooLate(T[id], Q.date, mid, date, deleted, g.arrival)
      BY <3>1, <1>1
    <3>4. CASE d < date \/ deleted
      BY <3>3, <3>4, Zenon DEF TooLate
    <3>5. CASE date <= d /\ d < date + n
      <4>1. DepartsOn(T[id], Q.date, mid, d) < time
        BY <3>1, <3>5, <1>3, Zenon DEF PutOff
      <4> QED
        BY <4>1, <3>1, <3>2
    <3>6. CASE b /\ ~ deleted /\ date + n <= d
      <4>1. DepartsOn(T[id], Q.date, mid, date + n) < time
        BY <3>6, <1>3, Zenon
      <4>2. ~ (DepartsOn(T[id], Q.date, mid, date + n) >= time)
        BY <4>1, <1>7
      <4>3. date + n = T[id].end
        BY <4>2, <1>3, Zenon DEF PutOff
      <4>4. d = date + n
        BY <4>3, <3>1, <3>6, <1>3, <1>6
      <4> QED
        BY <4>1, <4>4, <3>1, <3>2
    <3>7. d < date \/ (date <= d /\ d < date + n) \/ date + n <= d
      BY <3>1, <1>3, <1>6
    <3> HIDE <2>1
    <3>8. d < date + n \/ b
      BY <2>1
    <3>9. d < date + n => ~ (date + n <= d)
      BY <3>1, <1>3, <1>6
    <3> QED
      BY <3>4, <3>5, <3>6, <3>7, <3>8, <3>9, Zenon
  <2>2. \A g \in G : TooLate(T[id], Q.date, mid, date + n, b, g.arrival)
    BY <2>1, Zenon DEF TooLate
  <2>3. IsPlace(T, Q, mid, m, id, date + n, b)
    BY <1>3, <1>4, Zenon
  <2> QED
    BY <2>2, <2>3, Zenon DEF Placed
<1>11. ~ b => f.arrival <= m.departure
  <2>1. ~ b => ~ (m.departure < time)
    BY <1>3, <1>7, Zenon
  <2> QED
    BY <2>1, <1>2, <1>7
<1>12. n = s.res - m.res
  BY <1>3, <1>6, <1>7
<1>13. ASSUME NEW k \in 1 .. n
       PROVE  /\ p[k].second = i /\ p[k].first.train = s.train
              /\ p[k].first.price \in Int /\ p[k].first.arrival \in Int
  <2>1. p[k] = Pair(ToSec(T, Q, mid, id, date + k, deleted), i)
    BY <1>3, <1>5
  <2>2. IsPlace(T, Q, mid, p[k].first, id, date + k, deleted)
    BY <1>3, <1>5, Zenon
  <2>3. p[k].first.train = id /\ p[k].first.price \in Int /\ p[k].first.arrival \in Int
    BY <2>2, PlaceFacts
  <2>4. p[k].second = i
    BY <2>1, PairIs
  <2> QED
    BY <2>1, <2>3, <2>4, <1>6, Zenon
<1>14. ASSUME ~ b
       PROVE  ~ deleted /\ (m = s \/ \E k \in 1 .. n : p[k] = Pair(m, i))
  <2>1. ~ deleted
    BY <1>3, <1>14, Zenon
  <2>2. b = deleted
    <3>1. b = FALSE /\ deleted = FALSE
      BY <2>1, <1>3, <1>8, <1>14, BoolIs, Zenon
    <3> QED
      BY <3>1, Zenon
  <2>3. m = ToSec(T, Q, mid, id, date + n, deleted)
    BY <1>3, <1>4, <2>2, Zenon DEF IsPlace
  <2>4. CASE n = 0
    <3>1. date + n = date
      BY <2>4, <1>6
    <3>2. m = s
      BY <3>1, <2>3, <1>1, Zenon DEF IsPlace
    <3> QED
      BY <3>2, <2>1
  <2>5. CASE n # 0
    <3>1. n \in 1 .. n
      BY <2>5, <1>3
    <3>2. p[n] = Pair(ToSec(T, Q, mid, id, date + n, deleted), i)
      BY <3>1, <1>3, <1>5
    <3>3. p[n] = Pair(m, i)
      BY <3>2, <2>3, Zenon
    <3> QED
      BY <3>1, <3>3, <2>1, Zenon
  <2> QED
    BY <2>4, <2>5
<1>15. /\ m.deleted \/ f.arrival <= m.departure
       /\ ~ m.deleted => ~ s.deleted /\ (m = s \/ \E k \in 1 .. n : p[k] = Pair(m, i))
  BY <1>6, <1>7, <1>11, <1>14, Zenon
<1>16. m = Moved(s, f.arrival) /\ p = PairsOf(s, i, f.arrival) /\ m.train = s.train
  BY <1>2, <1>4, <1>5, <1>6, <1>7, Zenon
<1> QED
  BY <1>3, <1>9, <1>10, <1>12, <1>13, <1>15, <1>16, Zenon DEF MovedFor

(* Sums                                                                    *)

(* p[k] is the sum of the first k of the numbers e.                        *)
IsSum(p, e, n) ==
  /\ p[0] = 0
  /\ \A k \in 1 .. n : p[k] = p[k - 1] + e[k]

(* There are sums of the numbers,                                          *)
LEMMA SumExists ==
  ASSUME NEW e, NEW n \in Nat
  PROVE  \E p : IsSum(p, e, n)
<1> DEFINE Missing == {m \in Nat : ~ \E p : IsSum(p, e, m)}
<1>1. ASSUME NEW m \in Missing, \A y \in Missing : m <= y
      PROVE  FALSE
  <2>1. m # 0
    <3> DEFINE g == [k \in 0 .. 0 |-> 0]
    <3>1. IsSum(g, e, 0)
      BY DEF IsSum
    <3> QED
      BY <3>1, Zenon
  <2>2. m \in Nat /\ m - 1 \in Nat /\ ~ (m <= m - 1)
    BY <2>1
  <2>3. PICK p : IsSum(p, e, m - 1)
    BY <1>1, <2>2, Zenon
  <2> DEFINE g == [k \in 0 .. m |-> IF k = m THEN p[m - 1] + e[m] ELSE p[k]]
  <2>4. p[0] = 0 /\ \A k \in 1 .. m - 1 : p[k] = p[k - 1] + e[k]
    BY <2>3, Zenon DEF IsSum
  <2>5. /\ g[m] = p[m - 1] + e[m] /\ g[0] = p[0] /\ g[m - 1] = p[m - 1]
        /\ \A k \in 1 .. m - 1 : g[k] = p[k] /\ g[k - 1] = p[k - 1]
        /\ \A k \in 1 .. m : k = m \/ k \in 1 .. m - 1
    BY <2>1, <2>2
  <2> HIDE DEF g
  <2>6. IsSum(g, e, m)
    BY <2>4, <2>5, Zenon DEF IsSum
  <2> QED
    BY <2>6, Zenon
<1>2. Missing = {}
  <2>1. Missing \in SUBSET Nat
    OBVIOUS
  <2> HIDE DEF Missing
  <2> QED
    BY <1>1, <2>1, LeastOf, Zenon
<1> QED
  BY <1>2, Zenon

(* no larger than as many times their bound,                               *)
LEMMA SumBound ==
  ASSUME NEW p, NEW e, NEW n \in Nat, IsSum(p, e, n), NEW M \in Nat,
         \A k \in 1 .. n : e[k] \in Nat /\ e[k] <= M
  PROVE  \A k \in 0 .. n : p[k] \in Nat /\ p[k] <= k * M
<1> DEFINE Bad == {k \in Nat : k <= n /\ ~ (p[k] \in Nat /\ p[k] <= k * M)}
<1>1. p[0] = 0 /\ \A k \in 1 .. n : p[k] = p[k - 1] + e[k]
  BY Zenon DEF IsSum
<1>2. ASSUME NEW m \in Bad, \A y \in Bad : m <= y
      PROVE  FALSE
  <2>1. m # 0
    BY <1>1
  <2>2. /\ m \in Nat /\ m <= n /\ m - 1 \in Nat /\ m - 1 <= n /\ ~ (m <= m - 1) /\ m \in 1 .. n
    BY <2>1
  <2>3. p[m - 1] \in Nat /\ p[m - 1] <= (m - 1) * M
    BY <2>2, <1>2
  <2>4. p[m] = p[m - 1] + e[m] /\ e[m] \in Nat /\ e[m] <= M
    BY <2>2, <1>1
  <2>5. (m - 1) * M + M = m * M
    BY <2>2
  <2>6. m * M \in Int /\ (m - 1) * M \in Int
    BY <2>2
  <2>7. p[m] \in Nat /\ p[m] <= m * M
    BY <2>3, <2>4, <2>5, <2>6
  <2> QED
    BY <2>7
<1>3. Bad = {}
  <2>1. Bad \in SUBSET Nat
    OBVIOUS
  <2> HIDE DEF Bad
  <2> QED
    BY <1>2, <2>1, LeastOf, Zenon
<1> QED
  BY <1>3

(* and they are natural numbers.                                           *)
LEMMA SumIsNat ==
  ASSUME NEW p, NEW e, NEW n \in Nat, IsSum(p, e, n), \A k \in 1 .. n : e[k] \in Nat
  PROVE  \A k \in 0 .. n : p[k] \in Nat
<1> DEFINE Bad == {k \in Nat : k <= n /\ p[k] \notin Nat}
<1>1. p[0] = 0 /\ \A k \in 1 .. n : p[k] = p[k - 1] + e[k]
  BY Zenon DEF IsSum
<1>2. ASSUME NEW m \in Bad, \A y \in Bad : m <= y
      PROVE  FALSE
  <2>1. m # 0
    BY <1>1
  <2>2. /\ m \in Nat /\ m <= n /\ m - 1 \in Nat /\ m - 1 <= n /\ ~ (m <= m - 1) /\ m \in 1 .. n
    BY <2>1
  <2>3. p[m - 1] \in Nat
    BY <2>2, <1>2
  <2>4. p[m] = p[m - 1] + e[m] /\ e[m] \in Nat
    BY <2>2, <1>1
  <2> QED
    BY <2>3, <2>4
<1>3. Bad = {}
  <2>1. Bad \in SUBSET Nat
    OBVIOUS
  <2> HIDE DEF Bad
  <2> QED
    BY <1>2, <2>1, LeastOf, Zenon
<1> QED
  BY <1>3

-----------------------------------------------------------------------------
(* The queue after all sections have been moved                            *)

IsAfter(f, heap, list, time) ==
  f = [i \in 0 .. Len(list) |->
         IF i = 0 THEN heap ELSE PushedAll(f[i - 1], PairsOf(list[i], i, time))]

(* It is what QueueAfter uses.                                             *)
LEMMA QueueAfterIs ==
  ASSUME NEW time
  PROVE  QueueAfter(time) = (CHOOSE f : IsAfter(f, queue, tos, time))[Len(tos)]
BY DEF QueueAfter, IsAfter, Pairs, PairsOf

(* The function that pushes for section after section exists.              *)
LEMMA AfterExists ==
  ASSUME NEW heap, NEW list, NEW time, Len(list) \in Nat
  PROVE  \E f : IsAfter(f, heap, list, time)
<1> DEFINE Rec(f, L) ==
             f = [i \in 0 .. L |->
                    IF i = 0 THEN heap ELSE PushedAll(f[i - 1], PairsOf(list[i], i, time))]
           Missing == {n \in Nat : ~ \E f : Rec(f, n)}
<1>1. ASSUME NEW m \in Missing, \A y \in Missing : m <= y
      PROVE  FALSE
  <2>1. m # 0
    <3> DEFINE g == [n \in 0 .. 0 |-> heap]
    <3>1. Rec(g, 0)
      OBVIOUS
    <3> QED
      BY <3>1, Zenon
  <2>2. m \in Nat /\ m - 1 \in Nat /\ ~ (m <= m - 1)
    BY <2>1
  <2>3. PICK f : Rec(f, m - 1)
    BY <1>1, <2>2, Zenon
  <2> DEFINE g == [n \in 0 .. m |-> IF n = m THEN PushedAll(f[m - 1], PairsOf(list[m], m, time)) ELSE f[n]]
  <2>4. \A n \in 0 .. m - 1 : f[n] = IF n = 0 THEN heap ELSE PushedAll(f[n - 1], PairsOf(list[n], n, time))
    BY <2>3, Zenon
  <2>5. /\ g[m] = PushedAll(f[m - 1], PairsOf(list[m], m, time))
        /\ \A n \in 0 .. m - 1 : g[n] = f[n]
        /\ \A n \in 0 .. m : n = m \/ n \in 0 .. m - 1
        /\ \A n \in 0 .. m : n # 0 => n - 1 \in 0 .. m - 1
    BY <2>2
  <2>6. g = [n \in 0 .. m |-> g[n]]
    OBVIOUS
  <2> HIDE DEF g
  <2>7. \A n \in 0 .. m : g[n] = IF n = 0 THEN heap ELSE PushedAll(g[n - 1], PairsOf(list[n], n, time))
    BY <2>1, <2>4, <2>5
  <2>8. Rec(g, m)
    BY <2>6, <2>7
  <2> QED
    BY <2>8, Zenon
<1>2. Missing = {}
  <2>1. Missing \in SUBSET Nat
    OBVIOUS
  <2> HIDE DEF Missing
  <2> QED
    BY <1>1, <2>1, LeastOf, Zenon
<1> QED
  BY <1>2, Zenon DEF IsAfter

(* What is pushed for all the sections is in the heap, with all that was.  *)
LEMMA AfterHeap ==
  ASSUME NEW ids, NEW time, Len(tos) \in Nat,
         NEW p1, NEW e1, IsSum(p1, e1, Len(tos)), NEW p2, NEW e2, IsSum(p2, e2, Len(tos)),
         Heap(queue, ids, cmd.sort, p1[Len(tos)]),
         \A i \in 1 .. Len(tos) :
           /\ e1[i] \in Nat /\ e2[i] \in Nat
           /\ Len(PairsOf(tos[i], i, time)) \in Nat
           /\ Len(PairsOf(tos[i], i, time)) = e2[i] - e1[i]
           /\ \A k \in 1 .. Len(PairsOf(tos[i], i, time)) : IsPair(ids, PairsOf(tos[i], i, time)[k])
  PROVE  /\ Heap(QueueAfter(time), ids, cmd.sort, p2[Len(tos)])
         /\ \A i \in 1 .. Len(tos) : \A k \in 1 .. Len(PairsOf(tos[i], i, time)) :
              InHeap(QueueAfter(time), PairsOf(tos[i], i, time)[k])
         /\ \A u : InHeap(queue, u) => InHeap(QueueAfter(time), u)
<1> DEFINE L == Len(tos)
           f == CHOOSE f : IsAfter(f, queue, tos, time)
           w(n) == p1[L] + (p2[n] - p1[n])
           P(n) == PairsOf(tos[n], n, time)
           Good(n) == /\ Heap(f[n], ids, cmd.sort, w(n))
                      /\ \A i \in 1 .. n : \A k \in 1 .. Len(P(i)) : InHeap(f[n], P(i)[k])
                      /\ \A u : InHeap(queue, u) => InHeap(f[n], u)
           Bad == {n \in Nat : n <= L /\ ~ Good(n)}
<1>1. IsAfter(f, queue, tos, time)
  BY AfterExists, Zenon
<1>2. QueueAfter(time) = f[L]
  BY QueueAfterIs, Zenon
<1> HIDE DEF f
<1>3. \A n \in 0 .. L : f[n] = IF n = 0 THEN queue ELSE PushedAll(f[n - 1], P(n))
  BY <1>1, Zenon DEF IsAfter
<1>4. /\ \A k \in 0 .. L : p1[k] \in Nat
      /\ \A k \in 0 .. L : p2[k] \in Nat
  BY SumIsNat
<1>5. /\ p1[0] = 0 /\ p2[0] = 0
      /\ \A k \in 1 .. L : p1[k] = p1[k - 1] + e1[k]
      /\ \A k \in 1 .. L : p2[k] = p2[k - 1] + e2[k]
  BY Zenon DEF IsSum
<1>6. ASSUME NEW m \in Bad, \A y \in Bad : m <= y
      PROVE  FALSE
  <2>1. m # 0
    <3>0. 0 \in 0 .. L /\ L \in 0 .. L
      OBVIOUS
    <3>1. /\ f[0] = queue
          /\ w(0) = p1[L]
          /\ \A i : i \notin 1 .. 0
      <4>1. f[0] = queue
        BY <3>0, <1>3, Zenon
      <4>2. p1[L] \in Nat /\ p1[0] = 0 /\ p2[0] = 0
        BY <3>0, <1>4, <1>5, Zenon
      <4>3. w(0) = p1[L]
        <5> HIDE DEF L
        <5> QED
          BY <4>2
      <4>4. \A i : i \notin 1 .. 0
        OBVIOUS
      <4> QED
        BY <4>1, <4>3, <4>4, Zenon
    <3>2. Good(0)
      BY <3>1, Zenon
    <3> QED
      BY <3>2, Zenon
  <2>2. /\ m \in Nat /\ m <= L /\ m - 1 \in Nat /\ m - 1 <= L /\ ~ (m <= m - 1)
        /\ m \in 0 .. L /\ m \in 1 .. L /\ m - 1 \in 0 .. L
        /\ \A i \in 1 .. m : i = m \/ i \in 1 .. m - 1
    BY <2>1
  <2>3. Good(m - 1)
    BY <2>2, <1>6, Zenon
  <2>4. f[m] = PushedAll(f[m - 1], P(m))
    BY <2>1, <2>2, <1>3, Zenon
  <2> DEFINE h == f[m - 1]
             v == P(m)
  <2>5. /\ Heap(h, ids, cmd.sort, w(m - 1))
        /\ \A i \in 1 .. m - 1 : \A k \in 1 .. Len(P(i)) : InHeap(h, P(i)[k])
        /\ \A u : InHeap(queue, u) => InHeap(h, u)
    BY <2>3, Zenon
  <2>6. Len(v) \in Nat /\ Len(v) = e2[m] - e1[m] /\ \A k \in 1 .. Len(v) : IsPair(ids, v[k])
    BY <2>2, Zenon
  <2>7. w(m - 1) + Len(v) = w(m)
    <3>1. p1[m] = p1[m - 1] + e1[m] /\ p2[m] = p2[m - 1] + e2[m] /\ e1[m] \in Nat /\ e2[m] \in Nat
      BY <2>2, <1>5
    <3>2. p1[m - 1] \in Nat /\ p2[m - 1] \in Nat /\ p1[L] \in Nat
      BY <2>2, <1>4
    <3> HIDE DEF L, v
    <3> QED
      BY <2>6, <3>1, <3>2
  <2> HIDE DEF h, v, P
  <2>8. /\ Heap(PushedAll(h, v), ids, cmd.sort, w(m - 1) + Len(v))
        /\ \A n \in 1 .. Len(v) : InHeap(PushedAll(h, v), v[n])
        /\ \A u : InHeap(h, u) => InHeap(PushedAll(h, v), u)
    BY <2>5, <2>6, PushedAllHeap, Zenon
  <2>9. f[m] = PushedAll(h, v) /\ v = P(m)
    BY <2>4, Zenon DEF h, v
  <2> HIDE DEF w
  <2>10. Good(m)
    BY <2>2, <2>5, <2>7, <2>8, <2>9, Zenon
  <2> QED
    BY <2>10, Zenon
<1>7. Bad = {}
  <2>1. Bad \in SUBSET Nat
    OBVIOUS
  <2> HIDE DEF Bad
  <2> QED
    BY <1>6, <2>1, LeastOf, Zenon
<1>8. Good(L)
  <2>1. L \in Nat /\ L <= L
    OBVIOUS
  <2> QED
    BY <2>1, <1>7, Zenon
<1>9. w(L) = p2[L]
  <2>1. L \in 0 .. L
    OBVIOUS
  <2>2. p1[L] \in Nat /\ p2[L] \in Nat
    BY <2>1, <1>4
  <2> QED
    BY <2>2
<1> QED
  BY <1>2, <1>8, <1>9, Zenon

(* Finitely many numbers have a bound.                                     *)
LEMMA BoundExists ==
  ASSUME NEW e, NEW n \in Nat, \A k \in 1 .. n : e[k] \in Nat
  PROVE  \E m \in Nat : \A k \in 1 .. n : e[k] <= m
<1> DEFINE Missing == {l \in Nat : l <= n /\ ~ \E m \in Nat : \A k \in 1 .. l : e[k] <= m}
<1>1. ASSUME NEW l \in Missing, \A y \in Missing : l <= y
      PROVE  FALSE
  <2>1. l # 0
    <3>1. \A k \in 1 .. 0 : e[k] <= 0
      OBVIOUS
    <3> QED
      BY <3>1, Zenon
  <2>2. l \in Nat /\ l - 1 \in Nat /\ ~ (l <= l - 1) /\ l <= n /\ l - 1 <= n /\ l \in 1 .. n
        /\ \A k \in 1 .. l : k = l \/ k \in 1 .. l - 1
    BY <2>1
  <2>3. PICK m \in Nat : \A k \in 1 .. l - 1 : e[k] <= m
    BY <1>1, <2>2, Zenon
  <2>4. PICK c \in Nat : c = e[l]
    BY <2>2
  <2>5. m + c \in Nat /\ \A x \in Nat : x <= m \/ x = c => x <= m + c
    OBVIOUS
  <2>6. ASSUME NEW k \in 1 .. l
        PROVE  e[k] <= m + c
    <3>1. k = l => e[k] = c
      BY <2>4
    <3>2. k # l => e[k] <= m
      BY <2>2, <2>3, Zenon
    <3>3. e[k] \in Nat
      BY <2>2
    <3> QED
      BY <3>1, <3>2, <3>3, <2>5, Zenon
  <2> QED
    BY <2>2, <2>5, <2>6, Zenon
<1>2. Missing = {}
  <2>1. Missing \in SUBSET Nat
    OBVIOUS
  <2> HIDE DEF Missing
  <2> QED
    BY <1>1, <2>1, LeastOf, Zenon
<1>3. n \in Nat /\ n <= n
  OBVIOUS
<1> QED
  BY <1>2, <1>3, Zenon

(* The maximum of a set that has a bound.                                  *)
LEMMA MaxIs ==
  ASSUME NEW S \in SUBSET Nat, S # {}, NEW m \in Nat, \A y \in S : y <= m
  PROVE  Max(S) \in S /\ \A y \in S : Max(S) >= y
<1> DEFINE U == {x \in Nat : \A y \in S : y <= x}
<1>1. U \in SUBSET Nat /\ U # {}
  OBVIOUS
<1>2. PICK x \in U : \A y \in U : x <= y
  <2> HIDE DEF U
  <2> QED
    BY <1>1, LeastOf
<1>3. x \in Nat /\ \A y \in S : y <= x
  OBVIOUS
<1>4. x \in S
  <2>1. SUFFICES ASSUME x \notin S PROVE FALSE
    OBVIOUS
  <2>2. PICK z \in S : TRUE
    OBVIOUS
  <2>3. z \in Nat /\ z <= x /\ z # x
    BY <2>1, <2>2, <1>3
  <2>4. x - 1 \in Nat /\ ~ (x <= x - 1)
    BY <2>3, <1>3
  <2>5. \A y \in S : y <= x - 1
    <3>1. ASSUME NEW y \in S PROVE y <= x - 1
      <4>1. y \in Nat /\ y <= x /\ y # x
        BY <2>1, <1>3
      <4> QED
        BY <4>1, <1>3
    <3> QED
      BY <3>1
  <2>6. x - 1 \in U
    BY <2>4, <2>5
  <2> HIDE DEF U
  <2>7. x <= x - 1
    BY <2>6, <1>2
  <2> QED
    BY <2>7, <2>4
<1>5. \E t \in S : \A y \in S : t >= y
  <2>1. \A y \in S : x >= y
    BY <1>3
  <2> QED
    BY <2>1, <1>4
<1> QED
  BY <1>5, Zenon DEF Max

(* No more is pushed for a section than its train has dates.               *)
LEMMA MaxPushedIs ==
  ASSUME Setting(trains, cmd)
  PROVE  \E M \in Nat :
           /\ MaxPushed = Len(trains) * M
           /\ \A id \in DOMAIN trains : trains[id].end - trains[id].begin + 1 <= M
<1> DEFINE e == [id \in DOMAIN trains |-> trains[id].end - trains[id].begin + 1]
           S == {0} \cup {e[id] : id \in DOMAIN trains}
<1>1. Len(trains) \in Nat /\ DOMAIN trains = 1 .. Len(trains)
  BY DEF Setting
<1>2. \A id \in DOMAIN trains : e[id] \in Nat
  <2>1. ASSUME NEW id \in DOMAIN trains PROVE e[id] \in Nat
    <3>1. trains[id].begin \in Int /\ trains[id].end \in Int /\ trains[id].begin <= trains[id].end
      BY TrainIs
    <3> QED
      BY <3>1
  <2> QED
    BY <2>1
<1>3. PICK m \in Nat : \A id \in 1 .. Len(trains) : e[id] <= m
  <2> HIDE DEF e
  <2> QED
    BY <1>1, <1>2, BoundExists
<1>4. S \in SUBSET Nat /\ S # {} /\ \A y \in S : y <= m
  <2> HIDE DEF e
  <2> QED
    BY <1>1, <1>2, <1>3
<1>5. Max(S) \in S /\ \A y \in S : Max(S) >= y
  <2> HIDE DEF S
  <2> QED
    BY <1>4, MaxIs
<1>6. S = {0} \cup {trains[id].end - trains[id].begin + 1 : id \in DOMAIN trains}
  OBVIOUS
<1>7. MaxPushed = Len(trains) * Max(S)
  BY <1>6, Zenon DEF MaxPushed
<1>8. PICK M \in Nat : M = Max(S)
  BY <1>4, <1>5, Zenon
<1>9. ASSUME NEW id \in DOMAIN trains
      PROVE  trains[id].end - trains[id].begin + 1 <= M
  <2>1. e[id] \in S
    <3> HIDE DEF e
    <3> QED
      OBVIOUS
  <2>2. M >= e[id]
    BY <2>1, <1>5, <1>8, Zenon
  <2>3. e[id] \in Nat /\ e[id] = trains[id].end - trains[id].begin + 1
    BY <1>2
  <2> QED
    BY <2>2, <2>3
<1> QED
  BY <1>7, <1>8, <1>9

-----------------------------------------------------------------------------
(* The sections to the destination, in order                               *)

(* There is one for a train.                                               *)
LEMMA OneForATrain ==
  ASSUME NEW T, NEW Q, NEW mid, NEW s, NEW t, IsFirst(T, Q, mid, s), IsFirst(T, Q, mid, t),
         s.train = t.train
  PROVE  s = t
<1>1. ASSUME NEW u, IsFirst(T, Q, mid, u)
      PROVE  u = FirstSec(T, Q, mid, u.train) /\ u.train \in DOMAIN T
  <2>1. PICK id \in DOMAIN T : u = FirstSec(T, Q, mid, id)
    BY <1>1, Zenon DEF IsFirst
  <2>2. PICK b : b = FALSE
    OBVIOUS
  <2>3. u = ToSec(T, Q, mid, id, T[id].begin + FirstDays(T, Q, mid, id), b)
    BY <2>1, <2>2, Zenon DEF FirstSec
  <2>4. u.train = id
    BY <2>3, ToSecIs
  <2> QED
    BY <2>1, <2>4, Zenon
<1>2. s = FirstSec(T, Q, mid, s.train) /\ t = FirstSec(T, Q, mid, t.train)
  BY <1>1
<1> QED
  BY <1>2

(* A sorted sequence has every section, one for a train at most.           *)
LEMMA SortedIs ==
  ASSUME Setting(trains, cmd), NEW mid, NEW seq \in Sorted(At(mid, AllTo))
  PROVE  /\ Len(seq) \in Nat /\ Len(seq) <= Len(trains)
         /\ seq = [i \in 1 .. Len(seq) |-> seq[i]]
         /\ \A i \in 1 .. Len(seq) : IsFirst(trains, cmd, mid, seq[i])
         /\ \A i, j \in 1 .. Len(seq) : seq[i].train = seq[j].train => i = j
         /\ \A s : IsFirst(trains, cmd, mid, s) => \E i \in 1 .. Len(seq) : seq[i] = s
<1> DEFINE S == At(mid, AllTo)
           g == [s \in S |-> s.train]
<1>1. \A s : s \in S <=> IsFirst(trains, cmd, mid, s)
  BY AtTo
<1> HIDE DEF S
<1>2. Len(trains) \in Nat /\ DOMAIN trains = 1 .. Len(trains)
  BY DEF Setting
<1>3. g \in Injection(S, 1 .. Len(trains))
  <2>1. \A s \in S : s.train \in 1 .. Len(trains)
    <3>1. ASSUME NEW s \in S PROVE s.train \in DOMAIN trains
      <4>1. Placed(trains, cmd, mid, s, {})
        BY <1>1, FirstPlaced
      <4> QED
        BY <4>1, PlacedFacts
    <3> QED
      BY <3>1, <1>2
  <2>2. \A s, t \in S : s.train = t.train => s = t
    BY <1>1, OneForATrain, Zenon
  <2> QED
    BY <2>1, <2>2 DEF Injection, IsInjective
<1>4. IsFiniteSet(1 .. Len(trains)) /\ Cardinality(1 .. Len(trains)) = Len(trains)
  <2>1. PICK n \in Nat : n = Len(trains)
    BY <1>2
  <2>2. IsFiniteSet(1 .. n) /\ Cardinality(1 .. n) = IF 1 > n THEN 0 ELSE n - 1 + 1
    BY FS_Interval
  <2>3. (IF 1 > n THEN 0 ELSE n - 1 + 1) = n
    OBVIOUS
  <2> QED
    BY <2>1, <2>2, <2>3
<1>5. IsFiniteSet(S) /\ Cardinality(S) <= Len(trains)
  <2> HIDE DEF g
  <2> QED
    BY <1>3, <1>4, FS_Injection
<1>6. PICK n \in Nat : n = Cardinality(S)
  BY <1>5, FS_CardinalityType
<1>7. seq \in [1 .. n -> S] /\ \A i, j \in 1 .. n : i # j => seq[i] # seq[j]
  <2>1. seq \in SetToSeqs(S)
    BY Zenon DEF Sorted, S
  <2> QED
    BY <2>1, <1>6, Zenon DEF SetToSeqs
<1>8. Len(seq) = n
  BY <1>7
<1>9. seq \in Injection(1 .. n, S)
  BY <1>7 DEF Injection, IsInjective
<1>10. IsFiniteSet(1 .. n) /\ Cardinality(1 .. n) = n
  BY FS_Interval
<1>11. seq \in Surjection(1 .. n, S)
  BY <1>5, <1>6, <1>9, <1>10, FS_Injection
<1>12. \A s \in S : \E i \in 1 .. n : seq[i] = s
  BY <1>11 DEF Surjection
<1>13. /\ seq = [i \in 1 .. n |-> seq[i]]
       /\ \A i \in 1 .. n : IsFirst(trains, cmd, mid, seq[i])
  BY <1>1, <1>7
<1>14. \A i, j \in 1 .. n : seq[i].train = seq[j].train => i = j
  BY <1>7, <1>13, OneForATrain, Zenon
<1> QED
  BY <1>1, <1>5, <1>6, <1>8, <1>12, <1>13, <1>14, Zenon

-----------------------------------------------------------------------------
(* The search at a station                                                 *)

(* How often a section has been pushed.                                    *)
Pushes(T, section) == T[section.train].end - T[section.train].begin + 1 - section.res

PushesOf(T, list) == [i \in 1 .. Len(list) |-> Pushes(T, list[i])]
TrainsOf(list) == [i \in 1 .. Len(list) |-> list[i].train]

(* The sections at mid: those of F from the origin, and the list of those  *)
(* to the destination.                                                     *)
Sections(T, Q, mid, F, list) ==
  /\ \A f \in F : IsFrom(T, Q, mid, f)
  /\ Len(list) \in Nat /\ Len(list) <= Len(T)
  /\ list = [i \in 1 .. Len(list) |-> list[i]]
  /\ \A i \in 1 .. Len(list) : Placed(T, Q, mid, list[i], F)

Blocked(T, Q, mid, id) == \E f : IsFrom(T, Q, mid, f) /\ f.train = id

(* What the heap holds of the list.                                        *)
Waiting(T, Q, mid, list, heap) ==
  /\ \E p : /\ IsSum(p, PushesOf(T, list), Len(list))
            /\ Heap(heap, TrainsOf(list), Q.sort, p[Len(list)])
  /\ \A i \in 1 .. Len(list) :
       ~ list[i].deleted /\ ~ Blocked(T, Q, mid, list[i].train) => InHeap(heap, Pair(list[i], i))

Ready(list, f) ==
  \A i \in 1 .. Len(list) : list[i].deleted \/ f.arrival <= list[i].departure

(* A section is pushed once at least, and once a date at most.             *)
LEMMA PushesAre ==
  ASSUME NEW T, NEW Q, Setting(T, Q), NEW mid, NEW F, NEW list, Sections(T, Q, mid, F, list)
  PROVE  /\ \A i \in 1 .. Len(list) :
              /\ PushesOf(T, list)[i] \in Nat
              /\ PushesOf(T, list)[i] = Pushes(T, list[i])
              /\ 1 <= Pushes(T, list[i])
              /\ Pushes(T, list[i]) <= T[list[i].train].end - T[list[i].train].begin + 1
              /\ list[i].train \in DOMAIN T
         /\ DOMAIN TrainsOf(list) = 1 .. Len(list)
         /\ \A i \in 1 .. Len(list) : TrainsOf(list)[i] = list[i].train
<1>1. ASSUME NEW i \in 1 .. Len(list)
      PROVE  /\ Pushes(T, list[i]) \in Nat
             /\ 1 <= Pushes(T, list[i])
             /\ Pushes(T, list[i]) <= T[list[i].train].end - T[list[i].train].begin + 1
             /\ list[i].train \in DOMAIN T
  <2>1. PICK s : s = list[i]
    OBVIOUS
  <2>2. Placed(T, Q, mid, s, F)
    BY <2>1 DEF Sections
  <2>3. s.train \in DOMAIN T /\ s.res \in Nat /\ s.res <= T[s.train].end - T[s.train].begin
    BY <2>2, PlacedFacts
  <2>4. T[s.train].begin \in Int /\ T[s.train].end \in Int
    BY <2>3, TrainIs
  <2>5. /\ Pushes(T, s) \in Nat /\ 1 <= Pushes(T, s)
        /\ Pushes(T, s) <= T[s.train].end - T[s.train].begin + 1
    BY <2>3, <2>4 DEF Pushes
  <2> QED
    BY <2>1, <2>3, <2>5, Zenon
<1>2. \A i \in 1 .. Len(list) : PushesOf(T, list)[i] = Pushes(T, list[i])
  BY DEF PushesOf
<1>3. /\ DOMAIN TrainsOf(list) = 1 .. Len(list)
      /\ \A i \in 1 .. Len(list) : TrainsOf(list)[i] = list[i].train
  BY DEF TrainsOf
<1> QED
  BY <1>1, <1>2, <1>3, Zenon

(* The first values of the sections, pushed.                               *)
LEMMA FirstWaiting ==
  ASSUME Setting(trains, cmd), NEW mid, NEW F, NEW list, Sections(trains, cmd, mid, F, list)
  PROVE  Waiting(trains, cmd, mid, list,
                 PushedAll(EmptyHeap, [i \in DOMAIN list |-> [first |-> list[i], second |-> i]]))
<1> DEFINE n == Len(list)
           v == [i \in DOMAIN list |-> [first |-> list[i], second |-> i]]
           ids == TrainsOf(list)
           e == PushesOf(trains, list)
<1>1. n \in Nat /\ DOMAIN list = 1 .. n /\ Len(v) = n /\ \A i \in 1 .. n : v[i] = Pair(list[i], i)
  <2>1. n \in Nat /\ DOMAIN list = 1 .. n
    BY DEF Sections
  <2>2. v = [i \in 1 .. n |-> Pair(list[i], i)]
    BY <2>1 DEF Pair
  <2> QED
    BY <2>1, <2>2
<1> HIDE DEF v
<1>2. ASSUME NEW i \in 1 .. n
      PROVE  IsPair(ids, v[i])
  <2>1. v[i].first = list[i] /\ v[i].second = i
    BY <1>1, PairIs
  <2>2. Placed(trains, cmd, mid, list[i], F)
    BY DEF Sections
  <2>3. list[i].train \in DOMAIN trains /\ list[i].arrival \in Int /\ list[i].price \in Int
    BY <2>2, PlacedFacts
  <2>4. list[i].train \in Int
    BY <2>3, TrainIs
  <2>5. DOMAIN ids = 1 .. n /\ ids[i] = list[i].train
    BY PushesAre
  <2> QED
    BY <2>1, <2>3, <2>4, <2>5, Zenon DEF IsPair
<1>3. Heap(EmptyHeap, ids, cmd.sort, 0)
  BY EmptyHeapIs
<1>4. /\ Heap(PushedAll(EmptyHeap, v), ids, cmd.sort, 0 + Len(v))
      /\ \A i \in 1 .. n : InHeap(PushedAll(EmptyHeap, v), v[i])
  BY <1>1, <1>2, <1>3, PushedAllHeap, Zenon
<1>5. PICK p : IsSum(p, e, n)
  BY <1>1, SumExists
<1>6. \A i \in 1 .. n : e[i] \in Nat /\ 1 <= e[i]
  BY PushesAre
<1>7. \A k \in 0 .. n : p[k] \in Nat
  BY <1>1, <1>5, <1>6, SumIsNat
<1>8. n <= p[n]
  <2> DEFINE Bad == {k \in Nat : k <= n /\ ~ (k <= p[k])}
  <2>1. p[0] = 0 /\ \A k \in 1 .. n : p[k] = p[k - 1] + e[k]
    BY <1>5, Zenon DEF IsSum
  <2> HIDE DEF n, e
  <2>2. ASSUME NEW m \in Bad, \A y \in Bad : m <= y
        PROVE  FALSE
    <3>1. m # 0
      BY <2>1
    <3>2. /\ m \in Nat /\ m <= n /\ m - 1 \in Nat /\ m - 1 <= n /\ ~ (m <= m - 1) /\ m \in 1 .. n
          /\ ~ (m <= p[m])
      BY <3>1, <1>1
    <3>3. m - 1 <= p[m - 1]
      BY <3>2, <2>2
    <3>4. p[m] = p[m - 1] + e[m] /\ e[m] \in Nat /\ 1 <= e[m] /\ p[m - 1] \in Nat
      BY <3>2, <2>1, <1>1, <1>6, <1>7
    <3> QED
      BY <3>2, <3>3, <3>4
  <2>3. Bad = {}
    <3>1. Bad \in SUBSET Nat
      OBVIOUS
    <3> HIDE DEF Bad
    <3> QED
      BY <2>2, <3>1, LeastOf, Zenon
  <2> QED
    BY <2>3, <1>1
<1>9. Heap(PushedAll(EmptyHeap, v), ids, cmd.sort, p[n])
  <2>1. PICK h : h = PushedAll(EmptyHeap, v)
    OBVIOUS
  <2>2. Heap(h, ids, cmd.sort, n)
    <3>1. 0 + Len(v) = n
      BY <1>1
    <3> QED
      BY <3>1, <2>1, <1>4, Zenon
  <2>3. p[n] \in Nat
    BY <1>1, <1>7
  <2>4. h # EmptyHeap => Tree(h[1], ids, cmd.sort, p[n])
    BY <2>2, <2>3, <1>8, TreeGrows DEF Heap
  <2> QED
    BY <2>1, <2>2, <2>3, <2>4, Zenon DEF Heap
<1>10. \A i \in 1 .. n : InHeap(PushedAll(EmptyHeap, v), Pair(list[i], i))
  BY <1>1, <1>4, Zenon
<1>11. Waiting(trains, cmd, mid, list, PushedAll(EmptyHeap, v))
  BY <1>5, <1>9, <1>10, Zenon DEF Waiting
<1> QED
  BY <1>11, Zenon DEF v

MovedTo(mid, f, G, list) ==
  /\ Sections(trains, cmd, mid, G, list)
  /\ Waiting(trains, cmd, mid, list, QueueAfter(f.arrival))
  /\ Ready(list, f)
  /\ Len(list) = Len(tos)
  /\ \A i \in 1 .. Len(tos) : list[i].train = tos[i].train

(* The sections are moved for one from the origin, and pushed.             *)
LEMMA MovedWaiting ==
  ASSUME Setting(trains, cmd), NEW mid, NEW F, Sections(trains, cmd, mid, F, tos),
         Waiting(trains, cmd, mid, tos, queue), NEW f \in F,
         NEW G \in SUBSET F, \A g \in G : f.arrival <= g.arrival,
         NEW list, list = [i \in DOMAIN tos |-> Moved(tos[i], f.arrival)]
  PROVE  MovedTo(mid, f, G, list)
<1> DEFINE n == Len(tos)
           time == f.arrival
           P(i) == PairsOf(tos[i], i, time)
           e1 == PushesOf(trains, tos)
           e2 == PushesOf(trains, list)
           ids == TrainsOf(tos)
<1>1. /\ n \in Nat /\ n <= Len(trains) /\ DOMAIN tos = 1 .. n
      /\ \A g \in F : IsFrom(trains, cmd, mid, g)
      /\ \A i \in 1 .. n : Placed(trains, cmd, mid, tos[i], F)
  BY DEF Sections
<1>2. \A g \in F : g.arrival \in Int
  BY <1>1, FromFacts
<1>3. /\ Len(list) = n /\ list = [i \in 1 .. n |-> list[i]]
      /\ \A i \in 1 .. n : list[i] = Moved(tos[i], time)
  BY <1>1
<1>4. ASSUME NEW i \in 1 .. n
      PROVE  /\ Placed(trains, cmd, mid, list[i], G)
             /\ list[i].train = tos[i].train
             /\ list[i].deleted \/ time <= list[i].departure
             /\ Len(P(i)) = tos[i].res - list[i].res
             /\ Len(P(i)) \in Nat
             /\ \A k \in 1 .. Len(P(i)) :
                  /\ P(i)[k].second = i /\ P(i)[k].first.train = tos[i].train
                  /\ P(i)[k].first.price \in Int /\ P(i)[k].first.arrival \in Int
             /\ ~ list[i].deleted =>
                  /\ ~ tos[i].deleted
                  /\ list[i] = tos[i] \/ \E k \in 1 .. Len(P(i)) : P(i)[k] = Pair(list[i], i)
  <2>1. PICK s : s = tos[i]
    OBVIOUS
  <2>2. Placed(trains, cmd, mid, s, F)
    BY <1>1, <2>1
  <2>3. list[i] = Moved(s, f.arrival) /\ P(i) = PairsOf(s, i, f.arrival)
    BY <1>3, <2>1
  <2>4. MovedFor(trains, cmd, mid, s, f, G, i)
    BY <1>2, <2>2, PlacedMoves
  <2> HIDE DEF P
  <2> QED
    BY <2>1, <2>3, <2>4, Zenon DEF MovedFor
<1>5. Sections(trains, cmd, mid, G, list)
  <2>1. \A g \in G : IsFrom(trains, cmd, mid, g)
    BY <1>1
  <2>2. \A i \in 1 .. n : Placed(trains, cmd, mid, list[i], G)
    BY <1>4, Zenon
  <2> QED
    BY <1>1, <1>3, <2>1, <2>2, Zenon DEF Sections
<1>6. Ready(list, f)
  BY <1>3, <1>4, Zenon DEF Ready
<1>7. TrainsOf(list) = ids
  BY <1>3, <1>4, Zenon DEF TrainsOf
<1>8. /\ \A i \in 1 .. n : e1[i] \in Nat /\ e1[i] = Pushes(trains, tos[i])
      /\ \A i \in 1 .. n : tos[i].train \in DOMAIN trains
      /\ DOMAIN ids = 1 .. n /\ \A i \in 1 .. n : ids[i] = tos[i].train
  BY PushesAre
<1>9. \A i \in 1 .. n : e2[i] \in Nat /\ e2[i] = Pushes(trains, list[i])
  <2>1. \A i \in 1 .. Len(list) : e2[i] \in Nat /\ e2[i] = Pushes(trains, list[i])
    BY <1>5, PushesAre
  <2> QED
    BY <2>1, <1>3, Zenon
<1>10. ASSUME NEW i \in 1 .. n
       PROVE  Len(P(i)) = e2[i] - e1[i]
  <2>1. PICK a, b : a = tos[i] /\ b = list[i]
    OBVIOUS
  <2>2. a.train \in DOMAIN trains /\ b.train = a.train /\ Len(P(i)) = a.res - b.res
    BY <2>1, <1>4, <1>8, Zenon
  <2>3. a.res \in Nat /\ b.res \in Nat
    <3>1. Placed(trains, cmd, mid, a, F) /\ Placed(trains, cmd, mid, b, G)
      BY <2>1, <1>1, <1>4, Zenon
    <3> QED
      BY <3>1, PlacedFacts
  <2>4. trains[a.train].begin \in Int /\ trains[a.train].end \in Int
    BY <2>2, TrainIs
  <2>5. e1[i] = Pushes(trains, a) /\ e2[i] = Pushes(trains, b)
    BY <2>1, <1>8, <1>9, Zenon
  <2>6. Pushes(trains, b) - Pushes(trains, a) = a.res - b.res
    <3>1. PICK x \in Int : x = trains[a.train].end
      BY <2>4
    <3>2. PICK y \in Int : y = trains[a.train].begin
      BY <2>4
    <3>3. Pushes(trains, a) = x - y + 1 - a.res /\ Pushes(trains, b) = x - y + 1 - b.res
      BY <2>2, <3>1, <3>2, Zenon DEF Pushes
    <3> QED
      BY <2>3, <3>3
  <2> HIDE DEF P, e1, e2
  <2> QED
    BY <2>2, <2>5, <2>6, Zenon
<1>11. ASSUME NEW i \in 1 .. n, NEW k \in 1 .. Len(P(i))
       PROVE  IsPair(ids, P(i)[k])
  <2>1. PICK v : v = P(i)[k]
    OBVIOUS
  <2>2. /\ v.second = i /\ v.first.train = tos[i].train
        /\ v.first.price \in Int /\ v.first.arrival \in Int
    <3> HIDE DEF P
    <3> QED
      BY <2>1, <1>4
  <2>3. tos[i].train \in Int
    BY <1>8, TrainIs
  <2> HIDE DEF P, ids
  <2> QED
    BY <2>1, <2>2, <2>3, <1>8, Zenon DEF IsPair
<1>12. PICK p1 : IsSum(p1, e1, n) /\ Heap(queue, ids, cmd.sort, p1[n])
  BY Zenon DEF Waiting
<1>13. PICK p2 : IsSum(p2, e2, n)
  BY <1>1, SumExists, Zenon
<1>14. /\ Heap(QueueAfter(time), ids, cmd.sort, p2[n])
       /\ \A i \in 1 .. n : \A k \in 1 .. Len(P(i)) : InHeap(QueueAfter(time), P(i)[k])
       /\ \A u : InHeap(queue, u) => InHeap(QueueAfter(time), u)
  <2>1. \A i \in 1 .. n :
          /\ e1[i] \in Nat /\ e2[i] \in Nat
          /\ Len(P(i)) \in Nat
          /\ Len(P(i)) = e2[i] - e1[i]
          /\ \A k \in 1 .. Len(P(i)) : IsPair(ids, P(i)[k])
    <3> HIDE DEF P, e1, e2, ids
    <3> QED
      BY <1>4, <1>8, <1>9, <1>10, <1>11, Zenon
  <2> HIDE DEF e1, e2, ids, time
  <2> QED
    BY <1>1, <1>12, <1>13, <2>1, AfterHeap, Zenon
<1>15. ASSUME NEW i \in 1 .. n, ~ list[i].deleted, ~ Blocked(trains, cmd, mid, list[i].train)
       PROVE  InHeap(QueueAfter(time), Pair(list[i], i))
  <2>1. /\ ~ tos[i].deleted /\ list[i].train = tos[i].train
        /\ list[i] = tos[i] \/ \E k \in 1 .. Len(P(i)) : P(i)[k] = Pair(list[i], i)
    <3> HIDE DEF P
    <3> QED
      BY <1>4, <1>15, Zenon
  <2>2. CASE list[i] = tos[i]
    <3>1. ~ Blocked(trains, cmd, mid, tos[i].train)
      BY <2>1, <1>15, Zenon
    <3>2. InHeap(queue, Pair(tos[i], i))
      BY <3>1, <2>1, Zenon DEF Waiting
    <3> QED
      BY <2>2, <3>2, <1>14, Zenon
  <2>3. CASE \E k \in 1 .. Len(P(i)) : P(i)[k] = Pair(list[i], i)
    <3> HIDE DEF P
    <3> QED
      BY <2>3, <1>14, Zenon
  <2> QED
    BY <2>1, <2>2, <2>3
<1>16. Waiting(trains, cmd, mid, list, QueueAfter(time))
  <2>1. IsSum(p2, PushesOf(trains, list), Len(list)) /\ Heap(QueueAfter(time), TrainsOf(list), cmd.sort, p2[Len(list)])
    BY <1>3, <1>7, <1>13, <1>14, Zenon
  <2>2. \A i \in 1 .. Len(list) :
          ~ list[i].deleted /\ ~ Blocked(trains, cmd, mid, list[i].train)
            => InHeap(QueueAfter(time), Pair(list[i], i))
    BY <1>3, <1>15, Zenon
  <2> QED
    BY <2>1, <2>2, Zenon DEF Waiting
<1> QED
  BY <1>3, <1>4, <1>5, <1>6, <1>16, Zenon DEF MovedTo

(* A head that is refused is taken off.                                    *)
LEMMA PoppedWaiting ==
  ASSUME Setting(trains, cmd), NEW mid, NEW F, Sections(trains, cmd, mid, F, tos),
         Waiting(trains, cmd, mid, tos, queue), queue # EmptyHeap,
         IsFrom(trains, cmd, mid, from), Refused(TopOf(queue))
  PROVE  Waiting(trains, cmd, mid, tos, Popped(queue))
<1> DEFINE n == Len(tos)
           ids == TrainsOf(tos)
<1>1. PICK p : IsSum(p, PushesOf(trains, tos), n) /\ Heap(queue, ids, cmd.sort, p[n])
  BY Zenon DEF Waiting
<1>2. PICK top : top = TopOf(queue)
  OBVIOUS
<1>3. /\ Heap(Popped(queue), ids, cmd.sort, p[n])
      /\ \A u : InHeap(queue, u) /\ u # top => InHeap(Popped(queue), u)
  BY <1>1, <1>2, PoppedHeap
<1>4. ASSUME NEW i \in 1 .. n, ~ tos[i].deleted, ~ Blocked(trains, cmd, mid, tos[i].train)
      PROVE  InHeap(Popped(queue), Pair(tos[i], i))
  <2>1. InHeap(queue, Pair(tos[i], i))
    BY <1>4, Zenon DEF Waiting
  <2>2. Pair(tos[i], i) # top
    <3>1. SUFFICES ASSUME Pair(tos[i], i) = top PROVE FALSE
      OBVIOUS
    <3>2. top.first = tos[i] /\ top.second = i
      BY <3>1, PairIs
    <3>3. tos[i].train # from.train
      BY <1>4, Zenon DEF Blocked
    <3>4. ~ Refused(top)
      BY <3>2, <3>3, <1>4, Zenon DEF Refused, Outdated
    <3> QED
      BY <3>4, <1>2, Zenon
  <2> QED
    BY <2>1, <2>2, <1>3, Zenon
<1> QED
  BY <1>1, <1>3, <1>4, Zenon DEF Waiting

-----------------------------------------------------------------------------
(* The search is in order                                                  *)

(* A journey with a change at mid, as the search puts it together.         *)
Change(T, Q, mid, sol) ==
  /\ IsFrom(T, Q, mid, sol.from)
  /\ Placed(T, Q, mid, sol.to, {})
  /\ sol.from.train # sol.to.train
  /\ sol.from.arrival <= sol.to.departure

(* The sections from the origin that are still to be met.                  *)
Ahead == froms \cup IF phase = "queue" THEN {from} ELSE {}

AtStation(mid) ==
  /\ Sections(trains, cmd, mid, Ahead, tos)
  /\ Waiting(trains, cmd, mid, tos, queue)
  /\ phase = "queue" => Ready(tos, from)

SearchOK ==
  /\ trains \in Timetables /\ cmd \in Queries
  /\ phase \in {"station", "train", "queue", "done"}
  /\ \A sol \in answer : \E mid : Change(trains, cmd, mid, sol)
  /\ phase \in {"station", "done"} => froms = {} /\ tos = <<>> /\ queue = EmptyHeap
  /\ phase \in {"train", "queue"} => \E mid : AtStation(mid)

-----------------------------------------------------------------------------
(* What it gives                                                           *)

(* A change, as the search puts it together, is a journey.                 *)
LEMMA ChangeIsJourney ==
  ASSUME Setting(trains, cmd), NEW mid, NEW sol, Change(trains, cmd, mid, sol)
  PROVE  /\ sol.from.mid = sol.to.mid
         /\ [from |-> LegOf(sol.from), to |-> LegOf(sol.to)] \in Journeys(sol.from.mid)
<1>1. PICK f, t : f = sol.from /\ t = sol.to
  OBVIOUS
<1>2. /\ IsFrom(trains, cmd, mid, f) /\ Placed(trains, cmd, mid, t, {})
      /\ f.train # t.train /\ f.arrival <= t.departure
  BY <1>1, Zenon DEF Change
<1>3. f.mid = mid /\ t.mid = mid /\ DaysOverflow(f.departure) = 0
  BY <1>2, FromFacts, PlacedFacts
<1>4. PICK a : a = LegOf(f)
  OBVIOUS
<1>5. PICK b : b = LegOf(t)
  OBVIOUS
<1>6. a \in Legs(cmd.from, mid)
  BY <1>2, <1>4, FromIsLeg
<1>7. b \in Legs(mid, cmd.to)
  <2>1. PICK id, date, deleted : IsPlace(trains, cmd, mid, t, id, date, deleted)
    BY <1>2, Zenon DEF Placed
  <2>2. b = OnLeg(trains, cmd, id, mid, cmd.to, date)
    BY <2>1, <1>5, PlaceFacts
  <2>3. id \in DOMAIN trains /\ date \in trains[id].begin .. trains[id].end /\ Stops(trains[id], mid, cmd.to)
    BY <2>1, Zenon DEF IsPlace
  <2> QED
    BY <2>2, <2>3, LegsAre
<1>8. /\ a.train = f.train /\ a.departure = f.departure /\ a.arrival = f.arrival
      /\ b.train = t.train /\ b.departure = t.departure
  BY <1>4, <1>5 DEF LegOf
<1>9. PICK j : j = [from |-> a, to |-> b]
  OBVIOUS
<1>10. j.from = a /\ j.to = b /\ j \in [from : Legs(cmd.from, mid), to : Legs(mid, cmd.to)]
  BY <1>6, <1>7, <1>9
<1>11. j \in Journeys(mid)
  BY <1>2, <1>3, <1>8, <1>10, JourneyIs, Zenon
<1> QED
  BY <1>1, <1>3, <1>4, <1>5, <1>9, <1>11, Zenon

(* The answer is a journey when the search is in order.                    *)
LEMMA AnswerOK == SearchOK => AnswerIsJourney
<1> SUFFICES ASSUME SearchOK PROVE AnswerIsJourney
  OBVIOUS
<1>1. Setting(trains, cmd)
  BY SettingIs, Zenon DEF SearchOK
<1>2. \A sol \in answer : \E mid : Change(trains, cmd, mid, sol)
  BY Zenon DEF SearchOK
<1> QED
  BY <1>1, <1>2, ChangeIsJourney, Zenon DEF AnswerIsJourney

(* The pairs of a heap with no more nodes than MaxPushed.                  *)
LEMMA WaitingInHeap ==
  ASSUME Setting(trains, cmd), NEW mid, NEW F, Sections(trains, cmd, mid, F, tos),
         Waiting(trains, cmd, mid, tos, queue)
  PROVE  \E w \in Nat :
           /\ Heap(queue, TrainsOf(tos), cmd.sort, w)
           /\ \A v : v \in ValuesIn(queue, MaxPushed) <=> InHeap(queue, v)
<1> DEFINE n == Len(tos)
           e == PushesOf(trains, tos)
           ids == TrainsOf(tos)
<1>1. n \in Nat /\ n <= Len(trains)
  BY Zenon DEF Sections
<1>2. PICK p : IsSum(p, e, n) /\ Heap(queue, ids, cmd.sort, p[n])
  BY Zenon DEF Waiting
<1>3. PICK M \in Nat :
        /\ MaxPushed = Len(trains) * M
        /\ \A id \in DOMAIN trains : trains[id].end - trains[id].begin + 1 <= M
  BY MaxPushedIs
<1>4. ASSUME NEW i \in 1 .. n
      PROVE  e[i] \in Nat /\ e[i] <= M
  <2>1. /\ e[i] \in Nat /\ e[i] = Pushes(trains, tos[i])
        /\ Pushes(trains, tos[i]) <= trains[tos[i].train].end - trains[tos[i].train].begin + 1
        /\ tos[i].train \in DOMAIN trains
    BY PushesAre
  <2>2. PICK id \in DOMAIN trains : id = tos[i].train
    BY <2>1
  <2>3. PICK x \in Int : x = trains[id].end
    BY TrainIs
  <2>4. PICK y \in Int : y = trains[id].begin
    BY TrainIs
  <2>5. e[i] <= x - y + 1 /\ x - y + 1 <= M
    BY <2>1, <2>2, <2>3, <2>4, <1>3, Zenon
  <2> HIDE DEF e
  <2> QED
    BY <2>1, <2>5
<1>5. p[n] \in Nat /\ p[n] <= n * M
  <2>1. \A k \in 0 .. n : p[k] \in Nat /\ p[k] <= k * M
    <3> HIDE DEF n, e
    <3> QED
      BY <1>1, <1>2, <1>4, SumBound
  <2>2. n \in 0 .. n
    BY <1>1
  <2> QED
    BY <2>1, <2>2
<1>6. MaxPushed \in Nat /\ p[n] <= MaxPushed + 1
  <2>1. PICK L \in Nat : L = Len(trains)
    BY DEF Setting
  <2>2. PICK m \in Nat : m = n
    BY <1>1
  <2>3. PICK c \in Nat : L = m + c
    <3>1. L - m \in Nat /\ L = m + (L - m)
      BY <2>1, <2>2, <1>1
    <3> QED
      BY <3>1
  <2>4. L * M = m * M + c * M
    BY <2>3
  <2>5. m * M \in Nat /\ c * M \in Nat
    OBVIOUS
  <2>6. MaxPushed = m * M + c * M /\ p[n] <= m * M
    BY <1>3, <1>5, <2>1, <2>2, <2>4, Zenon
  <2> QED
    BY <2>5, <2>6, <1>5
<1>7. \A v : v \in ValuesIn(queue, MaxPushed) <=> InHeap(queue, v)
  BY <1>2, <1>6, ValuesAre
<1> QED
  BY <1>2, <1>5, <1>7, Zenon

(* The queue is exact when the search is in order.                         *)
LEMMA QueueOK == SearchOK => QueueExact
<1> SUFFICES ASSUME SearchOK PROVE QueueExact
  OBVIOUS
<1>1. Setting(trains, cmd)
  BY SettingIs, Zenon DEF SearchOK
<1> DEFINE waiting == ValuesIn(queue, MaxPushed)
<1>2. CASE phase \in {"station", "done"}
  <2>1. tos = <<>> /\ queue = EmptyHeap
    BY <1>2, Zenon DEF SearchOK
  <2>2. PICK M \in Nat : MaxPushed = Len(trains) * M
    BY <1>1, MaxPushedIs, Zenon
  <2>3. MaxPushed \in Nat /\ 0 <= MaxPushed + 1
    <3>1. PICK L \in Nat : L = Len(trains)
      BY <1>1 DEF Setting
    <3>2. L * M \in Nat
      OBVIOUS
    <3> QED
      BY <2>2, <3>1, <3>2
  <2>4. Heap(queue, <<>>, cmd.sort, 0)
    BY <2>1, EmptyHeapIs
  <2>5. \A v : v \notin waiting
    <3>1. \A v : v \in waiting <=> InHeap(queue, v)
      BY <2>3, <2>4, ValuesAre
    <3> QED
      BY <2>1, <3>1, EmptyHeapIs, Zenon
  <2>6. DOMAIN tos = {}
    BY <2>1
  <2> QED
    BY <2>1, <2>5, <2>6, Zenon DEF QueueExact
<1>3. CASE phase \in {"train", "queue"}
  <2>1. PICK mid : AtStation(mid)
    BY <1>3, Zenon DEF SearchOK
  <2>2. Sections(trains, cmd, mid, Ahead, tos) /\ Waiting(trains, cmd, mid, tos, queue)
    BY <2>1, Zenon DEF AtStation
  <2>3. PICK w \in Nat :
          /\ Heap(queue, TrainsOf(tos), cmd.sort, w)
          /\ \A v : v \in waiting <=> InHeap(queue, v)
    BY <1>1, <2>2, WaitingInHeap
  <2> HIDE DEF waiting
  <2>4. /\ Len(tos) \in Nat /\ DOMAIN tos = 1 .. Len(tos)
        /\ \A i \in 1 .. Len(tos) : Placed(trains, cmd, mid, tos[i], Ahead)
    BY <2>2 DEF Sections
  <2>5. \A pair \in waiting : IsPair(TrainsOf(tos), pair)
    <3>1. \A pair : InHeap(queue, pair) => IsPair(TrainsOf(tos), pair)
      <4>1. CASE queue = EmptyHeap
        BY <4>1, EmptyHeapIs
      <4>2. CASE queue # EmptyHeap
        BY <4>2, <2>3, TopIsBest
      <4> QED
        BY <4>1, <4>2
    <3> QED
      BY <3>1, <2>3, Zenon
  <2>6. \A pair \in waiting : pair.second \in DOMAIN tos
    <3>1. DOMAIN TrainsOf(tos) = DOMAIN tos
      BY <2>4 DEF TrainsOf
    <3> QED
      BY <2>5, <3>1, Zenon DEF IsPair
  <2>7. queue # EmptyHeap => \A pair \in waiting : ~ Lower(TopOf(queue), pair)
    <3>1. ASSUME queue # EmptyHeap
          PROVE  \A pair : InHeap(queue, pair) => ~ Under(cmd.sort, TopOf(queue), pair)
      BY <3>1, <2>3, TopIsBest
    <3> QED
      BY <3>1, <2>3, LowerIsUnder, Zenon
  <2>8. ASSUME NEW i \in DOMAIN tos, ~ tos[i].deleted,
               At(tos[i].mid, SectionsFrom(tos[i].train)) = {}
        PROVE  [first |-> tos[i], second |-> i] \in waiting
    <3>1. Placed(trains, cmd, mid, tos[i], Ahead)
      BY <2>4
    <3>2. tos[i].mid = mid /\ tos[i].train \in DOMAIN trains
      BY <1>1, <3>1, PlacedFacts
    <3>3. ASSUME NEW f, IsFrom(trains, cmd, mid, f), f.train = tos[i].train
          PROVE  FALSE
      <4>1. f \in At(mid, AllFrom)
        BY <1>1, <3>3, AtFrom
      <4>2. PICK id \in DOMAIN trains : f \in SectionsFrom(id) /\ f.mid = mid
        BY <4>1, Zenon DEF At, AllFrom
      <4>3. PICK j : f = FromAt(trains, cmd, id, j)
        BY <4>2, SectionsFromIs, Zenon
      <4>4. f.train = id
        BY <4>3, FromAtMid
      <4>5. f \in At(tos[i].mid, SectionsFrom(tos[i].train))
        BY <4>2, <4>4, <3>2, <3>3, Zenon DEF At
      <4> QED
        BY <4>5, <2>8
    <3>4. ~ Blocked(trains, cmd, mid, tos[i].train)
      BY <3>3, Zenon DEF Blocked
    <3>5. InHeap(queue, Pair(tos[i], i))
      <4>1. i \in 1 .. Len(tos)
        BY <2>4, Zenon
      <4> QED
        BY <4>1, <3>4, <2>2, <2>8, Zenon DEF Waiting
    <3> QED
      BY <3>5, <2>3, Zenon DEF Pair
  <2> QED
    BY <2>6, <2>7, <2>8, Zenon DEF QueueExact, waiting
<1> QED
  BY <1>2, <1>3, Zenon DEF SearchOK

(* When one less has to be met, the sections are still in order.           *)
LEMMA FewerSections ==
  ASSUME NEW T, NEW Q, NEW mid, NEW F, NEW list, Sections(T, Q, mid, F, list), NEW G \in SUBSET F
  PROVE  Sections(T, Q, mid, G, list)
<1>1. \A g \in G : g \in F
  OBVIOUS
<1>2. \A s : Placed(T, Q, mid, s, F) => Placed(T, Q, mid, s, G)
  BY <1>1, Zenon DEF Placed
<1> QED
  BY <1>1, <1>2, Zenon DEF Sections

(* The search begins in order.                                             *)
LEMMA InitSearch == Init => SearchOK
<1> SUFFICES ASSUME Init PROVE SearchOK
  OBVIOUS
<1> QED
  BY DEF Init, SearchOK

(* At the next station the first values of the sections are pushed.        *)
LEMMA NextStationOK ==
  ASSUME Setting(trains, cmd), NEW mid, NextStation(mid)
  PROVE  AtStation(mid)'
<1>1. PICK list : list = tos'
  OBVIOUS
<1>2. PICK F : F = At(mid, AllFrom)
  OBVIOUS
<1>3. \A f : f \in F <=> IsFrom(trains, cmd, mid, f)
  BY <1>2, AtFrom
<1>4. \A f \in F : f.arrival \in Int /\ 0 <= f.arrival
  <2>1. ASSUME NEW f \in F PROVE f.arrival \in Int /\ 0 <= f.arrival
    <3>1. /\ f.departure \in Int /\ f.arrival \in Int /\ 0 <= f.departure /\ f.departure <= f.arrival
      BY <1>3, FromFacts
    <3> QED
      BY <3>1
  <2> QED
    BY <2>1
<1>5. list \in Sorted(At(mid, AllTo))
  BY <1>1, Zenon DEF NextStation
<1>6. /\ Len(list) \in Nat /\ Len(list) <= Len(trains)
      /\ list = [i \in 1 .. Len(list) |-> list[i]]
      /\ \A i \in 1 .. Len(list) : IsFirst(trains, cmd, mid, list[i])
  BY <1>5, SortedIs
<1>7. \A i \in 1 .. Len(list) : Placed(trains, cmd, mid, list[i], F)
  BY <1>4, <1>6, FirstPlaced
<1>8. Sections(trains, cmd, mid, F, list)
  BY <1>3, <1>6, <1>7, Zenon DEF Sections
<1>9. Waiting(trains, cmd, mid, list,
              PushedAll(EmptyHeap, [i \in DOMAIN list |-> [first |-> list[i], second |-> i]]))
  BY <1>8, FirstWaiting
<1>10. /\ trains' = trains /\ cmd' = cmd /\ phase' = "train" /\ froms' = F
       /\ queue' = PushedAll(EmptyHeap, [i \in DOMAIN list |-> [first |-> list[i], second |-> i]])
  BY <1>1, <1>2 DEF NextStation
<1>11. Ahead' = F
  BY <1>10 DEF Ahead
<1> QED
  BY <1>1, <1>8, <1>9, <1>10, <1>11 DEF AtStation

(* The sections are moved for the next train.                              *)
LEMMA NextTrainOK ==
  ASSUME Setting(trains, cmd), NEW mid, AtStation(mid), NEW f, NextTrain(f)
  PROVE  /\ AtStation(mid)'
         /\ Len(tos') = Len(tos)
         /\ \A i \in 1 .. Len(tos) : tos'[i].train = tos[i].train
<1>1. /\ trains' = trains /\ cmd' = cmd /\ phase = "train" /\ phase' = "queue"
      /\ f \in froms /\ froms' = froms \ {f} /\ from' = f
      /\ \A other \in froms : f.arrival <= other.arrival
      /\ queue' = QueueAfter(f.arrival)
      /\ tos' = [i \in DOMAIN tos |-> Moved(tos[i], f.arrival)]
  BY DEF NextTrain
<1>2. PICK list : list = tos'
  OBVIOUS
<1>3. PICK F : F = Ahead
  OBVIOUS
<1>4. PICK G : G = Ahead'
  OBVIOUS
<1>5. F = froms /\ G = froms /\ f \in F
  BY <1>1, <1>3, <1>4 DEF Ahead
<1>6. /\ Sections(trains, cmd, mid, F, tos)
      /\ Waiting(trains, cmd, mid, tos, queue)
  BY <1>3, Zenon DEF AtStation
<1>7. G \in SUBSET F /\ \A g \in G : f.arrival <= g.arrival
  BY <1>1, <1>5
<1>8. list = [i \in DOMAIN tos |-> Moved(tos[i], f.arrival)]
  BY <1>1, <1>2
<1>10. MovedTo(mid, f, G, list)
  BY <1>5, <1>6, <1>7, <1>8, MovedWaiting
<1>9. /\ Sections(trains, cmd, mid, G, list)
      /\ Waiting(trains, cmd, mid, list, QueueAfter(f.arrival))
      /\ Ready(list, f)
      /\ Len(list) = Len(tos)
      /\ \A i \in 1 .. Len(tos) : list[i].train = tos[i].train
  BY <1>10, Zenon DEF MovedTo
<1> QED
  BY <1>1, <1>2, <1>4, <1>9 DEF AtStation

(* A head that is refused is no loss.                                      *)
LEMMA PopHeadOK ==
  ASSUME Setting(trains, cmd), NEW mid, AtStation(mid), PopHead
  PROVE  AtStation(mid)'
<1>1. /\ trains' = trains /\ cmd' = cmd /\ phase = "queue" /\ phase' = phase
      /\ froms' = froms /\ from' = from /\ tos' = tos
      /\ queue # EmptyHeap /\ Refused(TopOf(queue)) /\ queue' = Popped(queue)
  BY DEF PopHead
<1>2. /\ Sections(trains, cmd, mid, Ahead, tos)
      /\ Waiting(trains, cmd, mid, tos, queue)
      /\ Ready(tos, from)
  BY <1>1, Zenon DEF AtStation
<1>3. IsFrom(trains, cmd, mid, from)
  <2>1. from \in Ahead
    BY <1>1 DEF Ahead
  <2> QED
    BY <2>1, <1>2, Zenon DEF Sections
<1>4. Waiting(trains, cmd, mid, tos, Popped(queue))
  BY <1>1, <1>2, <1>3, PoppedWaiting
<1>5. Ahead' = Ahead
  BY <1>1 DEF Ahead
<1> QED
  BY <1>1, <1>2, <1>4, <1>5 DEF AtStation

(* The search goes on with the next train.                                 *)
LEMMA BackToTrainOK ==
  ASSUME NEW mid, AtStation(mid), phase' = "train", UNCHANGED <<trains, cmd, froms, tos, queue>>
  PROVE  AtStation(mid)'
<1>1. /\ Sections(trains, cmd, mid, Ahead, tos)
      /\ Waiting(trains, cmd, mid, tos, queue)
  BY Zenon DEF AtStation
<1>2. PICK G : G = Ahead'
  OBVIOUS
<1>3. G \in SUBSET Ahead
  BY <1>2 DEF Ahead
<1>4. Sections(trains, cmd, mid, G, tos)
  BY <1>1, <1>3, FewerSections
<1> QED
  BY <1>1, <1>2, <1>4 DEF AtStation

(* A head that is not refused can be changed to.                           *)
LEMMA TakenIsChange ==
  ASSUME Setting(trains, cmd), NEW mid, AtStation(mid), TakeHead
  PROVE  Change(trains, cmd, mid, [from |-> from, to |-> tos[TopOf(queue).second]])
<1>1. phase = "queue" /\ queue # EmptyHeap /\ ~ Refused(TopOf(queue))
  BY Zenon DEF TakeHead
<1>2. /\ Sections(trains, cmd, mid, Ahead, tos)
      /\ Waiting(trains, cmd, mid, tos, queue)
      /\ Ready(tos, from)
  BY <1>1, Zenon DEF AtStation
<1>3. IsFrom(trains, cmd, mid, from)
  <2>1. from \in Ahead
    BY <1>1 DEF Ahead
  <2> QED
    BY <2>1, <1>2, Zenon DEF Sections
<1>4. PICK top : top = TopOf(queue)
  OBVIOUS
<1>5. IsPair(TrainsOf(tos), top)
  <2>1. PICK w \in Nat :
          /\ Heap(queue, TrainsOf(tos), cmd.sort, w)
          /\ \A v : v \in ValuesIn(queue, MaxPushed) <=> InHeap(queue, v)
    BY <1>2, WaitingInHeap
  <2> QED
    BY <2>1, <1>1, <1>4, TopIsBest
<1>6. PICK i : i = top.second
  OBVIOUS
<1>7. i \in 1 .. Len(tos) /\ top.first.train = tos[i].train
  <2>1. i \in DOMAIN TrainsOf(tos) /\ top.first.train = TrainsOf(tos)[i]
    BY <1>5, <1>6, Zenon DEF IsPair
  <2> QED
    BY <2>1, <1>1, <1>2, PushesAre
<1>8. top.first.train # from.train /\ ~ tos[i].deleted
  BY <1>1, <1>4, <1>6, Zenon DEF Refused, Outdated
<1>9. from.arrival <= tos[i].departure
  BY <1>2, <1>7, <1>8, Zenon DEF Ready
<1>10. Placed(trains, cmd, mid, tos[i], {})
  <2>1. Placed(trains, cmd, mid, tos[i], Ahead)
    BY <1>2, <1>7, Zenon DEF Sections
  <2> QED
    BY <2>1, Zenon DEF Placed
<1>11. PICK sol : sol = [from |-> from, to |-> tos[TopOf(queue).second]]
  OBVIOUS
<1>12. sol.from = from /\ sol.to = tos[i]
  BY <1>4, <1>6, <1>11
<1>13. Change(trains, cmd, mid, sol)
  BY <1>3, <1>7, <1>8, <1>9, <1>10, <1>12, Zenon DEF Change
<1> QED
  BY <1>11, <1>13, Zenon

(* Every step keeps the search in order.                                   *)
LEMMA SearchStep == SearchOK /\ [Next]_vars => SearchOK'
<1> SUFFICES ASSUME SearchOK, [Next]_vars PROVE SearchOK'
  OBVIOUS
<1>1. Setting(trains, cmd)
  BY SettingIs, Zenon DEF SearchOK
<1>2. /\ trains \in Timetables /\ cmd \in Queries
      /\ \A sol \in answer : \E mid : Change(trains, cmd, mid, sol)
      /\ phase \in {"train", "queue"} => \E mid : AtStation(mid)
  BY Zenon DEF SearchOK
<1>3. CASE \E mid \in left : NextStation(mid)
  <2>1. PICK mid \in left : NextStation(mid)
    BY <1>3
  <2>2. AtStation(mid)'
    BY <1>1, <2>1, NextStationOK
  <2>3. trains' = trains /\ cmd' = cmd /\ answer' = answer /\ phase' = "train"
    BY <2>1 DEF NextStation
  <2> QED
    BY <1>2, <2>2, <2>3 DEF SearchOK
<1>4. CASE \E f \in froms : NextTrain(f)
  <2>1. PICK f \in froms : NextTrain(f)
    BY <1>4
  <2>2. trains' = trains /\ cmd' = cmd /\ answer' = answer /\ phase = "train" /\ phase' = "queue"
    BY <2>1 DEF NextTrain
  <2>3. PICK mid : AtStation(mid)
    BY <1>2, <2>2
  <2>4. AtStation(mid)'
    BY <1>1, <2>1, <2>3, NextTrainOK
  <2> QED
    BY <1>2, <2>2, <2>4 DEF SearchOK
<1>5. CASE PopHead
  <2>1. trains' = trains /\ cmd' = cmd /\ answer' = answer /\ phase = "queue" /\ phase' = "queue"
    BY <1>5 DEF PopHead
  <2>2. PICK mid : AtStation(mid)
    BY <1>2, <2>1
  <2>3. AtStation(mid)'
    BY <1>1, <1>5, <2>2, PopHeadOK
  <2> QED
    BY <1>2, <2>1, <2>3 DEF SearchOK
<1>6. CASE TakeHead
  <2>1. trains' = trains /\ cmd' = cmd /\ phase = "queue" /\ phase' = "train"
        /\ froms' = froms /\ tos' = tos /\ queue' = queue
    BY <1>6 DEF TakeHead
  <2>2. PICK mid : AtStation(mid)
    BY <1>2, <2>1
  <2>3. AtStation(mid)'
    BY <2>1, <2>2, BackToTrainOK
  <2>4. PICK sol : sol = [from |-> from, to |-> tos[TopOf(queue).second]]
    OBVIOUS
  <2>5. Change(trains, cmd, mid, sol)
    BY <1>1, <1>6, <2>2, <2>4, TakenIsChange
  <2>6. answer' = {sol} \/ answer' = answer
    BY <1>6, <2>4, Zenon DEF TakeHead
  <2>7. \A s \in answer' : \E m : Change(trains, cmd, m, s)
    BY <1>2, <2>5, <2>6
  <2> QED
    BY <1>2, <2>1, <2>3, <2>7 DEF SearchOK
<1>7. CASE NoHead
  <2>1. trains' = trains /\ cmd' = cmd /\ phase = "queue" /\ phase' = "train"
        /\ froms' = froms /\ tos' = tos /\ queue' = queue /\ answer' = answer
    BY <1>7 DEF NoHead
  <2>2. PICK mid : AtStation(mid)
    BY <1>2, <2>1
  <2>3. AtStation(mid)'
    BY <2>1, <2>2, BackToTrainOK
  <2> QED
    BY <1>2, <2>1, <2>3 DEF SearchOK
<1>8. CASE StationDone
  <2>1. trains' = trains /\ cmd' = cmd /\ phase' \in {"station", "done"} /\ answer' = answer
        /\ froms' = {} /\ tos' = <<>> /\ queue' = EmptyHeap
    BY <1>8 DEF StationDone
  <2> QED
    BY <1>2, <2>1 DEF SearchOK
<1>9. CASE UNCHANGED vars
  BY <1>9 DEF vars, SearchOK, AtStation, Ahead
<1> QED
  BY <1>3, <1>4, <1>5, <1>6, <1>7, <1>8, <1>9, Zenon DEF Next

-----------------------------------------------------------------------------
(* The order of the solutions                                              *)

(* The lexicographic order of four numbers.                                *)
LEMMA SmallerOfFour ==
  ASSUME NEW a1 \in Int, NEW a2 \in Int, NEW a3 \in Int, NEW a4 \in Int,
         NEW b1 \in Int, NEW b2 \in Int, NEW b3 \in Int, NEW b4 \in Int
  PROVE  Smaller(<<a1, a2, a3, a4>>, <<b1, b2, b3, b4>>)
           <=> a1 < b1 \/ (a1 = b1 /\ (a2 < b2 \/ (a2 = b2 /\ (a3 < b3 \/ (a3 = b3 /\ a4 < b4)))))
<1> DEFINE a == <<a1, a2, a3, a4>>
           b == <<b1, b2, b3, b4>>
<1>1. /\ DOMAIN a = 1 .. 4
      /\ a[1] = a1 /\ a[2] = a2 /\ a[3] = a3 /\ a[4] = a4
      /\ b[1] = b1 /\ b[2] = b2 /\ b[3] = b3 /\ b[4] = b4
  OBVIOUS
<1>2. Smaller(a, b) <=> \E i \in 1 .. 4 : a[i] < b[i] /\ \A j \in 1 .. i - 1 : a[j] = b[j]
  BY <1>1, Zenon DEF Smaller
<1> HIDE DEF a, b
<1>3. (\E i \in 1 .. 4 : a[i] < b[i] /\ \A j \in 1 .. i - 1 : a[j] = b[j])
        <=> \/ a[1] < b[1]
            \/ a[2] < b[2] /\ a[1] = b[1]
            \/ a[3] < b[3] /\ a[1] = b[1] /\ a[2] = b[2]
            \/ a[4] < b[4] /\ a[1] = b[1] /\ a[2] = b[2] /\ a[3] = b[3]
  OBVIOUS
<1>4. Smaller(a, b) <=> a1 < b1 \/ (a1 = b1 /\ (a2 < b2 \/ (a2 = b2 /\ (a3 < b3 \/ (a3 = b3 /\ a4 < b4)))))
  BY <1>1, <1>2, <1>3, Zenon
<1> QED
  BY <1>4, Zenon DEF a, b

(* The order of the solutions, for either way to sort.                     *)
TimeOf(sol) == sol.to.arrival - sol.from.departure
PriceFor(sol) == sol.from.price + sol.to.price

Cost(sort, sol) ==
  IF sort = "time" THEN <<TimeOf(sol), PriceFor(sol), sol.from.train, sol.to.train>>
  ELSE <<PriceFor(sol), TimeOf(sol), sol.from.train, sol.to.train>>

(* It is the key that the solutions are compared by.                       *)
LEMMA KeyIs ==
  ASSUME NEW sol
  PROVE  Key(sol) = Cost(cmd.sort, sol)
<1>1. \A a, b, c, d : <<a, b>> \o <<c, d>> = <<a, b, c, d>>
  <2>1. ASSUME NEW a, NEW b, NEW c, NEW d PROVE <<a, b>> \o <<c, d>> = <<a, b, c, d>>
    <3> DEFINE S == {a, b, c, d}
               t == <<a, b>> \o <<c, d>>
               u == <<a, b, c, d>>
    <3>1. <<a, b>> \in Seq(S) /\ <<c, d>> \in Seq(S) /\ Len(<<a, b>>) = 2 /\ Len(<<c, d>>) = 2
      OBVIOUS
    <3>2. /\ t \in Seq(S) /\ Len(t) = 4
          /\ t[1] = a /\ t[2] = b /\ t[3] = c /\ t[4] = d
      BY <3>1
    <3>3. /\ u \in Seq(S) /\ Len(u) = 4
          /\ u[1] = a /\ u[2] = b /\ u[3] = c /\ u[4] = d
      OBVIOUS
    <3> HIDE DEF t, u, S
    <3>4. t = u
      <4>1. t = [i \in 1 .. 4 |-> t[i]] /\ u = [i \in 1 .. 4 |-> u[i]]
        BY <3>2, <3>3
      <4>2. \A i \in 1 .. 4 : t[i] = u[i]
        BY <3>2, <3>3
      <4> QED
        BY <4>1, <4>2
    <3> QED
      BY <3>4 DEF t, u
  <2> QED
    BY <2>1
<1> QED
  BY <1>1, Zenon DEF Key, Cost, TimeOf, PriceFor

IsTrip(sol) ==
  /\ sol.from.price \in Int /\ sol.to.price \in Int
  /\ sol.from.departure \in Int /\ sol.to.arrival \in Int
  /\ sol.from.train \in Int /\ sol.to.train \in Int

NotWorse(sort, a, b) == ~ Smaller(Cost(sort, b), Cost(sort, a))

(* The comparison of two solutions, number by number.                      *)
LEMMA NotWorseIs ==
  ASSUME NEW sort, NEW a, IsTrip(a), NEW b, IsTrip(b)
  PROVE  /\ TimeOf(a) \in Int /\ PriceFor(a) \in Int /\ TimeOf(b) \in Int /\ PriceFor(b) \in Int
         /\ sort = "time" =>
              (Smaller(Cost(sort, a), Cost(sort, b))
                <=> \/ TimeOf(a) < TimeOf(b)
                    \/ /\ TimeOf(a) = TimeOf(b)
                       /\ \/ PriceFor(a) < PriceFor(b)
                          \/ /\ PriceFor(a) = PriceFor(b)
                             /\ \/ a.from.train < b.from.train
                                \/ a.from.train = b.from.train /\ a.to.train < b.to.train)
         /\ sort # "time" =>
              (Smaller(Cost(sort, a), Cost(sort, b))
                <=> \/ PriceFor(a) < PriceFor(b)
                    \/ /\ PriceFor(a) = PriceFor(b)
                       /\ \/ TimeOf(a) < TimeOf(b)
                          \/ /\ TimeOf(a) = TimeOf(b)
                             /\ \/ a.from.train < b.from.train
                                \/ a.from.train = b.from.train /\ a.to.train < b.to.train)
<1>1. /\ TimeOf(a) \in Int /\ PriceFor(a) \in Int /\ TimeOf(b) \in Int /\ PriceFor(b) \in Int
      /\ a.from.train \in Int /\ a.to.train \in Int /\ b.from.train \in Int /\ b.to.train \in Int
  BY DEF IsTrip, TimeOf, PriceFor
<1>2. CASE sort = "time"
  <2>1. Cost(sort, a) = <<TimeOf(a), PriceFor(a), a.from.train, a.to.train>>
        /\ Cost(sort, b) = <<TimeOf(b), PriceFor(b), b.from.train, b.to.train>>
    BY <1>2 DEF Cost
  <2>2. PICK a1 \in Int : a1 = TimeOf(a)
    BY <1>1
  <2>3. PICK a2 \in Int : a2 = PriceFor(a)
    BY <1>1
  <2>4. PICK b1 \in Int : b1 = TimeOf(b)
    BY <1>1
  <2>5. PICK b2 \in Int : b2 = PriceFor(b)
    BY <1>1
  <2>6. PICK a3, a4, b3, b4 :
          a3 = a.from.train /\ a4 = a.to.train /\ b3 = b.from.train /\ b4 = b.to.train
    OBVIOUS
  <2>7. a3 \in Int /\ a4 \in Int /\ b3 \in Int /\ b4 \in Int
    BY <1>1, <2>6
  <2>8. Cost(sort, a) = <<a1, a2, a3, a4>> /\ Cost(sort, b) = <<b1, b2, b3, b4>>
    BY <2>1, <2>2, <2>3, <2>4, <2>5, <2>6, Zenon
  <2>9. Smaller(Cost(sort, a), Cost(sort, b))
          <=> a1 < b1 \/ (a1 = b1 /\ (a2 < b2 \/ (a2 = b2 /\ (a3 < b3 \/ (a3 = b3 /\ a4 < b4)))))
    <3>1. Smaller(<<a1, a2, a3, a4>>, <<b1, b2, b3, b4>>)
            <=> a1 < b1 \/ (a1 = b1 /\ (a2 < b2 \/ (a2 = b2 /\ (a3 < b3 \/ (a3 = b3 /\ a4 < b4)))))
      BY <2>7, SmallerOfFour
    <3> QED
      BY <2>8, <3>1, Zenon
  <2> QED
    BY <1>2, <2>2, <2>3, <2>4, <2>5, <2>6, <2>9, Zenon
<1>3. CASE sort # "time"
  <2>1. Cost(sort, a) = <<PriceFor(a), TimeOf(a), a.from.train, a.to.train>>
        /\ Cost(sort, b) = <<PriceFor(b), TimeOf(b), b.from.train, b.to.train>>
    BY <1>3 DEF Cost
  <2>2. PICK a1 \in Int : a1 = PriceFor(a)
    BY <1>1
  <2>3. PICK a2 \in Int : a2 = TimeOf(a)
    BY <1>1
  <2>4. PICK b1 \in Int : b1 = PriceFor(b)
    BY <1>1
  <2>5. PICK b2 \in Int : b2 = TimeOf(b)
    BY <1>1
  <2>6. PICK a3, a4, b3, b4 :
          a3 = a.from.train /\ a4 = a.to.train /\ b3 = b.from.train /\ b4 = b.to.train
    OBVIOUS
  <2>7. a3 \in Int /\ a4 \in Int /\ b3 \in Int /\ b4 \in Int
    BY <1>1, <2>6
  <2>8. Cost(sort, a) = <<a1, a2, a3, a4>> /\ Cost(sort, b) = <<b1, b2, b3, b4>>
    BY <2>1, <2>2, <2>3, <2>4, <2>5, <2>6, Zenon
  <2>9. Smaller(Cost(sort, a), Cost(sort, b))
          <=> a1 < b1 \/ (a1 = b1 /\ (a2 < b2 \/ (a2 = b2 /\ (a3 < b3 \/ (a3 = b3 /\ a4 < b4)))))
    <3>1. Smaller(<<a1, a2, a3, a4>>, <<b1, b2, b3, b4>>)
            <=> a1 < b1 \/ (a1 = b1 /\ (a2 < b2 \/ (a2 = b2 /\ (a3 < b3 \/ (a3 = b3 /\ a4 < b4)))))
      BY <2>7, SmallerOfFour
    <3> QED
      BY <2>8, <3>1, Zenon
  <2> QED
    BY <1>3, <2>2, <2>3, <2>4, <2>5, <2>6, <2>9, Zenon
<1> QED
  BY <1>1, <1>2, <1>3

(* It is an order.                                                         *)
LEMMA NotWorseOrder ==
  ASSUME NEW sort, NEW a, IsTrip(a), NEW b, IsTrip(b)
  PROVE  /\ Smaller(Cost(sort, a), Cost(sort, b)) => NotWorse(sort, a, b)
         /\ \A c : IsTrip(c) /\ NotWorse(sort, a, b) /\ NotWorse(sort, b, c) => NotWorse(sort, a, c)
<1>0. /\ a.from.train \in Int /\ a.to.train \in Int /\ b.from.train \in Int /\ b.to.train \in Int
  BY DEF IsTrip
<1>1. Smaller(Cost(sort, a), Cost(sort, b)) => ~ Smaller(Cost(sort, b), Cost(sort, a))
  BY <1>0, NotWorseIs
<1>2. ASSUME NEW c, IsTrip(c), ~ Smaller(Cost(sort, b), Cost(sort, a)), ~ Smaller(Cost(sort, c), Cost(sort, b))
      PROVE  ~ Smaller(Cost(sort, c), Cost(sort, a))
  <2>0. c.from.train \in Int /\ c.to.train \in Int
    BY <1>2 DEF IsTrip
  <2>1. CASE sort = "time"
    BY <1>0, <1>2, <2>0, <2>1, NotWorseIs
  <2>2. CASE sort # "time"
    BY <1>0, <1>2, <2>0, <2>2, NotWorseIs
  <2> QED
    BY <2>1, <2>2
<1> QED
  BY <1>1, <1>2, Zenon DEF NotWorse

(* With the same section from the origin, the order of the sections to the *)
(* destination is that of the solutions.                                   *)
LEMMA RankDecides ==
  ASSUME NEW sort \in {"time", "cost"}, NEW f, NEW x, NEW y, NEW g,
         f.price \in Int, f.departure \in Int, f.train \in Int,
         x.price \in Int, x.arrival \in Int, x.train \in Int,
         y.price \in Int, y.arrival \in Int, y.train \in Int,
         g.arrival \in Int, g.price = y.price, g.train = y.train, y.arrival <= g.arrival,
         ~ Smaller(RankBy(sort, y), RankBy(sort, x))
  PROVE  NotWorse(sort, [from |-> f, to |-> x], [from |-> f, to |-> g])
<1>1. PICK a : a = [from |-> f, to |-> x]
  OBVIOUS
<1>2. PICK b : b = [from |-> f, to |-> g]
  OBVIOUS
<1>3. a.from = f /\ a.to = x /\ b.from = f /\ b.to = g
  BY <1>1, <1>2
<1>4. IsTrip(a) /\ IsTrip(b)
  BY <1>3 DEF IsTrip
<1>5. PICK fp \in Int : fp = f.price
  OBVIOUS
<1>6. PICK fd \in Int : fd = f.departure
  OBVIOUS
<1>7. PICK xp \in Int : xp = x.price
  OBVIOUS
<1>8. PICK xa \in Int : xa = x.arrival
  OBVIOUS
<1>9. PICK xt \in Int : xt = x.train
  OBVIOUS
<1>10. PICK yp \in Int : yp = y.price
  OBVIOUS
<1>11. PICK ya \in Int : ya = y.arrival
  OBVIOUS
<1>12. PICK yt \in Int : yt = y.train
  OBVIOUS
<1>13. PICK ga \in Int : ga = g.arrival
  OBVIOUS
<1>14. /\ TimeOf(a) = xa - fd /\ PriceFor(a) = fp + xp
       /\ TimeOf(b) = ga - fd /\ PriceFor(b) = fp + yp
       /\ a.from.train = b.from.train /\ a.to.train = xt /\ b.to.train = yt
  BY <1>3, <1>5, <1>6, <1>7, <1>8, <1>9, <1>10, <1>12, <1>13, Zenon DEF TimeOf, PriceFor
<1>15. ya <= ga
  BY <1>11, <1>13
<1>16. b.from.train \in Int
  BY <1>3
<1>17. CASE sort = "cost"
  <2>1. RankBy(sort, y) = <<yp, ya, yt>> /\ RankBy(sort, x) = <<xp, xa, xt>>
    BY <1>17, <1>7, <1>8, <1>9, <1>10, <1>11, <1>12, Zenon DEF RankBy
  <2>2. ~ (yp < xp \/ (yp = xp /\ (ya < xa \/ (ya = xa /\ yt < xt))))
    <3>1. Smaller(<<yp, ya, yt>>, <<xp, xa, xt>>)
            <=> yp < xp \/ (yp = xp /\ (ya < xa \/ (ya = xa /\ yt < xt)))
      BY SmallerOfThree
    <3> QED
      BY <2>1, <3>1, Zenon
  <2>3. ~ Smaller(Cost(sort, b), Cost(sort, a))
    <3>1. Smaller(Cost(sort, b), Cost(sort, a))
            <=> \/ PriceFor(b) < PriceFor(a)
                \/ /\ PriceFor(b) = PriceFor(a)
                   /\ \/ TimeOf(b) < TimeOf(a)
                      \/ /\ TimeOf(b) = TimeOf(a)
                         /\ \/ b.from.train < a.from.train
                            \/ b.from.train = a.from.train /\ b.to.train < a.to.train
      BY <1>4, <1>17, NotWorseIs
    <3> QED
      BY <3>1, <2>2, <1>14, <1>15, <1>16
  <2> QED
    BY <2>3, <1>1, <1>2, Zenon DEF NotWorse
<1>18. CASE sort = "time"
  <2>1. RankBy(sort, y) = <<ya, yp, yt>> /\ RankBy(sort, x) = <<xa, xp, xt>>
    <3>1. sort # "cost"
      BY <1>18
    <3> QED
      BY <3>1, <1>7, <1>8, <1>9, <1>10, <1>11, <1>12, Zenon DEF RankBy
  <2>2. ~ (ya < xa \/ (ya = xa /\ (yp < xp \/ (yp = xp /\ yt < xt))))
    <3>1. Smaller(<<ya, yp, yt>>, <<xa, xp, xt>>)
            <=> ya < xa \/ (ya = xa /\ (yp < xp \/ (yp = xp /\ yt < xt)))
      BY SmallerOfThree
    <3> QED
      BY <2>1, <3>1, Zenon
  <2>3. ~ Smaller(Cost(sort, b), Cost(sort, a))
    <3>1. Smaller(Cost(sort, b), Cost(sort, a))
            <=> \/ TimeOf(b) < TimeOf(a)
                \/ /\ TimeOf(b) = TimeOf(a)
                   /\ \/ PriceFor(b) < PriceFor(a)
                      \/ /\ PriceFor(b) = PriceFor(a)
                         /\ \/ b.from.train < a.from.train
                            \/ b.from.train = a.from.train /\ b.to.train < a.to.train
      BY <1>4, <1>18, NotWorseIs
    <3> QED
      BY <3>1, <2>2, <1>14, <1>15, <1>16
  <2> QED
    BY <2>3, <1>1, <1>2, Zenon DEF NotWorse
<1> QED
  BY <1>17, <1>18

(* What the answer becomes is not worse than what it was, nor than the     *)
(* solution it was compared with.                                          *)
LEMMA BetterStays ==
  ASSUME NEW sort, NEW A, \A a \in A : IsTrip(a), \A a, b \in A : a = b, NEW sol, IsTrip(sol),
         NEW B, B = IF \A best \in A : Smaller(Cost(sort, sol), Cost(sort, best)) THEN {sol} ELSE A,
         NEW j, IsTrip(j), NotWorse(sort, sol, j) \/ \E a \in A : NotWorse(sort, a, j)
  PROVE  \E a \in B : NotWorse(sort, a, j)
<1>1. CASE \A best \in A : Smaller(Cost(sort, sol), Cost(sort, best))
  <2>1. B = {sol}
    BY <1>1
  <2>2. ASSUME NEW a \in A, NotWorse(sort, a, j) PROVE NotWorse(sort, sol, j)
    <3>1. NotWorse(sort, sol, a)
      BY <1>1, NotWorseOrder
    <3> QED
      BY <3>1, <2>2, NotWorseOrder
  <2> QED
    BY <2>1, <2>2
<1>2. CASE ~ \A best \in A : Smaller(Cost(sort, sol), Cost(sort, best))
  <2>1. B = A
    BY <1>2
  <2>2. PICK best \in A : NotWorse(sort, best, sol)
    BY <1>2, Zenon DEF NotWorse
  <2>3. NotWorse(sort, sol, j) => NotWorse(sort, best, j)
    BY <2>2, NotWorseOrder
  <2> QED
    BY <2>1, <2>2, <2>3
<1> QED
  BY <1>1, <1>2

-----------------------------------------------------------------------------
(* The journeys that are possible                                          *)

(* The train can be changed to from a section from the origin.             *)
CanChange(T, Q, mid, f, id, date) ==
  /\ id \in DOMAIN T /\ date \in T[id].begin .. T[id].end
  /\ Stops(T[id], mid, Q.to)
  /\ f.train # id
  /\ f.arrival <= DepartsOn(T[id], Q.date, mid, date)

Trip(T, Q, mid, f, id, date) == [from |-> f, to |-> OnLeg(T, Q, id, mid, Q.to, date)]

(* A possible journey can be compared.                                     *)
LEMMA TripIs ==
  ASSUME NEW T, NEW Q, Setting(T, Q), NEW mid, NEW f, IsFrom(T, Q, mid, f), NEW id, NEW date,
         CanChange(T, Q, mid, f, id, date)
  PROVE  IsTrip(Trip(T, Q, mid, f, id, date))
<1>1. PICK s : s = OnLeg(T, Q, id, mid, Q.to, date)
  OBVIOUS
<1>2. id \in DOMAIN T /\ date \in T[id].begin .. T[id].end /\ Stops(T[id], mid, Q.to)
  BY Zenon DEF CanChange
<1>3. id \in Int /\ IsTrain(T[id]) /\ T[id].begin \in Int /\ T[id].end \in Int
  BY <1>2, TrainIs
<1>4. date \in Int /\ Q.date \in Int
  BY <1>2, <1>3 DEF Setting
<1>5. /\ ArrivesOn(T[id], Q.date, Q.to, date) \in Int /\ PriceOf(T[id], mid, Q.to) \in Nat
  BY <1>2, <1>3, <1>4, TimesOn
<1>6. s.train \in Int /\ s.arrival \in Int /\ s.price \in Int
  BY <1>1, <1>3, <1>5, OnLegIs
<1>7. f.departure \in Int /\ f.price \in Int /\ f.train \in Int
  <2>1. f.train \in DOMAIN T /\ f.departure \in Int /\ f.price \in Int
    BY FromFacts
  <2> QED
    BY <2>1, TrainIs
<1>8. PICK t : t = [from |-> f, to |-> s]
  OBVIOUS
<1>9. IsTrip(t)
  BY <1>6, <1>7, <1>8 DEF IsTrip
<1> QED
  BY <1>1, <1>8, <1>9, Zenon DEF Trip

(* So can one that the search puts together.                               *)
LEMMA ChangeIsTrip ==
  ASSUME NEW T, NEW Q, Setting(T, Q), NEW mid, NEW sol, Change(T, Q, mid, sol)
  PROVE  IsTrip(sol)
<1>1. IsFrom(T, Q, mid, sol.from) /\ Placed(T, Q, mid, sol.to, {})
  BY Zenon DEF Change
<1>2. /\ sol.from.train \in DOMAIN T /\ sol.from.departure \in Int /\ sol.from.price \in Int
      /\ sol.to.train \in DOMAIN T /\ sol.to.arrival \in Int /\ sol.to.price \in Int
  BY <1>1, FromFacts, PlacedFacts
<1>3. sol.from.train \in Int /\ sol.to.train \in Int
  BY <1>2, TrainIs
<1> QED
  BY <1>2, <1>3 DEF IsTrip

(* There is a first section for every train that can be changed to.        *)
LEMMA FirstExists ==
  ASSUME NEW T, NEW Q, Setting(T, Q), NEW mid, NEW f, IsFrom(T, Q, mid, f), NEW id, NEW date,
         CanChange(T, Q, mid, f, id, date)
  PROVE  \E s : IsFirst(T, Q, mid, s) /\ s.train = id
<1>1. PICK s : s = FirstSec(T, Q, mid, id)
  OBVIOUS
<1>2. PICK n : n = FirstDays(T, Q, mid, id)
  OBVIOUS
<1>3. /\ id \in DOMAIN T /\ date \in T[id].begin .. T[id].end /\ Stops(T[id], mid, Q.to)
      /\ f.arrival <= DepartsOn(T[id], Q.date, mid, date)
  BY Zenon DEF CanChange
<1>4. /\ IsTrain(T[id]) /\ T[id].begin \in Int /\ T[id].end \in Int /\ Q.date \in Int
  BY <1>3, TrainIs DEF Setting
<1>5. /\ n \in 0 .. T[id].end - T[id].begin
      /\ PutOff(T[id], Q.date, mid, T[id].begin, 0, n)
  BY <1>2, <1>3, FirstDaysIs
<1>6. PICK first \in Int : first = T[id].begin + n
  BY <1>4, <1>5
<1>7. s.train = id /\ s.departure = DepartsOn(T[id], Q.date, mid, first)
  <2>1. PICK no : no = FALSE
    OBVIOUS
  <2>2. s = ToSec(T, Q, mid, id, first, no)
    BY <1>1, <1>2, <1>6, <2>1, Zenon DEF FirstSec
  <2> QED
    BY <2>2, ToSecIs
<1>8. DepartsOn(T[id], Q.date, mid, date) \in Int /\ DepartsOn(T[id], Q.date, mid, first) \in Int
  <2>1. date \in Int
    BY <1>3, <1>4
  <2> QED
    BY <2>1, <1>3, <1>4, <1>6, TimesOn
<1>9. 0 <= DepartsOn(T[id], Q.date, mid, date)
  <2>1. /\ f.departure \in Int /\ f.arrival \in Int /\ 0 <= f.departure /\ f.departure <= f.arrival
    BY FromFacts
  <2> QED
    BY <2>1, <1>3, <1>8
<1>10. s.departure >= 0
  <2>1. first = T[id].end \/ DepartsOn(T[id], Q.date, mid, first) >= 0
    BY <1>5, <1>6, Zenon DEF PutOff
  <2>2. \A d \in Int : T[id].begin <= d /\ d < first => DepartsOn(T[id], Q.date, mid, d) < 0
    BY <1>5, <1>6, Zenon DEF PutOff
  <2>3. CASE first = T[id].end
    <3>1. date \in Int /\ T[id].begin <= date /\ date <= first
      BY <2>3, <1>3, <1>4
    <3>2. ~ (date < first)
      BY <3>1, <2>2, <1>8, <1>9
    <3>3. date = first
      BY <3>1, <3>2, <1>6
    <3> QED
      BY <3>3, <1>7, <1>9, <1>8
  <2> QED
    BY <2>1, <2>3, <1>7
<1>11. IsFirst(T, Q, mid, s)
  BY <1>1, <1>3, <1>10, Zenon DEF IsFirst
<1> QED
  BY <1>7, <1>11

(* No solution that goes on from f is better than those of A.              *)
Best(T, Q, mid, f, A) ==
  \A id, date : CanChange(T, Q, mid, f, id, date) =>
    \E a \in A : NotWorse(Q.sort, a, Trip(T, Q, mid, f, id, date))

ThroughAt(T, Q, mid) == \E id \in DOMAIN T : Stops(T[id], Q.from, mid) /\ Stops(T[id], mid, Q.to)

Complete(T, Q, mid, list) ==
  \A s : IsFirst(T, Q, mid, s) => \E i \in 1 .. Len(list) : list[i].train = s.train

(* A train that can be changed to is in the heap, with a date that is not  *)
(* later.                                                                  *)
IsReady(T, Q, mid, list, heap, i, id, date) ==
  /\ i \in 1 .. Len(list)
  /\ list[i].train = id
  /\ list[i].price = PriceOf(T[id], mid, Q.to) /\ list[i].price \in Int
  /\ list[i].arrival <= ArrivesOn(T[id], Q.date, Q.to, date) /\ list[i].arrival \in Int
  /\ InHeap(heap, Pair(list[i], i))

(* Unless a through train is in the way, every train that can be changed   *)
(* to waits.                                                               *)
LEMMA ReadyWaits ==
  ASSUME NEW T, NEW Q, Setting(T, Q), NEW mid, NEW F, NEW list, NEW heap,
         Sections(T, Q, mid, F, list), Waiting(T, Q, mid, list, heap),
         Complete(T, Q, mid, list), ~ ThroughAt(T, Q, mid),
         NEW f \in F, NEW id, NEW date, CanChange(T, Q, mid, f, id, date)
  PROVE  \E i : IsReady(T, Q, mid, list, heap, i, id, date)
<1>1. IsFrom(T, Q, mid, f)
  BY Zenon DEF Sections
<1>2. PICK i \in 1 .. Len(list) : list[i].train = id
  <2>1. PICK s : IsFirst(T, Q, mid, s) /\ s.train = id
    BY <1>1, FirstExists
  <2> QED
    BY <2>1, Zenon DEF Complete
<1>3. PICK x : x = list[i]
  OBVIOUS
<1>4. Placed(T, Q, mid, x, F)
  BY <1>3, Zenon DEF Sections
<1>5. PICK id2, date2, deleted :
        /\ IsPlace(T, Q, mid, x, id2, date2, deleted)
        /\ \A g \in F : TooLate(T[id2], Q.date, mid, date2, deleted, g.arrival)
  BY <1>4, Zenon DEF Placed
<1>6. id2 = id
  <2>1. x.train = id2
    BY <1>5, PlaceFacts
  <2> QED
    BY <2>1, <1>2, <1>3
<1>7. /\ id \in DOMAIN T /\ date \in T[id].begin .. T[id].end /\ Stops(T[id], mid, Q.to)
      /\ f.arrival <= DepartsOn(T[id], Q.date, mid, date)
  BY Zenon DEF CanChange
<1>16. IsPlace(T, Q, mid, x, id, date2, deleted)
  BY <1>5, <1>6, Zenon
<1>8. /\ date2 \in Int /\ IsTrain(T[id]) /\ T[id].begin \in Int /\ T[id].end \in Int /\ Q.date \in Int
      /\ x.arrival = ArrivesOn(T[id], Q.date, Q.to, date2) /\ x.arrival \in Int
      /\ x.price = PriceOf(T[id], mid, Q.to) /\ x.price \in Int
  BY <1>16, PlaceFacts
<1>15. x.deleted = deleted
  <2>1. x = ToSec(T, Q, mid, id, date2, deleted)
    BY <1>16, Zenon DEF IsPlace
  <2> QED
    BY <2>1, ToSecIs
<1>9. date \in Int
  BY <1>7, <1>8
<1>10. DepartsOn(T[id], Q.date, mid, date) \in Int /\ f.arrival \in Int
  BY <1>1, <1>7, <1>8, <1>9, TimesOn, FromFacts
<1>11. ~ (date < date2 \/ deleted)
  <2>1. ~ (DepartsOn(T[id], Q.date, mid, date) < f.arrival)
    BY <1>7, <1>10
  <2>2. TooLate(T[id], Q.date, mid, date2, deleted, f.arrival)
    BY <1>5, <1>6, Zenon
  <2> QED
    BY <2>1, <2>2, <1>7, Zenon DEF TooLate
<1>12. x.arrival <= ArrivesOn(T[id], Q.date, Q.to, date)
  <2>1. PICK k \in Int : k = date - date2
    BY <1>8, <1>9
  <2>2. date = date2 + k /\ 0 <= k
    BY <2>1, <1>8, <1>9, <1>11
  <2>3. ArrivesOn(T[id], Q.date, Q.to, date2 + k) = ArrivesOn(T[id], Q.date, Q.to, date2) + k * kDay
    BY <1>7, <1>8, TimesMove
  <2>4. ArrivesOn(T[id], Q.date, Q.to, date) = x.arrival + k * 1440
    <3>1. date = date2 + k /\ k * kDay = k * 1440
      BY <2>2, Constants
    <3> QED
      BY <2>3, <3>1, <1>8
  <2> QED
    BY <2>2, <2>4, <1>8
<1>13. ~ Blocked(T, Q, mid, id)
  <2>1. ASSUME NEW g, IsFrom(T, Q, mid, g), g.train = id PROVE FALSE
    <3>1. Stops(T[g.train], Q.from, mid)
      BY <2>1, FromFacts
    <3> QED
      BY <3>1, <2>1, <1>7, Zenon DEF ThroughAt
  <2> QED
    BY <2>1, Zenon DEF Blocked
<1>14. InHeap(heap, Pair(list[i], i))
  <2>1. ~ list[i].deleted
    BY <1>3, <1>15, <1>11, Zenon
  <2>2. ~ Blocked(T, Q, mid, list[i].train)
    BY <1>2, <1>13, Zenon
  <2> QED
    BY <2>1, <2>2, Zenon DEF Waiting
<1> QED
  BY <1>2, <1>3, <1>8, <1>12, <1>14, Zenon DEF IsReady

-----------------------------------------------------------------------------
(* The section at hand has been met by the best one that can be changed to. *)

(* When the queue is empty there is no way to go on.                       *)
LEMMA NoneToTake ==
  ASSUME Setting(trains, cmd), NEW mid, AtStation(mid), Complete(trains, cmd, mid, tos),
         ~ ThroughAt(trains, cmd, mid), NoHead, NEW A
  PROVE  Best(trains, cmd, mid, from, A)
<1>1. phase = "queue" /\ queue = EmptyHeap
  BY Zenon DEF NoHead
<1>2. /\ Sections(trains, cmd, mid, Ahead, tos)
      /\ Waiting(trains, cmd, mid, tos, queue)
  BY <1>1, Zenon DEF AtStation
<1>3. from \in Ahead
  BY <1>1 DEF Ahead
<1>4. ASSUME NEW id, NEW date, CanChange(trains, cmd, mid, from, id, date) PROVE FALSE
  <2>1. PICK i : IsReady(trains, cmd, mid, tos, queue, i, id, date)
    BY <1>2, <1>3, <1>4, ReadyWaits
  <2>2. InHeap(queue, Pair(tos[i], i))
    BY <2>1, Zenon DEF IsReady
  <2> QED
    BY <2>2, <1>1, EmptyHeapIs, Zenon
<1> QED
  BY <1>4, Zenon DEF Best

(* The head that is taken is the best way to go on.                        *)
LEMMA TakenIsBest ==
  ASSUME Setting(trains, cmd), NEW mid, AtStation(mid), Complete(trains, cmd, mid, tos),
         ~ ThroughAt(trains, cmd, mid), TakeHead
  PROVE  Best(trains, cmd, mid, from, {[from |-> from, to |-> tos[TopOf(queue).second]]})
<1>1. phase = "queue" /\ queue # EmptyHeap /\ ~ Refused(TopOf(queue))
  BY Zenon DEF TakeHead
<1>2. /\ Sections(trains, cmd, mid, Ahead, tos)
      /\ Waiting(trains, cmd, mid, tos, queue)
  BY <1>1, Zenon DEF AtStation
<1>3. from \in Ahead
  BY <1>1 DEF Ahead
<1>4. IsFrom(trains, cmd, mid, from)
  BY <1>2, <1>3, Zenon DEF Sections
<1>5. PICK top : top = TopOf(queue)
  OBVIOUS
<1>6. IsPair(TrainsOf(tos), top) /\ \A v : InHeap(queue, v) => IsPair(TrainsOf(tos), v) /\ ~ Under(cmd.sort, top, v)
  <2>1. PICK w \in Nat :
          /\ Heap(queue, TrainsOf(tos), cmd.sort, w)
          /\ \A v : v \in ValuesIn(queue, MaxPushed) <=> InHeap(queue, v)
    BY <1>2, WaitingInHeap
  <2> QED
    BY <2>1, <1>1, <1>5, TopIsBest
<1>7. PICK x : x = tos[top.second]
  OBVIOUS
<1>8. /\ x.arrival = top.first.arrival /\ x.price = top.first.price /\ x.train = top.first.train
      /\ x.arrival \in Int /\ x.price \in Int /\ x.train \in Int
  <2>1. \A field \in {"departure", "arrival", "price"} : tos[top.second][field] = top.first[field]
    BY <1>1, <1>5, Zenon DEF Refused, Outdated
  <2>2. x.arrival = top.first.arrival /\ x.price = top.first.price
    <3>1. "arrival" \in {"departure", "arrival", "price"} /\ "price" \in {"departure", "arrival", "price"}
      OBVIOUS
    <3> QED
      BY <2>1, <3>1, <1>7, Zenon
  <2>3. top.second \in DOMAIN TrainsOf(tos) /\ top.first.train = TrainsOf(tos)[top.second]
    BY <1>6, Zenon DEF IsPair
  <2>4. x.train = top.first.train
    BY <2>3, <1>2, <1>7, PushesAre
  <2> QED
    BY <2>2, <2>4, <1>6, Zenon DEF IsPair
<1>9. /\ from.price \in Int /\ from.departure \in Int /\ from.train \in Int
  <2>1. from.train \in DOMAIN trains /\ from.departure \in Int /\ from.price \in Int
    BY <1>4, FromFacts
  <2> QED
    BY <2>1, TrainIs
<1>10. ASSUME NEW id, NEW date, CanChange(trains, cmd, mid, from, id, date)
       PROVE  NotWorse(cmd.sort, [from |-> from, to |-> x], Trip(trains, cmd, mid, from, id, date))
  <2>1. PICK i : IsReady(trains, cmd, mid, tos, queue, i, id, date)
    BY <1>2, <1>3, <1>10, ReadyWaits
  <2>2. PICK y : y = tos[i]
    OBVIOUS
  <2>3. PICK g : g = OnLeg(trains, cmd, id, mid, cmd.to, date)
    OBVIOUS
  <2>4. id \in Int /\ g.train = id /\ g.arrival \in Int
        /\ g.price = PriceOf(trains[id], mid, cmd.to)
        /\ g.arrival = ArrivesOn(trains[id], cmd.date, cmd.to, date)
    <3>1. id \in DOMAIN trains /\ date \in trains[id].begin .. trains[id].end /\ Stops(trains[id], mid, cmd.to)
      BY <1>10, Zenon DEF CanChange
    <3>2. id \in Int /\ IsTrain(trains[id]) /\ trains[id].begin \in Int /\ trains[id].end \in Int /\ cmd.date \in Int
      BY <3>1, TrainIs DEF Setting
    <3>3. date \in Int
      BY <3>1, <3>2
    <3>4. ArrivesOn(trains[id], cmd.date, cmd.to, date) \in Int
      BY <3>1, <3>2, <3>3, TimesOn
    <3> QED
      BY <3>2, <3>4, <2>3, OnLegIs
  <2>5. /\ y.train = id /\ y.price = g.price /\ y.price \in Int
        /\ y.arrival <= g.arrival /\ y.arrival \in Int
        /\ InHeap(queue, Pair(y, i))
    BY <2>1, <2>2, <2>4, Zenon DEF IsReady
  <2>6. ~ Smaller(RankBy(cmd.sort, y), RankBy(cmd.sort, x))
    <3>1. ~ Under(cmd.sort, top, Pair(y, i))
      BY <2>5, <1>6, Zenon
    <3>2. Pair(y, i).first = y
      BY PairIs
    <3>3. RankBy(cmd.sort, top.first) = RankBy(cmd.sort, x)
      BY <1>8, Zenon DEF RankBy
    <3> QED
      BY <3>1, <3>2, <3>3, Zenon DEF Under
  <2>7. cmd.sort \in {"time", "cost"}
    BY DEF Setting
  <2>8. NotWorse(cmd.sort, [from |-> from, to |-> x], [from |-> from, to |-> g])
    BY <1>8, <1>9, <2>4, <2>5, <2>6, <2>7, RankDecides
  <2> QED
    BY <2>3, <2>8, Zenon DEF Trip
<1>11. PICK sol : sol = [from |-> from, to |-> x]
  OBVIOUS
<1>12. Best(trains, cmd, mid, from, {sol})
  <2>1. sol \in {sol}
    OBVIOUS
  <2> QED
    BY <2>1, <1>10, <1>11, Zenon DEF Best
<1> QED
  BY <1>5, <1>7, <1>11, <1>12, Zenon

(* A section that has been met stays met when the answer changes.          *)
LEMMA BestStays ==
  ASSUME NEW T, NEW Q, Setting(T, Q),
         NEW A, \A a \in A : IsTrip(a), \A a, b \in A : a = b, NEW sol, IsTrip(sol),
         NEW B, B = IF \A best \in A : Smaller(Cost(Q.sort, sol), Cost(Q.sort, best)) THEN {sol} ELSE A,
         NEW mid, NEW f, IsFrom(T, Q, mid, f),
         Best(T, Q, mid, f, A) \/ Best(T, Q, mid, f, {sol})
  PROVE  Best(T, Q, mid, f, B)
<1>1. ASSUME NEW id, NEW date, CanChange(T, Q, mid, f, id, date)
      PROVE  \E a \in B : NotWorse(Q.sort, a, Trip(T, Q, mid, f, id, date))
  <2>1. PICK j : j = Trip(T, Q, mid, f, id, date)
    OBVIOUS
  <2>2. IsTrip(j)
    BY <1>1, <2>1, TripIs
  <2>3. NotWorse(Q.sort, sol, j) \/ \E a \in A : NotWorse(Q.sort, a, j)
    <3>1. \A a \in {sol} : a = sol
      OBVIOUS
    <3> QED
      BY <1>1, <2>1, <3>1, Zenon DEF Best
  <2>4. \E a \in B : NotWorse(Q.sort, a, j)
    BY <2>2, <2>3, BetterStays
  <2> QED
    BY <2>1, <2>4, Zenon
<1> QED
  BY <1>1, Zenon DEF Best

-----------------------------------------------------------------------------
(* How far the search is                                                   *)

IsChange(T, Q, mid) == (\E s : IsFrom(T, Q, mid, s)) /\ \E s : IsFirst(T, Q, mid, s)

(* A station is still to be looked at, or nothing there is better than A.  *)
DoneFor(T, Q, L, A, mid) ==
  mid \in L \/ ThroughAt(T, Q, mid) \/ ~ IsChange(T, Q, mid)
    \/ \A f : IsFrom(T, Q, mid, f) => Best(T, Q, mid, f, A)

Progress(T, Q, mid, list, F, L, A) ==
  /\ Complete(T, Q, mid, list)
  /\ ThroughAt(T, Q, mid) \/ \A f : IsFrom(T, Q, mid, f) => f \in F \/ Best(T, Q, mid, f, A)
  /\ \A m : m # mid => DoneFor(T, Q, L, A, m)

BestOK ==
  /\ SearchOK
  /\ \A a, b \in answer : a = b
  /\ phase = "done" => left = {}
  /\ phase \in {"station", "done"} => \A m : DoneFor(trains, cmd, left, answer, m)
  /\ phase \in {"train", "queue"} =>
       \E mid : AtStation(mid) /\ Progress(trains, cmd, mid, tos, Ahead, left, answer)

(* The stations that are looked at have all the journeys.                  *)
LEMMA ChangesAre ==
  ASSUME Setting(trains, cmd), NEW mid, IsChange(trains, cmd, mid)
  PROVE  mid \in {s.mid : s \in AllFrom} \cap {s.mid : s \in AllTo}
<1>1. PICK s : IsFrom(trains, cmd, mid, s)
  BY Zenon DEF IsChange
<1>2. PICK t : IsFirst(trains, cmd, mid, t)
  BY Zenon DEF IsChange
<1>3. s \in At(mid, AllFrom) /\ t \in At(mid, AllTo)
  BY <1>1, <1>2, AtFrom, AtTo, Zenon
<1>4. s \in AllFrom /\ s.mid = mid /\ t \in AllTo /\ t.mid = mid
  BY <1>3, Zenon DEF At
<1> QED
  BY <1>4, Zenon

(* No station has been looked at.                                          *)
LEMMA InitBest == Init => BestOK
<1> SUFFICES ASSUME Init PROVE BestOK
  OBVIOUS
<1>1. SearchOK
  BY InitSearch
<1>2. Setting(trains, cmd)
  BY <1>1, SettingIs, Zenon DEF SearchOK
<1>3. /\ phase = "station" /\ answer = {}
      /\ left = {s.mid : s \in AllFrom} \cap {s.mid : s \in AllTo}
  BY Zenon DEF Init
<1>4. \A m : DoneFor(trains, cmd, left, answer, m)
  BY <1>2, <1>3, ChangesAre, Zenon DEF DoneFor
<1>5. phase # "done" /\ phase # "train" /\ phase # "queue"
  BY <1>3
<1> QED
  BY <1>1, <1>3, <1>4, <1>5 DEF BestOK

(* At a new station all the sections from the origin are still to be met.  *)
LEMMA StationBest ==
  ASSUME BestOK, NEW mid \in left, NextStation(mid)
  PROVE  Progress(trains, cmd, mid, tos', At(mid, AllFrom), left', answer)
<1>1. Setting(trains, cmd)
  BY SettingIs, Zenon DEF SearchOK, BestOK
<1>2. PICK list : list = tos'
  OBVIOUS
<1>3. list \in Sorted(At(mid, AllTo)) /\ left' = left \ {mid} /\ phase = "station"
  BY <1>2, Zenon DEF NextStation
<1>4. Complete(trains, cmd, mid, list)
  <2>1. \A s : IsFirst(trains, cmd, mid, s) => \E i \in 1 .. Len(list) : list[i] = s
    BY <1>1, <1>3, SortedIs
  <2> QED
    BY <2>1, Zenon DEF Complete
<1>5. \A f : IsFrom(trains, cmd, mid, f) => f \in At(mid, AllFrom)
  BY <1>1, AtFrom
<1>6. \A m : DoneFor(trains, cmd, left, answer, m)
  BY <1>3 DEF BestOK
<1>7. PICK L : L = left'
  OBVIOUS
<1>8. ASSUME NEW m, m # mid PROVE DoneFor(trains, cmd, L, answer, m)
  <2>1. m \in left => m \in L
    BY <1>3, <1>7, <1>8
  <2> QED
    BY <1>6, <2>1, Zenon DEF DoneFor
<1>9. Progress(trains, cmd, mid, list, At(mid, AllFrom), L, answer)
  BY <1>4, <1>5, <1>8, Zenon DEF Progress
<1> QED
  BY <1>2, <1>7, <1>9

(* The answer that the head of the queue makes, where A is the old one.    *)
LEMMA TakenProgress ==
  ASSUME BestOK, NEW mid, AtStation(mid), Progress(trains, cmd, mid, tos, Ahead, left, answer), TakeHead
  PROVE  Progress(trains, cmd, mid, tos, froms, left, answer') /\ \A a, b \in answer' : a = b
<1>1. Setting(trains, cmd)
  BY SettingIs, Zenon DEF SearchOK, BestOK
<1>2. PICK sol : sol = [from |-> from, to |-> tos[TopOf(queue).second]]
  OBVIOUS
<1>3. PICK B : B = answer'
  OBVIOUS
<1>4. phase = "queue" /\ B = IF \A best \in answer : Smaller(Key(sol), Key(best)) THEN {sol} ELSE answer
  BY <1>2, <1>3, Zenon DEF TakeHead
<1>5. B = IF \A best \in answer : Smaller(Cost(cmd.sort, sol), Cost(cmd.sort, best)) THEN {sol} ELSE answer
  BY <1>4, KeyIs, Zenon
<1>6. IsTrip(sol)
  <2>1. Change(trains, cmd, mid, sol)
    BY <1>1, <1>2, TakenIsChange
  <2> QED
    BY <1>1, <2>1, ChangeIsTrip
<1>7. \A a \in answer : IsTrip(a)
  <2>1. \A a \in answer : \E m : Change(trains, cmd, m, a)
    BY Zenon DEF SearchOK, BestOK
  <2> QED
    BY <1>1, <2>1, ChangeIsTrip, Zenon
<1>8. \A a, b \in answer : a = b
  BY Zenon DEF BestOK
<1>9. \A a, b \in B : a = b
  BY <1>4, <1>8
<1>10. /\ Complete(trains, cmd, mid, tos)
       /\ ThroughAt(trains, cmd, mid) \/ \A f : IsFrom(trains, cmd, mid, f) =>
            f \in Ahead \/ Best(trains, cmd, mid, f, answer)
       /\ \A m : m # mid => DoneFor(trains, cmd, left, answer, m)
  BY Zenon DEF Progress
<1>11. ASSUME NEW m, NEW f, IsFrom(trains, cmd, m, f), Best(trains, cmd, m, f, answer)
       PROVE  Best(trains, cmd, m, f, B)
  BY <1>1, <1>5, <1>6, <1>7, <1>8, <1>11, BestStays
<1>12. \A m : m # mid => DoneFor(trains, cmd, left, B, m)
  BY <1>10, <1>11, Zenon DEF DoneFor
<1>13. ASSUME ~ ThroughAt(trains, cmd, mid), NEW f, IsFrom(trains, cmd, mid, f), f \notin froms
       PROVE  Best(trains, cmd, mid, f, B)
  <2>1. CASE f = from
    <3>1. Best(trains, cmd, mid, f, {sol})
      BY <1>1, <1>2, <1>10, <1>13, <2>1, TakenIsBest
    <3> QED
      BY <1>1, <1>5, <1>6, <1>7, <1>8, <1>13, <3>1, BestStays
  <2>2. CASE f # from
    <3>1. f \notin Ahead
      BY <1>4, <1>13, <2>2 DEF Ahead
    <3> QED
      BY <1>10, <1>11, <1>13, <3>1, Zenon
  <2> QED
    BY <2>1, <2>2
<1>14. Progress(trains, cmd, mid, tos, froms, left, B)
  BY <1>10, <1>12, <1>13, Zenon DEF Progress
<1> QED
  BY <1>3, <1>9, <1>14

(* Every step keeps what has been reached.                                 *)
LEMMA BestStep == BestOK /\ [Next]_vars => BestOK'
<1> SUFFICES ASSUME BestOK, [Next]_vars PROVE BestOK'
  OBVIOUS
<1>1. SearchOK /\ SearchOK'
  BY SearchStep, Zenon DEF BestOK
<1>2. Setting(trains, cmd)
  BY <1>1, SettingIs, Zenon DEF SearchOK
<1>3. /\ \A a, b \in answer : a = b
      /\ phase \in {"train", "queue"} =>
           \E mid : AtStation(mid) /\ Progress(trains, cmd, mid, tos, Ahead, left, answer)
  BY Zenon DEF BestOK
<1>4. CASE \E mid \in left : NextStation(mid)
  <2>1. PICK mid \in left : NextStation(mid)
    BY <1>4
  <2>2. AtStation(mid)'
    BY <1>2, <2>1, NextStationOK
  <2>3. Progress(trains, cmd, mid, tos', At(mid, AllFrom), left', answer)
    BY <2>1, StationBest
  <2>4. /\ trains' = trains /\ cmd' = cmd /\ answer' = answer /\ phase' = "train"
        /\ froms' = At(mid, AllFrom)
    BY <2>1 DEF NextStation
  <2>5. Ahead' = At(mid, AllFrom)
    BY <2>4 DEF Ahead
  <2> QED
    BY <1>1, <1>3, <2>2, <2>3, <2>4, <2>5 DEF BestOK
<1>5. CASE \E f \in froms : NextTrain(f)
  <2>1. PICK f \in froms : NextTrain(f)
    BY <1>5
  <2>2. /\ trains' = trains /\ cmd' = cmd /\ answer' = answer /\ left' = left
        /\ phase = "train" /\ phase' = "queue"
        /\ froms' = froms \ {f} /\ from' = f
    BY <2>1 DEF NextTrain
  <2>3. PICK mid : AtStation(mid) /\ Progress(trains, cmd, mid, tos, Ahead, left, answer)
    BY <1>3, <2>2
  <2>4. /\ AtStation(mid)' /\ Len(tos') = Len(tos)
        /\ \A i \in 1 .. Len(tos) : tos'[i].train = tos[i].train
    BY <1>2, <2>1, <2>3, NextTrainOK
  <2>5. Ahead' = Ahead
    BY <2>1, <2>2 DEF Ahead
  <2>6. PICK list : list = tos'
    OBVIOUS
  <2>7. Progress(trains, cmd, mid, list, Ahead, left, answer)
    <3>1. \A i \in 1 .. Len(tos) : i \in 1 .. Len(list) /\ list[i].train = tos[i].train
      BY <2>4, <2>6
    <3>2. Complete(trains, cmd, mid, list)
      BY <2>3, <3>1, Zenon DEF Progress, Complete
    <3> QED
      BY <2>3, <3>2, Zenon DEF Progress
  <2> QED
    BY <1>1, <1>3, <2>2, <2>4, <2>5, <2>6, <2>7 DEF BestOK
<1>6. CASE PopHead
  <2>1. /\ trains' = trains /\ cmd' = cmd /\ answer' = answer /\ left' = left
        /\ phase = "queue" /\ phase' = "queue" /\ froms' = froms /\ from' = from /\ tos' = tos
    BY <1>6 DEF PopHead
  <2>2. PICK mid : AtStation(mid) /\ Progress(trains, cmd, mid, tos, Ahead, left, answer)
    BY <1>3, <2>1
  <2>3. AtStation(mid)'
    BY <1>2, <1>6, <2>2, PopHeadOK
  <2>4. Ahead' = Ahead
    BY <2>1 DEF Ahead
  <2> QED
    BY <1>1, <1>3, <2>1, <2>2, <2>3, <2>4 DEF BestOK
<1>7. CASE TakeHead
  <2>1. /\ trains' = trains /\ cmd' = cmd /\ left' = left
        /\ phase = "queue" /\ phase' = "train" /\ froms' = froms /\ tos' = tos /\ queue' = queue
    BY <1>7 DEF TakeHead
  <2>2. PICK mid : AtStation(mid) /\ Progress(trains, cmd, mid, tos, Ahead, left, answer)
    BY <1>3, <2>1
  <2>3. AtStation(mid)'
    BY <2>1, <2>2, BackToTrainOK
  <2>4. Progress(trains, cmd, mid, tos, froms, left, answer') /\ \A a, b \in answer' : a = b
    BY <1>7, <2>2, TakenProgress
  <2>5. Ahead' = froms
    BY <2>1 DEF Ahead
  <2> QED
    BY <1>1, <2>1, <2>3, <2>4, <2>5 DEF BestOK
<1>8. CASE NoHead
  <2>1. /\ trains' = trains /\ cmd' = cmd /\ left' = left /\ answer' = answer
        /\ phase = "queue" /\ phase' = "train" /\ froms' = froms /\ tos' = tos /\ queue' = queue
    BY <1>8 DEF NoHead
  <2>2. PICK mid : AtStation(mid) /\ Progress(trains, cmd, mid, tos, Ahead, left, answer)
    BY <1>3, <2>1
  <2>3. AtStation(mid)'
    BY <2>1, <2>2, BackToTrainOK
  <2>4. Progress(trains, cmd, mid, tos, froms, left, answer)
    <3>1. /\ Complete(trains, cmd, mid, tos)
          /\ ThroughAt(trains, cmd, mid) \/ \A f : IsFrom(trains, cmd, mid, f) =>
               f \in Ahead \/ Best(trains, cmd, mid, f, answer)
          /\ \A m : m # mid => DoneFor(trains, cmd, left, answer, m)
      BY <2>2, Zenon DEF Progress
    <3>2. ~ ThroughAt(trains, cmd, mid) => Best(trains, cmd, mid, from, answer)
      BY <1>2, <1>8, <2>2, <3>1, NoneToTake
    <3>3. \A f : f \in Ahead => f \in froms \/ f = from
      BY <2>1 DEF Ahead
    <3> QED
      BY <3>1, <3>2, <3>3, Zenon DEF Progress
  <2>5. Ahead' = froms
    BY <2>1 DEF Ahead
  <2> QED
    BY <1>1, <1>3, <2>1, <2>3, <2>4, <2>5 DEF BestOK
<1>9. CASE StationDone
  <2>1. /\ trains' = trains /\ cmd' = cmd /\ left' = left /\ answer' = answer
        /\ phase = "train" /\ froms = {} /\ phase' = IF left = {} THEN "done" ELSE "station"
    BY <1>9 DEF StationDone
  <2>2. PICK mid : AtStation(mid) /\ Progress(trains, cmd, mid, tos, Ahead, left, answer)
    BY <1>3, <2>1
  <2>3. Ahead = {}
    BY <2>1 DEF Ahead
  <2>4. \A m : DoneFor(trains, cmd, left, answer, m)
    <3>1. \A f : f \notin Ahead
      BY <2>3
    <3> QED
      BY <2>2, <3>1, Zenon DEF Progress, DoneFor
  <2>5. phase' # "train" /\ phase' # "queue" /\ (phase' = "done" => left = {})
    BY <2>1
  <2> QED
    BY <1>1, <1>3, <2>1, <2>4, <2>5 DEF BestOK
<1>10. CASE UNCHANGED vars
  BY <1>10 DEF vars, BestOK, SearchOK, AtStation, Ahead
<1> QED
  BY <1>4, <1>5, <1>6, <1>7, <1>8, <1>9, <1>10, Zenon DEF Next

(* A train that is in the way is a through train.                          *)
LEMMA ThroughIs ==
  ASSUME Setting(trains, cmd), NEW mid, ThroughAt(trains, cmd, mid)
  PROVE  Through(mid)
<1>1. PICK id \in DOMAIN trains : Stops(trains[id], cmd.from, mid) /\ Stops(trains[id], mid, cmd.to)
  BY Zenon DEF ThroughAt
<1>2. /\ 0 < IndexOfStop(trains[id], cmd.from)
      /\ IndexOfStop(trains[id], cmd.from) < IndexOfStop(trains[id], mid)
      /\ IndexOfStop(trains[id], mid) < IndexOfStop(trains[id], cmd.to)
  BY <1>1, Zenon DEF Stops
<1> QED
  BY <1>2, Zenon DEF Through

(* When all the stations have been looked at, no journey is better than    *)
(* the answer.                                                             *)
LEMMA ViaIsBest ==
  ASSUME BestOK, Finished, NEW mid, ~ Through(mid)
  PROVE  BestVia(mid)
<1>1. Setting(trains, cmd)
  BY SettingIs, Zenon DEF SearchOK, BestOK
<1>2. left = {} /\ phase \in {"station", "done"}
  BY DEF BestOK, Finished
<1>3. DoneFor(trains, cmd, left, answer, mid) /\ ~ ThroughAt(trains, cmd, mid)
  BY <1>1, <1>2, ThroughIs, Zenon DEF BestOK
<1>4. ASSUME NEW journey \in Journeys(mid)
      PROVE  \E sol \in answer : ~ Smaller(Key(journey), Key(sol))
  <2>1. /\ journey \in [from : Legs(cmd.from, mid), to : Legs(mid, cmd.to)]
        /\ journey.from.train # journey.to.train
        /\ DaysOverflow(journey.from.departure) = 0
        /\ journey.from.arrival <= journey.to.departure
    BY <1>4, JourneyIs, Zenon
  <2>2. journey.from \in Legs(cmd.from, mid) /\ journey.to \in Legs(mid, cmd.to)
    BY <2>1
  <2>3. PICK f : IsFrom(trains, cmd, mid, f) /\ LegOf(f) = journey.from
    BY <1>1, <2>1, <2>2, LegIsFrom
  <2>4. PICK id \in DOMAIN trains : \E date \in trains[id].begin .. trains[id].end :
          Stops(trains[id], mid, cmd.to) /\ journey.to = OnLeg(trains, cmd, id, mid, cmd.to, date)
    BY <2>2, LegsAre
  <2>5. PICK date \in trains[id].begin .. trains[id].end :
          Stops(trains[id], mid, cmd.to) /\ journey.to = OnLeg(trains, cmd, id, mid, cmd.to, date)
    BY <2>4
  <2>6. /\ journey.from.train = f.train /\ journey.from.departure = f.departure
        /\ journey.from.arrival = f.arrival /\ journey.from.price = f.price
    <3>1. /\ LegOf(f).train = f.train /\ LegOf(f).departure = f.departure
          /\ LegOf(f).arrival = f.arrival /\ LegOf(f).price = f.price
      BY DEF LegOf
    <3> QED
      BY <2>3, <3>1, Zenon
  <2>7. /\ journey.to.train = id
        /\ journey.to.departure = DepartsOn(trains[id], cmd.date, mid, date)
    BY <2>5, OnLegIs
  <2>8. CanChange(trains, cmd, mid, f, id, date)
    BY <2>1, <2>4, <2>5, <2>6, <2>7, Zenon DEF CanChange
  <2>9. IsChange(trains, cmd, mid)
    <3>1. \E s : IsFirst(trains, cmd, mid, s)
      BY <1>1, <2>3, <2>8, FirstExists
    <3> QED
      BY <2>3, <3>1, Zenon DEF IsChange
  <2>10. Best(trains, cmd, mid, f, answer)
    <3>1. mid \notin left
      BY <1>2
    <3> QED
      BY <1>3, <2>3, <2>9, <3>1, Zenon DEF DoneFor
  <2>11. PICK sol \in answer : NotWorse(cmd.sort, sol, Trip(trains, cmd, mid, f, id, date))
    BY <2>8, <2>10, Zenon DEF Best
  <2>12. PICK trip : trip = Trip(trains, cmd, mid, f, id, date)
    OBVIOUS
  <2>13. trip.from = f /\ trip.to = journey.to
    BY <2>5, <2>12 DEF Trip
  <2>14. Cost(cmd.sort, journey) = Cost(cmd.sort, trip)
    <3>1. TimeOf(journey) = TimeOf(trip) /\ PriceFor(journey) = PriceFor(trip)
      BY <2>6, <2>13, Zenon DEF TimeOf, PriceFor
    <3> QED
      BY <3>1, <2>6, <2>13, Zenon DEF Cost
  <2>15. ~ Smaller(Key(journey), Key(sol))
    BY <2>11, <2>12, <2>14, KeyIs, Zenon DEF NotWorse
  <2> QED
    BY <2>15
<1> QED
  BY <1>4, Zenon DEF BestVia

(* The invariant gives the property.                                       *)
LEMMA BestIsBest == BestOK => BestWhereNoThroughTrain
BY ViaIsBest, Zenon DEF BestWhereNoThroughTrain

(* The answer is a journey that can be made: two trains that run on the    *)
(* dates it takes them for, the first on the date asked for, the second    *)
(* not before the first is there, for any timetable and query.             *)
THEOREM JourneyCanBeMade == Spec => []AnswerIsJourney
<1>1. SearchOK => AnswerIsJourney
  BY AnswerOK
<1> QED
  BY <1>1, InitSearch, SearchStep, PTL DEF Spec

(* However the pairing heap has been pushed to and popped from, its head   *)
(* is the best of all that is in it, and a section that can still be       *)
(* changed to is in it with the values it has now, unless its train comes  *)
(* from the origin itself.                                                 *)
THEOREM QueueHasTheBest == Spec => []QueueExact
<1>1. SearchOK => QueueExact
  BY QueueOK
<1> QED
  BY <1>1, InitSearch, SearchStep, PTL DEF Spec

(* No journey that changes at a station no through train passes is better  *)
(* than the answer, whatever order the stations, and sections that arrive  *)
(* together, are looked at.                                                *)
THEOREM SearchFindsTheBest == Spec => []BestWhereNoThroughTrain
BY InitBest, BestStep, BestIsBest, PTL DEF Spec

=============================================================================
