------------------------- MODULE TrainCatalogProofs -------------------------
(***************************************************************************)
(* The properties of TrainCatalog for any names, lines and bounds.         *)
(***************************************************************************)
EXTENDS TrainCatalog, FiniteSetTheorems, SequenceTheorems, TLAPS

-----------------------------------------------------------------------------
(* The inductive invariant.                                                *)

Operations == {"AddTrain", "DeleteTrain", "ReleaseTrain"}
Entry == [timestamp : Int, content : [op : Operations, id : Nat]]

TrainsOK ==
  /\ IsFiniteSet(DOMAIN trains)
  /\ freeTrains \in Seq(Nat)
  /\ \A id \in DOMAIN trains : trains[id] \in Train
  /\ IsInjective(freeTrains)
  /\ ToSet(freeTrains) \cap DOMAIN trains = {}
  /\ ToSet(freeTrains) \cup DOMAIN trains = 1 .. (Len(freeTrains) + Cardinality(DOMAIN trains))

NamesOK == ixId = {<<trains[id].name, id>> : id \in {i \in DOMAIN trains : ~ trains[i].deleted}}

RidesOK ==
  /\ ixStop = UNION {StopsOf(id) : id \in Released}
  /\ DOMAIN rideSeats = UNION {RidesOf(id) : id \in Released}
  /\ \A r \in DOMAIN rideSeats : rideSeats[r] \in [DOMAIN rideSeats[r] -> Int]

Logged(k, op, id) == log[k].content.op = op /\ log[k].content.id = id

(* The log speaks of trains of the file only.  The entry that adds a train *)
(* is the first about it: when it is undone, no other train has its id.    *)
LogOK ==
  /\ now \in Int
  /\ log \in Seq(Entry)
  /\ \A k \in DOMAIN log : log[k].content.id \in DOMAIN trains
  /\ \A j, k \in DOMAIN log :
       j < k /\ log[k].content.op = "AddTrain" => log[j].content.id # log[k].content.id

(* The entries say what has become of each train, and none says it twice.  *)
Mentioned(op, id) == \E k \in DOMAIN log : Logged(k, op, id)

FlagsOK ==
  /\ \A id \in DOMAIN trains : Mentioned("AddTrain", id)
  /\ \A id \in DOMAIN trains : trains[id].deleted <=> Mentioned("DeleteTrain", id)
  /\ \A id \in DOMAIN trains : trains[id].released <=> Mentioned("ReleaseTrain", id)
  /\ \A id \in DOMAIN trains : ~ (trains[id].deleted /\ trains[id].released)

NoEntryTwice ==
  \A j, k \in DOMAIN log :
    Logged(j, log[k].content.op, log[k].content.id) => j = k

(* Of two trains with one name, the one was deleted before the other came. *)
GoneBefore(p, q) ==
  \E j, k \in DOMAIN log : Logged(j, "DeleteTrain", p) /\ Logged(k, "AddTrain", q) /\ j < k

OneAfterTheOther ==
  \A p, q \in DOMAIN trains :
    p # q /\ trains[p].name = trains[q].name => GoneBefore(p, q) \/ GoneBefore(q, p)

CatalogInv ==
  TrainsOK /\ NamesOK /\ RidesOK /\ LogOK /\ FlagsOK /\ NoEntryTwice /\ OneAfterTheOther

-----------------------------------------------------------------------------
(* Helpers.                                                                *)

LEMMA LogAppended ==
  ASSUME LogOK, NEW c \in [op : Operations, id : Nat], Log(c), NEW m, m = Len(log) + 1
  PROVE  /\ log' \in Seq(Entry)
         /\ m \in Nat
         /\ m \notin DOMAIN log
         /\ DOMAIN log' = DOMAIN log \cup {m}
         /\ \A k \in DOMAIN log : log'[k] = log[k] /\ k < m /\ k \in Nat
         /\ log'[m].content = c
<1>1. [timestamp |-> now, content |-> c] \in Entry /\ log \in Seq(Entry)
  BY DEF LogOK, Entry
<1>2. log' = Append(log, [timestamp |-> now, content |-> c])
  BY DEF Log
<1>3. Len(log) \in Nat /\ DOMAIN log = 1 .. Len(log)
  BY <1>1
<1>4. log' \in Seq(Entry) /\ Len(log') = Len(log) + 1
  BY <1>1, <1>2
<1>5. DOMAIN log' = 1 .. Len(log) + 1
  BY <1>4
<1>6. /\ \A k \in 1 .. Len(log) : log'[k] = log[k]
      /\ log'[Len(log) + 1] = [timestamp |-> now, content |-> c]
  BY <1>1, <1>2, <1>3
<1> QED
  BY <1>3, <1>4, <1>5, <1>6

LEMMA LogShortened ==
  ASSUME LogOK, log # <<>>, DestroyEntry, NEW m, m = Len(log)
  PROVE  /\ log' \in Seq(Entry)
         /\ m \in DOMAIN log
         /\ DOMAIN log' = DOMAIN log \ {m}
         /\ \A k \in DOMAIN log' : log'[k] = log[k] /\ k < m /\ k \in Nat
         /\ \A k \in DOMAIN log : k \in Nat
         /\ Newest = log[m]
         /\ log[m] \in Entry
<1>1. log \in Seq(Entry) /\ Len(log) \in Nat /\ Len(log) # 0 /\ DOMAIN log = 1 .. Len(log)
  BY DEF LogOK
<1>2. log' = SubSeq(log, 1, Len(log) - 1)
  BY DEF DestroyEntry
<1>3. log' \in Seq(Entry) /\ Len(log') = Len(log) - 1 /\ \A k \in 1 .. Len(log) - 1 : log'[k] = log[k]
  BY <1>1, <1>2
<1>4. DOMAIN log' = 1 .. Len(log) - 1
  BY <1>1, <1>3
<1>5. Len(log) \in DOMAIN log /\ log[Len(log)] \in Entry
  BY <1>1
<1> QED
  BY <1>1, <1>3, <1>4, <1>5 DEF Newest

(* The entries of a longer log, and of a shorter one.                      *)
LEMMA MentionedAfterLog ==
  ASSUME LogOK, NEW c \in [op : Operations, id : Nat], Log(c)
  PROVE  /\ \A op, id : Mentioned(op, id)' <=> Mentioned(op, id) \/ (c.op = op /\ c.id = id)
         /\ \A p, q : GoneBefore(p, q) => GoneBefore(p, q)'
         /\ \A p : Mentioned("DeleteTrain", p) /\ c.op = "AddTrain" => GoneBefore(p, c.id)'
<1>1. PICK m : m = Len(log) + 1
  OBVIOUS
<1>2. /\ m \notin DOMAIN log
      /\ DOMAIN log' = DOMAIN log \cup {m}
      /\ \A k \in DOMAIN log : log'[k] = log[k] /\ k < m /\ k \in Nat
      /\ log'[m].content = c
  BY <1>1, LogAppended
<1>3. \A k \in DOMAIN log : \A op, id : Logged(k, op, id)' <=> Logged(k, op, id)
  BY <1>2 DEF Logged
<1>4. \A op, id : Logged(m, op, id)' <=> c.op = op /\ c.id = id
  BY <1>2 DEF Logged
<1>5. \A op, id : Mentioned(op, id)' <=> Mentioned(op, id) \/ (c.op = op /\ c.id = id)
  BY <1>2, <1>3, <1>4 DEF Mentioned
<1>6. ASSUME NEW p, NEW q, GoneBefore(p, q) PROVE GoneBefore(p, q)'
  BY <1>2, <1>3, <1>6 DEF GoneBefore
<1>7. ASSUME NEW p, Mentioned("DeleteTrain", p), c.op = "AddTrain" PROVE GoneBefore(p, c.id)'
  <2>1. PICK j \in DOMAIN log : Logged(j, "DeleteTrain", p)
    BY <1>7 DEF Mentioned
  <2>2. Logged(j, "DeleteTrain", p)' /\ Logged(m, "AddTrain", c.id)' /\ j < m
        /\ j \in DOMAIN log' /\ m \in DOMAIN log'
    BY <1>2, <1>3, <1>4, <1>7, <2>1
  <2> QED
    BY <2>2 DEF GoneBefore
<1> QED
  BY <1>5, <1>6, <1>7

LEMMA MentionedAfterUndo ==
  ASSUME LogOK, log # <<>>, DestroyEntry
  PROVE  /\ Newest \in Entry
         /\ Newest.content.id \in DOMAIN trains
         /\ \A op, id : Mentioned(op, id)'
              => Mentioned(op, id)
         /\ \A op, id : Mentioned(op, id) /\ ~ (Newest.content.op = op /\ Newest.content.id = id)
              => Mentioned(op, id)'
         /\ \A p, q : GoneBefore(p, q) /\ (Newest.content.op = "AddTrain" => Newest.content.id # q)
              => GoneBefore(p, q)'
         /\ \A op, id : Newest.content.op = "AddTrain" /\ Mentioned(op, id)' => id # Newest.content.id
<1>1. PICK m : m = Len(log)
  OBVIOUS
<1>2. /\ m \in DOMAIN log
      /\ DOMAIN log' = DOMAIN log \ {m}
      /\ \A k \in DOMAIN log' : log'[k] = log[k] /\ k < m /\ k \in Nat
      /\ \A k \in DOMAIN log : k \in Nat
      /\ Newest = log[m]
      /\ log[m] \in Entry
  BY <1>1, LogShortened
<1>3. \A k \in DOMAIN log' : k \in DOMAIN log /\ \A op, id : Logged(k, op, id)' <=> Logged(k, op, id)
  BY <1>2 DEF Logged
<1>4. ASSUME NEW op, NEW id, Mentioned(op, id)' PROVE Mentioned(op, id)
  BY <1>3, <1>4 DEF Mentioned
<1>5. ASSUME NEW op, NEW id, Mentioned(op, id), ~ (Newest.content.op = op /\ Newest.content.id = id)
      PROVE  Mentioned(op, id)'
  <2>1. PICK k \in DOMAIN log : Logged(k, op, id)
    BY <1>5 DEF Mentioned
  <2>2. k # m
    BY <1>2, <1>5, <2>1 DEF Logged
  <2> QED
    BY <1>2, <1>3, <2>1, <2>2 DEF Mentioned
<1>6. ASSUME NEW p, NEW q, GoneBefore(p, q), Newest.content.op = "AddTrain" => Newest.content.id # q
      PROVE  GoneBefore(p, q)'
  <2>1. PICK j \in DOMAIN log, k \in DOMAIN log :
          Logged(j, "DeleteTrain", p) /\ Logged(k, "AddTrain", q) /\ j < k
    BY <1>6 DEF GoneBefore
  <2>2. k # m
    BY <1>2, <1>6, <2>1 DEF Logged
  <2>3. k \in DOMAIN log' /\ k < m
    BY <1>2, <2>2
  <2>4. j # m
    BY <1>2, <2>1, <2>3
  <2> QED
    BY <1>2, <1>3, <2>1, <2>3, <2>4 DEF GoneBefore
<1>7. ASSUME NEW op, NEW id, Newest.content.op = "AddTrain", Mentioned(op, id)'
      PROVE  id # Newest.content.id
  <2>1. PICK k \in DOMAIN log' : Logged(k, op, id)
    BY <1>3, <1>7 DEF Mentioned
  <2>2. k \in DOMAIN log /\ k < m
    BY <1>2
  <2> QED
    BY <1>2, <1>7, <2>1, <2>2 DEF LogOK, Logged
<1>8. Newest.content.id \in DOMAIN trains
  BY <1>2 DEF LogOK
<1> QED
  BY <1>2, <1>4, <1>5, <1>6, <1>7, <1>8

(* An entry that says something new, and the one that is undone.           *)
LEMMA NewEntryIsNotThere ==
  ASSUME LogOK, NoEntryTwice, NEW c \in [op : Operations, id : Nat], Log(c), ~ Mentioned(c.op, c.id)
  PROVE  NoEntryTwice'
<1>1. PICK m : m = Len(log) + 1
  OBVIOUS
<1>2. /\ m \notin DOMAIN log
      /\ DOMAIN log' = DOMAIN log \cup {m}
      /\ \A k \in DOMAIN log : log'[k] = log[k]
      /\ log'[m].content = c
  BY <1>1, LogAppended
<1>3. \A k \in DOMAIN log : ~ (log[k].content.op = c.op /\ log[k].content.id = c.id)
  BY DEF Mentioned, Logged
<1>4. ASSUME NEW j \in DOMAIN log', NEW k \in DOMAIN log',
             log'[j].content.op = log'[k].content.op, log'[j].content.id = log'[k].content.id
      PROVE  j = k
  <2>1. CASE j = m
    BY <1>2, <1>3, <1>4, <2>1
  <2>2. CASE k = m
    BY <1>2, <1>3, <1>4, <2>2
  <2>3. CASE j # m /\ k # m
    BY <1>2, <1>4, <2>3 DEF NoEntryTwice, Logged
  <2> QED
    BY <2>1, <2>2, <2>3
<1> QED
  BY <1>4 DEF NoEntryTwice, Logged

LEMMA UndoneEntryIsGone ==
  ASSUME LogOK, NoEntryTwice, log # <<>>, DestroyEntry
  PROVE  /\ NoEntryTwice'
         /\ \A op, id : Newest.content.op = op /\ Newest.content.id = id => ~ Mentioned(op, id)'
<1>1. PICK m : m = Len(log)
  OBVIOUS
<1>2. /\ m \in DOMAIN log
      /\ DOMAIN log' = DOMAIN log \ {m}
      /\ \A k \in DOMAIN log' : log'[k] = log[k]
      /\ Newest = log[m]
  BY <1>1, LogShortened
<1>3. NoEntryTwice'
  BY <1>2 DEF NoEntryTwice, Logged
<1>4. ASSUME NEW k \in DOMAIN log'
      PROVE  ~ (log'[k].content.op = Newest.content.op /\ log'[k].content.id = Newest.content.id)
  BY <1>2 DEF NoEntryTwice, Logged
<1> QED
  BY <1>2, <1>3, <1>4 DEF Mentioned, Logged, NoEntryTwice

(* save() gives an id that no record of the file has.                      *)
LEMMA SaveIsNew ==
  ASSUME TrainsOK, NEW train \in Train, Save(train), NEW n, n = NewId
  PROVE  /\ TrainsOK'
         /\ n \in Nat
         /\ n \notin DOMAIN trains
         /\ DOMAIN trains' = DOMAIN trains \cup {n}
         /\ trains'[n] = train
         /\ \A id \in DOMAIN trains : trains'[id] = trains[id]
<1> DEFINE used == DOMAIN trains
           free == ToSet(freeTrains)
<1>1. PICK c \in Nat : c = Cardinality(used)
  BY FS_CardinalityType DEF TrainsOK
<1>2. PICK l \in Nat : l = Len(freeTrains) /\ DOMAIN freeTrains = 1 .. l
  BY DEF TrainsOK
<1>3. free \cap used = {} /\ free \cup used = 1 .. (l + c)
  BY <1>1, <1>2 DEF TrainsOK
<1>4. trains' = [id \in used \cup {n} |-> IF id = n THEN train ELSE trains[id]]
  BY DEF Save, Update
<1>5. DOMAIN trains' = used \cup {n} /\ trains'[n] = train
  BY <1>4
<1>6. n \notin used /\ n \in Nat
      /\ freeTrains' \in Seq(Nat) /\ IsInjective(freeTrains')
      /\ ToSet(freeTrains') = free \ {n}
      /\ (free \ {n}) \cup (used \cup {n}) = 1 .. (Len(freeTrains') + c + 1)
  <2>1. CASE freeTrains # <<>>
    <3>1. l >= 1 /\ n = freeTrains[1] /\ freeTrains' = Tail(freeTrains)
      BY <1>2, <2>1 DEF NewId, Save, TrainsOK
    <3>2. n \in free
      BY <1>2, <3>1 DEF ToSet
    <3>3. freeTrains' \in Seq(Nat) /\ Len(freeTrains') = l - 1
          /\ \A i \in 1 .. l - 1 : freeTrains'[i] = freeTrains[i + 1]
      BY <1>2, <2>1, <3>1 DEF TrainsOK
    <3>4. DOMAIN freeTrains' = 1 .. l - 1
      BY <1>2, <3>3
    <3>5. IsInjective(freeTrains')
      <4>1. ASSUME NEW i \in 1 .. l - 1, NEW j \in 1 .. l - 1, freeTrains'[i] = freeTrains'[j] PROVE i = j
        <5>1. i + 1 \in DOMAIN freeTrains /\ j + 1 \in DOMAIN freeTrains
              /\ freeTrains[i + 1] = freeTrains[j + 1]
          BY <1>2, <3>3, <4>1
        <5>2. i + 1 = j + 1
          BY <5>1 DEF TrainsOK, IsInjective
        <5> QED
          BY <5>2
      <4> QED
        BY <3>4, <4>1 DEF IsInjective
    <3>6. ToSet(freeTrains') = free \ {n}
      <4>1. ASSUME NEW x \in ToSet(freeTrains') PROVE x \in free \ {n}
        <5>1. PICK i \in 1 .. l - 1 : x = freeTrains'[i]
          BY <3>4 DEF ToSet
        <5>2. x = freeTrains[i + 1] /\ i + 1 \in DOMAIN freeTrains /\ i + 1 # 1 /\ 1 \in DOMAIN freeTrains
          BY <1>2, <3>1, <3>3, <5>1
        <5> QED
          BY <3>1, <5>2 DEF TrainsOK, IsInjective, ToSet
      <4>2. ASSUME NEW x \in free, x # n PROVE x \in ToSet(freeTrains')
        <5>1. PICK i \in 1 .. l : x = freeTrains[i]
          BY <1>2 DEF ToSet
        <5>2. i # 1
          BY <3>1, <4>2, <5>1
        <5>3. i - 1 \in 1 .. l - 1 /\ freeTrains'[i - 1] = freeTrains[(i - 1) + 1] /\ (i - 1) + 1 = i
          BY <1>2, <3>3, <5>1, <5>2
        <5> QED
          BY <3>4, <5>1, <5>3 DEF ToSet
      <4> QED
        BY <4>1, <4>2
    <3>7. (free \ {n}) \cup (used \cup {n}) = 1 .. (Len(freeTrains') + c + 1)
      <4>1. Len(freeTrains') + c + 1 = l + c
        BY <1>1, <1>2, <3>3
      <4> QED
        BY <1>3, <3>2, <4>1
    <3> QED
      BY <1>3, <3>2, <3>3, <3>5, <3>6, <3>7
  <2>2. CASE freeTrains = <<>>
    <3>1. n = c + 1 /\ freeTrains' = freeTrains /\ l = 0
      BY <1>1, <1>2, <2>2 DEF NewId, Save
    <3>2. free = {}
      BY <1>2, <3>1 DEF ToSet
    <3>3. used = 1 .. c /\ n \notin used
      BY <1>1, <1>3, <3>1, <3>2
    <3>4. used \cup {n} = 1 .. (c + 1)
      <4>1. (1 .. c) \cup {c + 1} = 1 .. (c + 1)
        BY <1>1
      <4> QED
        BY <3>1, <3>3, <4>1
    <3>5. ToSet(freeTrains') = {} /\ Len(freeTrains') = 0 /\ Len(freeTrains') + c + 1 = c + 1
      BY <1>1, <1>2, <3>1, <3>2 DEF ToSet
    <3> QED
      BY <1>1, <3>1, <3>2, <3>3, <3>4, <3>5 DEF TrainsOK
  <2> QED
    BY <2>1, <2>2
<1>7. IsFiniteSet(DOMAIN trains') /\ Cardinality(DOMAIN trains') = c + 1
  <2>1. IsFiniteSet(used)
    BY DEF TrainsOK
  <2>2. IsFiniteSet(used \cup {n}) /\ Cardinality(used \cup {n}) = Cardinality(used) + 1
    BY <1>6, <2>1, FS_AddElement
  <2> QED
    BY <1>1, <1>5, <2>2
<1>8. \A id \in used : trains'[id] = trains[id]
  BY <1>4, <1>6
<1>9. TrainsOK'
  <2>1. \A id \in DOMAIN trains' : trains'[id] \in Train
    BY <1>5, <1>8 DEF TrainsOK
  <2>2. ToSet(freeTrains') \cap DOMAIN trains' = {}
    BY <1>3, <1>5, <1>6
  <2>3. PICK k \in Nat : k = Len(freeTrains')
    BY <1>6
  <2>4. ToSet(freeTrains') \cup DOMAIN trains' = 1 .. (Len(freeTrains') + Cardinality(DOMAIN trains'))
    <3>1. Len(freeTrains') + Cardinality(DOMAIN trains') = Len(freeTrains') + c + 1
      BY <1>1, <1>7, <2>3
    <3> QED
      BY <1>5, <1>6, <3>1
  <2> QED
    BY <1>6, <1>7, <2>1, <2>2, <2>4 DEF TrainsOK
<1> QED
  BY <1>5, <1>6, <1>8, <1>9

(* destroy() takes one record out, and its id is the next one to be given. *)
LEMMA DestroyFrees ==
  ASSUME TrainsOK, NEW n \in DOMAIN trains, Destroy(n)
  PROVE  /\ TrainsOK'
         /\ DOMAIN trains' = DOMAIN trains \ {n}
         /\ \A id \in DOMAIN trains' : trains'[id] = trains[id]
<1> DEFINE used == DOMAIN trains
           free == ToSet(freeTrains)
<1>1. PICK c \in Nat : c = Cardinality(used)
  BY FS_CardinalityType DEF TrainsOK
<1>2. PICK l \in Nat : l = Len(freeTrains) /\ DOMAIN freeTrains = 1 .. l
  BY DEF TrainsOK
<1>3. free \cap used = {} /\ free \cup used = 1 .. (l + c)
  BY <1>1, <1>2 DEF TrainsOK
<1>4. trains' = [id \in used \ {n} |-> trains[id]] /\ freeTrains' = <<n>> \o freeTrains
  BY DEF Destroy, Restrict
<1>5. DOMAIN trains' = used \ {n} /\ \A id \in DOMAIN trains' : trains'[id] = trains[id]
  BY <1>4
<1>6. n \in Nat
  BY <1>1, <1>2, <1>3
<1>7. /\ freeTrains' \in Seq(Nat)
      /\ Len(freeTrains') = l + 1
      /\ freeTrains'[1] = n
      /\ \A i \in 1 .. l : freeTrains'[i + 1] = freeTrains[i]
  BY <1>2, <1>4, <1>6 DEF TrainsOK
<1>8. DOMAIN freeTrains' = 1 .. l + 1
  BY <1>2, <1>7
<1>9. \A i \in 2 .. l + 1 : freeTrains'[i] = freeTrains[i - 1] /\ i - 1 \in DOMAIN freeTrains
  <2>1. ASSUME NEW i \in 2 .. l + 1 PROVE freeTrains'[i] = freeTrains[i - 1] /\ i - 1 \in DOMAIN freeTrains
    <3>1. i - 1 \in 1 .. l /\ (i - 1) + 1 = i
      BY <1>2
    <3> QED
      BY <1>2, <1>7, <3>1
  <2> QED
    BY <2>1
<1>10. \A i \in DOMAIN freeTrains : freeTrains[i] # n
  BY <1>3 DEF ToSet
<1>11. IsInjective(freeTrains')
  <2>1. ASSUME NEW i \in 1 .. l + 1, NEW j \in 1 .. l + 1, freeTrains'[i] = freeTrains'[j] PROVE i = j
    <3>1. ASSUME NEW a \in 2 .. l + 1 PROVE freeTrains'[a] # freeTrains'[1]
      BY <1>7, <1>9, <1>10
    <3>2. CASE i = 1 \/ j = 1
      <4>1. i = 1 \/ i \in 2 .. l + 1
        BY <1>2
      <4>2. j = 1 \/ j \in 2 .. l + 1
        BY <1>2
      <4> QED
        BY <2>1, <3>1, <3>2, <4>1, <4>2
    <3>3. CASE i # 1 /\ j # 1
      <4>1. i \in 2 .. l + 1 /\ j \in 2 .. l + 1
        BY <1>2, <3>3
      <4>2. freeTrains[i - 1] = freeTrains[j - 1] /\ i - 1 \in DOMAIN freeTrains /\ j - 1 \in DOMAIN freeTrains
        BY <1>9, <2>1, <4>1
      <4>3. i - 1 = j - 1
        BY <4>2 DEF TrainsOK, IsInjective
      <4> QED
        BY <4>1, <4>3
    <3> QED
      BY <3>2, <3>3
  <2> QED
    BY <1>8, <2>1 DEF IsInjective
<1>12. ToSet(freeTrains') = free \cup {n}
  <2>1. ASSUME NEW i \in 1 .. l + 1 PROVE freeTrains'[i] \in free \cup {n}
    <3>1. CASE i = 1
      BY <1>7, <3>1
    <3>2. CASE i # 1
      <4>1. i \in 2 .. l + 1
        BY <1>2, <3>2
      <4> QED
        BY <1>9, <4>1 DEF ToSet
    <3> QED
      BY <3>1, <3>2
  <2>2. ASSUME NEW i \in 1 .. l PROVE freeTrains[i] \in ToSet(freeTrains')
    <3>1. i + 1 \in DOMAIN freeTrains' /\ freeTrains'[i + 1] = freeTrains[i]
      BY <1>2, <1>7, <1>8
    <3> QED
      BY <3>1 DEF ToSet
  <2>3. n \in ToSet(freeTrains')
    <3>1. 1 \in DOMAIN freeTrains'
      BY <1>2, <1>8
    <3> QED
      BY <1>7, <3>1 DEF ToSet
  <2>4. ToSet(freeTrains') \subseteq free \cup {n}
    BY <1>8, <2>1 DEF ToSet
  <2>5. free \subseteq ToSet(freeTrains')
    BY <1>2, <2>2 DEF ToSet
  <2> QED
    BY <2>3, <2>4, <2>5
<1>13. IsFiniteSet(DOMAIN trains') /\ Cardinality(DOMAIN trains') = c - 1
  BY <1>1, <1>5, FS_RemoveElement DEF TrainsOK
<1>14. TrainsOK'
  <2>1. \A id \in DOMAIN trains' : trains'[id] \in Train
    BY <1>5 DEF TrainsOK
  <2>2. ToSet(freeTrains') \cap DOMAIN trains' = {}
    BY <1>3, <1>5, <1>12
  <2>3. ToSet(freeTrains') \cup DOMAIN trains' = 1 .. (Len(freeTrains') + Cardinality(DOMAIN trains'))
    <3>1. Len(freeTrains') + Cardinality(DOMAIN trains') = l + c
      BY <1>1, <1>2, <1>7, <1>13
    <3> QED
      BY <1>3, <1>5, <1>12, <3>1
  <2> QED
    BY <1>7, <1>11, <1>13, <2>1, <2>2, <2>3 DEF TrainsOK
<1> QED
  BY <1>5, <1>14

(* update() of a record that keeps its name and its line.                  *)
LEMMA RecordUpdated ==
  ASSUME TrainsOK, NEW n \in DOMAIN trains, NEW train \in Train, Update(n, train), freeTrains' = freeTrains
  PROVE  /\ TrainsOK'
         /\ DOMAIN trains' = DOMAIN trains
         /\ trains'[n] = train
         /\ \A id \in DOMAIN trains : id # n => trains'[id] = trains[id]
<1>1. trains' = [id \in DOMAIN trains \cup {n} |-> IF id = n THEN train ELSE trains[id]]
  BY DEF Update
<1>2. DOMAIN trains' = DOMAIN trains /\ trains'[n] = train
      /\ \A id \in DOMAIN trains : id # n => trains'[id] = trains[id]
  BY <1>1
<1>3. \A id \in DOMAIN trains' : trains'[id] \in Train
  BY <1>2 DEF TrainsOK
<1>4. TrainsOK'
  BY <1>2, <1>3 DEF TrainsOK
<1> QED
  BY <1>2, <1>4

LEMMA DeletedSet ==
  ASSUME TrainsOK, NEW n \in DOMAIN trains, NEW b \in BOOLEAN,
         Update(n, [trains[n] EXCEPT !.deleted = b]), freeTrains' = freeTrains
  PROVE  /\ TrainsOK'
         /\ DOMAIN trains' = DOMAIN trains
         /\ trains'[n].deleted = b
         /\ \A id \in DOMAIN trains : id # n => trains'[id] = trains[id]
         /\ \A id \in DOMAIN trains : /\ trains'[id].name = trains[id].name
                                      /\ trains'[id].line = trains[id].line
                                      /\ trains'[id].released = trains[id].released
<1>1. trains[n] \in Train
  BY DEF TrainsOK
<1> DEFINE train == [trains[n] EXCEPT !.deleted = b]
<1>2. /\ train \in Train /\ train.deleted = b /\ train.name = trains[n].name
      /\ train.line = trains[n].line /\ train.released = trains[n].released
  BY <1>1 DEF Train
<1>3. Update(n, train)
  OBVIOUS
<1> HIDE DEF train
<1> QED
  BY <1>2, <1>3, RecordUpdated

LEMMA ReleasedSet ==
  ASSUME TrainsOK, NEW n \in DOMAIN trains, NEW b \in BOOLEAN,
         Update(n, [trains[n] EXCEPT !.released = b]), freeTrains' = freeTrains
  PROVE  /\ TrainsOK'
         /\ DOMAIN trains' = DOMAIN trains
         /\ trains'[n].released = b
         /\ \A id \in DOMAIN trains : id # n => trains'[id] = trains[id]
         /\ \A id \in DOMAIN trains : /\ trains'[id].name = trains[id].name
                                      /\ trains'[id].line = trains[id].line
                                      /\ trains'[id].deleted = trains[id].deleted
<1>1. trains[n] \in Train
  BY DEF TrainsOK
<1> DEFINE train == [trains[n] EXCEPT !.released = b]
<1>2. /\ train \in Train /\ train.released = b /\ train.name = trains[n].name
      /\ train.line = trains[n].line /\ train.deleted = trains[n].deleted
  BY <1>1 DEF Train
<1>3. Update(n, train)
  OBVIOUS
<1> HIDE DEF train
<1> QED
  BY <1>2, <1>3, RecordUpdated

-----------------------------------------------------------------------------
(* The invariant is inductive.                                             *)

LEMMA EmptyCatalog ==
  ASSUME trains' = <<>>, freeTrains' = <<>>, ixId' = {}, ixStop' = {}, rideSeats' = <<>>,
         log' = <<>>, now' \in Int
  PROVE  CatalogInv'
<1>1. DOMAIN trains' = {} /\ DOMAIN freeTrains' = {} /\ DOMAIN log' = {} /\ DOMAIN rideSeats' = {}
  OBVIOUS
<1>2. TrainsOK'
  <2>1. IsFiniteSet(DOMAIN trains') /\ Cardinality(DOMAIN trains') = 0
    BY <1>1, FS_EmptySet
  <2>2. Len(freeTrains') = 0 /\ freeTrains' \in Seq(Nat) /\ ToSet(freeTrains') = {}
    BY <1>1 DEF ToSet
  <2>3. 1 .. (Len(freeTrains') + Cardinality(DOMAIN trains')) = {}
    BY <2>1, <2>2
  <2> QED
    BY <1>1, <2>1, <2>2, <2>3 DEF TrainsOK, IsInjective
<1>3. NamesOK' /\ RidesOK'
  BY <1>1 DEF NamesOK, RidesOK, Released
<1>4. LogOK' /\ FlagsOK' /\ NoEntryTwice' /\ OneAfterTheOther'
  BY <1>1 DEF LogOK, FlagsOK, NoEntryTwice, OneAfterTheOther
<1> QED
  BY <1>2, <1>3, <1>4 DEF CatalogInv

LEMMA CatalogStart == Init => CatalogInv
<1> SUFFICES ASSUME Init PROVE CatalogInv
  OBVIOUS
<1>1. /\ trains = <<>> /\ freeTrains = <<>> /\ ixId = {} /\ ixStop = {} /\ rideSeats = <<>>
      /\ log = <<>> /\ now \in Int
  BY DEF Init
<1>2. DOMAIN trains = {} /\ DOMAIN freeTrains = {} /\ DOMAIN log = {} /\ DOMAIN rideSeats = {}
  BY <1>1
<1>3. TrainsOK
  <2>1. IsFiniteSet(DOMAIN trains) /\ Cardinality(DOMAIN trains) = 0
    BY <1>2, FS_EmptySet
  <2>2. Len(freeTrains) = 0 /\ freeTrains \in Seq(Nat) /\ ToSet(freeTrains) = {}
    BY <1>1, <1>2 DEF ToSet
  <2>3. 1 .. (Len(freeTrains) + Cardinality(DOMAIN trains)) = {}
    BY <2>1, <2>2
  <2> QED
    BY <1>2, <2>1, <2>2, <2>3 DEF TrainsOK, IsInjective
<1>4. NamesOK /\ RidesOK
  BY <1>1, <1>2 DEF NamesOK, RidesOK, Released
<1>5. LogOK /\ FlagsOK /\ NoEntryTwice /\ OneAfterTheOther
  BY <1>1, <1>2 DEF LogOK, FlagsOK, NoEntryTwice, OneAfterTheOther
<1> QED
  BY <1>3, <1>4, <1>5 DEF CatalogInv

LEMMA CatalogStays ==
  ASSUME CatalogInv, UNCHANGED <<catalogVars, log>>, now' \in Int
  PROVE  CatalogInv'
<1>1. TrainsOK' /\ NamesOK'
  BY DEF CatalogInv, catalogVars, TrainsOK, NamesOK
<1>2. RidesOK'
  BY DEF CatalogInv, catalogVars, RidesOK, Released, StopsOf, RidesOf
<1>3. LogOK'
  BY DEF CatalogInv, catalogVars, LogOK
<1>4. FlagsOK' /\ NoEntryTwice' /\ OneAfterTheOther'
  BY DEF CatalogInv, catalogVars, FlagsOK, NoEntryTwice, Mentioned, Logged, OneAfterTheOther, GoneBefore
<1> QED
  BY <1>1, <1>2, <1>3, <1>4 DEF CatalogInv

LEMMA LogOKAppended ==
  ASSUME LogOK, NEW c \in [op : Operations, id : Nat], Log(c), now' = now,
         DOMAIN trains \subseteq DOMAIN trains', c.id \in DOMAIN trains',
         c.op = "AddTrain" => c.id \notin DOMAIN trains
  PROVE  LogOK'
<1>1. PICK m : m = Len(log) + 1
  OBVIOUS
<1>2. /\ log' \in Seq(Entry)
      /\ m \notin DOMAIN log
      /\ DOMAIN log' = DOMAIN log \cup {m}
      /\ \A k \in DOMAIN log : log'[k] = log[k] /\ k < m /\ k \in Nat
      /\ log'[m].content = c
      /\ m \in Nat
  BY <1>1, LogAppended
<1>3. \A k \in DOMAIN log' : log'[k].content.id \in DOMAIN trains'
  BY <1>2 DEF LogOK
<1>4. ASSUME NEW j \in DOMAIN log', NEW k \in DOMAIN log', j < k, log'[k].content.op = "AddTrain"
      PROVE  log'[j].content.id # log'[k].content.id
  <2>1. j \in DOMAIN log
    BY <1>2, <1>4
  <2>2. CASE k = m
    BY <1>2, <1>4, <2>1, <2>2 DEF LogOK
  <2>3. CASE k # m
    BY <1>2, <1>4, <2>1, <2>3 DEF LogOK
  <2> QED
    BY <2>2, <2>3
<1> QED
  BY <1>2, <1>3, <1>4 DEF LogOK

LEMMA LogOKShortened ==
  ASSUME LogOK, log # <<>>, DestroyEntry, now' = now,
         \/ DOMAIN trains' = DOMAIN trains
         \/ Newest.content.op = "AddTrain" /\ DOMAIN trains' = DOMAIN trains \ {Newest.content.id}
  PROVE  LogOK'
<1>1. PICK m : m = Len(log)
  OBVIOUS
<1>2. /\ log' \in Seq(Entry)
      /\ m \in DOMAIN log
      /\ DOMAIN log' = DOMAIN log \ {m}
      /\ \A k \in DOMAIN log' : log'[k] = log[k] /\ k < m /\ k \in Nat
      /\ Newest = log[m]
  BY <1>1, LogShortened
<1>3. ASSUME NEW k \in DOMAIN log' PROVE log'[k].content.id \in DOMAIN trains'
  <2>1. k \in DOMAIN log /\ log'[k] = log[k] /\ k < m
    BY <1>2
  <2>2. log[k].content.id \in DOMAIN trains
        /\ (Newest.content.op = "AddTrain" => log[k].content.id # Newest.content.id)
    BY <1>2, <2>1 DEF LogOK
  <2> QED
    BY <2>1, <2>2
<1>4. \A j, k \in DOMAIN log' :
        j < k /\ log'[k].content.op = "AddTrain" => log'[j].content.id # log'[k].content.id
  BY <1>2 DEF LogOK
<1> QED
  BY <1>2, <1>3, <1>4 DEF LogOK

(* A train with the name was deleted before: it is not in ixId.            *)
LEMMA AddTrainStep ==
  ASSUME CatalogInv, NEW name \in TrainNames, NEW line \in Lines, AddTrain(name, line)
  PROVE  CatalogInv'
<1> DEFINE train == [name |-> name, line |-> line, released |-> FALSE, deleted |-> FALSE]
<1>1. TrainsOK /\ NamesOK /\ RidesOK /\ LogOK /\ FlagsOK /\ NoEntryTwice /\ OneAfterTheOther
  BY DEF CatalogInv
<1>2. PICK n : n = NewId
  OBVIOUS
<1> DEFINE c == [op |-> "AddTrain", id |-> n]
<1>3. /\ Save(train)
      /\ ixId' = ixId \cup {<<name, n>>}
      /\ Log(c)
      /\ \A id \in DOMAIN trains : <<name, id>> \notin ixId
      /\ UNCHANGED <<now, call, ixStop, rideSeats>>
  BY <1>2 DEF AddTrain
<1>4. train \in Train /\ train.name = name /\ ~ train.released /\ ~ train.deleted
  BY DEF Train
<1> HIDE DEF train
<1>5. /\ TrainsOK'
      /\ n \in Nat
      /\ n \notin DOMAIN trains
      /\ DOMAIN trains' = DOMAIN trains \cup {n}
      /\ trains'[n] = train
      /\ \A id \in DOMAIN trains : trains'[id] = trains[id]
  BY <1>1, <1>2, <1>3, <1>4, SaveIsNew
<1>6. c \in [op : Operations, id : Nat] /\ c.op = "AddTrain" /\ c.id = n /\ Log(c)
  BY <1>3, <1>5 DEF Operations
<1> HIDE DEF c
<1>7. NamesOK'
  <2>1. {i \in DOMAIN trains' : ~ trains'[i].deleted} = {i \in DOMAIN trains : ~ trains[i].deleted} \cup {n}
    BY <1>4, <1>5
  <2>2. \A i \in DOMAIN trains : trains'[i].name = trains[i].name
    BY <1>5
  <2> QED
    BY <1>1, <1>3, <1>4, <1>5, <2>1, <2>2 DEF NamesOK
<1>8. RidesOK'
  <2>1. Released' = Released
    BY <1>4, <1>5 DEF Released
  <2>2. \A id \in Released : trains'[id] = trains[id]
    BY <1>5 DEF Released
  <2>3. \A id \in Released : StopsOf(id)' = StopsOf(id) /\ RidesOf(id)' = RidesOf(id)
    BY <2>2 DEF StopsOf, RidesOf
  <2> QED
    BY <1>1, <1>3, <2>1, <2>3 DEF RidesOK
<1>9. LogOK'
  BY <1>1, <1>3, <1>5, <1>6, LogOKAppended
<1>10. /\ \A op, id : Mentioned(op, id)' <=> Mentioned(op, id) \/ (op = "AddTrain" /\ id = n)
       /\ \A p, q : GoneBefore(p, q) => GoneBefore(p, q)'
       /\ \A p : Mentioned("DeleteTrain", p) => GoneBefore(p, n)'
  BY <1>1, <1>6, MentionedAfterLog
<1>11. \A op : ~ Mentioned(op, n)
  BY <1>1, <1>5 DEF LogOK, Mentioned, Logged
<1>12. FlagsOK'
  <2>1. \A id \in DOMAIN trains' : Mentioned("AddTrain", id)'
    BY <1>1, <1>5, <1>10 DEF FlagsOK
  <2>2. \A id \in DOMAIN trains' : trains'[id].deleted <=> Mentioned("DeleteTrain", id)'
    BY <1>1, <1>4, <1>5, <1>10, <1>11 DEF FlagsOK
  <2>3. \A id \in DOMAIN trains' : trains'[id].released <=> Mentioned("ReleaseTrain", id)'
    BY <1>1, <1>4, <1>5, <1>10, <1>11 DEF FlagsOK
  <2> QED
    BY <1>1, <1>4, <1>5, <2>1, <2>2, <2>3 DEF FlagsOK
<1>14. NoEntryTwice'
  BY <1>1, <1>6, <1>11, NewEntryIsNotThere
<1>13. OneAfterTheOther'
  <2>1. ASSUME NEW p \in DOMAIN trains, trains[p].name = name PROVE GoneBefore(p, n)'
    <3>1. trains[p].deleted
      BY <1>1, <1>3, <2>1 DEF NamesOK
    <3> QED
      BY <1>1, <1>10, <3>1 DEF FlagsOK
  <2>2. ASSUME NEW p \in DOMAIN trains', NEW q \in DOMAIN trains', p # q, trains'[p].name = trains'[q].name
        PROVE  GoneBefore(p, q)' \/ GoneBefore(q, p)'
    <3>1. CASE p = n
      BY <1>4, <1>5, <2>1, <2>2, <3>1
    <3>2. CASE q = n
      BY <1>4, <1>5, <2>1, <2>2, <3>2
    <3>3. CASE p # n /\ q # n
      BY <1>1, <1>5, <1>10, <2>2, <3>3 DEF OneAfterTheOther
    <3> QED
      BY <3>1, <3>2, <3>3
  <2> QED
    BY <2>2 DEF OneAfterTheOther
<1> QED
  BY <1>5, <1>7, <1>8, <1>9, <1>12, <1>13, <1>14 DEF CatalogInv

LEMMA DeleteTrainStep ==
  ASSUME CatalogInv, NEW name \in TrainNames, NEW n \in DOMAIN trains, DeleteTrain(name, n)
  PROVE  CatalogInv'
<1>1. TrainsOK /\ NamesOK /\ RidesOK /\ LogOK /\ FlagsOK /\ NoEntryTwice /\ OneAfterTheOther
  BY DEF CatalogInv
<1> DEFINE c == [op |-> "DeleteTrain", id |-> n]
<1>2. /\ <<name, n>> \in ixId
      /\ ~ trains[n].released
      /\ Update(n, [trains[n] EXCEPT !.deleted = TRUE])
      /\ ixId' = ixId \ {<<name, n>>}
      /\ Log(c)
      /\ UNCHANGED <<now, call, freeTrains, ixStop, rideSeats>>
  BY DEF DeleteTrain
<1>3. /\ TrainsOK'
      /\ DOMAIN trains' = DOMAIN trains
      /\ trains'[n].deleted
      /\ \A id \in DOMAIN trains : id # n => trains'[id] = trains[id]
      /\ \A id \in DOMAIN trains : /\ trains'[id].name = trains[id].name
                                   /\ trains'[id].line = trains[id].line
                                   /\ trains'[id].released = trains[id].released
  BY <1>1, <1>2, DeletedSet
<1>4. trains[n].name = name /\ ~ trains[n].deleted
  BY <1>1, <1>2 DEF NamesOK
<1>5. n \in Nat
  <2>1. Len(freeTrains) \in Nat /\ Cardinality(DOMAIN trains) \in Nat
    BY <1>1, FS_CardinalityType DEF TrainsOK
  <2> QED
    BY <1>1, <2>1 DEF TrainsOK
<1>6. c \in [op : Operations, id : Nat] /\ c.op = "DeleteTrain" /\ c.id = n /\ Log(c)
  BY <1>2, <1>5 DEF Operations
<1> HIDE DEF c
<1>7. NamesOK'
  <2>1. {i \in DOMAIN trains' : ~ trains'[i].deleted} = {i \in DOMAIN trains : ~ trains[i].deleted} \ {n}
    BY <1>3
  <2>2. ixId' = {<<trains[id].name, id>> : id \in {i \in DOMAIN trains : ~ trains[i].deleted} \ {n}}
    BY <1>1, <1>2, <1>4 DEF NamesOK
  <2> QED
    BY <1>3, <2>1, <2>2 DEF NamesOK
<1>8. RidesOK'
  <2>1. Released' = Released
    BY <1>3 DEF Released
  <2>2. \A id \in Released : StopsOf(id)' = StopsOf(id) /\ RidesOf(id)' = RidesOf(id)
    BY <1>3 DEF StopsOf, RidesOf, Released
  <2> QED
    BY <1>1, <1>2, <2>1, <2>2 DEF RidesOK
<1>9. LogOK'
  BY <1>1, <1>2, <1>3, <1>6, LogOKAppended
<1>10. /\ \A op, id : Mentioned(op, id)' <=> Mentioned(op, id) \/ (op = "DeleteTrain" /\ id = n)
       /\ \A p, q : GoneBefore(p, q) => GoneBefore(p, q)'
  BY <1>1, <1>6, MentionedAfterLog
<1>11. ~ Mentioned("DeleteTrain", n)
  BY <1>1, <1>4 DEF FlagsOK
<1>12. FlagsOK'
  <2>1. \A id \in DOMAIN trains' : Mentioned("AddTrain", id)'
    BY <1>1, <1>3, <1>10 DEF FlagsOK
  <2>2. \A id \in DOMAIN trains' : trains'[id].deleted <=> Mentioned("DeleteTrain", id)'
    BY <1>1, <1>3, <1>10 DEF FlagsOK
  <2>3. \A id \in DOMAIN trains' : trains'[id].released <=> Mentioned("ReleaseTrain", id)'
    BY <1>1, <1>3, <1>10 DEF FlagsOK
  <2>4. \A id \in DOMAIN trains' : ~ (trains'[id].deleted /\ trains'[id].released)
    BY <1>1, <1>2, <1>3 DEF FlagsOK
  <2> QED
    BY <2>1, <2>2, <2>3, <2>4 DEF FlagsOK
<1>14. NoEntryTwice'
  BY <1>1, <1>6, <1>11, NewEntryIsNotThere
<1>13. OneAfterTheOther'
  BY <1>1, <1>3, <1>10 DEF OneAfterTheOther
<1> QED
  BY <1>3, <1>7, <1>8, <1>9, <1>12, <1>13, <1>14 DEF CatalogInv

LEMMA ReleaseTrainStep ==
  ASSUME CatalogInv, NEW name \in TrainNames, NEW n \in DOMAIN trains, ReleaseTrain(name, n)
  PROVE  CatalogInv'
<1>1. TrainsOK /\ NamesOK /\ RidesOK /\ LogOK /\ FlagsOK /\ NoEntryTwice /\ OneAfterTheOther
  BY DEF CatalogInv
<1> DEFINE c == [op |-> "ReleaseTrain", id |-> n]
<1>2. /\ Update(n, [trains[n] EXCEPT !.released = TRUE])
      /\ ixStop' = ixStop \cup StopsOf(n)
      /\ rideSeats' = [r \in DOMAIN rideSeats \cup RidesOf(n) |->
                         IF r \in RidesOf(n) THEN AllFree(trains[n].line) ELSE rideSeats[r]]
      /\ Log(c)
      /\ UNCHANGED <<now, call, freeTrains, ixId>>
  BY DEF ReleaseTrain
<1>3. /\ TrainsOK'
      /\ DOMAIN trains' = DOMAIN trains
      /\ trains'[n].released
      /\ \A id \in DOMAIN trains : id # n => trains'[id] = trains[id]
      /\ \A id \in DOMAIN trains : /\ trains'[id].name = trains[id].name
                                   /\ trains'[id].line = trains[id].line
                                   /\ trains'[id].deleted = trains[id].deleted
  BY <1>1, <1>2, ReleasedSet
<1>4. ~ trains[n].deleted /\ ~ trains[n].released
  BY <1>1 DEF NamesOK, ReleaseTrain
<1>5. n \in Nat
  <2>1. Len(freeTrains) \in Nat /\ Cardinality(DOMAIN trains) \in Nat
    BY <1>1, FS_CardinalityType DEF TrainsOK
  <2> QED
    BY <1>1, <2>1 DEF TrainsOK
<1>6. c \in [op : Operations, id : Nat] /\ c.op = "ReleaseTrain" /\ c.id = n /\ Log(c)
  BY <1>2, <1>5 DEF Operations
<1> HIDE DEF c
<1>7. NamesOK'
  <2>1. {i \in DOMAIN trains' : ~ trains'[i].deleted} = {i \in DOMAIN trains : ~ trains[i].deleted}
    BY <1>3
  <2> QED
    BY <1>1, <1>2, <1>3, <2>1 DEF NamesOK
<1>8. RidesOK'
  <2>1. Released' = Released \cup {n}
    BY <1>3 DEF Released
  <2>2. \A id \in Released \cup {n} : StopsOf(id)' = StopsOf(id) /\ RidesOf(id)' = RidesOf(id)
    BY <1>3 DEF StopsOf, RidesOf, Released
  <2>3. ixStop' = UNION {StopsOf(id)' : id \in Released'}
    BY <1>1, <1>2, <2>1, <2>2 DEF RidesOK
  <2>4. DOMAIN rideSeats' = DOMAIN rideSeats \cup RidesOf(n)
    BY <1>2
  <2>5. DOMAIN rideSeats' = UNION {RidesOf(id)' : id \in Released'}
    BY <1>1, <2>1, <2>2, <2>4 DEF RidesOK
  <2>6. ASSUME NEW r \in DOMAIN rideSeats' PROVE rideSeats'[r] \in [DOMAIN rideSeats'[r] -> Int]
    <3>1. CASE r \in RidesOf(n)
      <4>1. trains[n].line \in Lines
        BY <1>1 DEF TrainsOK, Train
      <4>2. trains[n].line.seats \in Int
        BY <4>1, LinesAssumption
      <4>3. AllFree(trains[n].line) \in [DOMAIN AllFree(trains[n].line) -> Int]
        BY <4>2 DEF AllFree
      <4> QED
        BY <1>2, <2>4, <3>1, <4>3
    <3>2. CASE r \notin RidesOf(n)
      BY <1>1, <1>2, <2>4, <3>2 DEF RidesOK
    <3> QED
      BY <3>1, <3>2
  <2> QED
    BY <2>3, <2>5, <2>6 DEF RidesOK
<1>9. LogOK'
  BY <1>1, <1>2, <1>3, <1>6, LogOKAppended
<1>10. /\ \A op, id : Mentioned(op, id)' <=> Mentioned(op, id) \/ (op = "ReleaseTrain" /\ id = n)
       /\ \A p, q : GoneBefore(p, q) => GoneBefore(p, q)'
  BY <1>1, <1>6, MentionedAfterLog
<1>11. ~ Mentioned("ReleaseTrain", n)
  BY <1>1, <1>4 DEF FlagsOK
<1>12. FlagsOK'
  <2>1. \A id \in DOMAIN trains' : Mentioned("AddTrain", id)'
    BY <1>1, <1>3, <1>10 DEF FlagsOK
  <2>2. \A id \in DOMAIN trains' : trains'[id].deleted <=> Mentioned("DeleteTrain", id)'
    BY <1>1, <1>3, <1>10 DEF FlagsOK
  <2>3. \A id \in DOMAIN trains' : trains'[id].released <=> Mentioned("ReleaseTrain", id)'
    BY <1>1, <1>3, <1>10 DEF FlagsOK
  <2>4. \A id \in DOMAIN trains' : ~ (trains'[id].deleted /\ trains'[id].released)
    BY <1>1, <1>3, <1>4 DEF FlagsOK
  <2> QED
    BY <2>1, <2>2, <2>3, <2>4 DEF FlagsOK
<1>14. NoEntryTwice'
  BY <1>1, <1>6, <1>11, NewEntryIsNotThere
<1>13. OneAfterTheOther'
  BY <1>1, <1>3, <1>10 DEF OneAfterTheOther
<1> QED
  BY <1>3, <1>7, <1>8, <1>9, <1>12, <1>13, <1>14 DEF CatalogInv

(* Undoing the first entry about a train, no other is left: the train was  *)
(* neither deleted nor released.                                           *)
LEMMA UndoAddTrainStep ==
  ASSUME CatalogInv, UndoAddTrain
  PROVE  CatalogInv'
<1>1. TrainsOK /\ NamesOK /\ RidesOK /\ LogOK /\ FlagsOK /\ NoEntryTwice /\ OneAfterTheOther
  BY DEF CatalogInv
<1>2. PICK n : n = Newest.content.id
  OBVIOUS
<1>3. /\ log # <<>> /\ DestroyEntry /\ Newest.content.op = "AddTrain"
      /\ ixId' = ixId \ {<<trains[n].name, n>>}
      /\ Destroy(n)
      /\ UNCHANGED <<now, call, ixStop, rideSeats>>
  BY <1>2 DEF UndoAddTrain, Undoes, HasEntryToUndo
<1>4. n \in DOMAIN trains
  BY <1>1, <1>2, <1>3, MentionedAfterUndo
<1>5. TrainsOK' /\ DOMAIN trains' = DOMAIN trains \ {n} /\ \A id \in DOMAIN trains' : trains'[id] = trains[id]
  BY <1>1, <1>3, <1>4, DestroyFrees
<1>6. /\ \A op, id : Mentioned(op, id)' => Mentioned(op, id) /\ id # n
      /\ \A op, id : Mentioned(op, id) /\ ~ (op = "AddTrain" /\ id = n) => Mentioned(op, id)'
      /\ \A p, q : GoneBefore(p, q) /\ q # n => GoneBefore(p, q)'
  BY <1>1, <1>2, <1>3, MentionedAfterUndo
<1>7. ~ trains[n].deleted /\ ~ trains[n].released
  <2>1. ~ Mentioned("DeleteTrain", n) /\ ~ Mentioned("ReleaseTrain", n)
    BY <1>6
  <2> QED
    BY <1>1, <1>4, <2>1 DEF FlagsOK
<1>8. NamesOK'
  <2>1. {i \in DOMAIN trains' : ~ trains'[i].deleted} = {i \in DOMAIN trains : ~ trains[i].deleted} \ {n}
    BY <1>5
  <2>2. ixId' = {<<trains[id].name, id>> : id \in {i \in DOMAIN trains : ~ trains[i].deleted} \ {n}}
    BY <1>1, <1>3 DEF NamesOK
  <2>3. \A id \in {i \in DOMAIN trains : ~ trains[i].deleted} \ {n} : trains'[id].name = trains[id].name
    BY <1>5
  <2> QED
    BY <2>1, <2>2, <2>3 DEF NamesOK
<1>9. RidesOK'
  <2>1. Released' = Released /\ \A id \in Released : trains'[id] = trains[id]
    BY <1>5, <1>7 DEF Released
  <2>2. \A id \in Released : StopsOf(id)' = StopsOf(id) /\ RidesOf(id)' = RidesOf(id)
    BY <2>1 DEF StopsOf, RidesOf
  <2> QED
    BY <1>1, <1>3, <2>1, <2>2 DEF RidesOK
<1>10. LogOK'
  BY <1>1, <1>2, <1>3, <1>5, LogOKShortened
<1>11. FlagsOK'
  <2>1. \A id \in DOMAIN trains' : Mentioned("AddTrain", id)'
    BY <1>1, <1>5, <1>6 DEF FlagsOK
  <2>2. \A id \in DOMAIN trains' : trains'[id].deleted <=> Mentioned("DeleteTrain", id)'
    BY <1>1, <1>5, <1>6 DEF FlagsOK
  <2>3. \A id \in DOMAIN trains' : trains'[id].released <=> Mentioned("ReleaseTrain", id)'
    BY <1>1, <1>5, <1>6 DEF FlagsOK
  <2> QED
    BY <1>1, <1>5, <2>1, <2>2, <2>3 DEF FlagsOK
<1>14. NoEntryTwice'
  BY <1>1, <1>3, UndoneEntryIsGone
<1>12. OneAfterTheOther'
  BY <1>1, <1>5, <1>6 DEF OneAfterTheOther
<1> QED
  BY <1>5, <1>8, <1>9, <1>10, <1>11, <1>12, <1>14 DEF CatalogInv

LEMMA UndoDeleteTrainStep ==
  ASSUME CatalogInv, UndoDeleteTrain
  PROVE  CatalogInv'
<1>1. TrainsOK /\ NamesOK /\ RidesOK /\ LogOK /\ FlagsOK /\ NoEntryTwice /\ OneAfterTheOther
  BY DEF CatalogInv
<1>2. PICK n : n = Newest.content.id
  OBVIOUS
<1>3. /\ log # <<>> /\ DestroyEntry /\ Newest.content.op = "DeleteTrain"
      /\ Update(n, [trains[n] EXCEPT !.deleted = FALSE])
      /\ ixId' = ixId \cup {<<trains[n].name, n>>}
      /\ UNCHANGED <<now, call, freeTrains, ixStop, rideSeats>>
  BY <1>2 DEF UndoDeleteTrain, Undoes, HasEntryToUndo
<1>4. n \in DOMAIN trains
  BY <1>1, <1>2, <1>3, MentionedAfterUndo
<1>5. /\ TrainsOK'
      /\ DOMAIN trains' = DOMAIN trains
      /\ ~ trains'[n].deleted
      /\ \A id \in DOMAIN trains : id # n => trains'[id] = trains[id]
      /\ \A id \in DOMAIN trains : /\ trains'[id].name = trains[id].name
                                   /\ trains'[id].line = trains[id].line
                                   /\ trains'[id].released = trains[id].released
  BY <1>1, <1>3, <1>4, DeletedSet
<1>6. /\ \A op, id : Mentioned(op, id)' => Mentioned(op, id)
      /\ \A op, id : Mentioned(op, id) /\ ~ (op = "DeleteTrain" /\ id = n) => Mentioned(op, id)'
      /\ \A p, q : GoneBefore(p, q) => GoneBefore(p, q)'
  BY <1>1, <1>2, <1>3, MentionedAfterUndo
<1>7. ~ Mentioned("DeleteTrain", n)'
  BY <1>1, <1>2, <1>3, UndoneEntryIsGone
<1>8. NamesOK'
  <2>1. {i \in DOMAIN trains' : ~ trains'[i].deleted} = {i \in DOMAIN trains : ~ trains[i].deleted} \cup {n}
    BY <1>4, <1>5
  <2>2. ixId' = {<<trains[id].name, id>> : id \in {i \in DOMAIN trains : ~ trains[i].deleted} \cup {n}}
    BY <1>1, <1>3 DEF NamesOK
  <2>3. \A id \in {i \in DOMAIN trains : ~ trains[i].deleted} \cup {n} : trains'[id].name = trains[id].name
    BY <1>4, <1>5
  <2> QED
    BY <2>1, <2>2, <2>3 DEF NamesOK
<1>9. RidesOK'
  <2>1. Released' = Released
    BY <1>5 DEF Released
  <2>2. \A id \in Released : StopsOf(id)' = StopsOf(id) /\ RidesOf(id)' = RidesOf(id)
    BY <1>5 DEF StopsOf, RidesOf, Released
  <2> QED
    BY <1>1, <1>3, <2>1, <2>2 DEF RidesOK
<1>10. LogOK'
  BY <1>1, <1>3, <1>5, LogOKShortened
<1>11. FlagsOK'
  <2>1. \A id \in DOMAIN trains' : Mentioned("AddTrain", id)'
    BY <1>1, <1>5, <1>6 DEF FlagsOK
  <2>2. \A id \in DOMAIN trains' : trains'[id].deleted <=> Mentioned("DeleteTrain", id)'
    BY <1>1, <1>5, <1>6, <1>7 DEF FlagsOK
  <2>3. \A id \in DOMAIN trains' : trains'[id].released <=> Mentioned("ReleaseTrain", id)'
    BY <1>1, <1>5, <1>6, <1>7 DEF FlagsOK
  <2> QED
    BY <1>1, <1>5, <2>1, <2>2, <2>3 DEF FlagsOK
<1>14. NoEntryTwice'
  BY <1>1, <1>3, UndoneEntryIsGone
<1>12. OneAfterTheOther'
  BY <1>1, <1>5, <1>6 DEF OneAfterTheOther
<1> QED
  BY <1>5, <1>8, <1>9, <1>10, <1>11, <1>12, <1>14 DEF CatalogInv

(* The stops and rides of one train go: pairs with another id stay.        *)
LEMMA UndoReleaseTrainStep ==
  ASSUME CatalogInv, UndoReleaseTrain
  PROVE  CatalogInv'
<1>1. TrainsOK /\ NamesOK /\ RidesOK /\ LogOK /\ FlagsOK /\ NoEntryTwice /\ OneAfterTheOther
  BY DEF CatalogInv
<1>2. PICK n : n = Newest.content.id
  OBVIOUS
<1>3. /\ log # <<>> /\ DestroyEntry /\ Newest.content.op = "ReleaseTrain"
      /\ Update(n, [trains[n] EXCEPT !.released = FALSE])
      /\ ixStop' = ixStop \ StopsOf(n)
      /\ rideSeats' = [r \in DOMAIN rideSeats \ RidesOf(n) |-> rideSeats[r]]
      /\ UNCHANGED <<now, call, freeTrains, ixId>>
  BY <1>2 DEF UndoReleaseTrain, Undoes, HasEntryToUndo, Restrict
<1>4. n \in DOMAIN trains
  BY <1>1, <1>2, <1>3, MentionedAfterUndo
<1>5. /\ TrainsOK'
      /\ DOMAIN trains' = DOMAIN trains
      /\ ~ trains'[n].released
      /\ \A id \in DOMAIN trains : id # n => trains'[id] = trains[id]
      /\ \A id \in DOMAIN trains : /\ trains'[id].name = trains[id].name
                                   /\ trains'[id].line = trains[id].line
                                   /\ trains'[id].deleted = trains[id].deleted
  BY <1>1, <1>3, <1>4, ReleasedSet
<1>6. /\ \A op, id : Mentioned(op, id)' => Mentioned(op, id)
      /\ \A op, id : Mentioned(op, id) /\ ~ (op = "ReleaseTrain" /\ id = n) => Mentioned(op, id)'
      /\ \A p, q : GoneBefore(p, q) => GoneBefore(p, q)'
  BY <1>1, <1>2, <1>3, MentionedAfterUndo
<1>7. ~ Mentioned("ReleaseTrain", n)'
  BY <1>1, <1>2, <1>3, UndoneEntryIsGone
<1>8. NamesOK'
  <2>1. {i \in DOMAIN trains' : ~ trains'[i].deleted} = {i \in DOMAIN trains : ~ trains[i].deleted}
    BY <1>5
  <2> QED
    BY <1>1, <1>3, <1>5, <2>1 DEF NamesOK
<1>9. RidesOK'
  <2>1. Released' = Released \ {n}
    BY <1>5 DEF Released
  <2>2. \A id \in Released : StopsOf(id)' = StopsOf(id) /\ RidesOf(id)' = RidesOf(id)
    BY <1>5 DEF StopsOf, RidesOf, Released
  <2>3. \A id : id # n => /\ \A x \in StopsOf(id) : x \notin StopsOf(n)
                          /\ \A x \in RidesOf(id) : x \notin RidesOf(n)
    BY DEF StopsOf, RidesOf
  <2>4. \A x : x \in ixStop' <=> \E id \in Released \ {n} : x \in StopsOf(id)
    <3>1. \A x : x \in ixStop <=> \E id \in Released : x \in StopsOf(id)
      BY <1>1 DEF RidesOK
    <3> QED
      BY <1>3, <2>3, <3>1
  <2>5. \A x : x \in DOMAIN rideSeats \ RidesOf(n) <=> \E id \in Released \ {n} : x \in RidesOf(id)
    <3>1. \A x : x \in DOMAIN rideSeats <=> \E id \in Released : x \in RidesOf(id)
      BY <1>1 DEF RidesOK
    <3> QED
      BY <2>3, <3>1
  <2>6. ixStop' = UNION {StopsOf(id)' : id \in Released'}
    <3>1. \A x : x \in UNION {StopsOf(id)' : id \in Released'} <=> \E id \in Released' : x \in StopsOf(id)'
      OBVIOUS
    <3>2. \A x : x \in ixStop' <=> \E id \in Released' : x \in StopsOf(id)'
      BY <2>1, <2>2, <2>4
    <3> QED
      BY <3>1, <3>2
  <2>7. DOMAIN rideSeats' = DOMAIN rideSeats \ RidesOf(n)
        /\ \A r \in DOMAIN rideSeats' : rideSeats'[r] = rideSeats[r]
    BY <1>3
  <2>8. DOMAIN rideSeats' = UNION {RidesOf(id)' : id \in Released'}
    <3>1. \A x : x \in UNION {RidesOf(id)' : id \in Released'} <=> \E id \in Released' : x \in RidesOf(id)'
      OBVIOUS
    <3>2. \A x : x \in DOMAIN rideSeats' <=> \E id \in Released' : x \in RidesOf(id)'
      BY <2>1, <2>2, <2>5, <2>7
    <3> QED
      BY <3>1, <3>2
  <2>9. \A r \in DOMAIN rideSeats' : rideSeats'[r] \in [DOMAIN rideSeats'[r] -> Int]
    BY <1>1, <2>7 DEF RidesOK
  <2> QED
    BY <2>6, <2>8, <2>9 DEF RidesOK
<1>10. LogOK'
  BY <1>1, <1>3, <1>5, LogOKShortened
<1>11. FlagsOK'
  <2>1. \A id \in DOMAIN trains' : Mentioned("AddTrain", id)'
    BY <1>1, <1>5, <1>6 DEF FlagsOK
  <2>2. \A id \in DOMAIN trains' : trains'[id].deleted <=> Mentioned("DeleteTrain", id)'
    BY <1>1, <1>5, <1>6, <1>7 DEF FlagsOK
  <2>3. \A id \in DOMAIN trains' : trains'[id].released <=> Mentioned("ReleaseTrain", id)'
    BY <1>1, <1>5, <1>6, <1>7 DEF FlagsOK
  <2> QED
    BY <1>1, <1>5, <2>1, <2>2, <2>3 DEF FlagsOK
<1>14. NoEntryTwice'
  BY <1>1, <1>3, UndoneEntryIsGone
<1>12. OneAfterTheOther'
  BY <1>1, <1>5, <1>6 DEF OneAfterTheOther
<1> QED
  BY <1>5, <1>8, <1>9, <1>10, <1>11, <1>12, <1>14 DEF CatalogInv

LEMMA CatalogStep == CatalogInv /\ [Next]_vars => CatalogInv'
<1> SUFFICES ASSUME CatalogInv, [Next]_vars PROVE CatalogInv'
  OBVIOUS
<1>1. now \in Int
  BY DEF CatalogInv, LogOK
<1>2. ASSUME NEW t \in 0 .. MaxTime, ReadTimestamp(t), UNCHANGED catalogVars PROVE CatalogInv'
  <2>1. now' \in Int
    BY <1>2, MaxTimeAssumption DEF ReadTimestamp
  <2> QED
    BY <1>2, <2>1, CatalogStays DEF ReadTimestamp
<1>3. ASSUME NEW name \in TrainNames, NEW line \in Lines, AddTrain(name, line) PROVE CatalogInv'
  BY <1>3, AddTrainStep
<1>4. ASSUME NEW name \in TrainNames, NEW id \in DOMAIN trains, DeleteTrain(name, id) PROVE CatalogInv'
  BY <1>4, DeleteTrainStep
<1>5. ASSUME NEW name \in TrainNames, NEW id \in DOMAIN trains, ReleaseTrain(name, id) PROVE CatalogInv'
  BY <1>5, ReleaseTrainStep
<1>6. CASE Clean
  BY <1>1, <1>6, EmptyCatalog DEF Clean
<1>7. ASSUME NEW t \in 0 .. MaxTime, Rollback(t) PROVE CatalogInv'
  BY <1>1, <1>7, CatalogStays DEF Rollback, StartRollback
<1>8. CASE Undo
  BY <1>8, UndoAddTrainStep, UndoDeleteTrainStep, UndoReleaseTrainStep DEF Undo
<1>9. CASE EndRollback
  BY <1>1, <1>9, CatalogStays DEF EndRollback, RollbackDone
<1>10. CASE UNCHANGED vars
  BY <1>1, <1>10, CatalogStays DEF vars, catalogVars
<1> QED
  BY <1>2, <1>3, <1>4, <1>5, <1>6, <1>7, <1>8, <1>9, <1>10 DEF Next, Command

LEMMA CatalogInvHolds == Spec => []CatalogInv
BY CatalogStart, CatalogStep, PTL DEF Spec

-----------------------------------------------------------------------------
(* The theorems.                                                           *)

(* The three indices of train.h:50-53 name exactly the trains, stops and   *)
(* rides there are, and save() and destroy() keep the ids in use and the   *)
(* free ones apart and lose none.                                          *)
THEOREM IndicesStayExact == Spec => []IndicesExact
<1>1. CatalogInv => IndicesExact
  <2> SUFFICES ASSUME CatalogInv PROVE IndicesExact
    OBVIOUS
  <2>1. TrainsOK /\ NamesOK /\ RidesOK
    BY DEF CatalogInv
  <2>2. DOMAIN trains \subseteq Nat
    <3>1. Len(freeTrains) \in Nat /\ Cardinality(DOMAIN trains) \in Nat
      BY <2>1, FS_CardinalityType DEF TrainsOK
    <3> QED
      BY <2>1, <3>1 DEF TrainsOK
  <2>3. ixId \subseteq TrainNames \X Nat
    BY <2>1, <2>2 DEF NamesOK, TrainsOK, Train
  <2>4. TypeOK
    BY <2>1, <2>3 DEF TypeOK, TrainsOK, RidesOK
  <2> QED
    BY <2>1, <2>4 DEF IndicesExact, NamesOK, RidesOK
<1> QED
  BY <1>1, CatalogInvHolds, PTL

(* A name belongs to one train at most: rolling back a deletion cannot     *)
(* bring back a train whose name has been taken since, for the entry of    *)
(* the new one is undone first.                                            *)
THEOREM TrainNamesStayUnique == Spec => []NamesUnique
<1>1. CatalogInv => NamesUnique
  <2> SUFFICES ASSUME CatalogInv, NEW p \in ixId, NEW q \in ixId, p[1] = q[1] PROVE p = q
    BY DEF NamesUnique
  <2>1. NamesOK /\ FlagsOK /\ OneAfterTheOther
    BY DEF CatalogInv
  <2>2. PICK i \in DOMAIN trains : p = <<trains[i].name, i>> /\ ~ trains[i].deleted
    BY <2>1 DEF NamesOK
  <2>3. PICK j \in DOMAIN trains : q = <<trains[j].name, j>> /\ ~ trains[j].deleted
    BY <2>1 DEF NamesOK
  <2>4. ~ GoneBefore(i, j) /\ ~ GoneBefore(j, i)
    BY <2>1, <2>2, <2>3 DEF FlagsOK, GoneBefore, Mentioned
  <2>5. trains[i].name = trains[j].name
    BY <2>2, <2>3
  <2>6. i = j
    BY <2>1, <2>4, <2>5 DEF OneAfterTheOther
  <2> QED
    BY <2>2, <2>3, <2>6
<1> QED
  BY <1>1, CatalogInvHolds, PTL

(* Rollback finds in the log, for each id, the life of the train that has  *)
(* the id now: no entry of an earlier owner is left to be undone on it.    *)
THEOREM LogTellsTheLifeOfEachTrain == Spec => []LogTellsEachLife
<1>1. ASSUME CatalogInv, NEW id \in 1 .. MaxTrains
      PROVE  /\ \E place \in [DOMAIN Life(id) -> DOMAIN log] :
                  /\ EntriesOf(id) = {place[n] : n \in DOMAIN Life(id)}
                  /\ \A n \in DOMAIN Life(id) : log[place[n]].content.op = Life(id)[n]
                  /\ \A m, n \in DOMAIN Life(id) : m < n => place[m] < place[n]
             /\ id \in DOMAIN trains => ~ (trains[id].deleted /\ trains[id].released)
  <2>1. LogOK /\ FlagsOK /\ NoEntryTwice
    BY <1>1 DEF CatalogInv
  <2>2. \A k \in DOMAIN log : k \in Nat /\ log[k].content.op \in Operations
    <3>1. log \in Seq(Entry) /\ DOMAIN log = 1 .. Len(log) /\ Len(log) \in Nat
      BY <2>1 DEF LogOK
    <3>2. \A k \in DOMAIN log : log[k] \in Entry
      BY <3>1
    <3> QED
      BY <3>1, <3>2 DEF Entry
  <2>3. CASE id \notin DOMAIN trains
    <3>1. EntriesOf(id) = {} /\ DOMAIN Life(id) = {}
      BY <2>1, <2>3 DEF EntriesOf, Life, LogOK
    <3>2. PICK place \in [{} -> DOMAIN log] : TRUE
      <4>1. [n \in {} |-> n] \in [{} -> DOMAIN log]
        OBVIOUS
      <4> QED
        BY <4>1
    <3> QED
      BY <2>3, <3>1, <3>2
  <2>4. ASSUME id \in DOMAIN trains
        PROVE  \E a \in EntriesOf(id) :
                 /\ log[a].content.op = "AddTrain"
                 /\ \A k \in EntriesOf(id) : k # a => a < k /\ log[k].content.op # "AddTrain"
    <3>1. PICK a \in DOMAIN log : Logged(a, "AddTrain", id)
      BY <2>1, <2>4 DEF FlagsOK, Mentioned
    <3>2. ASSUME NEW k \in EntriesOf(id), k # a
          PROVE  a < k /\ log[k].content.op # "AddTrain"
      <4>1. ~ (k < a) /\ log[k].content.op # "AddTrain"
        BY <2>1, <3>1, <3>2 DEF LogOK, NoEntryTwice, Logged, EntriesOf
      <4> QED
        BY <2>2, <3>2, <4>1 DEF EntriesOf
    <3> QED
      BY <3>1, <3>2 DEF EntriesOf, Logged
  <2>5. ASSUME id \in DOMAIN trains,
               NEW op \in {"DeleteTrain", "ReleaseTrain"}, Mentioned(op, id),
               \A other \in {"DeleteTrain", "ReleaseTrain"} : other # op => ~ Mentioned(other, id),
               Life(id) = <<"AddTrain", op>>
        PROVE  \E place \in [DOMAIN Life(id) -> DOMAIN log] :
                 /\ EntriesOf(id) = {place[n] : n \in DOMAIN Life(id)}
                 /\ \A n \in DOMAIN Life(id) : log[place[n]].content.op = Life(id)[n]
                 /\ \A m, n \in DOMAIN Life(id) : m < n => place[m] < place[n]
    <3>1. PICK a \in EntriesOf(id) :
            /\ log[a].content.op = "AddTrain"
            /\ \A k \in EntriesOf(id) : k # a => a < k /\ log[k].content.op # "AddTrain"
      BY <2>4, <2>5
    <3>2. PICK b \in DOMAIN log : Logged(b, op, id)
      BY <2>5 DEF Mentioned
    <3>3. b \in EntriesOf(id) /\ a # b /\ a < b
      BY <3>1, <3>2 DEF Logged, EntriesOf
    <3>4. \A k \in EntriesOf(id) : k = a \/ k = b
      <4>1. TAKE k \in EntriesOf(id)
      <4>2. SUFFICES ASSUME k # a PROVE k = b
        OBVIOUS
      <4>3. log[k].content.op \in {"DeleteTrain", "ReleaseTrain"} /\ Mentioned(log[k].content.op, id)
        BY <2>2, <3>1, <4>2 DEF EntriesOf, Operations, Mentioned, Logged
      <4>4. Logged(k, op, id)
        BY <2>5, <4>3 DEF EntriesOf, Logged
      <4> QED
        BY <2>1, <3>2, <4>4 DEF NoEntryTwice, Logged, EntriesOf
    <3> DEFINE place == <<a, b>>
    <3>5. DOMAIN Life(id) = {1, 2} /\ Life(id)[1] = "AddTrain" /\ Life(id)[2] = op
      BY <2>5
    <3>6. place \in [{1, 2} -> DOMAIN log] /\ place[1] = a /\ place[2] = b
      BY <3>1, <3>2 DEF EntriesOf
    <3> HIDE DEF place
    <3>7. EntriesOf(id) = {place[n] : n \in {1, 2}}
      BY <3>1, <3>3, <3>4, <3>6
    <3>8. \A m, n \in {1, 2} : m < n => m = 1 /\ n = 2
      OBVIOUS
    <3> QED
      BY <3>1, <3>2, <3>3, <3>5, <3>6, <3>7, <3>8 DEF Logged
  <2>6. CASE id \in DOMAIN trains /\ trains[id].deleted
    <3>1. Mentioned("DeleteTrain", id) /\ ~ Mentioned("ReleaseTrain", id)
      BY <2>1, <2>6 DEF FlagsOK
    <3> QED
      BY <2>1, <2>5, <2>6, <3>1 DEF Life, FlagsOK
  <2>7. CASE id \in DOMAIN trains /\ ~ trains[id].deleted /\ trains[id].released
    <3>1. Mentioned("ReleaseTrain", id) /\ ~ Mentioned("DeleteTrain", id)
      BY <2>1, <2>7 DEF FlagsOK
    <3> QED
      BY <2>1, <2>5, <2>7, <3>1 DEF Life, FlagsOK
  <2>8. CASE id \in DOMAIN trains /\ ~ trains[id].deleted /\ ~ trains[id].released
    <3>1. PICK a \in EntriesOf(id) :
            /\ log[a].content.op = "AddTrain"
            /\ \A k \in EntriesOf(id) : k # a => a < k /\ log[k].content.op # "AddTrain"
      BY <2>4, <2>8
    <3>2. ~ Mentioned("DeleteTrain", id) /\ ~ Mentioned("ReleaseTrain", id)
      BY <2>1, <2>8 DEF FlagsOK
    <3>3. EntriesOf(id) = {a}
      BY <2>2, <3>1, <3>2 DEF EntriesOf, Operations, Mentioned, Logged
    <3> DEFINE place == <<a>>
    <3>4. place \in [{1} -> DOMAIN log] /\ place[1] = a
      BY <3>1 DEF EntriesOf
    <3>5. Life(id) = <<"AddTrain">>
      BY <2>8 DEF Life
    <3>6. DOMAIN Life(id) = {1} /\ Life(id)[1] = "AddTrain"
      BY <3>5
    <3> HIDE DEF place
    <3>7. EntriesOf(id) = {place[n] : n \in {1}} /\ \A m, n \in {1} : ~ (m < n)
      BY <3>3, <3>4
    <3> QED
      BY <2>8, <3>1, <3>4, <3>6, <3>7
  <2> QED
    BY <2>3, <2>6, <2>7, <2>8
<1>2. CatalogInv => LogTellsEachLife
  BY <1>1 DEF LogTellsEachLife
<1> QED
  BY <1>2, CatalogInvHolds, PTL

LEMMA IndexOfStopIsItsPlace ==
  ASSUME NEW line \in Lines, NEW i \in DOMAIN line.stops
  PROVE  IndexOfStop(line, line.stops[i]) = i
BY LinesAssumption, SMT DEF IndexOfStop, SelectInSeq, Min, IsInjective

(* QueryTicket (train.cpp) offers the trains that go from the one station  *)
(* to the other on the date, whatever was released and rolled back.        *)
THEOREM TicketsOfferedAreExact == Spec => []QueryTicketExact
<1>1. CatalogInv => QueryTicketExact
  <2> SUFFICES ASSUME CatalogInv, NEW from, NEW to,
                      NEW date \in UNION {{d + n : d \in line.dates, n \in {0, 1}} : line \in Lines}
               PROVE  {offer.train : offer \in QueryTicket(from, to, date)} =
                        {id \in Released : Departs(trains[id].line, from, to, date)}
    BY DEF QueryTicketExact
  <2>1. TrainsOK /\ RidesOK
    BY DEF CatalogInv
  <2>2. date \in Int
    BY LinesAssumption
  <2> DEFINE Offered(i) ==
        LET line == trains[i].line
        IN  /\ <<from, i>> \in ixStop
            /\ <<to, i>> \in ixStop
            /\ IndexOfStop(line, from) < IndexOfStop(line, to)
            /\ RideFrom(i, date, IndexOfStop(line, from)) \in DOMAIN rideSeats
  <2>3. {offer.train : offer \in QueryTicket(from, to, date)} = {i \in DOMAIN trains : Offered(i)}
    <3> DEFINE Seats(id) == TicketsAvailable(
                              rideSeats[RideFrom(id, date, IndexOfStop(trains[id].line, from))],
                              IndexOfStop(trains[id].line, from) - 1,
                              IndexOfStop(trains[id].line, to) - 1)
    <3>1. QueryTicket(from, to, date) =
            {[train |-> id, seats |-> Seats(id)] : id \in {i \in DOMAIN trains : Offered(i)}}
      BY DEF QueryTicket
    <3> HIDE DEF Seats, Offered
    <3>2. ASSUME NEW offer \in QueryTicket(from, to, date)
          PROVE  offer.train \in {i \in DOMAIN trains : Offered(i)}
      <4>1. PICK id \in {i \in DOMAIN trains : Offered(i)} : offer = [train |-> id, seats |-> Seats(id)]
        BY <3>1
      <4> QED
        BY <4>1
    <3>3. ASSUME NEW id \in {i \in DOMAIN trains : Offered(i)}
          PROVE  \E offer \in QueryTicket(from, to, date) : offer.train = id
      <4>1. [train |-> id, seats |-> Seats(id)] \in QueryTicket(from, to, date)
        BY <3>1
      <4>2. [train |-> id, seats |-> Seats(id)].train = id
        OBVIOUS
      <4> QED
        BY <4>1, <4>2
    <3> QED
      BY <3>2, <3>3
  <2>4. ASSUME NEW id \in DOMAIN trains, Offered(id)
        PROVE  id \in Released /\ Departs(trains[id].line, from, to, date)
    <3>1. id \in Released /\ from \in ToSet(trains[id].line.stops)
      BY <2>1, <2>4 DEF RidesOK, StopsOf
    <3>2. to \in ToSet(trains[id].line.stops)
      BY <2>1, <2>4 DEF RidesOK, StopsOf
    <3>3. PICK i \in DOMAIN trains[id].line.stops : from = trains[id].line.stops[i]
      BY <3>1 DEF ToSet
    <3>4. PICK j \in DOMAIN trains[id].line.stops : to = trains[id].line.stops[j]
      BY <3>2 DEF ToSet
    <3>5. trains[id].line \in Lines
      BY <2>1 DEF TrainsOK, Train
    <3>6. IndexOfStop(trains[id].line, from) = i /\ IndexOfStop(trains[id].line, to) = j
      BY <3>3, <3>4, <3>5, IndexOfStopIsItsPlace
    <3>7. i < j /\ <<id, date - trains[id].line.days[i]>> \in DOMAIN rideSeats
      BY <2>4, <3>6 DEF RideFrom
    <3>8. date - trains[id].line.days[i] \in trains[id].line.dates
      BY <2>1, <3>7 DEF RidesOK, RidesOf
    <3> QED
      BY <3>1, <3>3, <3>4, <3>7, <3>8 DEF Departs
  <2>5. ASSUME NEW id \in Released, Departs(trains[id].line, from, to, date)
        PROVE  id \in DOMAIN trains /\ Offered(id)
    <3>1. PICK i \in DOMAIN trains[id].line.stops, j \in DOMAIN trains[id].line.stops :
            /\ i < j
            /\ trains[id].line.stops[i] = from
            /\ trains[id].line.stops[j] = to
            /\ date - trains[id].line.days[i] \in trains[id].line.dates
      BY <2>5 DEF Departs
    <3>2. id \in DOMAIN trains
      BY DEF Released
    <3>3. trains[id].line \in Lines
      BY <2>1, <3>2 DEF TrainsOK, Train
    <3>4. IndexOfStop(trains[id].line, from) = i /\ IndexOfStop(trains[id].line, to) = j
      BY <3>1, <3>3, IndexOfStopIsItsPlace
    <3>5. <<from, id>> \in StopsOf(id) /\ <<to, id>> \in StopsOf(id)
      BY <3>1 DEF StopsOf, ToSet
    <3>6. <<from, id>> \in ixStop /\ <<to, id>> \in ixStop
      BY <2>1, <3>5 DEF RidesOK
    <3>7. <<id, date - trains[id].line.days[i]>> \in RidesOf(id)
      BY <3>1 DEF RidesOf
    <3>8. RideFrom(id, date, i) \in DOMAIN rideSeats
      BY <2>1, <3>7 DEF RidesOK, RideFrom
    <3> QED
      BY <3>1, <3>2, <3>4, <3>6, <3>8
  <2> HIDE DEF Offered
  <2> QED
    BY <2>3, <2>4, <2>5 DEF Released
<1> QED
  BY <1>1, CatalogInvHolds, PTL

=============================================================================
