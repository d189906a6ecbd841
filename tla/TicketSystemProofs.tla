------------------------- MODULE TicketSystemProofs -------------------------
(***************************************************************************)
(* The back end as a whole, for any users, lines, capacities and bounds:   *)
(* no component disturbs another, in commands or in rollbacks.             *)
(***************************************************************************)
EXTENDS TicketSystem, RideSeatsProofs, SequenceTheorems

-----------------------------------------------------------------------------
(* The types of the data                                                   *)

Edges == 0 .. EdgeCount - 1
Levels == Privileges \cup {UserPart!kDefaultPrivilege}
User == [username : Usernames, password : Passwords, privilege : Levels]
Train == [name : TrainNames, line : Lines, released : BOOLEAN, deleted : BOOLEAN]
Order ==
  [user : Usernames, ride : Rides, from : Nat, to : Nat, seats : Nat \ {0},
   status : {"success", "pending", "refunded"}]
HasTrip(o) == o.from < o.to /\ o.to <= EdgeCount

Content ==
  [op : {"AddUser", "AddTrain", "DeleteTrain", "ReleaseTrain", "BuyTicket", "FulfillOrder"}, id : Nat]
    \cup [op : {"ModifyProfile"}, id : Nat, password : {{}}, privilege : {{p} : p \in Levels}]
    \cup [op : {"RefundTicket"}, id : Nat, status : {"success", "pending"}]

Entry == [timestamp : Int, content : Content]

-----------------------------------------------------------------------------
(* The inductive invariant.  As for the order book alone, it keeps beside  *)
(* each entry of the log the data as they were when it was written, says   *)
(* of all of them that they are in order, and that the entries lead from   *)
(* each back to the one before.                                            *)

(* The indices name the trains, stops and rides of the catalog.            *)
CatalogOK(v) ==
  /\ DOMAIN v.trains \subseteq 1 .. MaxTrains
  /\ v.trains \in [DOMAIN v.trains -> Train]
  /\ \A id \in DOMAIN v.trains : ~ (v.trains[id].released /\ v.trains[id].deleted)
  /\ v.names = {<<v.trains[id].name, id>> : id \in {i \in DOMAIN v.trains : ~ v.trains[i].deleted}}
  /\ \A s \in v.stops : s[2] \in DOMAIN v.trains /\ v.trains[s[2]].released
  /\ \A r \in DOMAIN v.seats : r[1] \in DOMAIN v.trains /\ v.trains[r[1]].released

(* The orders are for rides there are, and their seats add up.             *)
BookOK(v) ==
  /\ IsFiniteSet(DOMAIN v.book)
  /\ DOMAIN v.seats \subseteq Rides
  /\ \A r \in DOMAIN v.seats : v.seats[r] \in [Edges -> Nat]
  /\ \A id \in DOMAIN v.book : v.book[id] \in Order /\ HasTrip(v.book[id])
  /\ \A id \in DOMAIN v.book : v.book[id].ride \in DOMAIN v.seats
  /\ v.pending = {id \in DOMAIN v.book : v.book[id].status = "pending"}
  /\ \A r \in DOMAIN v.seats : \A e \in Edges : v.seats[r][e] + Held(v.book, r, e) = SeatCount

DataOK(v) == CatalogOK(v) /\ BookOK(v)

(* The data v after the entry content c is undone.                         *)
WithStatus(o, s) == [o EXCEPT !.status = s]
StatusIn(book, id, s) == [book EXCEPT ![id].status = s]
IsFun(f) == f = [x \in DOMAIN f |-> f[x]]

Shift(seats, o, n) == [seats EXCEPT ![o.ride] = RangeAdd(seats[o.ride], n, o.from, o.to)]

AccountsBefore(v, c) ==
  IF c.op = "AddUser" THEN [i \in DOMAIN v.accounts \ {c.id} |-> v.accounts[i]]
  ELSE IF c.op = "ModifyProfile"
  THEN [v.accounts EXCEPT ![c.id].privilege = CHOOSE p \in c.privilege : TRUE]
  ELSE v.accounts

TrainsBefore(v, c) ==
  IF c.op = "AddTrain" THEN [i \in DOMAIN v.trains \ {c.id} |-> v.trains[i]]
  ELSE IF c.op = "DeleteTrain" THEN [v.trains EXCEPT ![c.id].deleted = FALSE]
  ELSE IF c.op = "ReleaseTrain" THEN [v.trains EXCEPT ![c.id].released = FALSE]
  ELSE v.trains

NamesBefore(v, c) ==
  IF c.op = "AddTrain" THEN v.names \ {<<v.trains[c.id].name, c.id>>}
  ELSE IF c.op = "DeleteTrain" THEN v.names \cup {<<v.trains[c.id].name, c.id>>}
  ELSE v.names

StopsBefore(v, c) ==
  IF c.op = "ReleaseTrain"
  THEN v.stops \ {<<station, c.id>> : station \in TrainPart!ToSet(v.trains[c.id].line.stops)}
  ELSE v.stops

RidesAt(v, id) == {<<id, date>> : date \in v.trains[id].line.dates}

SeatsBefore(v, c) ==
  LET o == v.book[c.id]
  IN  IF c.op = "ReleaseTrain" THEN [r \in DOMAIN v.seats \ RidesAt(v, c.id) |-> v.seats[r]]
      ELSE IF c.op = "FulfillOrder" \/ (c.op = "BuyTicket" /\ o.status # "pending")
      THEN Shift(v.seats, o, o.seats)
      ELSE IF c.op = "RefundTicket" /\ c.status = "success" THEN Shift(v.seats, o, -o.seats)
      ELSE v.seats

BookBefore(v, c) ==
  IF c.op = "BuyTicket" THEN [i \in DOMAIN v.book \ {c.id} |-> v.book[i]]
  ELSE IF c.op = "RefundTicket" THEN StatusIn(v.book, c.id, c.status)
  ELSE IF c.op = "FulfillOrder" THEN StatusIn(v.book, c.id, "pending")
  ELSE v.book

PendingBefore(v, c) ==
  IF c.op = "BuyTicket" /\ v.book[c.id].status = "pending" THEN v.pending \ {c.id}
  ELSE IF c.op = "FulfillOrder" \/ (c.op = "RefundTicket" /\ c.status # "success")
  THEN v.pending \cup {c.id}
  ELSE v.pending

Undone(v, c) ==
  [accounts |-> AccountsBefore(v, c),
   trains   |-> TrainsBefore(v, c),
   names    |-> NamesBefore(v, c),
   stops    |-> StopsBefore(v, c),
   seats    |-> SeatsBefore(v, c),
   book     |-> BookBefore(v, c),
   pending  |-> PendingBefore(v, c)]

(* What the undo visitor of c takes for granted of the data it works on.   *)
CanUndo(v, c) ==
  /\ c.op \in {"AddUser", "ModifyProfile"} => c.id \in DOMAIN v.accounts
  /\ c.op \in {"AddTrain", "DeleteTrain", "ReleaseTrain"} => c.id \in DOMAIN v.trains
  /\ c.op \in {"BuyTicket", "RefundTicket", "FulfillOrder"} => c.id \in DOMAIN v.book

Past(k) == IF k <= Len(log) THEN hist[k] ELSE Data

HistoryOK == \A k \in 1 .. Len(log) + 1 : DataOK(Past(k))

HistoryUndoes ==
  \A k \in 1 .. Len(log) :
    /\ hist[k] = Undone(Past(k + 1), log[k].content)
    /\ CanUndo(Past(k + 1), log[k].content)

(* The trains file: the ids in use and the free ones are 1 to n.           *)
FreeListOK(ids, free) ==
  /\ free \in Seq(Nat)
  /\ \A i, j \in 1 .. Len(free) : free[i] = free[j] => i = j
  /\ \A i \in 1 .. Len(free) : free[i] \notin ids
  /\ \E n \in Nat : ids \cup {free[i] : i \in 1 .. Len(free)} = 1 .. n

FileOK == FreeListOK(DOMAIN trains, freeTrains)

Refunding == call.cmd = "refund"

(* A refund works on a copy of the seats of a ride, and looks at the       *)
(* orders that wait for that ride.                                         *)
CallOK ==
  IF Refunding
  THEN /\ call = [cmd |-> "refund", ride |-> call.ride, seats |-> call.seats, todo |-> call.todo]
       /\ call.ride \in DOMAIN rideSeats
       /\ call.todo \subseteq pendingOrders
       /\ \A id \in call.todo : orders[id].ride = call.ride
  ELSE Idle \/ RollingBack

LogOK == now \in Int /\ log \in Seq(Entry)

FilesOK ==
  /\ users \in Seq(User)
  /\ orders \in Seq(Order)
  /\ ixUserId \subseteq DOMAIN orders
  /\ FileOK

SystemInv == LogOK /\ FilesOK /\ CallOK /\ HistoryOK /\ HistoryUndoes

-----------------------------------------------------------------------------
(* The parts share the clock, the log and the command in progress.         *)

LEMMA SameLog ==
  /\ UserPart!Idle <=> Idle
  /\ TrainPart!Idle <=> Idle
  /\ OrderPart!Idle <=> Idle
  /\ UserPart!HasEntryToUndo <=> HasEntryToUndo
  /\ TrainPart!HasEntryToUndo <=> HasEntryToUndo
  /\ OrderPart!HasEntryToUndo <=> HasEntryToUndo
  /\ UserPart!Newest = Newest /\ TrainPart!Newest = Newest /\ OrderPart!Newest = Newest
  /\ OrderPart!Refunding <=> Refunding
BY DEF UserPart!Idle, TrainPart!Idle, OrderPart!Idle, Idle,
       UserPart!NoCall, TrainPart!NoCall, OrderPart!NoCall, NoCall,
       UserPart!HasEntryToUndo, TrainPart!HasEntryToUndo, OrderPart!HasEntryToUndo, HasEntryToUndo,
       UserPart!RollingBack, TrainPart!RollingBack, OrderPart!RollingBack, RollingBack,
       UserPart!Newest, TrainPart!Newest, OrderPart!Newest, Newest,
       OrderPart!Refunding, Refunding

LEMMA SameEntries ==
  /\ \A c : UserPart!Log(c) <=> Log(c)
  /\ \A c : TrainPart!Log(c) <=> Log(c)
  /\ \A c : OrderPart!Log(c) <=> Log(c)
  /\ UserPart!DestroyEntry <=> DestroyEntry
  /\ TrainPart!DestroyEntry <=> DestroyEntry
  /\ OrderPart!DestroyEntry <=> DestroyEntry
BY DEF UserPart!Log, TrainPart!Log, OrderPart!Log, Log,
       UserPart!DestroyEntry, TrainPart!DestroyEntry, OrderPart!DestroyEntry, DestroyEntry

LEMMA SameSeats ==
  /\ \A r : OrderPart!SeatsNow(r) = IF Refunding /\ call.ride = r THEN call.seats ELSE rideSeats[r]
  /\ \A rem, o : OrderPart!Take(rem, o) = RangeAdd(rem, -o.seats, o.from, o.to)
  /\ \A rem, o : OrderPart!GiveBack(rem, o) = RangeAdd(rem, o.seats, o.from, o.to)
  /\ \A rem, o : OrderPart!Fits(o, rem) <=> TicketsAvailable(rem, o.from, o.to) >= o.seats
  /\ \A r \in Rides : OrderPart!Edges(r) = Edges
<1>1. \A rem, n, from, to : OrderPart!RangeAdd(rem, n, from, to) = RangeAdd(rem, n, from, to)
  BY DEF OrderPart!RangeAdd, RangeAdd, OrderPart!Trip, Trip
<1>2. \A rem, from, to : OrderPart!TicketsAvailable(rem, from, to) = TicketsAvailable(rem, from, to)
  BY DEF OrderPart!TicketsAvailable, TicketsAvailable, OrderPart!Trip, Trip, OrderPart!Min, Min
<1>3. \A r : OrderPart!SeatsNow(r) = IF Refunding /\ call.ride = r THEN call.seats ELSE rideSeats[r]
  BY DEF OrderPart!SeatsNow, OrderPart!Refunding, Refunding
<1>4. /\ \A rem, o : OrderPart!Take(rem, o) = RangeAdd(rem, -o.seats, o.from, o.to)
      /\ \A rem, o : OrderPart!GiveBack(rem, o) = RangeAdd(rem, o.seats, o.from, o.to)
  BY <1>1 DEF OrderPart!Take, OrderPart!GiveBack
<1>5. \A rem, o : OrderPart!Fits(o, rem) <=> TicketsAvailable(rem, o.from, o.to) >= o.seats
  BY <1>2 DEF OrderPart!Fits
<1>6. \A r \in Rides : OrderPart!Edges(r) = Edges
  BY DEF OrderPart!Edges, Edges
<1> QED
  BY <1>3, <1>4, <1>5, <1>6

-----------------------------------------------------------------------------
(* The ways a step changes the history.                                    *)

HistoryNext == hist' = [k \in 1 .. Len(log') |-> IF k <= Len(log) THEN hist[k] ELSE Data]

LEMMA LogLength ==
  ASSUME LogOK
  PROVE  /\ Len(log) \in Nat /\ DOMAIN log = 1 .. Len(log)
         /\ \A k \in 1 .. Len(log) : log[k] \in Entry
<1> HIDE DEF Entry
<1> QED
  BY DEF LogOK

LEMMA LogGrows ==
  ASSUME LogOK, NEW c \in Content, Log(c)
  PROVE  /\ Len(log') = Len(log) + 1
         /\ \A k \in 1 .. Len(log) : log'[k] = log[k]
         /\ log'[Len(log) + 1].content = c
         /\ log' \in Seq(Entry)
<1>1. PICK e : e = [timestamp |-> now, content |-> c]
  OBVIOUS
<1>2. e \in Entry /\ e.content = c
  BY <1>1 DEF LogOK, Entry
<1>3. log' = Append(log, e)
  BY <1>1 DEF Log
<1> HIDE DEF Entry
<1>4. log \in Seq(Entry)
  BY DEF LogOK
<1> QED
  BY <1>2, <1>3, <1>4

LEMMA LogShrinks ==
  ASSUME LogOK, HasEntryToUndo, DestroyEntry
  PROVE  /\ Len(log) \in Nat \ {0}
         /\ Len(log') = Len(log) - 1
         /\ \A k \in 1 .. Len(log) - 1 : log'[k] = log[k]
         /\ log' \in Seq(Entry)
         /\ Newest = log[Len(log)]
         /\ Newest.content \in Content
<1>1. log # <<>>
  BY DEF HasEntryToUndo
<1>2. log \in Seq(Entry) /\ log' = SubSeq(log, 1, Len(log) - 1)
  BY DEF LogOK, DestroyEntry
<1>3. Len(log) \in Nat \ {0} /\ log[Len(log)] \in Entry
  <2> HIDE DEF Entry
  <2> QED
    BY <1>1, <1>2
<1>4. /\ Len(log') = Len(log) - 1
      /\ \A k \in 1 .. Len(log) - 1 : log'[k] = log[k]
      /\ log' \in Seq(Entry)
  <2> HIDE DEF Entry
  <2>1. DOMAIN log = 1 .. Len(log) /\ \A k \in 1 .. Len(log) - 1 : log[k] \in Entry
    BY <1>2
  <2>2. 1 \in Int /\ Len(log) - 1 \in Int
    BY <1>3
  <2>3. /\ log' \in Seq(Entry)
        /\ Len(log') = IF 1 <= Len(log) - 1 THEN Len(log) - 1 - 1 + 1 ELSE 0
        /\ \A k \in 1 .. Len(log) - 1 - 1 + 1 : log'[k] = log[1 + k - 1]
    BY <1>2, <2>1, <2>2, SubSeqProperties
  <2>4. Len(log') = Len(log) - 1
    <3>1. PICK n \in Nat \ {0} : n = Len(log)
      BY <1>3
    <3>2. Len(log') = IF 1 <= n - 1 THEN n - 1 - 1 + 1 ELSE 0
      BY <2>3, <3>1
    <3> QED
      BY <3>1, <3>2
  <2>5. \A k \in 1 .. Len(log) - 1 : k \in 1 .. Len(log) - 1 - 1 + 1 /\ 1 + k - 1 = k
    BY <1>3
  <2> QED
    BY <2>3, <2>4, <2>5
<1>5. Newest = log[Len(log)] /\ Newest.content \in Content
  BY <1>3 DEF Newest, Entry
<1> QED
  BY <1>3, <1>4, <1>5

LEMMA PresentIsPast ==
  ASSUME LogOK
  PROVE  Len(log) + 1 \in 1 .. Len(log) + 1 /\ Past(Len(log) + 1) = Data
BY LogLength DEF Past

LEMMA HistoryStart ==
  ASSUME LogOK, log = <<>>, DataOK(Data)
  PROVE  HistoryOK /\ HistoryUndoes
<1>1. Len(log) = 0
  OBVIOUS
<1>2. \A k \in 1 .. Len(log) + 1 : Past(k) = Data
  BY <1>1 DEF Past
<1> QED
  BY <1>1, <1>2 DEF HistoryOK, HistoryUndoes

LEMMA HistoryRests ==
  ASSUME LogOK, HistoryOK, HistoryUndoes, HistoryNext, log' = log, Data' = Data
  PROVE  HistoryOK' /\ HistoryUndoes'
<1>1. Len(log) \in Nat
  BY LogLength
<1>2. \A k \in 1 .. Len(log) : hist'[k] = hist[k]
  BY <1>1 DEF HistoryNext
<1>3. \A k \in 1 .. Len(log) + 1 : Past(k)' = Past(k)
  BY <1>1, <1>2 DEF Past
<1>4. HistoryOK'
  BY <1>3 DEF HistoryOK
<1>5. HistoryUndoes'
  BY <1>1, <1>2, <1>3 DEF HistoryUndoes
<1> QED
  BY <1>4, <1>5

LEMMA HistoryGrows ==
  ASSUME LogOK, HistoryOK, HistoryUndoes, HistoryNext, NEW c \in Content, Log(c),
         Data = Undone(Data', c), CanUndo(Data', c), DataOK(Data')
  PROVE  HistoryOK' /\ HistoryUndoes'
<1> DEFINE n == Len(log)
<1>1. /\ n \in Nat /\ Len(log') = n + 1
      /\ (\A k \in 1 .. n : log'[k] = log[k]) /\ log'[n + 1].content = c
  BY LogLength, LogGrows
<1>2. (\A k \in 1 .. n : hist'[k] = hist[k]) /\ hist'[n + 1] = Data
  BY <1>1 DEF HistoryNext
<1>3. \A k \in 1 .. n + 1 : Past(k)' = Past(k)
  BY <1>1, <1>2 DEF Past
<1>4. ASSUME NEW k, k = n + 2 PROVE Past(k)' = Data'
  BY <1>1, <1>4 DEF Past
<1>5. ASSUME NEW k \in 1 .. Len(log') + 1 PROVE DataOK(Past(k)')
  <2>1. CASE k = n + 2
    BY <1>4, <2>1
  <2>2. CASE k # n + 2
    <3>1. k \in 1 .. n + 1
      BY <1>1, <2>2
    <3> QED
      BY <1>3, <3>1 DEF HistoryOK
  <2> QED
    BY <2>1, <2>2
<1>6. ASSUME NEW k \in 1 .. Len(log')
      PROVE  /\ hist'[k] = Undone(Past(k + 1)', log'[k].content)
             /\ CanUndo(Past(k + 1)', log'[k].content)
  <2>1. CASE k = n + 1
    <3>1. hist'[k] = Data /\ Past(k + 1)' = Data' /\ log'[k].content = c
      BY <1>1, <1>2, <1>4, <2>1
    <3> QED
      BY <3>1
  <2>2. CASE k # n + 1
    <3>1. k \in 1 .. n /\ k + 1 \in 1 .. n + 1
      BY <1>1, <2>2
    <3>2. hist'[k] = hist[k] /\ Past(k + 1)' = Past(k + 1) /\ log'[k] = log[k]
      BY <1>1, <1>2, <1>3, <3>1
    <3> QED
      BY <3>1, <3>2 DEF HistoryUndoes
  <2> QED
    BY <2>1, <2>2
<1> QED
  BY <1>5, <1>6 DEF HistoryOK, HistoryUndoes

LEMMA HistoryShrinks ==
  ASSUME LogOK, HistoryOK, HistoryUndoes, HistoryNext, HasEntryToUndo, DestroyEntry,
         Data' = Undone(Data, Newest.content)
  PROVE  HistoryOK' /\ HistoryUndoes' /\ Data' = hist[Len(log)]
<1> DEFINE n == Len(log)
<1>1. /\ n \in Nat \ {0} /\ Len(log') = n - 1 /\ Newest = log[n]
      /\ \A k \in 1 .. n - 1 : log'[k] = log[k]
  BY LogShrinks
<1>2. \A k \in 1 .. n - 1 : hist'[k] = hist[k]
  BY <1>1 DEF HistoryNext
<1>3. Data' = hist[n]
  <2>1. n \in 1 .. n /\ Past(n + 1) = Data
    BY <1>1 DEF Past
  <2> QED
    BY <1>1, <2>1 DEF HistoryUndoes
<1>4. ASSUME NEW k \in 1 .. n PROVE Past(k)' = Past(k)
  BY <1>1, <1>2, <1>3 DEF Past
<1>5. ASSUME NEW k \in 1 .. Len(log') + 1 PROVE DataOK(Past(k)')
  <2>1. k \in 1 .. n /\ k \in 1 .. n + 1
    BY <1>1
  <2> QED
    BY <1>4, <2>1 DEF HistoryOK
<1>6. ASSUME NEW k \in 1 .. Len(log')
      PROVE  /\ hist'[k] = Undone(Past(k + 1)', log'[k].content)
             /\ CanUndo(Past(k + 1)', log'[k].content)
  <2>1. k \in 1 .. n - 1 /\ k \in 1 .. n /\ k + 1 \in 1 .. n
    BY <1>1
  <2>2. hist'[k] = hist[k] /\ Past(k + 1)' = Past(k + 1) /\ log'[k] = log[k]
    BY <1>1, <1>2, <1>4, <2>1
  <2> QED
    BY <2>1, <2>2 DEF HistoryUndoes
<1> QED
  BY <1>3, <1>5, <1>6 DEF HistoryOK, HistoryUndoes

-----------------------------------------------------------------------------
(* Orders and seats.                                                       *)

Statuses == {"success", "pending", "refunded"}

LEMMA OrderFields ==
  ASSUME NEW o \in Order, NEW s \in Statuses, NEW x, x = WithStatus(o, s)
  PROVE  /\ x \in Order /\ x.status = s
         /\ x.ride = o.ride /\ x.from = o.from /\ x.to = o.to /\ x.seats = o.seats /\ x.user = o.user
         /\ o.ride \in Rides /\ o.from \in Nat /\ o.to \in Nat /\ o.seats \in Nat \ {0}
         /\ o.status \in Statuses
         /\ WithStatus(x, o.status) = o
         /\ HasTrip(x) <=> HasTrip(o)
<1>1. o = [user |-> o.user, ride |-> o.ride, from |-> o.from, to |-> o.to, seats |-> o.seats,
           status |-> o.status]
  BY DEF Order
<1>2. x = [user |-> o.user, ride |-> o.ride, from |-> o.from, to |-> o.to, seats |-> o.seats,
           status |-> s]
  BY <1>1 DEF WithStatus
<1>3. /\ x.status = s /\ x.ride = o.ride /\ x.from = o.from /\ x.to = o.to /\ x.seats = o.seats
      /\ x.user = o.user
  BY <1>2
<1>4. WithStatus(x, o.status) = o
  BY <1>1, <1>2 DEF WithStatus
<1>5. /\ o.user \in Usernames /\ o.ride \in Rides /\ o.from \in Nat /\ o.to \in Nat
      /\ o.seats \in Nat \ {0} /\ o.status \in Statuses
  BY DEF Order, Statuses
<1>6. x \in Order
  BY <1>2, <1>5 DEF Order, Statuses
<1>7. HasTrip(x) <=> HasTrip(o)
  BY <1>3 DEF HasTrip
<1> QED
  BY <1>3, <1>4, <1>5, <1>6, <1>7

(* A trip adds n to some edges of the record of its ride, and only there.  *)
LEMMA ShiftFacts ==
  ASSUME NEW seats, NEW o \in Order, NEW n \in Int, NEW m, m = -n,
         IsFun(seats),
         o.ride \in DOMAIN seats, \A r \in DOMAIN seats : seats[r] \in [Edges -> Nat],
         NEW w, w = Shift(seats, o, n)
  PROVE  /\ DOMAIN w = DOMAIN seats
         /\ w[o.ride] = RangeAdd(seats[o.ride], n, o.from, o.to)
         /\ \A r \in DOMAIN seats : r # o.ride => w[r] = seats[r]
         /\ \A r \in DOMAIN seats : w[r] = [e \in Edges |-> w[r][e]]
         /\ \A r \in DOMAIN seats : \A e \in Edges :
              w[r][e] = seats[r][e] + (IF Uses(o, r, e) THEN n ELSE 0)
         /\ Shift(w, o, m) = seats
<1>1. PICK rem : rem = seats[o.ride]
  OBVIOUS
<1>2. /\ rem \in [Edges -> Nat] /\ rem \in [Edges -> Int]
      /\ o.from \in Nat /\ o.to \in Nat
  <2>1. rem \in [Edges -> Nat]
    BY <1>1
  <2> QED
    BY <2>1 DEF Order
<1>3. PICK new : new = RangeAdd(rem, n, o.from, o.to)
  OBVIOUS
<1>4. /\ new \in [Edges -> Int]
      /\ \A e \in Edges : new[e] = rem[e] + (IF e \in Trip(o.from, o.to) THEN n ELSE 0)
  <2>1. new \in [Edges -> Int]
    BY <1>2, <1>3, RangeAddType
  <2>2. \A e \in Edges : new[e] = rem[e] + (IF e \in Trip(o.from, o.to) THEN n ELSE 0)
    BY <1>2, <1>3, RangeAddAt
  <2> QED
    BY <2>1, <2>2
<1>5. w = [seats EXCEPT ![o.ride] = new]
  BY <1>1, <1>3 DEF Shift
<1>6. /\ DOMAIN w = DOMAIN seats /\ w[o.ride] = new
      /\ \A r \in DOMAIN seats : r # o.ride => w[r] = seats[r]
  BY <1>5
<1>7. ASSUME NEW r \in DOMAIN seats
      PROVE  /\ w[r] = [e \in Edges |-> w[r][e]]
             /\ \A e \in Edges : w[r][e] = seats[r][e] + (IF Uses(o, r, e) THEN n ELSE 0)
  <2>1. CASE r = o.ride
    <3>1. w[r] = new /\ seats[r] = rem
      BY <1>1, <1>6, <2>1
    <3>2. \A e \in Edges : Uses(o, r, e) <=> e \in Trip(o.from, o.to)
      BY <2>1 DEF Uses
    <3> QED
      BY <1>4, <3>1, <3>2
  <2>2. CASE r # o.ride
    <3>1. w[r] = seats[r] /\ w[r] \in [Edges -> Nat]
      BY <1>6, <2>2
    <3>2. \A e \in Edges : ~ Uses(o, r, e)
      BY <2>2 DEF Uses
    <3>3. \A e \in Edges : w[r][e] = seats[r][e] + 0
      BY <3>1
    <3> QED
      BY <3>1, <3>2, <3>3
  <2> QED
    BY <2>1, <2>2
<1>8. Shift(w, o, m) = seats
  <2>1. RangeAdd(new, m, o.from, o.to) = rem
    BY <1>2, <1>3, RangeAddInverse
  <2>2. Shift(w, o, m) = [w EXCEPT ![o.ride] = rem]
    BY <1>6, <2>1 DEF Shift
  <2>3. [w EXCEPT ![o.ride] = rem] = [r \in DOMAIN seats |-> seats[r]]
    BY <1>1, <1>5
  <2> QED
    BY <2>2, <2>3 DEF IsFun
<1> QED
  BY <1>1, <1>3, <1>6, <1>7, <1>8

(* What fits can be taken.                                                 *)
LEMMA FitsIff ==
  ASSUME NEW o \in Order, HasTrip(o), EdgeCount \in Nat, NEW rem \in [Edges -> Nat]
  PROVE  TicketsAvailable(rem, o.from, o.to) >= o.seats
           <=> \A e \in Edges : e \in Trip(o.from, o.to) => rem[e] >= o.seats
<1>1. o.from \in Nat /\ o.to \in Nat /\ o.seats \in Int /\ o.from < o.to /\ o.to <= EdgeCount
  BY DEF Order, HasTrip
<1>2. Trip(o.from, o.to) \subseteq Edges
  BY <1>1 DEF Trip, Edges
<1>3. rem \in [Edges -> Int]
  OBVIOUS
<1>4. TicketsAvailable(rem, o.from, o.to) >= o.seats <=> \A e \in Trip(o.from, o.to) : rem[e] >= o.seats
  BY <1>1, <1>2, <1>3, TicketsAvailableIsMinimum
<1> QED
  BY <1>2, <1>4

(* A book in which one order is new or has changed, and the seats with it, *)
(* is in order.                                                            *)
BookChanged(v, w, id, o) ==
  /\ o \in Order /\ HasTrip(o) /\ o.ride \in DOMAIN v.seats
  /\ w.book = Put(v.book, id, o)
  /\ w.pending = IF o.status = "pending" THEN v.pending \cup {id} ELSE v.pending \ {id}
  /\ DOMAIN w.seats = DOMAIN v.seats
  /\ \A r \in DOMAIN v.seats : w.seats[r] \in [Edges -> Nat]
  /\ \A r \in DOMAIN v.seats : \A e \in Edges :
       w.seats[r][e] + Weight(o, r, e)
         = v.seats[r][e] + (IF id \in DOMAIN v.book THEN Weight(v.book[id], r, e) ELSE 0)

LEMMA BookChanges ==
  ASSUME NEW v, BookOK(v), NEW w, NEW id, NEW o, BookChanged(v, w, id, o)
  PROVE  BookOK(w)
<1> USE DEF BookChanged
<1>1. /\ DOMAIN w.book = DOMAIN v.book \cup {id} /\ w.book[id] = o
      /\ \A i \in DOMAIN v.book : i # id => w.book[i] = v.book[i]
  BY DEF Put
<1>2. /\ IsFiniteSet(DOMAIN v.book)
      /\ \A i \in DOMAIN v.book : v.book[i].seats \in Int
      /\ o.seats \in Int
  BY DEF BookOK, Order
<1>3. IsFiniteSet(DOMAIN w.book)
  <2>1. IsFiniteSet(DOMAIN v.book \cup {id})
    BY <1>2, FS_AddElement
  <2> QED
    BY <1>1, <2>1
<1>4. \A i \in DOMAIN w.book : w.book[i] \in Order /\ HasTrip(w.book[i]) /\ w.book[i].ride \in DOMAIN w.seats
  BY <1>1 DEF BookOK
<1>5. w.pending = {i \in DOMAIN w.book : w.book[i].status = "pending"}
  <2>1. v.pending = {i \in DOMAIN v.book : v.book[i].status = "pending"}
    BY DEF BookOK
  <2>2. CASE o.status = "pending"
    BY <1>1, <2>1, <2>2
  <2>3. CASE o.status # "pending"
    BY <1>1, <2>1, <2>3
  <2> QED
    BY <2>2, <2>3
<1>6. ASSUME NEW r \in DOMAIN v.seats, NEW e \in Edges
      PROVE  w.seats[r][e] + Held(w.book, r, e) = SeatCount
  <2>1. /\ Held(v.book, r, e) \in Int
        /\ Held(w.book, r, e) = Held(v.book, r, e) + Weight(o, r, e)
             - (IF id \in DOMAIN v.book THEN Weight(v.book[id], r, e) ELSE 0)
    BY <1>2, HeldAfterPut
  <2>2. v.seats[r][e] + Held(v.book, r, e) = SeatCount
    BY DEF BookOK
  <2>3. /\ v.seats[r][e] \in Int /\ w.seats[r][e] \in Int
    BY DEF BookOK
  <2>4. Weight(o, r, e) \in Int /\ (id \in DOMAIN v.book => Weight(v.book[id], r, e) \in Int)
    BY <1>2 DEF Weight
  <2> QED
    BY <2>1, <2>2, <2>3, <2>4
<1> QED
  BY <1>3, <1>4, <1>5, <1>6 DEF BookOK

-----------------------------------------------------------------------------
(* The trains file: as for the catalog alone, the ids in use and the free  *)
(* ones stay 1 to n.                                                       *)

LEMMA NewIdIsNew ==
  ASSUME FileOK
  PROVE  /\ TrainPart!NewId \in Nat \ {0}
         /\ TrainPart!NewId \notin DOMAIN trains
         /\ freeTrains = <<>> => \E n \in Nat : DOMAIN trains = 1 .. n /\ TrainPart!NewId = n + 1
<1>1. PICK n \in Nat : DOMAIN trains \cup {freeTrains[i] : i \in 1 .. Len(freeTrains)} = 1 .. n
  BY DEF FileOK, FreeListOK
<1>2. CASE freeTrains = <<>>
  <2>1. DOMAIN trains = 1 .. n
    <3>1. 1 .. Len(freeTrains) = {}
      BY <1>2
    <3> QED
      BY <1>1, <3>1
  <2>2. Cardinality(DOMAIN trains) = n
    <3>1. Cardinality(1 .. n) = IF 1 > n THEN 0 ELSE n - 1 + 1
      BY FS_Interval
    <3> QED
      BY <2>1, <3>1
  <2>3. TrainPart!NewId = n + 1
    BY <1>2, <2>2 DEF TrainPart!NewId, TrainPart!Cardinality, Cardinality
  <2> QED
    BY <1>2, <2>1, <2>3
<1>3. CASE freeTrains # <<>>
  <2>1. freeTrains \in Seq(Nat) /\ Len(freeTrains) \in Nat \ {0}
    BY <1>3 DEF FileOK, FreeListOK
  <2>2. TrainPart!NewId = freeTrains[1] /\ 1 \in 1 .. Len(freeTrains)
    BY <1>3, <2>1 DEF TrainPart!NewId
  <2>3. freeTrains[1] \in 1 .. n
    BY <1>1, <2>2
  <2>4. freeTrains[1] \notin DOMAIN trains
    BY <2>2 DEF FileOK, FreeListOK
  <2> QED
    BY <1>3, <2>2, <2>3, <2>4
<1> QED
  BY <1>2, <1>3

LEMMA FileSaves ==
  ASSUME FileOK, NEW id, id = TrainPart!NewId, DOMAIN trains' = DOMAIN trains \cup {id},
         freeTrains' = IF freeTrains # <<>> THEN Tail(freeTrains) ELSE freeTrains
  PROVE  FileOK'
<1>1. PICK n \in Nat : DOMAIN trains \cup {freeTrains[i] : i \in 1 .. Len(freeTrains)} = 1 .. n
  BY DEF FileOK, FreeListOK
<1>2. CASE freeTrains = <<>>
  <2>1. PICK m \in Nat : DOMAIN trains = 1 .. m /\ id = m + 1
    BY <1>2, NewIdIsNew
  <2>2. freeTrains' = <<>> /\ 1 .. Len(freeTrains') = {} /\ freeTrains' \in Seq(Nat)
    BY <1>2
  <2>3. DOMAIN trains' = 1 .. m + 1
    BY <2>1
  <2>4. DOMAIN trains' \cup {freeTrains'[i] : i \in 1 .. Len(freeTrains')} = 1 .. m + 1
    BY <2>2, <2>3
  <2>5. PICK ids, g : ids = DOMAIN trains' /\ g = freeTrains'
    OBVIOUS
  <2>6. FreeListOK(ids, g)
    BY <2>2, <2>4, <2>5 DEF FreeListOK
  <2> QED
    BY <2>5, <2>6 DEF FileOK
<1>3. CASE freeTrains # <<>>
  <2>1. PICK f, m : f = freeTrains /\ m = Len(f)
    OBVIOUS
  <2>2. /\ f \in Seq(Nat) /\ m \in Nat \ {0} /\ id = f[1]
        /\ \A i, j \in 1 .. m : f[i] = f[j] => i = j
        /\ \A i \in 1 .. m : f[i] \notin DOMAIN trains
    BY <1>3, <2>1 DEF FileOK, FreeListOK, TrainPart!NewId
  <2>3. PICK g : g = Tail(f)
    OBVIOUS
  <2>4. g \in Seq(Nat) /\ Len(g) = m - 1 /\ \A i \in 1 .. m - 1 : g[i] = f[i + 1]
    BY <2>1, <2>2, <2>3
  <2>5. freeTrains' = g
    BY <1>3, <2>1, <2>3
  <2>6. \A i, j \in 1 .. m - 1 : g[i] = g[j] => i = j
    BY <2>2, <2>4
  <2>7. \A i \in 1 .. m - 1 : g[i] \notin DOMAIN trains /\ g[i] # id
    BY <2>2, <2>4
  <2>8. DOMAIN trains' \cup {g[i] : i \in 1 .. m - 1} = 1 .. n
    <3>1. {f[i] : i \in 1 .. m} = {f[1]} \cup {g[i] : i \in 1 .. m - 1}
      <4>1. ASSUME NEW i \in 1 .. m PROVE f[i] \in {f[1]} \cup {g[j] : j \in 1 .. m - 1}
        <5>1. CASE i = 1
          BY <5>1
        <5>2. CASE i # 1
          <6>1. i - 1 \in 1 .. m - 1 /\ g[i - 1] = f[i]
            BY <2>2, <2>4, <5>2
          <6> QED
            BY <6>1
        <5> QED
          BY <5>1, <5>2
      <4>2. \A i \in 1 .. m - 1 : g[i] = f[i + 1] /\ i + 1 \in 1 .. m
        BY <2>2, <2>4
      <4>3. 1 \in 1 .. m
        BY <2>2
      <4> QED
        BY <4>1, <4>2, <4>3
    <3>2. DOMAIN trains \cup {f[i] : i \in 1 .. m} = 1 .. n
      BY <1>1, <2>1
    <3>3. DOMAIN trains' = DOMAIN trains \cup {f[1]}
      BY <2>2
    <3> QED
      BY <3>1, <3>2, <3>3
  <2>9. PICK ids : ids = DOMAIN trains'
    OBVIOUS
  <2>10. FreeListOK(ids, g)
    <3>1. Len(g) = m - 1 /\ \A i \in 1 .. m - 1 : g[i] \notin ids
      BY <2>2, <2>4, <2>7, <2>9
    <3> QED
      BY <2>4, <2>6, <2>8, <2>9, <3>1 DEF FreeListOK
  <2> QED
    BY <2>5, <2>9, <2>10 DEF FileOK
<1> QED
  BY <1>2, <1>3

LEMMA FileDestroys ==
  ASSUME FileOK, NEW id \in DOMAIN trains, DOMAIN trains' = DOMAIN trains \ {id},
         freeTrains' = <<id>> \o freeTrains
  PROVE  FileOK'
<1>1. PICK n \in Nat : DOMAIN trains \cup {freeTrains[i] : i \in 1 .. Len(freeTrains)} = 1 .. n
  BY DEF FileOK, FreeListOK
<1>2. PICK f, m : f = freeTrains /\ m = Len(f)
  OBVIOUS
<1>3. /\ f \in Seq(Nat) /\ m \in Nat /\ id \in Nat
      /\ \A i, j \in 1 .. m : f[i] = f[j] => i = j
      /\ \A i \in 1 .. m : f[i] \notin DOMAIN trains
  BY <1>1, <1>2 DEF FileOK, FreeListOK
<1>4. PICK g : g = <<id>> \o f
  OBVIOUS
<1>5. g \in Seq(Nat) /\ Len(g) = m + 1 /\ g[1] = id /\ \A i \in 1 .. m : g[i + 1] = f[i]
  BY <1>2, <1>3, <1>4
<1>6. \A i \in 1 .. m + 1 : i = 1 \/ (i - 1 \in 1 .. m /\ g[i] = f[i - 1])
  <2>1. ASSUME NEW i \in 1 .. m + 1, i # 1 PROVE i - 1 \in 1 .. m /\ g[i] = f[i - 1]
    <3>1. i - 1 \in 1 .. m /\ (i - 1) + 1 = i
      BY <1>3, <2>1
    <3> QED
      BY <1>5, <3>1
  <2> QED
    BY <2>1
<1>7. \A i, j \in 1 .. m + 1 : g[i] = g[j] => i = j
  <2> SUFFICES ASSUME NEW i \in 1 .. m + 1, NEW j \in 1 .. m + 1, g[i] = g[j] PROVE i = j
    OBVIOUS
  <2>1. CASE i = 1 \/ j = 1
    BY <1>3, <1>5, <1>6, <2>1
  <2>2. CASE i # 1 /\ j # 1
    <3>1. i - 1 = j - 1
      BY <1>3, <1>6, <2>2
    <3> QED
      BY <3>1
  <2> QED
    BY <2>1, <2>2
<1>8. \A i \in 1 .. m + 1 : g[i] \notin DOMAIN trains'
  BY <1>3, <1>5, <1>6
<1>9. DOMAIN trains' \cup {g[i] : i \in 1 .. m + 1} = 1 .. n
  <2>1. {g[i] : i \in 1 .. m + 1} = {id} \cup {f[i] : i \in 1 .. m}
    <3>1. \A i \in 1 .. m : g[i + 1] = f[i] /\ i + 1 \in 1 .. m + 1
      BY <1>3, <1>5
    <3>2. 1 \in 1 .. m + 1
      BY <1>3
    <3> QED
      BY <1>5, <1>6, <3>1, <3>2
  <2> QED
    BY <1>1, <1>2, <2>1
<1>10. PICK ids : ids = DOMAIN trains'
  OBVIOUS
<1>11. FreeListOK(ids, g)
  BY <1>5, <1>7, <1>8, <1>9, <1>10 DEF FreeListOK
<1>12. freeTrains' = g
  BY <1>2, <1>4
<1> QED
  BY <1>10, <1>11, <1>12 DEF FileOK

LEMMA FileRests ==
  ASSUME FileOK, DOMAIN trains' = DOMAIN trains, freeTrains' = freeTrains
  PROVE  FileOK'
BY DEF FileOK

-----------------------------------------------------------------------------
(* What each entry of the log is written for, as a change of the data from *)
(* v to w.                                                                 *)

IsData(v) ==
  v = [accounts |-> v.accounts, trains |-> v.trains, names |-> v.names, stops |-> v.stops,
       seats |-> v.seats, book |-> v.book, pending |-> v.pending]

Written(v, w, c) == c \in Content /\ v = Undone(w, c) /\ CanUndo(w, c) /\ DataOK(w)

SameCatalog(v, w) == w.trains = v.trains /\ w.names = v.names /\ w.stops = v.stops
SameBook(v, w) == w.book = v.book /\ w.pending = v.pending

LEMMA UndoneByFields ==
  ASSUME NEW v, IsData(v), NEW w, NEW c,
         v.accounts = AccountsBefore(w, c), v.trains = TrainsBefore(w, c),
         v.names = NamesBefore(w, c), v.stops = StopsBefore(w, c), v.seats = SeatsBefore(w, c),
         v.book = BookBefore(w, c), v.pending = PendingBefore(w, c)
  PROVE  v = Undone(w, c)
BY DEF IsData, Undone

LEMMA CatalogRests ==
  ASSUME NEW v, CatalogOK(v), NEW w, SameCatalog(v, w), DOMAIN w.seats = DOMAIN v.seats
  PROVE  CatalogOK(w)
BY DEF CatalogOK, SameCatalog

LEMMA BookRests ==
  ASSUME NEW v, BookOK(v), NEW w, SameBook(v, w), w.seats = v.seats
  PROVE  BookOK(w)
BY DEF BookOK, SameBook

LEMMA AddUserWritten ==
  ASSUME NEW v, IsData(v), DataOK(v), NEW w, NEW id \in Nat, NEW u, NEW c,
         c = [op |-> "AddUser", id |-> id],
         id \notin DOMAIN v.accounts, IsFun(v.accounts),
         w.accounts = [i \in DOMAIN v.accounts \cup {id} |-> IF i = id THEN u ELSE v.accounts[i]],
         SameCatalog(v, w), SameBook(v, w), w.seats = v.seats
  PROVE  Written(v, w, c)
<1>1. c \in Content /\ c.op = "AddUser" /\ c.id = id
  BY DEF Content
<1>2. v.accounts = AccountsBefore(w, c)
  <2>1. DOMAIN w.accounts \ {id} = DOMAIN v.accounts
    OBVIOUS
  <2>2. [i \in DOMAIN w.accounts \ {id} |-> w.accounts[i]] = [i \in DOMAIN v.accounts |-> v.accounts[i]]
    BY <2>1
  <2> QED
    BY <1>1, <2>2 DEF AccountsBefore, IsFun
<1>3. /\ v.trains = TrainsBefore(w, c) /\ v.names = NamesBefore(w, c) /\ v.stops = StopsBefore(w, c)
      /\ v.seats = SeatsBefore(w, c) /\ v.book = BookBefore(w, c) /\ v.pending = PendingBefore(w, c)
  BY <1>1 DEF SameCatalog, SameBook, TrainsBefore, NamesBefore, StopsBefore, SeatsBefore,
              BookBefore, PendingBefore
<1>4. CanUndo(w, c)
  BY <1>1 DEF CanUndo
<1>5. DataOK(w)
  BY CatalogRests, BookRests DEF DataOK
<1>6. v = Undone(w, c)
  BY <1>2, <1>3, UndoneByFields
<1> QED
  BY <1>1, <1>4, <1>5, <1>6 DEF Written

LEMMA ModifyProfileWritten ==
  ASSUME NEW v, IsData(v), DataOK(v), NEW w, NEW id \in Nat, NEW u \in User, NEW p \in Levels, NEW c,
         c = [op |-> "ModifyProfile", id |-> id, password |-> {}, privilege |-> {u.privilege}],
         id \in DOMAIN v.accounts, v.accounts[id] = u,
         IsFun(v.accounts),
         w.accounts = [i \in DOMAIN v.accounts |->
                         IF i = id THEN [u EXCEPT !.privilege = p] ELSE v.accounts[i]],
         SameCatalog(v, w), SameBook(v, w), w.seats = v.seats
  PROVE  Written(v, w, c)
<1>1. /\ c.op = "ModifyProfile" /\ c.id = id /\ c.privilege = {u.privilege}
      /\ u.privilege \in Levels
  BY DEF User
<1>2. c \in Content
  BY <1>1 DEF Content
<1>3. v.accounts = AccountsBefore(w, c)
  <2>1. (CHOOSE q \in c.privilege : TRUE) = u.privilege
    BY <1>1
  <2>2. [[u EXCEPT !.privilege = p] EXCEPT !.privilege = u.privilege] = u
    BY DEF User
  <2>3. AccountsBefore(w, c) = [w.accounts EXCEPT ![id].privilege = u.privilege]
    BY <1>1, <2>1 DEF AccountsBefore
  <2>4. w.accounts[id] = [u EXCEPT !.privilege = p] /\ DOMAIN w.accounts = DOMAIN v.accounts
    OBVIOUS
  <2>5. [w.accounts EXCEPT ![id].privilege = u.privilege]
          = [i \in DOMAIN v.accounts |-> IF i = id THEN u ELSE w.accounts[i]]
    <3>1. [w.accounts EXCEPT ![id].privilege = u.privilege]
            = [w.accounts EXCEPT ![id] = [[u EXCEPT !.privilege = p] EXCEPT !.privilege = u.privilege]]
      BY <2>4
    <3>2. [w.accounts EXCEPT ![id] = u] = [i \in DOMAIN v.accounts |-> IF i = id THEN u ELSE w.accounts[i]]
      BY <2>4
    <3> QED
      BY <2>2, <3>1, <3>2
  <2>6. [i \in DOMAIN v.accounts |-> IF i = id THEN u ELSE w.accounts[i]]
          = [i \in DOMAIN v.accounts |-> v.accounts[i]]
    OBVIOUS
  <2> QED
    BY <2>3, <2>5, <2>6 DEF IsFun
<1>4. /\ v.trains = TrainsBefore(w, c) /\ v.names = NamesBefore(w, c) /\ v.stops = StopsBefore(w, c)
      /\ v.seats = SeatsBefore(w, c) /\ v.book = BookBefore(w, c) /\ v.pending = PendingBefore(w, c)
  BY <1>1 DEF SameCatalog, SameBook, TrainsBefore, NamesBefore, StopsBefore, SeatsBefore,
              BookBefore, PendingBefore
<1>5. CanUndo(w, c)
  BY <1>1 DEF CanUndo
<1>6. DataOK(w)
  BY CatalogRests, BookRests DEF DataOK
<1>7. v = Undone(w, c)
  BY <1>3, <1>4, UndoneByFields
<1> QED
  BY <1>2, <1>5, <1>6, <1>7 DEF Written

LEMMA AddTrainWritten ==
  ASSUME NEW v, IsData(v), DataOK(v), NEW w, NEW id \in Nat \ {0}, id <= MaxTrains,
         NEW name \in TrainNames, NEW line \in Lines, NEW train, NEW c,
         train = [name |-> name, line |-> line, released |-> FALSE, deleted |-> FALSE],
         c = [op |-> "AddTrain", id |-> id],
         id \notin DOMAIN v.trains,
         w.trains = [i \in DOMAIN v.trains \cup {id} |-> IF i = id THEN train ELSE v.trains[i]],
         w.names = v.names \cup {<<name, id>>}, w.stops = v.stops, w.seats = v.seats,
         w.accounts = v.accounts, SameBook(v, w)
  PROVE  Written(v, w, c)
<1>1. c \in Content /\ c.op = "AddTrain" /\ c.id = id
  BY DEF Content
<1>2. /\ train \in Train /\ train.name = name /\ ~ train.deleted
      /\ DOMAIN w.trains = DOMAIN v.trains \cup {id} /\ w.trains[id] = train
      /\ \A i \in DOMAIN v.trains : w.trains[i] = v.trains[i]
      /\ v.trains \in [DOMAIN v.trains -> Train]
  BY DEF Train, DataOK, CatalogOK
<1>3. v.trains = TrainsBefore(w, c)
  <2>1. DOMAIN w.trains \ {id} = DOMAIN v.trains
    BY <1>2
  <2>2. TrainsBefore(w, c) = [i \in DOMAIN v.trains |-> v.trains[i]]
    BY <1>1, <1>2, <2>1 DEF TrainsBefore
  <2> QED
    BY <1>2, <2>2
<1>4. v.names = NamesBefore(w, c)
  <2>1. v.names = {<<v.trains[i].name, i>> : i \in {j \in DOMAIN v.trains : ~ v.trains[j].deleted}}
    BY DEF DataOK, CatalogOK
  <2>2. <<name, id>> \notin v.names
    BY <2>1
  <2>3. NamesBefore(w, c) = w.names \ {<<name, id>>}
    BY <1>1, <1>2 DEF NamesBefore
  <2> QED
    BY <2>2, <2>3
<1>5. /\ v.accounts = AccountsBefore(w, c) /\ v.stops = StopsBefore(w, c)
      /\ v.seats = SeatsBefore(w, c) /\ v.book = BookBefore(w, c) /\ v.pending = PendingBefore(w, c)
  BY <1>1 DEF SameBook, AccountsBefore, StopsBefore, SeatsBefore, BookBefore, PendingBefore
<1>6. CanUndo(w, c)
  BY <1>1, <1>2 DEF CanUndo
<1>7. CatalogOK(w)
  <2>1. /\ DOMAIN w.trains \subseteq 1 .. MaxTrains
        /\ w.trains \in [DOMAIN w.trains -> Train]
    <3>1. id \in 1 .. MaxTrains /\ DOMAIN v.trains \subseteq 1 .. MaxTrains
      BY SystemAssumption DEF DataOK, CatalogOK
    <3> QED
      BY <1>2, <3>1
  <2>2. \A i \in DOMAIN w.trains : ~ (w.trains[i].released /\ w.trains[i].deleted)
    <3>1. \A i \in DOMAIN v.trains : ~ (v.trains[i].released /\ v.trains[i].deleted)
      BY Zenon DEF DataOK, CatalogOK
    <3> QED
      BY <1>2, <3>1
  <2>3. w.names = {<<w.trains[i].name, i>> : i \in {j \in DOMAIN w.trains : ~ w.trains[j].deleted}}
    <3>1. v.names = {<<v.trains[i].name, i>> : i \in {j \in DOMAIN v.trains : ~ v.trains[j].deleted}}
      BY DEF DataOK, CatalogOK
    <3>2. {j \in DOMAIN w.trains : ~ w.trains[j].deleted}
            = {j \in DOMAIN v.trains : ~ v.trains[j].deleted} \cup {id}
      BY <1>2
    <3> QED
      BY <1>2, <3>1, <3>2
  <2>4. /\ \A s \in w.stops : s[2] \in DOMAIN w.trains /\ w.trains[s[2]].released
        /\ \A r \in DOMAIN w.seats : r[1] \in DOMAIN w.trains /\ w.trains[r[1]].released
    <3>1. /\ \A s \in v.stops : s[2] \in DOMAIN v.trains /\ v.trains[s[2]].released
          /\ \A r \in DOMAIN v.seats : r[1] \in DOMAIN v.trains /\ v.trains[r[1]].released
      BY Zenon DEF DataOK, CatalogOK
    <3> QED
      BY <1>2, <3>1
  <2> QED
    BY <2>1, <2>2, <2>3, <2>4, Zenon DEF CatalogOK
<1>8. DataOK(w)
  BY <1>7, BookRests DEF DataOK
<1>9. v = Undone(w, c)
  BY <1>3, <1>4, <1>5, UndoneByFields
<1> QED
  BY <1>1, <1>6, <1>8, <1>9 DEF Written

LEMMA DeleteTrainWritten ==
  ASSUME NEW v, IsData(v), DataOK(v), NEW w, NEW id \in Nat, id \in DOMAIN v.trains,
         NEW name, NEW train, NEW c,
         train = [v.trains[id] EXCEPT !.deleted = TRUE],
         c = [op |-> "DeleteTrain", id |-> id],
         <<name, id>> \in v.names, ~ v.trains[id].released,
         w.trains = [i \in DOMAIN v.trains \cup {id} |-> IF i = id THEN train ELSE v.trains[i]],
         w.names = v.names \ {<<name, id>>}, w.stops = v.stops, w.seats = v.seats,
         w.accounts = v.accounts, SameBook(v, w)
  PROVE  Written(v, w, c)
<1>1. c \in Content /\ c.op = "DeleteTrain" /\ c.id = id
  BY DEF Content
<1>2. /\ v.trains \in [DOMAIN v.trains -> Train] /\ v.trains[id] \in Train
      /\ v.names = {<<v.trains[i].name, i>> : i \in {j \in DOMAIN v.trains : ~ v.trains[j].deleted}}
  BY DEF DataOK, CatalogOK
<1>3. name = v.trains[id].name /\ ~ v.trains[id].deleted
  BY <1>2
<1>4. /\ train \in Train /\ train.name = name /\ train.deleted /\ ~ train.released
      /\ [train EXCEPT !.deleted = FALSE] = v.trains[id]
  <2>1. PICK t \in Train : t = v.trains[id]
    BY <1>2
  <2>2. t.deleted = FALSE
    BY <1>3, <2>1 DEF Train
  <2>3. /\ train \in Train /\ train.name = name /\ train.deleted /\ train.released = t.released
        /\ [train EXCEPT !.deleted = FALSE] = t
    BY <1>3, <2>1, <2>2 DEF Train
  <2> QED
    BY <2>1, <2>3
<1>5. /\ DOMAIN w.trains = DOMAIN v.trains /\ w.trains[id] = train
      /\ \A i \in DOMAIN v.trains : i # id => w.trains[i] = v.trains[i]
  OBVIOUS
<1>6. v.trains = TrainsBefore(w, c)
  <2>1. TrainsBefore(w, c) = [w.trains EXCEPT ![id].deleted = FALSE]
    BY <1>1 DEF TrainsBefore
  <2>2. [w.trains EXCEPT ![id].deleted = FALSE] = [w.trains EXCEPT ![id] = [train EXCEPT !.deleted = FALSE]]
    BY <1>5
  <2>3. [w.trains EXCEPT ![id] = v.trains[id]] = [i \in DOMAIN v.trains |-> v.trains[i]]
    BY <1>5
  <2> QED
    BY <1>2, <1>4, <2>1, <2>2, <2>3
<1>7. v.names = NamesBefore(w, c)
  <2>1. NamesBefore(w, c) = w.names \cup {<<name, id>>}
    BY <1>1, <1>4, <1>5 DEF NamesBefore
  <2> QED
    BY <2>1
<1>8. /\ v.accounts = AccountsBefore(w, c) /\ v.stops = StopsBefore(w, c)
      /\ v.seats = SeatsBefore(w, c) /\ v.book = BookBefore(w, c) /\ v.pending = PendingBefore(w, c)
  BY <1>1 DEF SameBook, AccountsBefore, StopsBefore, SeatsBefore, BookBefore, PendingBefore
<1>9. CanUndo(w, c)
  BY <1>1, <1>5 DEF CanUndo
<1>10. CatalogOK(w)
  <2>1. /\ DOMAIN w.trains \subseteq 1 .. MaxTrains
        /\ w.trains \in [DOMAIN w.trains -> Train]
    <3>1. DOMAIN v.trains \subseteq 1 .. MaxTrains
      BY DEF DataOK, CatalogOK
    <3> QED
      BY <1>2, <1>4, <1>5, <3>1
  <2>2. \A i \in DOMAIN w.trains : ~ (w.trains[i].released /\ w.trains[i].deleted)
    <3>1. \A i \in DOMAIN v.trains : ~ (v.trains[i].released /\ v.trains[i].deleted)
      BY Zenon DEF DataOK, CatalogOK
    <3> QED
      BY <1>4, <1>5, <3>1
  <2>3. w.names = {<<w.trains[i].name, i>> : i \in {j \in DOMAIN w.trains : ~ w.trains[j].deleted}}
    <3>1. {j \in DOMAIN w.trains : ~ w.trains[j].deleted}
            = {j \in DOMAIN v.trains : ~ v.trains[j].deleted} \ {id}
      BY <1>4, <1>5
    <3> QED
      BY <1>2, <1>5, <3>1
  <2>4. /\ \A s \in w.stops : s[2] \in DOMAIN w.trains /\ w.trains[s[2]].released
        /\ \A r \in DOMAIN w.seats : r[1] \in DOMAIN w.trains /\ w.trains[r[1]].released
    <3>1. /\ \A s \in v.stops : s[2] \in DOMAIN v.trains /\ v.trains[s[2]].released
          /\ \A r \in DOMAIN v.seats : r[1] \in DOMAIN v.trains /\ v.trains[r[1]].released
      BY Zenon DEF DataOK, CatalogOK
    <3> QED
      BY <1>5, <3>1
  <2> QED
    BY <2>1, <2>2, <2>3, <2>4, Zenon DEF CatalogOK
<1>11. DataOK(w)
  BY <1>10, BookRests DEF DataOK
<1>12. v = Undone(w, c)
  BY <1>6, <1>7, <1>8, UndoneByFields
<1> QED
  BY <1>1, <1>9, <1>11, <1>12 DEF Written

(* A ride that nobody has an order for has all its seats free.             *)
LEMMA NothingHeld ==
  ASSUME NEW book, NEW r, NEW e, \A i \in DOMAIN book : book[i].ride # r
  PROVE  Held(book, r, e) = 0
<1>1. Holders(book, r, e) = {}
  BY DEF Holders
<1> QED
  BY <1>1, SeatsOfEmpty DEF Held

LEMMA ReleaseTrainWritten ==
  ASSUME NEW v, IsData(v), DataOK(v), NEW w, NEW id \in Nat, id \in DOMAIN v.trains,
         NEW name, NEW train, NEW free, NEW c,
         train = [v.trains[id] EXCEPT !.released = TRUE],
         c = [op |-> "ReleaseTrain", id |-> id],
         <<name, id>> \in v.names, ~ v.trains[id].released,
         free = [e \in Edges |-> SeatCount],
         w.trains = [i \in DOMAIN v.trains \cup {id} |-> IF i = id THEN train ELSE v.trains[i]],
         w.stops = v.stops \cup {<<station, id>> : station \in TrainPart!ToSet(v.trains[id].line.stops)},
         IsFun(v.seats),
         w.seats = [r \in DOMAIN v.seats \cup RidesAt(v, id) |->
                      IF r \in RidesAt(v, id) THEN free ELSE v.seats[r]],
         w.names = v.names, w.accounts = v.accounts, SameBook(v, w)
  PROVE  Written(v, w, c)
<1>1. c \in Content /\ c.op = "ReleaseTrain" /\ c.id = id
  BY DEF Content
<1>2. /\ v.trains \in [DOMAIN v.trains -> Train] /\ v.trains[id] \in Train
      /\ v.names = {<<v.trains[i].name, i>> : i \in {j \in DOMAIN v.trains : ~ v.trains[j].deleted}}
      /\ DOMAIN v.trains \subseteq 1 .. MaxTrains
  BY DEF DataOK, CatalogOK
<1>3. name = v.trains[id].name /\ ~ v.trains[id].deleted
  BY <1>2
<1>4. /\ train \in Train /\ train.name = name /\ ~ train.deleted /\ train.released
      /\ train.line = v.trains[id].line /\ train.line \in Lines
      /\ [train EXCEPT !.released = FALSE] = v.trains[id]
  <2>1. PICK t \in Train : t = v.trains[id]
    BY <1>2
  <2>2. t.released = FALSE
    BY <2>1 DEF Train
  <2>3. /\ train \in Train /\ train.name = name /\ train.released /\ train.deleted = t.deleted
        /\ train.line = t.line /\ t.line \in Lines
        /\ [train EXCEPT !.released = FALSE] = t
    BY <1>3, <2>1, <2>2 DEF Train
  <2> QED
    BY <1>3, <2>1, <2>3
<1>5. /\ DOMAIN w.trains = DOMAIN v.trains /\ w.trains[id] = train
      /\ \A i \in DOMAIN v.trains : i # id => w.trains[i] = v.trains[i]
  OBVIOUS
<1>6. /\ \A s \in v.stops : s[2] \in DOMAIN v.trains /\ v.trains[s[2]].released
      /\ \A r \in DOMAIN v.seats : r[1] \in DOMAIN v.trains /\ v.trains[r[1]].released
  BY Zenon DEF DataOK, CatalogOK
<1>7. /\ \A r \in RidesAt(v, id) : r[1] = id /\ r \notin DOMAIN v.seats
      /\ RidesAt(w, id) = RidesAt(v, id)
  <2>1. \A r \in RidesAt(v, id) : r[1] = id
    BY DEF RidesAt
  <2>2. RidesAt(w, id) = RidesAt(v, id)
    BY <1>4, <1>5 DEF RidesAt
  <2> QED
    BY <1>6, <2>1, <2>2
<1>8. /\ DOMAIN w.seats = DOMAIN v.seats \cup RidesAt(v, id)
      /\ \A r \in DOMAIN v.seats : w.seats[r] = v.seats[r]
      /\ \A r \in RidesAt(v, id) : w.seats[r] = free
  BY <1>7
<1>9. v.trains = TrainsBefore(w, c)
  <2>1. TrainsBefore(w, c) = [w.trains EXCEPT ![id].released = FALSE]
    BY <1>1 DEF TrainsBefore
  <2>2. [w.trains EXCEPT ![id].released = FALSE] = [w.trains EXCEPT ![id] = [train EXCEPT !.released = FALSE]]
    BY <1>5
  <2>3. [w.trains EXCEPT ![id] = v.trains[id]] = [i \in DOMAIN v.trains |-> v.trains[i]]
    BY <1>5
  <2>4. [w.trains EXCEPT ![id] = [train EXCEPT !.released = FALSE]] = [w.trains EXCEPT ![id] = v.trains[id]]
    BY <1>4, Zenon
  <2>5. v.trains = [i \in DOMAIN v.trains |-> v.trains[i]]
    BY <1>2
  <2> QED
    BY <2>1, <2>2, <2>3, <2>4, <2>5, Zenon
<1>10. v.stops = StopsBefore(w, c)
  <2>1. PICK S : S = {<<station, id>> : station \in TrainPart!ToSet(v.trains[id].line.stops)}
    OBVIOUS
  <2>2. StopsBefore(w, c) = w.stops \ S
    <3>1. w.trains[id].line = v.trains[id].line
      BY <1>4, <1>5
    <3>2. StopsBefore(w, c)
            = w.stops \ {<<station, id>> : station \in TrainPart!ToSet(w.trains[id].line.stops)}
      BY <1>1, Zenon DEF StopsBefore
    <3> QED
      BY <2>1, <3>1, <3>2, Zenon
  <2>3. \A s \in S : s[2] = id
    BY <2>1
  <2>4. \A s \in S : s \notin v.stops
    BY <1>6, <2>3
  <2>5. w.stops = v.stops \cup S
    BY <2>1
  <2> QED
    BY <2>2, <2>4, <2>5
<1>11. v.seats = SeatsBefore(w, c)
  <2>1. SeatsBefore(w, c) = [r \in DOMAIN w.seats \ RidesAt(w, id) |-> w.seats[r]]
    BY <1>1 DEF SeatsBefore
  <2>2. DOMAIN w.seats \ RidesAt(w, id) = DOMAIN v.seats
    BY <1>7, <1>8
  <2>3. [r \in DOMAIN w.seats \ RidesAt(w, id) |-> w.seats[r]] = [r \in DOMAIN v.seats |-> v.seats[r]]
    BY <1>8, <2>2
  <2> QED
    BY <2>1, <2>3 DEF IsFun
<1>12. /\ v.accounts = AccountsBefore(w, c) /\ v.names = NamesBefore(w, c)
       /\ v.book = BookBefore(w, c) /\ v.pending = PendingBefore(w, c)
  BY <1>1 DEF SameBook, AccountsBefore, NamesBefore, BookBefore, PendingBefore
<1>13. CanUndo(w, c)
  BY <1>1, <1>5 DEF CanUndo
<1>14. CatalogOK(w)
  <2>1. /\ DOMAIN w.trains \subseteq 1 .. MaxTrains
        /\ w.trains \in [DOMAIN w.trains -> Train]
    BY <1>2, <1>4, <1>5
  <2>2. \A i \in DOMAIN w.trains : ~ (w.trains[i].released /\ w.trains[i].deleted)
    <3>1. \A i \in DOMAIN v.trains : ~ (v.trains[i].released /\ v.trains[i].deleted)
      BY Zenon DEF DataOK, CatalogOK
    <3> QED
      BY <1>4, <1>5, <3>1
  <2>3. w.names = {<<w.trains[i].name, i>> : i \in {j \in DOMAIN w.trains : ~ w.trains[j].deleted}}
    <3>1. {j \in DOMAIN w.trains : ~ w.trains[j].deleted} = {j \in DOMAIN v.trains : ~ v.trains[j].deleted}
      BY <1>3, <1>4, <1>5
    <3> QED
      BY <1>2, <1>3, <1>4, <1>5, <3>1
  <2>4. \A s \in w.stops : s[2] \in DOMAIN w.trains /\ w.trains[s[2]].released
    <3>1. ASSUME NEW s \in w.stops PROVE s \in v.stops \/ s[2] = id
      OBVIOUS
    <3> QED
      BY <1>4, <1>5, <1>6, <3>1
  <2>5. \A r \in DOMAIN w.seats : r[1] \in DOMAIN w.trains /\ w.trains[r[1]].released
    BY <1>4, <1>5, <1>6, <1>7, <1>8
  <2> QED
    BY <2>1, <2>2, <2>3, <2>4, <2>5, Zenon DEF CatalogOK
<1>15. BookOK(w)
  <2> BookOK(v)
    BY DEF DataOK
  <2>1. /\ IsFiniteSet(DOMAIN w.book)
        /\ \A i \in DOMAIN w.book : w.book[i] \in Order /\ HasTrip(w.book[i])
        /\ \A i \in DOMAIN w.book : w.book[i].ride \in DOMAIN w.seats
        /\ w.pending = {i \in DOMAIN w.book : w.book[i].status = "pending"}
    BY <1>8 DEF BookOK, SameBook
  <2>2. DOMAIN w.seats \subseteq Rides
    <3>1. RidesAt(v, id) \subseteq Rides
      <4>1. id \in 1 .. MaxTrains /\ v.trains[id].line \in Lines
        BY <1>2, <1>4
      <4> QED
        BY <4>1 DEF RidesAt, Rides
    <3> QED
      BY <1>8, <3>1 DEF BookOK
  <2>3. /\ free \in [Edges -> Nat] /\ \A e \in Edges : free[e] = SeatCount
    BY SystemAssumption
  <2>4. \A r \in DOMAIN w.seats : w.seats[r] \in [Edges -> Nat]
    BY <1>8, <2>3 DEF BookOK
  <2>5. ASSUME NEW r \in DOMAIN w.seats, NEW e \in Edges
        PROVE  w.seats[r][e] + Held(w.book, r, e) = SeatCount
    <3>1. CASE r \in DOMAIN v.seats
      BY <1>8, <3>1 DEF BookOK, SameBook
    <3>2. CASE r \in RidesAt(v, id)
      <4>1. \A i \in DOMAIN w.book : w.book[i].ride # r
        BY <1>7, <3>2 DEF BookOK, SameBook
      <4>2. Held(w.book, r, e) = 0
        BY <4>1, NothingHeld
      <4> QED
        BY <1>8, <2>3, <3>2, <4>2, SystemAssumption
    <3> QED
      BY <1>8, <3>1, <3>2
  <2> QED
    BY <2>1, <2>2, <2>4, <2>5 DEF BookOK
<1>16. DataOK(w)
  BY <1>14, <1>15 DEF DataOK
<1>17. v = Undone(w, c)
  BY <1>9, <1>10, <1>11, <1>12, UndoneByFields
<1> QED
  BY <1>1, <1>13, <1>16, <1>17 DEF Written

(* Taking seats that are free, or giving seats back, leaves no edge of any *)
(* ride with less than no seats.                                           *)
LEMMA TakeFacts ==
  ASSUME NEW v, BookOK(v), IsFun(v.seats),
         NEW o \in Order, HasTrip(o), o.ride \in DOMAIN v.seats,
         TicketsAvailable(v.seats[o.ride], o.from, o.to) >= o.seats,
         NEW w, w = Shift(v.seats, o, -o.seats)
  PROVE  /\ DOMAIN w = DOMAIN v.seats
         /\ \A r \in DOMAIN v.seats : w[r] \in [Edges -> Nat]
         /\ \A r \in DOMAIN v.seats : \A e \in Edges :
              w[r][e] = v.seats[r][e] - (IF Uses(o, r, e) THEN o.seats ELSE 0)
         /\ Shift(w, o, o.seats) = v.seats
<1>1. o.seats \in Nat \ {0} /\ -o.seats \in Int /\ o.seats = -(-o.seats)
  BY DEF Order
<1>2. \A r \in DOMAIN v.seats : v.seats[r] \in [Edges -> Nat]
  BY DEF BookOK
<1>3. /\ DOMAIN w = DOMAIN v.seats
      /\ \A r \in DOMAIN v.seats : w[r] = [e \in Edges |-> w[r][e]]
      /\ \A r \in DOMAIN v.seats : \A e \in Edges :
           w[r][e] = v.seats[r][e] + (IF Uses(o, r, e) THEN -o.seats ELSE 0)
      /\ Shift(w, o, o.seats) = v.seats
  BY <1>1, <1>2, ShiftFacts
<1>4. \A e \in Edges : e \in Trip(o.from, o.to) => v.seats[o.ride][e] >= o.seats
  BY <1>2, FitsIff, SystemAssumption
<1>5. ASSUME NEW r \in DOMAIN v.seats, NEW e \in Edges
      PROVE  /\ w[r][e] = v.seats[r][e] - (IF Uses(o, r, e) THEN o.seats ELSE 0)
             /\ w[r][e] \in Nat
  <2>1. v.seats[r][e] \in Nat
    BY <1>2
  <2>2. Uses(o, r, e) => v.seats[r][e] >= o.seats
    BY <1>4 DEF Uses
  <2>3. w[r][e] = v.seats[r][e] + (IF Uses(o, r, e) THEN -o.seats ELSE 0)
    BY <1>3
  <2> QED
    BY <1>1, <2>1, <2>2, <2>3
<1> QED
  BY <1>3, <1>5

LEMMA GiveBackFacts ==
  ASSUME NEW v, BookOK(v), IsFun(v.seats),
         NEW o \in Order, o.ride \in DOMAIN v.seats, NEW w, w = Shift(v.seats, o, o.seats)
  PROVE  /\ DOMAIN w = DOMAIN v.seats
         /\ \A r \in DOMAIN v.seats : w[r] \in [Edges -> Nat]
         /\ \A r \in DOMAIN v.seats : \A e \in Edges :
              w[r][e] = v.seats[r][e] + (IF Uses(o, r, e) THEN o.seats ELSE 0)
         /\ Shift(w, o, -o.seats) = v.seats
<1>1. o.seats \in Nat \ {0} /\ o.seats \in Int
  BY DEF Order
<1> DEFINE n == o.seats
           m == -o.seats
<1>0. n \in Int /\ m = -n
  BY <1>1
<1> HIDE DEF n, m
<1>2. \A r \in DOMAIN v.seats : v.seats[r] \in [Edges -> Nat]
  BY DEF BookOK
<1>3. /\ DOMAIN w = DOMAIN v.seats
      /\ \A r \in DOMAIN v.seats : w[r] = [e \in Edges |-> w[r][e]]
      /\ \A r \in DOMAIN v.seats : \A e \in Edges :
           w[r][e] = v.seats[r][e] + (IF Uses(o, r, e) THEN o.seats ELSE 0)
      /\ Shift(w, o, -o.seats) = v.seats
  <2>1. w = Shift(v.seats, o, n)
    BY DEF n
  <2>2. /\ DOMAIN w = DOMAIN v.seats
        /\ \A r \in DOMAIN v.seats : w[r] = [e \in Edges |-> w[r][e]]
        /\ \A r \in DOMAIN v.seats : \A e \in Edges :
             w[r][e] = v.seats[r][e] + (IF Uses(o, r, e) THEN n ELSE 0)
        /\ Shift(w, o, m) = v.seats
    BY <1>0, <1>2, <2>1, ShiftFacts
  <2> QED
    BY <2>2 DEF n, m
<1>4. ASSUME NEW r \in DOMAIN v.seats, NEW e \in Edges PROVE w[r][e] \in Nat
  BY <1>1, <1>2, <1>3
<1> QED
  BY <1>3, <1>4

(* The shift of an order does not depend on its status.                    *)
LEMMA ShiftSame ==
  ASSUME NEW seats, NEW o, NEW x, NEW n, x.ride = o.ride, x.from = o.from, x.to = o.to
  PROVE  Shift(seats, x, n) = Shift(seats, o, n)
BY DEF Shift

LEMMA PurchaseBefore ==
  ASSUME NEW v, NEW w, NEW id, NEW o, NEW c, c.op = "BuyTicket", c.id = id,
         IsFun(v.book), id \notin DOMAIN v.book,
         w.book = Put(v.book, id, o)
  PROVE  v.book = BookBefore(w, c)
<1>1. DOMAIN w.book \ {id} = DOMAIN v.book
  BY DEF Put
<1>2. \A i \in DOMAIN v.book : w.book[i] = v.book[i]
  BY DEF Put
<1>3. BookBefore(w, c) = [i \in DOMAIN w.book \ {id} |-> w.book[i]]
  BY DEF BookBefore
<1>4. [i \in DOMAIN w.book \ {id} |-> w.book[i]] = [i \in DOMAIN v.book |-> v.book[i]]
  BY <1>1, <1>2
<1> QED
  BY <1>3, <1>4 DEF IsFun

LEMMA StatusBefore ==
  ASSUME NEW book, IsFun(book), NEW id \in DOMAIN book, NEW o,
         NEW s, WithStatus(o, s) = book[id]
  PROVE  StatusIn(Put(book, id, o), id, s) = book
<1>1. PICK other : other = Put(book, id, o)
  OBVIOUS
<1>2. /\ DOMAIN other = DOMAIN book /\ other[id] = o
      /\ \A i \in DOMAIN book : i # id => other[i] = book[i]
  BY <1>1 DEF Put
<1>3. StatusIn(other, id, s) = [other EXCEPT ![id] = WithStatus(o, s)]
  BY <1>2 DEF StatusIn, WithStatus
<1>4. [other EXCEPT ![id] = book[id]] = [i \in DOMAIN book |-> book[i]]
  BY <1>2
<1> QED
  BY <1>1, <1>3, <1>4 DEF IsFun

LEMMA PurchaseWritten ==
  ASSUME NEW v, IsData(v), DataOK(v), NEW w, NEW id \in Nat, NEW o \in Order, HasTrip(o), NEW c,
         c = [op |-> "BuyTicket", id |-> id], o.ride \in DOMAIN v.seats,
         IsFun(v.seats),
         IsFun(v.book), id \notin DOMAIN v.book,
         w.book = Put(v.book, id, o), SameCatalog(v, w), w.accounts = v.accounts,
         \/ /\ o.status = "success"
            /\ TicketsAvailable(v.seats[o.ride], o.from, o.to) >= o.seats
            /\ w.seats = Shift(v.seats, o, -o.seats)
            /\ w.pending = v.pending
         \/ /\ o.status = "pending"
            /\ w.seats = v.seats
            /\ w.pending = v.pending \cup {id}
  PROVE  Written(v, w, c)
<1> BookOK(v) /\ CatalogOK(v)
  BY DEF DataOK
<1>1. c \in Content /\ c.op = "BuyTicket" /\ c.id = id
  BY DEF Content
<1>2. id \in DOMAIN w.book /\ w.book[id] = o /\ id \notin v.pending
  BY DEF Put, BookOK
<1>3. ASSUME o.status = "success"
      PROVE  /\ BookOK(w) /\ DOMAIN w.seats = DOMAIN v.seats
             /\ v.seats = SeatsBefore(w, c) /\ v.pending = PendingBefore(w, c)
  <2>1. /\ TicketsAvailable(v.seats[o.ride], o.from, o.to) >= o.seats
        /\ w.seats = Shift(v.seats, o, -o.seats) /\ w.pending = v.pending
    BY <1>3
  <2>2. /\ DOMAIN w.seats = DOMAIN v.seats
        /\ \A r \in DOMAIN v.seats : w.seats[r] \in [Edges -> Nat]
        /\ \A r \in DOMAIN v.seats : \A e \in Edges :
             w.seats[r][e] = v.seats[r][e] - (IF Uses(o, r, e) THEN o.seats ELSE 0)
        /\ Shift(w.seats, o, o.seats) = v.seats
    BY <2>1, TakeFacts
  <2>3. ASSUME NEW r \in DOMAIN v.seats, NEW e \in Edges
        PROVE  w.seats[r][e] + Weight(o, r, e)
                 = v.seats[r][e] + (IF id \in DOMAIN v.book THEN Weight(v.book[id], r, e) ELSE 0)
    <3>1. v.seats[r][e] \in Int /\ o.seats \in Int
      BY DEF BookOK, Order
    <3> QED
      BY <1>3, <2>2, <3>1 DEF Weight
  <2>4. w.pending = IF o.status = "pending" THEN v.pending \cup {id} ELSE v.pending \ {id}
    BY <1>2, <1>3, <2>1
  <2>5. BookOK(w)
    <3>1. BookChanged(v, w, id, o)
      BY <2>2, <2>3, <2>4 DEF BookChanged
    <3> QED
      BY <3>1, BookChanges
  <2>6. v.seats = SeatsBefore(w, c) /\ v.pending = PendingBefore(w, c)
    BY <1>1, <1>2, <1>3, <2>1, <2>2 DEF SeatsBefore, PendingBefore
  <2> QED
    BY <2>2, <2>5, <2>6
<1>4. ASSUME o.status = "pending"
      PROVE  /\ BookOK(w) /\ DOMAIN w.seats = DOMAIN v.seats
             /\ v.seats = SeatsBefore(w, c) /\ v.pending = PendingBefore(w, c)
  <2>1. w.seats = v.seats /\ w.pending = v.pending \cup {id}
    BY <1>4
  <2>2. \A r \in DOMAIN v.seats : w.seats[r] \in [Edges -> Nat]
    BY <2>1 DEF BookOK
  <2>3. ASSUME NEW r \in DOMAIN v.seats, NEW e \in Edges
        PROVE  w.seats[r][e] + Weight(o, r, e)
                 = v.seats[r][e] + (IF id \in DOMAIN v.book THEN Weight(v.book[id], r, e) ELSE 0)
    BY <1>4, <2>1 DEF Weight
  <2>4. w.pending = IF o.status = "pending" THEN v.pending \cup {id} ELSE v.pending \ {id}
    BY <1>4, <2>1
  <2>5. BookOK(w)
    <3>1. BookChanged(v, w, id, o)
      BY <2>1, <2>2, <2>3, <2>4 DEF BookChanged
    <3> QED
      BY <3>1, BookChanges
  <2>6. v.seats = SeatsBefore(w, c) /\ v.pending = PendingBefore(w, c)
    BY <1>1, <1>2, <1>4, <2>1 DEF SeatsBefore, PendingBefore
  <2> QED
    BY <2>1, <2>5, <2>6
<1>5. /\ BookOK(w) /\ DOMAIN w.seats = DOMAIN v.seats
      /\ v.seats = SeatsBefore(w, c) /\ v.pending = PendingBefore(w, c)
  BY <1>3, <1>4
<1>6. v.book = BookBefore(w, c)
  BY <1>1, PurchaseBefore
<1>7. /\ v.accounts = AccountsBefore(w, c) /\ v.trains = TrainsBefore(w, c)
      /\ v.names = NamesBefore(w, c) /\ v.stops = StopsBefore(w, c)
  BY <1>1 DEF SameCatalog, AccountsBefore, TrainsBefore, NamesBefore, StopsBefore
<1>8. CanUndo(w, c)
  BY <1>1, <1>2 DEF CanUndo
<1>9. DataOK(w)
  BY <1>5, CatalogRests DEF DataOK
<1>10. v = Undone(w, c)
  BY <1>5, <1>6, <1>7, UndoneByFields
<1> QED
  BY <1>1, <1>8, <1>9, <1>10 DEF Written

(* An order whose status changes from that of `old' to another one.        *)
StatusChanged(v, w, id, old, s, o) ==
  /\ id \in DOMAIN v.book /\ old = v.book[id]
  /\ s \in Statuses /\ o = WithStatus(old, s)
  /\ w.book = Put(v.book, id, o)
  /\ SameCatalog(v, w)
  /\ IsFun(v.seats) /\ IsFun(v.book)
  /\ \/ /\ old.status = "success" /\ s = "refunded"
        /\ w.seats = Shift(v.seats, old, old.seats)
        /\ w.pending = v.pending
     \/ /\ old.status = "pending" /\ s = "refunded"
        /\ w.seats = v.seats
        /\ w.pending = v.pending \ {id}
     \/ /\ old.status = "pending" /\ s = "success"
        /\ TicketsAvailable(v.seats[old.ride], old.from, old.to) >= old.seats
        /\ w.seats = Shift(v.seats, old, -old.seats)
        /\ w.pending = v.pending \ {id}

StatusUndoes(v, w, id, old, s, o) ==
  /\ DataOK(w)
  /\ w.book[id] = o /\ id \in DOMAIN w.book
  /\ v.book = StatusIn(w.book, id, old.status)
  /\ v.pending = IF old.status = "pending" THEN w.pending \cup {id} ELSE w.pending
  /\ s = "success" => v.seats = Shift(w.seats, o, o.seats)
  /\ old.status = "success" => v.seats = Shift(w.seats, o, -o.seats)
  /\ old.status = "pending" /\ s = "refunded" => v.seats = w.seats

LEMMA StatusWritten ==
  ASSUME NEW v, DataOK(v), NEW w, NEW id, NEW old, NEW s, NEW o,
         StatusChanged(v, w, id, old, s, o)
  PROVE  StatusUndoes(v, w, id, old, s, o)
<1>a. /\ id \in DOMAIN v.book /\ old = v.book[id] /\ s \in Statuses
      /\ w.book = Put(v.book, id, o) /\ SameCatalog(v, w)
      /\ IsFun(v.seats) /\ IsFun(v.book)
  BY DEF StatusChanged
<1>b. \/ /\ old.status = "success" /\ s = "refunded"
         /\ w.seats = Shift(v.seats, old, old.seats)
         /\ w.pending = v.pending
      \/ /\ old.status = "pending" /\ s = "refunded"
         /\ w.seats = v.seats
         /\ w.pending = v.pending \ {id}
      \/ /\ old.status = "pending" /\ s = "success"
         /\ TicketsAvailable(v.seats[old.ride], old.from, old.to) >= old.seats
         /\ w.seats = Shift(v.seats, old, -old.seats)
         /\ w.pending = v.pending \ {id}
  BY DEF StatusChanged
<1> BookOK(v) /\ CatalogOK(v)
  BY DEF DataOK
<1>1. old \in Order /\ HasTrip(old) /\ old.ride \in DOMAIN v.seats
  BY <1>a DEF BookOK
<1>2. /\ o \in Order /\ o.status = s /\ HasTrip(o)
      /\ o.ride = old.ride /\ o.from = old.from /\ o.to = old.to /\ o.seats = old.seats
      /\ WithStatus(o, old.status) = old
      /\ old.seats \in Nat \ {0}
  <2>1. s \in Statuses /\ o = WithStatus(old, s)
    BY DEF StatusChanged
  <2>2. /\ o \in Order /\ o.status = s
        /\ o.ride = old.ride /\ o.from = old.from /\ o.to = old.to /\ o.seats = old.seats
        /\ WithStatus(o, old.status) = old
        /\ old.seats \in Nat \ {0}
    BY <1>1, <2>1, OrderFields
  <2>3. HasTrip(o)
    BY <1>1, <2>2 DEF HasTrip
  <2> QED
    BY <2>2, <2>3
<1>3. /\ w.book[id] = o /\ DOMAIN w.book = DOMAIN v.book
  BY <1>a DEF Put
<1>4. v.book = StatusIn(w.book, id, old.status)
  <2>1. WithStatus(o, old.status) = v.book[id]
    BY <1>a, <1>2
  <2>2. StatusIn(Put(v.book, id, o), id, old.status) = v.book
    BY <1>a, <2>1, StatusBefore
  <2> QED
    BY <1>a, <2>2
<1>5. /\ old.status = "pending" <=> id \in v.pending
      /\ v.pending \subseteq DOMAIN v.book
  BY <1>a DEF BookOK
<1>6. v.pending = IF old.status = "pending" THEN w.pending \cup {id} ELSE w.pending
  BY <1>b, <1>5
<1>7. \A r, e : Uses(o, r, e) <=> Uses(old, r, e)
  BY <1>2 DEF Uses
<1>8. \A r \in DOMAIN v.seats : \A e \in Edges : v.seats[r][e] \in Int
  BY DEF BookOK
<1>9. ASSUME old.status = "success"
      PROVE  BookOK(w) /\ DOMAIN w.seats = DOMAIN v.seats /\ v.seats = Shift(w.seats, o, -o.seats)
  <2>1. s = "refunded" /\ w.seats = Shift(v.seats, old, old.seats) /\ w.pending = v.pending
    BY <1>b, <1>9
  <2>2. /\ DOMAIN w.seats = DOMAIN v.seats
        /\ \A r \in DOMAIN v.seats : w.seats[r] \in [Edges -> Nat]
        /\ \A r \in DOMAIN v.seats : \A e \in Edges :
             w.seats[r][e] = v.seats[r][e] + (IF Uses(old, r, e) THEN old.seats ELSE 0)
        /\ Shift(w.seats, old, -old.seats) = v.seats
    BY <1>a, <1>1, <2>1, GiveBackFacts
  <2>3. ASSUME NEW r \in DOMAIN v.seats, NEW e \in Edges
        PROVE  w.seats[r][e] + Weight(o, r, e) = v.seats[r][e] + Weight(old, r, e)
    BY <1>2, <1>7, <1>8, <1>9, <2>1, <2>2 DEF Weight
  <2>4. BookChanged(v, w, id, o)
    BY <1>a, <1>1, <1>2, <1>5, <1>9, <2>1, <2>2, <2>3 DEF BookChanged
  <2>5. Shift(w.seats, o, -o.seats) = v.seats
    <3>1. Shift(w.seats, o, -old.seats) = Shift(w.seats, old, -old.seats)
      BY <1>2, ShiftSame
    <3> QED
      BY <1>2, <2>2, <3>1
  <2> QED
    BY <2>2, <2>4, <2>5, BookChanges
<1>10. ASSUME old.status = "pending", s = "refunded"
       PROVE  BookOK(w) /\ w.seats = v.seats
  <2>1. w.seats = v.seats /\ w.pending = v.pending \ {id}
    BY <1>b, <1>10
  <2>2. \A r \in DOMAIN v.seats : w.seats[r] \in [Edges -> Nat]
    BY <2>1 DEF BookOK
  <2>3. ASSUME NEW r \in DOMAIN v.seats, NEW e \in Edges
        PROVE  w.seats[r][e] + Weight(o, r, e) = v.seats[r][e] + Weight(old, r, e)
    BY <1>2, <1>8, <1>10, <2>1 DEF Weight
  <2>4. BookChanged(v, w, id, o)
    BY <1>a, <1>1, <1>2, <1>10, <2>1, <2>2, <2>3 DEF BookChanged
  <2> QED
    BY <2>1, <2>4, BookChanges
<1>11. ASSUME s = "success"
       PROVE  BookOK(w) /\ DOMAIN w.seats = DOMAIN v.seats /\ v.seats = Shift(w.seats, o, o.seats)
  <2>1. /\ old.status = "pending" /\ w.seats = Shift(v.seats, old, -old.seats)
        /\ TicketsAvailable(v.seats[old.ride], old.from, old.to) >= old.seats
        /\ w.pending = v.pending \ {id}
    BY <1>b, <1>11
  <2>2. /\ DOMAIN w.seats = DOMAIN v.seats
        /\ \A r \in DOMAIN v.seats : w.seats[r] \in [Edges -> Nat]
        /\ \A r \in DOMAIN v.seats : \A e \in Edges :
             w.seats[r][e] = v.seats[r][e] - (IF Uses(old, r, e) THEN old.seats ELSE 0)
        /\ Shift(w.seats, old, old.seats) = v.seats
    BY <1>a, <1>1, <2>1, TakeFacts
  <2>3. ASSUME NEW r \in DOMAIN v.seats, NEW e \in Edges
        PROVE  w.seats[r][e] + Weight(o, r, e) = v.seats[r][e] + Weight(old, r, e)
    BY <1>2, <1>7, <1>8, <1>11, <2>1, <2>2 DEF Weight
  <2>4. BookChanged(v, w, id, o)
    BY <1>a, <1>1, <1>2, <1>11, <2>1, <2>2, <2>3 DEF BookChanged
  <2>5. Shift(w.seats, o, o.seats) = v.seats
    <3>1. Shift(w.seats, o, old.seats) = Shift(w.seats, old, old.seats)
      BY <1>2, ShiftSame
    <3> QED
      BY <1>2, <2>2, <3>1
  <2> QED
    BY <2>2, <2>4, <2>5, BookChanges
<1>12. BookOK(w) /\ DOMAIN w.seats = DOMAIN v.seats
  BY <1>b, <1>9, <1>10, <1>11
<1>13. DataOK(w)
  BY <1>a, <1>12, CatalogRests DEF DataOK
<1> QED
  BY <1>a, <1>b, <1>3, <1>4, <1>6, <1>9, <1>10, <1>11, <1>13 DEF StatusUndoes

LEMMA RefundWritten ==
  ASSUME NEW v, IsData(v), DataOK(v), NEW w, NEW id \in DOMAIN v.book, id \in Nat,
         NEW old, old = v.book[id], old.status # "refunded",
         NEW o, o = WithStatus(old, "refunded"),
         NEW c, c = [op |-> "RefundTicket", id |-> id, status |-> old.status],
         w.book = Put(v.book, id, o), SameCatalog(v, w), w.accounts = v.accounts,
         IsFun(v.seats), IsFun(v.book),
         \/ /\ old.status = "success"
            /\ w.seats = Shift(v.seats, old, old.seats)
            /\ w.pending = v.pending
         \/ /\ old.status = "pending"
            /\ w.seats = v.seats
            /\ w.pending = v.pending \ {id}
  PROVE  Written(v, w, c)
<1>1. old.status \in {"success", "pending"}
  OBVIOUS
<1>2. c \in Content /\ c.op = "RefundTicket" /\ c.id = id /\ c.status = old.status
  BY <1>1 DEF Content
<1>3. "refunded" \in Statuses
  BY DEF Statuses
<1>4. /\ DataOK(w)
      /\ w.book[id] = o /\ id \in DOMAIN w.book
      /\ v.book = StatusIn(w.book, id, old.status)
      /\ v.pending = IF old.status = "pending" THEN w.pending \cup {id} ELSE w.pending
      /\ old.status = "success" => v.seats = Shift(w.seats, o, -o.seats)
      /\ old.status = "pending" => v.seats = w.seats
  <2>1. PICK s : s = "refunded"
    OBVIOUS
  <2>2. StatusChanged(v, w, id, old, s, o)
    BY <1>3, <2>1 DEF StatusChanged
  <2>3. StatusUndoes(v, w, id, old, s, o)
    BY <2>2, StatusWritten
  <2> QED
    BY <1>1, <2>1, <2>3 DEF StatusUndoes
<1>5. v.seats = SeatsBefore(w, c)
  BY <1>1, <1>2, <1>4 DEF SeatsBefore
<1>6. v.book = BookBefore(w, c)
  BY <1>2, <1>4 DEF BookBefore
<1>7. v.pending = PendingBefore(w, c)
  BY <1>1, <1>2, <1>4 DEF PendingBefore
<1>8. /\ v.accounts = AccountsBefore(w, c) /\ v.trains = TrainsBefore(w, c)
      /\ v.names = NamesBefore(w, c) /\ v.stops = StopsBefore(w, c)
  BY <1>2 DEF SameCatalog, AccountsBefore, TrainsBefore, NamesBefore, StopsBefore
<1>9. CanUndo(w, c)
  BY <1>2, <1>4 DEF CanUndo
<1>10. v = Undone(w, c)
  BY <1>5, <1>6, <1>7, <1>8, UndoneByFields
<1> QED
  BY <1>2, <1>4, <1>9, <1>10 DEF Written

LEMMA FulfillWritten ==
  ASSUME NEW v, IsData(v), DataOK(v), NEW w, NEW id \in DOMAIN v.book, id \in Nat,
         NEW old, old = v.book[id], old.status = "pending",
         NEW o, o = WithStatus(old, "success"),
         NEW c, c = [op |-> "FulfillOrder", id |-> id],
         w.book = Put(v.book, id, o), SameCatalog(v, w), w.accounts = v.accounts,
         IsFun(v.seats), IsFun(v.book),
         TicketsAvailable(v.seats[old.ride], old.from, old.to) >= old.seats,
         w.seats = Shift(v.seats, old, -old.seats), w.pending = v.pending \ {id}
  PROVE  Written(v, w, c)
<1>1. c \in Content /\ c.op = "FulfillOrder" /\ c.id = id
  BY DEF Content
<1>2. "success" \in Statuses
  BY DEF Statuses
<1>3. /\ DataOK(w)
      /\ w.book[id] = o /\ id \in DOMAIN w.book
      /\ v.book = StatusIn(w.book, id, old.status)
      /\ v.pending = w.pending \cup {id}
      /\ v.seats = Shift(w.seats, o, o.seats)
  <2>1. PICK s : s = "success"
    OBVIOUS
  <2>2. StatusChanged(v, w, id, old, s, o)
    BY <1>2, <2>1 DEF StatusChanged
  <2>3. StatusUndoes(v, w, id, old, s, o)
    BY <2>2, StatusWritten
  <2> QED
    BY <2>1, <2>3 DEF StatusUndoes
<1>4. v.seats = SeatsBefore(w, c)
  BY <1>1, <1>3 DEF SeatsBefore
<1>5. v.book = BookBefore(w, c)
  BY <1>1, <1>3 DEF BookBefore
<1>6. v.pending = PendingBefore(w, c)
  BY <1>1, <1>3 DEF PendingBefore
<1>7. /\ v.accounts = AccountsBefore(w, c) /\ v.trains = TrainsBefore(w, c)
      /\ v.names = NamesBefore(w, c) /\ v.stops = StopsBefore(w, c)
  BY <1>1 DEF SameCatalog, AccountsBefore, TrainsBefore, NamesBefore, StopsBefore
<1>8. CanUndo(w, c)
  BY <1>1, <1>3 DEF CanUndo
<1>9. v = Undone(w, c)
  BY <1>4, <1>5, <1>6, <1>7, UndoneByFields
<1> QED
  BY <1>1, <1>3, <1>8, <1>9 DEF Written

-----------------------------------------------------------------------------
(* The steps.  One does not change what the commands see, or writes an     *)
(* entry for what it changes, or undoes the newest entry.                  *)

LEMMA DataParts ==
  /\ IsData(Data)
  /\ IsFun(Data.accounts) /\ IsFun(Data.seats) /\ IsFun(Data.book)
  /\ Data.accounts = [id \in UserPart!Visible |-> users[id]]
  /\ Data.trains = trains /\ Data.names = ixId /\ Data.stops = ixStop
  /\ Data.seats = [r \in DOMAIN rideSeats |-> OrderPart!SeatsNow(r)]
  /\ Data.book = [id \in ixUserId |-> orders[id]]
  /\ Data.pending = pendingOrders
BY DEF Data, IsData, IsFun

LEMMA NewDataParts ==
  /\ IsData(Data')
  /\ Data'.accounts = [id \in (UserPart!Visible)' |-> users'[id]]
  /\ Data'.trains = trains' /\ Data'.names = ixId' /\ Data'.stops = ixStop'
  /\ Data'.seats = [r \in DOMAIN rideSeats' |-> (OrderPart!SeatsNow(r))']
  /\ Data'.book = [id \in ixUserId' |-> orders'[id]]
  /\ Data'.pending = pendingOrders'
BY DEF Data, IsData

LEMMA DataSame ==
  ASSUME NEW v, IsData(v), NEW w, IsData(w), w.accounts = v.accounts, SameCatalog(v, w),
         SameBook(v, w), w.seats = v.seats
  PROVE  w = v
BY DEF IsData, SameCatalog, SameBook

LEMMA AccountsRest ==
  ASSUME users' = users, ixUsername' = ixUsername
  PROVE  Data'.accounts = Data.accounts
<1>1. (UserPart!Visible)' = UserPart!Visible
  BY DEF UserPart!Visible, UserPart!Finds
<1> QED
  BY <1>1, DataParts, NewDataParts

LEMMA CatalogAndBookRest ==
  /\ UNCHANGED catalogVars => SameCatalog(Data, Data') /\ freeTrains' = freeTrains
  /\ UNCHANGED orderVars =>
       SameBook(Data, Data') /\ orders' = orders /\ ixUserId' = ixUserId /\ pendingOrders' = pendingOrders
  /\ UNCHANGED accountVars =>
       Data'.accounts = Data.accounts /\ users' = users /\ ixUsername' = ixUsername
<1>1. UNCHANGED catalogVars => SameCatalog(Data, Data') /\ freeTrains' = freeTrains
  BY DataParts, NewDataParts DEF catalogVars, SameCatalog
<1>2. UNCHANGED orderVars =>
        SameBook(Data, Data') /\ orders' = orders /\ ixUserId' = ixUserId /\ pendingOrders' = pendingOrders
  BY DataParts, NewDataParts DEF orderVars, SameBook
<1>3. UNCHANGED accountVars =>
        Data'.accounts = Data.accounts /\ users' = users /\ ixUsername' = ixUsername
  BY AccountsRest DEF accountVars
<1> QED
  BY <1>1, <1>2, <1>3

LEMMA SeatsOutsideRefunds ==
  /\ ~ Refunding => Data.seats = [r \in DOMAIN rideSeats |-> rideSeats[r]]
  /\ ~ Refunding' => Data'.seats = [r \in DOMAIN rideSeats' |-> rideSeats'[r]]
  /\ rideSeats' = rideSeats /\ call' = call => Data'.seats = Data.seats
<1>1. ~ Refunding => Data.seats = [r \in DOMAIN rideSeats |-> rideSeats[r]]
  BY DataParts, SameSeats
<1>2. ~ Refunding' => Data'.seats = [r \in DOMAIN rideSeats' |-> rideSeats'[r]]
  BY NewDataParts DEF OrderPart!SeatsNow, OrderPart!Refunding, Refunding
<1>3. rideSeats' = rideSeats /\ call' = call => Data'.seats = Data.seats
  BY DataParts, NewDataParts DEF OrderPart!SeatsNow, OrderPart!Refunding
<1> QED
  BY <1>1, <1>2, <1>3

LEMMA Calls ==
  /\ Idle => ~ Refunding /\ ~ RollingBack
  /\ RollingBack => ~ Refunding /\ ~ Idle
  /\ Refunding => ~ Idle /\ ~ RollingBack
  /\ HasEntryToUndo => RollingBack
BY DEF Idle, NoCall, Refunding, RollingBack, HasEntryToUndo

LEMMA PresentOK ==
  ASSUME LogOK, HistoryOK
  PROVE  DataOK(Data)
<1>1. Len(log) + 1 \in 1 .. Len(log) + 1 /\ Past(Len(log) + 1) = Data
  BY PresentIsPast
<1> QED
  BY <1>1 DEF HistoryOK

Rests == log' = log /\ Data' = Data
Writes == \E c : Log(c) /\ Written(Data, Data', c)
Undoes == HasEntryToUndo /\ DestroyEntry /\ Data' = Undone(Data, Newest.content)
Restarts == Idle /\ log' = <<>> /\ DataOK(Data')

StaysOK == now' \in Int /\ FilesOK' /\ CallOK'

(* No command is in progress, or a rollback, and so it stays.              *)
LEMMA CallRests ==
  ASSUME CallOK, ~ Refunding, call' = call
  PROVE  CallOK' /\ ~ Refunding'
<1>1. Idle \/ RollingBack
  BY DEF CallOK
<1>2. ~ Refunding' /\ (Idle' \/ RollingBack')
  BY <1>1 DEF Idle, NoCall, Refunding, RollingBack
<1> QED
  BY <1>2 DEF CallOK

-----------------------------------------------------------------------------
(* Accounts                                                                *)

LEMMA SaveUserStep ==
  ASSUME SystemInv, Idle, UNCHANGED <<catalogVars, rideSeats, orderVars>>,
         NEW name \in Usernames, NEW password \in Passwords, NEW privilege \in Levels,
         UserPart!SaveUser(name, password, privilege)
  PROVE  Writes /\ StaysOK
<1> DEFINE id == Len(users) + 1
           u == [username |-> name, password |-> password, privilege |-> privilege]
           c == [op |-> "AddUser", id |-> id]
<1>1. /\ users' = Append(users, u) /\ ixUsername' = ixUsername \cup {<<name, id>>}
      /\ UserPart!Log(c) /\ now' = now /\ call' = call
  BY DEF UserPart!SaveUser
<1>2. /\ users \in Seq(User) /\ Len(users) \in Nat /\ DOMAIN users = 1 .. Len(users)
      /\ u \in User /\ u.username = name /\ id \in Nat
  BY DEF SystemInv, FilesOK, User
<1> HIDE DEF u
<1>3. /\ users' \in Seq(User) /\ DOMAIN users' = DOMAIN users \cup {id} /\ users'[id] = u
      /\ id \notin DOMAIN users /\ \A i \in DOMAIN users : users'[i] = users[i]
  <2> HIDE DEF User
  <2> QED
    BY <1>1, <1>2
<1> HIDE DEF id
<1>4. (UserPart!Visible)' = UserPart!Visible \cup {id}
  <2>1. \A i \in DOMAIN users : <<users'[i].username, i>> \in ixUsername' <=> <<users[i].username, i>> \in ixUsername
    BY <1>1, <1>3
  <2>2. <<users'[id].username, id>> \in ixUsername'
    BY <1>1, <1>2, <1>3
  <2> QED
    BY <1>3, <2>1, <2>2 DEF UserPart!Visible, UserPart!Finds
<1>5. id \notin UserPart!Visible /\ UserPart!Visible \subseteq DOMAIN users
  BY <1>3 DEF UserPart!Visible
<1>6. Log(c)
  BY <1>1, SameEntries
<1>7. PICK v, w, d : v = Data /\ w = Data' /\ d = c
  OBVIOUS
<1>8. /\ id \notin DOMAIN v.accounts
      /\ w.accounts = [i \in DOMAIN v.accounts \cup {id} |-> IF i = id THEN u ELSE v.accounts[i]]
  BY <1>3, <1>4, <1>5, <1>7, DataParts, NewDataParts
<1>9. SameCatalog(v, w) /\ SameBook(v, w) /\ w.seats = v.seats
  BY <1>1, <1>7, CatalogAndBookRest, SeatsOutsideRefunds
<1>10. DataOK(v) /\ IsData(v) /\ IsFun(v.accounts)
  BY <1>7, PresentOK, DataParts DEF SystemInv
<1>11. Written(v, w, d)
  BY <1>2, <1>7, <1>8, <1>9, <1>10, AddUserWritten DEF id
<1>12. Writes
  BY <1>6, <1>7, <1>11 DEF Writes
<1>13. StaysOK
  <2>1. CallOK'
    BY <1>1, CallRests, Calls DEF SystemInv
  <2>2. FilesOK'
    <3>1. FileOK'
      BY FileRests DEF SystemInv, FilesOK, catalogVars
    <3> QED
      BY <1>3, <3>1 DEF SystemInv, FilesOK, orderVars
  <2> QED
    BY <1>1, <2>1, <2>2 DEF SystemInv, LogOK, StaysOK
<1> QED
  BY <1>12, <1>13

LEMMA ModifyProfileStep ==
  ASSUME SystemInv, UNCHANGED <<catalogVars, rideSeats, orderVars>>,
         NEW current \in Usernames, NEW id \in DOMAIN users, NEW privilege \in Privileges,
         UserPart!ModifyProfile(current, id, {}, {privilege})
  PROVE  Writes /\ StaysOK
<1> DEFINE c == [op |-> "ModifyProfile", id |-> id, password |-> {}, privilege |-> {users[id].privilege}]
<1>1. /\ UserPart!Idle /\ UserPart!Finds(users[id].username, id)
      /\ users' = [users EXCEPT ![id].password = UserPart!Given({}, @),
                                ![id].privilege = UserPart!Given({privilege}, @)]
      /\ UserPart!Log([op |-> "ModifyProfile", id |-> id,
                       password |-> UserPart!Replaced({}, users[id].password),
                       privilege |-> UserPart!Replaced({privilege}, users[id].privilege)])
      /\ now' = now /\ call' = call /\ ixUsername' = ixUsername
  BY DEF UserPart!ModifyProfile
<1>2. /\ users \in Seq(User) /\ Len(users) \in Nat /\ DOMAIN users = 1 .. Len(users)
      /\ users[id] \in User /\ id \in Nat /\ privilege \in Levels
  <2>1. users \in Seq(User)
    BY DEF SystemInv, FilesOK
  <2> HIDE DEF User
  <2> QED
    BY <2>1 DEF Levels
<1>3. PICK u \in User : u = users[id]
  BY <1>2
<1>4. PICK x : x = [u EXCEPT !.privilege = privilege]
  OBVIOUS
<1>5. x \in User /\ x.username = u.username /\ [u EXCEPT !.password = u.password] = u
  BY <1>2, <1>3, <1>4 DEF User
<1>6. users' = [users EXCEPT ![id] = x]
  <2>1. /\ \A y : UserPart!Given({}, y) = y
        /\ \A y : UserPart!Given({privilege}, y) = privilege
    BY DEF UserPart!Given
  <2>2. users' = [users EXCEPT ![id] = [[u EXCEPT !.password = UserPart!Given({}, u.password)]
                                          EXCEPT !.privilege = UserPart!Given({privilege}, u.privilege)]]
    BY <1>1, <1>2, <1>3 DEF User
  <2> QED
    BY <1>4, <1>5, <2>1, <2>2
<1>7. UserPart!Log(c)
  <2>1. /\ UserPart!Replaced({}, users[id].password) = {}
        /\ UserPart!Replaced({privilege}, users[id].privilege) = {users[id].privilege}
    BY DEF UserPart!Replaced
  <2> QED
    BY <1>1, <2>1
<1>8. /\ users' \in Seq(User) /\ DOMAIN users' = DOMAIN users /\ users'[id] = x
      /\ \A i \in DOMAIN users : i # id => users'[i] = users[i]
  <2> HIDE DEF User
  <2> QED
    BY <1>2, <1>5, <1>6
<1>9. (UserPart!Visible)' = UserPart!Visible /\ id \in UserPart!Visible
  <2>1. \A i \in DOMAIN users : users'[i].username = users[i].username
    BY <1>3, <1>5, <1>8
  <2>2. \A i \in DOMAIN users : <<users'[i].username, i>> \in ixUsername' <=> <<users[i].username, i>> \in ixUsername
    BY <1>1, <2>1
  <2>3. id \in UserPart!Visible
    BY <1>1 DEF UserPart!Visible
  <2>4. (UserPart!Visible)' = UserPart!Visible
    BY <1>8, <2>2 DEF UserPart!Visible, UserPart!Finds
  <2> QED
    BY <2>3, <2>4
<1>10. UserPart!Visible \subseteq DOMAIN users
  BY DEF UserPart!Visible
<1>11. PICK v, w, d : v = Data /\ w = Data' /\ d = c
  OBVIOUS
<1>12. /\ id \in DOMAIN v.accounts /\ v.accounts[id] = u
       /\ w.accounts = [i \in DOMAIN v.accounts |-> IF i = id THEN x ELSE v.accounts[i]]
  BY <1>3, <1>8, <1>9, <1>10, <1>11, DataParts, NewDataParts
<1>13. SameCatalog(v, w) /\ SameBook(v, w) /\ w.seats = v.seats
  BY <1>1, <1>11, CatalogAndBookRest, SeatsOutsideRefunds
<1>14. DataOK(v) /\ IsData(v) /\ IsFun(v.accounts)
  BY <1>11, PresentOK, DataParts DEF SystemInv
<1>15. Written(v, w, d)
  <2>1. d = [op |-> "ModifyProfile", id |-> id, password |-> {}, privilege |-> {u.privilege}]
    BY <1>3, <1>11
  <2> QED
    BY <1>2, <1>4, <1>12, <1>13, <1>14, <2>1, ModifyProfileWritten
<1>16. Writes
  <2>1. Log(d)
    BY <1>7, <1>11, SameEntries
  <2> QED
    BY <1>11, <1>15, <2>1 DEF Writes
<1>17. StaysOK
  <2>1. CallOK'
    BY <1>1, CallRests, Calls, SameLog DEF SystemInv
  <2>2. FilesOK'
    <3>1. FileOK'
      BY FileRests DEF SystemInv, FilesOK, catalogVars
    <3> QED
      BY <1>8, <3>1 DEF SystemInv, FilesOK, orderVars
  <2> QED
    BY <1>1, <2>1, <2>2 DEF SystemInv, LogOK, StaysOK
<1> QED
  BY <1>16, <1>17

(* Sessions are no data, and neither is the clock.                         *)
LEMMA DataRests ==
  ASSUME users' = users, ixUsername' = ixUsername, UNCHANGED <<catalogVars, rideSeats, orderVars>>,
         ~ Refunding, ~ Refunding'
  PROVE  Data' = Data
<1>1. SameCatalog(Data, Data') /\ SameBook(Data, Data') /\ Data'.accounts = Data.accounts
  BY CatalogAndBookRest, AccountsRest
<1>2. Data'.seats = Data.seats
  BY SeatsOutsideRefunds
<1>3. PICK v, w : v = Data /\ w = Data'
  OBVIOUS
<1>4. w = v
  BY <1>1, <1>2, <1>3, DataParts, NewDataParts, DataSame
<1> QED
  BY <1>3, <1>4

LEMMA FilesRest ==
  ASSUME FilesOK, users' = users, UNCHANGED catalogVars, UNCHANGED orderVars
  PROVE  FilesOK'
<1>1. FileOK'
  BY FileRests DEF FilesOK, catalogVars
<1> QED
  BY <1>1 DEF FilesOK, orderVars

LEMMA SessionStep ==
  ASSUME SystemInv, UNCHANGED <<catalogVars, rideSeats, orderVars>>,
         users' = users, ixUsername' = ixUsername,
         now' \in Int, log' = log, ~ Refunding, ~ Refunding', CallOK'
  PROVE  Rests /\ StaysOK
BY DataRests, FilesRest DEF SystemInv, Rests, StaysOK

LEMMA UserCommandStep ==
  ASSUME SystemInv, UserCommand
  PROVE  (Rests \/ Writes) /\ StaysOK
<1>1. UNCHANGED <<catalogVars, rideSeats, orderVars>>
  BY DEF UserCommand
<1>2. ASSUME NEW name \in Usernames, NEW password \in Passwords, UserPart!AddFirstUser(name, password)
      PROVE  Writes /\ StaysOK
  <2>1. Idle /\ UserPart!SaveUser(name, password, UserPart!kDefaultPrivilege)
    BY <1>2, SameLog DEF UserPart!AddFirstUser
  <2> QED
    BY <1>1, <2>1, SaveUserStep DEF Levels
<1>3. ASSUME NEW current \in Usernames, NEW name \in Usernames, NEW password \in Passwords,
             NEW privilege \in Privileges, UserPart!AddUser(current, name, password, privilege)
      PROVE  Writes /\ StaysOK
  <2>1. Idle /\ UserPart!SaveUser(name, password, privilege)
    BY <1>3, SameLog DEF UserPart!AddUser
  <2> QED
    BY <1>1, <2>1, SaveUserStep DEF Levels
<1>4. ASSUME NEW current \in Usernames, NEW id \in DOMAIN users, NEW privilege \in Privileges,
             UserPart!ModifyProfile(current, id, {}, {privilege})
      PROVE  Writes /\ StaysOK
  BY <1>1, <1>4, ModifyProfileStep
<1>5. ASSUME UserPart!Idle, now' = now, log' = log, call' = call, users' = users, ixUsername' = ixUsername
      PROVE  Rests /\ StaysOK
  <2>1. CallOK' /\ ~ Refunding /\ ~ Refunding'
    BY <1>5, CallRests, Calls, SameLog DEF SystemInv
  <2> QED
    BY <1>1, <1>5, <2>1, SessionStep DEF SystemInv, LogOK
<1>6. ASSUME NEW name \in Usernames, NEW password \in Passwords, UserPart!Login(name, password)
      PROVE  Rests /\ StaysOK
  BY <1>5, <1>6 DEF UserPart!Login
<1>7. ASSUME NEW name \in Usernames, UserPart!Logout(name)
      PROVE  Rests /\ StaysOK
  BY <1>5, <1>7 DEF UserPart!Logout
<1>8. ASSUME UserPart!Exit
      PROVE  Rests /\ StaysOK
  BY <1>5, <1>8 DEF UserPart!Exit
<1> QED
  BY <1>2, <1>3, <1>4, <1>6, <1>7, <1>8 DEF UserCommand

-----------------------------------------------------------------------------
(* Trains                                                                  *)

LEMMA TrainIdsAreNat ==
  ASSUME CatalogOK(Data)
  PROVE  \A id \in DOMAIN trains : id \in Nat
<1>1. DOMAIN trains \subseteq 1 .. MaxTrains
  BY DataParts DEF CatalogOK
<1> QED
  BY <1>1, SystemAssumption

LEMMA AddTrainStep ==
  ASSUME SystemInv, UNCHANGED <<accountVars, orderVars>>,
         NEW name \in TrainNames, NEW line \in Lines, TrainPart!AddTrain(name, line)
  PROVE  Writes /\ StaysOK
<1> DEFINE id == TrainPart!NewId
           train == [name |-> name, line |-> line, released |-> FALSE, deleted |-> FALSE]
           c == [op |-> "AddTrain", id |-> id]
<1>1. /\ TrainPart!Idle /\ id <= MaxTrains
      /\ trains' = [i \in DOMAIN trains \cup {id} |-> IF i = id THEN train ELSE trains[i]]
      /\ freeTrains' = IF freeTrains # <<>> THEN Tail(freeTrains) ELSE freeTrains
      /\ ixId' = ixId \cup {<<name, id>>}
      /\ TrainPart!Log(c)
      /\ now' = now /\ call' = call /\ ixStop' = ixStop /\ rideSeats' = rideSeats
  BY DEF TrainPart!AddTrain, TrainPart!Save, TrainPart!Update
<1>2. id \in Nat \ {0} /\ id \notin DOMAIN trains
  BY NewIdIsNew DEF SystemInv, FilesOK
<1>3. PICK v, w, d, t, i : v = Data /\ w = Data' /\ d = c /\ t = train /\ i = id
  OBVIOUS
<1>4. /\ w.trains = [j \in DOMAIN v.trains \cup {i} |-> IF j = i THEN t ELSE v.trains[j]]
      /\ w.names = v.names \cup {<<name, i>>} /\ w.stops = v.stops
      /\ i \notin DOMAIN v.trains
  <2> HIDE DEF id, train
  <2> QED
    BY <1>1, <1>2, <1>3, DataParts, NewDataParts
<1>5. w.accounts = v.accounts /\ SameBook(v, w) /\ w.seats = v.seats
  BY <1>1, <1>3, CatalogAndBookRest, SeatsOutsideRefunds
<1>6. DataOK(v) /\ IsData(v)
  BY <1>3, PresentOK, DataParts DEF SystemInv
<1>7. Written(v, w, d)
  <2>1. /\ i \in Nat \ {0} /\ i <= MaxTrains
        /\ t = [name |-> name, line |-> line, released |-> FALSE, deleted |-> FALSE]
        /\ d = [op |-> "AddTrain", id |-> i]
    BY <1>1, <1>2, <1>3
  <2> QED
    BY <1>4, <1>5, <1>6, <2>1, AddTrainWritten
<1>8. Writes
  <2>1. Log(d)
    BY <1>1, <1>3, SameEntries
  <2> QED
    BY <1>3, <1>7, <2>1 DEF Writes
<1>9. StaysOK
  <2>1. CallOK'
    BY <1>1, CallRests, Calls, SameLog DEF SystemInv
  <2>2. FileOK'
    <3>1. DOMAIN trains' = DOMAIN trains \cup {id}
      BY <1>1
    <3> QED
      BY <1>1, <3>1, FileSaves DEF SystemInv, FilesOK
  <2>3. FilesOK'
    BY <2>2 DEF SystemInv, FilesOK, accountVars, orderVars
  <2> QED
    BY <1>1, <2>1, <2>3 DEF SystemInv, LogOK, StaysOK
<1> QED
  BY <1>8, <1>9

LEMMA DeleteTrainStep ==
  ASSUME SystemInv, UNCHANGED <<accountVars, orderVars>>,
         NEW name \in TrainNames, NEW id \in DOMAIN trains, TrainPart!DeleteTrain(name, id)
  PROVE  Writes /\ StaysOK
<1> DEFINE train == [trains[id] EXCEPT !.deleted = TRUE]
           c == [op |-> "DeleteTrain", id |-> id]
<1>1. /\ TrainPart!Idle /\ <<name, id>> \in ixId /\ ~ trains[id].released
      /\ trains' = [i \in DOMAIN trains \cup {id} |-> IF i = id THEN train ELSE trains[i]]
      /\ ixId' = ixId \ {<<name, id>>}
      /\ TrainPart!Log(c)
      /\ now' = now /\ call' = call /\ freeTrains' = freeTrains /\ ixStop' = ixStop
      /\ rideSeats' = rideSeats
  BY DEF TrainPart!DeleteTrain, TrainPart!Update
<1>2. DataOK(Data) /\ IsData(Data) /\ id \in Nat
  BY PresentOK, DataParts, TrainIdsAreNat DEF SystemInv, DataOK
<1>3. PICK v, w, d, t : v = Data /\ w = Data' /\ d = c /\ t = train
  OBVIOUS
<1>4. /\ w.trains = [j \in DOMAIN v.trains \cup {id} |-> IF j = id THEN t ELSE v.trains[j]]
      /\ w.names = v.names \ {<<name, id>>} /\ w.stops = v.stops
      /\ id \in DOMAIN v.trains /\ <<name, id>> \in v.names
  <2> HIDE DEF train
  <2> QED
    BY <1>1, <1>3, DataParts, NewDataParts
<1>5. w.accounts = v.accounts /\ SameBook(v, w) /\ w.seats = v.seats
  BY <1>1, <1>3, CatalogAndBookRest, SeatsOutsideRefunds
<1>6. /\ t = [v.trains[id] EXCEPT !.deleted = TRUE] /\ ~ v.trains[id].released
      /\ d = [op |-> "DeleteTrain", id |-> id]
  BY <1>1, <1>3, DataParts, Zenon
<1>7. Written(v, w, d)
  <2> HIDE DEF train, c
  <2>1. DataOK(v) /\ IsData(v)
    BY <1>2, <1>3
  <2> QED
    BY <1>2, <1>4, <1>5, <1>6, <2>1, DeleteTrainWritten
<1>8. Writes
  <2>1. Log(d)
    BY <1>1, <1>3, SameEntries
  <2> QED
    BY <1>3, <1>7, <2>1 DEF Writes
<1>9. StaysOK
  <2>1. CallOK'
    BY <1>1, CallRests, Calls, SameLog DEF SystemInv
  <2>2. FileOK'
    BY <1>1, FileRests DEF SystemInv, FilesOK
  <2>3. FilesOK'
    BY <2>2 DEF SystemInv, FilesOK, accountVars, orderVars
  <2> QED
    BY <1>1, <2>1, <2>3 DEF SystemInv, LogOK, StaysOK
<1> QED
  BY <1>8, <1>9

LEMMA ReleaseTrainStep ==
  ASSUME SystemInv, UNCHANGED <<accountVars, orderVars>>,
         NEW name \in TrainNames, NEW id \in DOMAIN trains, TrainPart!ReleaseTrain(name, id)
  PROVE  Writes /\ StaysOK
<1> DEFINE train == [trains[id] EXCEPT !.released = TRUE]
           c == [op |-> "ReleaseTrain", id |-> id]
           stops == {<<station, id>> : station \in TrainPart!ToSet(trains[id].line.stops)}
           rides == {<<id, date>> : date \in trains[id].line.dates}
           line == trains[id].line
           free == [e \in 0 .. Len(line.stops) - 2 |-> line.seats]
<1>1. /\ TrainPart!Idle /\ <<name, id>> \in ixId /\ ~ trains[id].released
      /\ trains' = [i \in DOMAIN trains \cup {id} |-> IF i = id THEN train ELSE trains[i]]
      /\ ixStop' = ixStop \cup stops
      /\ rideSeats' = [r \in DOMAIN rideSeats \cup rides |-> IF r \in rides THEN free ELSE rideSeats[r]]
      /\ TrainPart!Log(c)
      /\ now' = now /\ call' = call /\ freeTrains' = freeTrains /\ ixId' = ixId
  BY DEF TrainPart!ReleaseTrain, TrainPart!Update, TrainPart!StopsOf, TrainPart!RidesOf, TrainPart!AllFree
<1>2. DataOK(Data) /\ IsData(Data) /\ IsFun(Data.seats) /\ id \in Nat
  BY PresentOK, DataParts, TrainIdsAreNat DEF SystemInv, DataOK
<1>3. free = [e \in Edges |-> SeatCount]
  <2>1. line \in Lines
    BY <1>2, DataParts DEF DataOK, CatalogOK, Train
  <2>2. Len(line.stops) = EdgeCount + 1 /\ line.seats = SeatCount
    BY <2>1, SameShape
  <2>3. 0 .. Len(line.stops) - 2 = Edges
    BY <2>2, SystemAssumption DEF Edges
  <2> QED
    BY <2>2, <2>3
<1>4. PICK v, w, d, t : v = Data /\ w = Data' /\ d = c /\ t = train
  OBVIOUS
<1>5. PICK f, rs, ss : f = free /\ rs = rides /\ ss = stops
  OBVIOUS
<1>6. ~ Refunding /\ ~ Refunding' /\ CallOK'
  BY <1>1, CallRests, Calls, SameLog DEF SystemInv
<1>7. /\ w.trains = [j \in DOMAIN v.trains \cup {id} |-> IF j = id THEN t ELSE v.trains[j]]
      /\ w.names = v.names /\ w.stops = v.stops \cup ss
      /\ id \in DOMAIN v.trains /\ <<name, id>> \in v.names
  <2> HIDE DEF train, stops
  <2> QED
    BY <1>1, <1>4, <1>5, DataParts, NewDataParts
<1>8. w.seats = [r \in DOMAIN v.seats \cup rs |-> IF r \in rs THEN f ELSE v.seats[r]]
  <2> HIDE DEF free, rides
  <2>1. v.seats = [r \in DOMAIN rideSeats |-> rideSeats[r]]
    BY <1>4, <1>6, SeatsOutsideRefunds
  <2>2. w.seats = [r \in DOMAIN rideSeats' |-> rideSeats'[r]]
    BY <1>4, <1>6, SeatsOutsideRefunds
  <2> QED
    BY <1>1, <1>5, <2>1, <2>2
<1>9. w.accounts = v.accounts /\ SameBook(v, w)
  BY <1>1, <1>4, CatalogAndBookRest
<1>10. /\ t = [v.trains[id] EXCEPT !.released = TRUE] /\ ~ v.trains[id].released
       /\ d = [op |-> "ReleaseTrain", id |-> id]
  BY <1>1, <1>4, DataParts, Zenon
<1>11. /\ f = [e \in Edges |-> SeatCount]
       /\ ss = {<<station, id>> : station \in TrainPart!ToSet(v.trains[id].line.stops)}
       /\ rs = RidesAt(v, id)
  <2>1. v.trains = trains
    BY <1>4, DataParts
  <2> QED
    BY <1>3, <1>5, <2>1 DEF RidesAt
<1>12. DataOK(v) /\ IsData(v) /\ IsFun(v.seats)
  BY <1>2, <1>4
<1>13. Written(v, w, d)
  <2> HIDE DEF train, stops, rides, free, line, c
  <2> QED
    BY <1>2, <1>7, <1>8, <1>9, <1>10, <1>11, <1>12, ReleaseTrainWritten
<1>14. Writes
  <2>1. Log(d)
    BY <1>1, <1>4, SameEntries
  <2> QED
    BY <1>4, <1>13, <2>1 DEF Writes
<1>15. StaysOK
  <2>1. FileOK'
    BY <1>1, FileRests DEF SystemInv, FilesOK
  <2>2. FilesOK'
    BY <2>1 DEF SystemInv, FilesOK, accountVars, orderVars
  <2> QED
    BY <1>1, <1>6, <2>2 DEF SystemInv, LogOK, StaysOK
<1> QED
  BY <1>14, <1>15

LEMMA TrainCommandStep ==
  ASSUME SystemInv, TrainCommand
  PROVE  Writes /\ StaysOK
BY AddTrainStep, DeleteTrainStep, ReleaseTrainStep DEF TrainCommand

-----------------------------------------------------------------------------
(* Orders                                                                  *)

LEMMA RequestIsOrder ==
  ASSUME NEW o \in OrderPart!Requests, NEW s \in Statuses, NEW x, x = WithStatus(o, s)
  PROVE  /\ o \in Order /\ x \in Order /\ x.status = s
         /\ x.ride = o.ride /\ x.from = o.from /\ x.to = o.to /\ x.seats = o.seats
<1>1. PICK r \in Rides :
        o \in [user : Usernames, ride : {r}, from : 0 .. [q \in Rides |-> EdgeCount][r],
               to : 0 .. [q \in Rides |-> EdgeCount][r], seats : 1 .. MaxRequest,
               status : {"success"}]
  BY DEF OrderPart!Requests
<1>2. [q \in Rides |-> EdgeCount][r] = EdgeCount
  OBVIOUS
<1>3. \A n \in 0 .. EdgeCount : n \in Nat
  OBVIOUS
<1>4. \A n \in 1 .. MaxRequest : n \in Nat \ {0}
  OBVIOUS
<1>5. o \in Order
  BY <1>1, <1>2, <1>3, <1>4 DEF Order
<1> QED
  BY <1>5, OrderFields

LEMMA BookIds ==
  ASSUME FilesOK
  PROVE  /\ orders \in Seq(Order) /\ Len(orders) \in Nat /\ DOMAIN orders = 1 .. Len(orders)
         /\ \A id \in ixUserId : id \in DOMAIN orders /\ id \in Nat /\ orders[id] \in Order
<1>1. orders \in Seq(Order) /\ ixUserId \subseteq DOMAIN orders
  BY DEF FilesOK
<1> HIDE DEF Order
<1> QED
  BY <1>1

LEMMA PurchaseStep ==
  ASSUME SystemInv, UNCHANGED <<accountVars, catalogVars>>,
         NEW o \in OrderPart!Requests, NEW s \in {"success", "pending"},
         OrderPart!Acceptable(o), OrderPart!CreateOrder(o, s),
         \/ /\ s = "success"
            /\ OrderPart!Fits(o, rideSeats[o.ride])
            /\ rideSeats' = [rideSeats EXCEPT ![o.ride] = OrderPart!Take(@, o)]
            /\ pendingOrders' = pendingOrders
         \/ /\ s = "pending"
            /\ rideSeats' = rideSeats
            /\ pendingOrders' = pendingOrders \cup {OrderPart!NextId}
  PROVE  Writes /\ StaysOK
<1> DEFINE id == Len(orders) + 1
           c == [op |-> "BuyTicket", id |-> id]
<1>1. PICK x : x = WithStatus(o, s)
  OBVIOUS
<1>2. /\ OrderPart!Idle /\ orders' = Append(orders, x) /\ ixUserId' = ixUserId \cup {id}
      /\ OrderPart!Log(c) /\ now' = now /\ call' = call
  BY <1>1 DEF OrderPart!CreateOrder, OrderPart!NextId, WithStatus
<1>3. /\ o \in Order /\ x \in Order /\ x.status = s
      /\ x.ride = o.ride /\ x.from = o.from /\ x.to = o.to /\ x.seats = o.seats
  <2>1. s \in Statuses
    BY DEF Statuses
  <2> QED
    BY <1>1, <2>1, RequestIsOrder
<1>4. HasTrip(x) /\ x.ride \in DOMAIN rideSeats
  <2>1. /\ o.ride \in DOMAIN rideSeats /\ o.from < o.to
        /\ o.to <= [q \in Rides |-> EdgeCount][o.ride]
    BY DEF OrderPart!Acceptable
  <2>2. o.ride \in Rides
    BY <1>3 DEF Order
  <2> QED
    BY <1>3, <2>1, <2>2 DEF HasTrip
<1>5. /\ orders' \in Seq(Order) /\ orders'[id] = x /\ DOMAIN orders' = DOMAIN orders \cup {id}
      /\ \A i \in DOMAIN orders : orders'[i] = orders[i]
      /\ id \in Nat /\ id \notin DOMAIN orders /\ ixUserId \subseteq DOMAIN orders
  <2>1. orders \in Seq(Order) /\ ixUserId \subseteq DOMAIN orders
    BY DEF SystemInv, FilesOK
  <2> HIDE DEF Order
  <2> QED
    BY <1>2, <1>3, <2>1
<1> HIDE DEF id
<1>6. ~ Refunding /\ ~ Refunding' /\ CallOK'
  BY <1>2, CallRests, Calls, SameLog DEF SystemInv
<1>7. PICK v, w, d : v = Data /\ w = Data' /\ d = c
  OBVIOUS
<1>8. DataOK(v) /\ IsData(v) /\ IsFun(v.seats) /\ IsFun(v.book)
  BY <1>7, PresentOK, DataParts DEF SystemInv
<1>9. w.book = Put(v.book, id, x) /\ id \notin DOMAIN v.book
  BY <1>2, <1>5, <1>7, DataParts, NewDataParts DEF Put
<1>10. SameCatalog(v, w) /\ w.accounts = v.accounts
  BY <1>7, CatalogAndBookRest
<1>11. /\ v.seats = [r \in DOMAIN rideSeats |-> rideSeats[r]]
       /\ w.seats = [r \in DOMAIN rideSeats' |-> rideSeats'[r]]
       /\ x.ride \in DOMAIN v.seats /\ v.seats[x.ride] = rideSeats[x.ride]
  BY <1>4, <1>6, <1>7, SeatsOutsideRefunds
<1>12. \/ /\ x.status = "success"
          /\ TicketsAvailable(v.seats[x.ride], x.from, x.to) >= x.seats
          /\ w.seats = Shift(v.seats, x, -x.seats)
          /\ w.pending = v.pending
       \/ /\ x.status = "pending"
          /\ w.seats = v.seats
          /\ w.pending = v.pending \cup {id}
  <2>1. CASE s = "success"
    <3>1. /\ OrderPart!Fits(o, rideSeats[o.ride])
          /\ rideSeats' = [rideSeats EXCEPT ![o.ride] = OrderPart!Take(@, o)]
          /\ pendingOrders' = pendingOrders
      BY <2>1
    <3>2. TicketsAvailable(v.seats[x.ride], x.from, x.to) >= x.seats
      BY <1>3, <1>11, <3>1, SameSeats
    <3>3. PICK new : new = RangeAdd(rideSeats[o.ride], -o.seats, o.from, o.to)
      OBVIOUS
    <3>4. rideSeats' = [rideSeats EXCEPT ![o.ride] = new]
      BY <3>1, <3>3, SameSeats
    <3>5. w.seats = [v.seats EXCEPT ![o.ride] = new]
      BY <1>3, <1>4, <1>11, <3>4
    <3>6. w.seats = Shift(v.seats, x, -x.seats)
      BY <1>3, <1>11, <3>3, <3>5 DEF Shift
    <3>7. w.pending = v.pending
      BY <1>7, <3>1, DataParts, NewDataParts
    <3> QED
      BY <1>3, <2>1, <3>2, <3>6, <3>7
  <2>2. CASE s = "pending"
    <3>1. rideSeats' = rideSeats /\ pendingOrders' = pendingOrders \cup {id}
      BY <2>2 DEF OrderPart!NextId, id
    <3>2. w.seats = v.seats
      BY <1>11, <3>1
    <3>3. w.pending = v.pending \cup {id}
      BY <1>7, <3>1, DataParts, NewDataParts
    <3> QED
      BY <1>3, <2>2, <3>2, <3>3
  <2> QED
    BY <2>1, <2>2
<1>13. Written(v, w, d)
  <2>1. d = [op |-> "BuyTicket", id |-> id]
    BY <1>7
  <2> HIDE DEF c
  <2> QED
    BY <1>3, <1>4, <1>5, <1>8, <1>9, <1>10, <1>11, <1>12, <2>1, PurchaseWritten
<1>14. Writes
  <2>1. Log(d)
    BY <1>2, <1>7, SameEntries
  <2> QED
    BY <1>7, <1>13, <2>1 DEF Writes
<1>15. StaysOK
  <2>1. FileOK'
    BY FileRests DEF SystemInv, FilesOK, catalogVars
  <2>2. FilesOK'
    BY <1>2, <1>5, <2>1 DEF SystemInv, FilesOK, accountVars
  <2> QED
    BY <1>2, <1>6, <2>2 DEF SystemInv, LogOK, StaysOK
<1> QED
  BY <1>14, <1>15

LEMMA BuyTicketStep ==
  ASSUME SystemInv, UNCHANGED <<accountVars, catalogVars>>, NEW o \in OrderPart!Requests, BuyTicket(o)
  PROVE  Writes /\ StaysOK
<1>1. CASE OrderPart!BuyTicketSuccess(o)
  <2>1. /\ OrderPart!Acceptable(o) /\ OrderPart!CreateOrder(o, "success")
        /\ OrderPart!Fits(o, rideSeats[o.ride])
        /\ rideSeats' = [rideSeats EXCEPT ![o.ride] = OrderPart!Take(@, o)]
        /\ pendingOrders' = pendingOrders
    BY <1>1 DEF OrderPart!BuyTicketSuccess
  <2>2. PICK s : s = "success"
    OBVIOUS
  <2> QED
    BY <2>1, <2>2, PurchaseStep
<1>2. CASE OrderPart!BuyTicketEnqueued(o)
  <2>1. /\ OrderPart!Acceptable(o) /\ OrderPart!CreateOrder(o, "pending")
        /\ pendingOrders' = pendingOrders \cup {OrderPart!NextId}
        /\ rideSeats' = rideSeats
    BY <1>2 DEF OrderPart!BuyTicketEnqueued
  <2>2. PICK s : s = "pending"
    OBVIOUS
  <2> QED
    BY <2>1, <2>2, PurchaseStep
<1> QED
  BY <1>1, <1>2 DEF BuyTicket

(* The seats of a ride, as the command in progress sees them.              *)
LEMMA SeatsAt ==
  /\ DOMAIN Data.seats = DOMAIN rideSeats /\ DOMAIN Data'.seats = DOMAIN rideSeats'
  /\ \A r \in DOMAIN rideSeats :
       Data.seats[r] = IF Refunding /\ call.ride = r THEN call.seats ELSE rideSeats[r]
  /\ \A r \in DOMAIN rideSeats' :
       Data'.seats[r] = IF Refunding' /\ call'.ride = r THEN call'.seats ELSE rideSeats'[r]
  /\ IsFun(Data.seats) /\ IsFun(Data'.seats)
<1>1. IsFun(Data.seats) /\ IsFun(Data'.seats)
  BY DataParts, NewDataParts DEF IsFun
<1> QED
  BY <1>1, DataParts, NewDataParts DEF OrderPart!SeatsNow, OrderPart!Refunding, Refunding

LEMMA ShiftAt ==
  ASSUME NEW seats, NEW w, IsFun(seats), IsFun(w), DOMAIN w = DOMAIN seats, NEW o, NEW n,
         o.ride \in DOMAIN seats,
         w[o.ride] = RangeAdd(seats[o.ride], n, o.from, o.to),
         \A r \in DOMAIN seats : r # o.ride => w[r] = seats[r]
  PROVE  w = Shift(seats, o, n)
<1>1. PICK new : new = RangeAdd(seats[o.ride], n, o.from, o.to)
  OBVIOUS
<1>2. [r \in DOMAIN w |-> w[r]] = [seats EXCEPT ![o.ride] = new]
  BY <1>1
<1> QED
  BY <1>1, <1>2 DEF IsFun, Shift

LEMMA StatusStep ==
  ASSUME FilesOK, NEW id \in ixUserId, NEW s \in Statuses,
         orders' = [orders EXCEPT ![id].status = s], ixUserId' = ixUserId
  PROVE  /\ id \in Nat /\ orders[id] \in Order
         /\ id \in DOMAIN Data.book /\ Data.book[id] = orders[id]
         /\ Data'.book = Put(Data.book, id, WithStatus(orders[id], s))
         /\ Data'.book = StatusIn(Data.book, id, s)
         /\ orders' \in Seq(Order) /\ DOMAIN orders' = DOMAIN orders
         /\ \A i \in DOMAIN orders : orders'[i].ride = orders[i].ride
<1>1. /\ id \in Nat /\ id \in DOMAIN orders /\ orders[id] \in Order
      /\ orders \in Seq(Order) /\ ixUserId \subseteq DOMAIN orders
  BY BookIds DEF FilesOK
<1>2. PICK x : x = WithStatus(orders[id], s)
  OBVIOUS
<1>3. x \in Order /\ x.ride = orders[id].ride
  BY <1>1, <1>2, OrderFields
<1>4. orders' = [orders EXCEPT ![id] = x]
  BY <1>1, <1>2 DEF WithStatus
<1>5. /\ orders' \in Seq(Order) /\ DOMAIN orders' = DOMAIN orders /\ orders'[id] = x
      /\ \A i \in DOMAIN orders : i # id => orders'[i] = orders[i]
  <2> HIDE DEF Order
  <2> QED
    BY <1>1, <1>3, <1>4
<1>6. \A i \in DOMAIN orders : orders'[i].ride = orders[i].ride
  BY <1>3, <1>5
<1>7. /\ Data.book = [i \in ixUserId |-> orders[i]]
      /\ Data'.book = [i \in ixUserId |-> orders'[i]]
  BY DataParts, NewDataParts
<1>8. id \in DOMAIN Data.book /\ Data.book[id] = orders[id]
  BY <1>7
<1>9. Data'.book = Put(Data.book, id, x)
  <2>1. PICK b : b = Data.book
    OBVIOUS
  <2>2. DOMAIN b \cup {id} = ixUserId /\ \A i \in ixUserId : b[i] = orders[i]
    BY <1>7, <2>1
  <2>3. Put(b, id, x) = [i \in ixUserId |-> IF i = id THEN x ELSE b[i]]
    BY <2>2 DEF Put
  <2>4. \A i \in ixUserId : orders'[i] = IF i = id THEN x ELSE b[i]
    BY <1>1, <1>5, <2>2
  <2> QED
    BY <1>7, <2>1, <2>3, <2>4
<1>10. Data'.book = StatusIn(Data.book, id, s)
  <2>1. PICK b : b = Data.book
    OBVIOUS
  <2>2. StatusIn(b, id, s) = [b EXCEPT ![id] = x]
    BY <1>2, <1>7, <2>1 DEF StatusIn, WithStatus
  <2>3. [b EXCEPT ![id] = x] = [i \in ixUserId |-> orders'[i]]
    BY <1>1, <1>5, <1>7, <2>1
  <2> QED
    BY <1>7, <2>1, <2>2, <2>3
<1> QED
  BY <1>1, <1>2, <1>5, <1>6, <1>8, <1>9, <1>10

LEMMA BookIsOfFile ==
  ASSUME FilesOK, DataOK(Data)
  PROVE  /\ pendingOrders \subseteq ixUserId
         /\ \A id \in ixUserId : /\ id \in DOMAIN orders
                                 /\ orders[id].ride \in DOMAIN rideSeats
                                 /\ id \in pendingOrders <=> orders[id].status = "pending"
<1>1. /\ DOMAIN Data.book = ixUserId /\ \A id \in ixUserId : Data.book[id] = orders[id]
      /\ Data.pending = pendingOrders /\ DOMAIN Data.seats = DOMAIN rideSeats
  BY DataParts, SeatsAt
<1>2. /\ \A id \in DOMAIN Data.book : Data.book[id].ride \in DOMAIN Data.seats
      /\ Data.pending = {id \in DOMAIN Data.book : Data.book[id].status = "pending"}
  BY DEF DataOK, BookOK
<1> QED
  BY <1>1, <1>2 DEF FilesOK

LEMMA RefundPendingStep ==
  ASSUME SystemInv, UNCHANGED <<accountVars, catalogVars>>, NEW u, NEW n, NEW id \in ixUserId,
         OrderPart!RefundPending(u, n, id)
  PROVE  Writes /\ StaysOK
<1> DEFINE c == [op |-> "RefundTicket", id |-> id, status |-> orders[id].status]
<1>1. /\ OrderPart!Idle /\ orders[id].status = "pending"
      /\ OrderPart!Log(c)
      /\ orders' = [orders EXCEPT ![id].status = "refunded"]
      /\ pendingOrders' = pendingOrders \ {id}
      /\ now' = now /\ ixUserId' = ixUserId /\ rideSeats' = rideSeats /\ call' = call
  BY DEF OrderPart!RefundPending, OrderPart!MarkRefunded
<1>2. ~ Refunding /\ ~ Refunding' /\ CallOK'
  BY <1>1, CallRests, Calls, SameLog DEF SystemInv
<1>3. PICK s : s = "refunded"
  OBVIOUS
<1>4. /\ id \in Nat /\ orders[id] \in Order
      /\ id \in DOMAIN Data.book /\ Data.book[id] = orders[id]
      /\ Data'.book = Put(Data.book, id, WithStatus(orders[id], s))
      /\ orders' \in Seq(Order) /\ DOMAIN orders' = DOMAIN orders
  BY <1>1, <1>3, StatusStep DEF SystemInv, FilesOK, Statuses
<1>5. PICK v, w, d, o, x :
        v = Data /\ w = Data' /\ d = c /\ o = orders[id] /\ x = WithStatus(orders[id], s)
  OBVIOUS
<1>6. DataOK(v) /\ IsData(v) /\ IsFun(v.seats) /\ IsFun(v.book)
  BY <1>5, PresentOK, DataParts DEF SystemInv
<1>7. SameCatalog(v, w) /\ w.accounts = v.accounts /\ w.seats = v.seats
  BY <1>1, <1>5, CatalogAndBookRest, SeatsOutsideRefunds
<1>8. /\ id \in DOMAIN v.book /\ o = v.book[id] /\ o.status = "pending"
      /\ w.book = Put(v.book, id, x) /\ w.pending = v.pending \ {id}
  BY <1>1, <1>4, <1>5, DataParts, NewDataParts
<1>9. x = WithStatus(o, "refunded") /\ d = [op |-> "RefundTicket", id |-> id, status |-> o.status]
  BY <1>3, <1>5
<1>10. Written(v, w, d)
  <2> HIDE DEF c
  <2> QED
    BY <1>4, <1>6, <1>7, <1>8, <1>9, RefundWritten
<1>11. Writes
  <2>1. Log(d)
    BY <1>1, <1>5, SameEntries
  <2> QED
    BY <1>5, <1>10, <2>1 DEF Writes
<1>12. StaysOK
  <2>1. FileOK'
    BY FileRests DEF SystemInv, FilesOK, catalogVars
  <2>2. FilesOK'
    BY <1>1, <1>4, <2>1 DEF SystemInv, FilesOK, accountVars
  <2> QED
    BY <1>1, <1>2, <2>2 DEF SystemInv, LogOK, StaysOK
<1> QED
  BY <1>11, <1>12

LEMMA RefundSuccessStep ==
  ASSUME SystemInv, UNCHANGED <<accountVars, catalogVars>>, NEW u, NEW n, NEW id \in ixUserId,
         OrderPart!RefundSuccess(u, n, id)
  PROVE  Writes /\ StaysOK
<1> DEFINE c == [op |-> "RefundTicket", id |-> id, status |-> orders[id].status]
           ride == orders[id].ride
           seats == RangeAdd(rideSeats[ride], orders[id].seats, orders[id].from, orders[id].to)
           todo == {i \in pendingOrders : orders[i].ride = ride}
<1>1. /\ OrderPart!Idle /\ orders[id].status = "success"
      /\ OrderPart!Log(c)
      /\ orders' = [orders EXCEPT ![id].status = "refunded"]
      /\ call' = [cmd |-> "refund", ride |-> ride, seats |-> seats, todo |-> todo]
      /\ now' = now /\ ixUserId' = ixUserId /\ rideSeats' = rideSeats
      /\ pendingOrders' = pendingOrders
  BY SameSeats DEF OrderPart!RefundSuccess, OrderPart!MarkRefunded
<1>2. ~ Refunding
  BY <1>1, Calls, SameLog
<1>3. PICK s : s = "refunded"
  OBVIOUS
<1>4. /\ id \in Nat /\ orders[id] \in Order
      /\ id \in DOMAIN Data.book /\ Data.book[id] = orders[id]
      /\ Data'.book = Put(Data.book, id, WithStatus(orders[id], s))
      /\ orders' \in Seq(Order) /\ DOMAIN orders' = DOMAIN orders
      /\ \A i \in DOMAIN orders : orders'[i].ride = orders[i].ride
  BY <1>1, <1>3, StatusStep DEF SystemInv, FilesOK, Statuses
<1>5. PICK v, w, d, o, x :
        v = Data /\ w = Data' /\ d = c /\ o = orders[id] /\ x = WithStatus(orders[id], s)
  OBVIOUS
<1>6. DataOK(Data) /\ DataOK(v) /\ IsData(v) /\ IsFun(v.seats) /\ IsFun(v.book)
  BY <1>5, PresentOK, DataParts DEF SystemInv
<1>7. SameCatalog(v, w) /\ w.accounts = v.accounts
  BY <1>5, CatalogAndBookRest
<1>8. /\ id \in DOMAIN v.book /\ o = v.book[id] /\ o.status = "success"
      /\ w.book = Put(v.book, id, x) /\ w.pending = v.pending
  BY <1>1, <1>4, <1>5, DataParts, NewDataParts
<1>9. /\ pendingOrders \subseteq ixUserId
      /\ \A i \in ixUserId : i \in DOMAIN orders /\ orders[i].ride \in DOMAIN rideSeats
  BY <1>6, BookIsOfFile DEF SystemInv
<1>10. Refunding' /\ call'.ride = ride /\ call'.seats = seats /\ call'.todo = todo
  BY <1>1 DEF Refunding
<1>11. w.seats = Shift(v.seats, o, o.seats)
  <2>1. /\ IsFun(w.seats) /\ DOMAIN w.seats = DOMAIN v.seats /\ DOMAIN v.seats = DOMAIN rideSeats
        /\ \A r \in DOMAIN v.seats : v.seats[r] = rideSeats[r]
        /\ \A r \in DOMAIN v.seats : w.seats[r] = IF r = ride THEN seats ELSE rideSeats[r]
    <3> HIDE DEF ride, seats, todo, c
    <3> QED
      BY <1>1, <1>2, <1>5, <1>10, SeatsAt
  <2>2. o.ride \in DOMAIN v.seats /\ o.ride = ride
    BY <1>5, <1>9, <2>1
  <2>3. w.seats[o.ride] = RangeAdd(v.seats[o.ride], o.seats, o.from, o.to)
    BY <1>5, <2>1, <2>2
  <2>4. \A r \in DOMAIN v.seats : r # o.ride => w.seats[r] = v.seats[r]
    BY <2>1, <2>2
  <2> QED
    BY <1>6, <2>1, <2>2, <2>3, <2>4, ShiftAt
<1>12. x = WithStatus(o, "refunded") /\ d = [op |-> "RefundTicket", id |-> id, status |-> o.status]
  BY <1>3, <1>5
<1>13. Written(v, w, d)
  <2> HIDE DEF c
  <2> QED
    BY <1>4, <1>6, <1>7, <1>8, <1>11, <1>12, RefundWritten
<1>14. Writes
  <2>1. Log(d)
    BY <1>1, <1>5, SameEntries
  <2> QED
    BY <1>5, <1>13, <2>1 DEF Writes
<1>15. CallOK'
  <2>1. ride \in DOMAIN rideSeats' /\ todo \subseteq pendingOrders'
    BY <1>1, <1>9
  <2>2. \A i \in todo : orders'[i].ride = ride
    BY <1>4, <1>9
  <2>3. call' = [cmd |-> "refund", ride |-> call'.ride, seats |-> call'.seats, todo |-> call'.todo]
    BY <1>1
  <2> HIDE DEF ride, seats, todo
  <2> QED
    BY <1>10, <2>1, <2>2, <2>3 DEF CallOK
<1>16. StaysOK
  <2>1. FileOK'
    BY FileRests DEF SystemInv, FilesOK, catalogVars
  <2>2. FilesOK'
    BY <1>1, <1>4, <2>1 DEF SystemInv, FilesOK, accountVars
  <2> QED
    BY <1>1, <1>15, <2>2 DEF SystemInv, LogOK, StaysOK
<1> QED
  BY <1>14, <1>16

LEMMA OrderCommandStep ==
  ASSUME SystemInv, OrderCommand
  PROVE  Writes /\ StaysOK
BY BuyTicketStep, RefundPendingStep, RefundSuccessStep DEF OrderCommand

LEMMA RefundCall ==
  ASSUME SystemInv, Refunding
  PROVE  /\ call = [cmd |-> "refund", ride |-> call.ride, seats |-> call.seats, todo |-> call.todo]
         /\ call.ride \in DOMAIN rideSeats
         /\ call.todo \subseteq pendingOrders
         /\ \A id \in call.todo : orders[id].ride = call.ride
BY DEF SystemInv, CallOK

LEMMA SkipOrderStep ==
  ASSUME SystemInv, UNCHANGED <<accountVars, catalogVars>>, NEW id, OrderPart!SkipOrder(id)
  PROVE  Rests /\ StaysOK
<1>1. /\ Refunding /\ call' = [call EXCEPT !.todo = @ \ {id}]
      /\ now' = now /\ log' = log /\ UNCHANGED orderVars /\ rideSeats' = rideSeats
  BY SameLog DEF OrderPart!SkipOrder, OrderPart!IsNextInQueue, OrderPart!bookVars, orderVars
<1>2. call' = [cmd |-> "refund", ride |-> call.ride, seats |-> call.seats, todo |-> call.todo \ {id}]
  BY <1>1, RefundCall
<1>3. /\ Refunding' /\ call'.ride = call.ride /\ call'.seats = call.seats
      /\ call'.todo = call.todo \ {id}
  BY <1>2 DEF Refunding
<1>4. Data' = Data
  <2>1. SameCatalog(Data, Data') /\ SameBook(Data, Data') /\ Data'.accounts = Data.accounts
    BY <1>1, CatalogAndBookRest
  <2>2. Data'.seats = Data.seats
    BY <1>1, <1>3, SeatsAt DEF IsFun
  <2>3. PICK v, w : v = Data /\ w = Data'
    OBVIOUS
  <2>4. w = v
    BY <2>1, <2>2, <2>3, DataParts, NewDataParts, DataSame
  <2> QED
    BY <2>3, <2>4
<1>5. CallOK'
  <2>1. call' = [cmd |-> "refund", ride |-> call'.ride, seats |-> call'.seats, todo |-> call'.todo]
    BY <1>2, <1>3
  <2>2. /\ call'.ride \in DOMAIN rideSeats' /\ call'.todo \subseteq pendingOrders'
        /\ \A i \in call'.todo : orders'[i].ride = call'.ride
    BY <1>1, <1>3, RefundCall DEF orderVars
  <2> QED
    BY <1>3, <2>1, <2>2 DEF CallOK
<1> QED
  BY <1>1, <1>4, <1>5, FilesRest DEF SystemInv, LogOK, Rests, StaysOK, accountVars

LEMMA RefundDoneStep ==
  ASSUME SystemInv, UNCHANGED <<accountVars, catalogVars>>, OrderPart!RefundDone
  PROVE  Rests /\ StaysOK
<1>1. /\ Refunding /\ rideSeats' = [rideSeats EXCEPT ![call.ride] = call.seats]
      /\ call' = NoCall
      /\ now' = now /\ log' = log /\ UNCHANGED orderVars
  BY SameLog DEF OrderPart!RefundDone, OrderPart!NoCall, NoCall, orderVars
<1>2. Idle' /\ ~ Refunding'
  BY <1>1 DEF Idle, NoCall, Refunding
<1>3. Data' = Data
  <2>1. SameCatalog(Data, Data') /\ SameBook(Data, Data') /\ Data'.accounts = Data.accounts
    BY <1>1, CatalogAndBookRest
  <2>2. Data'.seats = Data.seats
    <3>1. DOMAIN rideSeats' = DOMAIN rideSeats
      BY <1>1
    <3>2. \A r \in DOMAIN rideSeats :
            rideSeats'[r] = IF call.ride = r THEN call.seats ELSE rideSeats[r]
      BY <1>1
    <3>3. \A r \in DOMAIN rideSeats : Data'.seats[r] = Data.seats[r]
      BY <1>1, <1>2, <3>1, <3>2, SeatsAt
    <3> QED
      BY <3>1, <3>3, SeatsAt DEF IsFun
  <2>3. PICK v, w : v = Data /\ w = Data'
    OBVIOUS
  <2>4. w = v
    BY <2>1, <2>2, <2>3, DataParts, NewDataParts, DataSame
  <2> QED
    BY <2>3, <2>4
<1>4. CallOK'
  BY <1>2 DEF CallOK
<1> QED
  BY <1>1, <1>3, <1>4, FilesRest DEF SystemInv, LogOK, Rests, StaysOK, accountVars

LEMMA FulfillOrderStep ==
  ASSUME SystemInv, UNCHANGED <<accountVars, catalogVars>>, NEW id, OrderPart!FulfillOrder(id)
  PROVE  Writes /\ StaysOK
<1> DEFINE c == [op |-> "FulfillOrder", id |-> id]
           left == RangeAdd(call.seats, -orders[id].seats, orders[id].from, orders[id].to)
<1>1. /\ Refunding /\ id \in call.todo
      /\ TicketsAvailable(call.seats, orders[id].from, orders[id].to) >= orders[id].seats
      /\ call' = [call EXCEPT !.todo = @ \ {id}, !.seats = OrderPart!Take(@, orders[id])]
      /\ orders' = [orders EXCEPT ![id].status = "success"]
      /\ pendingOrders' = pendingOrders \ {id}
      /\ OrderPart!Log(c)
      /\ now' = now /\ ixUserId' = ixUserId /\ rideSeats' = rideSeats
  BY SameLog, SameSeats DEF OrderPart!FulfillOrder, OrderPart!IsNextInQueue
<1>2. call' = [cmd |-> "refund", ride |-> call.ride, seats |-> left, todo |-> call.todo \ {id}]
  <2>1. OrderPart!Take(call.seats, orders[id]) = left
    BY SameSeats
  <2> HIDE DEF left
  <2>2. PICK a, b, d : a = call.ride /\ b = call.seats /\ d = call.todo
    OBVIOUS
  <2>3. call = [cmd |-> "refund", ride |-> a, seats |-> b, todo |-> d]
    BY <1>1, <2>2, RefundCall
  <2>4. PICK k, l : k = call /\ l = left
    OBVIOUS
  <2>5. PICK m : m = [k EXCEPT !.todo = d \ {id}]
    OBVIOUS
  <2>6. call' = [m EXCEPT !.seats = l]
    BY <1>1, <2>1, <2>2, <2>4, <2>5
  <2>7. m = [cmd |-> "refund", ride |-> a, seats |-> b, todo |-> d \ {id}]
    BY <2>3, <2>4, <2>5
  <2> QED
    BY <2>2, <2>4, <2>6, <2>7
<1>3. Refunding' /\ call'.ride = call.ride /\ call'.seats = left /\ call'.todo = call.todo \ {id}
  BY <1>2 DEF Refunding
<1>4. DataOK(Data) /\ call.ride \in DOMAIN rideSeats /\ orders[id].ride = call.ride
  BY <1>1, RefundCall, PresentOK DEF SystemInv
<1>5. /\ id \in ixUserId /\ id \in pendingOrders /\ orders[id].status = "pending"
      /\ pendingOrders \subseteq ixUserId
      /\ \A i \in ixUserId : i \in DOMAIN orders
  BY <1>1, <1>4, RefundCall, BookIsOfFile DEF SystemInv
<1>6. PICK s : s = "success"
  OBVIOUS
<1>7. /\ id \in Nat /\ orders[id] \in Order
      /\ id \in DOMAIN Data.book /\ Data.book[id] = orders[id]
      /\ Data'.book = Put(Data.book, id, WithStatus(orders[id], s))
      /\ orders' \in Seq(Order) /\ DOMAIN orders' = DOMAIN orders
      /\ \A i \in DOMAIN orders : orders'[i].ride = orders[i].ride
  BY <1>1, <1>5, <1>6, StatusStep DEF SystemInv, FilesOK, Statuses
<1>8. PICK v, w, d, o, x :
        v = Data /\ w = Data' /\ d = c /\ o = orders[id] /\ x = WithStatus(orders[id], s)
  OBVIOUS
<1>9. DataOK(v) /\ IsData(v) /\ IsFun(v.seats) /\ IsFun(v.book)
  BY <1>4, <1>8, DataParts
<1>10. SameCatalog(v, w) /\ w.accounts = v.accounts
  BY <1>8, CatalogAndBookRest
<1>11. /\ id \in DOMAIN v.book /\ o = v.book[id] /\ o.status = "pending"
       /\ w.book = Put(v.book, id, x) /\ w.pending = v.pending \ {id}
  BY <1>1, <1>5, <1>7, <1>8, DataParts, NewDataParts
<1>12. /\ w.seats = Shift(v.seats, o, -o.seats)
       /\ TicketsAvailable(v.seats[o.ride], o.from, o.to) >= o.seats
  <2>1. /\ IsFun(w.seats) /\ DOMAIN w.seats = DOMAIN v.seats /\ DOMAIN v.seats = DOMAIN rideSeats
        /\ \A r \in DOMAIN v.seats : v.seats[r] = IF r = call.ride THEN call.seats ELSE rideSeats[r]
        /\ \A r \in DOMAIN v.seats : w.seats[r] = IF r = call.ride THEN left ELSE rideSeats[r]
    <3> HIDE DEF left, c
    <3> QED
      BY <1>1, <1>3, <1>8, SeatsAt
  <2>2. o.ride \in DOMAIN v.seats /\ o.ride = call.ride /\ v.seats[o.ride] = call.seats
    BY <1>4, <1>8, <2>1
  <2>3. w.seats[o.ride] = RangeAdd(v.seats[o.ride], -o.seats, o.from, o.to)
    BY <1>8, <2>1, <2>2
  <2>4. \A r \in DOMAIN v.seats : r # o.ride => w.seats[r] = v.seats[r]
    BY <2>1, <2>2
  <2>5. PICK n : n = -o.seats
    OBVIOUS
  <2>6. w.seats = Shift(v.seats, o, n)
    BY <1>9, <2>1, <2>2, <2>3, <2>4, <2>5, ShiftAt
  <2> QED
    BY <1>1, <1>8, <2>2, <2>5, <2>6
<1>13. x = WithStatus(o, "success") /\ d = [op |-> "FulfillOrder", id |-> id]
  BY <1>6, <1>8
<1>14. Written(v, w, d)
  <2> HIDE DEF c
  <2> QED
    BY <1>7, <1>9, <1>10, <1>11, <1>12, <1>13, FulfillWritten
<1>15. Writes
  <2>1. Log(d)
    BY <1>1, <1>8, SameEntries
  <2> QED
    BY <1>8, <1>14, <2>1 DEF Writes
<1>16. CallOK'
  <2>1. call'.ride \in DOMAIN rideSeats' /\ call'.todo \subseteq pendingOrders'
    BY <1>1, <1>3, <1>4, RefundCall
  <2>2. \A i \in call'.todo : orders'[i].ride = call'.ride
    BY <1>1, <1>3, <1>5, <1>7, RefundCall
  <2>3. call' = [cmd |-> "refund", ride |-> call'.ride, seats |-> call'.seats, todo |-> call'.todo]
    BY <1>2, <1>3
  <2> HIDE DEF left
  <2> QED
    BY <1>3, <2>1, <2>2, <2>3 DEF CallOK
<1>17. StaysOK
  <2>1. FileOK'
    BY FileRests DEF SystemInv, FilesOK, catalogVars
  <2>2. FilesOK'
    BY <1>1, <1>7, <2>1 DEF SystemInv, FilesOK, accountVars
  <2> QED
    BY <1>1, <1>16, <2>2 DEF SystemInv, LogOK, StaysOK
<1> QED
  BY <1>15, <1>17

LEMMA RefundStepStep ==
  ASSUME SystemInv, RefundStep
  PROVE  (Rests \/ Writes) /\ StaysOK
BY SkipOrderStep, FulfillOrderStep, RefundDoneStep DEF RefundStep

-----------------------------------------------------------------------------
(* The undo visitors                                                       *)

LEMMA Undoing ==
  ASSUME SystemInv, HasEntryToUndo, now' = now, call' = call
  PROVE  /\ Newest.content \in Content /\ CanUndo(Data, Newest.content) /\ DataOK(Data)
         /\ now' \in Int /\ ~ Refunding /\ ~ Refunding' /\ CallOK'
<1>1. Len(log) \in Nat \ {0} /\ Newest.content \in Content /\ Newest = log[Len(log)]
  <2>1. log \in Seq(Entry) /\ log # <<>>
    BY DEF SystemInv, LogOK, HasEntryToUndo
  <2>2. Len(log) \in Nat \ {0} /\ log[Len(log)] \in Entry
    <3> HIDE DEF Entry
    <3> QED
      BY <2>1
  <2> QED
    BY <2>2 DEF Newest, Entry
<1>2. CanUndo(Data, Newest.content)
  <2>1. PICK n \in Nat \ {0} : n = Len(log)
    BY <1>1
  <2>2. n \in 1 .. Len(log) /\ Past(n + 1) = Data
    BY <2>1, PresentIsPast DEF SystemInv
  <2> QED
    BY <1>1, <2>1, <2>2 DEF SystemInv, HistoryUndoes
<1>3. ~ Refunding /\ ~ Refunding' /\ CallOK'
  BY CallRests, Calls DEF SystemInv
<1> QED
  BY <1>1, <1>2, <1>3, PresentOK DEF SystemInv, LogOK

LEMMA ContentFields ==
  ASSUME NEW c \in Content
  PROVE  /\ c.id \in Nat
         /\ c.op = "ModifyProfile" => c.password = {} /\ \E p \in Levels : c.privilege = {p}
         /\ c.op = "RefundTicket" => c.status \in {"success", "pending"}
BY DEF Content

LEMMA UndoAddUserStep ==
  ASSUME SystemInv, UNCHANGED <<catalogVars, rideSeats, orderVars>>, UserPart!UndoAddUser
  PROVE  Undoes /\ StaysOK
<1>1. /\ HasEntryToUndo /\ Newest.content.op = "AddUser" /\ DestroyEntry
      /\ now' = now /\ call' = call /\ users' = users
      /\ ixUsername' = ixUsername \ {<<users[Newest.content.id].username, Newest.content.id>>}
  BY SameLog, SameEntries DEF UserPart!UndoAddUser, UserPart!Undoes
<1>2. /\ Newest.content \in Content /\ CanUndo(Data, Newest.content) /\ DataOK(Data)
      /\ now' \in Int /\ ~ Refunding /\ ~ Refunding' /\ CallOK'
  BY <1>1, Undoing
<1>3. PICK v, w, c, id : v = Data /\ w = Data' /\ c = Newest.content /\ id = Newest.content.id
  OBVIOUS
<1>4. (UserPart!Visible)' = UserPart!Visible \ {id}
  BY <1>1, <1>3 DEF UserPart!Visible, UserPart!Finds
<1>5. w.accounts = [i \in DOMAIN v.accounts \ {id} |-> v.accounts[i]]
  BY <1>1, <1>3, <1>4, DataParts, NewDataParts
<1>6. SameCatalog(v, w) /\ SameBook(v, w) /\ w.seats = v.seats
  BY <1>1, <1>3, CatalogAndBookRest, SeatsOutsideRefunds
<1>7. c.op = "AddUser" /\ c.id = id
  BY <1>1, <1>3
<1>8. w.accounts = AccountsBefore(v, c)
  BY <1>5, <1>7 DEF AccountsBefore
<1>9. /\ w.trains = TrainsBefore(v, c) /\ w.names = NamesBefore(v, c) /\ w.stops = StopsBefore(v, c)
      /\ w.seats = SeatsBefore(v, c) /\ w.book = BookBefore(v, c) /\ w.pending = PendingBefore(v, c)
  BY <1>6, <1>7 DEF SameCatalog, SameBook, TrainsBefore, NamesBefore, StopsBefore, SeatsBefore,
              BookBefore, PendingBefore
<1>10. w = Undone(v, c)
  BY <1>3, <1>8, <1>9, UndoneByFields, NewDataParts
<1>11. Undoes
  BY <1>1, <1>3, <1>10 DEF Undoes
<1> QED
  BY <1>1, <1>2, <1>11, FilesRest DEF SystemInv, StaysOK

LEMMA UndoModifyProfileStep ==
  ASSUME SystemInv, UNCHANGED <<catalogVars, rideSeats, orderVars>>, UserPart!UndoModifyProfile
  PROVE  Undoes /\ StaysOK
<1>1. /\ HasEntryToUndo /\ Newest.content.op = "ModifyProfile" /\ DestroyEntry
      /\ now' = now /\ call' = call /\ ixUsername' = ixUsername
      /\ users' = [users EXCEPT ![Newest.content.id].password = UserPart!Given(Newest.content.password, @),
                                ![Newest.content.id].privilege = UserPart!Given(Newest.content.privilege, @)]
  BY SameLog, SameEntries DEF UserPart!UndoModifyProfile, UserPart!Undoes
<1>2. /\ Newest.content \in Content /\ CanUndo(Data, Newest.content) /\ DataOK(Data)
      /\ now' \in Int /\ ~ Refunding /\ ~ Refunding' /\ CallOK'
  BY <1>1, Undoing
<1>3. PICK v, w, c, id : v = Data /\ w = Data' /\ c = Newest.content /\ id = Newest.content.id
  OBVIOUS
<1>4. c.op = "ModifyProfile" /\ c.id = id /\ c.password = {}
  BY <1>1, <1>2, <1>3, ContentFields
<1>5. PICK p \in Levels : c.privilege = {p}
  BY <1>2, <1>3, <1>4, ContentFields
<1>6. /\ users \in Seq(User) /\ id \in DOMAIN users /\ id \in UserPart!Visible
      /\ users[id] \in User
  <2>1. users \in Seq(User)
    BY DEF SystemInv, FilesOK
  <2>2. id \in UserPart!Visible
    BY <1>2, <1>3, <1>4, DataParts DEF CanUndo
  <2>3. id \in DOMAIN users
    BY <2>2 DEF UserPart!Visible
  <2> HIDE DEF User
  <2> QED
    BY <2>1, <2>2, <2>3
<1>7. PICK u \in User : u = users[id]
  BY <1>6
<1>8. PICK x : x = [u EXCEPT !.privilege = p]
  OBVIOUS
<1>9. x \in User /\ x.username = u.username /\ [u EXCEPT !.password = u.password] = u
  BY <1>7, <1>8 DEF User
<1>10. users' = [users EXCEPT ![id] = x]
  <2>1. /\ \A y : UserPart!Given({}, y) = y
        /\ \A y : UserPart!Given({p}, y) = p
    BY DEF UserPart!Given
  <2>2. users' = [users EXCEPT ![id] = [[u EXCEPT !.password = UserPart!Given({}, u.password)]
                                          EXCEPT !.privilege = UserPart!Given({p}, u.privilege)]]
    <3>1. users' = [users EXCEPT ![id].password = UserPart!Given({}, @),
                                 ![id].privilege = UserPart!Given({p}, @)]
      BY <1>1, <1>3, <1>4, <1>5
    <3> QED
      BY <1>6, <1>7, <3>1 DEF User
  <2> QED
    BY <1>8, <1>9, <2>1, <2>2
<1>11. /\ users' \in Seq(User) /\ DOMAIN users' = DOMAIN users /\ users'[id] = x
       /\ \A i \in DOMAIN users : i # id => users'[i] = users[i]
  <2> HIDE DEF User
  <2> QED
    BY <1>6, <1>9, <1>10
<1>12. (UserPart!Visible)' = UserPart!Visible
  <2>1. \A i \in DOMAIN users : users'[i].username = users[i].username
    BY <1>7, <1>9, <1>11
  <2>2. \A i \in DOMAIN users : <<users'[i].username, i>> \in ixUsername' <=> <<users[i].username, i>> \in ixUsername
    BY <1>1, <2>1
  <2> QED
    BY <1>11, <2>2 DEF UserPart!Visible, UserPart!Finds
<1>13. /\ v.accounts = [i \in UserPart!Visible |-> users[i]]
       /\ w.accounts = [i \in UserPart!Visible |-> users'[i]]
       /\ UserPart!Visible \subseteq DOMAIN users
  BY <1>3, <1>12, DataParts, NewDataParts DEF UserPart!Visible
<1>14. w.accounts = AccountsBefore(v, c)
  <2>1. (CHOOSE q \in c.privilege : TRUE) = p
    BY <1>5
  <2>2. AccountsBefore(v, c) = [v.accounts EXCEPT ![id].privilege = p]
    BY <1>4, <2>1 DEF AccountsBefore
  <2>3. [v.accounts EXCEPT ![id].privilege = p] = [v.accounts EXCEPT ![id] = x]
    BY <1>6, <1>7, <1>8, <1>13
  <2>4. [v.accounts EXCEPT ![id] = x] = [i \in UserPart!Visible |-> users'[i]]
    BY <1>11, <1>13
  <2> QED
    BY <1>13, <2>2, <2>3, <2>4
<1>15. SameCatalog(v, w) /\ SameBook(v, w) /\ w.seats = v.seats
  BY <1>1, <1>3, CatalogAndBookRest, SeatsOutsideRefunds
<1>16. /\ w.trains = TrainsBefore(v, c) /\ w.names = NamesBefore(v, c) /\ w.stops = StopsBefore(v, c)
       /\ w.seats = SeatsBefore(v, c) /\ w.book = BookBefore(v, c) /\ w.pending = PendingBefore(v, c)
  BY <1>4, <1>15 DEF SameCatalog, SameBook, TrainsBefore, NamesBefore, StopsBefore, SeatsBefore,
              BookBefore, PendingBefore
<1>17. w = Undone(v, c)
  BY <1>3, <1>14, <1>16, UndoneByFields, NewDataParts
<1>18. Undoes
  BY <1>1, <1>3, <1>17 DEF Undoes
<1>19. FilesOK'
  <2>1. FileOK'
    BY FileRests DEF SystemInv, FilesOK, catalogVars
  <2> QED
    BY <1>11, <2>1 DEF SystemInv, FilesOK, orderVars
<1> QED
  BY <1>2, <1>18, <1>19 DEF StaysOK

LEMMA UndoAddTrainStep ==
  ASSUME SystemInv, UNCHANGED <<accountVars, orderVars>>, TrainPart!UndoAddTrain
  PROVE  Undoes /\ StaysOK
<1>1. /\ HasEntryToUndo /\ Newest.content.op = "AddTrain" /\ DestroyEntry
      /\ now' = now /\ call' = call /\ ixStop' = ixStop /\ rideSeats' = rideSeats
      /\ ixId' = ixId \ {<<trains[Newest.content.id].name, Newest.content.id>>}
      /\ trains' = [i \in DOMAIN trains \ {Newest.content.id} |-> trains[i]]
      /\ freeTrains' = <<Newest.content.id>> \o freeTrains
  BY SameLog, SameEntries
     DEF TrainPart!UndoAddTrain, TrainPart!Undoes, TrainPart!Destroy, TrainPart!Restrict
<1>2. /\ Newest.content \in Content /\ CanUndo(Data, Newest.content) /\ DataOK(Data)
      /\ now' \in Int /\ ~ Refunding /\ ~ Refunding' /\ CallOK'
  BY <1>1, Undoing
<1>3. PICK v, w, c, id : v = Data /\ w = Data' /\ c = Newest.content /\ id = Newest.content.id
  OBVIOUS
<1>4. c.op = "AddTrain" /\ c.id = id /\ id \in DOMAIN trains
  BY <1>1, <1>2, <1>3, DataParts DEF CanUndo
<1>5. /\ w.trains = [i \in DOMAIN v.trains \ {id} |-> v.trains[i]]
      /\ w.names = v.names \ {<<v.trains[id].name, id>>} /\ w.stops = v.stops
  BY <1>1, <1>3, DataParts, NewDataParts
<1>6. w.accounts = v.accounts /\ SameBook(v, w) /\ w.seats = v.seats
  BY <1>1, <1>3, CatalogAndBookRest, SeatsOutsideRefunds
<1>7. w.trains = TrainsBefore(v, c) /\ w.names = NamesBefore(v, c)
  BY <1>4, <1>5 DEF TrainsBefore, NamesBefore
<1>8. /\ w.accounts = AccountsBefore(v, c) /\ w.stops = StopsBefore(v, c)
      /\ w.seats = SeatsBefore(v, c) /\ w.book = BookBefore(v, c) /\ w.pending = PendingBefore(v, c)
  BY <1>4, <1>5, <1>6 DEF SameBook, AccountsBefore, StopsBefore, SeatsBefore, BookBefore, PendingBefore
<1>9. w = Undone(v, c)
  BY <1>3, <1>7, <1>8, UndoneByFields, NewDataParts
<1>10. Undoes
  BY <1>1, <1>3, <1>9 DEF Undoes
<1>11. FilesOK'
  <2>1. DOMAIN trains' = DOMAIN trains \ {id} /\ freeTrains' = <<id>> \o freeTrains
    BY <1>1, <1>3
  <2>2. FileOK'
    BY <1>4, <2>1, FileDestroys DEF SystemInv, FilesOK
  <2> QED
    BY <2>2 DEF SystemInv, FilesOK, accountVars, orderVars
<1> QED
  BY <1>2, <1>10, <1>11 DEF StaysOK

(* The record of one train changes, in its place.                          *)
LEMMA TrainChanges ==
  ASSUME DataOK(Data), NEW id \in DOMAIN trains, NEW t,
         trains' = [i \in DOMAIN trains \cup {id} |-> IF i = id THEN t ELSE trains[i]]
  PROVE  trains' = [trains EXCEPT ![id] = t] /\ DOMAIN trains' = DOMAIN trains
<1>1. trains = [i \in DOMAIN trains |-> trains[i]]
  BY DataParts DEF DataOK, CatalogOK
<1>2. DOMAIN trains \cup {id} = DOMAIN trains
  OBVIOUS
<1>3. [trains EXCEPT ![id] = t] = [i \in DOMAIN trains |-> IF i = id THEN t ELSE trains[i]]
  BY <1>1
<1> QED
  BY <1>2, <1>3

LEMMA UndoDeleteTrainStep ==
  ASSUME SystemInv, UNCHANGED <<accountVars, orderVars>>, TrainPart!UndoDeleteTrain
  PROVE  Undoes /\ StaysOK
<1>1. /\ HasEntryToUndo /\ Newest.content.op = "DeleteTrain" /\ DestroyEntry
      /\ now' = now /\ call' = call /\ ixStop' = ixStop /\ rideSeats' = rideSeats
      /\ freeTrains' = freeTrains
      /\ ixId' = ixId \cup {<<trains[Newest.content.id].name, Newest.content.id>>}
      /\ TrainPart!Update(Newest.content.id, [trains[Newest.content.id] EXCEPT !.deleted = FALSE])
  BY SameLog, SameEntries DEF TrainPart!UndoDeleteTrain, TrainPart!Undoes
<1>2. /\ Newest.content \in Content /\ CanUndo(Data, Newest.content) /\ DataOK(Data)
      /\ now' \in Int /\ ~ Refunding /\ ~ Refunding' /\ CallOK'
  BY <1>1, Undoing
<1>3. PICK v, w, c, id, t :
        /\ v = Data /\ w = Data' /\ c = Newest.content /\ id = Newest.content.id
        /\ t = [trains[id] EXCEPT !.deleted = FALSE]
  OBVIOUS
<1>4. c.op = "DeleteTrain" /\ c.id = id /\ id \in DOMAIN trains
  BY <1>1, <1>2, <1>3, DataParts DEF CanUndo
<1>5. trains' = [i \in DOMAIN trains \cup {id} |-> IF i = id THEN t ELSE trains[i]]
  BY <1>1, <1>3 DEF TrainPart!Update
<1>6. trains' = [trains EXCEPT ![id] = t] /\ DOMAIN trains' = DOMAIN trains
  BY <1>2, <1>4, <1>5, TrainChanges
<1>7. w.trains = TrainsBefore(v, c)
  <2>1. [trains EXCEPT ![id].deleted = FALSE] = [trains EXCEPT ![id] = [trains[id] EXCEPT !.deleted = FALSE]]
    BY <1>4
  <2>2. w.trains = [trains EXCEPT ![id].deleted = FALSE]
    BY <1>3, <1>6, <2>1, NewDataParts, Zenon
  <2>3. TrainsBefore(v, c) = [trains EXCEPT ![id].deleted = FALSE]
    BY <1>3, <1>4, DataParts DEF TrainsBefore
  <2> QED
    BY <2>2, <2>3, Zenon
<1>8. /\ w.names = NamesBefore(v, c) /\ w.stops = v.stops
  BY <1>1, <1>3, <1>4, DataParts, NewDataParts DEF NamesBefore
<1>9. w.accounts = v.accounts /\ SameBook(v, w) /\ w.seats = v.seats
  BY <1>1, <1>3, CatalogAndBookRest, SeatsOutsideRefunds
<1>10. /\ w.accounts = AccountsBefore(v, c) /\ w.stops = StopsBefore(v, c)
       /\ w.seats = SeatsBefore(v, c) /\ w.book = BookBefore(v, c) /\ w.pending = PendingBefore(v, c)
  BY <1>4, <1>8, <1>9 DEF SameBook, AccountsBefore, StopsBefore, SeatsBefore, BookBefore, PendingBefore
<1>11. w = Undone(v, c)
  BY <1>3, <1>7, <1>8, <1>10, UndoneByFields, NewDataParts
<1>12. Undoes
  BY <1>1, <1>3, <1>11 DEF Undoes
<1>13. FilesOK'
  <2>1. FileOK'
    BY <1>1, <1>6, FileRests DEF SystemInv, FilesOK
  <2> QED
    BY <2>1 DEF SystemInv, FilesOK, accountVars, orderVars
<1> QED
  BY <1>2, <1>12, <1>13 DEF StaysOK

LEMMA UndoReleaseTrainStep ==
  ASSUME SystemInv, UNCHANGED <<accountVars, orderVars>>, TrainPart!UndoReleaseTrain
  PROVE  Undoes /\ StaysOK
<1>1. /\ HasEntryToUndo /\ Newest.content.op = "ReleaseTrain" /\ DestroyEntry
      /\ now' = now /\ call' = call /\ ixId' = ixId /\ freeTrains' = freeTrains
      /\ ixStop' = ixStop \ TrainPart!StopsOf(Newest.content.id)
      /\ rideSeats' = [r \in DOMAIN rideSeats \ TrainPart!RidesOf(Newest.content.id) |-> rideSeats[r]]
      /\ TrainPart!Update(Newest.content.id, [trains[Newest.content.id] EXCEPT !.released = FALSE])
  BY SameLog, SameEntries DEF TrainPart!UndoReleaseTrain, TrainPart!Undoes, TrainPart!Restrict
<1>2. /\ Newest.content \in Content /\ CanUndo(Data, Newest.content) /\ DataOK(Data)
      /\ now' \in Int /\ ~ Refunding /\ ~ Refunding' /\ CallOK'
  BY <1>1, Undoing
<1>3. PICK v, w, c, id, t :
        /\ v = Data /\ w = Data' /\ c = Newest.content /\ id = Newest.content.id
        /\ t = [trains[id] EXCEPT !.released = FALSE]
  OBVIOUS
<1>4. c.op = "ReleaseTrain" /\ c.id = id /\ id \in DOMAIN trains
  BY <1>1, <1>2, <1>3, DataParts DEF CanUndo
<1>5. trains' = [i \in DOMAIN trains \cup {id} |-> IF i = id THEN t ELSE trains[i]]
  BY <1>1, <1>3 DEF TrainPart!Update
<1>6. trains' = [trains EXCEPT ![id] = t] /\ DOMAIN trains' = DOMAIN trains
  BY <1>2, <1>4, <1>5, TrainChanges
<1>7. w.trains = TrainsBefore(v, c)
  <2>1. [trains EXCEPT ![id].released = FALSE] = [trains EXCEPT ![id] = [trains[id] EXCEPT !.released = FALSE]]
    BY <1>4
  <2>2. w.trains = [trains EXCEPT ![id].released = FALSE]
    BY <1>3, <1>6, <2>1, NewDataParts, Zenon
  <2>3. TrainsBefore(v, c) = [trains EXCEPT ![id].released = FALSE]
    BY <1>3, <1>4, DataParts DEF TrainsBefore
  <2> QED
    BY <2>2, <2>3, Zenon
<1>8. w.stops = StopsBefore(v, c)
  <2>1. /\ w.stops = v.stops \ {<<station, id>> : station \in TrainPart!ToSet(trains[id].line.stops)}
        /\ v.trains = trains
    BY <1>1, <1>3, DataParts, NewDataParts DEF TrainPart!StopsOf
  <2> QED
    BY <1>4, <2>1 DEF StopsBefore
<1>9. w.seats = SeatsBefore(v, c)
  <2>1. /\ v.seats = [r \in DOMAIN rideSeats |-> rideSeats[r]]
        /\ w.seats = [r \in DOMAIN rideSeats' |-> rideSeats'[r]]
    BY <1>2, <1>3, SeatsOutsideRefunds
  <2>2. TrainPart!RidesOf(id) = RidesAt(v, id)
    BY <1>3, DataParts DEF TrainPart!RidesOf, RidesAt
  <2>3. w.seats = [r \in DOMAIN v.seats \ RidesAt(v, id) |-> v.seats[r]]
    BY <1>1, <1>3, <2>1, <2>2
  <2> QED
    BY <1>4, <2>3 DEF SeatsBefore
<1>10. w.names = v.names /\ w.accounts = v.accounts /\ SameBook(v, w)
  BY <1>1, <1>3, CatalogAndBookRest, DataParts, NewDataParts
<1>11. /\ w.accounts = AccountsBefore(v, c) /\ w.names = NamesBefore(v, c)
       /\ w.book = BookBefore(v, c) /\ w.pending = PendingBefore(v, c)
  BY <1>4, <1>10 DEF SameBook, AccountsBefore, NamesBefore, BookBefore, PendingBefore
<1>12. w = Undone(v, c)
  BY <1>3, <1>7, <1>8, <1>9, <1>11, UndoneByFields, NewDataParts
<1>13. Undoes
  BY <1>1, <1>3, <1>12 DEF Undoes
<1>14. FilesOK'
  <2>1. FileOK'
    BY <1>1, <1>6, FileRests DEF SystemInv, FilesOK
  <2> QED
    BY <2>1 DEF SystemInv, FilesOK, accountVars, orderVars
<1> QED
  BY <1>2, <1>13, <1>14 DEF StaysOK

(* Outside refunds the seats of a ride are those of its record.            *)
LEMMA RecordShifts ==
  ASSUME ~ Refunding, ~ Refunding', NEW o, NEW n, o.ride \in DOMAIN rideSeats,
         rideSeats' = [rideSeats EXCEPT ![o.ride] = RangeAdd(@, n, o.from, o.to)]
  PROVE  Data'.seats = Shift(Data.seats, o, n)
<1>1. PICK new : new = RangeAdd(rideSeats[o.ride], n, o.from, o.to)
  OBVIOUS
<1>2. rideSeats' = [rideSeats EXCEPT ![o.ride] = new]
  BY <1>1
<1>3. /\ IsFun(Data.seats) /\ IsFun(Data'.seats)
      /\ DOMAIN Data.seats = DOMAIN rideSeats /\ DOMAIN Data'.seats = DOMAIN rideSeats
      /\ \A r \in DOMAIN rideSeats : Data.seats[r] = rideSeats[r]
      /\ \A r \in DOMAIN rideSeats : Data'.seats[r] = IF r = o.ride THEN new ELSE rideSeats[r]
  BY <1>2, SeatsAt
<1>4. PICK s, t : s = Data.seats /\ t = Data'.seats
  OBVIOUS
<1>5. t = Shift(s, o, n)
  BY <1>1, <1>3, <1>4, ShiftAt
<1> QED
  BY <1>4, <1>5

LEMMA UndoBuyTicketStep ==
  ASSUME SystemInv, UNCHANGED <<accountVars, catalogVars>>, OrderPart!UndoBuyTicket
  PROVE  Undoes /\ StaysOK
<1>1. /\ HasEntryToUndo /\ Newest.content.op = "BuyTicket" /\ DestroyEntry
      /\ now' = now /\ call' = call /\ orders' = orders
      /\ ixUserId' = ixUserId \ {Newest.content.id}
      /\ IF orders[Newest.content.id].status = "pending"
         THEN /\ pendingOrders' = pendingOrders \ {Newest.content.id}
              /\ rideSeats' = rideSeats
         ELSE /\ rideSeats' = [rideSeats EXCEPT ![orders[Newest.content.id].ride]
                                 = OrderPart!GiveBack(@, orders[Newest.content.id])]
              /\ pendingOrders' = pendingOrders
  BY SameLog, SameEntries DEF OrderPart!UndoBuyTicket, OrderPart!Undoes
<1>2. /\ Newest.content \in Content /\ CanUndo(Data, Newest.content) /\ DataOK(Data)
      /\ now' \in Int /\ ~ Refunding /\ ~ Refunding' /\ CallOK'
  BY <1>1, Undoing
<1>3. PICK v, w, c, id, o :
        /\ v = Data /\ w = Data' /\ c = Newest.content /\ id = Newest.content.id
        /\ o = orders[id]
  OBVIOUS
<1>4. c.op = "BuyTicket" /\ c.id = id /\ id \in ixUserId /\ v.book[id] = o
  BY <1>1, <1>2, <1>3, DataParts DEF CanUndo
<1>5. o.ride \in DOMAIN rideSeats
  BY <1>2, <1>3, <1>4, BookIsOfFile DEF SystemInv
<1>6. w.book = BookBefore(v, c)
  <2>1. w.book = [i \in DOMAIN v.book \ {id} |-> v.book[i]]
    BY <1>1, <1>3, DataParts, NewDataParts
  <2> QED
    BY <1>4, <2>1 DEF BookBefore
<1>7. w.seats = SeatsBefore(v, c) /\ w.pending = PendingBefore(v, c)
  <2>1. CASE o.status = "pending"
    <3>1. w.seats = v.seats /\ w.pending = v.pending \ {id}
      BY <1>1, <1>3, <2>1, SeatsOutsideRefunds, DataParts, NewDataParts
    <3> QED
      BY <1>4, <2>1, <3>1 DEF SeatsBefore, PendingBefore
  <2>2. CASE o.status # "pending"
    <3>1. w.pending = v.pending
      BY <1>1, <1>3, <2>2, DataParts, NewDataParts
    <3>2. PICK n : n = o.seats
      OBVIOUS
    <3>3. rideSeats' = [rideSeats EXCEPT ![o.ride] = RangeAdd(@, n, o.from, o.to)]
      BY <1>1, <1>3, <2>2, <3>2, SameSeats
    <3>4. w.seats = Shift(v.seats, o, n)
      BY <1>2, <1>3, <1>5, <3>3, RecordShifts
    <3> QED
      BY <1>4, <2>2, <3>1, <3>2, <3>4 DEF SeatsBefore, PendingBefore
  <2> QED
    BY <2>1, <2>2
<1>8. SameCatalog(v, w) /\ w.accounts = v.accounts
  BY <1>3, CatalogAndBookRest
<1>9. /\ w.accounts = AccountsBefore(v, c) /\ w.trains = TrainsBefore(v, c)
      /\ w.names = NamesBefore(v, c) /\ w.stops = StopsBefore(v, c)
  BY <1>4, <1>8 DEF SameCatalog, AccountsBefore, TrainsBefore, NamesBefore, StopsBefore
<1>10. w = Undone(v, c)
  BY <1>3, <1>6, <1>7, <1>9, UndoneByFields, NewDataParts
<1>11. Undoes
  BY <1>1, <1>3, <1>10 DEF Undoes
<1>12. FilesOK'
  <2>1. FileOK'
    BY FileRests DEF SystemInv, FilesOK, catalogVars
  <2> QED
    BY <1>1, <2>1 DEF SystemInv, FilesOK, accountVars
<1> QED
  BY <1>2, <1>11, <1>12 DEF StaysOK

LEMMA UndoRefundTicketStep ==
  ASSUME SystemInv, UNCHANGED <<accountVars, catalogVars>>, OrderPart!UndoRefundTicket
  PROVE  Undoes /\ StaysOK
<1>1. /\ HasEntryToUndo /\ Newest.content.op = "RefundTicket" /\ DestroyEntry
      /\ now' = now /\ call' = call /\ ixUserId' = ixUserId
      /\ orders' = [orders EXCEPT ![Newest.content.id].status = Newest.content.status]
      /\ IF Newest.content.status = "success"
         THEN /\ rideSeats' = [rideSeats EXCEPT ![orders[Newest.content.id].ride]
                                 = OrderPart!Take(@, orders[Newest.content.id])]
              /\ pendingOrders' = pendingOrders
         ELSE /\ pendingOrders' = pendingOrders \cup {Newest.content.id}
              /\ rideSeats' = rideSeats
  BY SameLog, SameEntries DEF OrderPart!UndoRefundTicket, OrderPart!Undoes
<1>2. /\ Newest.content \in Content /\ CanUndo(Data, Newest.content) /\ DataOK(Data)
      /\ now' \in Int /\ ~ Refunding /\ ~ Refunding' /\ CallOK'
  BY <1>1, Undoing
<1>3. PICK v, w, c, id, o, s :
        /\ v = Data /\ w = Data' /\ c = Newest.content /\ id = Newest.content.id
        /\ o = orders[id] /\ s = Newest.content.status
  OBVIOUS
<1>4. /\ c.op = "RefundTicket" /\ c.id = id /\ c.status = s /\ s \in {"success", "pending"}
      /\ id \in ixUserId /\ v.book[id] = o
  BY <1>1, <1>2, <1>3, ContentFields, DataParts DEF CanUndo
<1>5. o.ride \in DOMAIN rideSeats
  BY <1>2, <1>3, <1>4, BookIsOfFile DEF SystemInv
<1>6. /\ w.book = StatusIn(v.book, id, s)
      /\ orders' \in Seq(Order) /\ DOMAIN orders' = DOMAIN orders
  <2>1. s \in Statuses /\ orders' = [orders EXCEPT ![id].status = s]
    BY <1>1, <1>3, <1>4 DEF Statuses
  <2> QED
    BY <1>1, <1>3, <1>4, <2>1, StatusStep DEF SystemInv
<1>7. w.book = BookBefore(v, c)
  BY <1>4, <1>6 DEF BookBefore
<1>8. w.seats = SeatsBefore(v, c) /\ w.pending = PendingBefore(v, c)
  <2>1. CASE s = "success"
    <3>1. w.pending = v.pending
      BY <1>1, <1>3, <2>1, DataParts, NewDataParts
    <3>2. PICK n : n = -o.seats
      OBVIOUS
    <3>3. rideSeats' = [rideSeats EXCEPT ![o.ride] = RangeAdd(@, n, o.from, o.to)]
      BY <1>1, <1>3, <2>1, <3>2, SameSeats
    <3>4. w.seats = Shift(v.seats, o, n)
      BY <1>2, <1>3, <1>5, <3>3, RecordShifts
    <3> QED
      BY <1>4, <2>1, <3>1, <3>2, <3>4 DEF SeatsBefore, PendingBefore
  <2>2. CASE s = "pending"
    <3>1. w.seats = v.seats /\ w.pending = v.pending \cup {id}
      BY <1>1, <1>3, <2>2, SeatsOutsideRefunds, DataParts, NewDataParts
    <3> QED
      BY <1>4, <2>2, <3>1 DEF SeatsBefore, PendingBefore
  <2> QED
    BY <1>4, <2>1, <2>2
<1>9. SameCatalog(v, w) /\ w.accounts = v.accounts
  BY <1>3, CatalogAndBookRest
<1>10. /\ w.accounts = AccountsBefore(v, c) /\ w.trains = TrainsBefore(v, c)
       /\ w.names = NamesBefore(v, c) /\ w.stops = StopsBefore(v, c)
  BY <1>4, <1>9 DEF SameCatalog, AccountsBefore, TrainsBefore, NamesBefore, StopsBefore
<1>11. w = Undone(v, c)
  BY <1>3, <1>7, <1>8, <1>10, UndoneByFields, NewDataParts
<1>12. Undoes
  BY <1>1, <1>3, <1>11 DEF Undoes
<1>13. FilesOK'
  <2>1. FileOK'
    BY FileRests DEF SystemInv, FilesOK, catalogVars
  <2> QED
    BY <1>1, <1>6, <2>1 DEF SystemInv, FilesOK, accountVars
<1> QED
  BY <1>2, <1>12, <1>13 DEF StaysOK

LEMMA UndoFulfillOrderStep ==
  ASSUME SystemInv, UNCHANGED <<accountVars, catalogVars>>, OrderPart!UndoFulfillOrder
  PROVE  Undoes /\ StaysOK
<1>1. /\ HasEntryToUndo /\ Newest.content.op = "FulfillOrder" /\ DestroyEntry
      /\ now' = now /\ call' = call /\ ixUserId' = ixUserId
      /\ orders' = [orders EXCEPT ![Newest.content.id].status = "pending"]
      /\ pendingOrders' = pendingOrders \cup {Newest.content.id}
      /\ rideSeats' = [rideSeats EXCEPT ![orders[Newest.content.id].ride]
                         = OrderPart!GiveBack(@, orders[Newest.content.id])]
  BY SameLog, SameEntries DEF OrderPart!UndoFulfillOrder, OrderPart!Undoes
<1>2. /\ Newest.content \in Content /\ CanUndo(Data, Newest.content) /\ DataOK(Data)
      /\ now' \in Int /\ ~ Refunding /\ ~ Refunding' /\ CallOK'
  BY <1>1, Undoing
<1>3. PICK v, w, c, id, o, s :
        /\ v = Data /\ w = Data' /\ c = Newest.content /\ id = Newest.content.id
        /\ o = orders[id] /\ s = "pending"
  OBVIOUS
<1>4. c.op = "FulfillOrder" /\ c.id = id /\ id \in ixUserId /\ v.book[id] = o
  BY <1>1, <1>2, <1>3, DataParts DEF CanUndo
<1>5. o.ride \in DOMAIN rideSeats
  BY <1>2, <1>3, <1>4, BookIsOfFile DEF SystemInv
<1>6. /\ w.book = StatusIn(v.book, id, s)
      /\ orders' \in Seq(Order) /\ DOMAIN orders' = DOMAIN orders
  <2>1. s \in Statuses /\ orders' = [orders EXCEPT ![id].status = s]
    BY <1>1, <1>3 DEF Statuses
  <2> QED
    BY <1>1, <1>3, <1>4, <2>1, StatusStep DEF SystemInv
<1>7. w.book = BookBefore(v, c)
  BY <1>3, <1>4, <1>6 DEF BookBefore
<1>8. w.seats = SeatsBefore(v, c)
  <2>1. PICK n : n = o.seats
    OBVIOUS
  <2>2. rideSeats' = [rideSeats EXCEPT ![o.ride] = RangeAdd(@, n, o.from, o.to)]
    BY <1>1, <1>3, <2>1, SameSeats
  <2>3. w.seats = Shift(v.seats, o, n)
    BY <1>2, <1>3, <1>5, <2>2, RecordShifts
  <2> QED
    BY <1>4, <2>1, <2>3 DEF SeatsBefore
<1>9. w.pending = PendingBefore(v, c)
  <2>1. w.pending = v.pending \cup {id}
    BY <1>1, <1>3, DataParts, NewDataParts
  <2> QED
    BY <1>4, <2>1 DEF PendingBefore
<1>10. SameCatalog(v, w) /\ w.accounts = v.accounts
  BY <1>3, CatalogAndBookRest
<1>11. /\ w.accounts = AccountsBefore(v, c) /\ w.trains = TrainsBefore(v, c)
       /\ w.names = NamesBefore(v, c) /\ w.stops = StopsBefore(v, c)
  BY <1>4, <1>10 DEF SameCatalog, AccountsBefore, TrainsBefore, NamesBefore, StopsBefore
<1>12. w = Undone(v, c)
  BY <1>3, <1>7, <1>8, <1>9, <1>11, UndoneByFields, NewDataParts
<1>13. Undoes
  BY <1>1, <1>3, <1>12 DEF Undoes
<1>14. FilesOK'
  <2>1. FileOK'
    BY FileRests DEF SystemInv, FilesOK, catalogVars
  <2> QED
    BY <1>1, <1>6, <2>1 DEF SystemInv, FilesOK, accountVars
<1> QED
  BY <1>2, <1>13, <1>14 DEF StaysOK

LEMMA UndoStep ==
  ASSUME SystemInv, Undo
  PROVE  Undoes /\ StaysOK
BY UndoAddUserStep, UndoModifyProfileStep, UndoAddTrainStep, UndoDeleteTrainStep,
   UndoReleaseTrainStep, UndoBuyTicketStep, UndoRefundTicketStep, UndoFulfillOrderStep
   DEF Undo


-----------------------------------------------------------------------------
(* The commands that write no entry, and Clean.                            *)

LEMMA ReadTimestampStep ==
  ASSUME SystemInv, UNCHANGED <<accountVars, catalogVars, rideSeats, orderVars>>,
         NEW t \in 0 .. MaxTime, ReadTimestamp(t)
  PROVE  Rests /\ StaysOK
<1>1. Idle /\ now' = t /\ log' = log /\ call' = call
  BY DEF ReadTimestamp
<1>2. CallOK' /\ ~ Refunding /\ ~ Refunding'
  BY <1>1, CallRests, Calls DEF SystemInv
<1>3. now' \in Int
  BY <1>1
<1> QED
  BY <1>1, <1>2, <1>3, SessionStep DEF accountVars

LEMMA RollbackStep ==
  ASSUME SystemInv, NEW t \in 0 .. MaxTime, Rollback(t)
  PROVE  Rests /\ StaysOK
<1>1. /\ UNCHANGED <<catalogVars, rideSeats, orderVars>>
      /\ users' = users /\ ixUsername' = ixUsername
      /\ Idle /\ call' = [cmd |-> "rollback", timestamp |-> t] /\ now' = now /\ log' = log
  BY SameLog DEF Rollback, UserPart!Rollback, UserPart!StartRollback
<1>2. RollingBack' /\ ~ Refunding' /\ ~ Refunding
  BY <1>1, Calls DEF RollingBack, Refunding
<1>3. CallOK' /\ now' \in Int
  BY <1>1, <1>2 DEF CallOK, SystemInv, LogOK
<1> QED
  BY <1>1, <1>2, <1>3, SessionStep

LEMMA EndRollbackStep ==
  ASSUME SystemInv, EndRollback
  PROVE  Rests /\ StaysOK
<1>1. /\ UNCHANGED <<accountVars, catalogVars, rideSeats, orderVars>>
      /\ RollingBack /\ call' = NoCall /\ now' = now /\ log' = log
  BY DEF EndRollback, RollbackDone
<1>2. Idle' /\ ~ Refunding' /\ ~ Refunding
  BY <1>1, Calls DEF Idle, NoCall, Refunding
<1>3. CallOK' /\ now' \in Int
  BY <1>1, <1>2 DEF CallOK, SystemInv, LogOK
<1> QED
  BY <1>1, <1>2, <1>3, SessionStep DEF accountVars

LEMMA NothingIsOK ==
  ASSUME NEW v, v.trains = <<>>, v.names = {}, v.stops = {}, DOMAIN v.seats = {},
         DOMAIN v.book = {}, v.pending = {}
  PROVE  DataOK(v)
<1>1. DOMAIN v.trains = {} /\ v.trains \in [DOMAIN v.trains -> Train]
  OBVIOUS
<1>2. CatalogOK(v)
  BY <1>1 DEF CatalogOK
<1>3. BookOK(v)
  BY FS_EmptySet DEF BookOK
<1> QED
  BY <1>2, <1>3 DEF DataOK

LEMMA EmptyFiles ==
  /\ trains = <<>> /\ freeTrains = <<>> => FileOK
  /\ trains' = <<>> /\ freeTrains' = <<>> => FileOK'
<1>1. FreeListOK({}, <<>>)
  <2>1. <<>> \in Seq(Nat) /\ Len(<<>>) = 0 /\ 1 .. Len(<<>>) = {} /\ 0 \in Nat /\ 1 .. 0 = {}
    OBVIOUS
  <2>2. {} \cup {<<>>[i] : i \in 1 .. Len(<<>>)} = 1 .. 0
    BY <2>1
  <2> QED
    BY <2>1, <2>2 DEF FreeListOK
<1>2. DOMAIN <<>> = {}
  OBVIOUS
<1> QED
  BY <1>1, <1>2 DEF FileOK

LEMMA CleanStep ==
  ASSUME SystemInv, Clean
  PROVE  Restarts /\ StaysOK
<1>1. /\ Idle /\ log' = <<>> /\ users' = <<>> /\ now' = now /\ call' = call
      /\ trains' = <<>> /\ freeTrains' = <<>> /\ ixId' = {} /\ ixStop' = {} /\ rideSeats' = <<>>
      /\ orders' = <<>> /\ ixUserId' = {} /\ pendingOrders' = {}
  BY SameLog DEF Clean, UserPart!Clean, TrainPart!Clean
<1>2. DataOK(Data')
  <2>1. PICK w : w = Data'
    OBVIOUS
  <2>2. /\ w.trains = <<>> /\ w.names = {} /\ w.stops = {} /\ w.pending = {}
        /\ DOMAIN w.seats = {} /\ DOMAIN w.book = {}
    BY <1>1, <2>1, NewDataParts
  <2> QED
    BY <2>1, <2>2, NothingIsOK
<1>3. CallOK' /\ now' \in Int
  BY <1>1, CallRests, Calls DEF SystemInv, LogOK
<1>4. FilesOK'
  <2>1. users' \in Seq(User) /\ orders' \in Seq(Order) /\ ixUserId' \subseteq DOMAIN orders'
    BY <1>1
  <2> QED
    BY <1>1, <2>1, EmptyFiles DEF FilesOK
<1> QED
  BY <1>1, <1>2, <1>3, <1>4 DEF Restarts, StaysOK

-----------------------------------------------------------------------------
(* The invariant                                                           *)

LEMMA StepKinds ==
  ASSUME SystemInv, Step
  PROVE  (Rests \/ Writes \/ Undoes \/ Restarts) /\ StaysOK
<1>1. ASSUME NEW t \in 0 .. MaxTime,
             ReadTimestamp(t) /\ UNCHANGED <<accountVars, catalogVars, rideSeats, orderVars>>
      PROVE  Rests /\ StaysOK
  BY <1>1, ReadTimestampStep
<1>2. ASSUME UserCommand PROVE (Rests \/ Writes) /\ StaysOK
  BY <1>2, UserCommandStep
<1>3. ASSUME TrainCommand PROVE Writes /\ StaysOK
  BY <1>3, TrainCommandStep
<1>4. ASSUME OrderCommand PROVE Writes /\ StaysOK
  BY <1>4, OrderCommandStep
<1>5. ASSUME RefundStep PROVE (Rests \/ Writes) /\ StaysOK
  BY <1>5, RefundStepStep
<1>6. ASSUME Clean PROVE Restarts /\ StaysOK
  BY <1>6, CleanStep
<1>7. ASSUME NEW t \in 0 .. MaxTime, Rollback(t) PROVE Rests /\ StaysOK
  BY <1>7, RollbackStep
<1>8. ASSUME Undo PROVE Undoes /\ StaysOK
  BY <1>8, UndoStep
<1>9. ASSUME EndRollback PROVE Rests /\ StaysOK
  BY <1>9, EndRollbackStep
<1> QED
  BY <1>1, <1>2, <1>3, <1>4, <1>5, <1>6, <1>7, <1>8, <1>9 DEF Step

LEMMA NextIsStep ==
  ASSUME Next
  PROVE  Step /\ HistoryNext
BY DEF Next, HistoryNext

LEMMA SystemInit ==
  ASSUME Init
  PROVE  SystemInv
<1>1. /\ now = 0 /\ log = <<>> /\ call = [cmd |-> "none"] /\ users = <<>>
      /\ trains = <<>> /\ freeTrains = <<>> /\ ixId = {} /\ ixStop = {} /\ rideSeats = <<>>
      /\ orders = <<>> /\ ixUserId = {} /\ pendingOrders = {}
  BY DEF Init, UserPart!Init, UserPart!NoCall, TrainPart!Init
<1>2. DataOK(Data)
  <2>1. PICK w : w = Data
    OBVIOUS
  <2>2. /\ w.trains = <<>> /\ w.names = {} /\ w.stops = {} /\ w.pending = {}
        /\ DOMAIN w.seats = {} /\ DOMAIN w.book = {}
    BY <1>1, <2>1, DataParts
  <2> QED
    BY <2>1, <2>2, NothingIsOK
<1>3. LogOK
  BY <1>1 DEF LogOK
<1>4. HistoryOK /\ HistoryUndoes
  BY <1>1, <1>2, <1>3, HistoryStart
<1>5. CallOK
  BY <1>1, Calls DEF CallOK, Idle, NoCall
<1>6. FilesOK
  BY <1>1, EmptyFiles DEF FilesOK
<1> QED
  BY <1>3, <1>4, <1>5, <1>6 DEF SystemInv

LEMMA HistoryRestarts ==
  ASSUME log' = <<>>, DataOK(Data')
  PROVE  HistoryOK' /\ HistoryUndoes'
<1>1. Len(log') = 0
  OBVIOUS
<1>2. \A k \in 1 .. Len(log') + 1 : Past(k)' = Data'
  BY <1>1 DEF Past
<1> QED
  BY <1>1, <1>2 DEF HistoryOK, HistoryUndoes

LEMMA SystemStep ==
  ASSUME SystemInv, Next
  PROVE  SystemInv'
<1>1. /\ LogOK /\ HistoryOK /\ HistoryUndoes /\ HistoryNext
      /\ (Rests \/ Writes \/ Undoes \/ Restarts) /\ StaysOK
  BY NextIsStep, StepKinds DEF SystemInv
<1>2. now' \in Int /\ FilesOK' /\ CallOK'
  BY <1>1 DEF StaysOK
<1>3. log \in Seq(Entry)
  BY <1>1 DEF LogOK
<1>4. CASE Rests
  <2>1. log' \in Seq(Entry)
    <3> HIDE DEF Entry
    <3> QED
      BY <1>3, <1>4 DEF Rests
  <2>2. HistoryOK' /\ HistoryUndoes'
    BY <1>1, <1>4, HistoryRests DEF Rests
  <2> QED
    BY <1>2, <2>1, <2>2 DEF SystemInv, LogOK
<1>5. CASE Writes
  <2>1. PICK c : Log(c) /\ Written(Data, Data', c)
    BY <1>5 DEF Writes
  <2>2. c \in Content /\ Data = Undone(Data', c) /\ CanUndo(Data', c) /\ DataOK(Data')
    BY <2>1 DEF Written
  <2>3. log' \in Seq(Entry)
    BY <1>1, <2>1, <2>2, LogGrows
  <2>4. HistoryOK' /\ HistoryUndoes'
    BY <1>1, <2>1, <2>2, HistoryGrows
  <2> QED
    BY <1>2, <2>3, <2>4 DEF SystemInv, LogOK
<1>6. CASE Undoes
  <2>1. HasEntryToUndo /\ DestroyEntry /\ Data' = Undone(Data, Newest.content)
    BY <1>6 DEF Undoes
  <2>2. log' \in Seq(Entry)
    BY <1>1, <2>1, LogShrinks
  <2>3. HistoryOK' /\ HistoryUndoes'
    BY <1>1, <2>1, HistoryShrinks
  <2> QED
    BY <1>2, <2>2, <2>3 DEF SystemInv, LogOK
<1>7. CASE Restarts
  <2>1. log' = <<>> /\ DataOK(Data')
    BY <1>7 DEF Restarts
  <2>2. log' \in Seq(Entry)
    <3> HIDE DEF Entry
    <3> QED
      BY <2>1
  <2>3. HistoryOK' /\ HistoryUndoes'
    BY <2>1, HistoryRestarts
  <2> QED
    BY <1>2, <2>2, <2>3 DEF SystemInv, LogOK
<1> QED
  BY <1>1, <1>4, <1>5, <1>6, <1>7

LEMMA SystemRests ==
  ASSUME SystemInv, UNCHANGED <<vars, hist>>
  PROVE  SystemInv'
<1>1. /\ now' = now /\ log' = log /\ call' = call /\ hist' = hist
      /\ users' = users /\ ixUsername' = ixUsername /\ trains' = trains /\ freeTrains' = freeTrains
      /\ ixId' = ixId /\ ixStop' = ixStop /\ rideSeats' = rideSeats
      /\ orders' = orders /\ ixUserId' = ixUserId /\ pendingOrders' = pendingOrders
  BY DEF vars, accountVars, catalogVars, orderVars
<1>2. Data' = Data
  <2>1. SameCatalog(Data, Data') /\ SameBook(Data, Data') /\ Data'.accounts = Data.accounts
    BY <1>1, CatalogAndBookRest, AccountsRest DEF catalogVars, orderVars
  <2>2. Data'.seats = Data.seats
    BY <1>1, SeatsOutsideRefunds
  <2>3. PICK v, w : v = Data /\ w = Data'
    OBVIOUS
  <2>4. w = v
    BY <2>1, <2>2, <2>3, DataParts, NewDataParts, DataSame
  <2> QED
    BY <2>3, <2>4
<1>3. \A k : Past(k)' = Past(k)
  BY <1>1, <1>2 DEF Past
<1>4. HistoryOK' /\ HistoryUndoes'
  <2>1. HistoryOK'
    BY <1>1, <1>3 DEF SystemInv, HistoryOK
  <2>2. HistoryUndoes'
    BY <1>1, <1>3 DEF SystemInv, HistoryUndoes
  <2> QED
    BY <2>1, <2>2
<1>5. LogOK'
  BY <1>1 DEF SystemInv, LogOK
<1>6. FilesOK'
  BY <1>1, FileRests DEF SystemInv, FilesOK
<1>7. CallOK'
  BY <1>1 DEF SystemInv, CallOK, Refunding, Idle, NoCall, RollingBack
<1> QED
  BY <1>4, <1>5, <1>6, <1>7 DEF SystemInv

(* The data are in order, now and as they were before each entry of the    *)
(* log, which tells how to get from each of these states to the one before *)
(* (rollback.cpp and the visitors of all components).                      *)
THEOREM SystemInvariant == Spec => []SystemInv
<1>1. Init => SystemInv
  BY SystemInit
<1>2. SystemInv /\ [Next]_<<vars, hist>> => SystemInv'
  BY SystemStep, SystemRests
<1> QED
  BY <1>1, <1>2, PTL DEF Spec

-----------------------------------------------------------------------------
(* What it means for the commands                                          *)

(* The order file holds nothing but orders for a ride that is on sale:     *)
(* what RefundTicket and the visitors of rollbacks take for granted.       *)
THEOREM OrdersKeepTheirRide == Spec => []OrdersHaveTheirRide
<1>1. ASSUME SystemInv PROVE OrdersHaveTheirRide
  <2>1. DataOK(Data) /\ FilesOK
    BY <1>1, PresentOK DEF SystemInv
  <2>2. CatalogOK(Data) /\ DOMAIN Data.seats = DOMAIN rideSeats
    BY <2>1, DataParts DEF DataOK
  <2>3. /\ \A i \in DOMAIN trains : ~ (trains[i].released /\ trains[i].deleted)
        /\ ixId = {<<trains[i].name, i>> : i \in {j \in DOMAIN trains : ~ trains[j].deleted}}
        /\ \A r \in DOMAIN rideSeats : r[1] \in DOMAIN trains /\ trains[r[1]].released
    <3>1. Data.trains = trains /\ Data.names = ixId
      BY DataParts
    <3> QED
      BY <2>2, <3>1 DEF CatalogOK
  <2>4. ASSUME NEW id \in ixUserId
        PROVE  /\ orders[id].ride \in DOMAIN rideSeats
               /\ orders[id].ride[1] \in DOMAIN trains
               /\ trains[orders[id].ride[1]].released
               /\ OnSale(orders[id].ride[1])
    <3>1. PICK r : r = orders[id].ride
      OBVIOUS
    <3>2. r \in DOMAIN rideSeats
      BY <2>1, <3>1, BookIsOfFile
    <3>3. r[1] \in DOMAIN trains /\ trains[r[1]].released /\ ~ trains[r[1]].deleted
      BY <2>3, <3>2
    <3>4. <<trains[r[1]].name, r[1]>> \in ixId
      BY <2>3, <3>3
    <3> QED
      BY <3>1, <3>2, <3>3, <3>4 DEF OnSale
  <2> QED
    BY <2>4 DEF OrdersHaveTheirRide
<1> QED
  BY <1>1, SystemInvariant, PTL

LEMMA SystemSeatsHeld ==
  ASSUME FilesOK, BookOK(Data), NEW r, NEW e
  PROVE  OrderPart!SeatsHeld(r, e) = Held(Data.book, r, e)
<1> DEFINE S == {id \in ixUserId : /\ orders[id].ride = r
                                   /\ orders[id].status = "success"
                                   /\ e \in Trip(orders[id].from, orders[id].to)}
<1>1. \A from, to : OrderPart!Trip(from, to) = Trip(from, to)
  BY DEF OrderPart!Trip, Trip
<1>2. S = {id \in ixUserId : /\ orders[id].ride = r
                             /\ orders[id].status = "success"
                             /\ e \in OrderPart!Trip(orders[id].from, orders[id].to)}
  BY <1>1
<1>3. OrderPart!SeatsHeld(r, e) = SeatsOf(orders, S)
  <2>1. PICK T : T = S
    OBVIOUS
  <2>2. T = {id \in ixUserId : /\ orders[id].ride = r
                               /\ orders[id].status = "success"
                               /\ e \in OrderPart!Trip(orders[id].from, orders[id].to)}
    BY <1>2, <2>1
  <2> HIDE DEF S
  <2>3. OrderPart!SeatsHeld(r, e) = SeatsOf(orders, T)
    BY <2>2 DEF OrderPart!SeatsHeld, SeatsOf, OrderPart!MapThenSumSet, MapThenSumSet,
                OrderPart!MapThenFoldSet, MapThenFoldSet
  <2> QED
    BY <2>1, <2>3
<1>4. /\ DOMAIN Data.book = ixUserId
      /\ \A id \in ixUserId : Data.book[id] = orders[id] /\ Data.book[id] \in Order
      /\ IsFiniteSet(ixUserId)
  BY DataParts DEF BookOK
<1>5. Holders(Data.book, r, e) = S
  BY <1>4 DEF Holders
<1>6. /\ IsFiniteSet(S)
      /\ \A id \in S : orders[id].seats \in Int /\ Data.book[id].seats = orders[id].seats
  BY <1>4, FS_Subset DEF Order
<1> HIDE DEF S
<1>7. PICK book : book = Data.book
  OBVIOUS
<1>8. SeatsOf(book, S) = SeatsOf(orders, S)
  BY <1>6, <1>7, SeatsOfType
<1> QED
  BY <1>3, <1>5, <1>7, <1>8 DEF Held

(* On every edge of every ride on sale the free seats and those of the     *)
(* successful orders are those of the train, and none is sold twice: while *)
(* rides come and go, and trains, orders and accounts are rolled back.     *)
THEOREM SystemSeatsAddUp == Spec => []SeatsAccounted
<1>1. ASSUME SystemInv PROVE SeatsAccounted
  <2>1. BookOK(Data) /\ FilesOK
    BY <1>1, PresentOK DEF SystemInv, DataOK
  <2>2. ASSUME NEW r \in DOMAIN rideSeats, NEW e \in OrderPart!Edges(r)
        PROVE  /\ OrderPart!SeatsNow(r)[e] >= 0
               /\ OrderPart!SeatsNow(r)[e] + OrderPart!SeatsHeld(r, e) = SeatCount
    <3>1. DOMAIN Data.seats = DOMAIN rideSeats /\ Data.seats[r] = OrderPart!SeatsNow(r)
      BY DataParts
    <3>2. r \in Rides
      BY <2>1, <3>1 DEF BookOK
    <3>3. e \in Edges
      BY <3>2, SameSeats
    <3>4. /\ Data.seats[r] \in [Edges -> Nat]
          /\ Data.seats[r][e] + Held(Data.book, r, e) = SeatCount
      BY <2>1, <3>1, <3>3 DEF BookOK
    <3>5. OrderPart!SeatsHeld(r, e) = Held(Data.book, r, e)
      BY <2>1, SystemSeatsHeld
    <3>6. Data.seats[r][e] \in Nat
      BY <3>3, <3>4
    <3> QED
      BY <3>1, <3>4, <3>5, <3>6
  <2> QED
    BY <2>2 DEF SeatsAccounted
<1> QED
  BY <1>1, SystemInvariant, PTL

(* A visitor of whatever component brings all the data back to what they   *)
(* were when the entry was written, ids and records used again or not.     *)
THEOREM RollbackRestoresTheSystem == Spec => RollbackRestoresAll
<1> DEFINE Restores == Len(log') = Len(log) - 1 /\ ~ Idle => Data' = hist[Len(log)]
<1>1. ASSUME SystemInv, Next PROVE Restores
  <2>1. SUFFICES ASSUME Len(log') = Len(log) - 1, ~ Idle PROVE Data' = hist[Len(log)]
    OBVIOUS
  <2>2. /\ LogOK /\ HistoryOK /\ HistoryUndoes /\ HistoryNext
        /\ (Rests \/ Writes \/ Undoes \/ Restarts)
    BY <1>1, NextIsStep, StepKinds DEF SystemInv
  <2>3. Len(log) \in Nat
    BY <2>2, LogLength
  <2>4. ~ Rests
    BY <2>1, <2>3 DEF Rests
  <2>5. ~ Writes
    <3>1. SUFFICES ASSUME Writes PROVE FALSE
      OBVIOUS
    <3>2. PICK c : Log(c) /\ Written(Data, Data', c)
      BY <3>1 DEF Writes
    <3>3. c \in Content
      BY <3>2 DEF Written
    <3>4. Len(log') = Len(log) + 1
      BY <2>2, <3>2, <3>3, LogGrows
    <3> QED
      BY <2>1, <2>3, <3>4
  <2>6. ~ Restarts
    BY <2>1 DEF Restarts
  <2>7. HasEntryToUndo /\ DestroyEntry /\ Data' = Undone(Data, Newest.content)
    BY <2>2, <2>4, <2>5, <2>6 DEF Undoes
  <2> QED
    BY <2>2, <2>7, HistoryShrinks
<1>2. ASSUME SystemInv, [Next]_<<vars, hist>> PROVE [Restores]_vars
  <2>1. Next \/ UNCHANGED <<vars, hist>>
    BY <1>2
  <2>2. CASE Next
    BY <1>1, <1>2, <2>2
  <2>3. CASE UNCHANGED <<vars, hist>>
    BY <2>3
  <2> QED
    BY <2>1, <2>2, <2>3
<1> QED
  BY <1>2, SystemInvariant, PTL DEF Spec, RollbackRestoresAll
=============================================================================
