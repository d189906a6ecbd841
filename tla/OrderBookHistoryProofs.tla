----------------------- MODULE OrderBookHistoryProofs -----------------------
(***************************************************************************)
(* Theorems about the order book, for every set of users, every ride,      *)
(* every number of orders and every time. First the types, the inductive   *)
(* invariant of OrderBookHistory, and what follows from it: the pending    *)
(* index is exact, nothing is oversold, no one waits in vain, and a        *)
(* rollback restores the book it should. Then what the order book promises *)
(* its users: every seat is accounted for, the queue of a ride is served   *)
(* in order, and the book behaves as TicketService.                        *)
(***************************************************************************)
EXTENDS OrderBookHistory, RideSeatsProofs, SequenceTheorems

USE RidesAssumption, BoundsAssumption, MaxTimeAssumption

-----------------------------------------------------------------------------
(* Types                                                                   *)

LEMMA RequestType ==
  ASSUME NEW o \in Requests
  PROVE  /\ o.user \in Users /\ o.ride \in Rides /\ o.from \in Nat /\ o.to \in Nat
         /\ o.seats \in Nat \ {0}
         /\ \A s \in Status : [o EXCEPT !.status = s] \in Order
         /\ \A s \in Status : [o EXCEPT !.status = s].status = s
  BY DEF Requests, Order, Status

LEMMA SetStatusType ==
  ASSUME NEW o \in Order, NEW s \in Status
  PROVE  /\ [o EXCEPT !.status = s] \in Order
         /\ [o EXCEPT !.status = s].status = s
         /\ HasTrip(o) => HasTrip([o EXCEPT !.status = s])
  BY DEF Order, HasTrip

LEMMA SeatsType ==
  ASSUME NEW o \in Order, NEW r, NEW rem \in [Edges(r) -> Int]
  PROVE  /\ Take(rem, o) \in [Edges(r) -> Int]
         /\ GiveBack(rem, o) \in [Edges(r) -> Int]
         /\ Take(GiveBack(rem, o), o) = rem
         /\ GiveBack(Take(rem, o), o) = rem
<1>1. o.seats \in Int /\ -o.seats \in Int /\ o.from \in Nat /\ o.to \in Nat
  BY DEF Order
<1>2. Take(rem, o) \in [Edges(r) -> Int] /\ GiveBack(rem, o) \in [Edges(r) -> Int]
  BY <1>1, RangeAddType DEF Take, GiveBack
<1>3. Take(GiveBack(rem, o), o) = rem /\ GiveBack(Take(rem, o), o) = rem
  BY <1>1, RangeAddInverse DEF Take, GiveBack
<1> QED
  BY <1>2, <1>3

LEMMA FrontOfSeq ==
  ASSUME NEW S, NEW s \in Seq(S), s # <<>>
  PROVE  /\ Len(s) \in Nat \ {0}
         /\ SubSeq(s, 1, Len(s) - 1) \in Seq(S)
         /\ Len(SubSeq(s, 1, Len(s) - 1)) = Len(s) - 1
         /\ \A k \in 1 .. Len(s) - 1 : SubSeq(s, 1, Len(s) - 1)[k] = s[k]
         /\ s[Len(s)] \in S
<1>1. Len(s) \in Nat \ {0} /\ DOMAIN s = 1 .. Len(s)
  OBVIOUS
<1>2. \A k \in 1 .. Len(s) - 1 : s[k] \in S
  BY <1>1
<1>3. /\ SubSeq(s, 1, Len(s) - 1) \in Seq(S)
      /\ Len(SubSeq(s, 1, Len(s) - 1)) = IF 1 <= Len(s) - 1 THEN Len(s) - 1 - 1 + 1 ELSE 0
      /\ \A k \in 1 .. Len(s) - 1 - 1 + 1 : SubSeq(s, 1, Len(s) - 1)[k] = s[1 + k - 1]
  <2>1. 1 \in Int /\ Len(s) - 1 \in Int
    BY <1>1
  <2> QED
    BY <1>2, <2>1, SubSeqProperties
<1> QED
  BY <1>1, <1>3

LEMMA TypeInit == Init => TypeOK
  BY DEF Init, TypeOK, CallOK, Idle, NoCall, Edges

LEMMA LogType ==
  ASSUME TypeOK, NEW c \in Content, c.id \in DOMAIN orders', Log(c),
         DOMAIN orders \subseteq DOMAIN orders'
  PROVE  /\ log' \in Seq([timestamp : Nat, content : Content])
         /\ \A k \in DOMAIN log' : log'[k].content.id \in DOMAIN orders'
<1>1. [timestamp |-> now, content |-> c] \in [timestamp : Nat, content : Content]
  BY DEF TypeOK
<1> QED
  BY <1>1 DEF TypeOK, Log

LEMMA NewestType ==
  ASSUME TypeOK, log # <<>>
  PROVE  /\ Len(log) \in Nat \ {0}
         /\ DOMAIN log = 1 .. Len(log)
         /\ log[Len(log)] = Newest
         /\ Newest \in [timestamp : Nat, content : Content]
         /\ Newest.content \in Content
         /\ Newest.content.id \in DOMAIN orders
<1> DEFINE Entry == [timestamp : Nat, content : Content]
<1>1. log \in Seq(Entry) /\ \A k \in DOMAIN log : log[k].content.id \in DOMAIN orders
  BY DEF TypeOK
<1>2. Len(log) \in Nat \ {0} /\ DOMAIN log = 1 .. Len(log) /\ log[Len(log)] \in Entry
  <2> HIDE DEF Entry
  <2> QED
    BY <1>1
<1>3. Newest.content \in Content
  BY <1>2 DEF Newest
<1> QED
  BY <1>1, <1>2, <1>3 DEF Newest

LEMMA OrderType ==
  ASSUME TypeOK, NEW id \in DOMAIN orders
  PROVE  /\ id \in Nat /\ DOMAIN orders = 1 .. Len(orders)
         /\ orders[id] \in Order
         /\ orders[id].ride \in Rides
         /\ orders[id].status \in Status
         /\ rideSeats[orders[id].ride] \in [Edges(orders[id].ride) -> Int]
         /\ HasTrip(orders[id])
<1>1. orders[id] \in Order /\ id \in Nat /\ DOMAIN orders = 1 .. Len(orders)
  <2> HIDE DEF Order
  <2> QED
    BY DEF TypeOK
<1>2. orders[id].ride \in Rides /\ orders[id].status \in Status
  BY <1>1 DEF Order
<1> QED
  BY <1>1, <1>2 DEF TypeOK

LEMMA DestroyType ==
  ASSUME TypeOK, HasEntryToUndo, DestroyEntry, DOMAIN orders' = DOMAIN orders
  PROVE  /\ log' \in Seq([timestamp : Nat, content : Content])
         /\ \A k \in DOMAIN log' : log'[k].content.id \in DOMAIN orders'
         /\ Len(log) \in Nat \ {0} /\ Len(log') = Len(log) - 1
         /\ \A k \in 1 .. Len(log) - 1 : log'[k] = log[k]
         /\ Newest \in [timestamp : Nat, content : Content]
         /\ Newest.content \in Content
         /\ Newest.content.id \in DOMAIN orders
<1> DEFINE Entry == [timestamp : Nat, content : Content]
<1>1. log \in Seq(Entry) /\ log # <<>>
  BY DEF TypeOK, HasEntryToUndo
<1>2. /\ Len(log) \in Nat \ {0}
      /\ log' \in Seq(Entry)
      /\ Len(log') = Len(log) - 1
      /\ \A k \in 1 .. Len(log) - 1 : log'[k] = log[k]
      /\ log[Len(log)] \in Entry
  <2> HIDE DEF Entry
  <2> QED
    BY <1>1, FrontOfSeq DEF DestroyEntry
<1>3. DOMAIN log = 1 .. Len(log) /\ DOMAIN log' = 1 .. Len(log) - 1
  BY <1>1, <1>2
<1>4. ASSUME NEW k \in DOMAIN log' PROVE log'[k].content.id \in DOMAIN orders'
  <2>1. k \in DOMAIN log /\ log'[k] = log[k]
    BY <1>2, <1>3
  <2>2. \A i \in DOMAIN log : log[i].content.id \in DOMAIN orders
    BY DEF TypeOK
  <2> QED
    BY <2>1, <2>2
<1> QED
  BY <1>1, <1>2, <1>4, NewestType

(* The status of a visible order changes, and nothing else of the file.    *)
LEMMA StatusUpdateType ==
  ASSUME TypeOK, NEW id \in DOMAIN orders, NEW s \in Status,
         orders' = [orders EXCEPT ![id].status = s]
  PROVE  /\ orders' \in Seq(Order)
         /\ Len(orders') = Len(orders)
         /\ DOMAIN orders' = DOMAIN orders
         /\ \A i \in DOMAIN orders' : HasTrip(orders'[i])
<1>1. orders[id] \in Order /\ orders \in Seq(Order) /\ DOMAIN orders = 1 .. Len(orders)
  BY DEF TypeOK
<1>2. orders' = [orders EXCEPT ![id] = [orders[id] EXCEPT !.status = s]]
  OBVIOUS
<1>3. HasTrip(orders[id])
  BY DEF TypeOK
<1>4. [orders[id] EXCEPT !.status = s] \in Order /\ HasTrip([orders[id] EXCEPT !.status = s])
  BY <1>1, <1>3, SetStatusType
<1>5. orders' \in Seq(Order) /\ Len(orders') = Len(orders) /\ DOMAIN orders' = DOMAIN orders
  BY <1>1, <1>2, <1>4
<1>6. ASSUME NEW i \in DOMAIN orders PROVE HasTrip(orders'[i])
  BY <1>1, <1>2, <1>4 DEF TypeOK
<1> QED
  BY <1>5, <1>6

LEMMA CreateType ==
  ASSUME TypeOK, NEW o \in Requests, Acceptable(o), NEW s \in {"success", "pending"},
         CreateOrder(o, s)
  PROVE  /\ orders' \in Seq(Order)
         /\ Len(orders) \in Nat /\ NextId = Len(orders) + 1 /\ Len(orders') = NextId
         /\ DOMAIN orders = 1 .. Len(orders) /\ DOMAIN orders' = 1 .. NextId
         /\ \A i \in DOMAIN orders : orders'[i] = orders[i]
         /\ orders'[NextId] = [o EXCEPT !.status = s]
         /\ \A i \in DOMAIN orders' : HasTrip(orders'[i])
         /\ log' \in Seq([timestamp : Nat, content : Content])
         /\ \A k \in DOMAIN log' : log'[k].content.id \in DOMAIN orders'
<1>1. orders \in Seq(Order) /\ [o EXCEPT !.status = s] \in Order
  BY RequestType DEF TypeOK, Status
<1>2. orders' = Append(orders, [o EXCEPT !.status = s])
  BY DEF CreateOrder
<1>3. /\ orders' \in Seq(Order)
      /\ Len(orders) \in Nat /\ NextId = Len(orders) + 1 /\ Len(orders') = NextId
      /\ DOMAIN orders = 1 .. Len(orders) /\ DOMAIN orders' = 1 .. NextId
      /\ \A i \in DOMAIN orders : orders'[i] = orders[i]
      /\ orders'[NextId] = [o EXCEPT !.status = s]
  BY <1>1, <1>2 DEF NextId
<1>4. HasTrip([o EXCEPT !.status = s])
  BY DEF Requests, Acceptable, HasTrip
<1>5. ASSUME NEW i \in DOMAIN orders' PROVE HasTrip(orders'[i])
  <2>1. CASE i = NextId
    BY <1>3, <1>4, <2>1
  <2>2. CASE i # NextId
    <3>1. i \in DOMAIN orders
      BY <1>3, <2>2
    <3> QED
      BY <1>3, <3>1 DEF TypeOK
  <2> QED
    BY <2>1, <2>2
<1>6. [op |-> "BuyTicket", id |-> NextId] \in Content
  BY <1>3 DEF Content
<1>7. NextId \in DOMAIN orders' /\ DOMAIN orders \subseteq DOMAIN orders'
  BY <1>3
<1>8. /\ log' \in Seq([timestamp : Nat, content : Content])
      /\ \A k \in DOMAIN log' : log'[k].content.id \in DOMAIN orders'
  BY <1>6, <1>7, LogType DEF CreateOrder
<1> QED
  BY <1>3, <1>5, <1>8

(* The seat records of an action that changes one of them.                 *)
LEMMA RideSeatsType ==
  ASSUME TypeOK, NEW r \in Rides, NEW rem \in [Edges(r) -> Int],
         rideSeats' = [rideSeats EXCEPT ![r] = rem]
  PROVE  /\ DOMAIN rideSeats' = Rides
         /\ \A q \in Rides : rideSeats'[q] \in [Edges(q) -> Int]
  BY DEF TypeOK

(* An undo step leaves the status it restores, the indices inside the      *)
(* file, and changes the seats of one ride at most.                        *)
LEMMA TypeStep == TypeOK /\ [Next]_vars => TypeOK'
<1> SUFFICES ASSUME TypeOK, [Next]_vars PROVE TypeOK'
  OBVIOUS
<1> USE DEF bookVars
<1>1. ASSUME NEW t \in 0 .. MaxTime, ReadTimestamp(t), UNCHANGED <<usersLoggedIn, bookVars>>
      PROVE  TypeOK'
  BY <1>1 DEF ReadTimestamp, TypeOK, CallOK, Idle, Refunding
<1>2. ASSUME NEW u \in Users, Login(u) \/ Logout(u)
      PROVE  TypeOK'
  BY <1>2 DEF Login, Logout, TypeOK, CallOK, Idle, Refunding
<1>3. ASSUME NEW o \in Requests, BuyTicketSuccess(o)
      PROVE  TypeOK'
  <2>1. /\ Acceptable(o) /\ CreateOrder(o, "success")
        /\ rideSeats' = [rideSeats EXCEPT ![o.ride] = Take(rideSeats[o.ride], o)]
        /\ pendingOrders' = pendingOrders
    BY <1>3 DEF BuyTicketSuccess
  <2>2. /\ orders' \in Seq(Order) /\ DOMAIN orders' = 1 .. NextId
        /\ DOMAIN orders = 1 .. Len(orders) /\ NextId = Len(orders) + 1 /\ Len(orders) \in Nat
        /\ \A i \in DOMAIN orders' : HasTrip(orders'[i])
        /\ log' \in Seq([timestamp : Nat, content : Content])
        /\ \A k \in DOMAIN log' : log'[k].content.id \in DOMAIN orders'
    BY <2>1, CreateType
  <2>3. o.ride \in Rides /\ Take(rideSeats[o.ride], o) \in [Edges(o.ride) -> Int]
    <3>1. rideSeats[o.ride] \in [Edges(o.ride) -> Int] /\ o.ride \in Rides
      BY RequestType DEF TypeOK
    <3>2. -o.seats \in Int /\ o.from \in Nat /\ o.to \in Nat
      BY RequestType
    <3> QED
      BY <3>1, <3>2, RangeAddType DEF Take
  <2>4. DOMAIN rideSeats' = Rides /\ \A q \in Rides : rideSeats'[q] \in [Edges(q) -> Int]
    BY <2>1, <2>3, RideSeatsType
  <2>5. CallOK'
    BY <2>1 DEF CreateOrder, CallOK, Idle
  <2>6. ixUserId' \subseteq DOMAIN orders' /\ pendingOrders' \subseteq DOMAIN orders'
    BY <2>1, <2>2 DEF CreateOrder, TypeOK
  <2> QED
    BY <2>1, <2>2, <2>4, <2>5, <2>6 DEF CreateOrder, TypeOK
<1>4. ASSUME NEW o \in Requests, BuyTicketEnqueued(o)
      PROVE  TypeOK'
  <2>1. /\ Acceptable(o) /\ CreateOrder(o, "pending")
        /\ rideSeats' = rideSeats
        /\ pendingOrders' = pendingOrders \cup {NextId}
    BY <1>4 DEF BuyTicketEnqueued
  <2>2. /\ orders' \in Seq(Order) /\ DOMAIN orders' = 1 .. NextId
        /\ DOMAIN orders = 1 .. Len(orders) /\ NextId = Len(orders) + 1 /\ Len(orders) \in Nat
        /\ \A i \in DOMAIN orders' : HasTrip(orders'[i])
        /\ log' \in Seq([timestamp : Nat, content : Content])
        /\ \A k \in DOMAIN log' : log'[k].content.id \in DOMAIN orders'
    BY <2>1, CreateType
  <2>3. CallOK'
    BY <2>1 DEF CreateOrder, CallOK, Idle
  <2>4. ixUserId' \subseteq DOMAIN orders' /\ pendingOrders' \subseteq DOMAIN orders'
    BY <2>1, <2>2 DEF CreateOrder, TypeOK
  <2> QED
    BY <2>1, <2>2, <2>3, <2>4 DEF CreateOrder, TypeOK
<1>5. ASSUME NEW u \in Users, NEW n \in 1 .. MaxOrders, NEW id \in ixUserId,
             MarkRefunded(u, n, id)
      PROVE  /\ orders' \in Seq(Order) /\ DOMAIN orders' = DOMAIN orders
             /\ \A i \in DOMAIN orders' : HasTrip(orders'[i])
             /\ log' \in Seq([timestamp : Nat, content : Content])
             /\ \A k \in DOMAIN log' : log'[k].content.id \in DOMAIN orders'
             /\ orders[id] \in Order
  <2>1. id \in DOMAIN orders /\ orders[id] \in Order
    BY DEF TypeOK
  <2>2. /\ orders' \in Seq(Order) /\ DOMAIN orders' = DOMAIN orders
        /\ \A i \in DOMAIN orders' : HasTrip(orders'[i])
    BY <1>5, <2>1, StatusUpdateType DEF MarkRefunded, Status
  <2>3. [op |-> "RefundTicket", id |-> id, status |-> orders[id].status] \in Content
    <3>1. orders[id].status \in {"success", "pending"} /\ id \in Nat
      BY <1>5, <2>1, OrderType DEF MarkRefunded, Status
    <3> QED
      BY <3>1 DEF Content
  <2>4. /\ log' \in Seq([timestamp : Nat, content : Content])
        /\ \A k \in DOMAIN log' : log'[k].content.id \in DOMAIN orders'
    BY <1>5, <2>1, <2>2, <2>3, LogType DEF MarkRefunded
  <2> QED
    BY <2>1, <2>2, <2>4
<1>6. ASSUME NEW u \in Users, NEW n \in 1 .. MaxOrders, NEW id \in ixUserId,
             RefundPending(u, n, id)
      PROVE  TypeOK'
  <2>1. MarkRefunded(u, n, id) /\ pendingOrders' = pendingOrders \ {id} /\ call' = call
    BY <1>6 DEF RefundPending
  <2>2. CallOK'
    BY <2>1 DEF MarkRefunded, CallOK, Idle
  <2> QED
    BY <1>5, <2>1, <2>2 DEF MarkRefunded, TypeOK
<1>7. ASSUME NEW u \in Users, NEW n \in 1 .. MaxOrders, NEW id \in ixUserId,
             RefundSuccess(u, n, id)
      PROVE  TypeOK'
  <2> DEFINE r == orders[id].ride
  <2>1. /\ MarkRefunded(u, n, id) /\ pendingOrders' = pendingOrders
        /\ call' = [cmd |-> "refund", ride |-> r, seats |-> GiveBack(rideSeats[r], orders[id]),
                    todo |-> {i \in pendingOrders : orders[i].ride = r}]
    BY <1>7 DEF RefundSuccess
  <2>2. orders[id] \in Order /\ r \in Rides /\ rideSeats[r] \in [Edges(r) -> Int]
    BY <1>5, <2>1 DEF Order, TypeOK
  <2>3. GiveBack(rideSeats[r], orders[id]) \in [Edges(r) -> Int]
    BY <2>2, SeatsType
  <2>4. CallOK'
    BY <2>1, <2>2, <2>3 DEF CallOK, Refunding, MarkRefunded, TypeOK
  <2> QED
    BY <1>5, <2>1, <2>4 DEF MarkRefunded, TypeOK
<1>8. ASSUME NEW t \in 0 .. MaxTime, Rollback(t)
      PROVE  TypeOK'
  <2>1. CallOK'
    BY <1>8 DEF Rollback, StartRollback, CallOK
  <2> QED
    BY <1>8, <2>1 DEF Rollback, StartRollback, TypeOK
<1>9. ASSUME NEW id \in pendingOrders, SkipOrder(id)
      PROVE  TypeOK'
  <2>1. CallOK'
    <3>1. /\ Refunding
          /\ call \in [cmd : {"refund"}, ride : Rides, seats : [Edges(call.ride) -> Int],
                       todo : SUBSET pendingOrders]
      BY <1>9 DEF SkipOrder, IsNextInQueue, TypeOK, CallOK, Refunding, Idle, NoCall
    <3>2. call' = [call EXCEPT !.todo = call.todo \ {id}] /\ pendingOrders' = pendingOrders
      BY <1>9 DEF SkipOrder
    <3>3. call'.ride = call.ride /\ call'.cmd = "refund"
      BY <3>1, <3>2
    <3>4. call' \in [cmd : {"refund"}, ride : Rides, seats : [Edges(call.ride) -> Int],
                     todo : SUBSET pendingOrders]
      BY <3>1, <3>2
    <3> QED
      BY <3>2, <3>3, <3>4 DEF CallOK, Refunding
  <2> QED
    BY <1>9, <2>1 DEF SkipOrder, TypeOK
<1>10. ASSUME NEW id \in pendingOrders, FulfillOrder(id)
       PROVE  TypeOK'
  <2>1. id \in DOMAIN orders /\ orders[id] \in Order
    BY DEF TypeOK
  <2>2. /\ orders' \in Seq(Order) /\ DOMAIN orders' = DOMAIN orders
        /\ \A i \in DOMAIN orders' : HasTrip(orders'[i])
    BY <1>10, <2>1, StatusUpdateType DEF FulfillOrder, Status
  <2>3. [op |-> "FulfillOrder", id |-> id] \in Content
    BY <2>1 DEF Content, TypeOK
  <2>4. /\ log' \in Seq([timestamp : Nat, content : Content])
        /\ \A k \in DOMAIN log' : log'[k].content.id \in DOMAIN orders'
    BY <1>10, <2>1, <2>2, <2>3, LogType DEF FulfillOrder
  <2>5. CallOK'
    <3>1. /\ Refunding
          /\ call \in [cmd : {"refund"}, ride : Rides, seats : [Edges(call.ride) -> Int],
                       todo : SUBSET pendingOrders]
      BY <1>10 DEF FulfillOrder, IsNextInQueue, TypeOK, CallOK, Refunding, Idle, NoCall
    <3>2. Take(call.seats, orders[id]) \in [Edges(call.ride) -> Int]
      BY <2>1, <3>1, SeatsType
    <3> QED
      BY <1>10, <3>1, <3>2 DEF FulfillOrder, CallOK, Refunding
  <2> QED
    BY <1>10, <2>2, <2>4, <2>5 DEF FulfillOrder, TypeOK
<1>11. CASE RefundDone
  <2>1. call.ride \in Rides /\ call.seats \in [Edges(call.ride) -> Int]
    BY <1>11 DEF RefundDone, TypeOK, CallOK, Refunding, Idle, NoCall
  <2>2. DOMAIN rideSeats' = Rides /\ \A q \in Rides : rideSeats'[q] \in [Edges(q) -> Int]
    BY <1>11, <2>1, RideSeatsType DEF RefundDone
  <2> QED
    BY <1>11, <2>2 DEF RefundDone, TypeOK, CallOK, Idle
<1>12. CASE UndoBuyTicket
  <2> DEFINE id == Newest.content.id
             o == orders[id]
  <2>1. HasEntryToUndo /\ DestroyEntry /\ UNCHANGED <<now, call, usersLoggedIn, orders>>
    BY <1>12 DEF UndoBuyTicket, Undoes
  <2>2. /\ log' \in Seq([timestamp : Nat, content : Content])
        /\ \A k \in DOMAIN log' : log'[k].content.id \in DOMAIN orders'
        /\ id \in DOMAIN orders
    BY <2>1, DestroyType
  <2>3. DOMAIN rideSeats' = Rides /\ \A q \in Rides : rideSeats'[q] \in [Edges(q) -> Int]
    <3>1. o \in Order /\ o.ride \in Rides /\ rideSeats[o.ride] \in [Edges(o.ride) -> Int]
      BY <2>2, OrderType
    <3>2. GiveBack(rideSeats[o.ride], o) \in [Edges(o.ride) -> Int]
      BY <3>1, SeatsType
    <3>3. \/ rideSeats' = rideSeats
          \/ rideSeats' = [rideSeats EXCEPT ![o.ride] = GiveBack(rideSeats[o.ride], o)]
      BY <1>12 DEF UndoBuyTicket
    <3> QED
      BY <3>1, <3>2, <3>3, RideSeatsType DEF TypeOK
  <2>4. /\ ixUserId' = ixUserId \ {id}
        /\ pendingOrders' = pendingOrders \ {id} \/ pendingOrders' = pendingOrders
    BY <1>12 DEF UndoBuyTicket
  <2>5. CallOK'
    BY <2>1 DEF TypeOK, CallOK, HasEntryToUndo, RollingBack, Refunding, Idle
  <2> QED
    BY <2>1, <2>2, <2>3, <2>4, <2>5 DEF TypeOK
<1>13. CASE UndoRefundTicket
  <2> DEFINE id == Newest.content.id
             o == orders[id]
             was == Newest.content.status
  <2>1. /\ HasEntryToUndo /\ DestroyEntry /\ UNCHANGED <<now, call, usersLoggedIn, ixUserId>>
        /\ Newest.content.op = "RefundTicket"
        /\ orders' = [orders EXCEPT ![id].status = was]
    BY <1>13 DEF UndoRefundTicket, Undoes
  <2>2. Newest.content \in Content /\ id \in DOMAIN orders
    BY <2>1, NewestType DEF HasEntryToUndo
  <2>3. was \in Status
    BY <2>1, <2>2 DEF Content, Status
  <2>4. /\ orders' \in Seq(Order) /\ DOMAIN orders' = DOMAIN orders
        /\ \A i \in DOMAIN orders' : HasTrip(orders'[i])
    BY <2>1, <2>2, <2>3, StatusUpdateType
  <2>5. /\ log' \in Seq([timestamp : Nat, content : Content])
        /\ \A k \in DOMAIN log' : log'[k].content.id \in DOMAIN orders'
    BY <2>1, <2>4, DestroyType
  <2>6. DOMAIN rideSeats' = Rides /\ \A q \in Rides : rideSeats'[q] \in [Edges(q) -> Int]
    <3>1. o \in Order /\ o.ride \in Rides /\ rideSeats[o.ride] \in [Edges(o.ride) -> Int]
      BY <2>2, OrderType
    <3>2. Take(rideSeats[o.ride], o) \in [Edges(o.ride) -> Int]
      BY <3>1, SeatsType
    <3>3. \/ rideSeats' = rideSeats
          \/ rideSeats' = [rideSeats EXCEPT ![o.ride] = Take(rideSeats[o.ride], o)]
      BY <1>13 DEF UndoRefundTicket
    <3> QED
      BY <3>1, <3>2, <3>3, RideSeatsType DEF TypeOK
  <2>7. pendingOrders' = pendingOrders \cup {id} \/ pendingOrders' = pendingOrders
    BY <1>13 DEF UndoRefundTicket
  <2>8. CallOK'
    BY <2>1 DEF TypeOK, CallOK, HasEntryToUndo, RollingBack, Refunding, Idle
  <2> QED
    BY <2>1, <2>2, <2>4, <2>5, <2>6, <2>7, <2>8 DEF TypeOK
<1>14. CASE UndoFulfillOrder
  <2> DEFINE id == Newest.content.id
             o == orders[id]
  <2>1. /\ HasEntryToUndo /\ DestroyEntry /\ UNCHANGED <<now, call, usersLoggedIn, ixUserId>>
        /\ orders' = [orders EXCEPT ![id].status = "pending"]
        /\ rideSeats' = [rideSeats EXCEPT ![o.ride] = GiveBack(rideSeats[o.ride], o)]
        /\ pendingOrders' = pendingOrders \cup {id}
    BY <1>14 DEF UndoFulfillOrder, Undoes
  <2>2. id \in DOMAIN orders
    BY <2>1, NewestType DEF HasEntryToUndo
  <2>3. /\ orders' \in Seq(Order) /\ DOMAIN orders' = DOMAIN orders
        /\ \A i \in DOMAIN orders' : HasTrip(orders'[i])
    BY <2>1, <2>2, StatusUpdateType DEF Status
  <2>4. /\ log' \in Seq([timestamp : Nat, content : Content])
        /\ \A k \in DOMAIN log' : log'[k].content.id \in DOMAIN orders'
    BY <2>1, <2>3, DestroyType
  <2>5. DOMAIN rideSeats' = Rides /\ \A q \in Rides : rideSeats'[q] \in [Edges(q) -> Int]
    <3>1. o \in Order /\ o.ride \in Rides /\ rideSeats[o.ride] \in [Edges(o.ride) -> Int]
      BY <2>2, OrderType
    <3>2. GiveBack(rideSeats[o.ride], o) \in [Edges(o.ride) -> Int]
      BY <3>1, SeatsType
    <3> QED
      BY <2>1, <3>1, <3>2, RideSeatsType
  <2>6. CallOK'
    BY <2>1 DEF TypeOK, CallOK, HasEntryToUndo, RollingBack, Refunding, Idle
  <2> QED
    BY <2>1, <2>2, <2>3, <2>4, <2>5, <2>6 DEF TypeOK
<1>15. CASE EndRollback
  BY <1>15 DEF EndRollback, RollbackDone, TypeOK, CallOK, Idle
<1>16. CASE UNCHANGED vars
  BY <1>16 DEF vars, TypeOK, CallOK, Idle, Refunding
<1> QED
  BY <1>1, <1>2, <1>3, <1>4, <1>6, <1>7, <1>8, <1>9, <1>10, <1>11, <1>12, <1>13, <1>14,
     <1>15, <1>16 DEF Next, Command, LoopStep

(* The type invariant holds in every reachable state.                      *)
THEOREM TypeCorrect == Spec => []TypeOK
  BY TypeInit, TypeStep, PTL DEF Spec

-----------------------------------------------------------------------------
(* The past of the book                                                    *)

H == HistoryInOrder /\ HistoryUndoes

-----------------------------------------------------------------------------
(* Seats                                                                   *)

LEMMA FitsIff ==
  ASSUME NEW p \in Order, HasTrip(p), NEW rem \in [Edges(p.ride) -> Int]
  PROVE  Fits(p, rem) <=> \A e \in Trip(p.from, p.to) : rem[e] >= p.seats
<1>1. p.from \in Nat /\ p.to \in Nat /\ p.from < p.to /\ p.seats \in Int
  BY DEF Order, HasTrip
<1>2. Trip(p.from, p.to) \subseteq Edges(p.ride)
  <2>1. p.to <= Segments[p.ride] /\ Segments[p.ride] \in Nat
    BY DEF Order, HasTrip
  <2> QED
    BY <1>1, <2>1 DEF Trip, Edges
<1> QED
  BY <1>1, <1>2, TicketsAvailableIsMinimum DEF Fits

(* What does not fit does not fit when there are fewer seats.              *)
LEMMA UnfitStays ==
  ASSUME NEW p \in Order, HasTrip(p),
         NEW more \in [Edges(p.ride) -> Int], NEW less \in [Edges(p.ride) -> Int],
         \A e \in Edges(p.ride) : less[e] <= more[e],
         ~ Fits(p, more)
  PROVE  ~ Fits(p, less)
<1>1. PICK e \in Trip(p.from, p.to) : ~ (more[e] >= p.seats)
  BY FitsIff
<1>2. e \in Edges(p.ride)
  <2>1. p.from \in Nat /\ p.to \in Nat /\ p.to <= Segments[p.ride] /\ Segments[p.ride] \in Nat
    BY DEF Order, HasTrip
  <2> QED
    BY <2>1 DEF Trip, Edges
<1>3. more[e] \in Int /\ less[e] \in Int /\ less[e] <= more[e] /\ p.seats \in Int
  BY <1>2 DEF Order
<1>4. ~ (less[e] >= p.seats)
  BY <1>1, <1>3
<1> QED
  BY <1>4, FitsIff

LEMMA TakeFacts ==
  ASSUME NEW p \in Order, HasTrip(p), NEW rem \in [Edges(p.ride) -> Nat], Fits(p, rem)
  PROVE  /\ Take(rem, p) \in [Edges(p.ride) -> Nat]
         /\ \A e \in Edges(p.ride) : Take(rem, p)[e] <= rem[e]
<1>1. \A e \in Trip(p.from, p.to) : rem[e] >= p.seats
  <2>1. rem \in [Edges(p.ride) -> Int]
    OBVIOUS
  <2> QED
    BY <2>1, FitsIff
<1>2. p.seats \in Nat
  BY DEF Order
<1>3. ASSUME NEW e \in Edges(p.ride)
      PROVE  Take(rem, p)[e] \in Nat /\ Take(rem, p)[e] <= rem[e]
  <2>1. rem[e] \in Nat
    OBVIOUS
  <2> QED
    BY <1>1, <1>2, <2>1 DEF Take, RangeAdd
<1>4. Take(rem, p) = [e \in Edges(p.ride) |-> Take(rem, p)[e]]
  BY DEF Take, RangeAdd
<1> QED
  BY <1>3, <1>4

LEMMA GiveBackNat ==
  ASSUME NEW p \in Order, NEW r, NEW rem \in [Edges(r) -> Nat]
  PROVE  GiveBack(rem, p) \in [Edges(r) -> Nat]
<1>1. p.seats \in Nat
  BY DEF Order
<1> QED
  BY <1>1 DEF GiveBack, RangeAdd

-----------------------------------------------------------------------------
(* The three ways a step changes the history                               *)

LEMMA QuietStep ==
  ASSUME H, HistoryQuiescent, TypeOK, log' = log, BookView' = BookView, HNext
  PROVE  H' /\ HistoryQuiescent'
<1>1. Len(log) \in Nat
  BY DEF TypeOK
<1>2. \A k \in 1 .. Len(log) : hist'[k] = hist[k]
  BY <1>1 DEF HNext
<1>3. \A k \in 1 .. Len(log) + 1 : Past(k)' = Past(k)
  BY <1>1, <1>2 DEF Past
<1>4. HistoryInOrder'
  BY <1>3 DEF H, HistoryInOrder
<1>5. HistoryUndoes'
  BY <1>1, <1>2, <1>3 DEF H, HistoryUndoes
<1>6. HistoryQuiescent'
  BY <1>2 DEF HistoryQuiescent
<1> QED
  BY <1>4, <1>5, <1>6 DEF H

LEMMA LogStep ==
  ASSUME H, HistoryQuiescent, TypeOK, HNext, NEW c \in Content, Log(c),
         BookView = Undone(BookView', c), CanUndo(BookView', c), InOrder(BookView'),
         IF c.op = "FulfillOrder" THEN log # <<>> /\ Newest.timestamp = now
         ELSE Quiescent(BookView)
  PROVE  H' /\ HistoryQuiescent'
<1> DEFINE n == Len(log)
<1>1. n \in Nat /\ Len(log') = n + 1
      /\ (\A k \in 1 .. n : log'[k] = log[k]) /\ log'[n + 1] = [timestamp |-> now, content |-> c]
  <2>1. log \in Seq([timestamp : Nat, content : Content]) /\ now \in Nat
    BY DEF TypeOK
  <2>2. [timestamp |-> now, content |-> c] \in [timestamp : Nat, content : Content]
    BY <2>1
  <2> QED
    BY <2>1, <2>2, AppendProperties DEF Log
<1>2. (\A k \in 1 .. n : hist'[k] = hist[k]) /\ hist'[n + 1] = BookView
  BY <1>1 DEF HNext
<1>3. \A k \in 1 .. n + 1 : Past(k)' = Past(k)
  BY <1>1, <1>2 DEF Past
<1>4. ASSUME NEW k, k = n + 2 PROVE Past(k)' = BookView'
  BY <1>1, <1>4 DEF Past
<1>5. ASSUME NEW k \in 1 .. Len(log') + 1 PROVE InOrder(Past(k)')
  <2>1. CASE k = n + 2
    BY <1>4, <2>1
  <2>2. CASE k # n + 2
    <3>1. k \in 1 .. n + 1
      BY <1>1, <2>2
    <3> QED
      BY <1>3, <3>1 DEF H, HistoryInOrder
  <2> QED
    BY <2>1, <2>2
<1>6. ASSUME NEW k \in 1 .. Len(log')
      PROVE  /\ hist'[k] = Undone(Past(k + 1)', log'[k].content)
             /\ CanUndo(Past(k + 1)', log'[k].content)
  <2>1. CASE k = n + 1
    <3>1. hist'[k] = BookView /\ Past(k + 1)' = BookView' /\ log'[k].content = c
      BY <1>1, <1>2, <1>4, <2>1
    <3> QED
      BY <3>1
  <2>2. CASE k # n + 1
    <3>1. k \in 1 .. n /\ k + 1 \in 1 .. n + 1
      BY <1>1, <2>2
    <3>2. hist'[k] = hist[k] /\ Past(k + 1)' = Past(k + 1) /\ log'[k] = log[k]
      BY <1>1, <1>2, <1>3, <3>1
    <3> QED
      BY <3>1, <3>2 DEF H, HistoryUndoes
  <2> QED
    BY <2>1, <2>2
<1>7. ASSUME NEW k \in 1 .. Len(log')
      PROVE  IF log'[k].content.op = "FulfillOrder"
             THEN k > 1 /\ log'[k - 1].timestamp = log'[k].timestamp
             ELSE Quiescent(hist'[k])
  <2>1. CASE k = n + 1
    <3>1. log'[k].content = c /\ log'[k].timestamp = now /\ hist'[k] = BookView
      BY <1>1, <1>2, <2>1
    <3>2. CASE c.op = "FulfillOrder"
      <4>1. n \in 1 .. n /\ log'[n] = Newest
        BY <1>1, <3>2, NewestType
      <4> QED
        BY <1>1, <2>1, <3>1, <3>2, <4>1
    <3>3. CASE c.op # "FulfillOrder"
      BY <3>1, <3>3
    <3> QED
      BY <3>2, <3>3
  <2>2. CASE k # n + 1
    <3>1. k \in 1 .. n /\ (k > 1 => k - 1 \in 1 .. n)
      BY <1>1, <2>2
    <3> QED
      BY <1>1, <1>2, <3>1 DEF HistoryQuiescent
  <2> QED
    BY <2>1, <2>2
<1> QED
  BY <1>5, <1>6, <1>7 DEF H, HistoryInOrder, HistoryUndoes, HistoryQuiescent

LEMMA UndoStep ==
  ASSUME H, HistoryQuiescent, TypeOK, HNext, HasEntryToUndo, DestroyEntry,
         DOMAIN orders' = DOMAIN orders,
         BookView' = Undone(BookView, Newest.content)
  PROVE  /\ H' /\ HistoryQuiescent'
         /\ BookView' = hist[Len(log)]
<1> DEFINE n == Len(log)
<1>1. n \in Nat \ {0} /\ Len(log') = n - 1 /\ \A k \in 1 .. n - 1 : log'[k] = log[k]
  BY DestroyType
<1>2. \A k \in 1 .. n - 1 : hist'[k] = hist[k]
  BY <1>1 DEF HNext
<1>3. BookView' = hist[n]
  <2>1. n \in 1 .. n /\ Past(n + 1) = BookView /\ log[n] = Newest
    BY <1>1 DEF Past, Newest
  <2> QED
    BY <2>1 DEF H, HistoryUndoes
<1>4. ASSUME NEW k \in 1 .. n PROVE Past(k)' = Past(k)
  BY <1>1, <1>2, <1>3 DEF Past
<1>5. ASSUME NEW k \in 1 .. Len(log') + 1 PROVE InOrder(Past(k)')
  <2>1. k \in 1 .. n /\ k \in 1 .. n + 1
    BY <1>1
  <2> QED
    BY <1>4, <2>1 DEF H, HistoryInOrder
<1>6. ASSUME NEW k \in 1 .. Len(log')
      PROVE  /\ hist'[k] = Undone(Past(k + 1)', log'[k].content)
             /\ CanUndo(Past(k + 1)', log'[k].content)
  <2>1. k \in 1 .. n - 1 /\ k \in 1 .. n /\ k + 1 \in 1 .. n
    BY <1>1
  <2>2. hist'[k] = hist[k] /\ Past(k + 1)' = Past(k + 1) /\ log'[k] = log[k]
    BY <1>1, <1>2, <1>4, <2>1
  <2> QED
    BY <2>1, <2>2 DEF H, HistoryUndoes
<1>7. ASSUME NEW k \in 1 .. Len(log')
      PROVE  IF log'[k].content.op = "FulfillOrder"
             THEN k > 1 /\ log'[k - 1].timestamp = log'[k].timestamp
             ELSE Quiescent(hist'[k])
  <2>1. k \in 1 .. n - 1 /\ k \in 1 .. n /\ (k > 1 => k - 1 \in 1 .. n - 1)
    BY <1>1
  <2> QED
    BY <1>1, <1>2, <2>1 DEF HistoryQuiescent
<1> QED
  BY <1>3, <1>5, <1>6, <1>7 DEF H, HistoryInOrder, HistoryUndoes, HistoryQuiescent

-----------------------------------------------------------------------------
(* The present book                                                        *)

ViewOf(file, visible, queued, seats) ==
  [book |-> [id \in visible |-> file[id]], pending |-> queued, seats |-> [r \in Rides |-> seats[r]]]

LEMMA BookViewIs ==
  BookView = ViewOf(orders, ixUserId, pendingOrders, [r \in Rides |-> SeatsNow(r)])
BY DEF BookView, ViewOf

LEMMA ViewInOrder ==
  ASSUME NEW file, NEW visible, NEW queued, NEW seats
  PROVE  InOrder(ViewOf(file, visible, queued, seats)) <=>
           /\ \A id \in visible : file[id] \in Order /\ HasTrip(file[id])
           /\ queued = {id \in visible : file[id].status = "pending"}
           /\ \A r \in Rides : seats[r] \in [Edges(r) -> Nat]
<1> DEFINE v == ViewOf(file, visible, queued, seats)
<1>1. /\ v.book = [id \in visible |-> file[id]]
      /\ v.pending = queued
      /\ v.seats = [r \in Rides |-> seats[r]]
  BY DEF ViewOf
<1>2. {id \in DOMAIN v.book : v.book[id].status = "pending"}
        = {id \in visible : file[id].status = "pending"}
  BY <1>1
<1>3. (\A id \in DOMAIN v.book : v.book[id] \in Order /\ HasTrip(v.book[id]))
        <=> \A id \in visible : file[id] \in Order /\ HasTrip(file[id])
  BY <1>1
<1>4. (\A r \in Rides : v.seats[r] \in [Edges(r) -> Nat])
        <=> \A r \in Rides : seats[r] \in [Edges(r) -> Nat]
  BY <1>1
<1> HIDE DEF v
<1>5. InOrder(v) <=> /\ \A id \in DOMAIN v.book : v.book[id] \in Order /\ HasTrip(v.book[id])
                     /\ v.pending = {id \in DOMAIN v.book : v.book[id].status = "pending"}
                     /\ DOMAIN v.seats = Rides
                     /\ \A r \in Rides : v.seats[r] \in [Edges(r) -> Nat]
  BY DEF InOrder
<1>6. InOrder(v) <=> /\ \A id \in visible : file[id] \in Order /\ HasTrip(file[id])
                     /\ queued = {id \in visible : file[id].status = "pending"}
                     /\ \A r \in Rides : seats[r] \in [Edges(r) -> Nat]
  BY <1>1, <1>2, <1>3, <1>4, <1>5
<1> QED
  BY <1>6 DEF v

LEMMA ViewQuiescent ==
  ASSUME NEW file, NEW visible, NEW queued \in SUBSET visible, NEW seats,
         \A id \in visible : file[id].ride \in Rides
  PROVE  Quiescent(ViewOf(file, visible, queued, seats)) <=>
           \A id \in queued : ~ Fits(file[id], seats[file[id].ride])
<1> DEFINE v == ViewOf(file, visible, queued, seats)
<1>1. /\ v.book = [id \in visible |-> file[id]]
      /\ v.pending = queued
      /\ v.seats = [r \in Rides |-> seats[r]]
  BY DEF ViewOf
<1>2. \A id \in queued : v.book[id] = file[id] /\ v.seats[file[id].ride] = seats[file[id].ride]
  BY <1>1
<1> HIDE DEF v
<1>3. Quiescent(v) <=> \A id \in queued : ~ Fits(file[id], seats[file[id].ride])
  BY <1>1, <1>2 DEF Quiescent
<1> QED
  BY <1>3 DEF v

LEMMA Present ==
  ASSUME TypeOK, HistoryInOrder
  PROVE  /\ InOrder(BookView)
         /\ pendingOrders = {id \in ixUserId : orders[id].status = "pending"}
         /\ \A r \in Rides : SeatsNow(r) \in [Edges(r) -> Nat]
         /\ \A id \in ixUserId : orders[id] \in Order /\ HasTrip(orders[id])
<1>1. InOrder(BookView)
  <2>1. Len(log) \in Nat
    BY DEF TypeOK
  <2>2. Len(log) + 1 \in 1 .. Len(log) + 1 /\ Past(Len(log) + 1) = BookView
    BY <2>1 DEF Past
  <2> QED
    BY <2>2 DEF HistoryInOrder
<1> QED
  BY <1>1, BookViewIs, ViewInOrder

LEMMA PresentQuiescentIff ==
  ASSUME TypeOK, pendingOrders \subseteq ixUserId
  PROVE  Quiescent(BookView) <=>
           \A id \in pendingOrders : ~ Fits(orders[id], SeatsNow(orders[id].ride))
<1>1. \A id \in ixUserId : orders[id].ride \in Rides
  BY OrderType DEF TypeOK
<1> QED
  BY <1>1, BookViewIs, ViewQuiescent

LEMMA NextView ==
  ASSUME TypeOK',
         pendingOrders' = {id \in ixUserId' : orders'[id].status = "pending"},
         \A r \in Rides : SeatsNow(r)' \in [Edges(r) -> Nat]
  PROVE  /\ InOrder(BookView')
         /\ Quiescent(BookView') <=>
              \A id \in pendingOrders' : ~ Fits(orders'[id], SeatsNow(orders[id].ride)')
<1>1. BookView' = ViewOf(orders', ixUserId', pendingOrders', [r \in Rides |-> SeatsNow(r)'])
  BY DEF BookView, ViewOf
<1>2. \A id \in ixUserId' : orders'[id] \in Order /\ HasTrip(orders'[id])
  BY DEF TypeOK
<1>3. \A id \in ixUserId' : orders'[id].ride \in Rides
  BY <1>2 DEF Order
<1>4. InOrder(BookView')
  BY <1>1, <1>2, ViewInOrder
<1>5. Quiescent(BookView') <=>
        \A id \in pendingOrders' :
          ~ Fits(orders'[id], [r \in Rides |-> SeatsNow(r)'][orders'[id].ride])
  BY <1>1, <1>3, ViewQuiescent
<1> QED
  BY <1>3, <1>4, <1>5

-----------------------------------------------------------------------------
(* The pieces of a handler that write an entry                             *)

LEMMA BuyTicketSuccessView ==
  ASSUME TypeOK, TypeOK', HistoryInOrder, NEW o \in Requests, BuyTicketSuccess(o),
         NEW id, id = NextId, NEW c, c = [op |-> "BuyTicket", id |-> id]
  PROVE  /\ c \in Content /\ Log(c)
         /\ BookView = Undone(BookView', c)
         /\ CanUndo(BookView', c)
         /\ InOrder(BookView')
         /\ \A r \in Rides : \A e \in Edges(r) : SeatsNow(r)'[e] <= SeatsNow(r)[e]
<1> DEFINE oo == [o EXCEPT !.status = "success"]
           rem == rideSeats[o.ride]
<1>1. /\ Acceptable(o) /\ CreateOrder(o, "success") /\ Fits(o, rem)
      /\ rideSeats' = [rideSeats EXCEPT ![o.ride] = Take(rem, o)]
      /\ pendingOrders' = pendingOrders /\ ixUserId' = ixUserId \cup {id}
      /\ Idle /\ call' = call /\ Log(c)
  BY DEF BuyTicketSuccess, CreateOrder
<1>2. /\ Len(orders) \in Nat /\ id = Len(orders) + 1 /\ DOMAIN orders = 1 .. Len(orders)
      /\ \A i \in DOMAIN orders : orders'[i] = orders[i]
      /\ orders'[id] = oo
  BY <1>1, CreateType
<1>3. id \notin ixUserId /\ id \notin pendingOrders /\ ixUserId \subseteq DOMAIN orders
  BY <1>2 DEF TypeOK
<1>4. /\ oo \in Order /\ oo.status = "success" /\ HasTrip(oo) /\ oo.ride = o.ride /\ o.ride \in Rides
      /\ oo.from = o.from /\ oo.to = o.to /\ oo.seats = o.seats
  <2>1. o.ride \in Rides /\ oo \in Order /\ oo.status = "success"
    BY RequestType DEF Status
  <2>2. oo.ride = o.ride /\ oo.from = o.from /\ oo.to = o.to /\ oo.seats = o.seats
    BY DEF Requests
  <2> QED
    BY <1>1, <2>1, <2>2 DEF Acceptable, HasTrip
<1>5. Take(rem, o) = Take(rem, oo) /\ GiveBack(rem, o) = GiveBack(rem, oo) /\ Fits(oo, rem)
  BY <1>1, <1>4 DEF Take, GiveBack, Fits
<1>6. \A r \in Rides : SeatsNow(r) = rideSeats[r] /\ SeatsNow(r)' = rideSeats'[r]
  BY <1>1 DEF SeatsNow, Idle, NoCall, Refunding
<1>7. /\ rem \in [Edges(oo.ride) -> Nat]
      /\ pendingOrders = {i \in ixUserId : orders[i].status = "pending"}
      /\ \A r \in Rides : rideSeats[r] \in [Edges(r) -> Nat]
  BY <1>4, <1>6, Present
<1>8. /\ Take(rem, oo) \in [Edges(oo.ride) -> Nat]
      /\ \A e \in Edges(oo.ride) : Take(rem, oo)[e] <= rem[e]
  BY <1>4, <1>5, <1>7, TakeFacts
<1>9. GiveBack(Take(rem, oo), oo) = rem
  <2>1. rem \in [Edges(oo.ride) -> Int]
    BY <1>7
  <2> QED
    BY <1>4, <2>1, SeatsType
<1>10. \A r \in Rides : /\ rideSeats'[r] \in [Edges(r) -> Nat]
                        /\ \A e \in Edges(r) : rideSeats'[r][e] <= rideSeats[r][e]
  <2> SUFFICES ASSUME NEW r \in Rides
               PROVE  /\ rideSeats'[r] \in [Edges(r) -> Nat]
                      /\ \A e \in Edges(r) : rideSeats'[r][e] <= rideSeats[r][e]
    OBVIOUS
  <2>1. CASE r = o.ride
    <3>1. rideSeats'[r] = Take(rem, oo)
      BY <1>1, <1>5, <2>1 DEF TypeOK
    <3> QED
      BY <1>4, <1>8, <2>1, <3>1
  <2>2. CASE r # o.ride
    <3>1. rideSeats'[r] = rideSeats[r]
      BY <1>1, <2>2 DEF TypeOK
    <3>2. \A e \in Edges(r) : rideSeats[r][e] \in Nat
      BY <1>7
    <3> QED
      BY <1>7, <3>1, <3>2
  <2> QED
    BY <2>1, <2>2
<1>11. pendingOrders' = {i \in ixUserId' : orders'[i].status = "pending"}
  BY <1>1, <1>2, <1>3, <1>4, <1>7
<1>12. InOrder(BookView')
  BY <1>6, <1>10, <1>11, NextView
<1>13. /\ BookView'.book = [i \in ixUserId' |-> orders'[i]]
       /\ BookView'.pending = pendingOrders'
       /\ BookView'.seats = [r \in Rides |-> rideSeats'[r]]
       /\ BookView'.book[id] = oo
  BY <1>1, <1>2, <1>6 DEF BookView
<1>14. CanUndo(BookView', c)
  BY <1>1, <1>4, <1>13 DEF CanUndo
<1>15. BookView = Undone(BookView', c)
  <2>1. [i \in DOMAIN BookView'.book \ {id} |-> BookView'.book[i]] = [i \in ixUserId |-> orders[i]]
    <3>1. DOMAIN BookView'.book \ {id} = ixUserId
      BY <1>1, <1>3, <1>13
    <3>2. \A i \in ixUserId : BookView'.book[i] = orders[i]
      BY <1>1, <1>2, <1>3, <1>13
    <3> QED
      BY <3>1, <3>2
  <2>2. BookView'.pending \ {id} = pendingOrders
    BY <1>1, <1>3, <1>13
  <2>3. [BookView'.seats EXCEPT ![o.ride] = rem] = [r \in Rides |-> rideSeats[r]]
    BY <1>1, <1>13 DEF TypeOK
  <2>4. GiveBack(BookView'.seats[o.ride], oo) = rem
    BY <1>1, <1>4, <1>5, <1>9, <1>13 DEF TypeOK
  <2>5. Undone(BookView', c) = [book    |-> [i \in ixUserId |-> orders[i]],
                                pending |-> pendingOrders,
                                seats   |-> [r \in Rides |-> rideSeats[r]]]
    <3>1. /\ c.op = "BuyTicket" /\ c.id = id /\ BookView'.book[id] = oo
          /\ oo.status # "pending" /\ oo.ride = o.ride
      BY <1>4, <1>13
    <3> HIDE DEF oo, rem
    <3> QED
      BY <2>1, <2>2, <2>3, <2>4, <3>1 DEF Undone
  <2> QED
    BY <1>6, <2>5 DEF BookView
<1>16. c \in Content
  BY <1>2 DEF Content
<1> QED
  BY <1>1, <1>6, <1>10, <1>12, <1>14, <1>15, <1>16

LEMMA BuyTicketEnqueuedView ==
  ASSUME TypeOK, TypeOK', HistoryInOrder, NEW o \in Requests, BuyTicketEnqueued(o),
         NEW id, id = NextId, NEW c, c = [op |-> "BuyTicket", id |-> id]
  PROVE  /\ c \in Content /\ Log(c)
         /\ BookView = Undone(BookView', c)
         /\ CanUndo(BookView', c)
         /\ InOrder(BookView')
         /\ pendingOrders' = pendingOrders \cup {id}
         /\ id \notin ixUserId
         /\ \A i \in ixUserId : orders'[i] = orders[i]
         /\ ~ Fits(orders'[id], SeatsNow(orders[id].ride)')
         /\ \A r \in Rides : SeatsNow(r)' = SeatsNow(r)
<1> DEFINE oo == [o EXCEPT !.status = "pending"]
           rem == rideSeats[o.ride]
<1>1. /\ Acceptable(o) /\ CreateOrder(o, "pending") /\ ~ Fits(o, rem)
      /\ rideSeats' = rideSeats
      /\ pendingOrders' = pendingOrders \cup {id} /\ ixUserId' = ixUserId \cup {id}
      /\ Idle /\ call' = call /\ Log(c)
  BY DEF BuyTicketEnqueued, CreateOrder
<1>2. /\ Len(orders) \in Nat /\ id = Len(orders) + 1 /\ DOMAIN orders = 1 .. Len(orders)
      /\ \A i \in DOMAIN orders : orders'[i] = orders[i]
      /\ orders'[id] = oo
  BY <1>1, CreateType
<1>3. id \notin ixUserId /\ id \notin pendingOrders /\ ixUserId \subseteq DOMAIN orders
  BY <1>2 DEF TypeOK
<1>4. /\ oo.status = "pending" /\ oo.ride = o.ride /\ o.ride \in Rides
      /\ oo.from = o.from /\ oo.to = o.to /\ oo.seats = o.seats
  <2>1. o.ride \in Rides /\ oo.status = "pending"
    BY RequestType DEF Status
  <2> QED
    BY <2>1 DEF Requests
<1>5. ~ Fits(oo, rem)
  BY <1>1, <1>4 DEF Fits
<1>6. \A r \in Rides : SeatsNow(r) = rideSeats[r] /\ SeatsNow(r)' = rideSeats[r]
  BY <1>1 DEF SeatsNow, Idle, NoCall, Refunding
<1>7. /\ pendingOrders = {i \in ixUserId : orders[i].status = "pending"}
      /\ \A r \in Rides : rideSeats[r] \in [Edges(r) -> Nat]
  BY <1>6, Present
<1>8. pendingOrders' = {i \in ixUserId' : orders'[i].status = "pending"}
  BY <1>1, <1>2, <1>3, <1>4, <1>7
<1>9. InOrder(BookView')
  BY <1>6, <1>7, <1>8, NextView
<1>10. /\ BookView'.book = [i \in ixUserId' |-> orders'[i]]
       /\ BookView'.pending = pendingOrders'
       /\ BookView'.seats = [r \in Rides |-> rideSeats[r]]
       /\ BookView'.book[id] = oo
  BY <1>1, <1>2, <1>6 DEF BookView
<1>11. CanUndo(BookView', c)
  BY <1>1, <1>4, <1>10 DEF CanUndo
<1>12. BookView = Undone(BookView', c)
  <2>1. [i \in DOMAIN BookView'.book \ {id} |-> BookView'.book[i]] = [i \in ixUserId |-> orders[i]]
    <3>1. DOMAIN BookView'.book \ {id} = ixUserId
      BY <1>1, <1>3, <1>10
    <3>2. \A i \in ixUserId : BookView'.book[i] = orders[i]
      BY <1>1, <1>2, <1>3, <1>10
    <3> QED
      BY <3>1, <3>2
  <2>2. BookView'.pending \ {id} = pendingOrders
    BY <1>1, <1>3, <1>10
  <2>3. Undone(BookView', c) = [book    |-> [i \in ixUserId |-> orders[i]],
                                pending |-> pendingOrders,
                                seats   |-> [r \in Rides |-> rideSeats[r]]]
    <3>1. c.op = "BuyTicket" /\ c.id = id /\ BookView'.book[id].status = "pending"
      BY <1>4, <1>10
    <3> HIDE DEF oo, rem
    <3> QED
      BY <1>10, <2>1, <2>2, <3>1 DEF Undone
  <2> QED
    BY <1>6, <2>3 DEF BookView
<1>13. c \in Content
  BY <1>2 DEF Content
<1>14. ~ Fits(orders'[id], SeatsNow(orders[id].ride)')
  BY <1>2, <1>4, <1>5, <1>6
<1> QED
  BY <1>1, <1>2, <1>3, <1>6, <1>9, <1>11, <1>12, <1>13, <1>14

LEMMA RefundPendingView ==
  ASSUME TypeOK, TypeOK', HistoryInOrder,
         NEW u \in Users, NEW n \in 1 .. MaxOrders, NEW id \in ixUserId, RefundPending(u, n, id),
         NEW c, c = [op |-> "RefundTicket", id |-> id, status |-> orders[id].status]
  PROVE  /\ c \in Content /\ Log(c)
         /\ BookView = Undone(BookView', c)
         /\ CanUndo(BookView', c)
         /\ InOrder(BookView')
<1>1. /\ orders' = [orders EXCEPT ![id].status = "refunded"]
      /\ orders[id].status = "pending" /\ pendingOrders' = pendingOrders \ {id}
      /\ Idle /\ call' = call /\ Log(c) /\ UNCHANGED <<ixUserId, rideSeats>>
  BY DEF RefundPending, MarkRefunded
<1>2. id \in DOMAIN orders /\ id \in Nat /\ orders[id] \in Order /\ ixUserId \subseteq DOMAIN orders
  BY OrderType DEF TypeOK
<1>3. \A r \in Rides : SeatsNow(r) = rideSeats[r] /\ SeatsNow(r)' = rideSeats[r]
  BY <1>1 DEF SeatsNow, Idle, NoCall, Refunding
<1>4. /\ pendingOrders = {i \in ixUserId : orders[i].status = "pending"}
      /\ \A r \in Rides : rideSeats[r] \in [Edges(r) -> Nat]
  BY <1>3, Present
<1>5. orders'[id] = [orders[id] EXCEPT !.status = "refunded"] /\ orders'[id].status = "refunded"
  BY <1>1, <1>2 DEF Order
<1>6. \A i \in ixUserId : i # id => orders'[i] = orders[i]
  BY <1>1, <1>2
<1>7. pendingOrders' = {i \in ixUserId' : orders'[i].status = "pending"}
  BY <1>1, <1>4, <1>5, <1>6
<1>8. InOrder(BookView')
  BY <1>3, <1>4, <1>7, NextView
<1>9. /\ BookView'.book = [i \in ixUserId |-> orders'[i]]
      /\ BookView'.pending = pendingOrders'
      /\ BookView'.seats = [r \in Rides |-> rideSeats[r]]
      /\ BookView'.book[id] = orders'[id]
  BY <1>1, <1>3 DEF BookView
<1>10. CanUndo(BookView', c)
  BY <1>1, <1>5, <1>9 DEF CanUndo
<1>11. BookView = Undone(BookView', c)
  <2>1. [orders'[id] EXCEPT !.status = "pending"] = orders[id]
    BY <1>1, <1>2, <1>5 DEF Order
  <2>2. [BookView'.book EXCEPT ![id].status = "pending"] = [i \in ixUserId |-> orders[i]]
    BY <1>6, <1>9, <2>1
  <2>3. BookView'.pending \cup {id} = pendingOrders
    BY <1>1, <1>4, <1>9
  <2>4. Undone(BookView', c) = [book    |-> [i \in ixUserId |-> orders[i]],
                                pending |-> pendingOrders,
                                seats   |-> [r \in Rides |-> rideSeats[r]]]
    <3>1. c.op = "RefundTicket" /\ c.id = id /\ c.status = "pending"
      BY <1>1
    <3> QED
      BY <1>9, <2>2, <2>3, <3>1 DEF Undone
  <2> QED
    BY <1>3, <2>4 DEF BookView
<1>12. c \in Content
  BY <1>1, <1>2 DEF Content
<1> QED
  BY <1>1, <1>8, <1>10, <1>11, <1>12

LEMMA RefundSuccessView ==
  ASSUME TypeOK, TypeOK', HistoryInOrder,
         NEW u \in Users, NEW n \in 1 .. MaxOrders, NEW id \in ixUserId, RefundSuccess(u, n, id),
         NEW c, c = [op |-> "RefundTicket", id |-> id, status |-> orders[id].status]
  PROVE  /\ c \in Content /\ Log(c)
         /\ BookView = Undone(BookView', c)
         /\ CanUndo(BookView', c)
         /\ InOrder(BookView')
         /\ \A i \in ixUserId : orders'[i].ride = orders[i].ride
         /\ \A i \in ixUserId : i # id => orders'[i] = orders[i]
         /\ id \notin pendingOrders /\ pendingOrders' = pendingOrders
         /\ \A r \in Rides : r # orders[id].ride => SeatsNow(r)' = SeatsNow(r)
<1> DEFINE q == orders[id].ride
           rem == rideSeats[q]
<1>1. /\ orders' = [orders EXCEPT ![id].status = "refunded"]
      /\ orders[id].status = "success" /\ pendingOrders' = pendingOrders
      /\ call' = [cmd |-> "refund", ride |-> q, seats |-> GiveBack(rem, orders[id]),
                  todo |-> {i \in pendingOrders : orders[i].ride = q}]
      /\ Idle /\ Log(c) /\ UNCHANGED <<ixUserId, rideSeats>>
  BY DEF RefundSuccess, MarkRefunded
<1>2. /\ id \in DOMAIN orders /\ id \in Nat /\ orders[id] \in Order
      /\ ixUserId \subseteq DOMAIN orders /\ q \in Rides
  BY OrderType DEF TypeOK
<1>3. /\ \A r \in Rides : SeatsNow(r) = rideSeats[r]
      /\ \A r \in Rides : SeatsNow(r)' = IF r = q THEN GiveBack(rem, orders[id]) ELSE rideSeats[r]
  BY <1>1 DEF SeatsNow, Idle, NoCall, Refunding
<1>4. /\ pendingOrders = {i \in ixUserId : orders[i].status = "pending"}
      /\ \A r \in Rides : rideSeats[r] \in [Edges(r) -> Nat]
  BY <1>3, Present
<1>5. /\ orders'[id] = [orders[id] EXCEPT !.status = "refunded"]
      /\ orders'[id].status = "refunded" /\ orders'[id].ride = q
      /\ orders'[id].seats = orders[id].seats
      /\ orders'[id].from = orders[id].from /\ orders'[id].to = orders[id].to
  BY <1>1, <1>2 DEF Order
<1>6. \A i \in ixUserId : i # id => orders'[i] = orders[i]
  BY <1>1, <1>2
<1>7. pendingOrders' = {i \in ixUserId' : orders'[i].status = "pending"}
  BY <1>1, <1>4, <1>5, <1>6
<1>8. GiveBack(rem, orders[id]) \in [Edges(q) -> Nat]
  BY <1>2, <1>4, GiveBackNat
<1>9. \A r \in Rides : SeatsNow(r)' \in [Edges(r) -> Nat]
  <2> HIDE DEF q, rem
  <2> QED
    BY <1>3, <1>4, <1>8
<1>10. InOrder(BookView')
  BY <1>7, <1>9, NextView
<1>11. /\ BookView'.book = [i \in ixUserId |-> orders'[i]]
       /\ BookView'.pending = pendingOrders'
       /\ BookView'.seats = [r \in Rides |-> IF r = q THEN GiveBack(rem, orders[id]) ELSE rideSeats[r]]
       /\ BookView'.book[id] = orders'[id]
  BY <1>1, <1>3 DEF BookView
<1>12. CanUndo(BookView', c)
  BY <1>1, <1>5, <1>11 DEF CanUndo
<1>13. BookView = Undone(BookView', c)
  <2>1. [orders'[id] EXCEPT !.status = "success"] = orders[id]
    BY <1>1, <1>2, <1>5 DEF Order
  <2>2. [BookView'.book EXCEPT ![id].status = "success"] = [i \in ixUserId |-> orders[i]]
    BY <1>6, <1>11, <2>1
  <2>3. Take(GiveBack(rem, orders[id]), orders'[id]) = rem
    <3>1. Take(GiveBack(rem, orders[id]), orders'[id]) = Take(GiveBack(rem, orders[id]), orders[id])
      BY <1>5 DEF Take
    <3>2. rem \in [Edges(q) -> Int]
      BY <1>2, <1>4
    <3> QED
      BY <1>2, <3>1, <3>2, SeatsType
  <2>4. BookView'.seats[q] = GiveBack(rem, orders[id])
    BY <1>2, <1>11
  <2>5. [BookView'.seats EXCEPT ![q] = rem] = [r \in Rides |-> rideSeats[r]]
    BY <1>11
  <2>6. Undone(BookView', c) = [book    |-> [i \in ixUserId |-> orders[i]],
                                pending |-> pendingOrders,
                                seats   |-> [r \in Rides |-> rideSeats[r]]]
    <3>1. /\ c.op = "RefundTicket" /\ c.id = id /\ c.status = "success"
          /\ BookView'.book[id] = orders'[id] /\ orders'[id].ride = q
          /\ BookView'.pending = pendingOrders
      BY <1>1, <1>5, <1>11
    <3> HIDE DEF q, rem
    <3> QED
      BY <2>2, <2>3, <2>4, <2>5, <3>1 DEF Undone
  <2> QED
    BY <1>3, <2>6 DEF BookView
<1>14. c \in Content
  BY <1>1, <1>2 DEF Content
<1>15. id \notin pendingOrders
  BY <1>1, <1>4
<1>16. \A i \in ixUserId : orders'[i].ride = orders[i].ride
  BY <1>5, <1>6
<1>17. \A r \in Rides : r # q => SeatsNow(r)' = SeatsNow(r)
  BY <1>3
<1> QED
  BY <1>1, <1>6, <1>10, <1>12, <1>13, <1>14, <1>15, <1>16, <1>17

LEMMA FulfillOrderView ==
  ASSUME TypeOK, TypeOK', HistoryInOrder, PresentQuiescent,
         NEW id \in pendingOrders, FulfillOrder(id),
         NEW c, c = [op |-> "FulfillOrder", id |-> id]
  PROVE  /\ c \in Content /\ Log(c)
         /\ BookView = Undone(BookView', c)
         /\ CanUndo(BookView', c)
         /\ InOrder(BookView')
         /\ \A i \in ixUserId : orders'[i].ride = orders[i].ride
         /\ \A i \in ixUserId : i # id => orders'[i] = orders[i]
         /\ \A r \in Rides : \A e \in Edges(r) : SeatsNow(r)'[e] <= SeatsNow(r)[e]
<1> DEFINE q == orders[id].ride
           rem == call.seats
<1>1. /\ orders' = [orders EXCEPT ![id].status = "success"]
      /\ pendingOrders' = pendingOrders \ {id}
      /\ call' = [call EXCEPT !.todo = call.todo \ {id}, !.seats = Take(rem, orders[id])]
      /\ Fits(orders[id], rem) /\ id \in call.todo
      /\ Refunding /\ Log(c) /\ UNCHANGED <<ixUserId, rideSeats>>
  BY DEF FulfillOrder, IsNextInQueue
<1>2. call \in [cmd : {"refund"}, ride : Rides, seats : [Edges(call.ride) -> Int],
                todo : SUBSET pendingOrders]
  BY <1>1 DEF TypeOK, CallOK, Refunding, Idle, NoCall
<1>3. call.ride = q
  BY <1>1 DEF PresentQuiescent
<1>4. call'.cmd = "refund" /\ call'.ride = q /\ call'.seats = Take(rem, orders[id])
  BY <1>1, <1>2, <1>3
<1>5. /\ id \in DOMAIN orders /\ id \in Nat /\ orders[id] \in Order
      /\ ixUserId \subseteq DOMAIN orders /\ q \in Rides /\ HasTrip(orders[id])
  BY OrderType DEF TypeOK
<1>6. /\ \A r \in Rides : SeatsNow(r) = IF r = q THEN rem ELSE rideSeats[r]
      /\ \A r \in Rides : SeatsNow(r)' = IF r = q THEN Take(rem, orders[id]) ELSE rideSeats[r]
  BY <1>1, <1>3, <1>4 DEF SeatsNow, Refunding
<1>7. /\ pendingOrders = {i \in ixUserId : orders[i].status = "pending"}
      /\ \A r \in Rides : SeatsNow(r) \in [Edges(r) -> Nat]
  BY Present
<1>8. id \in ixUserId /\ orders[id].status = "pending"
  BY <1>7
<1>9. /\ orders'[id] = [orders[id] EXCEPT !.status = "success"]
      /\ orders'[id].status = "success" /\ orders'[id].ride = q
      /\ orders'[id].seats = orders[id].seats
      /\ orders'[id].from = orders[id].from /\ orders'[id].to = orders[id].to
  BY <1>1, <1>5 DEF Order
<1>10. \A i \in ixUserId : i # id => orders'[i] = orders[i]
  BY <1>1, <1>5
<1>11. pendingOrders' = {i \in ixUserId' : orders'[i].status = "pending"}
  BY <1>1, <1>7, <1>9, <1>10
<1>12. rem \in [Edges(q) -> Nat]
  BY <1>5, <1>6, <1>7
<1>13. /\ Take(rem, orders[id]) \in [Edges(q) -> Nat]
       /\ \A e \in Edges(q) : Take(rem, orders[id])[e] <= rem[e]
  BY <1>1, <1>5, <1>12, TakeFacts
<1>14. ASSUME NEW r \in Rides
       PROVE  /\ SeatsNow(r)' \in [Edges(r) -> Nat]
              /\ \A e \in Edges(r) : SeatsNow(r)'[e] <= SeatsNow(r)[e]
  <2>1. CASE r = q
    <3>1. SeatsNow(r)' = Take(rem, orders[id]) /\ SeatsNow(r) = rem
      BY <1>6, <2>1
    <3> QED
      BY <1>13, <2>1, <3>1
  <2>2. CASE r # q
    <3>1. SeatsNow(r)' = SeatsNow(r)
      BY <1>6, <2>2
    <3>2. SeatsNow(r) \in [Edges(r) -> Nat]
      BY <1>7
    <3>3. \A e \in Edges(r) : SeatsNow(r)[e] \in Nat
      BY <3>2
    <3>4. \A e \in Edges(r) : SeatsNow(r)[e] <= SeatsNow(r)[e]
      BY <3>3
    <3> QED
      BY <3>1, <3>2, <3>4
  <2> QED
    BY <2>1, <2>2
<1>15. InOrder(BookView')
  BY <1>11, <1>14, NextView
<1>16. /\ BookView'.book = [i \in ixUserId |-> orders'[i]]
       /\ BookView'.pending = pendingOrders'
       /\ BookView'.seats = [r \in Rides |-> IF r = q THEN Take(rem, orders[id]) ELSE rideSeats[r]]
       /\ BookView'.book[id] = orders'[id]
  BY <1>1, <1>6, <1>8 DEF BookView
<1>17. CanUndo(BookView', c)
  BY <1>8, <1>9, <1>16 DEF CanUndo
<1>18. BookView = Undone(BookView', c)
  <2>1. [orders'[id] EXCEPT !.status = "pending"] = orders[id]
    BY <1>5, <1>8, <1>9 DEF Order
  <2>2. [BookView'.book EXCEPT ![id].status = "pending"] = [i \in ixUserId |-> orders[i]]
    BY <1>10, <1>16, <2>1
  <2>3. GiveBack(Take(rem, orders[id]), orders'[id]) = rem
    <3>1. GiveBack(Take(rem, orders[id]), orders'[id]) = GiveBack(Take(rem, orders[id]), orders[id])
      BY <1>9 DEF GiveBack
    <3>2. rem \in [Edges(q) -> Int]
      BY <1>12
    <3> QED
      BY <1>5, <3>1, <3>2, SeatsType
  <2>4. BookView'.seats[q] = Take(rem, orders[id])
    BY <1>5, <1>16
  <2>5. [BookView'.seats EXCEPT ![q] = rem] = [r \in Rides |-> SeatsNow(r)]
    BY <1>6, <1>16
  <2>6. BookView'.pending \cup {id} = pendingOrders
    BY <1>1, <1>16
  <2>7. Undone(BookView', c) = [book    |-> [i \in ixUserId |-> orders[i]],
                                pending |-> pendingOrders,
                                seats   |-> [r \in Rides |-> SeatsNow(r)]]
    <3>1. /\ c.op = "FulfillOrder" /\ c.id = id
          /\ BookView'.book[id] = orders'[id] /\ orders'[id].ride = q
      BY <1>9, <1>16
    <3>2. GiveBack(BookView'.seats[q], BookView'.book[id]) = rem
      BY <2>3, <2>4, <3>1
    <3> DEFINE books == [i \in ixUserId |-> orders[i]]
               seats == [r \in Rides |-> SeatsNow(r)]
    <3>3. /\ [BookView'.book EXCEPT ![id].status = "pending"] = books
          /\ [BookView'.seats EXCEPT ![q] = rem] = seats
      BY <2>2, <2>5
    <3> HIDE DEF q, rem, books, seats
    <3>4. Undone(BookView', c) = [book |-> books, pending |-> pendingOrders, seats |-> seats]
      BY <2>6, <3>1, <3>2, <3>3 DEF Undone
    <3> QED
      BY <3>4 DEF books, seats
  <2> QED
    BY <2>7 DEF BookView
<1>19. c \in Content
  BY <1>5 DEF Content
<1>20. \A i \in ixUserId : orders'[i].ride = orders[i].ride
  BY <1>9, <1>10
<1> QED
  BY <1>1, <1>10, <1>14, <1>15, <1>17, <1>18, <1>19, <1>20

-----------------------------------------------------------------------------
(* The undo visitors                                                       *)

LEMMA CanUndoNewest ==
  ASSUME TypeOK, H, HasEntryToUndo
  PROVE  /\ CanUndo(BookView, Newest.content)
         /\ Newest.content.id \in ixUserId
         /\ BookView.book[Newest.content.id] = orders[Newest.content.id]
         /\ \A r \in Rides : SeatsNow(r) = rideSeats[r] /\ SeatsNow(r) \in [Edges(r) -> Nat]
<1>1. Len(log) \in 1 .. Len(log) /\ log[Len(log)] = Newest /\ Past(Len(log) + 1) = BookView
  <2>1. Len(log) \in Nat \ {0} /\ log[Len(log)] = Newest
    BY NewestType DEF HasEntryToUndo
  <2> QED
    BY <2>1 DEF Past
<1>2. CanUndo(BookView, Newest.content)
  BY <1>1 DEF H, HistoryUndoes
<1>3. BookView.book = [i \in ixUserId |-> orders[i]]
  BY DEF BookView
<1>4. Newest.content.id \in ixUserId
  BY <1>2, <1>3 DEF CanUndo
<1>5. \A r \in Rides : SeatsNow(r) = rideSeats[r]
  BY DEF SeatsNow, HasEntryToUndo, RollingBack, Refunding
<1> QED
  BY <1>2, <1>3, <1>4, <1>5, Present DEF H

LEMMA UndoBuyTicketView ==
  ASSUME TypeOK, H, UndoBuyTicket
  PROVE  BookView' = Undone(BookView, Newest.content)
<1> DEFINE c == Newest.content
           id == c.id
           o == orders[id]
<1>1. /\ HasEntryToUndo /\ c.op = "BuyTicket"
      /\ ixUserId' = ixUserId \ {id} /\ orders' = orders /\ call' = call
      /\ IF o.status = "pending"
         THEN pendingOrders' = pendingOrders \ {id} /\ rideSeats' = rideSeats
         ELSE /\ rideSeats' = [rideSeats EXCEPT ![o.ride] = GiveBack(rideSeats[o.ride], o)]
              /\ pendingOrders' = pendingOrders
  BY DEF UndoBuyTicket, Undoes
<1>2. /\ id \in ixUserId /\ BookView.book[id] = o
      /\ \A r \in Rides : SeatsNow(r) = rideSeats[r]
  BY <1>1, CanUndoNewest
<1>3. o.ride \in Rides /\ id \in DOMAIN orders
  BY <1>2, OrderType DEF TypeOK
<1>4. \A r \in Rides : SeatsNow(r)' = rideSeats'[r]
  BY <1>1 DEF SeatsNow, HasEntryToUndo, RollingBack, Refunding
<1>5. pendingOrders' = pendingOrders \ {id}
  <2>1. o.status # "pending" => id \notin pendingOrders
    BY Present DEF H
  <2> QED
    BY <1>1, <2>1
<1>6. /\ BookView.book = [i \in ixUserId |-> orders[i]]
      /\ BookView.pending = pendingOrders
      /\ BookView.seats = [r \in Rides |-> rideSeats[r]]
  BY <1>2 DEF BookView
<1>7. BookView' = [book    |-> [i \in ixUserId \ {id} |-> orders[i]],
                   pending |-> pendingOrders \ {id},
                   seats   |-> [r \in Rides |-> rideSeats'[r]]]
  BY <1>1, <1>4, <1>5 DEF BookView
<1>8. [i \in DOMAIN BookView.book \ {id} |-> BookView.book[i]] = [i \in ixUserId \ {id} |-> orders[i]]
  BY <1>6
<1>9. CASE o.status = "pending"
  <2>1. Undone(BookView, c) = [book    |-> [i \in ixUserId \ {id} |-> orders[i]],
                               pending |-> pendingOrders \ {id},
                               seats   |-> [r \in Rides |-> rideSeats[r]]]
    BY <1>1, <1>2, <1>6, <1>8, <1>9 DEF Undone
  <2> QED
    BY <1>1, <1>7, <1>9, <2>1
<1>10. CASE o.status # "pending"
  <2>1. [BookView.seats EXCEPT ![o.ride] = GiveBack(rideSeats[o.ride], o)]
          = [r \in Rides |-> rideSeats'[r]]
    BY <1>1, <1>3, <1>6, <1>10 DEF TypeOK
  <2>2. BookView.seats[o.ride] = rideSeats[o.ride]
    BY <1>3, <1>6
  <2>3. Undone(BookView, c) = [book    |-> [i \in ixUserId \ {id} |-> orders[i]],
                               pending |-> pendingOrders \ {id},
                               seats   |-> [r \in Rides |-> rideSeats'[r]]]
    BY <1>1, <1>2, <1>6, <1>8, <1>10, <2>1, <2>2 DEF Undone
  <2> QED
    BY <1>7, <2>3
<1> QED
  BY <1>9, <1>10

LEMMA UndoRefundTicketView ==
  ASSUME TypeOK, H, UndoRefundTicket
  PROVE  BookView' = Undone(BookView, Newest.content)
<1> DEFINE c == Newest.content
           id == c.id
           o == orders[id]
           was == c.status
<1>1. /\ HasEntryToUndo /\ c.op = "RefundTicket"
      /\ orders' = [orders EXCEPT ![id].status = was] /\ ixUserId' = ixUserId /\ call' = call
      /\ IF was = "success"
         THEN /\ rideSeats' = [rideSeats EXCEPT ![o.ride] = Take(rideSeats[o.ride], o)]
              /\ pendingOrders' = pendingOrders
         ELSE pendingOrders' = pendingOrders \cup {id} /\ rideSeats' = rideSeats
  BY DEF UndoRefundTicket, Undoes
<1>2. /\ id \in ixUserId /\ BookView.book[id] = o
      /\ \A r \in Rides : SeatsNow(r) = rideSeats[r]
  BY <1>1, CanUndoNewest
<1>3. o.ride \in Rides /\ id \in DOMAIN orders /\ ixUserId \subseteq DOMAIN orders
  BY <1>2, OrderType DEF TypeOK
<1>4. \A r \in Rides : SeatsNow(r)' = rideSeats'[r]
  BY <1>1 DEF SeatsNow, HasEntryToUndo, RollingBack, Refunding
<1>5. /\ BookView.book = [i \in ixUserId |-> orders[i]]
      /\ BookView.pending = pendingOrders
      /\ BookView.seats = [r \in Rides |-> rideSeats[r]]
  BY <1>2 DEF BookView
<1>6. [BookView.book EXCEPT ![id].status = was] = [i \in ixUserId |-> orders'[i]]
  BY <1>1, <1>2, <1>3, <1>5
<1>7. BookView' = [book    |-> [i \in ixUserId |-> orders'[i]],
                   pending |-> pendingOrders',
                   seats   |-> [r \in Rides |-> rideSeats'[r]]]
  BY <1>1, <1>4 DEF BookView
<1>8. CASE was = "success"
  <2>1. [BookView.seats EXCEPT ![o.ride] = Take(rideSeats[o.ride], o)]
          = [r \in Rides |-> rideSeats'[r]]
    BY <1>1, <1>3, <1>5, <1>8 DEF TypeOK
  <2>2. BookView.seats[o.ride] = rideSeats[o.ride]
    BY <1>3, <1>5
  <2>3. Undone(BookView, c) = [book    |-> [i \in ixUserId |-> orders'[i]],
                               pending |-> pendingOrders,
                               seats   |-> [r \in Rides |-> rideSeats'[r]]]
    BY <1>1, <1>2, <1>5, <1>6, <1>8, <2>1, <2>2 DEF Undone
  <2> QED
    BY <1>1, <1>7, <1>8, <2>3
<1>9. CASE was # "success"
  <2>1. Undone(BookView, c) = [book    |-> [i \in ixUserId |-> orders'[i]],
                               pending |-> pendingOrders \cup {id},
                               seats   |-> [r \in Rides |-> rideSeats[r]]]
    BY <1>1, <1>2, <1>5, <1>6, <1>9 DEF Undone
  <2> QED
    BY <1>1, <1>7, <1>9, <2>1
<1> QED
  BY <1>8, <1>9

LEMMA UndoFulfillOrderView ==
  ASSUME TypeOK, H, UndoFulfillOrder
  PROVE  BookView' = Undone(BookView, Newest.content)
<1> DEFINE c == Newest.content
           id == c.id
           o == orders[id]
<1>1. /\ HasEntryToUndo /\ c.op = "FulfillOrder"
      /\ orders' = [orders EXCEPT ![id].status = "pending"] /\ ixUserId' = ixUserId /\ call' = call
      /\ rideSeats' = [rideSeats EXCEPT ![o.ride] = GiveBack(rideSeats[o.ride], o)]
      /\ pendingOrders' = pendingOrders \cup {id}
  BY DEF UndoFulfillOrder, Undoes
<1>2. /\ id \in ixUserId /\ BookView.book[id] = o
      /\ \A r \in Rides : SeatsNow(r) = rideSeats[r]
  BY <1>1, CanUndoNewest
<1>3. o.ride \in Rides /\ id \in DOMAIN orders /\ ixUserId \subseteq DOMAIN orders
  BY <1>2, OrderType DEF TypeOK
<1>4. \A r \in Rides : SeatsNow(r)' = rideSeats'[r]
  BY <1>1 DEF SeatsNow, HasEntryToUndo, RollingBack, Refunding
<1>5. /\ BookView.book = [i \in ixUserId |-> orders[i]]
      /\ BookView.pending = pendingOrders
      /\ BookView.seats = [r \in Rides |-> rideSeats[r]]
  BY <1>2 DEF BookView
<1>6. [BookView.book EXCEPT ![id].status = "pending"] = [i \in ixUserId |-> orders'[i]]
  BY <1>1, <1>2, <1>3, <1>5
<1>7. BookView' = [book    |-> [i \in ixUserId |-> orders'[i]],
                   pending |-> pendingOrders',
                   seats   |-> [r \in Rides |-> rideSeats'[r]]]
  BY <1>1, <1>4 DEF BookView
<1>8. [BookView.seats EXCEPT ![o.ride] = GiveBack(rideSeats[o.ride], o)]
        = [r \in Rides |-> rideSeats'[r]]
  BY <1>1, <1>3, <1>5 DEF TypeOK
<1>9. BookView.seats[o.ride] = rideSeats[o.ride]
  BY <1>3, <1>5
<1>10. Undone(BookView, c) = [book    |-> [i \in ixUserId |-> orders'[i]],
                              pending |-> pendingOrders \cup {id},
                              seats   |-> [r \in Rides |-> rideSeats'[r]]]
  BY <1>1, <1>2, <1>5, <1>6, <1>8, <1>9 DEF Undone
<1> QED
  BY <1>1, <1>7, <1>10

-----------------------------------------------------------------------------
(* The inductive invariant                                                 *)

LEMMA SameView ==
  ASSUME UNCHANGED <<orders, ixUserId, pendingOrders>>, \A r \in Rides : SeatsNow(r)' = SeatsNow(r)
  PROVE  BookView' = BookView
BY DEF BookView

LEMMA Exclusive ==
  /\ Idle => ~ Refunding /\ ~ RollingBack
  /\ Refunding => ~ Idle /\ ~ RollingBack
  /\ RollingBack => ~ Idle /\ ~ Refunding
BY DEF Idle, NoCall, Refunding, RollingBack

(* An order that is in the queue before and after a step that frees no     *)
(* seats, and could not be served before, cannot be served after.          *)
LEMMA StillUnfit ==
  ASSUME TypeOK, TypeOK', HistoryInOrder, HistoryInOrder',
         NEW i \in pendingOrders, i \in pendingOrders', orders'[i] = orders[i],
         ~ Fits(orders[i], SeatsNow(orders[i].ride)),
         \A r \in Rides : \A e \in Edges(r) : SeatsNow(r)'[e] <= SeatsNow(r)[e]
  PROVE  ~ Fits(orders'[i], SeatsNow(orders[i].ride)')
<1> DEFINE q == orders[i].ride
<1>1. orders[i] \in Order /\ HasTrip(orders[i]) /\ q \in Rides
  BY OrderType DEF TypeOK
<1>2. \A r \in Rides : SeatsNow(r) \in [Edges(r) -> Nat]
  BY Present
<1>3. \A r \in Rides : SeatsNow(r)' \in [Edges(r) -> Nat]
  <2>1. InOrder(BookView')
    <3>1. Len(log') \in Nat
      BY DEF TypeOK
    <3>2. ASSUME NEW k, k = Len(log') + 1 PROVE k \in 1 .. Len(log') + 1 /\ Past(k)' = BookView'
      BY <3>1, <3>2 DEF Past
    <3> QED
      BY <3>2 DEF HistoryInOrder
  <2>2. BookView'.seats = [r \in Rides |-> SeatsNow(r)']
    BY DEF BookView
  <2> QED
    BY <2>1, <2>2 DEF InOrder
<1>4. ASSUME NEW more, NEW less, more = SeatsNow(q), \A r \in Rides : r = q => less = SeatsNow(r)'
      PROVE  ~ Fits(orders[i], less)
  <2>1. more \in [Edges(q) -> Int] /\ less \in [Edges(q) -> Int]
    BY <1>1, <1>2, <1>3, <1>4
  <2>2. \A e \in Edges(q) : less[e] <= more[e]
    BY <1>1, <1>4
  <2>3. ~ Fits(orders[i], more)
    BY <1>4
  <2> QED
    BY <1>1, <2>1, <2>2, <2>3, UnfitStays
<1>5. orders'[i].ride = q
  OBVIOUS
<1>6. \A r \in Rides : r = q => ~ Fits(orders[i], SeatsNow(r)')
  BY <1>4
<1> QED
  BY <1>1, <1>5, <1>6

LEMMA NextQuiescent ==
  ASSUME TypeOK', HistoryInOrder',
         \A i \in pendingOrders' : ~ Fits(orders'[i], SeatsNow(orders[i].ride)')
  PROVE  Quiescent(BookView')
<1>1. InOrder(BookView')
  <2>1. Len(log') \in Nat
    BY DEF TypeOK
  <2>2. ASSUME NEW k, k = Len(log') + 1 PROVE k \in 1 .. Len(log') + 1 /\ Past(k)' = BookView'
    BY <2>1, <2>2 DEF Past
  <2> QED
    BY <2>2 DEF HistoryInOrder
<1>2. BookView' = ViewOf(orders', ixUserId', pendingOrders', [r \in Rides |-> SeatsNow(r)'])
  BY DEF BookView, ViewOf
<1>3. /\ pendingOrders' = {i \in ixUserId' : orders'[i].status = "pending"}
      /\ \A r \in Rides : SeatsNow(r)' \in [Edges(r) -> Nat]
  BY <1>1, <1>2, ViewInOrder
<1> QED
  BY <1>3, NextView

LEMMA HInit_IInv == HInit => IInv
<1> SUFFICES ASSUME HInit PROVE IInv
  OBVIOUS
<1>1. TypeOK
  BY TypeInit DEF HInit
<1>2. Len(log) = 0
  BY DEF HInit, Init
<1>3. InOrder(BookView)
  <2>1. \A r \in Rides : SeatsNow(r) = rideSeats[r] /\ rideSeats[r] \in [Edges(r) -> Nat]
    BY DEF HInit, Init, SeatsNow, Refunding, NoCall
  <2>2. ixUserId = {} /\ pendingOrders = {}
    BY DEF HInit, Init
  <2> QED
    BY <2>1, <2>2, BookViewIs, ViewInOrder
<1>4. HistoryInOrder
  BY <1>2, <1>3 DEF HistoryInOrder, Past
<1>5. HistoryUndoes /\ HistoryQuiescent
  BY <1>2 DEF HistoryUndoes, HistoryQuiescent
<1>6. PresentQuiescent
  <2>1. Idle /\ pendingOrders = {}
    BY DEF HInit, Init, Idle
  <2>2. Quiescent(BookView)
    BY <2>1 DEF Quiescent, BookView
  <2> QED
    BY <2>1, <2>2, Exclusive DEF PresentQuiescent
<1> QED
  BY <1>1, <1>4, <1>5, <1>6 DEF IInv

LEMMA IInvStep == IInv /\ [HNext]_hvars => IInv'
<1> SUFFICES ASSUME IInv, [HNext]_hvars PROVE IInv'
  OBVIOUS
<1>1. TypeOK /\ HistoryInOrder /\ H /\ HistoryQuiescent /\ PresentQuiescent
  BY DEF IInv, H
<1>2. CASE UNCHANGED hvars
  <2>1. TypeOK'
    BY <1>1, <1>2, TypeStep DEF hvars
  <2>2. BookView' = BookView /\ log' = log /\ hist' = hist /\ Len(log) \in Nat
    BY <1>1, <1>2 DEF hvars, vars, bookVars, BookView, SeatsNow, Refunding, TypeOK
  <2>3. \A k : Past(k)' = Past(k)
    BY <2>2 DEF Past
  <2>4. HistoryInOrder' /\ HistoryUndoes' /\ HistoryQuiescent'
    BY <1>1, <2>2, <2>3 DEF H, HistoryInOrder, HistoryUndoes, HistoryQuiescent
  <2>5. PresentQuiescent'
    BY <1>1, <1>2, <2>2 DEF hvars, vars, bookVars, PresentQuiescent, Idle, Refunding,
       RollingBack, HasEntryToUndo, Newest, SeatsNow
  <2> QED
    BY <2>1, <2>4, <2>5 DEF IInv
<1>3. CASE HNext
  <2>1. TypeOK' /\ Next
    BY <1>1, <1>3, TypeStep DEF HNext
  <2>2. pendingOrders \subseteq ixUserId /\ ixUserId \subseteq DOMAIN orders
    BY <1>1, Present DEF TypeOK
  <2>3. ASSUME NEW t \in 0 .. MaxTime, ReadTimestamp(t), UNCHANGED <<usersLoggedIn, bookVars>>
        PROVE  IInv'
    <3>1. Idle /\ Idle' /\ log' = log /\ BookView' = BookView
      BY <2>3 DEF ReadTimestamp, bookVars, BookView, SeatsNow, Refunding, Idle
    <3>2. H' /\ HistoryQuiescent'
      BY <1>1, <1>3, <3>1, QuietStep
    <3>3. PresentQuiescent'
      BY <1>1, <3>1 DEF PresentQuiescent, Idle, NoCall, Refunding, RollingBack
    <3> QED
      BY <2>1, <3>2, <3>3 DEF IInv, H
  <2>4. ASSUME NEW u \in Users, Login(u) \/ Logout(u)
        PROVE  IInv'
    <3>1. Idle /\ Idle' /\ log' = log /\ BookView' = BookView
      BY <2>4 DEF Login, Logout, bookVars, BookView, SeatsNow, Refunding, Idle
    <3>2. H' /\ HistoryQuiescent'
      BY <1>1, <1>3, <3>1, QuietStep
    <3>3. PresentQuiescent'
      BY <1>1, <3>1 DEF PresentQuiescent, Idle, NoCall, Refunding, RollingBack
    <3> QED
      BY <2>1, <3>2, <3>3 DEF IInv, H
  <2>5. ASSUME NEW o \in Requests, BuyTicketSuccess(o)
        PROVE  IInv'
    <3> DEFINE c == [op |-> "BuyTicket", id |-> NextId]
    <3>1. Idle /\ Idle' /\ pendingOrders' = pendingOrders
      BY <2>5 DEF BuyTicketSuccess, CreateOrder, Idle
    <3>2. /\ c \in Content /\ Log(c) /\ BookView = Undone(BookView', c)
          /\ CanUndo(BookView', c) /\ InOrder(BookView')
          /\ \A r \in Rides : \A e \in Edges(r) : SeatsNow(r)'[e] <= SeatsNow(r)[e]
      BY <1>1, <2>1, <2>5, BuyTicketSuccessView
    <3>3. Quiescent(BookView)
      BY <1>1, <3>1 DEF PresentQuiescent
    <3>4. H' /\ HistoryQuiescent'
      BY <1>1, <1>3, <3>2, <3>3, LogStep
    <3>5. Quiescent(BookView')
      <4>1. \A i \in DOMAIN orders : orders'[i] = orders[i]
        BY <1>1, <2>5, CreateType DEF BuyTicketSuccess
      <4>2. \A i \in pendingOrders : ~ Fits(orders[i], SeatsNow(orders[i].ride))
        BY <1>1, <2>2, <3>3, PresentQuiescentIff
      <4>3. \A i \in pendingOrders' : ~ Fits(orders'[i], SeatsNow(orders[i].ride)')
        BY <1>1, <2>1, <2>2, <3>1, <3>2, <3>4, <4>1, <4>2, StillUnfit DEF H
      <4> QED
        BY <2>1, <3>4, <4>3, NextQuiescent DEF H
    <3>6. PresentQuiescent'
      BY <3>1, <3>5 DEF PresentQuiescent, Idle, NoCall, Refunding, RollingBack
    <3> QED
      BY <2>1, <3>4, <3>6 DEF IInv, H
  <2>6. ASSUME NEW o \in Requests, BuyTicketEnqueued(o)
        PROVE  IInv'
    <3> DEFINE c == [op |-> "BuyTicket", id |-> NextId]
    <3>1. Idle /\ Idle'
      BY <2>6 DEF BuyTicketEnqueued, CreateOrder, Idle
    <3>2. /\ c \in Content /\ Log(c) /\ BookView = Undone(BookView', c)
          /\ CanUndo(BookView', c) /\ InOrder(BookView')
          /\ pendingOrders' = pendingOrders \cup {NextId}
          /\ \A i \in ixUserId : orders'[i] = orders[i]
          /\ \A r \in Rides : SeatsNow(r)' = SeatsNow(r)
      BY <1>1, <2>1, <2>6, BuyTicketEnqueuedView
    <3>3. Quiescent(BookView)
      BY <1>1, <3>1 DEF PresentQuiescent
    <3>4. H' /\ HistoryQuiescent'
      BY <1>1, <1>3, <3>2, <3>3, LogStep
    <3>5. Quiescent(BookView')
      <4>1. \A r \in Rides : \A e \in Edges(r) : SeatsNow(r)'[e] <= SeatsNow(r)[e]
        <5>1. \A r \in Rides : \A e \in Edges(r) : SeatsNow(r)[e] \in Nat
          BY <1>1, Present
        <5> QED
          BY <3>2, <5>1
      <4>2. \A i \in pendingOrders : ~ Fits(orders[i], SeatsNow(orders[i].ride))
        BY <1>1, <2>2, <3>3, PresentQuiescentIff
      <4>3. ASSUME NEW i \in pendingOrders' PROVE ~ Fits(orders'[i], SeatsNow(orders[i].ride)')
        <5>1. CASE i \in pendingOrders
          BY <1>1, <2>1, <2>2, <3>2, <3>4, <4>1, <4>2, <5>1, StillUnfit DEF H
        <5>2. CASE i = NextId
          BY <1>1, <2>1, <2>6, <5>2, BuyTicketEnqueuedView
        <5> QED
          BY <3>2, <5>1, <5>2
      <4> QED
        BY <2>1, <3>4, <4>3, NextQuiescent DEF H
    <3>6. PresentQuiescent'
      BY <3>1, <3>5 DEF PresentQuiescent, Idle, NoCall, Refunding, RollingBack
    <3> QED
      BY <2>1, <3>4, <3>6 DEF IInv, H
  <2>7. ASSUME NEW u \in Users, NEW n \in 1 .. MaxOrders, NEW id \in ixUserId,
               RefundPending(u, n, id)
        PROVE  IInv'
    <3> DEFINE c == [op |-> "RefundTicket", id |-> id, status |-> orders[id].status]
    <3>1. /\ Idle /\ Idle' /\ pendingOrders' = pendingOrders \ {id}
          /\ orders' = [orders EXCEPT ![id].status = "refunded"]
          /\ rideSeats' = rideSeats /\ call' = call
      BY <2>7 DEF RefundPending, MarkRefunded, Idle
    <3>2. /\ c \in Content /\ Log(c) /\ BookView = Undone(BookView', c)
          /\ CanUndo(BookView', c) /\ InOrder(BookView')
      BY <1>1, <2>1, <2>7, RefundPendingView
    <3>3. Quiescent(BookView)
      BY <1>1, <3>1 DEF PresentQuiescent
    <3>4. H' /\ HistoryQuiescent'
      BY <1>1, <1>3, <3>2, <3>3, LogStep
    <3>5. Quiescent(BookView')
      <4>1. \A r \in Rides : \A e \in Edges(r) : SeatsNow(r)'[e] <= SeatsNow(r)[e]
        <5>1. \A r \in Rides : \A e \in Edges(r) : SeatsNow(r)[e] \in Nat
          BY <1>1, Present
        <5>2. \A r \in Rides : SeatsNow(r)' = SeatsNow(r)
          BY <3>1 DEF SeatsNow, Refunding
        <5> QED
          BY <5>1, <5>2
      <4>2. \A i \in pendingOrders : ~ Fits(orders[i], SeatsNow(orders[i].ride))
        BY <1>1, <2>2, <3>3, PresentQuiescentIff
      <4>3. \A i \in pendingOrders' : i \in pendingOrders /\ orders'[i] = orders[i]
        BY <2>2, <3>1
      <4>4. \A i \in pendingOrders' : ~ Fits(orders'[i], SeatsNow(orders[i].ride)')
        BY <1>1, <2>1, <3>4, <4>1, <4>2, <4>3, StillUnfit DEF H
      <4> QED
        BY <2>1, <3>4, <4>4, NextQuiescent DEF H
    <3>6. PresentQuiescent'
      BY <3>1, <3>5 DEF PresentQuiescent, Idle, NoCall, Refunding, RollingBack
    <3> QED
      BY <2>1, <3>4, <3>6 DEF IInv, H
  <2>8. ASSUME NEW u \in Users, NEW n \in 1 .. MaxOrders, NEW id \in ixUserId,
               RefundSuccess(u, n, id)
        PROVE  IInv'
    <3> DEFINE c == [op |-> "RefundTicket", id |-> id, status |-> orders[id].status]
    <3>1. /\ Idle
          /\ call' = [cmd |-> "refund", ride |-> orders[id].ride,
                      seats |-> GiveBack(rideSeats[orders[id].ride], orders[id]),
                      todo |-> {i \in pendingOrders : orders[i].ride = orders[id].ride}]
      BY <2>8 DEF RefundSuccess, MarkRefunded
    <3>2. /\ c \in Content /\ Log(c) /\ BookView = Undone(BookView', c)
          /\ CanUndo(BookView', c) /\ InOrder(BookView')
          /\ \A i \in ixUserId : orders'[i].ride = orders[i].ride
          /\ \A i \in ixUserId : i # id => orders'[i] = orders[i]
          /\ id \notin pendingOrders /\ pendingOrders' = pendingOrders
          /\ \A r \in Rides : r # orders[id].ride => SeatsNow(r)' = SeatsNow(r)
      BY <1>1, <2>1, <2>8, RefundSuccessView
    <3>3. Quiescent(BookView)
      BY <1>1, <3>1 DEF PresentQuiescent
    <3>4. H' /\ HistoryQuiescent'
      BY <1>1, <1>3, <3>2, <3>3, LogStep
    <3>5. /\ Refunding' /\ call'.ride = orders[id].ride
          /\ call'.todo = {i \in pendingOrders : orders[i].ride = orders[id].ride}
      BY <3>1 DEF Refunding
    <3>6. log' # <<>> /\ Newest'.timestamp = now'
      <4>1. log' = Append(log, [timestamp |-> now, content |-> c]) /\ now' = now
        BY <2>8 DEF RefundSuccess, MarkRefunded, Log
      <4>2. log \in Seq([timestamp : Nat, content : Content]) /\ now \in Nat
        BY <1>1 DEF TypeOK
      <4>3. [timestamp |-> now, content |-> c] \in [timestamp : Nat, content : Content]
        BY <3>2, <4>2
      <4> HIDE DEF c
      <4> QED
        BY <4>1, <4>2, <4>3, AppendProperties DEF Newest
    <3>7. \A i \in call'.todo : orders'[i].ride = call'.ride
      BY <2>2, <3>2, <3>5
    <3>8. ASSUME NEW i \in pendingOrders'
          PROVE  i \in call'.todo \/ ~ Fits(orders'[i], SeatsNow(orders[i].ride)')
      <4>1. i \in pendingOrders /\ i \in ixUserId /\ orders'[i] = orders[i]
        BY <2>2, <3>2
      <4>2. CASE orders[i].ride = orders[id].ride
        BY <3>5, <4>1, <4>2
      <4>3. CASE orders[i].ride # orders[id].ride
        <5>1. orders[i].ride \in Rides
          BY <1>1, <2>2, <4>1, OrderType
        <5>2. SeatsNow(orders[i].ride)' = SeatsNow(orders[i].ride)
          <6>1. ASSUME NEW r \in Rides, r = orders[i].ride PROVE SeatsNow(r)' = SeatsNow(r)
            BY <3>2, <4>3, <6>1
          <6>2. ASSUME NEW r \in Rides, r = orders[i].ride
                PROVE  SeatsNow(orders[i].ride)' = SeatsNow(r)'
            BY <4>1, <6>2
          <6> QED
            BY <5>1, <6>1, <6>2
        <5>3. ~ Fits(orders[i], SeatsNow(orders[i].ride))
          BY <1>1, <2>2, <3>3, <4>1, PresentQuiescentIff
        <5> QED
          BY <4>1, <5>2, <5>3
      <4> QED
        BY <4>2, <4>3
    <3>9. PresentQuiescent'
      <4>1. Refunding' => ~ Idle' /\ ~ RollingBack'
        BY DEF Idle, NoCall, Refunding, RollingBack
      <4> QED
        BY <3>5, <3>6, <3>7, <3>8, <4>1 DEF PresentQuiescent
    <3> QED
      BY <2>1, <3>4, <3>9 DEF IInv, H
  <2>9. ASSUME NEW t \in 0 .. MaxTime, Rollback(t)
        PROVE  IInv'
    <3>1. Idle /\ RollingBack' /\ log' = log
          /\ UNCHANGED <<orders, ixUserId, pendingOrders, rideSeats>>
      BY <2>9 DEF Rollback, StartRollback, RollingBack, bookVars
    <3>2. \A r \in Rides : SeatsNow(r)' = SeatsNow(r)
      BY <3>1 DEF SeatsNow, Idle, NoCall, Refunding, RollingBack
    <3>3. BookView' = BookView
      BY <3>1, <3>2, SameView
    <3>4. H' /\ HistoryQuiescent'
      BY <1>1, <1>3, <3>1, <3>3, QuietStep
    <3>5. Quiescent(BookView')
      BY <1>1, <3>1, <3>3 DEF PresentQuiescent
    <3>6. PresentQuiescent'
      BY <3>1, <3>5 DEF PresentQuiescent, Idle, NoCall, Refunding, RollingBack
    <3> QED
      BY <2>1, <3>4, <3>6 DEF IInv, H
  <2>10. ASSUME NEW id \in pendingOrders, SkipOrder(id)
         PROVE  IInv'
    <3>1. /\ Refunding /\ id \in call.todo /\ ~ Fits(orders[id], call.seats)
          /\ call' = [call EXCEPT !.todo = call.todo \ {id}]
          /\ log' = log /\ now' = now
          /\ UNCHANGED <<orders, ixUserId, pendingOrders, rideSeats>>
      BY <2>10 DEF SkipOrder, IsNextInQueue, bookVars
    <3>2. call \in [cmd : {"refund"}, ride : Rides, seats : [Edges(call.ride) -> Int],
                    todo : SUBSET pendingOrders]
      BY <1>1, <3>1 DEF TypeOK, CallOK, Refunding, Idle, NoCall
    <3>3. /\ Refunding' /\ call'.ride = call.ride /\ call'.seats = call.seats
          /\ call'.todo = call.todo \ {id}
      BY <3>1, <3>2 DEF Refunding
    <3>4. \A r \in Rides : SeatsNow(r)' = SeatsNow(r)
      BY <3>1, <3>3 DEF SeatsNow
    <3>5. BookView' = BookView
      BY <3>1, <3>4, SameView
    <3>6. H' /\ HistoryQuiescent'
      BY <1>1, <1>3, <3>1, <3>5, QuietStep
    <3>7. SeatsNow(orders[id].ride) = call.seats
      BY <1>1, <3>1 DEF PresentQuiescent, SeatsNow
    <3>8. \A i \in pendingOrders : SeatsNow(orders[i].ride)' = SeatsNow(orders[i].ride)
      BY <3>1, <3>3 DEF SeatsNow
    <3>9. \A i \in pendingOrders' :
            i \in call'.todo \/ ~ Fits(orders'[i], SeatsNow(orders[i].ride)')
      BY <1>1, <3>1, <3>3, <3>7, <3>8 DEF PresentQuiescent
    <3>10. /\ log' # <<>> /\ Newest'.timestamp = now'
           /\ \A i \in call'.todo : orders'[i].ride = call'.ride
      BY <1>1, <3>1, <3>3 DEF PresentQuiescent, Newest
    <3>11. PresentQuiescent'
      <4>1. ~ Idle' /\ ~ RollingBack'
        BY <3>3 DEF Idle, NoCall, Refunding, RollingBack
      <4> QED
        BY <3>9, <3>10, <4>1 DEF PresentQuiescent
    <3> QED
      BY <2>1, <3>6, <3>11 DEF IInv, H
  <2>11. ASSUME NEW id \in pendingOrders, FulfillOrder(id)
         PROVE  IInv'
    <3> DEFINE c == [op |-> "FulfillOrder", id |-> id]
    <3>1. /\ Refunding /\ id \in call.todo
          /\ call' = [call EXCEPT !.todo = call.todo \ {id}, !.seats = Take(call.seats, orders[id])]
          /\ pendingOrders' = pendingOrders \ {id} /\ ixUserId' = ixUserId
          /\ log' = Append(log, [timestamp |-> now, content |-> c]) /\ now' = now
      BY <2>11 DEF FulfillOrder, IsNextInQueue, Log
    <3>2. call \in [cmd : {"refund"}, ride : Rides, seats : [Edges(call.ride) -> Int],
                    todo : SUBSET pendingOrders]
      BY <1>1, <3>1 DEF TypeOK, CallOK, Refunding, Idle, NoCall
    <3>3. /\ Refunding' /\ call'.ride = call.ride /\ call'.todo = call.todo \ {id}
      BY <3>1, <3>2 DEF Refunding
    <3>4. /\ c \in Content /\ Log(c) /\ BookView = Undone(BookView', c)
          /\ CanUndo(BookView', c) /\ InOrder(BookView')
          /\ \A i \in ixUserId : orders'[i].ride = orders[i].ride
          /\ \A i \in ixUserId : i # id => orders'[i] = orders[i]
          /\ \A r \in Rides : \A e \in Edges(r) : SeatsNow(r)'[e] <= SeatsNow(r)[e]
      BY <1>1, <2>1, <2>11, FulfillOrderView
    <3>5. log # <<>> /\ Newest.timestamp = now
      BY <1>1, <3>1 DEF PresentQuiescent
    <3>6. H' /\ HistoryQuiescent'
      BY <1>1, <1>3, <3>4, <3>5, LogStep
    <3>7. log' # <<>> /\ Newest'.timestamp = now'
      <4>1. log \in Seq([timestamp : Nat, content : Content]) /\ now \in Nat
        BY <1>1 DEF TypeOK
      <4> QED
        BY <3>1, <3>4, <4>1 DEF Newest
    <3>8. \A i \in call'.todo : orders'[i].ride = call'.ride
      BY <1>1, <2>2, <3>1, <3>2, <3>3, <3>4 DEF PresentQuiescent
    <3>9. ASSUME NEW i \in pendingOrders', i \notin call'.todo
          PROVE  ~ Fits(orders'[i], SeatsNow(orders[i].ride)')
      <4>1. /\ i \in pendingOrders /\ i # id /\ i \notin call.todo
            /\ orders'[i] = orders[i]
        BY <2>2, <3>1, <3>3, <3>4, <3>9
      <4>2. ~ Fits(orders[i], SeatsNow(orders[i].ride))
        BY <1>1, <3>1, <4>1 DEF PresentQuiescent
      <4> QED
        BY <1>1, <2>1, <3>4, <3>6, <4>1, <4>2, StillUnfit DEF H
    <3>10. PresentQuiescent'
      <4>1. ~ Idle' /\ ~ RollingBack'
        BY <3>3 DEF Idle, NoCall, Refunding, RollingBack
      <4> QED
        BY <3>7, <3>8, <3>9, <4>1 DEF PresentQuiescent
    <3> QED
      BY <2>1, <3>6, <3>10 DEF IInv, H
  <2>12. ASSUME RefundDone
         PROVE  IInv'
    <3>1. /\ Refunding /\ call.todo = {} /\ call' = NoCall /\ log' = log
          /\ rideSeats' = [rideSeats EXCEPT ![call.ride] = call.seats]
          /\ UNCHANGED <<orders, ixUserId, pendingOrders>>
      BY <2>12 DEF RefundDone
    <3>2. DOMAIN rideSeats = Rides
      BY <1>1 DEF TypeOK
    <3>3. ~ Refunding'
      BY <3>1 DEF NoCall, Refunding
    <3>4. \A r \in Rides : SeatsNow(r)' = SeatsNow(r)
      BY <3>1, <3>2, <3>3 DEF SeatsNow
    <3>5. BookView' = BookView
      BY <3>1, <3>4, SameView
    <3>6. H' /\ HistoryQuiescent'
      BY <1>1, <1>3, <3>1, <3>5, QuietStep
    <3>7. Quiescent(BookView)
      BY <1>1, <2>2, <3>1, PresentQuiescentIff DEF PresentQuiescent
    <3>8. PresentQuiescent'
      BY <3>1, <3>5, <3>7 DEF PresentQuiescent, Idle, NoCall, Refunding, RollingBack
    <3> QED
      BY <2>1, <3>6, <3>8 DEF IInv, H
  <2>13. ASSUME UndoBuyTicket \/ UndoRefundTicket \/ UndoFulfillOrder
         PROVE  IInv'
    <3> DEFINE n == Len(log)
    <3>1. /\ HasEntryToUndo /\ RollingBack /\ DestroyEntry /\ call' = call
          /\ log # <<>> /\ Newest.timestamp > call.timestamp
      BY <2>13 DEF UndoBuyTicket, UndoRefundTicket, UndoFulfillOrder, Undoes, HasEntryToUndo
    <3>2. DOMAIN orders' = DOMAIN orders
      BY <2>13 DEF UndoBuyTicket, UndoRefundTicket, UndoFulfillOrder
    <3>3. BookView' = Undone(BookView, Newest.content)
      BY <1>1, <2>13, UndoBuyTicketView, UndoRefundTicketView, UndoFulfillOrderView
    <3>4. H' /\ HistoryQuiescent' /\ BookView' = hist[n]
      BY <1>1, <1>3, <3>1, <3>2, <3>3, UndoStep
    <3>5. n \in Nat \ {0} /\ Len(log') = n - 1 /\ \A k \in 1 .. n - 1 : log'[k] = log[k]
      BY <1>1, <3>1, <3>2, DestroyType
    <3>6. CASE Newest.content.op = "FulfillOrder"
      <4>1. n > 1 /\ log[n - 1].timestamp = Newest.timestamp
        BY <1>1, <3>5, <3>6 DEF HistoryQuiescent, Newest
      <4>2. log' # <<>> /\ Newest' = log[n - 1]
        BY <3>5, <4>1 DEF Newest
      <4>3. HasEntryToUndo'
        BY <3>1, <4>1, <4>2 DEF HasEntryToUndo, RollingBack
      <4> QED
        BY <2>1, <3>1, <3>4, <4>3 DEF IInv, H, PresentQuiescent, Idle, NoCall, Refunding, RollingBack
    <3>7. CASE Newest.content.op # "FulfillOrder"
      <4>1. Quiescent(BookView')
        BY <1>1, <3>4, <3>5, <3>7 DEF HistoryQuiescent, Newest
      <4> QED
        BY <2>1, <3>1, <3>4, <4>1 DEF IInv, H, PresentQuiescent, Idle, NoCall, Refunding, RollingBack
    <3> QED
      BY <3>6, <3>7
  <2>14. ASSUME EndRollback
         PROVE  IInv'
    <3>1. /\ RollingBack /\ ~ HasEntryToUndo /\ call' = NoCall /\ log' = log
          /\ UNCHANGED <<orders, ixUserId, pendingOrders, rideSeats>>
      BY <2>14 DEF EndRollback, RollbackDone, bookVars
    <3>2. \A r \in Rides : SeatsNow(r)' = SeatsNow(r)
      BY <3>1 DEF SeatsNow, NoCall, Refunding, RollingBack
    <3>3. BookView' = BookView
      BY <3>1, <3>2, SameView
    <3>4. H' /\ HistoryQuiescent'
      BY <1>1, <1>3, <3>1, <3>3, QuietStep
    <3>5. Quiescent(BookView')
      BY <1>1, <3>1, <3>3 DEF PresentQuiescent
    <3>6. PresentQuiescent'
      BY <3>1, <3>5 DEF PresentQuiescent, Idle, NoCall, Refunding, RollingBack
    <3> QED
      BY <2>1, <3>4, <3>6 DEF IInv, H
  <2> QED
    BY <2>1, <2>3, <2>4, <2>5, <2>6, <2>7, <2>8, <2>9, <2>10, <2>11, <2>12, <2>13, <2>14
       DEF Next, Command, LoopStep
<1> QED
  BY <1>2, <1>3

-----------------------------------------------------------------------------
(* What follows                                                            *)

(* The inductive invariant holds of every history: each book of the past   *)
(* is in order, and the undo visitors lead from each to the one before.    *)
THEOREM RollbackInvariant == HSpec => []IInv
<1>1. HInit => IInv
  BY HInit_IInv
<1>2. IInv /\ [HNext]_hvars => IInv'
  BY IInvStep
<1> QED
  BY <1>1, <1>2, PTL DEF HSpec

(* Order::pendingOrders holds exactly the visible orders that are pending. *)
THEOREM PendingIndexIsExact == HSpec => []PendingIndexExact
<1>1. IInv => PendingIndexExact
  BY Present DEF IInv, PendingIndexExact
<1> QED
  BY <1>1, RollbackInvariant, PTL

(* The undo visitors of order.cpp find every order as the entry left it:   *)
(* their TICKET_ASSERTs hold.                                              *)
THEOREM UndoAssertionsHold == HSpec => []UndoFindsItsOrder
<1>1. ASSUME IInv PROVE UndoFindsItsOrder
  <2>1. TypeOK /\ H /\ HasEntryToUndo => CanUndo(BookView, Newest.content)
    BY CanUndoNewest
  <2>2. BookView.book = [id \in ixUserId |-> orders[id]]
    BY DEF BookView
  <2> QED
    BY <1>1, <2>1, <2>2 DEF IInv, H, UndoFindsItsOrder, CanUndo
<1> QED
  BY <1>1, RollbackInvariant, PTL

(* RefundTicket serves everyone it can: between commands no one in the     *)
(* queue waits for seats that are free, whatever was rolled back.          *)
THEOREM QueueIsServed == HSpec => []NoOneWaitsInVain
<1>1. ASSUME IInv PROVE NoOneWaitsInVain
  <2>1. TypeOK /\ HistoryInOrder /\ (Idle => Quiescent(BookView))
    BY <1>1 DEF IInv, PresentQuiescent
  <2>2. pendingOrders \subseteq ixUserId
    BY <2>1, Present
  <2>3. ASSUME Idle PROVE \A r : SeatsNow(r) = rideSeats[r]
    BY <2>3, Exclusive DEF SeatsNow
  <2>4. ASSUME Idle PROVE \A id \in pendingOrders : ~ Fits(orders[id], SeatsNow(orders[id].ride))
    BY <2>1, <2>2, <2>4, PresentQuiescentIff
  <2> QED
    BY <2>3, <2>4 DEF NoOneWaitsInVain
<1> QED
  BY <1>1, RollbackInvariant, PTL

-----------------------------------------------------------------------------
(* Steps and the log                                                       *)

Undo == UndoBuyTicket \/ UndoRefundTicket \/ UndoFulfillOrder

LEMMA LogGrows ==
  ASSUME TypeOK, NEW c, Log(c)
  PROVE  Len(log') = Len(log) + 1
BY DEF TypeOK, Log

(* A step writes an entry, undoes one, or leaves log and book alone.       *)
LEMMA StepKinds ==
  ASSUME IInv, Next
  PROVE  \/ \E c : Log(c)
         \/ Undo
         \/ log' = log /\ BookView' = BookView
<1>1. TypeOK /\ PresentQuiescent /\ DOMAIN rideSeats = Rides
  BY DEF IInv, TypeOK
<1>2. ASSUME NEW t \in 0 .. MaxTime, ReadTimestamp(t), UNCHANGED <<usersLoggedIn, bookVars>>
      PROVE  log' = log /\ BookView' = BookView
  BY <1>2 DEF ReadTimestamp, bookVars, BookView, SeatsNow, Refunding, Idle
<1>3. ASSUME NEW u \in Users, Login(u) \/ Logout(u)
      PROVE  log' = log /\ BookView' = BookView
  BY <1>3 DEF Login, Logout, bookVars, BookView, SeatsNow, Refunding, Idle
<1>4. ASSUME NEW o \in Requests, BuyTicketSuccess(o) \/ BuyTicketEnqueued(o)
      PROVE  \E c : Log(c)
  BY <1>4 DEF BuyTicketSuccess, BuyTicketEnqueued, CreateOrder
<1>5. ASSUME NEW u \in Users, NEW n \in 1 .. MaxOrders, NEW id \in ixUserId,
             RefundPending(u, n, id) \/ RefundSuccess(u, n, id)
      PROVE  \E c : Log(c)
  BY <1>5 DEF RefundPending, RefundSuccess, MarkRefunded
<1>6. ASSUME NEW t \in 0 .. MaxTime, Rollback(t)
      PROVE  log' = log /\ BookView' = BookView
  BY <1>6, SameView
     DEF Rollback, StartRollback, bookVars, SeatsNow, Idle, NoCall, Refunding
<1>7. ASSUME NEW id \in pendingOrders, SkipOrder(id)
      PROVE  log' = log /\ BookView' = BookView
  <2>1. Refunding /\ log' = log /\ call' = [call EXCEPT !.todo = call.todo \ {id}]
        /\ UNCHANGED <<orders, ixUserId, pendingOrders, rideSeats>>
    BY <1>7 DEF SkipOrder, IsNextInQueue, bookVars
  <2>2. call \in [cmd : {"refund"}, ride : Rides, seats : [Edges(call.ride) -> Int],
                  todo : SUBSET pendingOrders]
    BY <1>1, <2>1 DEF TypeOK, CallOK, Refunding, Idle, NoCall
  <2>3. call'.cmd = call.cmd /\ call'.ride = call.ride /\ call'.seats = call.seats
    BY <2>1, <2>2
  <2>4. \A r \in Rides : SeatsNow(r)' = SeatsNow(r)
    BY <2>1, <2>3 DEF SeatsNow, Refunding
  <2> QED
    BY <2>1, <2>4, SameView
<1>8. ASSUME NEW id \in pendingOrders, FulfillOrder(id)
      PROVE  \E c : Log(c)
  BY <1>8 DEF FulfillOrder
<1>9. ASSUME RefundDone
      PROVE  log' = log /\ BookView' = BookView
  <2>1. \A r \in Rides : SeatsNow(r)' = SeatsNow(r)
    BY <1>1, <1>9 DEF RefundDone, SeatsNow, NoCall, Refunding
  <2> QED
    BY <1>9, <2>1, SameView DEF RefundDone
<1>10. ASSUME EndRollback
       PROVE  log' = log /\ BookView' = BookView
  <2>1. \A r \in Rides : SeatsNow(r)' = SeatsNow(r)
    BY <1>10 DEF EndRollback, RollbackDone, bookVars, SeatsNow, NoCall, Refunding, RollingBack
  <2> QED
    BY <1>10, <2>1, SameView DEF EndRollback, RollbackDone, bookVars
<1> QED
  BY <1>2, <1>3, <1>4, <1>5, <1>6, <1>7, <1>8, <1>9, <1>10 DEF Next, Command, LoopStep, Undo

LEMMA UndoRestores ==
  ASSUME IInv, HNext, Undo
  PROVE  BookView' = hist[Len(log)] /\ Len(log') = Len(log) - 1 /\ Len(log) \in Nat
<1>1. TypeOK /\ H /\ HistoryQuiescent
  BY DEF IInv, H
<1>2. HasEntryToUndo /\ DestroyEntry /\ DOMAIN orders' = DOMAIN orders
  BY DEF Undo, UndoBuyTicket, UndoRefundTicket, UndoFulfillOrder, Undoes
<1>3. BookView' = Undone(BookView, Newest.content)
  BY <1>1, UndoBuyTicketView, UndoRefundTicketView, UndoFulfillOrderView DEF Undo
<1>4. BookView' = hist[Len(log)]
  BY <1>1, <1>2, <1>3, UndoStep
<1> QED
  BY <1>1, <1>2, <1>4, DestroyType

(* What a step does to the history: it adds a book, and undoing the new    *)
(* entry leads back to the one before; or it takes the newest away; or it  *)
(* leaves all of them as they were.                                        *)
LEMMA HistoryGrows ==
  ASSUME IInv, IInv', HNext, NEW c, Log(c)
  PROVE  /\ Len(log) \in Nat /\ Len(log') = Len(log) + 1
         /\ \A k \in 1 .. Len(log) : log'[k] = log[k]
         /\ \A k \in 1 .. Len(log) + 1 : Past(k)' = Past(k)
         /\ \A k : k = Len(log) + 2 => Past(k)' = BookView'
         /\ c \in Content /\ log'[Len(log) + 1] = [timestamp |-> now, content |-> c]
         /\ BookView = Undone(BookView', c)
         /\ CanUndo(BookView', c)
<1> DEFINE n == Len(log)
<1>1. PICK m : m = n
  OBVIOUS
<1>2. /\ n \in Nat /\ m \in Nat /\ Len(log') = m + 1
      /\ \A k \in 1 .. m : log'[k] = log[k]
      /\ log'[m + 1] = [timestamp |-> now, content |-> c]
  BY <1>1 DEF IInv, TypeOK, Log
<1>3. (\A k \in 1 .. m : hist'[k] = hist[k]) /\ hist'[m + 1] = BookView
  BY <1>1, <1>2 DEF HNext
<1>4. \A k \in 1 .. m + 1 : Past(k)' = Past(k)
  BY <1>1, <1>2, <1>3 DEF Past
<1>5. ASSUME NEW k, k = m + 2 PROVE Past(k)' = BookView'
  BY <1>2, <1>5 DEF Past
<1>6. /\ hist'[m + 1] = Undone(Past(m + 2)', log'[m + 1].content)
      /\ CanUndo(Past(m + 2)', log'[m + 1].content)
  <2>1. m + 1 \in 1 .. Len(log') /\ m + 1 + 1 = m + 2
    BY <1>2
  <2> QED
    BY <2>1 DEF IInv, HistoryUndoes
<1>7. BookView = Undone(BookView', c) /\ CanUndo(BookView', c)
  BY <1>2, <1>3, <1>5, <1>6
<1>8. c \in Content
  <2> DEFINE Entry == [timestamp : Nat, content : Content]
  <2>1. log' \in Seq(Entry)
    BY DEF IInv, TypeOK
  <2>2. log'[m + 1] \in Entry
    <3> HIDE DEF Entry
    <3> QED
      BY <1>2, <2>1
  <2> QED
    BY <1>2, <2>2
<1> QED
  BY <1>1, <1>2, <1>4, <1>5, <1>7, <1>8

LEMMA HistoryShrinks ==
  ASSUME IInv, HNext, Undo
  PROVE  /\ Len(log) \in Nat \ {0} /\ Len(log') = Len(log) - 1
         /\ \A k \in 1 .. Len(log) - 1 : log'[k] = log[k]
         /\ \A k \in 1 .. Len(log) : Past(k)' = Past(k)
         /\ BookView' = hist[Len(log)]
         /\ call' = call /\ HasEntryToUndo /\ now' = now
<1>1. TypeOK /\ BookView' = hist[Len(log)]
  BY UndoRestores DEF IInv
<1>2. /\ HasEntryToUndo /\ DestroyEntry /\ DOMAIN orders' = DOMAIN orders
      /\ call' = call /\ now' = now
  BY DEF Undo, UndoBuyTicket, UndoRefundTicket, UndoFulfillOrder, Undoes
<1>3. PICK m : m = Len(log)
  OBVIOUS
<1>4. m \in Nat \ {0} /\ Len(log') = m - 1 /\ \A k \in 1 .. m - 1 : log'[k] = log[k]
  BY <1>1, <1>2, <1>3, DestroyType
<1>5. \A k \in 1 .. m - 1 : hist'[k] = hist[k]
  BY <1>3, <1>4 DEF HNext
<1>6. \A k \in 1 .. m : Past(k)' = Past(k)
  BY <1>1, <1>3, <1>4, <1>5 DEF Past
<1> QED
  BY <1>1, <1>2, <1>3, <1>4, <1>6

LEMMA HistoryRests ==
  ASSUME IInv, HNext, log' = log, BookView' = BookView
  PROVE  Len(log) \in Nat /\ \A k \in 1 .. Len(log) + 1 : Past(k)' = Past(k)
<1>1. Len(log) \in Nat
  BY DEF IInv, TypeOK
<1>2. \A k \in 1 .. Len(log) : hist'[k] = hist[k]
  BY <1>1 DEF HNext
<1> QED
  BY <1>1, <1>2 DEF Past

(* A step that shortens the log restores the book on which the entry it    *)
(* destroys was written: every undo visitor inverts its handler.           *)
THEOREM RollbackIsExact == HSpec => UndoIsExact
<1>1. ASSUME IInv, [HNext]_hvars
      PROVE  [Len(log') < Len(log) => BookView' = hist[Len(log)]]_hvars
  <2>1. Len(log) \in Nat
    BY <1>1 DEF IInv, TypeOK
  <2>2. CASE HNext
    BY <1>1, <2>1, <2>2, StepKinds, LogGrows, UndoRestores DEF HNext, IInv
  <2> QED
    BY <1>1, <2>2
<1> QED
  BY <1>1, RollbackInvariant, PTL DEF HSpec, UndoIsExact

(* A step that changes the visible orders, the queue or the seats writes   *)
(* an entry or undoes one: no change of order.cpp escapes the log.         *)
THEOREM NoChangeEscapesTheLog == HSpec => EveryChangeIsLogged
<1>1. ASSUME IInv, [HNext]_hvars
      PROVE  [BookView' # BookView => Len(log') # Len(log)]_hvars
  <2>1. Len(log) \in Nat
    BY <1>1 DEF IInv, TypeOK
  <2>2. CASE HNext
    BY <1>1, <2>1, <2>2, StepKinds, LogGrows, UndoRestores DEF HNext, IInv
  <2> QED
    BY <1>1, <2>2
<1> QED
  BY <1>1, RollbackInvariant, PTL DEF HSpec, EveryChangeIsLogged

(* The record of a ride is not written while a refund works on its copy.   *)
LEMMA RecordKept ==
  ASSUME Next, Refunding'
  PROVE  rideSeats' = rideSeats
<1>1. ASSUME NEW t \in 0 .. MaxTime, ReadTimestamp(t), UNCHANGED <<usersLoggedIn, bookVars>>
      PROVE  rideSeats' = rideSeats
  BY <1>1 DEF bookVars
<1>2. ASSUME NEW u \in Users, Login(u) \/ Logout(u)
      PROVE  rideSeats' = rideSeats
  BY <1>2 DEF Login, Logout, bookVars
<1>3. ASSUME NEW o \in Requests, BuyTicketSuccess(o) \/ BuyTicketEnqueued(o)
      PROVE  FALSE
  BY <1>3 DEF BuyTicketSuccess, BuyTicketEnqueued, CreateOrder, Idle, NoCall, Refunding
<1>4. ASSUME NEW u \in Users, NEW n \in 1 .. MaxOrders, NEW id \in ixUserId,
             RefundPending(u, n, id) \/ RefundSuccess(u, n, id)
      PROVE  rideSeats' = rideSeats
  BY <1>4 DEF RefundPending, RefundSuccess, MarkRefunded
<1>5. ASSUME NEW t \in 0 .. MaxTime, Rollback(t)
      PROVE  rideSeats' = rideSeats
  BY <1>5 DEF Rollback, bookVars
<1>6. ASSUME NEW id \in pendingOrders, SkipOrder(id) \/ FulfillOrder(id)
      PROVE  rideSeats' = rideSeats
  BY <1>6 DEF SkipOrder, FulfillOrder, bookVars
<1>7. ASSUME RefundDone \/ EndRollback \/ Undo
      PROVE  FALSE
  BY <1>7 DEF RefundDone, EndRollback, RollbackDone, NoCall, Refunding, Undo, UndoBuyTicket,
     UndoRefundTicket, UndoFulfillOrder, Undoes, HasEntryToUndo, RollingBack
<1> QED
  BY <1>1, <1>2, <1>3, <1>4, <1>5, <1>6, <1>7 DEF Next, Command, LoopStep, Undo

(* No edge of a ride is sold twice over, in the record of the ride and in  *)
(* the copy RefundTicket works on, and no undo visitor takes the free      *)
(* seats of an edge below zero, though none of them checks.                *)
THEOREM SeatsNeverNegative == HSpec => []NeverOversold
<1>1. HInit => NeverOversold
  <2>1. ASSUME HInit, NEW r \in Rides, NEW e \in Edges(r)
        PROVE  rideSeats[r][e] >= 0 /\ SeatsNow(r)[e] >= 0
    <3>1. rideSeats[r][e] = Capacity[r] /\ SeatsNow(r) = rideSeats[r] /\ Capacity[r] \in Nat
      BY <2>1 DEF HInit, Init, SeatsNow, Refunding, NoCall
    <3> QED
      BY <3>1
  <2> QED
    BY <2>1 DEF NeverOversold
<1>2. ASSUME IInv, IInv', NeverOversold, [HNext]_hvars
      PROVE  NeverOversold'
  <2>1. \A r \in Rides : SeatsNow(r)' \in [Edges(r) -> Nat]
    <3>1. InOrder(BookView')
      <4>1. Len(log') \in Nat
        BY <1>2 DEF IInv, TypeOK
      <4>2. ASSUME NEW k, k = Len(log') + 1 PROVE k \in 1 .. Len(log') + 1 /\ Past(k)' = BookView'
        BY <4>1, <4>2 DEF Past
      <4> QED
        BY <1>2, <4>2 DEF IInv, HistoryInOrder
    <3>2. BookView'.seats = [r \in Rides |-> SeatsNow(r)']
      BY DEF BookView
    <3> QED
      BY <3>1, <3>2 DEF InOrder
  <2>2. \A r \in Rides : \A e \in Edges(r) : SeatsNow(r)'[e] \in Nat
    BY <2>1
  <2>3. CASE ~ Refunding'
    <3>1. \A r \in Rides : SeatsNow(r)' = rideSeats'[r]
      BY <2>3 DEF SeatsNow
    <3> QED
      BY <2>2, <3>1 DEF NeverOversold
  <2>4. CASE Refunding'
    <3>1. rideSeats' = rideSeats
      BY <1>2, <2>4, RecordKept DEF HNext, hvars, vars, bookVars
    <3>2. \A r \in Rides : \A e \in Edges(r) : rideSeats'[r][e] >= 0
      BY <1>2, <3>1 DEF NeverOversold
    <3> QED
      BY <2>2, <3>2 DEF NeverOversold
  <2> QED
    BY <2>3, <2>4
<1> QED
  BY <1>1, <1>2, RollbackInvariant, PTL DEF HSpec

-----------------------------------------------------------------------------
(* The seats of a book                                                     *)

Conserved(v) ==
  \A r \in Rides : \A e \in Edges(r) : v.seats[r][e] + Held(v.book, r, e) = Capacity[r]

(* A successful order leaves the book and its seats come back.             *)
LEMMA LeavingConserves ==
  ASSUME NEW v, NEW w, NEW id \in DOMAIN v.book,
         IsFiniteSet(DOMAIN v.book), \A i \in DOMAIN v.book : v.book[i].seats \in Int,
         v.book[id].status = "success",
         \A r \in Rides : \A e \in Edges(r) : v.seats[r][e] \in Int,
         \A r \in Rides : \A e \in Edges(r) :
           w.seats[r][e] = v.seats[r][e] + (IF Uses(v.book[id], r, e) THEN v.book[id].seats ELSE 0),
         \A r, e : Holders(w.book, r, e) = Holders(v.book, r, e) \ {id},
         \A i \in DOMAIN v.book : i # id => w.book[i].seats = v.book[i].seats
  PROVE  Conserved(w) <=> Conserved(v)
<1>1. PICK n : n = v.book[id].seats
  OBVIOUS
<1>2. n \in Int
  BY <1>1
<1>3. ASSUME NEW r \in Rides, NEW e \in Edges(r)
      PROVE  w.seats[r][e] + Held(w.book, r, e) = v.seats[r][e] + Held(v.book, r, e)
  <2>1. \A i \in Holders(w.book, r, e) : w.book[i].seats = v.book[i].seats
    BY HoldersFinite
  <2>2. Held(w.book, r, e) = Held(v.book, r, e) - (IF Uses(v.book[id], r, e) THEN n ELSE 0)
    BY <1>1, <2>1, LeavesHeld
  <2>3. Held(v.book, r, e) \in Int /\ v.seats[r][e] \in Int
    BY HeldType
  <2>4. w.seats[r][e] = v.seats[r][e] + (IF Uses(v.book[id], r, e) THEN n ELSE 0)
    BY <1>1
  <2> QED
    BY <1>2, <2>2, <2>3, <2>4
<1> QED
  BY <1>3 DEF Conserved

LEMMA StayingConserves ==
  ASSUME NEW v, NEW w,
         IsFiniteSet(DOMAIN v.book), \A i \in DOMAIN v.book : v.book[i].seats \in Int,
         w.seats = v.seats,
         \A r, e : Holders(w.book, r, e) = Holders(v.book, r, e),
         \A r, e : \A i \in Holders(v.book, r, e) : w.book[i].seats = v.book[i].seats
  PROVE  Conserved(w) <=> Conserved(v)
<1>1. ASSUME NEW r \in Rides, NEW e \in Edges(r)
      PROVE  Held(w.book, r, e) = Held(v.book, r, e)
  BY SameHeld
<1> QED
  BY <1>1 DEF Conserved

LEMMA InOrderType ==
  ASSUME NEW v, InOrder(v), NEW id \in DOMAIN v.book
  PROVE  /\ v.book[id] \in Order /\ HasTrip(v.book[id])
         /\ v.book[id].ride \in Rides /\ v.book[id].seats \in Nat \ {0}
         /\ v.book[id].from \in Nat /\ v.book[id].to \in Nat
         /\ v.book[id].status \in Status
         /\ \A r \in Rides : v.seats[r] \in [Edges(r) -> Nat]
         /\ \A s : /\ [v.book[id] EXCEPT !.status = s].status = s
                   /\ [v.book[id] EXCEPT !.status = s].ride = v.book[id].ride
                   /\ [v.book[id] EXCEPT !.status = s].from = v.book[id].from
                   /\ [v.book[id] EXCEPT !.status = s].to = v.book[id].to
                   /\ [v.book[id] EXCEPT !.status = s].seats = v.book[id].seats
  BY DEF InOrder, Order

(* The record of the ride of p in a table of seats, and p gives its seats  *)
(* back.                                                                   *)
LEMMA GivenBack ==
  ASSUME NEW seats, DOMAIN seats = Rides, \A r \in Rides : seats[r] \in [Edges(r) -> Int],
         NEW p \in Order, NEW r \in Rides, NEW e \in Edges(r)
  PROVE  [seats EXCEPT ![p.ride] = GiveBack(seats[p.ride], p)][r][e]
           = seats[r][e] + (IF Uses(p, r, e) THEN p.seats ELSE 0)
<1>1. p.ride \in Rides /\ p.seats \in Int
  BY DEF Order
<1>2. CASE r = p.ride
  <2>1. GiveBack(seats[r], p)[e] = seats[r][e] + (IF e \in Trip(p.from, p.to) THEN p.seats ELSE 0)
    BY <1>1, RangeAddAt DEF GiveBack
  <2> QED
    BY <1>1, <1>2, <2>1 DEF Uses
<1>3. CASE r # p.ride
  <2>1. seats[r][e] \in Int
    OBVIOUS
  <2> QED
    BY <1>1, <1>3, <2>1 DEF Uses
<1> QED
  BY <1>2, <1>3

LEMMA Taken ==
  ASSUME NEW seats, DOMAIN seats = Rides, \A r \in Rides : seats[r] \in [Edges(r) -> Int],
         NEW p \in Order, NEW r \in Rides, NEW e \in Edges(r)
  PROVE  [seats EXCEPT ![p.ride] = Take(seats[p.ride], p)][r][e]
           = seats[r][e] - (IF Uses(p, r, e) THEN p.seats ELSE 0)
<1>1. p.ride \in Rides /\ p.seats \in Int /\ seats[r][e] \in Int
  BY DEF Order
<1>2. CASE r = p.ride
  <2>1. Take(seats[r], p)[e] = seats[r][e] + (IF e \in Trip(p.from, p.to) THEN -p.seats ELSE 0)
    BY <1>1, RangeAddAt DEF Take
  <2> QED
    BY <1>1, <1>2, <2>1 DEF Uses
<1>3. CASE r # p.ride
  BY <1>1, <1>3 DEF Uses
<1> QED
  BY <1>2, <1>3

(* Undoing an entry keeps the seats and the orders of the book in balance, *)
(* and so does writing it.                                                 *)
LEMMA UndoneConserves ==
  ASSUME NEW v, InOrder(v), IsFiniteSet(DOMAIN v.book), NEW c \in Content, CanUndo(v, c)
  PROVE  Conserved(Undone(v, c)) <=> Conserved(v)
<1> DEFINE id == c.id
           o == v.book[id]
<1>1. PICK w : w = Undone(v, c)
  OBVIOUS
<1>2. /\ id \in DOMAIN v.book /\ o \in Order /\ o.ride \in Rides
      /\ DOMAIN v.seats = Rides
      /\ \A r \in Rides : v.seats[r] \in [Edges(r) -> Int]
      /\ \A r \in Rides : \A e \in Edges(r) : v.seats[r][e] \in Int
      /\ \A i \in DOMAIN v.book : v.book[i].seats \in Int
  <2>1. \A r \in Rides : v.seats[r] \in [Edges(r) -> Nat]
    BY DEF InOrder
  <2>2. \A r \in Rides : \A e \in Edges(r) : v.seats[r][e] \in Int
    BY <2>1
  <2>3. \A r \in Rides : v.seats[r] \in [Edges(r) -> Int]
    BY <2>1
  <2> QED
    BY <2>2, <2>3, InOrderType DEF CanUndo, InOrder
<1>3. CASE c.op = "BuyTicket"
  <2> DEFINE book == [i \in DOMAIN v.book \ {id} |-> v.book[i]]
  <2>1. w.book = book /\ o.status \in {"pending", "success"}
    BY <1>1, <1>2, <1>3, InOrderType DEF Undone, CanUndo, Status
  <2>2. \A r, e : Holders(w.book, r, e) = Holders(v.book, r, e) \ {id}
    <3>1. DOMAIN book = DOMAIN v.book \ {id} /\ \A i \in DOMAIN book : book[i] = v.book[i]
      OBVIOUS
    <3> HIDE DEF book
    <3> QED
      BY <2>1, <3>1 DEF Holders
  <2>3. \A i \in DOMAIN v.book : i # id => w.book[i].seats = v.book[i].seats
    BY <2>1
  <2>4. CASE o.status = "pending"
    <3>1. w.seats = v.seats
      BY <1>1, <1>3, <2>4 DEF Undone
    <3>2. \A r, e : id \notin Holders(v.book, r, e)
      BY <2>4 DEF Holders
    <3>3. \A r, e : Holders(w.book, r, e) = Holders(v.book, r, e)
      BY <2>2, <3>2
    <3>4. \A r, e : \A i \in Holders(v.book, r, e) : w.book[i].seats = v.book[i].seats
      BY <2>3, <3>2 DEF Holders
    <3> QED
      BY <1>1, <1>2, <3>1, <3>3, <3>4, StayingConserves
  <2>5. CASE o.status = "success"
    <3>1. w.seats = [v.seats EXCEPT ![o.ride] = GiveBack(v.seats[o.ride], o)]
      BY <1>1, <1>3, <2>5 DEF Undone
    <3>2. \A r \in Rides : \A e \in Edges(r) :
            w.seats[r][e] = v.seats[r][e] + (IF Uses(v.book[id], r, e) THEN v.book[id].seats ELSE 0)
      BY <1>2, <3>1, GivenBack
    <3>3. v.book[id].status = "success"
      BY <2>5
    <3> HIDE DEF o
    <3>4. Conserved(w) <=> Conserved(v)
      BY <1>2, <2>2, <2>3, <3>2, <3>3, LeavingConserves
    <3> QED
      BY <1>1, <3>4
  <2> QED
    BY <2>1, <2>4, <2>5
<1>4. CASE c.op = "FulfillOrder"
  <2>1. /\ w.book = [v.book EXCEPT ![id].status = "pending"]
        /\ w.seats = [v.seats EXCEPT ![o.ride] = GiveBack(v.seats[o.ride], o)]
        /\ o.status = "success"
    BY <1>1, <1>4 DEF Undone, CanUndo
  <2>2. /\ DOMAIN w.book = DOMAIN v.book
        /\ \A i \in DOMAIN v.book : /\ w.book[i].ride = v.book[i].ride
                                    /\ w.book[i].from = v.book[i].from
                                    /\ w.book[i].to = v.book[i].to
                                    /\ w.book[i].seats = v.book[i].seats
        /\ \A i \in DOMAIN v.book : i # id => w.book[i] = v.book[i]
        /\ w.book[id].status = "pending"
    <3>1. /\ DOMAIN w.book = DOMAIN v.book
          /\ w.book[id] = [v.book[id] EXCEPT !.status = "pending"]
          /\ \A i \in DOMAIN v.book : i # id => w.book[i] = v.book[i]
      BY <1>2, <2>1
    <3>2. /\ w.book[id].ride = o.ride /\ w.book[id].from = o.from /\ w.book[id].to = o.to
          /\ w.book[id].seats = o.seats /\ w.book[id].status = "pending"
      BY <1>2, <3>1 DEF Order
    <3> QED
      BY <3>1, <3>2
  <2>3. \A r, e : Holders(w.book, r, e) = Holders(v.book, r, e) \ {id}
    BY <2>2 DEF Holders
  <2>4. \A r \in Rides : \A e \in Edges(r) :
          w.seats[r][e] = v.seats[r][e] + (IF Uses(v.book[id], r, e) THEN v.book[id].seats ELSE 0)
    BY <1>2, <2>1, GivenBack
  <2>5. v.book[id].status = "success" /\ \A i \in DOMAIN v.book : i # id => w.book[i].seats = v.book[i].seats
    BY <2>1, <2>2
  <2>6. Conserved(w) <=> Conserved(v)
    <3> HIDE DEF o
    <3> QED
      BY <1>2, <2>3, <2>4, <2>5, LeavingConserves
  <2> QED
    BY <1>1, <2>6
<1>5. CASE c.op = "RefundTicket"
  <2>1. /\ w.book = [v.book EXCEPT ![id].status = c.status]
        /\ o.status = "refunded"
        /\ c.status \in {"success", "pending"}
    BY <1>1, <1>5 DEF Undone, CanUndo, Content
  <2>2. /\ DOMAIN w.book = DOMAIN v.book
        /\ \A i \in DOMAIN v.book : /\ w.book[i].ride = v.book[i].ride
                                    /\ w.book[i].from = v.book[i].from
                                    /\ w.book[i].to = v.book[i].to
                                    /\ w.book[i].seats = v.book[i].seats
        /\ \A i \in DOMAIN v.book : i # id => w.book[i] = v.book[i]
        /\ w.book[id].status = c.status
    <3>1. /\ DOMAIN w.book = DOMAIN v.book
          /\ w.book[id] = [v.book[id] EXCEPT !.status = c.status]
          /\ \A i \in DOMAIN v.book : i # id => w.book[i] = v.book[i]
      BY <1>2, <2>1
    <3>2. /\ w.book[id].ride = o.ride /\ w.book[id].from = o.from /\ w.book[id].to = o.to
          /\ w.book[id].seats = o.seats /\ w.book[id].status = c.status
      BY <1>2, <3>1 DEF Order
    <3> QED
      BY <3>1, <3>2
  <2>3. CASE c.status = "pending"
    <3>1. w.seats = v.seats
      BY <1>1, <1>5, <2>3 DEF Undone
    <3>2. \A r, e : Holders(w.book, r, e) = Holders(v.book, r, e)
      BY <2>1, <2>2, <2>3 DEF Holders
    <3>3. \A r, e : \A i \in Holders(v.book, r, e) : w.book[i].seats = v.book[i].seats
      BY <2>2 DEF Holders
    <3> QED
      BY <1>1, <1>2, <3>1, <3>2, <3>3, StayingConserves
  <2>4. CASE c.status = "success"
    <3>1. w.seats = [v.seats EXCEPT ![o.ride] = Take(v.seats[o.ride], o)]
      BY <1>1, <1>5, <2>4 DEF Undone
    <3>2. \A r, e : Holders(v.book, r, e) = Holders(w.book, r, e) \ {id}
      BY <2>1, <2>2, <2>4 DEF Holders
    <3>3. \A r \in Rides : \A e \in Edges(r) :
            w.seats[r][e] = v.seats[r][e] - (IF Uses(o, r, e) THEN o.seats ELSE 0)
      <4> HIDE DEF o
      <4> QED
        BY <1>2, <3>1, Taken
    <3>4. o.seats \in Int
      BY <1>2
    <3>5. \A r \in Rides : \A e \in Edges(r) :
            /\ w.seats[r][e] \in Int
            /\ v.seats[r][e] = w.seats[r][e] + (IF Uses(o, r, e) THEN o.seats ELSE 0)
      <4> HIDE DEF o
      <4> QED
        BY <1>2, <3>3, <3>4
    <3>6. \A r \in Rides : \A e \in Edges(r) :
            v.seats[r][e] = w.seats[r][e] + (IF Uses(o, r, e) THEN o.seats ELSE 0)
      BY <3>5
    <3>7. \A r, e : Uses(w.book[id], r, e) <=> Uses(o, r, e)
      BY <1>2, <2>2 DEF Uses
    <3>8. \A r \in Rides : \A e \in Edges(r) : w.seats[r][e] \in Int
      BY <3>5
    <3>9. \A r \in Rides : \A e \in Edges(r) :
            v.seats[r][e] = w.seats[r][e] + (IF Uses(w.book[id], r, e) THEN w.book[id].seats ELSE 0)
      BY <1>2, <2>2, <3>6, <3>7
    <3>10. Conserved(v) <=> Conserved(w)
      <4>1. /\ id \in DOMAIN w.book /\ IsFiniteSet(DOMAIN w.book)
            /\ \A i \in DOMAIN w.book : w.book[i].seats \in Int
            /\ w.book[id].status = "success"
            /\ \A i \in DOMAIN w.book : i # id => v.book[i].seats = w.book[i].seats
        BY <1>2, <2>2, <2>4
      <4> QED
        BY <3>2, <3>8, <3>9, <4>1, LeavingConserves
    <3> QED
      BY <1>1, <3>10
  <2> QED
    BY <2>1, <2>3, <2>4
<1> QED
  BY <1>3, <1>4, <1>5 DEF Content

-----------------------------------------------------------------------------
(* Every book of the past, and the present one, is in balance              *)

HistoryConserved ==
  \A k \in 1 .. Len(log) + 1 : Conserved(Past(k)) /\ IsFiniteSet(DOMAIN Past(k).book)

LEMMA VisibleFinite ==
  ASSUME TypeOK
  PROVE  IsFiniteSet(ixUserId) /\ DOMAIN BookView.book = ixUserId
<1>1. Len(orders) \in Nat /\ ixUserId \subseteq 1 .. Len(orders)
  BY DEF TypeOK
<1>2. IsFiniteSet(ixUserId)
  <2>1. IsFiniteSet(1 .. Len(orders))
    BY <1>1, FS_Interval
  <2> QED
    BY <1>1, <2>1, FS_Subset
<1> QED
  BY <1>2 DEF BookView

LEMMA PresentIsPast ==
  ASSUME TypeOK, NEW k, k = Len(log) + 1
  PROVE  Past(k) = BookView /\ k \in 1 .. Len(log) + 1
<1>1. Len(log) \in Nat
  BY DEF TypeOK
<1> QED
  BY <1>1 DEF Past

LEMMA ConservedInit ==
  ASSUME HInit
  PROVE  HistoryConserved
<1>1. TypeOK /\ Len(log) = 0 /\ ixUserId = {}
  BY TypeInit DEF HInit, Init
<1>2. IsFiniteSet(DOMAIN BookView.book) /\ DOMAIN BookView.book = {}
  BY <1>1, VisibleFinite
<1>3. ASSUME NEW r \in Rides, NEW e \in Edges(r)
      PROVE  BookView.seats[r][e] + Held(BookView.book, r, e) = Capacity[r]
  <2>1. Holders(BookView.book, r, e) = {}
    BY <1>2 DEF Holders
  <2>2. Held(BookView.book, r, e) = 0
    BY <2>1, SeatsOfEmpty DEF Held
  <2>3. BookView.seats[r][e] = Capacity[r]
    BY DEF HInit, Init, BookView, SeatsNow, Refunding, NoCall
  <2> QED
    BY <2>2, <2>3
<1>4. Conserved(BookView)
  BY <1>3 DEF Conserved
<1>5. Past(1) = BookView
  BY <1>1 DEF Past
<1>6. ASSUME NEW k \in 1 .. Len(log) + 1
      PROVE  Conserved(Past(k)) /\ IsFiniteSet(DOMAIN Past(k).book)
  <2>1. k = 1
    BY <1>1, <1>6
  <2> QED
    BY <1>2, <1>4, <1>5, <2>1
<1> QED
  BY <1>6 DEF HistoryConserved

LEMMA ConservedStep ==
  ASSUME IInv, IInv', HNext, HistoryConserved
  PROVE  HistoryConserved'
<1>1. PICK m : m = Len(log)
  OBVIOUS
<1>2. TypeOK /\ TypeOK' /\ Len(log) \in Nat
  BY DEF IInv, TypeOK
<1>3. ASSUME NEW c, Log(c)
      PROVE  HistoryConserved'
  <2>1. /\ Len(log') = m + 1 /\ c \in Content
        /\ \A k \in 1 .. m + 1 : Past(k)' = Past(k)
        /\ \A k : k = m + 2 => Past(k)' = BookView'
        /\ BookView = Undone(BookView', c)
        /\ CanUndo(BookView', c)
    BY <1>1, <1>3, HistoryGrows
  <2>2. InOrder(BookView')
    <3>1. m + 2 \in 1 .. Len(log') + 1 /\ Past(m + 2)' = BookView'
      BY <1>1, <1>2, <2>1
    <3> QED
      BY <3>1 DEF IInv, HistoryInOrder
  <2>3. IsFiniteSet(DOMAIN BookView'.book)
    <3>1. Len(orders') \in Nat /\ ixUserId' \subseteq 1 .. Len(orders')
      BY <1>2 DEF TypeOK
    <3>2. IsFiniteSet(ixUserId')
      <4>1. IsFiniteSet(1 .. Len(orders'))
        BY <3>1, FS_Interval
      <4> QED
        BY <3>1, <4>1, FS_Subset
    <3> QED
      BY <3>2 DEF BookView
  <2>4. Conserved(BookView)
    BY <1>2, PresentIsPast DEF HistoryConserved
  <2>5. Conserved(BookView')
    <3>1. Conserved(Undone(BookView', c)) <=> Conserved(BookView')
      BY <2>1, <2>2, <2>3, UndoneConserves
    <3> QED
      BY <2>1, <2>4, <3>1
  <2>6. ASSUME NEW k \in 1 .. Len(log') + 1
        PROVE  Conserved(Past(k)') /\ IsFiniteSet(DOMAIN Past(k)'.book)
    <3>1. CASE k = m + 2
      BY <2>1, <2>3, <2>5, <3>1
    <3>2. CASE k # m + 2
      <4>1. k \in 1 .. m + 1
        BY <1>1, <1>2, <2>1, <3>2
      <4> QED
        BY <1>1, <2>1, <4>1 DEF HistoryConserved
    <3> QED
      BY <3>1, <3>2
  <2> QED
    BY <2>6 DEF HistoryConserved, Conserved
<1>4. ASSUME Undo
      PROVE  HistoryConserved'
  <2>1. /\ Len(log) \in Nat \ {0} /\ Len(log') = m - 1
        /\ \A k \in 1 .. m : Past(k)' = Past(k)
    BY <1>1, <1>4, HistoryShrinks
  <2>2. ASSUME NEW k \in 1 .. Len(log') + 1
        PROVE  Conserved(Past(k)') /\ IsFiniteSet(DOMAIN Past(k)'.book)
    <3>1. k \in 1 .. m /\ k \in 1 .. m + 1
      BY <1>1, <2>1
    <3> QED
      BY <1>1, <2>1, <3>1 DEF HistoryConserved
  <2> QED
    BY <2>2 DEF HistoryConserved, Conserved
<1>5. ASSUME log' = log, BookView' = BookView
      PROVE  HistoryConserved'
  <2>1. \A k \in 1 .. Len(log) + 1 : Past(k)' = Past(k)
    BY <1>5, HistoryRests
  <2>2. ASSUME NEW k \in 1 .. Len(log') + 1
        PROVE  Conserved(Past(k)') /\ IsFiniteSet(DOMAIN Past(k)'.book)
    BY <1>5, <2>1 DEF HistoryConserved
  <2> QED
    BY <2>2 DEF HistoryConserved, Conserved
<1> QED
  BY <1>3, <1>4, <1>5, StepKinds DEF HNext

LEMMA ConservedStutter ==
  ASSUME HistoryConserved, UNCHANGED hvars
  PROVE  HistoryConserved'
<1>1. BookView' = BookView
  BY DEF hvars, vars, bookVars, BookView, SeatsNow, Refunding
<1>2. \A k \in 1 .. Len(log) + 1 : Past(k)' = Past(k)
  BY <1>1 DEF hvars, vars, Past
<1>3. log' = log
  BY DEF hvars, vars
<1>4. ASSUME NEW k \in 1 .. Len(log') + 1
      PROVE  Conserved(Past(k)') /\ IsFiniteSet(DOMAIN Past(k)'.book)
  BY <1>2, <1>3 DEF HistoryConserved
<1> QED
  BY <1>4 DEF HistoryConserved, Conserved

LEMMA Conservation == HSpec => []HistoryConserved
<1>1. HInit => HistoryConserved
  BY ConservedInit
<1>2. HistoryConserved /\ IInv /\ IInv' /\ [HNext]_hvars => HistoryConserved'
  BY ConservedStep, ConservedStutter
<1> QED
  BY <1>1, <1>2, RollbackInvariant, PTL DEF HSpec

(* No seat is lost and none is made up, in the middle of a refund or of a  *)
(* rollback as well: what is free on an edge and what the successful       *)
(* orders over it hold add up to the capacity of the train.                *)
THEOREM SeatsAddUp == HSpec => []SeatConservation
<1>1. ASSUME IInv, HistoryConserved PROVE SeatConservation
  <2>1. TypeOK /\ HistoryInOrder
    BY <1>1 DEF IInv
  <2>2. Conserved(BookView)
    BY <1>1, <2>1, PresentIsPast DEF HistoryConserved
  <2>3. /\ BookView.book = [id \in ixUserId |-> orders[id]]
        /\ \A r \in Rides : BookView.seats[r] = SeatsNow(r)
    BY DEF BookView
  <2>4. IsFiniteSet(ixUserId) /\ \A id \in ixUserId : orders[id].seats \in Int
    <3>1. \A id \in ixUserId : orders[id] \in Order
      BY <2>1, Present
    <3> QED
      BY <2>1, <3>1, VisibleFinite DEF Order
  <2>5. ASSUME NEW r \in Rides, NEW e \in Edges(r)
        PROVE  SeatsHeld(r, e) = Held(BookView.book, r, e)
    <3> DEFINE S == {id \in ixUserId : /\ orders[id].ride = r
                                       /\ orders[id].status = "success"
                                       /\ e \in Trip(orders[id].from, orders[id].to)}
    <3>1. SeatsHeld(r, e) = SeatsOf(orders, S)
      BY DEF SeatsHeld, SeatsOf
    <3>2. Holders(BookView.book, r, e) = S
      BY <2>3 DEF Holders
    <3>3. IsFiniteSet(S) /\ \A id \in S : orders[id].seats \in Int /\ BookView.book[id].seats = orders[id].seats
      BY <2>3, <2>4, FS_Subset
    <3> HIDE DEF S
    <3>4. SeatsOf(BookView.book, S) = SeatsOf(orders, S)
      BY <3>3, SeatsOfType
    <3> QED
      BY <3>1, <3>2, <3>4 DEF Held
  <2> QED
    BY <2>2, <2>3, <2>5 DEF Conserved, SeatConservation
<1> QED
  BY <1>1, Conservation, RollbackInvariant, PTL

-----------------------------------------------------------------------------
(* The queue                                                               *)

(* The only step that takes a waiting order out of the queue because it is *)
(* served is the iteration of RefundTicket that comes to it.               *)
LEMMA ServedByRefund ==
  ASSUME IInv, Next, NEW id \in pendingOrders, id \notin pendingOrders',
         orders'[id].status = "success"
  PROVE  FulfillOrder(id)
<1>1. /\ TypeOK /\ H /\ id \in ixUserId /\ orders[id].status = "pending" /\ id \in DOMAIN orders
  BY Present DEF IInv, H, TypeOK
<1>2. ASSUME NEW t \in 0 .. MaxTime, ReadTimestamp(t), UNCHANGED <<usersLoggedIn, bookVars>>
      PROVE  FALSE
  BY <1>2 DEF bookVars
<1>3. ASSUME NEW u \in Users, Login(u) \/ Logout(u)
      PROVE  FALSE
  BY <1>3 DEF Login, Logout, bookVars
<1>4. ASSUME NEW o \in Requests, BuyTicketSuccess(o) \/ BuyTicketEnqueued(o)
      PROVE  FALSE
  BY <1>4 DEF BuyTicketSuccess, BuyTicketEnqueued
<1>5. ASSUME NEW u \in Users, NEW n \in 1 .. MaxOrders, NEW i \in ixUserId,
             RefundPending(u, n, i) \/ RefundSuccess(u, n, i)
      PROVE  FALSE
  <2>1. i = id /\ orders' = [orders EXCEPT ![i].status = "refunded"]
    BY <1>5 DEF RefundPending, RefundSuccess, MarkRefunded
  <2>2. orders'[id].status = "refunded"
    <3>1. orders[id] \in Order
      BY <1>1, OrderType
    <3> QED
      BY <1>1, <2>1, <3>1 DEF Order
  <2> QED
    BY <2>2
<1>6. ASSUME NEW t \in 0 .. MaxTime, Rollback(t)
      PROVE  FALSE
  BY <1>6 DEF Rollback, bookVars
<1>7. ASSUME NEW i \in pendingOrders, SkipOrder(i)
      PROVE  FALSE
  BY <1>7 DEF SkipOrder, bookVars
<1>8. ASSUME NEW i \in pendingOrders, FulfillOrder(i)
      PROVE  FulfillOrder(id)
  <2>1. i = id
    BY <1>8 DEF FulfillOrder
  <2> QED
    BY <1>8, <2>1
<1>9. ASSUME RefundDone \/ EndRollback \/ UndoRefundTicket \/ UndoFulfillOrder
      PROVE  FALSE
  BY <1>9 DEF RefundDone, EndRollback, bookVars, UndoRefundTicket, UndoFulfillOrder
<1>10. ASSUME UndoBuyTicket
       PROVE  FALSE
  BY <1>1, <1>10 DEF UndoBuyTicket
<1> QED
  BY <1>2, <1>3, <1>4, <1>5, <1>6, <1>7, <1>8, <1>9, <1>10 DEF Next, Command, LoopStep

(* The queue of a ride is served in the order of the purchases: an order   *)
(* that is served overtakes only orders that the seats left at that moment *)
(* are too few for.                                                        *)
THEOREM QueueIsFair == HSpec => NoQueueJumping
<1> DEFINE Fair ==
      \A id \in pendingOrders \ pendingOrders' :
        orders'[id].status = "success" =>
          \A ahead \in pendingOrders :
            (ahead < id /\ orders[ahead].ride = orders[id].ride)
              => ~ Fits(orders[ahead], SeatsNow(orders[id].ride))
<1>1. ASSUME IInv, [HNext]_hvars
      PROVE  [Fair]_vars
  <2>1. SUFFICES ASSUME Next, NEW id \in pendingOrders, id \notin pendingOrders',
                        orders'[id].status = "success", NEW ahead \in pendingOrders,
                        ahead < id, orders[ahead].ride = orders[id].ride
                 PROVE  ~ Fits(orders[ahead], SeatsNow(orders[id].ride))
    BY <1>1 DEF HNext, hvars
  <2>2. FulfillOrder(id)
    BY <1>1, <2>1, ServedByRefund
  <2>3. Refunding /\ \A i \in call.todo : id <= i
    BY <2>2 DEF FulfillOrder, IsNextInQueue
  <2>4. id \in Nat /\ ahead \in Nat
    BY <1>1, OrderType DEF IInv, TypeOK
  <2>5. ahead \notin call.todo
    BY <2>1, <2>3, <2>4
  <2> QED
    BY <1>1, <2>1, <2>3, <2>5 DEF IInv, PresentQuiescent
<1> QED
  BY <1>1, RollbackInvariant, PTL DEF HSpec, NoQueueJumping

-----------------------------------------------------------------------------
(* Time, and a refund in progress                                          *)

(* The log is in the order of time, and nothing in it lies ahead.          *)
TimeOK ==
  /\ now \in 0 .. MaxTime
  /\ \A k \in 1 .. Len(log) : log[k].timestamp <= now
  /\ \A j, k \in 1 .. Len(log) : j <= k => log[j].timestamp <= log[k].timestamp
  /\ RollingBack => call.timestamp <= now

(* The book before the refund of id, with that order refunded, and the     *)
(* orders that wait for its ride.                                          *)
Without(before, id) == [before EXCEPT ![id].status = "refunded"]
Queue(before, id) ==
  {i \in DOMAIN before : Without(before, id)[i].ride = before[id].ride
                         /\ Without(before, id)[i].status = "pending"}

(* Those of the orders of `past' that were served are those that could be, *)
(* given the ones served before.                                           *)
ServedInOrder(without, past, S) ==
  \A i \in past :
    i \in S <=> Service!CanServe(Service!WithServed(without, {j \in S : j < i}), without[i])

(* A refund of id has taken the book from `before' to `book' and has still *)
(* to look at `todo': the orders it has looked at are served or passed     *)
(* over as TicketService asks.                                             *)
Progress(before, id, ride, todo, book) ==
  LET queue == Queue(before, id)
      past  == queue \ todo
  IN  /\ id \in DOMAIN before
      /\ before[id].status = "success"
      /\ ride = before[id].ride
      /\ todo \subseteq queue
      /\ \A i \in past, j \in todo : i < j
      /\ \E S \in SUBSET past : /\ book = Service!WithServed(Without(before, id), S)
                                /\ ServedInOrder(Without(before, id), past, S)

(* The log lg ends with the entry of a refund, at m, and those of the      *)
(* orders it has served.                                                   *)
Began(lg, m) ==
  /\ m \in DOMAIN lg
  /\ lg[m].content.op = "RefundTicket"
  /\ \A k \in DOMAIN lg : k > m => lg[k].content.op = "FulfillOrder"

RefundProgress ==
  Refunding =>
    \E m \in 1 .. Len(log) :
      /\ Began(log, m)
      /\ Progress(hist[m].book, log[m].content.id, call.ride, call.todo, BookView.book)

LEMMA TimeInit ==
  ASSUME HInit
  PROVE  TimeOK
<1>1. Len(log) = 0 /\ now = 0 /\ ~ RollingBack
  BY DEF HInit, Init, RollingBack, NoCall
<1> QED
  BY <1>1 DEF TimeOK

(* The clock moves between commands only, and a rollback starts at a time  *)
(* that has come.                                                          *)
LEMMA ClockKept ==
  ASSUME TypeOK, Next
  PROVE  /\ \/ now' = now
            \/ log' = log /\ now' \in 0 .. MaxTime /\ now <= now' /\ Idle'
         /\ \/ ~ RollingBack'
            \/ RollingBack /\ call' = call /\ now' = now
            \/ now' = now /\ log' = log /\ call'.timestamp <= now
<1>1. ASSUME NEW t \in 0 .. MaxTime, ReadTimestamp(t), UNCHANGED <<usersLoggedIn, bookVars>>
      PROVE  log' = log /\ now' \in 0 .. MaxTime /\ now <= now' /\ Idle' /\ ~ RollingBack'
  <2>1. t \in Nat /\ now \in Nat /\ t >= now
    BY <1>1 DEF ReadTimestamp, TypeOK
  <2> QED
    BY <1>1, <2>1, Exclusive DEF ReadTimestamp, Idle, RollingBack, NoCall
<1>2. ASSUME NEW u \in Users, Login(u) \/ Logout(u)
      PROVE  now' = now /\ ~ RollingBack'
  BY <1>2 DEF Login, Logout, Idle, NoCall, RollingBack
<1>3. ASSUME NEW o \in Requests, BuyTicketSuccess(o) \/ BuyTicketEnqueued(o)
      PROVE  now' = now /\ ~ RollingBack'
  BY <1>3 DEF BuyTicketSuccess, BuyTicketEnqueued, CreateOrder, Idle, NoCall, RollingBack
<1>4. ASSUME NEW u \in Users, NEW n \in 1 .. MaxOrders, NEW id \in ixUserId,
             RefundPending(u, n, id) \/ RefundSuccess(u, n, id)
      PROVE  now' = now /\ ~ RollingBack'
  BY <1>4 DEF RefundPending, RefundSuccess, MarkRefunded, Idle, NoCall, RollingBack
<1>5. ASSUME NEW t \in 0 .. MaxTime, Rollback(t)
      PROVE  now' = now /\ log' = log /\ call'.timestamp <= now
  BY <1>5 DEF Rollback, StartRollback
<1>6. ASSUME NEW id \in pendingOrders, SkipOrder(id) \/ FulfillOrder(id)
      PROVE  now' = now /\ ~ RollingBack'
  <2>1. Refunding /\ now' = now
    BY <1>6 DEF SkipOrder, FulfillOrder, IsNextInQueue
  <2>2. call \in [cmd : {"refund"}, ride : Rides, seats : [Edges(call.ride) -> Int],
                  todo : SUBSET pendingOrders]
    BY <2>1 DEF TypeOK, CallOK, Refunding, Idle, NoCall
  <2>3. call'.cmd = call.cmd
    BY <1>6, <2>2 DEF SkipOrder, FulfillOrder
  <2> QED
    BY <2>1, <2>3 DEF Refunding, RollingBack
<1>7. ASSUME RefundDone
      PROVE  now' = now /\ ~ RollingBack'
  BY <1>7 DEF RefundDone, NoCall, RollingBack
<1>8. ASSUME Undo
      PROVE  now' = now /\ RollingBack /\ call' = call
  BY <1>8 DEF Undo, UndoBuyTicket, UndoRefundTicket, UndoFulfillOrder, Undoes, HasEntryToUndo
<1>9. ASSUME EndRollback
      PROVE  now' = now /\ ~ RollingBack'
  BY <1>9 DEF EndRollback, RollbackDone, NoCall, RollingBack
<1> QED
  BY <1>1, <1>2, <1>3, <1>4, <1>5, <1>6, <1>7, <1>8, <1>9 DEF Next, Command, LoopStep, Undo

LEMMA TimeStep ==
  ASSUME IInv, IInv', HNext, TimeOK
  PROVE  TimeOK'
<1>1. PICK n : n = Len(log)
  OBVIOUS
<1>2. TypeOK /\ Next /\ n \in Nat /\ now \in Nat
  BY <1>1 DEF IInv, TypeOK, HNext
<1>3. ASSUME NEW k \in 1 .. n PROVE log[k].timestamp \in Nat
  <2> DEFINE Entry == [timestamp : Nat, content : Content]
  <2>1. log \in Seq(Entry)
    BY <1>2 DEF TypeOK
  <2>2. log[k] \in Entry
    <3> HIDE DEF Entry
    <3> QED
      BY <1>1, <2>1
  <2> QED
    BY <2>2
<1>4. ASSUME log' = log PROVE TimeOK'
  <2>1. now' \in 0 .. MaxTime /\ now <= now'
    BY <1>2, ClockKept DEF TimeOK
  <2>2. \A k \in 1 .. Len(log) : log[k].timestamp <= now'
    BY <1>1, <1>2, <1>3, <2>1 DEF TimeOK
  <2>3. RollingBack' => call'.timestamp <= now'
    BY <1>2, ClockKept DEF TimeOK, Idle, RollingBack, NoCall
  <2> QED
    BY <1>4, <2>1, <2>2, <2>3 DEF TimeOK
<1>5. ASSUME NEW c, Log(c) PROVE TimeOK'
  <2>1. /\ Len(log') = n + 1 /\ \A k \in 1 .. n : log'[k] = log[k]
        /\ log'[n + 1].timestamp = now
    <3>1. /\ Len(log') = n + 1 /\ \A k \in 1 .. n : log'[k] = log[k]
          /\ log'[n + 1] = [timestamp |-> now, content |-> c]
      BY <1>1, <1>5, HistoryGrows
    <3> QED
      BY <3>1
  <2>2. log' # log /\ now' = now
    BY <1>1, <1>2, <2>1, ClockKept
  <2>3. \A k \in 1 .. n : log'[k].timestamp <= now /\ log'[k].timestamp \in Nat
    BY <1>1, <1>3, <2>1 DEF TimeOK
  <2>4. ASSUME NEW j \in 1 .. n + 1, NEW k \in 1 .. n + 1, j <= k
        PROVE  log'[j].timestamp <= log'[k].timestamp
    <3>1. CASE k = n + 1
      <4>1. j \in 1 .. n \/ j = n + 1
        BY <1>2
      <4> QED
        BY <1>2, <2>1, <2>3, <3>1, <4>1
    <3>2. CASE k # n + 1
      <4>1. j \in 1 .. n /\ k \in 1 .. n
        BY <1>2, <2>4, <3>2
      <4> QED
        BY <1>1, <2>1, <2>4, <4>1 DEF TimeOK
    <3> QED
      BY <3>1, <3>2
  <2>5. \A k \in 1 .. n + 1 : log'[k].timestamp <= now
    <3> SUFFICES ASSUME NEW k \in 1 .. n + 1 PROVE log'[k].timestamp <= now
      OBVIOUS
    <3>1. k \in 1 .. n \/ k = n + 1
      BY <1>2
    <3> QED
      BY <1>2, <2>1, <2>3, <3>1
  <2>6. RollingBack' => call'.timestamp <= now
    BY <1>2, <2>2, ClockKept DEF TimeOK, RollingBack
  <2> QED
    BY <2>1, <2>2, <2>4, <2>5, <2>6 DEF TimeOK
<1>6. ASSUME Undo PROVE TimeOK'
  <2>1. /\ n \in Nat \ {0} /\ Len(log') = n - 1 /\ \A k \in 1 .. n - 1 : log'[k] = log[k]
        /\ call' = call /\ now' = now
    BY <1>1, <1>6, HistoryShrinks
  <2>2. \A k \in 1 .. n - 1 : k \in 1 .. n
    BY <2>1
  <2> QED
    BY <1>1, <2>1, <2>2 DEF TimeOK, RollingBack
<1> QED
  BY <1>2, <1>4, <1>5, <1>6, StepKinds

-----------------------------------------------------------------------------
(* The book as of a time, in a log lg with the books h before its entries, *)
(* where b is the book now.                                                *)

At(lg, h, b, t) ==
  LET newer == {k \in DOMAIN lg : lg[k].timestamp > t}
  IN  IF newer # {} THEN h[Min(newer)].book ELSE b

LEMMA MinIs ==
  ASSUME NEW T \in SUBSET Int, NEW x \in T, \A y \in T : x <= y
  PROVE  Min(T) = x
<1>1. \A y \in T : (\A z \in T : y <= z) => y = x
  OBVIOUS
<1> QED
  BY <1>1 DEF Min

LEMMA MaxIs ==
  ASSUME NEW T \in SUBSET Int, NEW x \in T, \A y \in T : x >= y
  PROVE  Max(T) = x
<1>1. \A y \in T : (\A z \in T : y >= z) => y = x
  OBVIOUS
<1> QED
  BY <1>1 DEF Max

LEMMA AtNow ==
  ASSUME NEW lg, NEW h, NEW b, NEW t, \A k \in DOMAIN lg : ~ (lg[k].timestamp > t)
  PROVE  At(lg, h, b, t) = b
BY DEF At

(* An entry is newer, and the books before the entries are the same.       *)
SamePast(n, lg, h, h2, t) ==
  /\ n \in Nat /\ DOMAIN lg = 1 .. n
  /\ \A k \in 1 .. n : h2[k] = h[k]
  /\ \E k \in 1 .. n : lg[k].timestamp > t

LEMMA AtOld ==
  ASSUME NEW n, NEW lg, NEW h, NEW h2, NEW t, NEW b, NEW b2, SamePast(n, lg, h, h2, t)
  PROVE  At(lg, h2, b2, t) = At(lg, h, b, t)
<1> USE DEF SamePast
<1> DEFINE T == {k \in 1 .. n : lg[k].timestamp > t}
<1>1. PICK x \in T : \A y \in T : x <= y
  <2>1. T \in SUBSET Nat /\ T # {}
    OBVIOUS
  <2> HIDE DEF T
  <2> QED
    BY <2>1, LeastNat
<1>2. Min(T) = x /\ x \in 1 .. n /\ T # {}
  <2>1. T \in SUBSET Int
    OBVIOUS
  <2>2. Min(T) = x
    <3> HIDE DEF T
    <3> QED
      BY <1>1, <2>1, MinIs
  <2> QED
    BY <2>2
<1>3. {k \in DOMAIN lg : lg[k].timestamp > t} = T
  OBVIOUS
<1> HIDE DEF T
<1> QED
  BY <1>2, <1>3 DEF At

(* The log lg2 has one entry more than lg, newer than t, and b is the book *)
(* it was written on.                                                      *)
Grown(n, lg, lg2, h, h2, t, b) ==
  /\ n \in Nat /\ DOMAIN lg = 1 .. n /\ DOMAIN lg2 = 1 .. n + 1
  /\ \A k \in 1 .. n : lg2[k] = lg[k]
  /\ \A k \in 1 .. n : h2[k] = h[k]
  /\ lg2[n + 1].timestamp > t
  /\ (\A k \in 1 .. n : ~ (lg[k].timestamp > t)) => h2[n + 1].book = b

LEMMA AtGrows ==
  ASSUME NEW n, NEW lg, NEW lg2, NEW h, NEW h2, NEW t, NEW b, NEW b2,
         Grown(n, lg, lg2, h, h2, t, b)
  PROVE  At(lg2, h2, b2, t) = At(lg, h, b, t)
<1> USE DEF Grown
<1> DEFINE T == {k \in 1 .. n : lg[k].timestamp > t}
           T2 == {k \in 1 .. n + 1 : lg2[k].timestamp > t}
<1>1. T \in SUBSET Nat /\ T2 \in SUBSET Nat /\ T \in SUBSET Int /\ T2 \in SUBSET Int
  OBVIOUS
<1>2. \A k : k \in T2 <=> k \in T \/ k = n + 1
  OBVIOUS
<1>3. {k \in DOMAIN lg : lg[k].timestamp > t} = T /\ {k \in DOMAIN lg2 : lg2[k].timestamp > t} = T2
  OBVIOUS
<1>4. \A k \in T : k \in 1 .. n
  OBVIOUS
<1>5. T = {} => h2[n + 1].book = b
  OBVIOUS
<1> HIDE DEF T, T2
<1>6. CASE T = {}
  <2>1. Min(T2) = n + 1 /\ T2 # {}
    <3>1. n + 1 \in T2 /\ \A y \in T2 : n + 1 <= y
      BY <1>2, <1>6
    <3> QED
      BY <1>1, <3>1, MinIs
  <2>2. At(lg2, h2, b2, t) = h2[n + 1].book /\ At(lg, h, b, t) = b
    BY <1>3, <1>6, <2>1 DEF At
  <2> QED
    BY <1>5, <1>6, <2>2
<1>7. CASE T # {}
  <2>1. PICK x \in T : \A y \in T : x <= y
    BY <1>1, <1>7, LeastNat
  <2>2. x \in 1 .. n /\ x \in T2 /\ \A y \in T2 : x <= y
    BY <1>2, <1>4, <2>1
  <2>3. Min(T) = x /\ Min(T2) = x /\ T2 # {}
    BY <1>1, <2>1, <2>2, MinIs
  <2>4. At(lg2, h2, b2, t) = h2[x].book /\ At(lg, h, b, t) = h[x].book
    BY <1>3, <1>7, <2>3 DEF At
  <2> QED
    BY <2>2, <2>4
<1> QED
  BY <1>6, <1>7

-----------------------------------------------------------------------------
(* The mapping, step by step                                               *)

(* The book now, as the service sees it: a refund in progress has not      *)
(* happened yet.                                                           *)
Settled ==
  IF Refunding THEN hist[Max({k \in DOMAIN log : log[k].content.op = "RefundTicket"})].book
  ELSE BookView.book

LEMMA AsOfIs ==
  /\ DOMAIN AsOf = 0 .. MaxTime
  /\ \A t \in 0 .. MaxTime :
       AsOf[t] = At(log, hist, Settled, IF RollingBack /\ t > call.timestamp THEN call.timestamp ELSE t)
BY DEF AsOf, BookAt, At, Settled

LEMMA AsOfNext ==
  /\ AsOf' = [t \in 0 .. MaxTime |-> AsOf'[t]]
  /\ \A t \in 0 .. MaxTime :
       AsOf'[t] = At(log', hist', Settled',
                     IF RollingBack' /\ t > call'.timestamp THEN call'.timestamp ELSE t)
BY DEF AsOf, BookAt, At, Settled

LEMMA SameAsOf ==
  ASSUME \A t \in 0 .. MaxTime : AsOf'[t] = AsOf[t]
  PROVE  AsOf' = AsOf
<1>1. AsOf = [t \in 0 .. MaxTime |-> AsOf[t]] /\ AsOf' = [t \in 0 .. MaxTime |-> AsOf'[t]]
  BY DEF AsOf
<1> QED
  BY <1>1

LEMMA EntriesType ==
  ASSUME TypeOK
  PROVE  /\ Len(log) \in Nat /\ DOMAIN log = 1 .. Len(log)
         /\ \A k \in 1 .. Len(log) : log[k].timestamp \in Nat /\ log[k].content \in Content
<1> DEFINE Entry == [timestamp : Nat, content : Content]
<1>1. log \in Seq(Entry)
  BY DEF TypeOK
<1>2. /\ Len(log) \in Nat /\ DOMAIN log = 1 .. Len(log)
      /\ \A k \in 1 .. Len(log) : log[k] \in Entry
  <2> HIDE DEF Entry
  <2> QED
    BY <1>1
<1> QED
  BY <1>2

(* At a time that has come, the book is the settled one.                   *)
LEMMA AsOfNow ==
  ASSUME IInv, TimeOK, ~ RollingBack, NEW t \in 0 .. MaxTime, t >= now
  PROVE  AsOf[t] = Settled
<1>1. /\ Len(log) \in Nat /\ DOMAIN log = 1 .. Len(log)
      /\ \A k \in 1 .. Len(log) : log[k].timestamp \in Nat
  BY EntriesType DEF IInv
<1>2. \A k \in DOMAIN log : ~ (log[k].timestamp > t)
  <2>1. now \in Int /\ t \in Int /\ \A k \in 1 .. Len(log) : log[k].timestamp <= now
    BY DEF TimeOK
  <2> QED
    BY <1>1, <2>1
<1>3. At(log, hist, Settled, t) = Settled
  BY <1>2, AtNow
<1> QED
  BY <1>3, AsOfIs

LEMMA PresentIs ==
  ASSUME IInv, TimeOK, ~ RollingBack
  PROVE  MaxTime \in 0 .. MaxTime /\ AsOf[MaxTime] = Settled
<1>1. MaxTime \in 0 .. MaxTime /\ MaxTime >= now
  BY DEF TimeOK
<1> QED
  BY <1>1, AsOfNow

(* Times before now are settled already.                                   *)
LEMMA PastAsOf ==
  ASSUME IInv, TimeOK, ~ RollingBack, NEW t \in 0 .. MaxTime
  PROVE  AsOf[t] = At(log, hist, Settled, t)
BY AsOfIs

(* An entry is written now, with the book b as it is from then on.         *)
LEMMA EntryRecords ==
  ASSUME IInv, IInv', TimeOK, TimeOK', HNext, NEW c, Log(c), now' = now,
         ~ RollingBack, ~ RollingBack',
         BookView.book = Settled \/ (log # <<>> /\ Newest.timestamp = now)
  PROVE  AsOf' = [t \in 0 .. MaxTime |-> IF t >= now THEN Settled' ELSE AsOf[t]]
<1>1. PICK n : n = Len(log)
  OBVIOUS
<1>2. /\ n \in Nat /\ Len(log') = n + 1
      /\ \A k \in 1 .. n : log'[k] = log[k]
      /\ log'[n + 1] = [timestamp |-> now, content |-> c]
  BY <1>1, HistoryGrows
<1>3. DOMAIN log = 1 .. n /\ DOMAIN log' = 1 .. n + 1 /\ log'[n + 1].timestamp = now
  <2>1. DOMAIN log' = 1 .. Len(log')
    BY DEF IInv, TypeOK
  <2>2. DOMAIN log = 1 .. n
    BY <1>1, EntriesType DEF IInv
  <2> QED
    BY <1>2, <2>1, <2>2
<1>4. (\A k \in 1 .. n : hist'[k] = hist[k]) /\ hist'[n + 1] = BookView
  BY <1>1, <1>2 DEF HNext
<1>5. ASSUME NEW t \in 0 .. MaxTime
      PROVE  AsOf'[t] = IF t >= now THEN Settled' ELSE AsOf[t]
  <2>1. AsOf'[t] = At(log', hist', Settled', t) /\ AsOf[t] = At(log, hist, Settled, t)
    BY AsOfNext, PastAsOf
  <2>2. CASE t >= now
    <3>1. \A k \in 1 .. n + 1 : log'[k].timestamp <= now
      BY <1>2 DEF TimeOK
    <3>2. \A k \in 1 .. n + 1 : log'[k].timestamp \in Int
      <4>1. \A k \in 1 .. n : log[k].timestamp \in Int
        BY <1>1, EntriesType DEF IInv
      <4>2. now \in Int
        BY DEF TimeOK
      <4>3. \A k \in 1 .. n + 1 : k \in 1 .. n \/ k = n + 1
        BY <1>2
      <4> QED
        BY <1>2, <1>3, <4>1, <4>2, <4>3
    <3>3. \A k \in DOMAIN log' : ~ (log'[k].timestamp > t)
      <4>1. now \in Int
        BY DEF TimeOK
      <4> QED
        BY <1>3, <2>2, <3>1, <3>2, <4>1
    <3>4. At(log', hist', Settled', t) = Settled'
      BY <3>3, AtNow
    <3> QED
      BY <2>1, <2>2, <3>4
  <2>3. CASE ~ (t >= now)
    <3>1. log'[n + 1].timestamp > t
      BY <1>3, <2>3 DEF TimeOK
    <3>2. hist'[n + 1].book = Settled \/ \E k \in 1 .. n : log[k].timestamp > t
      <4>1. CASE BookView.book = Settled
        BY <1>4, <4>1
      <4>2. CASE log # <<>> /\ Newest.timestamp = now
        <5>1. n \in 1 .. n /\ log[n] = Newest
          BY <1>1, <4>2, NewestType DEF IInv
        <5>2. log[n].timestamp > t
          BY <2>3, <4>2, <5>1 DEF TimeOK
        <5> QED
          BY <5>1, <5>2
      <4> QED
        BY <4>1, <4>2
    <3>3. At(log', hist', Settled', t) = At(log, hist, Settled, t)
      <4>1. PICK lg, lg2, h, h2, b, b2 :
              lg = log /\ lg2 = log' /\ h = hist /\ h2 = hist' /\ b = Settled /\ b2 = Settled'
        OBVIOUS
      <4>2. Grown(n, lg, lg2, h, h2, t, b)
        BY <1>2, <1>3, <1>4, <3>1, <3>2, <4>1 DEF Grown
      <4>3. At(lg2, h2, b2, t) = At(lg, h, b, t)
        BY <4>2, AtGrows
      <4> QED
        BY <4>1, <4>3
    <3> QED
      BY <2>1, <2>3, <3>3
  <2> QED
    BY <2>2, <2>3
<1> QED
  BY <1>5, AsOfNext

-----------------------------------------------------------------------------
(* What the service computes from the orders is what the book keeps        *)

LEMMA FreeIsKept ==
  ASSUME NEW v, InOrder(v), Conserved(v), IsFiniteSet(DOMAIN v.book),
         NEW r \in Rides, NEW e \in Edges(r)
  PROVE  Service!Free(v.book, r, e) = v.seats[r][e]
<1>1. e \in Int
  BY DEF Edges
<1> DEFINE S == {id \in DOMAIN v.book : /\ v.book[id].status = "success"
                                        /\ Service!Uses(v.book[id], r, e)}
<1>2. S = Holders(v.book, r, e)
  <2>1. \A id \in DOMAIN v.book :
          Service!Uses(v.book[id], r, e) <=> v.book[id].ride = r /\ e \in Trip(v.book[id].from, v.book[id].to)
    BY <1>1, InOrderType DEF Service!Uses, Trip
  <2> QED
    BY <2>1 DEF Holders
<1>3. Service!Free(v.book, r, e) = Capacity[r] - SeatsOf(v.book, S)
  BY DEF Service!Free, SeatsOf, MapThenSumSet, MapThenFoldSet,
         Service!MapThenSumSet, Service!MapThenFoldSet
<1>4. Service!Free(v.book, r, e) = Capacity[r] - Held(v.book, r, e)
  BY <1>2, <1>3 DEF Held
<1>5. v.seats[r][e] + Held(v.book, r, e) = Capacity[r]
  BY DEF Conserved
<1>6. v.seats[r][e] \in Int /\ Held(v.book, r, e) \in Int
  <2>1. \A id \in DOMAIN v.book : v.book[id].seats \in Int
    BY InOrderType
  <2>2. v.seats[r] \in [Edges(r) -> Nat]
    BY DEF InOrder
  <2> QED
    BY <2>1, <2>2, HeldType
<1> QED
  BY <1>4, <1>5, <1>6

LEMMA CanServeIff ==
  ASSUME NEW v, InOrder(v), Conserved(v), IsFiniteSet(DOMAIN v.book), NEW p \in Order, HasTrip(p)
  PROVE  Service!CanServe(v.book, p) <=> Fits(p, v.seats[p.ride])
<1>1. p.ride \in Rides /\ p.from \in Nat /\ p.to \in Nat /\ p.to <= Segments[p.ride]
  BY DEF Order, HasTrip
<1>2. \A e \in p.from .. (p.to - 1) : e \in Edges(p.ride)
  <2>1. Segments[p.ride] \in Nat
    BY <1>1
  <2> QED
    BY <1>1, <2>1 DEF Edges
<1>3. \A e \in p.from .. (p.to - 1) : Service!Free(v.book, p.ride, e) = v.seats[p.ride][e]
  BY <1>1, <1>2, FreeIsKept
<1>4. v.seats[p.ride] \in [Edges(p.ride) -> Int]
  <2>1. v.seats[p.ride] \in [Edges(p.ride) -> Nat]
    BY <1>1 DEF InOrder
  <2> QED
    BY <2>1
<1>5. Service!CanServe(v.book, p) <=> \A e \in p.from .. (p.to - 1) : v.seats[p.ride][e] >= p.seats
  BY <1>3 DEF Service!CanServe
<1>6. Fits(p, v.seats[p.ride]) <=> \A e \in Trip(p.from, p.to) : v.seats[p.ride][e] >= p.seats
  BY <1>4, FitsIff
<1> QED
  BY <1>5, <1>6 DEF Trip

(* In the present state, for an order of any ride.                         *)
LEMMA ServeNow ==
  ASSUME IInv, HistoryConserved, NEW p \in Order, HasTrip(p)
  PROVE  Service!CanServe(BookView.book, p) <=> Fits(p, SeatsNow(p.ride))
<1>1. PICK v : v = BookView
  OBVIOUS
<1>2. Conserved(v) /\ InOrder(v) /\ IsFiniteSet(DOMAIN v.book)
  BY <1>1, Present, PresentIsPast DEF IInv, HistoryConserved
<1>3. Service!CanServe(v.book, p) <=> Fits(p, v.seats[p.ride])
  BY <1>2, CanServeIff
<1>4. v.seats[p.ride] = SeatsNow(p.ride)
  BY <1>1 DEF BookView, Order
<1> QED
  BY <1>1, <1>3, <1>4

LEMMA SettledIdle ==
  ASSUME ~ Refunding
  PROVE  Settled = BookView.book
BY DEF Settled

LEMMA BuyRefines ==
  ASSUME IInv, IInv', TimeOK, TimeOK', HistoryConserved, HNext,
         NEW o \in Requests, BuyTicketSuccess(o) \/ BuyTicketEnqueued(o)
  PROVE  \E id \in 1 .. MaxOrders : Service!Buy(o, id)
<1>1. PICK id : id = NextId
  OBVIOUS
<1>2. PICK status \in {"success", "pending"} :
        CreateOrder(o, status) /\ (status = "success" <=> Fits(o, rideSeats[o.ride]))
  BY DEF BuyTicketSuccess, BuyTicketEnqueued
<1>3. /\ Acceptable(o) /\ Idle /\ call' = call /\ now' = now
      /\ Len(orders) < MaxOrders /\ ixUserId' = ixUserId \cup {id}
      /\ \E c : Log(c)
  BY <1>1, <1>2 DEF BuyTicketSuccess, BuyTicketEnqueued, CreateOrder
<1>4. /\ Len(orders) \in Nat /\ id = Len(orders) + 1 /\ DOMAIN orders = 1 .. Len(orders)
      /\ \A i \in DOMAIN orders : orders'[i] = orders[i]
      /\ orders'[id] = [o EXCEPT !.status = status]
      /\ ixUserId \subseteq DOMAIN orders
  BY <1>1, <1>2, <1>3, CreateType DEF IInv, TypeOK
<1>5. ~ RollingBack /\ ~ RollingBack' /\ ~ Refunding /\ ~ Refunding'
  BY <1>3 DEF Idle, NoCall, RollingBack, Refunding
<1>6. Settled = BookView.book /\ Settled' = BookView'.book
  BY <1>5 DEF Settled
<1>7. AsOf' = [t \in 0 .. MaxTime |-> IF t >= now THEN BookView'.book ELSE AsOf[t]]
  BY <1>3, <1>5, <1>6, EntryRecords
<1>8. AsOf[MaxTime] = BookView.book
  BY <1>5, <1>6, PresentIs
<1>9. BookView.book = [i \in ixUserId |-> orders[i]] /\ BookView'.book = [i \in ixUserId' |-> orders'[i]]
  BY DEF BookView
<1>10. Service!CanServe(BookView.book, o) <=> status = "success"
  <2>1. o \in Order
    BY DEF Requests, Order, Status
  <2>2. HasTrip(o)
    BY <1>3 DEF Acceptable, HasTrip
  <2>3. SeatsNow(o.ride) = rideSeats[o.ride]
    BY <1>5 DEF SeatsNow
  <2> QED
    BY <1>2, <2>1, <2>2, <2>3, ServeNow
<1>11. BookView'.book = [i \in DOMAIN AsOf[MaxTime] \cup {id} |->
                           IF i = id THEN [o EXCEPT !.status = IF Service!CanServe(AsOf[MaxTime], o)
                                                               THEN "success" ELSE "pending"]
                           ELSE AsOf[MaxTime][i]]
  <2>1. (IF Service!CanServe(AsOf[MaxTime], o) THEN "success" ELSE "pending") = status
    BY <1>2, <1>8, <1>10
  <2>2. DOMAIN AsOf[MaxTime] = ixUserId /\ \A i \in ixUserId : AsOf[MaxTime][i] = orders[i]
    BY <1>8, <1>9
  <2>3. \A i \in ixUserId : i # id /\ orders'[i] = orders[i]
    BY <1>4
  <2>4. BookView'.book = [i \in ixUserId \cup {id} |->
                            IF i = id THEN [o EXCEPT !.status = status] ELSE AsOf[MaxTime][i]]
    <3>1. BookView'.book = [i \in ixUserId \cup {id} |-> orders'[i]]
      BY <1>3, <1>9
    <3> QED
      BY <1>4, <2>2, <2>3, <3>1
  <2> QED
    BY <2>1, <2>2, <2>4
<1>12. \A other \in DOMAIN AsOf[MaxTime] : other < id
  BY <1>4, <1>8, <1>9
<1>13. id \in 1 .. MaxOrders
  BY <1>3, <1>4
<1>14. o.from < o.to /\ o.seats <= Capacity[o.ride]
  BY <1>3 DEF Acceptable
<1>15. Service!Buy(o, id)
  BY <1>3, <1>7, <1>11, <1>12, <1>14 DEF Service!Buy, Service!Record, Service!Present, Service!Times
<1> QED
  BY <1>13, <1>15

LEMMA RefundPendingRefines ==
  ASSUME IInv, IInv', TimeOK, TimeOK', HNext,
         NEW u \in Users, NEW n \in 1 .. MaxOrders, NEW id \in ixUserId, RefundPending(u, n, id)
  PROVE  \E i \in DOMAIN Service!Present : Service!Cancel(i)
<1>1. /\ Idle /\ call' = call /\ now' = now /\ ixUserId' = ixUserId
      /\ orders[id].status = "pending"
      /\ orders' = [orders EXCEPT ![id].status = "refunded"]
      /\ \E c : Log(c)
  BY DEF RefundPending, MarkRefunded
<1>2. ~ RollingBack /\ ~ RollingBack' /\ ~ Refunding /\ ~ Refunding'
  BY <1>1 DEF Idle, NoCall, RollingBack, Refunding
<1>3. Settled = BookView.book /\ Settled' = BookView'.book
  BY <1>2 DEF Settled
<1>4. AsOf' = [t \in 0 .. MaxTime |-> IF t >= now THEN BookView'.book ELSE AsOf[t]]
  BY <1>1, <1>2, <1>3, EntryRecords
<1>5. AsOf[MaxTime] = BookView.book
  BY <1>2, <1>3, PresentIs
<1>6. BookView.book = [i \in ixUserId |-> orders[i]] /\ BookView'.book = [i \in ixUserId' |-> orders'[i]]
  BY DEF BookView
<1>7. BookView'.book = [BookView.book EXCEPT ![id].status = "refunded"]
  <2>1. ixUserId \subseteq DOMAIN orders
    BY DEF IInv, TypeOK
  <2> QED
    BY <1>1, <1>6, <2>1
<1>8. id \in DOMAIN BookView.book /\ BookView.book[id].status = "pending"
  BY <1>1, <1>6
<1>9. Service!Cancel(id)
  BY <1>1, <1>4, <1>5, <1>7, <1>8
     DEF Service!Cancel, Service!Record, Service!Present, Service!Times
<1> QED
  BY <1>5, <1>8, <1>9 DEF Service!Present

-----------------------------------------------------------------------------
(* The steps of a refund                                                   *)

LEMMA BeganIs ==
  ASSUME NEW lg, NEW n \in Nat, DOMAIN lg = 1 .. n, NEW m, Began(lg, m)
  PROVE  Max({k \in DOMAIN lg : lg[k].content.op = "RefundTicket"}) = m
<1> DEFINE T == {k \in DOMAIN lg : lg[k].content.op = "RefundTicket"}
<1>1. T \in SUBSET Int /\ m \in T
  BY DEF Began
<1>2. \A y \in T : m >= y
  BY <1>1 DEF Began
<1> HIDE DEF T
<1>3. Max(T) = m
  BY <1>1, <1>2, MaxIs
<1> QED
  BY <1>3 DEF T

LEMMA SettledIs ==
  ASSUME TypeOK, Refunding, NEW m, Began(log, m)
  PROVE  Settled = hist[m].book
<1>1. Len(log) \in Nat /\ DOMAIN log = 1 .. Len(log)
  BY EntriesType
<1> QED
  BY <1>1, BeganIs DEF Settled

LEMMA SettledNext ==
  ASSUME TypeOK', Refunding', NEW m, Began(log', m)
  PROVE  Settled' = hist'[m].book
<1>1. Len(log') \in Nat /\ DOMAIN log' = 1 .. Len(log')
  BY DEF TypeOK
<1>2. Max({k \in DOMAIN log' : log'[k].content.op = "RefundTicket"}) = m
  BY <1>1, BeganIs
<1> QED
  BY <1>2 DEF Settled

(* The next order x is looked at, and served if it can be: added is {x} or *)
(* empty.                                                                  *)
LookedAt(todo, book, x, added, book2) ==
  /\ \A i \in DOMAIN book : i \in Nat
  /\ x \in todo /\ \A i \in todo : x <= i
  /\ added \subseteq {x}
  /\ x \in added <=> Service!CanServe(book, book[x])
  /\ book2 = [i \in DOMAIN book |->
                IF i \in added THEN [book[i] EXCEPT !.status = "success"] ELSE book[i]]

LEMMA NextInProgress ==
  ASSUME NEW before, NEW id, NEW ride, NEW todo, NEW book, NEW x, NEW added, NEW book2,
         Progress(before, id, ride, todo, book), LookedAt(todo, book, x, added, book2)
  PROVE  Progress(before, id, ride, todo \ {x}, book2)
<1> USE DEF LookedAt
<1> DEFINE w == Without(before, id)
           queue == Queue(before, id)
           past == queue \ todo
           past2 == queue \ (todo \ {x})
<1>1. /\ id \in DOMAIN before /\ before[id].status = "success" /\ ride = before[id].ride
      /\ todo \subseteq queue /\ \A i \in past, j \in todo : i < j
  BY DEF Progress
<1>2. PICK S \in SUBSET past : book = Service!WithServed(w, S) /\ ServedInOrder(w, past, S)
  BY DEF Progress
<1>3. DOMAIN w = DOMAIN before /\ DOMAIN book = DOMAIN before
  <2>1. DOMAIN w = DOMAIN before
    BY DEF Without
  <2> HIDE DEF w
  <2> QED
    BY <1>2, <2>1 DEF Service!WithServed
<1>4. queue \subseteq DOMAIN before /\ \A i \in queue : i \in Nat
  BY <1>3 DEF Queue
<1> HIDE DEF w, queue
<1>5. x \in queue /\ x \notin past /\ x \notin S /\ x \in Nat /\ past2 = past \cup {x}
  BY <1>1, <1>4
<1>6. \A i \in past : i < x /\ i \in Nat
  BY <1>1, <1>4
<1>7. \A i \in DOMAIN book : book[i] = IF i \in S THEN [w[i] EXCEPT !.status = "success"] ELSE w[i]
  BY <1>2, <1>3 DEF Service!WithServed
<1>8. book[x] = w[x]
  BY <1>3, <1>4, <1>5, <1>7
<1> DEFINE S2 == S \cup added
<1>9. S2 \in SUBSET past2
  BY <1>5
<1>10. book2 = Service!WithServed(w, S2)
  <2>1. \A i \in DOMAIN book :
          (IF i \in added THEN [book[i] EXCEPT !.status = "success"] ELSE book[i])
            = IF i \in S2 THEN [w[i] EXCEPT !.status = "success"] ELSE w[i]
    BY <1>5, <1>7, <1>8
  <2> HIDE DEF S2
  <2> QED
    BY <1>3, <2>1 DEF Service!WithServed
<1>11. ASSUME NEW i \in past
       PROVE  i \in S2 <=> Service!CanServe(Service!WithServed(w, {j \in S2 : j < i}), w[i])
  <2>1. {j \in S2 : j < i} = {j \in S : j < i}
    BY <1>5, <1>6
  <2>2. i \in S2 <=> i \in S
    BY <1>5
  <2>3. i \in S <=> Service!CanServe(Service!WithServed(w, {j \in S : j < i}), w[i])
    BY <1>2 DEF ServedInOrder
  <2> HIDE DEF S2
  <2> QED
    BY <2>1, <2>2, <2>3
<1>12. x \in S2 <=> Service!CanServe(Service!WithServed(w, {j \in S2 : j < x}), w[x])
  <2>1. {j \in S2 : j < x} = S
    BY <1>5, <1>6
  <2>2. x \in S2 <=> x \in added
    BY <1>5
  <2> HIDE DEF S2
  <2> QED
    BY <1>2, <1>8, <2>1, <2>2
<1>13. ServedInOrder(w, past2, S2)
  <2> HIDE DEF S2
  <2> QED
    BY <1>5, <1>11, <1>12 DEF ServedInOrder
<1>14. \A i \in past2, j \in todo \ {x} : i < j
  <2>1. \A j \in todo \ {x} : j \in Nat /\ x < j
    BY <1>1, <1>4, <1>5
  <2> QED
    BY <1>1, <1>5, <2>1
<1>15. todo \ {x} \subseteq queue
  BY <1>1
<1> HIDE DEF S2
<1> QED
  BY <1>1, <1>9, <1>10, <1>13, <1>14, <1>15 DEF Progress, w, queue

LEMMA HistoryKept ==
  ASSUME IInv, HNext, log' = log
  PROVE  \A t, b : At(log', hist', b, t) = At(log, hist, b, t)
<1>1. Len(log) \in Nat /\ DOMAIN log = 1 .. Len(log)
  BY EntriesType DEF IInv
<1>2. \A k \in 1 .. Len(log) : hist'[k] = hist[k]
  BY <1>1 DEF HNext
<1>3. ASSUME NEW t, NEW b
      PROVE  At(log, hist', b, t) = At(log, hist, b, t)
  <2>1. CASE \E k \in 1 .. Len(log) : log[k].timestamp > t
    <3>1. PICK n, lg, h, h2 : n = Len(log) /\ lg = log /\ h = hist /\ h2 = hist'
      OBVIOUS
    <3>2. SamePast(n, lg, h, h2, t)
      BY <1>1, <1>2, <2>1, <3>1 DEF SamePast
    <3>3. At(lg, h2, b, t) = At(lg, h, b, t)
      BY <3>2, AtOld
    <3> QED
      BY <3>1, <3>3
  <2>2. CASE \A k \in DOMAIN log : ~ (log[k].timestamp > t)
    BY <2>2, AtNow
  <2> QED
    BY <1>1, <2>1, <2>2
<1> QED
  BY <1>3

(* A step that neither writes the log nor settles anything.                *)
LEMMA NothingSettled ==
  ASSUME IInv, HNext, log' = log, Settled' = Settled, ~ RollingBack, ~ RollingBack'
  PROVE  AsOf' = AsOf
<1>1. ASSUME NEW t \in 0 .. MaxTime PROVE AsOf'[t] = AsOf[t]
  <2>1. AsOf'[t] = At(log', hist', Settled', t) /\ AsOf[t] = At(log, hist, Settled, t)
    BY AsOfNext, AsOfIs
  <2> QED
    BY <2>1, HistoryKept
<1> QED
  BY <1>1, SameAsOf

LEMMA RefundStarts ==
  ASSUME IInv, IInv', TimeOK, TimeOK', HNext,
         NEW u \in Users, NEW n \in 1 .. MaxOrders, NEW id \in ixUserId, RefundSuccess(u, n, id)
  PROVE  AsOf' = AsOf /\ RefundProgress' /\ now' = now
<1> DEFINE q == orders[id].ride
<1>1. PICK c : c = [op |-> "RefundTicket", id |-> id, status |-> orders[id].status]
  OBVIOUS
<1>2. /\ orders' = [orders EXCEPT ![id].status = "refunded"]
      /\ orders[id].status = "success" /\ pendingOrders' = pendingOrders
      /\ call' = [cmd |-> "refund", ride |-> q, seats |-> GiveBack(rideSeats[q], orders[id]),
                  todo |-> {i \in pendingOrders : orders[i].ride = q}]
      /\ Idle /\ Log(c) /\ now' = now /\ ixUserId' = ixUserId
  BY <1>1 DEF RefundSuccess, MarkRefunded
<1>3. /\ call'.cmd = "refund" /\ call'.ride = q
      /\ call'.todo = {i \in pendingOrders : orders[i].ride = q}
      /\ Refunding' /\ ~ RollingBack' /\ ~ RollingBack /\ ~ Refunding
  BY <1>2 DEF Refunding, RollingBack, Idle, NoCall
<1>4. PICK m : m = Len(log) + 1
  OBVIOUS
<1>5. /\ Len(log) \in Nat /\ Len(log') = m
      /\ log'[m] = [timestamp |-> now, content |-> c]
  BY <1>2, <1>4, HistoryGrows
<1>6. hist'[m] = BookView /\ DOMAIN log' = 1 .. m /\ m \in 1 .. m
  <2>1. DOMAIN log' = 1 .. Len(log')
    BY DEF IInv, TypeOK
  <2> QED
    BY <1>4, <1>5, <2>1 DEF HNext
<1>7. Began(log', m) /\ log'[m].content = c
  BY <1>1, <1>5, <1>6 DEF Began
<1>8. Settled' = BookView.book /\ Settled = BookView.book
  <2>1. Settled' = hist'[m].book
    BY <1>3, <1>7, SettledNext DEF IInv
  <2> QED
    BY <1>3, <1>6, <2>1, SettledIdle
<1>9. AsOf' = AsOf
  <2>1. AsOf' = [t \in 0 .. MaxTime |-> IF t >= now THEN BookView.book ELSE AsOf[t]]
    BY <1>2, <1>3, <1>8, EntryRecords
  <2>2. \A t \in 0 .. MaxTime : t >= now => AsOf[t] = BookView.book
    BY <1>3, <1>8, AsOfNow
  <2> QED
    BY <2>1, <2>2, SameAsOf
<1>10. PICK before, book, todo : before = BookView.book /\ book = BookView'.book /\ todo = call'.todo
  OBVIOUS
<1>11. /\ before = [i \in ixUserId |-> orders[i]]
       /\ book = [i \in ixUserId |-> orders'[i]]
       /\ pendingOrders = {i \in ixUserId : orders[i].status = "pending"}
       /\ ixUserId \subseteq DOMAIN orders
  <2>1. BookView.book = [i \in ixUserId |-> orders[i]] /\ BookView'.book = [i \in ixUserId' |-> orders'[i]]
    BY DEF BookView
  <2> QED
    BY <1>2, <1>10, <2>1, Present DEF IInv, TypeOK
<1>12. book = Without(before, id)
  BY <1>2, <1>11 DEF Without
<1>13. Queue(before, id) = todo
  <2>1. \A i \in ixUserId : i # id => Without(before, id)[i] = orders[i]
    BY <1>11 DEF Without
  <2>2. Without(before, id)[id].status = "refunded"
    <3>1. orders[id] \in Order
      BY <1>11, OrderType DEF IInv
    <3>2. Without(before, id)[id] = [orders[id] EXCEPT !.status = "refunded"]
      BY <1>11 DEF Without
    <3> QED
      BY <3>1, <3>2 DEF Order
  <2>3. before[id].ride = q /\ DOMAIN before = ixUserId
    BY <1>11
  <2>4. \A i : i \in Queue(before, id) <=> i \in todo
    BY <1>2, <1>3, <1>10, <1>11, <2>1, <2>2, <2>3 DEF Queue
  <2>5. Queue(before, id) \subseteq ixUserId
    BY <2>3 DEF Queue
  <2> QED
    BY <2>4
<1>14. Progress(before, id, q, todo, book)
  <2>1. PICK S : S = {}
    OBVIOUS
  <2>2. book = Service!WithServed(Without(before, id), S)
    BY <1>11, <1>12, <2>1 DEF Service!WithServed, Without
  <2>3. ServedInOrder(Without(before, id), Queue(before, id) \ todo, S)
    BY <1>13 DEF ServedInOrder
  <2>4. id \in DOMAIN before /\ before[id].status = "success" /\ q = before[id].ride
    BY <1>2, <1>11
  <2> QED
    BY <1>13, <2>1, <2>2, <2>3, <2>4 DEF Progress
<1>15. RefundProgress'
  <2>1. hist'[m].book = before /\ log'[m].content.id = id
    BY <1>1, <1>6, <1>7, <1>10
  <2> QED
    BY <1>3, <1>5, <1>6, <1>7, <1>10, <1>14, <2>1 DEF RefundProgress
<1> QED
  BY <1>2, <1>9, <1>15

(* What a refund in progress knows.                                        *)
LEMMA InRefund ==
  ASSUME IInv, HistoryConserved, RefundProgress, Refunding, NEW id \in call.todo
  PROVE  /\ call \in [cmd : {"refund"}, ride : Rides, seats : [Edges(call.ride) -> Int],
                      todo : SUBSET pendingOrders]
         /\ id \in ixUserId /\ BookView.book = [i \in ixUserId |-> orders[i]]
         /\ ixUserId \subseteq DOMAIN orders
         /\ \A i \in ixUserId : i \in Nat
         /\ orders[id].ride = call.ride
         /\ Service!CanServe(BookView.book, BookView.book[id]) <=> Fits(orders[id], call.seats)
<1>1. TypeOK
  BY DEF IInv
<1>2. call \in [cmd : {"refund"}, ride : Rides, seats : [Edges(call.ride) -> Int],
                todo : SUBSET pendingOrders]
  BY <1>1 DEF TypeOK, CallOK, Refunding, Idle, NoCall
<1>3. pendingOrders = {i \in ixUserId : orders[i].status = "pending"}
  BY Present DEF IInv
<1>4. id \in ixUserId /\ ixUserId \subseteq DOMAIN orders /\ \A i \in ixUserId : i \in Nat
  BY <1>1, <1>2, <1>3, OrderType DEF TypeOK
<1>5. orders[id] \in Order /\ HasTrip(orders[id])
  BY <1>1, <1>4, OrderType
<1>6. orders[id].ride = call.ride
  BY DEF IInv, PresentQuiescent
<1>7. SeatsNow(orders[id].ride) = call.seats
  BY <1>6 DEF SeatsNow
<1>8. BookView.book = [i \in ixUserId |-> orders[i]]
  BY DEF BookView
<1>9. Service!CanServe(BookView.book, orders[id]) <=> Fits(orders[id], call.seats)
  BY <1>5, <1>7, ServeNow
<1> QED
  BY <1>2, <1>4, <1>6, <1>8, <1>9

LEMMA RefundSkips ==
  ASSUME IInv, IInv', HistoryConserved, RefundProgress, HNext,
         NEW id \in pendingOrders, SkipOrder(id)
  PROVE  AsOf' = AsOf /\ RefundProgress' /\ now' = now
<1>1. /\ Refunding /\ id \in call.todo /\ (\A i \in call.todo : id <= i)
      /\ ~ Fits(orders[id], call.seats)
      /\ call' = [call EXCEPT !.todo = call.todo \ {id}]
      /\ UNCHANGED <<now, log, orders, ixUserId, pendingOrders, rideSeats>>
  BY DEF SkipOrder, IsNextInQueue, bookVars
<1>2. /\ call \in [cmd : {"refund"}, ride : Rides, seats : [Edges(call.ride) -> Int],
                   todo : SUBSET pendingOrders]
      /\ BookView.book = [i \in ixUserId |-> orders[i]]
      /\ \A i \in ixUserId : i \in Nat
      /\ ~ Service!CanServe(BookView.book, BookView.book[id])
  BY <1>1, InRefund
<1>3. call'.cmd = "refund" /\ call'.ride = call.ride /\ call'.todo = call.todo \ {id}
  BY <1>1, <1>2
<1>4. PICK m \in 1 .. Len(log) :
        /\ Began(log, m)
        /\ Progress(hist[m].book, log[m].content.id, call.ride, call.todo, BookView.book)
  BY <1>1 DEF RefundProgress
<1>5. hist'[m] = hist[m]
  <2>1. Len(log) \in Nat
    BY DEF IInv, TypeOK
  <2> QED
    BY <1>1, <2>1 DEF HNext
<1>6. Refunding' /\ ~ RollingBack /\ ~ RollingBack'
  BY <1>1, <1>3 DEF Refunding, RollingBack
<1>7. AsOf' = AsOf
  <2>1. Settled = hist[m].book
    BY <1>1, <1>4, SettledIs DEF IInv
  <2>2. Settled' = hist'[m].book
    <3>1. Began(log', m)
      BY <1>1, <1>4
    <3> QED
      BY <1>6, <3>1, SettledNext DEF IInv
  <2> QED
    BY <1>1, <1>5, <1>6, <2>1, <2>2, NothingSettled
<1>8. PICK before, book, todo, rid :
        before = hist[m].book /\ book = BookView.book /\ todo = call.todo /\ rid = log[m].content.id
  OBVIOUS
<1>9. Progress(before, rid, call.ride, todo \ {id}, book)
  <2>1. Progress(before, rid, call.ride, todo, book)
    BY <1>4, <1>8
  <2>2. id \in todo /\ \A i \in todo : id <= i
    BY <1>1, <1>8
  <2>3. book = [i \in ixUserId |-> orders[i]] /\ \A i \in DOMAIN book : i \in Nat
    BY <1>2, <1>8
  <2>4. ~ Service!CanServe(book, book[id])
    BY <1>2, <1>8
  <2>5. PICK added : added = {}
    OBVIOUS
  <2>6. LookedAt(todo, book, id, added, book)
    BY <2>2, <2>3, <2>4, <2>5 DEF LookedAt
  <2>7. PICK ride : ride = call.ride
    OBVIOUS
  <2>8. Progress(before, rid, ride, todo \ {id}, book)
    BY <2>1, <2>6, <2>7, NextInProgress
  <2> QED
    BY <2>7, <2>8
<1>10. BookView'.book = book
  BY <1>1, <1>8 DEF BookView
<1>11. RefundProgress'
  <2>1. Began(log', m) /\ m \in 1 .. Len(log')
    BY <1>1, <1>4
  <2>2. hist'[m].book = before /\ log'[m].content.id = rid
    BY <1>1, <1>5, <1>8
  <2>3. call'.ride = call.ride /\ call'.todo = todo \ {id}
    BY <1>3, <1>8
  <2>4. Progress(hist'[m].book, log'[m].content.id, call'.ride, call'.todo, BookView'.book)
    BY <1>9, <1>10, <2>2, <2>3
  <2> QED
    BY <2>1, <2>4 DEF RefundProgress
<1> QED
  BY <1>1, <1>7, <1>11

LEMMA RefundServes ==
  ASSUME IInv, IInv', TimeOK, TimeOK', HistoryConserved, RefundProgress, HNext,
         NEW id \in pendingOrders, FulfillOrder(id)
  PROVE  AsOf' = AsOf /\ RefundProgress' /\ now' = now
<1>1. /\ Refunding /\ id \in call.todo /\ (\A i \in call.todo : id <= i)
      /\ Fits(orders[id], call.seats)
      /\ call' = [call EXCEPT !.todo = call.todo \ {id}, !.seats = Take(call.seats, orders[id])]
      /\ orders' = [orders EXCEPT ![id].status = "success"]
      /\ now' = now /\ ixUserId' = ixUserId
  BY DEF FulfillOrder, IsNextInQueue
<1>2. PICK c : c = [op |-> "FulfillOrder", id |-> id]
  OBVIOUS
<1>3. Log(c)
  BY <1>2 DEF FulfillOrder
<1>4. /\ call \in [cmd : {"refund"}, ride : Rides, seats : [Edges(call.ride) -> Int],
                   todo : SUBSET pendingOrders]
      /\ id \in ixUserId /\ BookView.book = [i \in ixUserId |-> orders[i]]
      /\ ixUserId \subseteq DOMAIN orders
      /\ \A i \in ixUserId : i \in Nat
      /\ Service!CanServe(BookView.book, BookView.book[id])
  BY <1>1, InRefund
<1>5. call'.cmd = "refund" /\ call'.ride = call.ride /\ call'.todo = call.todo \ {id}
  BY <1>1, <1>4
<1>6. Refunding' /\ ~ RollingBack /\ ~ RollingBack'
  BY <1>1, <1>5 DEF Refunding, RollingBack
<1>7. PICK n : n = Len(log)
  OBVIOUS
<1>8. PICK m \in 1 .. n :
        /\ Began(log, m)
        /\ Progress(hist[m].book, log[m].content.id, call.ride, call.todo, BookView.book)
  BY <1>1, <1>7 DEF RefundProgress
<1>9. /\ n \in Nat /\ Len(log') = n + 1
      /\ \A k \in 1 .. n : log'[k] = log[k]
      /\ log'[n + 1] = [timestamp |-> now, content |-> c]
  BY <1>3, <1>7, HistoryGrows
<1>10. hist'[m] = hist[m] /\ DOMAIN log = 1 .. n /\ DOMAIN log' = 1 .. n + 1
  <2>1. DOMAIN log' = 1 .. Len(log')
    BY DEF IInv, TypeOK
  <2>2. DOMAIN log = 1 .. n
    BY <1>7, EntriesType DEF IInv
  <2> QED
    BY <1>7, <1>9, <2>1, <2>2 DEF HNext
<1>11. Began(log', m) /\ log'[m] = log[m]
  <2>1. log'[n + 1].content.op = "FulfillOrder"
    BY <1>2, <1>9
  <2>2. m \in 1 .. n /\ \A k \in 1 .. n + 1 : k \in 1 .. n \/ k = n + 1
    BY <1>9
  <2>3. /\ log[m].content.op = "RefundTicket"
        /\ \A k \in 1 .. n : k > m => log[k].content.op = "FulfillOrder"
    BY <1>8, <1>10 DEF Began
  <2>4. m \in 1 .. n + 1 /\ log'[m] = log[m]
    BY <1>9, <2>2
  <2>5. \A k \in 1 .. n + 1 : k > m => log'[k].content.op = "FulfillOrder"
    BY <1>9, <2>1, <2>2, <2>3
  <2> QED
    BY <1>10, <2>3, <2>4, <2>5 DEF Began
<1>12. Settled' = Settled
  <2>1. Settled = hist[m].book
    BY <1>1, <1>8, SettledIs DEF IInv
  <2>2. Settled' = hist'[m].book
    BY <1>6, <1>11, SettledNext DEF IInv
  <2> QED
    BY <1>10, <2>1, <2>2
<1>13. AsOf' = AsOf
  <2>1. log # <<>> /\ Newest.timestamp = now
    BY <1>1 DEF IInv, PresentQuiescent
  <2>2. AsOf' = [t \in 0 .. MaxTime |-> IF t >= now THEN Settled' ELSE AsOf[t]]
    BY <1>1, <1>3, <1>6, <2>1, EntryRecords
  <2>3. \A t \in 0 .. MaxTime : t >= now => AsOf[t] = Settled
    BY <1>6, AsOfNow
  <2> QED
    BY <1>12, <2>2, <2>3, SameAsOf
<1>14. PICK before, book, book2, todo, rid, ride :
         /\ before = hist[m].book /\ book = BookView.book /\ book2 = BookView'.book
         /\ todo = call.todo /\ rid = log[m].content.id /\ ride = call.ride
  OBVIOUS
<1>15. Progress(before, rid, ride, todo \ {id}, book2)
  <2>1. Progress(before, rid, ride, todo, book)
    BY <1>8, <1>14
  <2>2. PICK added : added = {id}
    OBVIOUS
  <2>3. book = [i \in ixUserId |-> orders[i]] /\ Service!CanServe(book, book[id])
    BY <1>4, <1>14
  <2>4. book2 = [i \in ixUserId |-> orders'[i]]
    BY <1>1, <1>14 DEF BookView
  <2>5. book2 = [i \in DOMAIN book |->
                   IF i \in added THEN [book[i] EXCEPT !.status = "success"] ELSE book[i]]
    <3>1. \A i \in ixUserId :
            orders'[i] = IF i = id THEN [orders[i] EXCEPT !.status = "success"] ELSE orders[i]
      BY <1>1, <1>4
    <3> QED
      BY <2>2, <2>3, <2>4, <3>1
  <2>6. LookedAt(todo, book, id, added, book2)
    <3>1. \A i \in DOMAIN book : i \in Nat
      BY <1>4, <2>3
    <3>2. id \in todo /\ \A i \in todo : id <= i
      BY <1>1, <1>14
    <3> QED
      BY <2>2, <2>3, <2>5, <3>1, <3>2 DEF LookedAt
  <2> QED
    BY <2>1, <2>6, NextInProgress
<1>16. RefundProgress'
  <2>1. Began(log', m) /\ m \in 1 .. Len(log')
    BY <1>9, <1>11
  <2>2. hist'[m].book = before /\ log'[m].content.id = rid
    BY <1>10, <1>11, <1>14
  <2>3. call'.ride = ride /\ call'.todo = todo \ {id} /\ BookView'.book = book2
    BY <1>5, <1>14
  <2>4. Progress(hist'[m].book, log'[m].content.id, call'.ride, call'.todo, BookView'.book)
    BY <1>15, <2>2, <2>3
  <2> QED
    BY <2>1, <2>4 DEF RefundProgress
<1> QED
  BY <1>1, <1>13, <1>16

(* A refund that has looked at the whole queue has done what the service   *)
(* asks of it.                                                             *)
LEMMA CancelIs ==
  ASSUME NEW id, NEW ride, NEW book, Progress(AsOf[MaxTime], id, ride, {}, book),
         AsOf' = [t \in 0 .. MaxTime |-> IF t >= now THEN book ELSE AsOf[t]], now' = now
  PROVE  id \in DOMAIN Service!Present /\ Service!Cancel(id)
<1>1. PICK before : before = AsOf[MaxTime]
  OBVIOUS
<1>2. PICK without, queue : without = Without(before, id) /\ queue = Queue(before, id)
  OBVIOUS
<1>3. PICK S \in SUBSET queue :
        book = Service!WithServed(without, S) /\ ServedInOrder(without, queue, S)
  <2>1. Queue(before, id) \ {} = queue
    BY <1>2
  <2> QED
    BY <1>1, <1>2, <2>1 DEF Progress
<1>4. id \in DOMAIN before /\ before[id].status = "success"
  BY <1>1 DEF Progress
<1>5. /\ without = [before EXCEPT ![id].status = "refunded"]
      /\ queue = {i \in DOMAIN without : without[i].ride = before[id].ride
                                         /\ without[i].status = "pending"}
  <2>1. DOMAIN without = DOMAIN before
    BY <1>2 DEF Without
  <2> QED
    BY <1>2, <2>1 DEF Without, Queue
<1>6. S \in {X \in SUBSET queue : \A i \in queue :
               i \in X <=> Service!CanServe(Service!WithServed(without, {j \in X : j < i}), without[i])}
  BY <1>3 DEF ServedInOrder
<1>7. Service!Record(Service!WithServed(without, S))
  BY <1>3 DEF Service!Record, Service!Times
<1>8. Service!Present = before
  BY <1>1 DEF Service!Present
<1> DEFINE W == [Service!Present EXCEPT ![id].status = "refunded"]
           Q == {i \in DOMAIN W : W[i].ride = Service!Present[id].ride /\ W[i].status = "pending"}
           T == {X \in SUBSET Q : \A i \in Q :
                   i \in X <=> Service!CanServe(Service!WithServed(W, {j \in X : j < i}), W[i])}
<1>9. W = without
  BY <1>5, <1>8
<1>10. Q = queue
  <2> HIDE DEF W
  <2> QED
    BY <1>5, <1>8, <1>9
<1>11. S \in T
  <2> HIDE DEF W, Q
  <2> QED
    BY <1>6, <1>9, <1>10
<1>12. \E X \in T : Service!Record(Service!WithServed(W, X))
  <2> HIDE DEF W, Q, T
  <2> QED
    BY <1>7, <1>9, <1>11
<1>13. Service!Present[id].status = "success" /\ id \in DOMAIN Service!Present
  BY <1>4, <1>8
<1> QED
  BY <1>12, <1>13, Zenon DEF Service!Cancel

LEMMA RefundEnds ==
  ASSUME IInv, IInv', TimeOK, RefundProgress, HNext, RefundDone
  PROVE  \E id \in DOMAIN Service!Present : Service!Cancel(id)
<1>1. /\ Refunding /\ call.todo = {} /\ ~ Refunding' /\ ~ RollingBack /\ ~ RollingBack'
      /\ UNCHANGED <<now, log, orders, ixUserId>>
  BY DEF RefundDone, Refunding, RollingBack, NoCall
<1>2. PICK m \in 1 .. Len(log) :
        /\ Began(log, m)
        /\ Progress(hist[m].book, log[m].content.id, call.ride, {}, BookView.book)
  BY <1>1 DEF RefundProgress
<1>3. PICK before, book, id, ride : before = hist[m].book /\ book = BookView.book
                                    /\ id = log[m].content.id /\ ride = call.ride
  OBVIOUS
<1>4. AsOf[MaxTime] = before
  <2>1. Settled = before
    BY <1>1, <1>2, <1>3, SettledIs DEF IInv
  <2> QED
    BY <1>1, <2>1, PresentIs
<1>5. Settled' = book
  BY <1>1, <1>3 DEF Settled, BookView
<1>6. ASSUME NEW t \in 0 .. MaxTime
      PROVE  AsOf'[t] = IF t >= now THEN book ELSE AsOf[t]
  <2>1. AsOf'[t] = At(log, hist', book, t) /\ AsOf[t] = At(log, hist, Settled, t)
    BY <1>1, <1>5, AsOfNext, AsOfIs
  <2>2. /\ Len(log) \in Nat /\ DOMAIN log = 1 .. Len(log) /\ now \in Nat
        /\ \A k \in 1 .. Len(log) : log[k].timestamp \in Nat /\ log[k].timestamp <= now
    BY EntriesType DEF IInv, TypeOK, TimeOK
  <2>3. CASE t >= now
    <3>1. \A k \in DOMAIN log : ~ (log[k].timestamp > t)
      BY <2>2, <2>3
    <3> QED
      BY <2>1, <2>3, <3>1, AtNow
  <2>4. CASE ~ (t >= now)
    <3>1. Len(log) \in 1 .. Len(log) /\ log[Len(log)].timestamp = now
      BY <1>1, <2>2, NewestType DEF IInv, PresentQuiescent, Newest
    <3>2. PICK n, lg, h, h2, b : n = Len(log) /\ lg = log /\ h = hist /\ h2 = hist' /\ b = Settled
      OBVIOUS
    <3>3. \A k \in 1 .. n : h2[k] = h[k]
      BY <1>1, <2>2, <3>2 DEF HNext
    <3>4. SamePast(n, lg, h, h2, t)
      BY <2>2, <2>4, <3>1, <3>2, <3>3 DEF SamePast
    <3>5. At(lg, h2, book, t) = At(lg, h, b, t)
      BY <3>4, AtOld
    <3> QED
      BY <2>1, <2>4, <3>2, <3>5
  <2> QED
    BY <2>3, <2>4
<1>7. AsOf' = [t \in 0 .. MaxTime |-> IF t >= now THEN book ELSE AsOf[t]]
  BY <1>6, AsOfNext
<1>8. Progress(AsOf[MaxTime], id, ride, {}, book)
  BY <1>2, <1>3, <1>4
<1> QED
  BY <1>1, <1>7, <1>8, CancelIs

-----------------------------------------------------------------------------
(* The steps of a rollback                                                 *)

LEMMA RollbackRefines ==
  ASSUME IInv, TimeOK, HNext, NEW t \in 0 .. MaxTime, Rollback(t)
  PROVE  Service!RollbackTo(t)
<1>1. /\ t <= now /\ Idle /\ call' = [cmd |-> "rollback", timestamp |-> t]
      /\ UNCHANGED <<now, log, orders, ixUserId>>
  BY DEF Rollback, StartRollback, bookVars
<1>2. /\ ~ RollingBack /\ ~ Refunding /\ ~ Refunding'
      /\ RollingBack' /\ call'.timestamp = t
  BY <1>1 DEF Idle, NoCall, RollingBack, Refunding
<1>3. Settled' = Settled
  BY <1>1, <1>2 DEF Settled, BookView
<1>4. \A s \in 0 .. MaxTime : AsOf[s] = At(log, hist, Settled, s)
  BY <1>2, AsOfIs
<1>5. ASSUME NEW s \in 0 .. MaxTime
      PROVE  AsOf'[s] = IF s >= t THEN AsOf[t] ELSE AsOf[s]
  <2>1. AsOf'[s] = At(log', hist', Settled, IF s > t THEN t ELSE s)
    BY <1>2, <1>3, AsOfNext
  <2>2. AsOf'[s] = At(log, hist, Settled, IF s > t THEN t ELSE s)
    BY <1>1, <2>1, HistoryKept
  <2>3. (IF s > t THEN t ELSE s) = IF s >= t THEN t ELSE s
    OBVIOUS
  <2> QED
    BY <1>4, <2>2, <2>3
<1> QED
  BY <1>1, <1>5, AsOfNext DEF Service!RollbackTo, Service!Times

(* What a rollback undoes was forgotten when it began.                     *)
LEMMA UndoStutters ==
  ASSUME IInv, TimeOK, HNext, Undo
  PROVE  AsOf' = AsOf /\ now' = now
<1>1. PICK n : n = Len(log) - 1
  OBVIOUS
<1>2. /\ n \in Nat /\ Len(log) = n + 1 /\ Len(log') = n
      /\ \A k \in 1 .. n : log'[k] = log[k]
      /\ BookView' = hist[n + 1]
      /\ call' = call /\ HasEntryToUndo /\ now' = now
  BY <1>1, HistoryShrinks
<1>3. DOMAIN log = 1 .. n + 1 /\ DOMAIN log' = 1 .. n
  <2>1. Len(log) \in Nat /\ log' = SubSeq(log, 1, Len(log) - 1)
    BY <1>2 DEF Undo, UndoBuyTicket, UndoRefundTicket, UndoFulfillOrder, Undoes, DestroyEntry
  <2>2. DOMAIN log = 1 .. n + 1
    BY <1>2, EntriesType DEF IInv
  <2>3. DOMAIN SubSeq(log, 1, n) = 1 .. n
    BY <1>2
  <2> QED
    BY <1>1, <2>1, <2>2, <2>3
<1>4. \A k \in 1 .. n : hist'[k] = hist[k]
  BY <1>2 DEF HNext
<1>5. RollingBack /\ RollingBack' /\ ~ Refunding /\ ~ Refunding'
  BY <1>2 DEF HasEntryToUndo, RollingBack, Refunding
<1>6. Settled = BookView.book /\ Settled' = BookView'.book
  BY <1>5 DEF Settled
<1>7. log[n + 1].timestamp > call.timestamp /\ log[n + 1].timestamp \in Nat
  BY <1>2, EntriesType DEF HasEntryToUndo, Newest, IInv
<1>8. call.timestamp \in Nat
  <2>1. call \in [cmd : {"rollback"}, timestamp : Nat]
    BY <1>5 DEF IInv, TypeOK, CallOK, RollingBack, Idle, NoCall
  <2> QED
    BY <2>1
<1>9. ASSUME NEW t \in 0 .. MaxTime PROVE AsOf'[t] = AsOf[t]
  <2>1. PICK s : s = IF t > call.timestamp THEN call.timestamp ELSE t
    OBVIOUS
  <2>2. AsOf[t] = At(log, hist, Settled, s) /\ AsOf'[t] = At(log', hist', Settled', s)
    BY <1>2, <1>5, <2>1, AsOfIs, AsOfNext
  <2>3. log[n + 1].timestamp > s
    BY <1>7, <1>8, <2>1
  <2>4. PICK lg, lg2, h, h2, b, b2 : lg = log' /\ lg2 = log /\ h = hist' /\ h2 = hist
                                     /\ b = Settled' /\ b2 = Settled
    OBVIOUS
  <2>5. h2[n + 1].book = b
    BY <1>2, <1>6, <2>4
  <2>6. Grown(n, lg, lg2, h, h2, s, b)
    BY <1>2, <1>3, <1>4, <2>3, <2>4, <2>5 DEF Grown
  <2>7. At(lg2, h2, b2, s) = At(lg, h, b, s)
    BY <2>6, AtGrows
  <2> QED
    BY <2>2, <2>4, <2>7
<1> QED
  BY <1>2, <1>9, SameAsOf

LEMMA EndRollbackStutters ==
  ASSUME IInv, TimeOK, HNext, EndRollback
  PROVE  AsOf' = AsOf /\ now' = now
<1>1. /\ RollingBack /\ ~ HasEntryToUndo /\ call' = NoCall
      /\ UNCHANGED <<now, log, orders, ixUserId>>
  BY DEF EndRollback, RollbackDone, bookVars
<1>2. ~ Refunding /\ ~ Refunding' /\ ~ RollingBack'
  BY <1>1 DEF RollingBack, Refunding, NoCall
<1>3. Settled' = Settled
  BY <1>1, <1>2 DEF Settled, BookView
<1>4. call.timestamp \in Nat
  <2>1. call \in [cmd : {"rollback"}, timestamp : Nat]
    BY <1>1 DEF IInv, TypeOK, CallOK, RollingBack, Idle, NoCall
  <2> QED
    BY <2>1
<1>5. /\ Len(log) \in Nat /\ DOMAIN log = 1 .. Len(log)
      /\ \A k \in 1 .. Len(log) : log[k].timestamp \in Nat
  BY EntriesType DEF IInv
<1>6. \A k \in 1 .. Len(log) : log[k].timestamp <= call.timestamp
  <2>1. CASE log = <<>>
    <3>1. Len(log) = 0
      BY <2>1
    <3> QED
      BY <3>1
  <2>2. CASE log # <<>>
    <3>1. Len(log) \in 1 .. Len(log) /\ log[Len(log)].timestamp <= call.timestamp
      BY <1>1, <1>4, <1>5, <2>2, NewestType DEF HasEntryToUndo, Newest, IInv
    <3>2. \A k \in 1 .. Len(log) : log[k].timestamp <= log[Len(log)].timestamp
      BY <1>5, <3>1 DEF TimeOK
    <3> QED
      BY <1>4, <1>5, <3>1, <3>2
  <2> QED
    BY <2>1, <2>2
<1>7. ASSUME NEW t \in 0 .. MaxTime PROVE AsOf'[t] = AsOf[t]
  <2>1. PICK s : s = IF t > call.timestamp THEN call.timestamp ELSE t
    OBVIOUS
  <2>2. AsOf[t] = At(log, hist, Settled, s) /\ AsOf'[t] = At(log', hist', Settled, t)
    BY <1>1, <1>2, <1>3, <2>1, AsOfIs, AsOfNext
  <2>3. AsOf'[t] = At(log, hist, Settled, t)
    BY <1>1, <2>2, HistoryKept
  <2>4. CASE t > call.timestamp
    <3>1. \A k \in DOMAIN log : ~ (log[k].timestamp > t) /\ ~ (log[k].timestamp > s)
      BY <1>4, <1>5, <1>6, <2>1, <2>4
    <3>2. At(log, hist, Settled, t) = Settled
      BY <3>1, AtNow
    <3>3. At(log, hist, Settled, s) = Settled
      BY <3>1, AtNow
    <3> QED
      BY <2>2, <2>3, <3>2, <3>3
  <2>5. CASE ~ (t > call.timestamp)
    BY <2>1, <2>2, <2>3, <2>5
  <2> QED
    BY <2>4, <2>5
<1> QED
  BY <1>1, <1>7, SameAsOf

-----------------------------------------------------------------------------
(* The refinement                                                          *)

ServiceInv ==
  /\ IInv
  /\ HistoryConserved
  /\ TimeOK
  /\ RefundProgress

LEMMA ServiceInit ==
  ASSUME HInit
  PROVE  RefundProgress /\ Service!Init
<1>1. now = 0 /\ log = <<>> /\ ~ Refunding /\ ~ RollingBack /\ ixUserId = {}
  BY DEF HInit, Init, NoCall, Refunding, RollingBack
<1>2. Settled = <<>>
  BY <1>1 DEF Settled, BookView
<1>3. \A t \in 0 .. MaxTime : AsOf[t] = <<>>
  <2> SUFFICES ASSUME NEW t \in 0 .. MaxTime PROVE AsOf[t] = <<>>
    OBVIOUS
  <2>1. AsOf[t] = At(log, hist, Settled, t)
    BY <1>1, AsOfIs
  <2>2. \A k \in DOMAIN log : ~ (log[k].timestamp > t)
    BY <1>1
  <2>3. At(log, hist, Settled, t) = Settled
    BY <2>2, AtNow
  <2> QED
    BY <1>2, <2>1, <2>3
<1>4. AsOf = [t \in 0 .. MaxTime |-> <<>>]
  <2>1. AsOf = [t \in 0 .. MaxTime |-> AsOf[t]]
    BY DEF AsOf
  <2> QED
    BY <1>3, <2>1
<1> QED
  BY <1>1, <1>4 DEF RefundProgress, Service!Init, Service!Times

LEMMA ServiceStep ==
  ASSUME ServiceInv, IInv', TimeOK', HNext
  PROVE  RefundProgress' /\ (Service!Next \/ (now' = now /\ AsOf' = AsOf))
<1> USE DEF ServiceInv
<1>1. ASSUME NEW t \in 0 .. MaxTime, ReadTimestamp(t), UNCHANGED <<usersLoggedIn, bookVars>>
      PROVE  RefundProgress' /\ Service!Next
  <2>1. /\ Idle /\ t >= now /\ now' = t /\ log' = log /\ call' = call
        /\ orders' = orders /\ ixUserId' = ixUserId
    BY <1>1 DEF ReadTimestamp, bookVars
  <2>2. ~ Refunding /\ ~ Refunding' /\ ~ RollingBack /\ ~ RollingBack'
    BY <2>1 DEF Idle, NoCall, Refunding, RollingBack
  <2>3. Settled' = Settled
    BY <2>1, <2>2 DEF Settled, BookView
  <2>4. Service!Tick(t)
    BY <2>1, <2>2, <2>3, NothingSettled DEF Service!Tick
  <2> QED
    BY <2>2, <2>4 DEF RefundProgress, Service!Next, Service!Times
<1>2. ASSUME NEW u \in Users, Login(u) \/ Logout(u)
      PROVE  RefundProgress' /\ now' = now /\ AsOf' = AsOf
  <2>1. /\ Idle /\ now' = now /\ log' = log /\ call' = call
        /\ orders' = orders /\ ixUserId' = ixUserId
    BY <1>2 DEF Login, Logout, bookVars
  <2>2. ~ Refunding /\ ~ Refunding' /\ ~ RollingBack /\ ~ RollingBack'
    BY <2>1 DEF Idle, NoCall, Refunding, RollingBack
  <2>3. Settled' = Settled
    BY <2>1, <2>2 DEF Settled, BookView
  <2> QED
    BY <2>1, <2>2, <2>3, NothingSettled DEF RefundProgress
<1>3. ASSUME NEW o \in Requests, BuyTicketSuccess(o) \/ BuyTicketEnqueued(o)
      PROVE  RefundProgress' /\ Service!Next
  <2>1. o \in Service!Requests
    BY DEF Requests, Service!Requests
  <2>2. ~ Refunding'
    BY <1>3 DEF BuyTicketSuccess, BuyTicketEnqueued, CreateOrder, Idle, NoCall, Refunding
  <2>3. \E id \in 1 .. MaxOrders : Service!Buy(o, id)
    BY <1>3, BuyRefines
  <2> QED
    BY <2>1, <2>2, <2>3 DEF RefundProgress, Service!Next
<1>4. ASSUME NEW u \in Users, NEW n \in 1 .. MaxOrders, NEW id \in ixUserId, RefundPending(u, n, id)
      PROVE  RefundProgress' /\ Service!Next
  <2>1. ~ Refunding'
    BY <1>4 DEF RefundPending, MarkRefunded, Idle, NoCall, Refunding
  <2>2. \E i \in DOMAIN Service!Present : Service!Cancel(i)
    BY <1>4, RefundPendingRefines
  <2> QED
    BY <2>1, <2>2 DEF RefundProgress, Service!Next
<1>5. ASSUME NEW u \in Users, NEW n \in 1 .. MaxOrders, NEW id \in ixUserId, RefundSuccess(u, n, id)
      PROVE  RefundProgress' /\ now' = now /\ AsOf' = AsOf
  BY <1>5, RefundStarts
<1>6. ASSUME NEW t \in 0 .. MaxTime, Rollback(t)
      PROVE  RefundProgress' /\ Service!Next
  <2>1. ~ Refunding'
    BY <1>6 DEF Rollback, StartRollback, Refunding
  <2>2. Service!RollbackTo(t)
    BY <1>6, RollbackRefines
  <2> QED
    BY <2>1, <2>2 DEF RefundProgress, Service!Next, Service!Times
<1>7. ASSUME NEW id \in pendingOrders, SkipOrder(id) \/ FulfillOrder(id)
      PROVE  RefundProgress' /\ now' = now /\ AsOf' = AsOf
  BY <1>7, RefundSkips, RefundServes
<1>8. ASSUME RefundDone
      PROVE  RefundProgress' /\ Service!Next
  <2>1. ~ Refunding'
    BY <1>8 DEF RefundDone, Refunding, NoCall
  <2>2. \E i \in DOMAIN Service!Present : Service!Cancel(i)
    BY <1>8, RefundEnds
  <2> QED
    BY <2>1, <2>2 DEF RefundProgress, Service!Next
<1>9. ASSUME Undo
      PROVE  RefundProgress' /\ now' = now /\ AsOf' = AsOf
  <2>1. ~ Refunding'
    BY <1>9 DEF Undo, UndoBuyTicket, UndoRefundTicket, UndoFulfillOrder, Undoes,
                HasEntryToUndo, RollingBack, Refunding
  <2> QED
    BY <1>9, <2>1, UndoStutters DEF RefundProgress
<1>10. ASSUME EndRollback
       PROVE  RefundProgress' /\ now' = now /\ AsOf' = AsOf
  <2>1. ~ Refunding'
    BY <1>10 DEF EndRollback, RollbackDone, Refunding, NoCall
  <2> QED
    BY <1>10, <2>1, EndRollbackStutters DEF RefundProgress
<1>11. Next
  BY DEF HNext
<1> QED
  BY <1>1, <1>2, <1>3, <1>4, <1>5, <1>6, <1>7, <1>8, <1>9, <1>10, <1>11
     DEF Next, Command, LoopStep, Undo

LEMMA ServiceStutter ==
  ASSUME RefundProgress, UNCHANGED hvars
  PROVE  RefundProgress' /\ now' = now /\ AsOf' = AsOf
<1>1. UNCHANGED <<now, log, call, orders, ixUserId, pendingOrders, rideSeats, hist>>
  BY DEF hvars, vars, bookVars
<1>2. Refunding' = Refunding /\ RollingBack' = RollingBack /\ BookView' = BookView
  BY <1>1 DEF Refunding, RollingBack, BookView, SeatsNow
<1>3. RefundProgress'
  BY <1>1, <1>2 DEF RefundProgress
<1>4. AsOf' = AsOf
  BY <1>1, <1>2 DEF AsOf, BookAt
<1> QED
  BY <1>1, <1>3, <1>4

(* With the book as of every time read off the log, as OrderBookHistory    *)
(* maps it, order.cpp behaves as TicketService: a purchase and a refund    *)
(* with all the orders it serves are one step each, and a rollback brings  *)
(* back exactly the book of the time it names.                             *)
THEOREM BookImplementsService == HSpec => ImplementsService
<1>1. HInit => RefundProgress /\ Service!Init /\ TimeOK
  BY ServiceInit, TimeInit
<1>2. ASSUME TimeOK, IInv, IInv', [HNext]_hvars
      PROVE  TimeOK'
  <2>1. CASE UNCHANGED hvars
    <3>1. UNCHANGED <<now, log, call>>
      BY <2>1 DEF hvars, vars
    <3> QED
      BY <1>2, <3>1 DEF TimeOK, RollingBack
  <2> QED
    BY <1>2, <2>1, TimeStep
<1>3. ASSUME ServiceInv, IInv', TimeOK', [HNext]_hvars
      PROVE  RefundProgress' /\ [Service!Next]_<<now, AsOf>>
  BY <1>3, ServiceStep, ServiceStutter DEF ServiceInv
<1>4. HSpec => []TimeOK
  BY <1>1, <1>2, RollbackInvariant, PTL DEF HSpec
<1>5. HSpec => [](IInv /\ HistoryConserved /\ TimeOK)
  BY <1>4, RollbackInvariant, Conservation, PTL
<1>6. HSpec => []RefundProgress
  <2>1. IInv /\ HistoryConserved /\ TimeOK /\ RefundProgress /\ IInv' /\ TimeOK' /\ [HNext]_hvars
          => RefundProgress'
    BY <1>3 DEF ServiceInv
  <2> QED
    BY <1>1, <1>5, <2>1, PTL DEF HSpec
<1>7. IInv /\ HistoryConserved /\ TimeOK /\ RefundProgress /\ IInv' /\ TimeOK' /\ [HNext]_hvars
        => [Service!Next]_(Service!vars)
  BY <1>3 DEF ServiceInv, Service!vars
<1> QED
  BY <1>1, <1>5, <1>6, <1>7, PTL DEF HSpec, ImplementsService, Service!Spec

=============================================================================
