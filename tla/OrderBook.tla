----------------------------- MODULE OrderBook -----------------------------
(***************************************************************************)
(* The order component (order.cpp): buying tickets, waiting for them in    *)
(* the queue of a ride, refunding them, and undoing all of it when the     *)
(* back end is rolled back.  An order gets the next id of the orders file  *)
(* and keeps it: orders[id] is never destroyed, a rollback only takes the  *)
(* id out of the indices.                                                  *)
(***************************************************************************)
EXTENDS CommandLog, RideSeats

CONSTANTS
  Users,       \* usernames
  Rides,       \* the rides (train, date) that are on sale
  Segments,    \* Segments[r]: the number of edges of the train of ride r
  Capacity,    \* Capacity[r]: the seats of that train
  MaxOrders,   \* bound: the number of orders that are ever created
  MaxRequest   \* bound: the seats a user asks for in one command

ASSUME RidesAssumption ==
  /\ Segments \in [Rides -> Nat \ {0}]
  /\ Capacity \in [Rides -> Nat \ {0}]
ASSUME BoundsAssumption ==
  /\ MaxOrders \in Nat
  /\ MaxRequest \in Nat

VARIABLES
  usersLoggedIn,    \* the users with a session
  orders,           \* the orders file, by id
  ixUserId,         \* Order::ixUserId: the ids of the orders users can see
  pendingOrders,    \* Order::pendingOrders: the ids of the queued orders
  rideSeats         \* RideSeats::ixRide: the free seats of every edge of a ride

bookVars == <<orders, ixUserId, pendingOrders, rideSeats>>
vars == <<now, log, call, usersLoggedIn, bookVars>>

Edges(r) == 0 .. (Segments[r] - 1)
Status == {"success", "pending", "refunded"}
Order ==
  [user : Users, ride : Rides, from : Nat, to : Nat, seats : Nat \ {0}, status : Status]

Init ==
  /\ now = 0
  /\ log = <<>>
  /\ call = NoCall
  /\ usersLoggedIn = {}
  /\ orders = <<>>
  /\ ixUserId = {}
  /\ pendingOrders = {}
  /\ rideSeats = [r \in Rides |-> [e \in Edges(r) |-> Capacity[r]]]

-----------------------------------------------------------------------------
(* Sessions, as far as orders depend on them.                              *)

Login(u) ==
  /\ Idle
  /\ u \notin usersLoggedIn
  /\ usersLoggedIn' = usersLoggedIn \cup {u}
  /\ UNCHANGED <<now, log, call, bookVars>>

Logout(u) ==
  /\ Idle
  /\ u \in usersLoggedIn
  /\ usersLoggedIn' = usersLoggedIn \ {u}
  /\ UNCHANGED <<now, log, call, bookVars>>

-----------------------------------------------------------------------------
(* command::run(BuyTicket).  A request that fails a check returns an       *)
(* Exception and changes nothing.                                          *)

Acceptable(o) ==
  /\ o.user \in usersLoggedIn
  /\ o.ride \in DOMAIN rideSeats
  /\ o.seats <= Capacity[o.ride]
  /\ o.from < o.to
  /\ o.to <= Segments[o.ride]

(* Mistake: looks at the departing edge only.                              *)
FitsFirstEdge(o, rem) == rem[o.from] >= o.seats

Fits(o, rem) == TicketsAvailable(rem, o.from, o.to) >= o.seats
Take(rem, o) == RangeAdd(rem, -o.seats, o.from, o.to)
GiveBack(rem, o) == RangeAdd(rem, o.seats, o.from, o.to)

NextId == Len(orders) + 1

CreateOrder(o, status) ==
  /\ Idle
  /\ Len(orders) < MaxOrders
  /\ orders' = Append(orders, [o EXCEPT !.status = status])
  /\ ixUserId' = ixUserId \cup {NextId}
  /\ Log([op |-> "BuyTicket", id |-> NextId])
  /\ UNCHANGED <<now, call, usersLoggedIn>>

BuyTicketSuccess(o) ==
  /\ Acceptable(o)
  /\ Fits(o, rideSeats[o.ride])
  /\ CreateOrder(o, "success")
  /\ rideSeats' = [rideSeats EXCEPT ![o.ride] = Take(@, o)]
  /\ UNCHANGED pendingOrders

(* The request asked to be queued.                                         *)
BuyTicketEnqueued(o) ==
  /\ Acceptable(o)
  /\ ~ Fits(o, rideSeats[o.ride])
  /\ CreateOrder(o, "pending")
  /\ pendingOrders' = pendingOrders \cup {NextId}
  /\ UNCHANGED rideSeats

-----------------------------------------------------------------------------
(* command::run(RefundTicket).  A user names an order by its position in   *)
(* the list of his orders, the newest first.                               *)

IsNthOrderOf(u, n, id) ==
  LET mine == {i \in ixUserId : orders[i].user = u}
  IN  id \in mine /\ Cardinality({i \in mine : i >= id}) = n

(* Mistake: logs the status after it has been overwritten.                 *)
MarkRefundedThenLog(u, n, id) ==
  /\ Idle
  /\ u \in usersLoggedIn
  /\ IsNthOrderOf(u, n, id)
  /\ orders[id].status # "refunded"
  /\ orders' = [orders EXCEPT ![id].status = "refunded"]
  /\ Log([op |-> "RefundTicket", id |-> id, status |-> orders'[id].status])
  /\ UNCHANGED <<now, usersLoggedIn, ixUserId, rideSeats>>

(* The part common to every refund: the log entry, then the status.        *)
MarkRefunded(u, n, id) ==
  /\ Idle
  /\ u \in usersLoggedIn
  /\ IsNthOrderOf(u, n, id)
  /\ orders[id].status # "refunded"
  /\ Log([op |-> "RefundTicket", id |-> id, status |-> orders[id].status])
  /\ orders' = [orders EXCEPT ![id].status = "refunded"]
  /\ UNCHANGED <<now, usersLoggedIn, ixUserId, rideSeats>>

RefundPending(u, n, id) ==
  /\ MarkRefunded(u, n, id)
  /\ orders[id].status = "pending"
  /\ pendingOrders' = pendingOrders \ {id}
  /\ UNCHANGED call

(* Mistake: the queues of all rides are read.                              *)
RefundSuccessAllQueues(u, n, id) ==
  LET r == orders[id].ride
  IN  /\ MarkRefunded(u, n, id)
      /\ orders[id].status = "success"
      /\ call' = [cmd |-> "refund",
                  ride |-> r,
                  seats |-> GiveBack(rideSeats[r], orders[id]),
                  todo |-> pendingOrders]
      /\ UNCHANGED pendingOrders

(* The seats come back in a local copy of the ride's record, and the       *)
(* queue of the ride is read once, in the order of the ids.                *)
RefundSuccess(u, n, id) ==
  LET r == orders[id].ride
  IN  /\ MarkRefunded(u, n, id)
      /\ orders[id].status = "success"
      /\ call' = [cmd |-> "refund",
                  ride |-> r,
                  seats |-> GiveBack(rideSeats[r], orders[id]),
                  todo |-> {i \in pendingOrders : orders[i].ride = r}]
      /\ UNCHANGED pendingOrders

Refunding == call.cmd = "refund"

(* Mistake: serves the queue from its end.                                 *)
IsLastInQueue(id) ==
  /\ Refunding
  /\ id \in call.todo
  /\ \A i \in call.todo : id >= i

(* The iteration of the loop for the pending order `id'.                   *)
IsNextInQueue(id) ==
  /\ Refunding
  /\ id \in call.todo
  /\ \A i \in call.todo : id <= i

(* Mistakes: leaves the loop at the first order that does not fit; does not *)
(* advance the iterator.                                                   *)
BreakAtOrder(id) ==
  /\ IsNextInQueue(id)
  /\ ~ Fits(orders[id], call.seats)
  /\ call' = [call EXCEPT !.todo = {}]
  /\ UNCHANGED <<now, log, usersLoggedIn, bookVars>>
RetryOrder(id) ==
  /\ IsNextInQueue(id)
  /\ ~ Fits(orders[id], call.seats)
  /\ UNCHANGED vars

SkipOrder(id) ==
  /\ IsNextInQueue(id)
  /\ ~ Fits(orders[id], call.seats)
  /\ call' = [call EXCEPT !.todo = @ \ {id}]
  /\ UNCHANGED <<now, log, usersLoggedIn, bookVars>>

(* Mistakes: the order stays in the index of pending orders; no log entry.  *)
FulfillOrderStaysIndexed(id) ==
  /\ IsNextInQueue(id)
  /\ Fits(orders[id], call.seats)
  /\ call' = [call EXCEPT !.todo = @ \ {id}, !.seats = Take(@, orders[id])]
  /\ orders' = [orders EXCEPT ![id].status = "success"]
  /\ Log([op |-> "FulfillOrder", id |-> id])
  /\ UNCHANGED <<now, usersLoggedIn, ixUserId, pendingOrders, rideSeats>>
FulfillOrderUnlogged(id) ==
  /\ IsNextInQueue(id)
  /\ Fits(orders[id], call.seats)
  /\ call' = [call EXCEPT !.todo = @ \ {id}, !.seats = Take(@, orders[id])]
  /\ orders' = [orders EXCEPT ![id].status = "success"]
  /\ pendingOrders' = pendingOrders \ {id}
  /\ UNCHANGED <<now, log, usersLoggedIn, ixUserId, rideSeats>>

FulfillOrder(id) ==
  /\ IsNextInQueue(id)
  /\ Fits(orders[id], call.seats)
  /\ call' = [call EXCEPT !.todo = @ \ {id}, !.seats = Take(@, orders[id])]
  /\ orders' = [orders EXCEPT ![id].status = "success"]
  /\ pendingOrders' = pendingOrders \ {id}
  /\ Log([op |-> "FulfillOrder", id |-> id])
  /\ UNCHANGED <<now, usersLoggedIn, ixUserId, rideSeats>>

(* Mistake: the local copy is dropped.                                     *)
RefundDoneWithoutUpdate ==
  /\ Refunding
  /\ call.todo = {}
  /\ call' = NoCall
  /\ UNCHANGED <<now, log, usersLoggedIn, bookVars>>

(* After the loop the record of the ride is written, once.                 *)
RefundDone ==
  /\ Refunding
  /\ call.todo = {}
  /\ rideSeats' = [rideSeats EXCEPT ![call.ride] = call.seats]
  /\ call' = NoCall
  /\ UNCHANGED <<now, log, usersLoggedIn, orders, ixUserId, pendingOrders>>

-----------------------------------------------------------------------------
(* Rollback and the visitors that undo an entry of this component.         *)

Rollback(t) ==
  /\ StartRollback(t)
  /\ usersLoggedIn' = {}
  /\ UNCHANGED bookVars

EndRollback ==
  /\ RollbackDone
  /\ UNCHANGED <<usersLoggedIn, bookVars>>

Undoes(op) ==
  /\ HasEntryToUndo
  /\ Newest.content.op = op
  /\ DestroyEntry
  /\ UNCHANGED <<now, call, usersLoggedIn>>

UndoBuyTicket ==
  LET id == Newest.content.id
      o  == orders[id]
  IN  /\ Undoes("BuyTicket")
      /\ ixUserId' = ixUserId \ {id}
      /\ IF o.status = "pending"
         THEN /\ pendingOrders' = pendingOrders \ {id}
              /\ UNCHANGED rideSeats
         ELSE /\ rideSeats' = [rideSeats EXCEPT ![o.ride] = GiveBack(@, o)]
              /\ UNCHANGED pendingOrders
      /\ UNCHANGED orders

UndoRefundTicket ==
  LET id == Newest.content.id
      o  == orders[id]
      was == Newest.content.status
  IN  /\ Undoes("RefundTicket")
      /\ orders' = [orders EXCEPT ![id].status = was]
      /\ IF was = "success"
         THEN /\ rideSeats' = [rideSeats EXCEPT ![o.ride] = Take(@, o)]
              /\ UNCHANGED pendingOrders
         ELSE /\ pendingOrders' = pendingOrders \cup {id}
              /\ UNCHANGED rideSeats
      /\ UNCHANGED ixUserId

(* Mistake: the seats are not given back.                                  *)
UndoFulfillOrderKeepsSeats ==
  LET id == Newest.content.id
  IN  /\ Undoes("FulfillOrder")
      /\ orders' = [orders EXCEPT ![id].status = "pending"]
      /\ pendingOrders' = pendingOrders \cup {id}
      /\ UNCHANGED <<ixUserId, rideSeats>>

UndoFulfillOrder ==
  LET id == Newest.content.id
      o  == orders[id]
  IN  /\ Undoes("FulfillOrder")
      /\ orders' = [orders EXCEPT ![id].status = "pending"]
      /\ pendingOrders' = pendingOrders \cup {id}
      /\ rideSeats' = [rideSeats EXCEPT ![o.ride] = GiveBack(@, o)]
      /\ UNCHANGED ixUserId

-----------------------------------------------------------------------------
(* What a user can ask for: at least one seat, between two stops of the    *)
(* train, in either direction.                                             *)
Requests ==
  UNION {[user : Users, ride : {r}, from : 0 .. Segments[r], to : 0 .. Segments[r],
          seats : 1 .. MaxRequest, status : {"success"}] : r \in Rides}

Command ==
  \/ \E t \in 0 .. MaxTime : ReadTimestamp(t) /\ UNCHANGED <<usersLoggedIn, bookVars>>
  \/ \E u \in Users : Login(u) \/ Logout(u)
  \/ \E o \in Requests : BuyTicketSuccess(o) \/ BuyTicketEnqueued(o)
  \/ \E u \in Users, n \in 1 .. MaxOrders, id \in ixUserId :
       RefundPending(u, n, id) \/ RefundSuccess(u, n, id)
  \/ \E t \in 0 .. MaxTime : Rollback(t)

(* The iterations of the loop of the command in progress.                  *)
LoopStep ==
  \/ \E id \in pendingOrders : SkipOrder(id) \/ FulfillOrder(id)
  \/ RefundDone
  \/ UndoBuyTicket \/ UndoRefundTicket \/ UndoFulfillOrder
  \/ EndRollback

Next == Command \/ LoopStep

Spec == Init /\ [][Next]_vars

(* main() calls one handler after the other and a handler runs to its end, *)
(* so the loop of a handler is never abandoned.                            *)
Fairness == WF_vars(LoopStep)

-----------------------------------------------------------------------------
(* Properties                                                              *)

Content ==
  [op : {"BuyTicket", "FulfillOrder"}, id : Nat]
    \cup [op : {"RefundTicket"}, id : Nat, status : {"success", "pending"}]

HasTrip(o) == o.from < o.to /\ o.to <= Segments[o.ride]

CallOK ==
  \/ Idle
  \/ call \in [cmd : {"rollback"}, timestamp : Nat]
  \/ /\ Refunding
     /\ call \in [cmd : {"refund"}, ride : Rides, seats : [Edges(call.ride) -> Int],
                  todo : SUBSET pendingOrders]

(* Every variable has its type, and the indices and the log name orders of *)
(* the file.                                                               *)
TypeOK ==
  /\ now \in Nat
  /\ log \in Seq([timestamp : Nat, content : Content])
  /\ \A k \in DOMAIN log : log[k].content.id \in DOMAIN orders
  /\ CallOK
  /\ usersLoggedIn \subseteq Users
  /\ orders \in Seq(Order)
  /\ ixUserId \subseteq DOMAIN orders
  /\ pendingOrders \subseteq DOMAIN orders
  /\ DOMAIN rideSeats = Rides
  /\ \A r \in Rides : rideSeats[r] \in [Edges(r) -> Int]
  /\ \A id \in DOMAIN orders : HasTrip(orders[id])

(* The seats of ride r as the command in progress sees them: RefundTicket  *)
(* works on its own copy of the record until it writes it back.            *)
SeatsNow(r) == IF Refunding /\ call.ride = r THEN call.seats ELSE rideSeats[r]

SeatsHeld(r, e) ==
  MapThenSumSet(LAMBDA id : orders[id].seats,
                {id \in ixUserId : /\ orders[id].ride = r
                                   /\ orders[id].status = "success"
                                   /\ e \in Trip(orders[id].from, orders[id].to)})

(* No seat is lost and none is made up: on every edge of every ride the    *)
(* free seats and the seats of the successful orders over that edge add up *)
(* to the capacity, in the middle of a refund or of a rollback as well     *)
(* (rangeAdd in BuyTicket, RefundTicket and the undo visitors).            *)
SeatConservation ==
  \A r \in Rides : \A e \in Edges(r) : SeatsNow(r)[e] + SeatsHeld(r, e) = Capacity[r]

(* No edge is ever sold twice over, and no undo step, which checks nothing,*)
(* takes the free seats of an edge below zero.                             *)
NeverOversold ==
  \A r \in Rides : \A e \in Edges(r) : rideSeats[r][e] >= 0 /\ SeatsNow(r)[e] >= 0

(* Order::pendingOrders holds exactly the visible orders whose status is   *)
(* pending, after every step of every handler and of every undo visitor.   *)
PendingIndexExact ==
  pendingOrders = {id \in ixUserId : orders[id].status = "pending"}

(* Between commands nobody waits for seats that are free: RefundTicket     *)
(* serves everyone it can in one pass over the queue, and refunding a      *)
(* pending order needs no pass at all (order.cpp:132).                     *)
NoOneWaitsInVain ==
  Idle => \A id \in pendingOrders : ~ Fits(orders[id], rideSeats[orders[id].ride])

(* When Rollback gets to an entry, its order is in the state the entry     *)
(* left it in: the TICKET_ASSERTs of the undo visitors hold, a refund is   *)
(* undone before the purchase, and the order is still visible.             *)
UndoFindsItsOrder ==
  HasEntryToUndo =>
    LET entry == Newest.content
        status == orders[entry.id].status
    IN  /\ entry.id \in ixUserId
        /\ entry.op = "RefundTicket" => status = "refunded"
        /\ entry.op = "FulfillOrder" => status = "success"
        /\ entry.op = "BuyTicket" => status # "refunded"

(* The queue of a ride is served in the order of the purchases: the order  *)
(* fulfilled overtakes only orders that the seats left at that moment      *)
(* cannot serve.                                                           *)
NoQueueJumping ==
  [][\A id \in pendingOrders \ pendingOrders' :
       orders'[id].status = "success" =>
         \A ahead \in pendingOrders :
           (ahead < id /\ orders[ahead].ride = orders[id].ride)
             => ~ Fits(orders[ahead], SeatsNow(orders[id].ride))]_vars

(* A command that starts a loop finishes it.                               *)
CommandsComplete == ~ Idle ~> Idle

=============================================================================
