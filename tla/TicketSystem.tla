---------------------------- MODULE TicketSystem ----------------------------
(***************************************************************************)
(* The back end as a whole: accounts, trains and orders share the clock,   *)
(* the rollback log and the command in progress.  A purchase goes through  *)
(* the catalog: the train must be known by its name, and the ride on sale. *)
(* A rollback undoes the entries of all components, the newest first.      *)
(*                                                                         *)
(* All trains have the same number of edges and of seats, so that the      *)
(* order book can be instantiated with a fixed shape of its rides.         *)
(***************************************************************************)
EXTENDS CommandLog, FiniteSetsExt

CONSTANTS
  Usernames, Passwords, Privileges, MaxUsers,           \* of Accounts
  TrainNames, Lines, MaxTrains,                         \* of TrainCatalog
  EdgeCount, SeatCount, MaxOrders, MaxRequest,          \* of OrderBook
  MaxLog                                                \* bound: the length of the log before a refund

ASSUME SameShape ==
  \A line \in Lines : Len(line.stops) = EdgeCount + 1 /\ line.seats = SeatCount
ASSUME SystemAssumption ==
  /\ EdgeCount \in Nat \ {0}
  /\ SeatCount \in Nat \ {0}
  /\ MaxTrains \in Nat

VARIABLES
  users, ixUsername, usersLoggedIn,
  trains, freeTrains, ixId, ixStop, rideSeats,
  orders, ixUserId, pendingOrders,
  hist     \* next to every entry of the log, the data as it was before it

Rides == (1 .. MaxTrains) \X UNION {line.dates : line \in Lines}

UserPart == INSTANCE Accounts
TrainPart == INSTANCE TrainCatalog
OrderPart ==
  INSTANCE OrderBook WITH
    Users <- Usernames, usersLoggedIn <- DOMAIN usersLoggedIn,
    Segments <- [r \in Rides |-> EdgeCount], Capacity <- [r \in Rides |-> SeatCount]

accountVars == <<users, ixUsername, usersLoggedIn>>
catalogVars == <<trains, freeTrains, ixId, ixStop>>
orderVars == <<orders, ixUserId, pendingOrders>>
vars == <<now, log, call, accountVars, catalogVars, rideSeats, orderVars>>

-----------------------------------------------------------------------------
Init ==
  /\ UserPart!Init
  /\ TrainPart!Init
  /\ orders = <<>>
  /\ ixUserId = {}
  /\ pendingOrders = {}
  /\ hist = <<>>

UserCommand ==
  /\ UNCHANGED <<catalogVars, rideSeats, orderVars>>
  /\ \/ \E name \in Usernames, password \in Passwords :
          UserPart!AddFirstUser(name, password) \/ UserPart!Login(name, password)
     \/ \E current, name \in Usernames, password \in Passwords, privilege \in Privileges :
          UserPart!AddUser(current, name, password, privilege)
     \/ \E name \in Usernames : UserPart!Logout(name)
     \/ \E current \in Usernames, id \in DOMAIN users, privilege \in Privileges :
          UserPart!ModifyProfile(current, id, {}, {privilege})
     \/ UserPart!Exit

TrainCommand ==
  /\ UNCHANGED <<accountVars, orderVars>>
  /\ \/ \E name \in TrainNames, line \in Lines : TrainPart!AddTrain(name, line)
     \/ \E name \in TrainNames, id \in DOMAIN trains :
          TrainPart!DeleteTrain(name, id) \/ TrainPart!ReleaseTrain(name, id)

(* The train of a purchase is found by its name.                           *)
OnSale(id) == ~ trains[id].deleted /\ <<trains[id].name, id>> \in ixId

BuyTicket(o) ==
  /\ o.ride[1] \in DOMAIN trains
  /\ OnSale(o.ride[1])
  /\ OrderPart!BuyTicketSuccess(o) \/ OrderPart!BuyTicketEnqueued(o)

OrderCommand ==
  /\ UNCHANGED <<accountVars, catalogVars>>
  /\ \/ Len(log) < MaxLog /\ \E o \in OrderPart!Requests : BuyTicket(o)
     \/ \E u \in Usernames, n \in 1 .. MaxOrders, id \in ixUserId :
          OrderPart!RefundPending(u, n, id) \/ OrderPart!RefundSuccess(u, n, id)

RefundStep ==
  /\ UNCHANGED <<accountVars, catalogVars>>
  /\ \/ \E id \in pendingOrders : OrderPart!SkipOrder(id) \/ OrderPart!FulfillOrder(id)
     \/ OrderPart!RefundDone

(* command::run(Clean) truncates the files of all components.              *)
Clean ==
  /\ UserPart!Clean
  /\ TrainPart!Clean
  /\ orders' = <<>>
  /\ ixUserId' = {}
  /\ pendingOrders' = {}

Rollback(t) ==
  /\ UserPart!Rollback(t)
  /\ UNCHANGED <<catalogVars, rideSeats, orderVars>>

(* The entry of the log chooses the visitor.                               *)
Undo ==
  \/ /\ UserPart!UndoAddUser \/ UserPart!UndoModifyProfile
     /\ UNCHANGED <<catalogVars, rideSeats, orderVars>>
  \/ /\ TrainPart!UndoAddTrain \/ TrainPart!UndoDeleteTrain \/ TrainPart!UndoReleaseTrain
     /\ UNCHANGED <<accountVars, orderVars>>
  \/ /\ UNCHANGED <<accountVars, catalogVars>>
     /\ OrderPart!UndoBuyTicket \/ OrderPart!UndoRefundTicket \/ OrderPart!UndoFulfillOrder

EndRollback == RollbackDone /\ UNCHANGED <<accountVars, catalogVars, rideSeats, orderVars>>

Step ==
  \/ \E t \in 0 .. MaxTime :
       ReadTimestamp(t) /\ UNCHANGED <<accountVars, catalogVars, rideSeats, orderVars>>
  \/ UserCommand
  \/ TrainCommand
  \/ OrderCommand
  \/ RefundStep
  \/ Clean
  \/ \E t \in 0 .. MaxTime : Rollback(t)
  \/ Undo
  \/ EndRollback

(* What the commands can see of the data.  Records that no index names,    *)
(* and the free list, are left out, and so are the sessions.               *)
Data ==
  [accounts |-> [id \in UserPart!Visible |-> users[id]],
   trains   |-> trains,
   names    |-> ixId,
   stops    |-> ixStop,
   seats    |-> [r \in DOMAIN rideSeats |-> OrderPart!SeatsNow(r)],
   book     |-> [id \in ixUserId |-> orders[id]],
   pending  |-> pendingOrders]

Next ==
  /\ Step
  /\ hist' = [k \in 1 .. Len(log') |-> IF k <= Len(log) THEN hist[k] ELSE Data]

Spec == Init /\ [][Next]_<<vars, hist>>

-----------------------------------------------------------------------------
(* Properties                                                              *)

(* The ride of every visible order exists, which RefundTicket and the undo *)
(* visitors take for granted (order.cpp:139, 178, 198, 215), and its train *)
(* is released, known by its name and not deleted.  Ids of trains are used *)
(* again, and rides and trains disappear in rollbacks: the orders on them  *)
(* must have gone before.                                                  *)
OrdersHaveTheirRide ==
  \A id \in ixUserId :
    LET train == orders[id].ride[1]
    IN  /\ orders[id].ride \in DOMAIN rideSeats
        /\ train \in DOMAIN trains
        /\ trains[train].released
        /\ OnSale(train)

(* The seats of all rides on sale are accounted for, with rides that come  *)
(* and go.                                                                 *)
SeatsAccounted ==
  \A r \in DOMAIN rideSeats : \A e \in OrderPart!Edges(r) :
    /\ OrderPart!SeatsNow(r)[e] >= 0
    /\ OrderPart!SeatsNow(r)[e] + OrderPart!SeatsHeld(r, e) = SeatCount

(* Undoing an entry of any component brings back all the data as it was    *)
(* when the entry was written: no visitor disturbs another component, and  *)
(* none depends on an id or a record that was used again in between.       *)
RollbackRestoresAll == [][Len(log') = Len(log) - 1 /\ ~ Idle => Data' = hist[Len(log)]]_vars

=============================================================================
