---------------------------- MODULE MCOrderBook ----------------------------
(***************************************************************************)
(* Small instances of OrderBook and OrderBookHistory.  The rides differ in *)
(* shape: wide has room for two on each of its two edges, long has two     *)
(* edges and one seat, short is a single edge with a single seat.          *)
(***************************************************************************)
EXTENDS OrderBookHistory

CONSTANTS alice, bob, wide, long, short

MCSegments == [r \in Rides |-> IF r = short THEN 1 ELSE 2]
MCCapacity == [r \in Rides |-> IF r = wide THEN 2 ELSE 1]

AliceBuys == bob \notin usersLoggedIn
Buys(rides) == \A id \in DOMAIN orders : orders[id].ride \in rides

(* Three orders on wide, with two moments of time, or two orders with      *)
(* three; four orders on long at one moment; three orders on two rides, or *)
(* two orders of two users, at one moment.                                 *)
OnWide == Buys({wide}) /\ AliceBuys /\ Len(orders) <= 3 /\ (Len(orders) <= 2 \/ now <= 1)
OnLong == Buys({long}) /\ AliceBuys /\ now = 0
OnBoth == Buys({long, short}) /\ (AliceBuys \/ Len(orders) <= 2) /\ Len(orders) <= 3 /\ now = 0

MCSpec == HInit /\ [][HNext /\ (OnWide \/ OnLong \/ OnBoth)']_hvars /\ Fairness

=============================================================================
