--------------------------- MODULE TicketService ---------------------------
(***************************************************************************)
(* What the order book promises, without its files, indices, counters of   *)
(* seats and log: a book of orders for every moment of the past.  asOf[t]  *)
(* is the book as it stood when the last command with a timestamp <= t had *)
(* been run, asOf[MaxTime] the present one.  A command changes the present *)
(* in one step; ROLLBACK brings a past book back and forgets what came     *)
(* after it.                                                               *)
(***************************************************************************)
EXTENDS Integers, FiniteSetsExt

CONSTANTS Users, Rides, Segments, Capacity, MaxOrders, MaxRequest, MaxTime

VARIABLES now, asOf

vars == <<now, asOf>>

Times == 0 .. MaxTime
Present == asOf[MaxTime]

Uses(o, r, e) == o.ride = r /\ o.from <= e /\ e < o.to

(* The free seats follow from the orders.                                  *)
Free(book, r, e) ==
  Capacity[r] - MapThenSumSet(LAMBDA id : book[id].seats,
                              {id \in DOMAIN book : /\ book[id].status = "success"
                                                    /\ Uses(book[id], r, e)})

CanServe(book, o) == \A e \in o.from .. (o.to - 1) : Free(book, o.ride, e) >= o.seats

Record(book) == asOf' = [t \in Times |-> IF t >= now THEN book ELSE asOf[t]]

Requests ==
  UNION {[user : Users, ride : {r}, from : 0 .. Segments[r], to : 0 .. Segments[r],
          seats : 1 .. MaxRequest, status : {"success"}] : r \in Rides}

-----------------------------------------------------------------------------
Init ==
  /\ now = 0
  /\ asOf = [t \in Times |-> <<>>]

Tick(t) ==
  /\ t >= now
  /\ now' = t
  /\ UNCHANGED asOf

(* An order is served at once if it can be, and waits otherwise.           *)
Buy(o, id) ==
  /\ o.from < o.to
  /\ o.seats <= Capacity[o.ride]
  /\ \A other \in DOMAIN Present : other < id
  /\ LET status == IF CanServe(Present, o) THEN "success" ELSE "pending"
     IN  Record([i \in DOMAIN Present \cup {id} |->
                   IF i = id THEN [o EXCEPT !.status = status] ELSE Present[i]])
  /\ UNCHANGED now

WithServed(book, S) ==
  [i \in DOMAIN book |-> IF i \in S THEN [book[i] EXCEPT !.status = "success"] ELSE book[i]]

(* Seats that come back go to the orders waiting for that ride, first come *)
(* first served, where an order too large for what is left is passed over. *)
Cancel(id) ==
  LET r       == Present[id].ride
      without == [Present EXCEPT ![id].status = "refunded"]
      queue   == {i \in DOMAIN without : without[i].ride = r /\ without[i].status = "pending"}
      served  == {S \in SUBSET queue : \A i \in queue :
                    i \in S <=> CanServe(WithServed(without, {j \in S : j < i}), without[i])}
  IN  /\ Present[id].status # "refunded"
      /\ IF Present[id].status = "pending"
         THEN Record(without)
         ELSE \E S \in served : Record(WithServed(without, S))
      /\ UNCHANGED now

RollbackTo(t) ==
  /\ t <= now
  /\ asOf' = [s \in Times |-> IF s >= t THEN asOf[t] ELSE asOf[s]]
  /\ UNCHANGED now

Next ==
  \/ \E t \in Times : Tick(t) \/ RollbackTo(t)
  \/ \E o \in Requests, id \in 1 .. MaxOrders : Buy(o, id)
  \/ \E id \in DOMAIN Present : Cancel(id)

Spec == Init /\ [][Next]_vars

=============================================================================
