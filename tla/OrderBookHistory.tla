-------------------------- MODULE OrderBookHistory --------------------------
(***************************************************************************)
(* OrderBook with a history variable: next to every entry of the rollback  *)
(* log, the book as it was just before the entry was written.  The history *)
(* constrains nothing; it lets us say what a rollback has to restore.      *)
(***************************************************************************)
EXTENDS OrderBook

VARIABLE hist

hvars == <<vars, hist>>

(* What a rollback restores: the visible orders, the queue and the seats.  *)
BookView ==
  [book    |-> [id \in ixUserId |-> orders[id]],
   pending |-> pendingOrders,
   seats   |-> [r \in Rides |-> SeatsNow(r)]]

HInit == Init /\ hist = <<>>

HNext ==
  /\ Next
  /\ hist' = [k \in 1 .. Len(log') |-> IF k <= Len(log) THEN hist[k] ELSE BookView]

HSpec == HInit /\ [][HNext]_hvars

-----------------------------------------------------------------------------
(* Undoing an entry brings back the book as it was when the entry was      *)
(* written: every undo visitor is the exact inverse of the piece of the    *)
(* handler that logged the entry, whatever happened in between.            *)
UndoIsExact == [][Len(log') < Len(log) => BookView' = hist[Len(log)]]_hvars

(* Nothing changes behind the log's back: a step that changes the book     *)
(* writes an entry or undoes one.                                          *)
EveryChangeIsLogged == [][BookView' # BookView => Len(log') # Len(log)]_hvars

-----------------------------------------------------------------------------
(* The inductive invariant.  It says of every book of the past, and of the *)
(* present one, that it is in order, and that undoing the entries of the   *)
(* log one by one leads from each to the one before.                       *)

Past(k) == IF k <= Len(log) THEN hist[k] ELSE BookView

(* The view v after the entry content c is undone.                         *)
Undone(v, c) ==
  LET o == v.book[c.id]
      seatsWith(rem) == [v.seats EXCEPT ![o.ride] = rem]
      bookWith(status) == [v.book EXCEPT ![c.id].status = status]
  IN  CASE c.op = "BuyTicket" ->
             [book    |-> [i \in DOMAIN v.book \ {c.id} |-> v.book[i]],
              pending |-> v.pending \ {c.id},
              seats   |-> IF o.status = "pending" THEN v.seats
                          ELSE seatsWith(GiveBack(v.seats[o.ride], o))]
        [] c.op = "RefundTicket" ->
             [book    |-> bookWith(c.status),
              pending |-> IF c.status = "success" THEN v.pending ELSE v.pending \cup {c.id},
              seats   |-> IF c.status = "success"
                          THEN seatsWith(Take(v.seats[o.ride], o)) ELSE v.seats]
        [] c.op = "FulfillOrder" ->
             [book    |-> bookWith("pending"),
              pending |-> v.pending \cup {c.id},
              seats   |-> seatsWith(GiveBack(v.seats[o.ride], o))]

(* What the undo visitor of c takes for granted of the book it works on.   *)
CanUndo(v, c) ==
  /\ c.id \in DOMAIN v.book
  /\ c.op = "RefundTicket" => v.book[c.id].status = "refunded"
  /\ c.op = "FulfillOrder" => v.book[c.id].status = "success"
  /\ c.op = "BuyTicket" => v.book[c.id].status # "refunded"

InOrder(v) ==
  /\ \A id \in DOMAIN v.book : v.book[id] \in Order /\ HasTrip(v.book[id])
  /\ v.pending = {id \in DOMAIN v.book : v.book[id].status = "pending"}
  /\ DOMAIN v.seats = Rides
  /\ \A r \in Rides : v.seats[r] \in [Edges(r) -> Nat]

Quiescent(v) ==
  \A id \in v.pending : ~ Fits(v.book[id], v.seats[v.book[id].ride])

HistoryInOrder == \A k \in 1 .. Len(log) + 1 : InOrder(Past(k))

(* Every entry leads back to the book it was written on.                   *)
HistoryUndoes ==
  \A k \in 1 .. Len(log) :
    /\ hist[k] = Undone(Past(k + 1), log[k].content)
    /\ CanUndo(Past(k + 1), log[k].content)

(* A command starts on a book in which no one waits in vain; only the      *)
(* entries a refund writes for the orders it serves come in between, and   *)
(* they carry the timestamp of the entry before.                           *)
HistoryQuiescent ==
  \A k \in 1 .. Len(log) :
    IF log[k].content.op = "FulfillOrder"
    THEN k > 1 /\ log[k - 1].timestamp = log[k].timestamp
    ELSE Quiescent(hist[k])

PresentQuiescent ==
  /\ Idle => Quiescent(BookView)
  /\ RollingBack => Quiescent(BookView) \/ HasEntryToUndo
  /\ Refunding =>
       /\ log # <<>>
       /\ Newest.timestamp = now
       /\ \A id \in call.todo : orders[id].ride = call.ride
       /\ \A id \in pendingOrders :
            id \in call.todo \/ ~ Fits(orders[id], SeatsNow(orders[id].ride))

IInv ==
  /\ TypeOK
  /\ HistoryInOrder
  /\ HistoryUndoes
  /\ HistoryQuiescent
  /\ PresentQuiescent

-----------------------------------------------------------------------------
(* The refinement mapping.  The book as of time t is the one before the    *)
(* first entry that is newer.  A refund in progress has not happened yet;  *)
(* a rollback in progress has already forgotten what it will undo.         *)

BookAt(t) ==
  LET newer == {k \in DOMAIN log : log[k].timestamp > t}
      began == {k \in DOMAIN log : log[k].content.op = "RefundTicket"}
  IN  IF newer # {} THEN hist[Min(newer)].book
      ELSE IF Refunding THEN hist[Max(began)].book
      ELSE BookView.book

AsOf ==
  [t \in 0 .. MaxTime |->
     BookAt(IF RollingBack /\ t > call.timestamp THEN call.timestamp ELSE t)]

Service == INSTANCE TicketService WITH asOf <- AsOf

(* The order book, with its log, its indices and its counters of seats,    *)
(* behaves as the simple service.                                          *)
ImplementsService == Service!Spec

=============================================================================
