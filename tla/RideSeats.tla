----------------------------- MODULE RideSeats -----------------------------
(***************************************************************************)
(* The seat arithmetic of a ride (train.cpp, RideSeatsBase).  A ride of a  *)
(* train with n + 1 stops has n edges, numbered from 0 as in the code, and *)
(* `rem' maps every edge to the seats still free on it.  A trip from stop  *)
(* `from' to stop `to' uses the edges from .. to - 1.                      *)
(***************************************************************************)
EXTENDS Integers, FiniteSetsExt

Trip(from, to) == from .. (to - 1)

(* RideSeatsBase::rangeAdd: adds dx to every edge of the trip.             *)
RangeAdd(rem, dx, from, to) ==
  [e \in DOMAIN rem |-> IF e \in Trip(from, to) THEN rem[e] + dx ELSE rem[e]]

(* RideSeatsBase::ticketsAvailable: the minimum over the edges of the      *)
(* trip.  The running minimum starts from edge `from'.                     *)
TicketsAvailable(rem, from, to) == Min({rem[e] : e \in {from} \cup Trip(from, to)})

=============================================================================
