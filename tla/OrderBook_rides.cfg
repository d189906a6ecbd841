SPECIFICATION MCSpec
CONSTANTS
  alice = alice
  bob = bob
  wide = wide
  long = long
  short = short
  Users = {alice, bob}
  Rides = {wide, long, short}
  Segments <- MCSegments
  Capacity <- MCCapacity
  MaxOrders = 4
  MaxRequest = 2
  MaxTime = 2
INVARIANTS TypeOK SeatConservation NeverOversold PendingIndexExact UndoFindsItsOrder NoOneWaitsInVain
PROPERTIES UndoIsExact EveryChangeIsLogged ImplementsService CommandsComplete NoQueueJumping
