SPECIFICATION Spec
CONSTANTS
  alice = alice
  bob = bob
  G1 = G1
  G2 = G2
  north = north
  south = south
  Usernames = {alice, bob}
  Passwords = {"p"}
  Privileges = {3}
  MaxUsers = 2
  TrainNames = {G1, G2}
  Lines <- MCLines
  MaxTrains = 2
  EdgeCount = 1
  SeatCount = 1
  MaxOrders = 3
  MaxRequest = 1
  MaxLog = 5
  MaxTime = 1
SYMMETRY MCSymmetry
INVARIANTS OrdersHaveTheirRide SeatsAccounted
PROPERTIES RollbackRestoresAll
