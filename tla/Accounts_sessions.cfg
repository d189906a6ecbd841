SPECIFICATION Spec
CONSTANTS
  alice = alice
  bob = bob
  carol = carol
  Usernames = {alice, bob}
  Passwords = {"p"}
  Privileges = {3, 5, 10}
  MaxUsers = 3
  MaxLog = 4
  MaxTime = 2
SYMMETRY MCSymmetry
INVARIANTS TypeOK UsernamesUnique NoEscalation UndoFindsItsUser
PROPERTIES SessionsStayExact
