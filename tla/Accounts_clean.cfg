SPECIFICATION Spec
CONSTANTS
  alice = alice
  bob = bob
  carol = carol
  Usernames = {alice, bob}
  Passwords = {"p"}
  Privileges = {3, 10}
  MaxUsers = 2
  MaxLog = 2
  MaxTime = 1
INVARIANT SessionsAreOfUsers
