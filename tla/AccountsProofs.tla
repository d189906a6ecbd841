--------------------------- MODULE AccountsProofs ---------------------------
(***************************************************************************)
(* The properties of Accounts for any names, privileges and bounds.        *)
(***************************************************************************)
EXTENDS Accounts, FiniteSetTheorems, SequenceTheorems, TLAPS

-----------------------------------------------------------------------------
(* The inductive invariant.                                                *)

(* No privilege above that of the first user gets into a file.            *)
Levels == {p \in Privileges \cup {kDefaultPrivilege} : p <= kDefaultPrivilege}

Content ==
  [op : {"AddUser"}, id : Nat]
    \cup [op : {"ModifyProfile"}, id : Nat, password : Optional(Passwords), privilege : Optional(Levels)]

Entry == [timestamp : Int, content : Content]

UsersOK ==
  /\ users \in Seq(User)
  /\ \A id \in DOMAIN users : users[id].privilege <= kDefaultPrivilege

IndexOK ==
  /\ ixUsername \subseteq {<<users[id].username, id>> : id \in DOMAIN users}
  /\ UsernamesUnique

SessionsOK ==
  /\ DOMAIN usersLoggedIn \subseteq Usernames
  /\ \A name \in DOMAIN usersLoggedIn :
       usersLoggedIn[name] \in Levels /\ usersLoggedIn[name] <= kDefaultPrivilege
  /\ RollingBack => usersLoggedIn = <<>>

(* The users of the entries are in the index, and an entry of AddUser is   *)
(* the first about its user: undoing it takes nobody from the others.      *)
LogOK ==
  /\ now \in Int
  /\ log \in Seq(Entry)
  /\ \A k \in DOMAIN log : log[k].content.id \in Visible
  /\ \A j, k \in DOMAIN log :
       j < k /\ log[k].content.op = "AddUser" => log[j].content.id # log[k].content.id

(* The users who have the privilege of the first one, or may get it back.  *)
MayBeFirst(id) ==
  /\ id \in Visible
  /\ \/ users[id].privilege = kDefaultPrivilege
     \/ \E k \in DOMAIN log :
          /\ log[k].content.op = "ModifyProfile"
          /\ log[k].content.id = id
          /\ kDefaultPrivilege \in log[k].content.privilege

OneFirst == \A id, other \in DOMAIN users : MayBeFirst(id) /\ MayBeFirst(other) => id = other

AccountsInv == UsersOK /\ IndexOK /\ SessionsOK /\ LogOK /\ OneFirst

-----------------------------------------------------------------------------
(* Helpers.                                                                *)

LEMMA Constants ==
  /\ kDefaultPrivilege = 10
  /\ kDefaultPrivilege \in Levels
  /\ Levels \subseteq Int
  /\ \A p \in Levels : p <= kDefaultPrivilege
  /\ Privileges \subseteq Int
  /\ \A p \in Privileges : p < kDefaultPrivilege => p \in Levels
<1>1. kDefaultPrivilege = 10 /\ Privileges \subseteq Int
  BY AccountsAssumption DEF kDefaultPrivilege
<1>2. \A p : p \in Levels <=> p \in Privileges \cup {kDefaultPrivilege} /\ p <= kDefaultPrivilege
  BY DEF Levels
<1>3. kDefaultPrivilege \in Levels
  BY <1>1, <1>2
<1>4. ASSUME NEW p \in Levels PROVE p \in Int /\ p <= kDefaultPrivilege
  <2>1. p \in Privileges \cup {kDefaultPrivilege} /\ p <= kDefaultPrivilege
    BY <1>2
  <2>2. p \in Int
    BY <1>1, <2>1
  <2> QED
    BY <2>1, <2>2
<1>5. ASSUME NEW p \in Privileges, p < kDefaultPrivilege PROVE p \in Levels
  BY <1>1, <1>2, <1>5
<1> QED
  BY <1>1, <1>3, <1>4, <1>5

LEMMA GivenType ==
  ASSUME NEW S, NEW field \in Optional(S), NEW old \in S
  PROVE  Given(field, old) \in S
BY DEF Optional, Given

LEMMA ReplacedType ==
  ASSUME NEW S, NEW field, NEW old \in S
  PROVE  Replaced(field, old) \in Optional(S)
BY DEF Optional, Replaced

LEMMA LogAppended ==
  ASSUME LogOK, NEW c \in Content, Log(c)
  PROVE  /\ log' \in Seq(Entry)
         /\ Len(log) + 1 \notin DOMAIN log
         /\ DOMAIN log' = DOMAIN log \cup {Len(log) + 1}
         /\ \A k \in DOMAIN log : log'[k] = log[k] /\ k < Len(log) + 1 /\ k \in Nat
         /\ log'[Len(log) + 1].content = c
         /\ Len(log) \in Nat
<1>1. [timestamp |-> now, content |-> c] \in Entry /\ log \in Seq(Entry)
  BY DEF LogOK, Entry
<1>2. log' = Append(log, [timestamp |-> now, content |-> c])
  BY DEF Log
<1>3. Len(log) \in Nat /\ DOMAIN log = 1 .. Len(log)
  BY <1>1
<1>4. log' \in Seq(Entry) /\ Len(log') = Len(log) + 1
  BY <1>1, <1>2
<1>5. DOMAIN log' = 1 .. Len(log) + 1
  BY <1>4
<1>6. /\ \A k \in 1 .. Len(log) : log'[k] = log[k]
      /\ log'[Len(log) + 1] = [timestamp |-> now, content |-> c]
  BY <1>1, <1>2, <1>3
<1> QED
  BY <1>3, <1>4, <1>5, <1>6

LEMMA LogShortened ==
  ASSUME LogOK, log # <<>>, DestroyEntry
  PROVE  /\ log' \in Seq(Entry)
         /\ Len(log) \in DOMAIN log
         /\ DOMAIN log' = DOMAIN log \ {Len(log)}
         /\ \A k \in DOMAIN log' : log'[k] = log[k] /\ k < Len(log) /\ k \in Nat
         /\ Newest \in Entry
<1>1. log \in Seq(Entry) /\ Len(log) \in Nat /\ Len(log) # 0 /\ DOMAIN log = 1 .. Len(log)
  BY DEF LogOK
<1>2. log' = SubSeq(log, 1, Len(log) - 1)
  BY DEF DestroyEntry
<1>3. log' \in Seq(Entry) /\ Len(log') = Len(log) - 1 /\ \A k \in 1 .. Len(log) - 1 : log'[k] = log[k]
  BY <1>1, <1>2
<1>4. DOMAIN log' = 1 .. Len(log) - 1
  BY <1>1, <1>3
<1>5. Len(log) \in DOMAIN log /\ log[Len(log)] \in Entry
  BY <1>1
<1> QED
  BY <1>1, <1>3, <1>4, <1>5 DEF Newest

(* A record of the file.                                                   *)
LEMMA UserType ==
  ASSUME UsersOK, NEW id \in DOMAIN users
  PROVE  /\ users[id] \in User
         /\ users[id].username \in Usernames
         /\ users[id].password \in Passwords
         /\ users[id].privilege \in Levels
         /\ users[id].privilege <= kDefaultPrivilege
<1>1. users[id] \in User /\ users[id].privilege <= kDefaultPrivilege
  BY DEF UsersOK
<1> QED
  BY <1>1 DEF User, Levels

(* The password and the privilege of one record change.                    *)
LEMMA RecordChanged ==
  ASSUME UsersOK, NEW n \in DOMAIN users, NEW password \in Optional(Passwords), NEW privilege,
         Given(password, users[n].password) \in Passwords,
         Given(privilege, users[n].privilege) \in Levels,
         users' = [users EXCEPT ![n].password = Given(password, @), ![n].privilege = Given(privilege, @)]
  PROVE  /\ users' \in Seq(User)
         /\ DOMAIN users' = DOMAIN users
         /\ \A id \in DOMAIN users : users'[id].username = users[id].username
         /\ \A id \in DOMAIN users : id # n => users'[id] = users[id]
         /\ users'[n].privilege = Given(privilege, users[n].privilege)
<1> DEFINE u == [username |-> users[n].username, password |-> Given(password, users[n].password),
                 privilege |-> Given(privilege, users[n].privilege)]
<1>1. users[n] \in User /\ users \in Seq(User)
  BY UserType DEF UsersOK
<1>2. u \in User
  BY <1>1 DEF User, Levels
<1>3. users[n] = [username |-> users[n].username, password |-> users[n].password,
                  privilege |-> users[n].privilege]
  BY <1>1 DEF User
<1>4. users' \in Seq(User) /\ DOMAIN users' = DOMAIN users /\ users'[n] = u
      /\ \A id \in DOMAIN users : id # n => users'[id] = users[id]
  <2>1. DOMAIN users' = DOMAIN users /\ \A id \in DOMAIN users : id # n => users'[id] = users[id]
    OBVIOUS
  <2>2. users'[n] = [users[n] EXCEPT !.password = Given(password, @), !.privilege = Given(privilege, @)]
    OBVIOUS
  <2>3. users'[n] = u
    BY <1>3, <2>2
  <2>4. PICK k \in Nat : users \in [1 .. k -> User]
    BY <1>1
  <2>5. DOMAIN users = 1 .. k /\ \A id \in 1 .. k : users[id] \in User
    BY <2>4
  <2>6. users' = [id \in 1 .. k |-> IF id = n THEN u ELSE users[id]]
    BY <2>1, <2>3, <2>5
  <2>7. users' \in Seq(User)
    <3> DEFINE f == [id \in 1 .. k |-> IF id = n THEN u ELSE users[id]]
    <3>1. \A id \in 1 .. k : f[id] \in User
      BY <1>2, <2>5
    <3>2. f \in [1 .. k -> User]
      BY <3>1
    <3>3. f \in Seq(User)
      BY <3>2, SeqDef
    <3> QED
      BY <2>6, <3>3
  <2> QED
    BY <2>1, <2>3, <2>7
<1> HIDE DEF u
<1>5. u.username = users[n].username /\ u.privilege = Given(privilege, users[n].privilege)
  BY DEF u
<1> QED
  BY <1>4, <1>5

-----------------------------------------------------------------------------
(* The invariant is inductive.                                             *)

LEMMA AccountsStart == Init => AccountsInv
<1> SUFFICES ASSUME Init PROVE AccountsInv
  OBVIOUS
<1>1. users = <<>> /\ log = <<>> /\ ixUsername = {} /\ usersLoggedIn = <<>> /\ now = 0
  BY DEF Init
<1>2. DOMAIN users = {} /\ DOMAIN log = {} /\ DOMAIN usersLoggedIn = {}
  BY <1>1
<1>3. UsersOK /\ IndexOK /\ SessionsOK
  BY <1>1, <1>2 DEF UsersOK, IndexOK, UsernamesUnique, Visible, SessionsOK
<1>4. LogOK /\ OneFirst
  BY <1>1, <1>2 DEF LogOK, OneFirst
<1> QED
  BY <1>3, <1>4 DEF AccountsInv

LEMMA RecordsStay ==
  ASSUME AccountsInv, UNCHANGED <<users, ixUsername, log>>, now' \in Int, SessionsOK'
  PROVE  AccountsInv'
<1>1. Visible' = Visible
  BY DEF Visible, Finds
<1>2. \A id : MayBeFirst(id)' <=> MayBeFirst(id)
  BY <1>1 DEF MayBeFirst
<1>3. UsersOK' /\ IndexOK'
  BY <1>1 DEF AccountsInv, UsersOK, IndexOK, UsernamesUnique
<1>4. LogOK' /\ OneFirst'
  BY <1>1, <1>2 DEF AccountsInv, LogOK, OneFirst
<1> QED
  BY <1>3, <1>4 DEF AccountsInv

LEMMA SaveUserStep ==
  ASSUME AccountsInv, NEW name \in Usernames, NEW password \in Passwords, NEW privilege \in Levels,
         privilege <= kDefaultPrivilege, ~ Has(name),
         privilege = kDefaultPrivilege => ixUsername = {},
         SaveUser(name, password, privilege)
  PROVE  AccountsInv'
<1> DEFINE u == [username |-> name, password |-> password, privilege |-> privilege]
<1>1. PICK n \in Nat : n = Len(users) + 1
  BY DEF AccountsInv, UsersOK
<1>2. /\ users' = Append(users, u)
      /\ ixUsername' = ixUsername \cup {<<name, n>>}
      /\ Log([op |-> "AddUser", id |-> n])
      /\ UNCHANGED <<now, call, usersLoggedIn>>
  BY <1>1 DEF SaveUser
<1>3. u \in User /\ users \in Seq(User)
  BY DEF User, Levels, AccountsInv, UsersOK
<1>4. /\ users' \in Seq(User)
      /\ n \notin DOMAIN users
      /\ DOMAIN users' = DOMAIN users \cup {n}
      /\ \A id \in DOMAIN users : users'[id] = users[id]
      /\ users'[n] = u
  BY <1>1, <1>2, <1>3
<1>5. Visible' = Visible \cup {n}
  <2>1. ASSUME NEW id \in DOMAIN users PROVE id \in Visible' <=> id \in Visible
    BY <1>2, <1>4 DEF Visible, Finds
  <2>2. n \in Visible' /\ Visible' \subseteq DOMAIN users' /\ Visible \subseteq DOMAIN users
    BY <1>2, <1>4 DEF Visible, Finds
  <2> QED
    BY <1>4, <2>1, <2>2
<1>6. UsersOK'
  BY <1>4 DEF AccountsInv, UsersOK
<1>7. IndexOK'
  <2>1. ixUsername' \subseteq {<<users'[id].username, id>> : id \in DOMAIN users'}
    BY <1>2, <1>4 DEF AccountsInv, IndexOK
  <2>2. \A id \in Visible : users[id].username # name
    BY DEF Visible, Has
  <2>3. \A id \in Visible : id \in DOMAIN users
    BY DEF Visible
  <2>4. UsernamesUnique'
    BY <1>4, <1>5, <2>2, <2>3 DEF AccountsInv, IndexOK, UsernamesUnique
  <2> QED
    BY <2>1, <2>4 DEF IndexOK
<1>8. SessionsOK'
  BY <1>2 DEF AccountsInv, SessionsOK, RollingBack
<1> DEFINE c == [op |-> "AddUser", id |-> n]
<1>9. c \in Content /\ c.op = "AddUser" /\ c.id = n /\ Log(c) /\ LogOK
  BY <1>2 DEF Content, AccountsInv
<1> HIDE DEF c
<1>10. PICK m \in Nat : m = Len(log) + 1
  BY DEF AccountsInv, LogOK
<1>11. /\ log' \in Seq(Entry)
       /\ m \notin DOMAIN log
       /\ DOMAIN log' = DOMAIN log \cup {m}
       /\ \A k \in DOMAIN log : log'[k] = log[k] /\ k < m /\ k \in Nat
       /\ log'[m].content = c
       /\ m \in Nat
  BY <1>9, <1>10, LogAppended
<1>12. \A k \in DOMAIN log : log[k].content.id \in Visible /\ log[k].content.id # n
  BY <1>4 DEF AccountsInv, LogOK, Visible
<1>13. LogOK'
  <2>1. now' \in Int /\ \A k \in DOMAIN log' : log'[k].content.id \in Visible'
    BY <1>2, <1>5, <1>9, <1>11, <1>12 DEF AccountsInv, LogOK
  <2>2. ASSUME NEW j \in DOMAIN log', NEW k \in DOMAIN log', j < k, log'[k].content.op = "AddUser"
        PROVE  log'[j].content.id # log'[k].content.id
    <3>1. j \in DOMAIN log
      BY <1>11, <2>2
    <3>2. CASE k = m
      BY <1>9, <1>11, <1>12, <3>1, <3>2
    <3>3. CASE k \in DOMAIN log
      BY <1>11, <2>2, <3>1, <3>3 DEF AccountsInv, LogOK
    <3> QED
      BY <1>11, <3>2, <3>3
  <2> QED
    BY <1>11, <2>1, <2>2 DEF LogOK
<1>14. OneFirst'
  <2>1. ASSUME NEW id \in DOMAIN users, MayBeFirst(id)' PROVE MayBeFirst(id)
    BY <1>4, <1>5, <1>9, <1>11, <2>1 DEF MayBeFirst
  <2>2. ASSUME MayBeFirst(n)' PROVE ixUsername = {}
    BY <1>4, <1>9, <1>11, <1>12, <2>2 DEF MayBeFirst
  <2>3. ASSUME NEW id \in DOMAIN users, MayBeFirst(id)' PROVE ixUsername # {}
    BY <2>1, <2>3 DEF MayBeFirst, Visible, Finds
  <2> QED
    BY <1>4, <2>1, <2>2, <2>3 DEF AccountsInv, OneFirst
<1> QED
  BY <1>6, <1>7, <1>8, <1>13, <1>14 DEF AccountsInv

(* A record keeps its name; its privilege stays, or becomes less than that *)
(* of the user who asks for it.                                            *)
LEMMA ModifyStep ==
  ASSUME AccountsInv, NEW current \in Usernames, NEW n \in DOMAIN users,
         NEW password \in Optional(Passwords), NEW privilege \in Optional(Privileges),
         ModifyProfile(current, n, password, privilege)
  PROVE  AccountsInv'
<1> DEFINE name == users[n].username
           c == [op |-> "ModifyProfile", id |-> n, password |-> Replaced(password, users[n].password),
                 privilege |-> Replaced(privilege, users[n].privilege)]
<1>1. /\ Idle
      /\ users' = [users EXCEPT ![n].password = Given(password, @), ![n].privilege = Given(privilege, @)]
      /\ usersLoggedIn' = [m \in DOMAIN usersLoggedIn |->
                              IF m = name THEN Given(privilege, usersLoggedIn[m]) ELSE usersLoggedIn[m]]
      /\ Log(c)
      /\ UNCHANGED <<now, call, ixUsername>>
      /\ IsLoggedIn(current)
      /\ \A p \in privilege : p < PrivilegeOf(current)
      /\ Finds(name, n)
  BY DEF ModifyProfile, Authorized
<1>2. UsersOK /\ IndexOK /\ SessionsOK /\ LogOK /\ OneFirst
  BY DEF AccountsInv
<1>3. \A p \in privilege : p < kDefaultPrivilege
  <2>1. PrivilegeOf(current) \in Int /\ PrivilegeOf(current) <= kDefaultPrivilege
    BY <1>1, <1>2, Constants DEF SessionsOK, IsLoggedIn, PrivilegeOf
  <2>2. privilege \subseteq Int
    BY Constants DEF Optional
  <2> QED
    BY <1>1, <2>1, <2>2, Constants
<1>4. privilege \in Optional(Levels) /\ \A p \in privilege : p < kDefaultPrivilege
  BY <1>3, Constants DEF Optional
<1>5. /\ Given(password, users[n].password) \in Passwords
      /\ Given(privilege, users[n].privilege) \in Levels
      /\ Given(privilege, users[n].privilege) <= kDefaultPrivilege
      /\ Given(privilege, users[n].privilege) = kDefaultPrivilege => users[n].privilege = kDefaultPrivilege
  <2>1. users[n].password \in Passwords /\ users[n].privilege \in Levels
        /\ users[n].privilege <= kDefaultPrivilege
    BY <1>2, UserType
  <2>2. Given(password, users[n].password) \in Passwords /\ Given(privilege, users[n].privilege) \in Levels
    BY <1>4, <2>1, GivenType
  <2>3. CASE privilege = {}
    BY <2>1, <2>2, <2>3 DEF Given
  <2>4. CASE privilege # {}
    <3>1. Given(privilege, users[n].privilege) < kDefaultPrivilege
      BY <1>4, <2>4 DEF Given
    <3>2. PICK x \in Int : x = Given(privilege, users[n].privilege)
      BY <2>2, Constants
    <3> QED
      BY <2>2, <3>1, <3>2, Constants
  <2> QED
    BY <2>3, <2>4
<1>6. /\ users' \in Seq(User)
      /\ DOMAIN users' = DOMAIN users
      /\ \A id \in DOMAIN users : users'[id].username = users[id].username
      /\ \A id \in DOMAIN users : id # n => users'[id] = users[id]
      /\ users'[n].privilege = Given(privilege, users[n].privilege)
  BY <1>1, <1>2, <1>5, RecordChanged
<1>7. Visible' = Visible
  <2>1. ASSUME NEW id \in DOMAIN users
        PROVE  <<users'[id].username, id>> \in ixUsername' <=> <<users[id].username, id>> \in ixUsername
    <3>1. users'[id].username = users[id].username /\ ixUsername' = ixUsername
      BY <1>1, <1>6
    <3> QED
      BY <3>1
  <2> QED
    BY <1>6, <2>1 DEF Visible, Finds
<1>8. UsersOK'
  BY <1>2, <1>5, <1>6 DEF UsersOK
<1>9. IndexOK'
  <2>1. {<<users'[id].username, id>> : id \in DOMAIN users'}
          = {<<users[id].username, id>> : id \in DOMAIN users}
    BY <1>6
  <2>2. UsernamesUnique'
    BY <1>2, <1>6, <1>7 DEF IndexOK, UsernamesUnique, Visible
  <2> QED
    BY <1>1, <1>2, <2>1, <2>2 DEF IndexOK
<1>10. SessionsOK'
  <2>1. DOMAIN usersLoggedIn' = DOMAIN usersLoggedIn /\ call' # [cmd |-> "rollback"] /\ ~ RollingBack'
    BY <1>1 DEF Idle, NoCall, RollingBack
  <2>2. ASSUME NEW m \in DOMAIN usersLoggedIn
        PROVE  usersLoggedIn'[m] \in Levels /\ usersLoggedIn'[m] <= kDefaultPrivilege
    <3>1. usersLoggedIn[m] \in Levels /\ usersLoggedIn[m] <= kDefaultPrivilege
      BY <1>2 DEF SessionsOK
    <3>2. Given(privilege, usersLoggedIn[m]) \in Levels
      BY <1>4, <3>1, GivenType
    <3>3. Given(privilege, usersLoggedIn[m]) <= kDefaultPrivilege
      BY <3>2, Constants
    <3> QED
      BY <1>1, <3>1, <3>2, <3>3
  <2> QED
    BY <1>2, <2>1, <2>2 DEF SessionsOK
<1>11. c \in Content /\ c.op = "ModifyProfile" /\ c.id = n /\ Log(c)
       /\ c.privilege = Replaced(privilege, users[n].privilege)
  <2>1. users[n].password \in Passwords /\ users[n].privilege \in Levels /\ n \in Nat
    BY <1>2, UserType DEF UsersOK
  <2>2. Replaced(password, users[n].password) \in Optional(Passwords)
        /\ Replaced(privilege, users[n].privilege) \in Optional(Levels)
    BY <2>1, ReplacedType
  <2> QED
    BY <1>1, <2>1, <2>2 DEF Content
<1> HIDE DEF c
<1>12. PICK m \in Nat : m = Len(log) + 1
  BY DEF AccountsInv, LogOK
<1>13. /\ log' \in Seq(Entry)
       /\ m \notin DOMAIN log
       /\ DOMAIN log' = DOMAIN log \cup {m}
       /\ \A k \in DOMAIN log : log'[k] = log[k] /\ k < m /\ k \in Nat
       /\ log'[m].content = c
       /\ m \in Nat
  BY <1>2, <1>11, <1>12, LogAppended
<1>14. n \in Visible
  BY <1>1 DEF Visible
<1>15. LogOK'
  <2>1. now' \in Int /\ \A k \in DOMAIN log' : log'[k].content.id \in Visible'
    BY <1>1, <1>2, <1>7, <1>11, <1>13, <1>14 DEF LogOK
  <2>2. ASSUME NEW j \in DOMAIN log', NEW k \in DOMAIN log', j < k, log'[k].content.op = "AddUser"
        PROVE  log'[j].content.id # log'[k].content.id
    <3>1. k \in DOMAIN log
      BY <1>11, <1>13, <2>2
    <3>2. j \in DOMAIN log
      BY <1>13, <2>2, <3>1
    <3> QED
      BY <1>2, <1>13, <2>2, <3>1, <3>2 DEF LogOK
  <2> QED
    BY <1>13, <2>1, <2>2 DEF LogOK
<1>16. OneFirst'
  <2>1. ASSUME NEW id \in DOMAIN users, MayBeFirst(id)' PROVE MayBeFirst(id)
    <3>1. id \in Visible
      BY <1>7, <2>1 DEF MayBeFirst
    <3>2. CASE users'[id].privilege = kDefaultPrivilege
      BY <1>5, <1>6, <3>1, <3>2 DEF MayBeFirst
    <3>3. ASSUME NEW k \in DOMAIN log', log'[k].content.op = "ModifyProfile",
                 log'[k].content.id = id, kDefaultPrivilege \in log'[k].content.privilege
          PROVE  MayBeFirst(id)
      <4>1. CASE k = m
        BY <1>11, <1>13, <3>1, <3>3, <4>1 DEF MayBeFirst, Replaced
      <4>2. CASE k \in DOMAIN log
        BY <1>13, <3>1, <3>3, <4>2 DEF MayBeFirst
      <4> QED
        BY <1>13, <4>1, <4>2
    <3> QED
      BY <2>1, <3>2, <3>3 DEF MayBeFirst
  <2> QED
    BY <1>2, <1>6, <2>1 DEF OneFirst
<1> QED
  BY <1>8, <1>9, <1>10, <1>15, <1>16 DEF AccountsInv

LEMMA CleanStep ==
  ASSUME AccountsInv, Clean
  PROVE  AccountsInv'
<1>1. users' = <<>> /\ log' = <<>> /\ ixUsername' = {} /\ UNCHANGED <<now, call, usersLoggedIn>>
  BY DEF Clean
<1>2. DOMAIN users' = {} /\ DOMAIN log' = {}
  BY <1>1
<1>3. UsersOK' /\ IndexOK'
  BY <1>1, <1>2 DEF UsersOK, IndexOK, UsernamesUnique, Visible
<1>4. SessionsOK'
  BY <1>1 DEF AccountsInv, SessionsOK, RollingBack
<1>5. LogOK' /\ OneFirst'
  BY <1>1, <1>2 DEF AccountsInv, LogOK, OneFirst
<1> QED
  BY <1>3, <1>4, <1>5 DEF AccountsInv

(* Taking a user out of the index, no other entry of the log is about him. *)
LEMMA UndoAddUserStep ==
  ASSUME AccountsInv, UndoAddUser
  PROVE  AccountsInv'
<1>1. UsersOK /\ IndexOK /\ SessionsOK /\ LogOK /\ OneFirst
  BY DEF AccountsInv
<1>2. /\ log # <<>> /\ DestroyEntry /\ Newest.content.op = "AddUser"
      /\ ixUsername' = ixUsername \ {<<users[Newest.content.id].username, Newest.content.id>>}
      /\ UNCHANGED <<now, call, usersLoggedIn, users>>
  BY DEF UndoAddUser, Undoes, HasEntryToUndo
<1>3. PICK m \in Nat : m = Len(log)
  BY <1>1 DEF LogOK
<1>4. /\ log' \in Seq(Entry)
      /\ m \in DOMAIN log
      /\ DOMAIN log' = DOMAIN log \ {m}
      /\ \A k \in DOMAIN log' : log'[k] = log[k] /\ k < m /\ k \in Nat
  BY <1>1, <1>2, <1>3, LogShortened
<1>5. PICK n : n = log[m].content.id
  OBVIOUS
<1>6. log[m].content.op = "AddUser" /\ ixUsername' = ixUsername \ {<<users[n].username, n>>}
  BY <1>2, <1>3, <1>5 DEF Newest
<1>7. n \in Visible
  BY <1>1, <1>4, <1>5 DEF LogOK
<1>8. Visible' = Visible \ {n}
  <2>1. \A id \in DOMAIN users : <<users[id].username, id>> \in ixUsername'
                                  <=> <<users[id].username, id>> \in ixUsername /\ id # n
    BY <1>6
  <2> QED
    BY <1>2, <2>1 DEF Visible, Finds
<1>9. UsersOK'
  BY <1>1, <1>2 DEF UsersOK
<1>10. IndexOK'
  BY <1>1, <1>2, <1>6, <1>8 DEF IndexOK, UsernamesUnique
<1>11. SessionsOK'
  BY <1>1, <1>2 DEF SessionsOK, RollingBack
<1>12. LogOK'
  <2>1. \A k \in DOMAIN log' : log[k].content.id # n
    BY <1>1, <1>4, <1>5, <1>6 DEF LogOK
  <2>2. now' \in Int /\ \A k \in DOMAIN log' : log'[k].content.id \in Visible'
    BY <1>1, <1>2, <1>4, <1>8, <2>1 DEF LogOK
  <2>3. \A j, k \in DOMAIN log' :
          j < k /\ log'[k].content.op = "AddUser" => log'[j].content.id # log'[k].content.id
    BY <1>1, <1>4 DEF LogOK
  <2> QED
    BY <1>4, <2>2, <2>3 DEF LogOK
<1>13. OneFirst'
  <2>1. ASSUME NEW id \in DOMAIN users, MayBeFirst(id)' PROVE MayBeFirst(id)
    BY <1>2, <1>4, <1>8, <2>1 DEF MayBeFirst
  <2> QED
    BY <1>1, <1>2, <2>1 DEF OneFirst
<1> QED
  BY <1>9, <1>10, <1>11, <1>12, <1>13 DEF AccountsInv

(* The privilege of the first user comes back to whom it was taken from.   *)
LEMMA UndoModifyProfileStep ==
  ASSUME AccountsInv, UndoModifyProfile
  PROVE  AccountsInv'
<1>1. UsersOK /\ IndexOK /\ SessionsOK /\ LogOK /\ OneFirst
  BY DEF AccountsInv
<1>2. /\ log # <<>> /\ DestroyEntry /\ Newest.content.op = "ModifyProfile"
      /\ users' = [users EXCEPT ![Newest.content.id].password = Given(Newest.content.password, @),
                                ![Newest.content.id].privilege = Given(Newest.content.privilege, @)]
      /\ UNCHANGED <<now, call, usersLoggedIn, ixUsername>>
  BY DEF UndoModifyProfile, Undoes, HasEntryToUndo
<1>3. PICK m \in Nat : m = Len(log)
  BY <1>1 DEF LogOK
<1>4. /\ log' \in Seq(Entry)
      /\ m \in DOMAIN log
      /\ DOMAIN log' = DOMAIN log \ {m}
      /\ \A k \in DOMAIN log' : log'[k] = log[k] /\ k < m /\ k \in Nat
      /\ log[m] \in Entry
  BY <1>1, <1>2, <1>3, LogShortened DEF Newest
<1>5. PICK c : c = log[m].content
  OBVIOUS
<1>6. /\ c.op = "ModifyProfile"
      /\ users' = [users EXCEPT ![c.id].password = Given(c.password, @),
                                ![c.id].privilege = Given(c.privilege, @)]
  BY <1>2, <1>3, <1>5 DEF Newest
<1>7. c.password \in Optional(Passwords) /\ c.privilege \in Optional(Levels)
  BY <1>4, <1>5, <1>6 DEF Entry, Content
<1>8. c.id \in Visible /\ c.id \in DOMAIN users
  BY <1>1, <1>4, <1>5 DEF LogOK, Visible
<1>9. PICK n : n = c.id
  OBVIOUS
<1>10. /\ n \in Visible
       /\ n \in DOMAIN users
       /\ users' = [users EXCEPT ![n].password = Given(c.password, @), ![n].privilege = Given(c.privilege, @)]
  BY <1>6, <1>8, <1>9
<1>11. Given(c.password, users[n].password) \in Passwords /\ Given(c.privilege, users[n].privilege) \in Levels
  <2>1. users[n].password \in Passwords /\ users[n].privilege \in Levels
    BY <1>1, <1>10, UserType
  <2> QED
    BY <1>7, <2>1, GivenType
<1>12. /\ users' \in Seq(User)
       /\ DOMAIN users' = DOMAIN users
       /\ \A id \in DOMAIN users : users'[id].username = users[id].username
       /\ \A id \in DOMAIN users : id # n => users'[id] = users[id]
       /\ users'[n].privilege = Given(c.privilege, users[n].privilege)
  BY <1>1, <1>7, <1>10, <1>11, RecordChanged
<1>13. Given(c.privilege, users[n].privilege) <= kDefaultPrivilege
  BY <1>11, Constants
<1>14. Visible' = Visible
  <2>1. ASSUME NEW id \in DOMAIN users
        PROVE  <<users'[id].username, id>> \in ixUsername' <=> <<users[id].username, id>> \in ixUsername
    <3>1. users'[id].username = users[id].username /\ ixUsername' = ixUsername
      BY <1>2, <1>12
    <3> QED
      BY <3>1
  <2> QED
    BY <1>12, <2>1 DEF Visible, Finds
<1>15. UsersOK'
  BY <1>1, <1>12, <1>13 DEF UsersOK
<1>16. IndexOK'
  <2>1. {<<users'[id].username, id>> : id \in DOMAIN users'}
          = {<<users[id].username, id>> : id \in DOMAIN users}
    BY <1>12
  <2>2. UsernamesUnique'
    BY <1>1, <1>12, <1>14 DEF IndexOK, UsernamesUnique, Visible
  <2> QED
    BY <1>1, <1>2, <2>1, <2>2 DEF IndexOK
<1>17. SessionsOK'
  BY <1>1, <1>2 DEF SessionsOK, RollingBack
<1>18. LogOK'
  <2>1. now' \in Int /\ \A k \in DOMAIN log' : log'[k].content.id \in Visible'
    BY <1>1, <1>2, <1>4, <1>14 DEF LogOK
  <2>2. \A j, k \in DOMAIN log' :
          j < k /\ log'[k].content.op = "AddUser" => log'[j].content.id # log'[k].content.id
    BY <1>1, <1>4 DEF LogOK
  <2> QED
    BY <1>4, <2>1, <2>2 DEF LogOK
<1>19. OneFirst'
  <2>1. ASSUME NEW id \in DOMAIN users, MayBeFirst(id)' PROVE MayBeFirst(id)
    <3>1. id \in Visible
      BY <1>14, <2>1 DEF MayBeFirst
    <3>2. CASE users'[id].privilege = kDefaultPrivilege /\ id # n
      BY <1>12, <3>1, <3>2 DEF MayBeFirst
    <3>3. CASE users'[id].privilege = kDefaultPrivilege /\ id = n
      <4>1. CASE c.privilege = {}
        BY <1>12, <3>1, <3>3, <4>1 DEF MayBeFirst, Given
      <4>2. CASE c.privilege # {}
        <5>1. kDefaultPrivilege \in c.privilege
          BY <1>12, <3>3, <4>2 DEF Given
        <5> QED
          BY <1>4, <1>5, <1>6, <1>9, <3>1, <3>3, <5>1 DEF MayBeFirst
      <4> QED
        BY <4>1, <4>2
    <3>4. CASE \E k \in DOMAIN log' : /\ log'[k].content.op = "ModifyProfile"
                                      /\ log'[k].content.id = id
                                      /\ kDefaultPrivilege \in log'[k].content.privilege
      BY <1>4, <3>1, <3>4 DEF MayBeFirst
    <3> QED
      BY <2>1, <3>2, <3>3, <3>4 DEF MayBeFirst
  <2> QED
    BY <1>1, <1>12, <2>1 DEF OneFirst
<1> QED
  BY <1>15, <1>16, <1>17, <1>18, <1>19 DEF AccountsInv

LEMMA AccountsStep == AccountsInv /\ [Next]_vars => AccountsInv'
<1> SUFFICES ASSUME AccountsInv, [Next]_vars PROVE AccountsInv'
  OBVIOUS
<1>1. UsersOK /\ IndexOK /\ SessionsOK /\ LogOK /\ OneFirst
  BY DEF AccountsInv
<1>2. ASSUME NEW t \in 0 .. MaxTime, ReadTimestamp(t), UNCHANGED accountVars PROVE AccountsInv'
  <2>1. UNCHANGED <<users, ixUsername, log>> /\ now' \in Int /\ SessionsOK'
    BY <1>1, <1>2, MaxTimeAssumption DEF ReadTimestamp, accountVars, SessionsOK, RollingBack
  <2> QED
    BY <2>1, RecordsStay
<1>3. ASSUME NEW name \in Usernames, NEW password \in Passwords, AddFirstUser(name, password)
      PROVE  AccountsInv'
  <2>1. ixUsername = {} /\ SaveUser(name, password, kDefaultPrivilege) /\ ~ Has(name)
    BY <1>3 DEF AddFirstUser, Has, Finds
  <2>2. kDefaultPrivilege \in Levels /\ kDefaultPrivilege <= kDefaultPrivilege
    BY Constants DEF Levels
  <2> QED
    BY <1>3, <2>1, <2>2, SaveUserStep
<1>4. ASSUME NEW current \in Usernames, NEW name \in Usernames, NEW password \in Passwords,
             NEW privilege \in Privileges, AddUser(current, name, password, privilege)
      PROVE  AccountsInv'
  <2>1. SaveUser(name, password, privilege) /\ ~ Has(name) /\ PrivilegeOf(current) > privilege
        /\ IsLoggedIn(current)
    BY <1>4 DEF AddUser
  <2>2. PrivilegeOf(current) \in Int /\ PrivilegeOf(current) <= kDefaultPrivilege
    BY <1>1, <2>1, Constants DEF SessionsOK, IsLoggedIn, PrivilegeOf
  <2>3. privilege \in Int /\ privilege < kDefaultPrivilege
    BY <2>1, <2>2, Constants
  <2>4. privilege \in Levels /\ privilege <= kDefaultPrivilege /\ privilege # kDefaultPrivilege
    BY <2>3, Constants
  <2> QED
    BY <1>4, <2>1, <2>4, SaveUserStep
<1>5. ASSUME NEW name \in Usernames, NEW password \in Passwords, Login(name, password)
      PROVE  AccountsInv'
  <2>1. PICK id \in DOMAIN users :
          usersLoggedIn' = [n \in DOMAIN usersLoggedIn \cup {name} |->
                              IF n = name THEN users[id].privilege ELSE usersLoggedIn[n]]
    BY <1>5 DEF Login
  <2>2. users[id].privilege \in Levels /\ users[id].privilege <= kDefaultPrivilege
    BY <1>1, UserType
  <2>3. ~ RollingBack' /\ UNCHANGED <<now, log, users, ixUsername>>
    BY <1>5 DEF Login, Idle, NoCall, RollingBack
  <2>4. SessionsOK'
    BY <1>1, <2>1, <2>2, <2>3 DEF SessionsOK
  <2> QED
    BY <1>1, <2>3, <2>4, RecordsStay DEF LogOK
<1>6. ASSUME NEW name \in Usernames, Logout(name) PROVE AccountsInv'
  <2>1. ~ RollingBack' /\ UNCHANGED <<now, log, users, ixUsername>>
    BY <1>6 DEF Logout, Idle, NoCall, RollingBack
  <2>2. SessionsOK'
    BY <1>1, <1>6, <2>1 DEF SessionsOK, Logout
  <2> QED
    BY <1>1, <2>1, <2>2, RecordsStay DEF LogOK
<1>7. ASSUME NEW current \in Usernames, NEW id \in DOMAIN users, NEW password \in Optional(Passwords),
             NEW privilege \in Optional(Privileges), ModifyProfile(current, id, password, privilege)
      PROVE  AccountsInv'
  BY <1>7, ModifyStep
<1>8. CASE Clean
  BY <1>8, CleanStep
<1>9. CASE Exit \/ \E t \in 0 .. MaxTime : Rollback(t)
  <2>1. UNCHANGED <<now, log, users, ixUsername>> /\ usersLoggedIn' = <<>>
    BY <1>9 DEF Exit, Rollback, StartRollback
  <2>2. DOMAIN usersLoggedIn' = {}
    BY <2>1
  <2> QED
    BY <1>1, <2>1, <2>2, RecordsStay DEF LogOK, SessionsOK
<1>10. CASE Undo
  BY <1>10, UndoAddUserStep, UndoModifyProfileStep DEF Undo
<1>11. CASE EndRollback
  <2>1. ~ RollingBack' /\ UNCHANGED <<now, log, users, ixUsername, usersLoggedIn>>
    BY <1>11 DEF EndRollback, RollbackDone, NoCall, RollingBack, accountVars
  <2> QED
    BY <1>1, <2>1, RecordsStay DEF LogOK, SessionsOK
<1>12. CASE UNCHANGED vars
  BY <1>1, <1>12, RecordsStay DEF LogOK, SessionsOK, RollingBack, vars, accountVars
<1> QED
  BY <1>2, <1>3, <1>4, <1>5, <1>6, <1>7, <1>8, <1>9, <1>10, <1>11, <1>12 DEF Next, Command

-----------------------------------------------------------------------------
(* The theorems.                                                           *)

LEMMA InvariantHolds == Spec => []AccountsInv
BY AccountsStart, AccountsStep, PTL DEF Spec

(* Users, sessions, the index and the log hold what their types say: no    *)
(* handler of user.cpp and no visitor puts anything else into them.        *)
THEOREM AccountsTypeCorrect == Spec => []TypeOK
<1>1. AccountsInv => TypeOK
  <2> SUFFICES ASSUME AccountsInv PROVE TypeOK
    OBVIOUS
  <2>1. UsersOK /\ IndexOK /\ SessionsOK /\ LogOK
    BY DEF AccountsInv
  <2>2. \A name \in DOMAIN usersLoggedIn : usersLoggedIn[name] \in Privileges \cup {kDefaultPrivilege}
    BY <2>1 DEF SessionsOK, Levels
  <2>3. \A k \in DOMAIN log : log[k].content.id \in DOMAIN users
    BY <2>1 DEF LogOK, Visible
  <2> QED
    BY <2>1, <2>2, <2>3 DEF TypeOK, UsersOK, IndexOK, SessionsOK
<1> QED
  BY <1>1, InvariantHolds, PTL

(* A name has at most one user in the index, whatever was added, undone    *)
(* and added again: findOne (user.cpp) cannot take the wrong one.          *)
THEOREM NamesStayUnique == Spec => []UsernamesUnique
<1>1. AccountsInv => UsernamesUnique
  BY DEF AccountsInv, IndexOK
<1> QED
  BY <1>1, InvariantHolds, PTL

(* The visitor of an entry finds the user it is about in the index.        *)
THEOREM UndoFindsUser == Spec => []UndoFindsItsUser
<1>1. AccountsInv => UndoFindsItsUser
  <2> SUFFICES ASSUME AccountsInv, HasEntryToUndo PROVE Newest.content.id \in Visible
    BY DEF UndoFindsItsUser
  <2>1. LogOK /\ log # <<>> /\ log \in Seq(Entry)
    BY DEF AccountsInv, LogOK, HasEntryToUndo
  <2>2. Len(log) \in DOMAIN log
    BY <2>1
  <2> QED
    BY <2>1, <2>2 DEF LogOK, Newest
<1> QED
  BY <1>1, InvariantHolds, PTL

(* One user at most has the privilege of the first one.                    *)
THEOREM NoOneEscalates == Spec => []NoEscalation
<1>1. AccountsInv => NoEscalation
  <2> SUFFICES ASSUME AccountsInv PROVE NoEscalation
    OBVIOUS
  <2> DEFINE Firsts == {id \in Visible : users[id].privilege >= kDefaultPrivilege}
  <2>1. UsersOK /\ OneFirst
    BY DEF AccountsInv
  <2>2. ASSUME NEW id \in Firsts PROVE id \in DOMAIN users /\ MayBeFirst(id)
    <3>1. id \in Visible /\ id \in DOMAIN users /\ users[id].privilege >= kDefaultPrivilege
      BY DEF Visible
    <3>2. users[id].privilege \in Int /\ users[id].privilege <= kDefaultPrivilege
      BY <2>1, <3>1, UserType, Constants
    <3>3. users[id].privilege = kDefaultPrivilege
      BY <3>1, <3>2, Constants
    <3> QED
      BY <3>1, <3>3 DEF MayBeFirst
  <2>3. \A id, other \in Firsts : id = other
    BY <2>1, <2>2 DEF OneFirst
  <2> HIDE DEF Firsts
  <2>4. CASE Firsts = {}
    <3>1. Cardinality(Firsts) = 0
      BY <2>4, FS_EmptySet
    <3> QED
      BY <3>1 DEF NoEscalation, Firsts
  <2>5. CASE Firsts # {}
    <3>1. PICK id : Firsts = {id}
      BY <2>3, <2>5
    <3>2. Cardinality(Firsts) = 1
      BY <3>1, FS_Singleton
    <3> QED
      BY <3>2 DEF NoEscalation, Firsts
  <2> QED
    BY <2>4, <2>5
<1> QED
  BY <1>1, InvariantHolds, PTL

(* The sessions, when their users and privileges do not change.            *)
LEMMA SessionsUntouched ==
  ASSUME SessionsExact, UNCHANGED <<users, ixUsername>>,
         \A name \in DOMAIN usersLoggedIn' :
           name \in DOMAIN usersLoggedIn /\ usersLoggedIn'[name] = usersLoggedIn[name]
  PROVE  SessionsExact'
<1>1. Visible' = Visible
  BY DEF Visible, Finds
<1> QED
  BY <1>1 DEF SessionsExact

LEMMA SaveUserKeepsSessions ==
  ASSUME AccountsInv, SessionsExact, NEW name, NEW password, NEW privilege,
         SaveUser(name, password, privilege)
  PROVE  SessionsExact'
<1> DEFINE u == [username |-> name, password |-> password, privilege |-> privilege]
<1>1. users \in Seq(User) /\ users' = Append(users, u) /\ usersLoggedIn' = usersLoggedIn
      /\ ixUsername \subseteq ixUsername'
  BY DEF AccountsInv, UsersOK, SaveUser
<1>2. DOMAIN users \subseteq DOMAIN users' /\ \A id \in DOMAIN users : users'[id] = users[id]
  BY <1>1
<1>3. \A id \in Visible : id \in Visible' /\ users'[id] = users[id]
  BY <1>1, <1>2 DEF Visible, Finds
<1>4. ASSUME NEW m \in DOMAIN usersLoggedIn'
      PROVE  \E id \in Visible' :
               users'[id].username = m /\ users'[id].privilege = usersLoggedIn'[m]
  <2>1. PICK id \in Visible : users[id].username = m /\ users[id].privilege = usersLoggedIn[m]
    BY <1>1 DEF SessionsExact
  <2>2. id \in Visible' /\ users'[id] = users[id]
    BY <1>3
  <2>3. users'[id].username = m /\ users'[id].privilege = usersLoggedIn'[m]
    BY <1>1, <2>1, <2>2
  <2> QED
    BY <2>2, <2>3
<1> HIDE DEF u
<1> QED
  BY <1>4 DEF SessionsExact

(* The session of the one whose record changes is the only one with his    *)
(* name, for a name has one user.                                          *)
LEMMA ModifyKeepsSessions ==
  ASSUME AccountsInv, SessionsExact, NEW current \in Usernames, NEW n \in DOMAIN users,
         NEW password \in Optional(Passwords), NEW privilege \in Optional(Privileges),
         ModifyProfile(current, n, password, privilege)
  PROVE  SessionsExact'
<1>1. /\ users' = [users EXCEPT ![n].password = Given(password, @), ![n].privilege = Given(privilege, @)]
      /\ usersLoggedIn' = [m \in DOMAIN usersLoggedIn |->
                              IF m = users[n].username THEN Given(privilege, usersLoggedIn[m])
                              ELSE usersLoggedIn[m]]
      /\ ixUsername' = ixUsername
      /\ Finds(users[n].username, n)
  BY DEF ModifyProfile
<1>2. UsersOK /\ UsernamesUnique /\ n \in Visible
  BY <1>1 DEF AccountsInv, IndexOK, Visible
<1>3. users[n] = [username |-> users[n].username, password |-> users[n].password,
                  privilege |-> users[n].privilege]
  BY <1>2, UserType DEF User
<1>4. /\ DOMAIN users' = DOMAIN users
      /\ \A id \in DOMAIN users : id # n => users'[id] = users[id]
      /\ users'[n].username = users[n].username
      /\ users'[n].privilege = Given(privilege, users[n].privilege)
  <2>1. DOMAIN users' = DOMAIN users /\ \A id \in DOMAIN users : id # n => users'[id] = users[id]
    BY <1>1
  <2>2. users'[n] = [users[n] EXCEPT !.password = Given(password, @), !.privilege = Given(privilege, @)]
    BY <1>1
  <2> QED
    BY <1>3, <2>1, <2>2
<1>5. ASSUME NEW id \in Visible
      PROVE  id \in Visible' /\ users'[id].username = users[id].username
  <2>1. id \in DOMAIN users' /\ users'[id].username = users[id].username
    BY <1>4 DEF Visible
  <2> QED
    BY <1>1, <2>1 DEF Visible, Finds
<1>6. ASSUME NEW name \in DOMAIN usersLoggedIn'
      PROVE  \E id \in Visible' :
               users'[id].username = name /\ users'[id].privilege = usersLoggedIn'[name]
  <2>1. name \in DOMAIN usersLoggedIn
    BY <1>1
  <2>2. PICK id \in Visible : users[id].username = name /\ users[id].privilege = usersLoggedIn[name]
    BY <2>1 DEF SessionsExact
  <2>3. CASE id = n
    BY <1>1, <1>4, <1>5, <2>1, <2>2, <2>3
  <2>4. CASE id # n
    <3>1. name # users[n].username
      BY <1>2, <2>2, <2>4 DEF UsernamesUnique
    <3>2. users'[id] = users[id]
      BY <1>4, <2>4 DEF Visible
    <3> QED
      BY <1>1, <1>5, <2>1, <2>2, <3>1, <3>2
  <2> QED
    BY <2>3, <2>4
<1> QED
  BY <1>6 DEF SessionsExact

LEMMA SessionsStep ==
  ASSUME AccountsInv, [Next]_vars, SessionsExact, ~ (users # <<>> /\ users' = <<>>)
  PROVE  SessionsExact'
<1>1. SessionsOK
  BY DEF AccountsInv
<1>2. ASSUME usersLoggedIn' = <<>> PROVE SessionsExact'
  <2>1. DOMAIN usersLoggedIn' = {}
    BY <1>2
  <2> QED
    BY <2>1 DEF SessionsExact
<1>3. ASSUME NEW t \in 0 .. MaxTime, ReadTimestamp(t), UNCHANGED accountVars PROVE SessionsExact'
  BY <1>3, SessionsUntouched DEF accountVars
<1>4. ASSUME NEW name \in Usernames, NEW password \in Passwords, AddFirstUser(name, password)
      PROVE  SessionsExact'
  BY <1>4, SaveUserKeepsSessions DEF AddFirstUser
<1>5. ASSUME NEW current \in Usernames, NEW name \in Usernames, NEW password \in Passwords,
             NEW privilege \in Privileges, AddUser(current, name, password, privilege)
      PROVE  SessionsExact'
  BY <1>5, SaveUserKeepsSessions DEF AddUser
<1>6. ASSUME NEW name \in Usernames, NEW password \in Passwords, Login(name, password)
      PROVE  SessionsExact'
  <2>1. UNCHANGED <<users, ixUsername>>
    BY <1>6 DEF Login
  <2>2. PICK id \in DOMAIN users :
          /\ Finds(name, id)
          /\ usersLoggedIn' = [n \in DOMAIN usersLoggedIn \cup {name} |->
                                 IF n = name THEN users[id].privilege ELSE usersLoggedIn[n]]
    BY <1>6 DEF Login
  <2>3. id \in Visible /\ users[id].username = name
    <3>1. <<name, id>> \in ixUsername /\ IndexOK
      BY <2>2 DEF Finds, AccountsInv
    <3>2. PICK k \in DOMAIN users : <<name, id>> = <<users[k].username, k>>
      BY <3>1 DEF IndexOK
    <3> QED
      BY <2>2, <3>2 DEF Visible
  <2>4. Visible' = Visible
    BY <2>1 DEF Visible, Finds
  <2>5. ASSUME NEW n \in DOMAIN usersLoggedIn'
        PROVE  \E k \in Visible : users[k].username = n /\ users[k].privilege = usersLoggedIn'[n]
    <3>1. CASE n = name
      BY <2>2, <2>3, <3>1
    <3>2. CASE n # name
      BY <2>2, <3>2 DEF SessionsExact
    <3> QED
      BY <3>1, <3>2
  <2> QED
    BY <2>1, <2>4, <2>5 DEF SessionsExact
<1>7. ASSUME NEW name \in Usernames, Logout(name) PROVE SessionsExact'
  BY <1>7, SessionsUntouched DEF Logout
<1>8. ASSUME NEW current \in Usernames, NEW id \in DOMAIN users, NEW password \in Optional(Passwords),
             NEW privilege \in Optional(Privileges), ModifyProfile(current, id, password, privilege)
      PROVE  SessionsExact'
  BY <1>8, ModifyKeepsSessions
<1>9. CASE Clean
  <2>1. users = <<>> /\ DOMAIN users = {}
    BY <1>9 DEF Clean
  <2>2. usersLoggedIn' = usersLoggedIn /\ DOMAIN usersLoggedIn = {}
    BY <1>9, <2>1 DEF Clean, SessionsExact, Visible
  <2> QED
    BY <2>2 DEF SessionsExact
<1>10. CASE Exit \/ \E t \in 0 .. MaxTime : Rollback(t)
  BY <1>2, <1>10 DEF Exit, Rollback
<1>11. CASE Undo
  <2>1. RollingBack /\ usersLoggedIn' = usersLoggedIn
    BY <1>11 DEF Undo, UndoAddUser, UndoModifyProfile, Undoes, HasEntryToUndo
  <2> QED
    BY <1>1, <1>2, <2>1 DEF SessionsOK
<1>12. CASE EndRollback
  BY <1>12, SessionsUntouched DEF EndRollback, accountVars
<1>13. CASE UNCHANGED vars
  BY <1>13, SessionsUntouched DEF vars, accountVars
<1> QED
  BY <1>3, <1>4, <1>5, <1>6, <1>7, <1>8, <1>9, <1>10, <1>11, <1>12, <1>13 DEF Next, Command

(* The privilege a session has cached stays that of its user, until Clean: *)
(* the undo visitors may forget the sessions (user.cpp:174), for a         *)
(* rollback has logged everybody out.                                      *)
THEOREM SessionsStayTrue == Spec => SessionsStayExact
<1>1. AccountsInv /\ [Next]_vars
        => [SessionsExact /\ ~ (users # <<>> /\ users' = <<>>) => SessionsExact']_vars
  BY SessionsStep
<1> QED
  BY <1>1, InvariantHolds, PTL DEF Spec, SessionsStayExact

=============================================================================
