------------------------------ MODULE Accounts ------------------------------
(***************************************************************************)
(* Users and their sessions (user.cpp), with the command Clean (misc.cpp). *)
(* A user record is never destroyed: undoing AddUser only takes it out of  *)
(* the index.  A session caches the privilege its user had when he logged  *)
(* in.  Of a profile, the password and the privilege are kept.             *)
(***************************************************************************)
EXTENDS CommandLog, FiniteSets

CONSTANTS
  Usernames,
  Passwords,
  Privileges,   \* the privilege levels a command asks for
  MaxUsers,     \* bound: the number of user records
  MaxLog        \* bound: the length of the rollback log

ASSUME AccountsAssumption ==
  /\ Privileges \subseteq Int
  /\ MaxUsers \in Nat
  /\ MaxLog \in Nat

VARIABLES
  users,           \* the users file, by id
  ixUsername,      \* User::ixUsername: pairs of a username and an id
  usersLoggedIn    \* the sessions: the privilege cached for a username

accountVars == <<users, ixUsername, usersLoggedIn>>
vars == <<now, log, call, accountVars>>

kDefaultPrivilege == 10

User == [username : Usernames, password : Passwords, privilege : Privileges \cup {kDefaultPrivilege}]

Init ==
  /\ now = 0
  /\ log = <<>>
  /\ call = NoCall
  /\ users = <<>>
  /\ ixUsername = {}
  /\ usersLoggedIn = <<>>

-----------------------------------------------------------------------------
(* UserBase                                                                *)

Finds(name, id) == <<name, id>> \in ixUsername
Has(name) == \E id \in DOMAIN users : Finds(name, id)
IsLoggedIn(name) == name \in DOMAIN usersLoggedIn
PrivilegeOf(name) == usersLoggedIn[name]

-----------------------------------------------------------------------------
(* The commands.  A command that fails a check changes nothing.            *)

SaveUser(name, password, privilege) ==
  LET id == Len(users) + 1
  IN  /\ id <= MaxUsers
      /\ Len(log) < MaxLog
      /\ users' = Append(users, [username |-> name, password |-> password, privilege |-> privilege])
      /\ ixUsername' = ixUsername \cup {<<name, id>>}
      /\ Log([op |-> "AddUser", id |-> id])
      /\ UNCHANGED <<now, call, usersLoggedIn>>

(* Nobody has to be logged in to add the first user, whose privilege is    *)
(* not the one asked for.                                                  *)
AddFirstUser(name, password) ==
  /\ Idle
  /\ ixUsername = {}
  /\ SaveUser(name, password, kDefaultPrivilege)

(* Mistakes: an equal privilege is enough; the name may be taken.          *)
AddUserOfEqualPrivilege(current, name, password, privilege) ==
  /\ Idle
  /\ ixUsername # {}
  /\ IsLoggedIn(current)
  /\ PrivilegeOf(current) >= privilege
  /\ ~ Has(name)
  /\ SaveUser(name, password, privilege)
AddUserTwice(current, name, password, privilege) ==
  /\ Idle
  /\ ixUsername # {}
  /\ IsLoggedIn(current)
  /\ PrivilegeOf(current) > privilege
  /\ SaveUser(name, password, privilege)

AddUser(current, name, password, privilege) ==
  /\ Idle
  /\ ixUsername # {}
  /\ IsLoggedIn(current)
  /\ PrivilegeOf(current) > privilege
  /\ ~ Has(name)
  /\ SaveUser(name, password, privilege)

Login(name, password) ==
  /\ Idle
  /\ \E id \in DOMAIN users :
       /\ Finds(name, id)
       /\ users[id].password = password
       /\ ~ IsLoggedIn(name)
       /\ usersLoggedIn' = [n \in DOMAIN usersLoggedIn \cup {name} |->
                              IF n = name THEN users[id].privilege ELSE usersLoggedIn[n]]
  /\ UNCHANGED <<now, log, call, users, ixUsername>>

Logout(name) ==
  /\ Idle
  /\ IsLoggedIn(name)
  /\ usersLoggedIn' = [n \in DOMAIN usersLoggedIn \ {name} |-> usersLoggedIn[n]]
  /\ UNCHANGED <<now, log, call, users, ixUsername>>

(* checkUser: a user may see and change himself and those below him.       *)
Authorized(current, id) ==
  /\ IsLoggedIn(current)
  /\ PrivilegeOf(current) > users[id].privilege \/ current = users[id].username

(* An optional field of a command or of a log entry is a set with at most  *)
(* one element.                                                            *)
Given(field, old) == IF field = {} THEN old ELSE CHOOSE x \in field : TRUE
Replaced(field, old) == IF field = {} THEN {} ELSE {old}

(* Mistake: the session keeps the privilege it had cached.                 *)
ModifyProfileOnly(current, id, password, privilege) ==
  /\ Idle
  /\ Len(log) < MaxLog
  /\ Finds(users[id].username, id)
  /\ Authorized(current, id)
  /\ \A p \in privilege : p < PrivilegeOf(current)
  /\ users' = [users EXCEPT ![id].password = Given(password, @),
                            ![id].privilege = Given(privilege, @)]
  /\ Log([op |-> "ModifyProfile", id |-> id,
          password |-> Replaced(password, users[id].password),
          privilege |-> Replaced(privilege, users[id].privilege)])
  /\ UNCHANGED <<now, call, ixUsername, usersLoggedIn>>

ModifyProfile(current, id, password, privilege) ==
  LET name == users[id].username
  IN  /\ Idle
      /\ Len(log) < MaxLog
      /\ Finds(name, id)
      /\ Authorized(current, id)
      /\ \A p \in privilege : p < PrivilegeOf(current)
      /\ usersLoggedIn' = [n \in DOMAIN usersLoggedIn |->
                             IF n = name THEN Given(privilege, usersLoggedIn[n])
                             ELSE usersLoggedIn[n]]
      /\ users' = [users EXCEPT ![id].password = Given(password, @),
                                ![id].privilege = Given(privilege, @)]
      /\ Log([op |-> "ModifyProfile", id |-> id,
              password |-> Replaced(password, users[id].password),
              privilege |-> Replaced(privilege, users[id].privilege)])
      /\ UNCHANGED <<now, call, ixUsername>>

(* Mistake: forgets the log.                                               *)
CleanButLog ==
  /\ Idle
  /\ users' = <<>>
  /\ ixUsername' = {}
  /\ UNCHANGED <<now, log, call, usersLoggedIn>>

(* command::run(Clean) truncates every file.  The sessions are in no file. *)
Clean ==
  /\ Idle
  /\ log' = <<>>
  /\ users' = <<>>
  /\ ixUsername' = {}
  /\ UNCHANGED <<now, call, usersLoggedIn>>

(* command::run(Exit) ends the program, which writes its files on the way  *)
(* out; the next run of the program starts with nobody logged in.          *)
Exit ==
  /\ Idle
  /\ usersLoggedIn' = <<>>
  /\ UNCHANGED <<now, log, call, users, ixUsername>>

-----------------------------------------------------------------------------
(* Rollback and the visitors that undo an entry of this component.         *)

(* Mistake: nobody is logged out.                                          *)
RollbackInSession(t) ==
  /\ StartRollback(t)
  /\ UNCHANGED accountVars

Rollback(t) ==
  /\ StartRollback(t)
  /\ usersLoggedIn' = <<>>
  /\ UNCHANGED <<users, ixUsername>>

EndRollback ==
  /\ RollbackDone
  /\ UNCHANGED accountVars

Undoes(op) ==
  /\ HasEntryToUndo
  /\ Newest.content.op = op
  /\ DestroyEntry
  /\ UNCHANGED <<now, call, usersLoggedIn>>

UndoAddUser ==
  LET id == Newest.content.id
  IN  /\ Undoes("AddUser")
      /\ ixUsername' = ixUsername \ {<<users[id].username, id>>}
      /\ UNCHANGED users

UndoModifyProfile ==
  LET entry == Newest.content
  IN  /\ Undoes("ModifyProfile")
      /\ users' = [users EXCEPT ![entry.id].password = Given(entry.password, @),
                                ![entry.id].privilege = Given(entry.privilege, @)]
      /\ UNCHANGED ixUsername

-----------------------------------------------------------------------------
Optional(S) == {{}} \cup {{x} : x \in S}

Command ==
  \/ \E name \in Usernames, password \in Passwords : AddFirstUser(name, password)
  \/ \E current, name \in Usernames, password \in Passwords, privilege \in Privileges :
       AddUser(current, name, password, privilege)
  \/ \E name \in Usernames, password \in Passwords : Login(name, password)
  \/ \E name \in Usernames : Logout(name)
  \/ \E current \in Usernames, id \in DOMAIN users, password \in Optional(Passwords),
        privilege \in Optional(Privileges) : ModifyProfile(current, id, password, privilege)
  \/ Clean \/ Exit

Undo == UndoAddUser \/ UndoModifyProfile

Next ==
  \/ \E t \in 0 .. MaxTime : ReadTimestamp(t) /\ UNCHANGED accountVars
  \/ Command
  \/ \E t \in 0 .. MaxTime : Rollback(t)
  \/ Undo
  \/ EndRollback

Spec == Init /\ [][Next]_vars

-----------------------------------------------------------------------------
(* Properties                                                              *)

Visible == {id \in DOMAIN users : Finds(users[id].username, id)}

(* Every variable has its type, and the index names records of the file.   *)
TypeOK ==
  /\ users \in Seq(User)
  /\ ixUsername \subseteq {<<users[id].username, id>> : id \in DOMAIN users}
  /\ DOMAIN usersLoggedIn \subseteq Usernames
  /\ \A name \in DOMAIN usersLoggedIn : usersLoggedIn[name] \in Privileges \cup {kDefaultPrivilege}
  /\ \A k \in DOMAIN log : log[k].content.id \in DOMAIN users

(* findOne takes the first match: a name has one user at most, after any   *)
(* number of users added, undone and added again.                          *)
UsernamesUnique ==
  \A id, other \in Visible : users[id].username = users[other].username => id = other

(* Nobody ever gets the privilege of the first user: not by adding users,  *)
(* by changing profiles, by demoting himself and rolling back, nor with a  *)
(* session that has outlived a Clean.                                      *)
NoEscalation ==
  Cardinality({id \in Visible : users[id].privilege >= kDefaultPrivilege}) <= 1

(* The entry to undo is about a user who is still in the index, as the     *)
(* B+ tree wants of a pair to remove (bptree.h:59).                        *)
UndoFindsItsUser == HasEntryToUndo => Newest.content.id \in Visible

(* A session belongs to a user and knows his privilege.                    *)
SessionsExact ==
  \A name \in DOMAIN usersLoggedIn :
    \E id \in Visible : users[id].username = name /\ users[id].privilege = usersLoggedIn[name]

(* No command but Clean parts a session from its user.  The cache is       *)
(* written by Login and ModifyProfile; the undo visitors do not look at it *)
(* since "no one is logged in at this point" (user.cpp:174).               *)
SessionsStayExact == [][SessionsExact /\ ~ (users # <<>> /\ users' = <<>>) => SessionsExact']_vars

(* What the comment of usersLoggedIn (user.cpp:16) says.                   *)
SessionsAreOfUsers == \A name \in DOMAIN usersLoggedIn : Has(name)

=============================================================================
