--------------------------- MODULE CommandTables ---------------------------
(***************************************************************************)
(* What bin/command-parser.js generates from commands.yml: the flags of    *)
(* the command parser (parser.cpp), the structures of the commands         *)
(* (parser.h) and the functions of the Node.js binding (node.cpp).  The    *)
(* same command reaches run() by the one way or by the other.              *)
(*                                                                         *)
(* A text is the sequence of its pieces, the parts between the bars; only  *)
(* the text of a list has more than one.                                   *)
(***************************************************************************)
EXTENDS Datetime, Sequences, TLC

CONSTANTS
  Unset,          \* what a member without a constructor holds before it is assigned
  None,           \* an Optional that is empty
  Atoi(_),        \* atoi of a piece
  FirstChar(_),   \* its first character
  Digits(_)       \* the digits of a date or of an instant

F(flag, name, type) == [flag |-> <<flag>>, name |-> name, type |-> type]

(* A table by the words that name the commands.                            *)
ByWord(table) == [word \in {<<c>> : c \in DOMAIN table} |-> table[word[1]]]

-----------------------------------------------------------------------------
(* The parser: the flags of each command.                                  *)

AccountFlags == [
  add_user |-> {F("-c", "currentUser", "string"), F("-u", "username", "string"),
    F("-p", "password", "string"), F("-n", "name", "string"), F("-m", "email", "string"),
    F("-g", "privilege", "int")},
  login |-> {F("-u", "username", "string"), F("-p", "password", "string")},
  logout |-> {F("-u", "username", "string")},
  query_profile |-> {F("-c", "currentUser", "string"), F("-u", "username", "string")},
  modify_profile |-> {F("-c", "currentUser", "string"), F("-u", "username", "string"),
    F("-p", "password", "string"), F("-n", "name", "string"), F("-m", "email", "string"),
    F("-g", "privilege", "int")}]

TrainFlags == [
  add_train |-> {F("-i", "id", "string"), F("-n", "stops", "int"), F("-m", "seats", "int"),
    F("-s", "stations", "string[]"), F("-p", "prices", "int[]"), F("-x", "departure", "Instant"),
    F("-t", "durations", "Duration[]"), F("-o", "stopoverTimes", "Duration[]"),
    F("-d", "dates", "Date[]"), F("-y", "type", "char")},
  delete_train |-> {F("-i", "id", "string")},
  release_train |-> {F("-i", "id", "string")},
  query_train |-> {F("-i", "id", "string"), F("-d", "date", "Date")}]

SearchFlags == {F("-s", "from", "string"), F("-t", "to", "string"), F("-d", "date", "Date"),
                F("-p", "sort", "SortType")}

OrderFlags == [
  query_ticket |-> SearchFlags,
  query_transfer |-> SearchFlags,
  buy_ticket |-> {F("-u", "currentUser", "string"), F("-i", "train", "string"),
    F("-d", "date", "Date"), F("-n", "seats", "int"), F("-f", "from", "string"),
    F("-t", "to", "string"), F("-q", "queue", "bool")},
  query_order |-> {F("-u", "currentUser", "string")},
  refund_ticket |-> {F("-u", "currentUser", "string"), F("-n", "index", "int")},
  rollback |-> {F("-t", "timestamp", "int")},
  clean |-> {},
  exit |-> {}]

(* Mistake: the prices of a train are taken for its durations.             *)
ParserFlagsSwapped ==
  LET swapped(name) == CASE name = "prices" -> "durations" [] name = "durations" -> "prices" [] OTHER -> name
      train == {[f EXCEPT !.name = swapped(f.name)] : f \in TrainFlags.add_train}
  IN  ByWord(AccountFlags @@ [TrainFlags EXCEPT !.add_train = train] @@ OrderFlags)

ParserFlags == ByWord(AccountFlags @@ TrainFlags @@ OrderFlags)

-----------------------------------------------------------------------------
(* The structures, as their constructors leave them.                       *)

Empty == <<"">>   \* the empty string
kTime == "time"
kCost == "cost"

AccountStructs ==
  LET profile == [currentUser |-> Empty, username |-> Empty]
  IN  [add_user |-> profile @@ [password |-> Empty, name |-> Empty, email |-> Empty, privilege |-> Unset],
       login |-> [username |-> Empty, password |-> Empty],
       logout |-> [username |-> Empty],
       query_profile |-> profile,
       modify_profile |-> profile @@ [password |-> None, name |-> None, email |-> None, privilege |-> None]]

TrainStructs == [
  add_train |-> [id |-> Empty, stops |-> Unset, seats |-> Unset, stations |-> <<>>, prices |-> <<>>,
    departure |-> 0, durations |-> <<>>, stopoverTimes |-> <<>>, dates |-> <<>>, type |-> Unset],
  delete_train |-> [id |-> Empty],
  release_train |-> [id |-> Empty],
  query_train |-> [id |-> Empty, date |-> 0]]

OrderStructs ==
  LET search == [from |-> Empty, to |-> Empty, date |-> 0, sort |-> kTime]
  IN  [query_ticket |-> search,
       query_transfer |-> search,
       buy_ticket |-> [currentUser |-> Empty, train |-> Empty, date |-> 0, seats |-> Unset,
         from |-> Empty, to |-> Empty, queue |-> FALSE],
       query_order |-> [currentUser |-> Empty],
       refund_ticket |-> [currentUser |-> Empty, index |-> 1],
       rollback |-> [timestamp |-> Unset],
       clean |-> <<>>,
       exit |-> <<>>]

CommandStructs == ByWord(AccountStructs @@ TrainStructs @@ OrderStructs)

-----------------------------------------------------------------------------
(* The values of the flags.                                                *)

ListTypes == {"string[]", "int[]", "Duration[]", "Date[]"}
AppendedTypes == ListTypes \ {"string[]"}   \* push_back; the list of strings is assigned

(* split() of the text of a list drops its empty pieces.                   *)
Split(text) == SelectSeq(text, LAMBDA piece : piece # "")

Scalar(type, piece) ==
  CASE type \in {"string", "string[]"} -> piece
    [] type \in {"int", "int[]", "Duration[]"} -> Atoi(piece)
    [] type \in {"Date", "Date[]"} -> DateOfText(Digits(piece))
    [] type = "Instant" -> InstantOfText(Digits(piece))
    [] type = "char" -> FirstChar(piece)
    [] type = "SortType" -> IF FirstChar(piece) = "t" THEN kTime ELSE kCost
    [] type = "bool" -> FirstChar(piece) = "t"

(* argv[++i] as a value of the type.                                       *)
ConvertText(type, text) ==
  CASE type = "string" -> text
    [] type \in ListTypes -> [k \in DOMAIN Split(text) |-> Scalar(type, Split(text)[k])]
    [] OTHER -> Scalar(type, text[1])

-----------------------------------------------------------------------------
(* The binding: the members of the object that each function reads.        *)

Member(name, type) == [name |-> name, type |-> type, checked |-> FALSE]
Checked(name, type) == [name |-> name, type |-> type, checked |-> TRUE]   \* isNullish is asked

NodeAccounts == [
  add_user |-> {Member("currentUser", "string"), Member("username", "string"),
    Member("password", "string"), Member("name", "string"), Member("email", "string"),
    Member("privilege", "int")},
  login |-> {Member("username", "string"), Member("password", "string")},
  logout |-> {Member("username", "string")},
  query_profile |-> {Member("currentUser", "string"), Member("username", "string")},
  modify_profile |-> {Member("currentUser", "string"), Member("username", "string"),
    Checked("password", "string"), Checked("name", "string"), Checked("email", "string"),
    Checked("privilege", "int")}]

NodeTrains == [
  add_train |-> {Member("id", "string"), Member("stops", "int"), Member("seats", "int"),
    Member("stations", "string[]"), Member("prices", "int[]"), Member("departure", "Instant"),
    Member("durations", "Duration[]"), Member("stopoverTimes", "Duration[]"),
    Member("dates", "Date[]"), Member("type", "char")},
  delete_train |-> {Member("id", "string")},
  release_train |-> {Member("id", "string")},
  query_train |-> {Member("id", "string"), Member("date", "Date")}]

NodeSearch == {Member("from", "string"), Member("to", "string"), Member("date", "Date"),
               Checked("sort", "SortType")}

NodeOrders == [
  query_ticket |-> NodeSearch,
  query_transfer |-> NodeSearch,
  buy_ticket |-> {Member("currentUser", "string"), Member("train", "string"), Member("date", "Date"),
    Member("seats", "int"), Member("from", "string"), Member("to", "string"), Checked("queue", "bool")},
  query_order |-> {Member("currentUser", "string")},
  refund_ticket |-> {Member("currentUser", "string"), Checked("index", "int")},
  rollback |-> {Member("timestamp", "int")},
  clean |-> {},
  exit |-> {}]

NodeMembers == ByWord(NodeAccounts @@ NodeTrains @@ NodeOrders)

(* What is read from the JavaScript value of a text: a list has as many    *)
(* elements as the text has pieces, a truth value is "true" or "false".    *)
NodeValue(type, text) ==
  CASE type = "string" -> text
    [] type = "bool" -> text = <<"true">>
    [] type \in ListTypes -> [k \in DOMAIN text |-> Scalar(type, text[k])]
    [] OTHER -> Scalar(type, text[1])

(* The command of the word, where given[name] is the text for a member.    *)
NodeCommand(word, given) ==
  [name \in DOMAIN CommandStructs[word] |->
     LET member == CHOOSE m \in NodeMembers[word] : m.name = name
     IN  IF member.checked /\ name \notin DOMAIN given THEN CommandStructs[word][name]
         ELSE NodeValue(member.type, given[name])]

=============================================================================
