----------------------------- MODULE FrontEnds -----------------------------
(***************************************************************************)
(* The two ways a command is given: a line for the parser, or a call of    *)
(* the binding for Node.js.  A request is a command and the texts for its  *)
(* members, and it is typed as a line with the flags of commands.yml.      *)
(***************************************************************************)
EXTENDS Parser, CommandTables, FiniteSets, SequencesExt

CONSTANTS
  Requests,    \* bound: records of a word, that of the command, and given
  PlainLines,  \* bound: lines that are nobody's request, with any words
  Orders(_)    \* bound: orders in which the flags of a set are typed

VARIABLE asked   \* ghost: the request that is being parsed

frontVars == <<argv, i, res, outcome, asked>>

(* The flags of commands.yml.                                              *)
Manual ==
  LET profile == [currentUser |-> "-c", username |-> "-u", password |-> "-p", name |-> "-n",
                  email |-> "-m", privilege |-> "-g"]
      search  == [from |-> "-s", to |-> "-t", date |-> "-d", sort |-> "-p"]
  IN  ByWord([
        add_user |-> profile,
        login |-> [username |-> "-u", password |-> "-p"],
        logout |-> [username |-> "-u"],
        query_profile |-> [currentUser |-> "-c", username |-> "-u"],
        modify_profile |-> profile,
        add_train |-> [id |-> "-i", stops |-> "-n", seats |-> "-m", stations |-> "-s",
          prices |-> "-p", departure |-> "-x", durations |-> "-t", stopoverTimes |-> "-o",
          dates |-> "-d", type |-> "-y"],
        delete_train |-> [id |-> "-i"],
        release_train |-> [id |-> "-i"],
        query_train |-> [id |-> "-i", date |-> "-d"],
        query_ticket |-> search,
        query_transfer |-> search,
        buy_ticket |-> [currentUser |-> "-u", train |-> "-i", date |-> "-d", seats |-> "-n",
          from |-> "-f", to |-> "-t", queue |-> "-q"],
        query_order |-> [currentUser |-> "-u"],
        refund_ticket |-> [currentUser |-> "-u", index |-> "-n"],
        rollback |-> [timestamp |-> "-t"],
        clean |-> <<>>,
        exit |-> <<>>])

(* The members with a question mark or a default in commands.yml.          *)
MayBeLeftOut(word) ==
  CASE word = <<"modify_profile">> -> {"password", "name", "email", "privilege"}
    [] word \in {<<"query_ticket">>, <<"query_transfer">>} -> {"sort"}
    [] word = <<"buy_ticket">> -> {"queue"}
    [] word = <<"refund_ticket">> -> {"index"}
    [] OTHER -> {}

NoRequest == [word |-> <<>>, given |-> <<>>]

LineOf(request, order) ==
  <<request.word>> \o
    FlattenSeq([k \in DOMAIN order |->
                  << <<Manual[request.word][order[k]]>>, request.given[order[k]] >>])

FrontInit == ParserInit /\ asked = NoRequest

AskForCommand(request) ==
  \E order \in Orders(DOMAIN request.given) :
    ReadLine(LineOf(request, order)) /\ asked' = request

AskForAnything(line) == ReadLine(line) /\ asked' = NoRequest

FrontNext ==
  \/ outcome = "idle" /\ \E request \in Requests : AskForCommand(request)
  \/ outcome = "idle" /\ \E line \in PlainLines : AskForAnything(line)
  \/ ParserStep /\ asked' = IF outcome = "command" THEN NoRequest ELSE asked

FrontSpec == FrontInit /\ [][FrontNext]_frontVars

-----------------------------------------------------------------------------
(* Properties                                                              *)

(* A request that is complete is never refused, in whatever order its      *)
(* flags are typed, and though its values may look like flags; and run()   *)
(* gets the same command for the line as for the call of the binding.      *)
FrontEndsAgree ==
  asked # NoRequest =>
    /\ outcome \in {"parsing", "command"}
    /\ outcome = "command" => res = NodeCommand(asked.word, asked.given)

=============================================================================
