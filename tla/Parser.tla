------------------------------- MODULE Parser -------------------------------
(***************************************************************************)
(* The command parser (parser.cpp) and the loop of main() around it.  The  *)
(* file is generated and repeats one loop for every command; the loop is   *)
(* here, and what differs is given by the constants.  A text is a sequence *)
(* of pieces, the parts between the bars.                                  *)
(***************************************************************************)
EXTENDS Integers, Sequences

CONSTANTS
  Flags,         \* Flags[c]: the flags of command c, with the name and type of their field
  Struct,        \* Struct[c]: the fields of a command before anything is assigned
  Appended,      \* the types whose values are appended to the field
  Convert(_, _), \* Convert(type, text): the value a text is turned into
  Texts,         \* bound: the words
  Lines          \* bound: the lines that are read, as split() leaves them

ASSUME FlagsAssumption ==
  /\ DOMAIN Struct = DOMAIN Flags
  /\ \A c \in DOMAIN Flags : \A f, g \in Flags[c] :
       /\ f.name \in DOMAIN Struct[c]
       /\ (f.flag = g.flag \/ f.name = g.name) => f = g
ASSUME LinesAssumption == Lines \subseteq Seq(Texts)

VARIABLES
  argv,      \* the words of the line; argv[k] of the code is argv[k + 1] here
  i,         \* the index of the loop
  res,       \* the command under construction
  outcome    \* "idle", "parsing", "command", "refused" or "aborted"

parserVars == <<argv, i, res, outcome>>

NoCommand == <<>>

ParserInit ==
  /\ argv = <<>>
  /\ i = 1
  /\ res = NoCommand
  /\ outcome = "idle"

(* argv[0] of an empty line is out of bounds.                              *)
ReadLine(line) ==
  /\ outcome = "idle"
  /\ argv' = line
  /\ i' = 1
  /\ \/ line = <<>> /\ outcome' = "aborted" /\ res' = NoCommand
     \/ line # <<>> /\ line[1] \notin DOMAIN Flags /\ outcome' = "refused" /\ res' = NoCommand
     \/ /\ line # <<>>
        /\ line[1] \in DOMAIN Flags
        /\ res' = Struct[line[1]]
        /\ outcome' = IF Flags[line[1]] = {} THEN "command" ELSE "parsing"

Parsing == outcome = "parsing" /\ i < Len(argv)
IsFlagOf(f, k) == argv[k + 1] = f.flag
IsKnown(k) == \E f \in Flags[argv[1]] : IsFlagOf(f, k)

(* Mistakes: takes the flag for the value; keeps the value that came first. *)
ReadFlag(f) ==
  IF f.type \in Appended THEN res[f.name] \o Convert(f.type, argv[i + 2])
  ELSE Convert(f.type, argv[i + 1])
ReadFirst(f) ==
  IF f.type \in Appended THEN res[f.name] \o Convert(f.type, argv[i + 2])
  ELSE IF res[f.name] # Struct[argv[1]][f.name] THEN res[f.name]
  ELSE Convert(f.type, argv[i + 2])

Read(f) ==
  IF f.type \in Appended THEN res[f.name] \o Convert(f.type, argv[i + 2])
  ELSE Convert(f.type, argv[i + 2])

AssignField(f) ==
  /\ Parsing
  /\ IsFlagOf(f, i)
  /\ i + 1 < Len(argv)
  /\ res' = [res EXCEPT ![f.name] = Read(f)]
  /\ i' = i + 2
  /\ UNCHANGED <<argv, outcome>>

(* argv[++i] is out of bounds, and nothing catches the exception.          *)
MissValue ==
  /\ Parsing
  /\ IsKnown(i)
  /\ i + 1 = Len(argv)
  /\ outcome' = "aborted"
  /\ UNCHANGED <<argv, i, res>>

(* ParseException: main() returns 1.                                       *)
Refuse ==
  /\ Parsing
  /\ ~ IsKnown(i)
  /\ outcome' = "refused"
  /\ UNCHANGED <<argv, i, res>>

EndOfLine ==
  /\ outcome = "parsing"
  /\ i >= Len(argv)
  /\ outcome' = "command"
  /\ UNCHANGED <<argv, i, res>>

(* main() runs the command and reads the next line.                        *)
Dispatch ==
  /\ outcome = "command"
  /\ argv' = <<>>
  /\ i' = 1
  /\ res' = NoCommand
  /\ outcome' = "idle"

ParserStep ==
  \/ outcome = "parsing" /\ \E f \in Flags[argv[1]] : AssignField(f)
  \/ MissValue
  \/ Refuse
  \/ EndOfLine
  \/ Dispatch

ParserNext ==
  \/ \E line \in Lines : ReadLine(line)
  \/ ParserStep

ParserSpec == ParserInit /\ [][ParserNext]_parserVars

-----------------------------------------------------------------------------
(* Properties                                                              *)

IsFlagPlace(k) == k % 2 = 1

(* The places before k where the flag f stands as a flag.                  *)
GivenBefore(f, k) == {j \in 1 .. k - 1 : IsFlagPlace(j) /\ IsFlagOf(f, j)}

(* The field of f holds what was given last, or what it held at first.     *)
HoldsLast(f, k) ==
  \/ /\ GivenBefore(f, k) = {}
     /\ res[f.name] = Struct[argv[1]][f.name]
  \/ \E j \in GivenBefore(f, k) :
       /\ \A l \in GivenBefore(f, k) : l <= j
       /\ res[f.name] = Convert(f.type, argv[j + 2])

(* A line that is accepted consists of flags and values by turns.  Every   *)
(* field holds the last value given for it, whatever the order of the      *)
(* flags, and no value is taken for a flag, though it may look like one.   *)
LastValueCounts ==
  (outcome = "command" /\ Flags[argv[1]] # {}) =>
    /\ IsFlagPlace(Len(argv))
    /\ \A k \in 1 .. Len(argv) - 1 : IsFlagPlace(k) => IsKnown(k)
    /\ \A f \in Flags[argv[1]] : f.type \notin Appended => HoldsLast(f, Len(argv))

=============================================================================
