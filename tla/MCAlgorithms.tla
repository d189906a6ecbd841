---------------------------- MODULE MCAlgorithms ----------------------------
(* The algorithms without a store behind them, each by itself: the tree of *)
(* Map, the binary search, the sort and the parser with the front ends.    *)
(* One of them leaves its initial state, the others stay in theirs.        *)
EXTENDS RbTree, Search, FrontEnds

VARIABLES input, output   \* ghost: what is sorted, and what comes out

sortVars == <<input, output>>

-----------------------------------------------------------------------------
(* Requests and lines.                                                     *)

MCAtoi(piece) ==
  CASE piece = "2" -> 2 [] piece = "3" -> 3 [] piece = "5" -> 5 [] piece = "7" -> 7
    [] piece = "1" -> 1 [] piece = "40" -> 40 [] OTHER -> 0

MCDigits(piece) ==
  CASE piece = "06-17" -> <<0, 6, 1, 7>> [] piece = "08-31" -> <<0, 8, 3, 1>>
    [] piece = "19:30" -> <<1, 9, 3, 0>>

MCFirstChar(piece) ==
  CASE piece \in {"true", "time"} -> "t" [] piece = "false" -> "f" [] piece = "cost" -> "c"
    [] piece = "G" -> "G"

(* Two texts for every member that is not a string; a string is given the  *)
(* name of its member, or its own flag, which then stands on the line      *)
(* twice.                                                                  *)
Samples == [
  privilege |-> << <<"7">>, <<"3">> >>, stops |-> << <<"3">>, <<"2">> >>,
  seats |-> << <<"40">>, <<"5">> >>, index |-> << <<"2">>, <<"1">> >>,
  timestamp |-> << <<"5">>, <<"40">> >>, date |-> << <<"06-17">>, <<"08-31">> >>,
  departure |-> << <<"19:30">>, <<"19:30">> >>,
  stations |-> << <<"north", "south">>, <<"-s", "-t", "north">> >>,
  prices |-> << <<"5", "7">>, <<"3">> >>, durations |-> << <<"40", "2">>, <<"7">> >>,
  stopoverTimes |-> << <<"5">>, <<"2", "2">> >>, dates |-> << <<"06-17", "08-31">>, <<"08-31">> >>,
  type |-> << <<"G">>, <<"G">> >>, sort |-> << <<"time">>, <<"cost">> >>,
  queue |-> << <<"true">>, <<"false">> >>]

TextFor(word, member, k) ==
  IF member \in DOMAIN Samples THEN Samples[member][k]
  ELSE IF k = 1 THEN <<member>> ELSE <<Manual[word][member]>>

RequestsFor(word) ==
  {[word |-> word, given |-> [member \in DOMAIN Manual[word] \ left |-> TextFor(word, member, k)]] :
     left \in SUBSET MayBeLeftOut(word), k \in 1 .. 2}

MCRequests == UNION {RequestsFor(word) : word \in DOMAIN Manual}

(* All orders of at most three flags, and of more one order in both        *)
(* directions, begun at any flag.                                          *)
MCOrders(names) ==
  LET n    == Cardinality(names)
      once == FoldSet(LAMBDA x, s : Append(s, x), <<>>, names)
      turned(k) == [j \in 1 .. n |-> once[((j + k) % n) + 1]]
  IN  IF n = 0 THEN {<<>>}
      ELSE IF n <= 3 THEN {s \in [1 .. n -> names] : \A j, k \in 1 .. n : s[j] = s[k] => j = k}
      ELSE {turned(k) : k \in 1 .. n} \cup {Reverse(turned(k)) : k \in 1 .. n}

Words == {<<"-u">>, <<"-p">>, <<"-n">>, <<"2">>}
MCPlainLines ==
  {<<>>} \cup
  {<<word>> \o rest : word \in {<<"login">>, <<"refund_ticket">>, <<"modify_profile">>, <<"clean">>, <<"fly">>},
                      rest \in UNION {[1 .. n -> Words] : n \in 0 .. 5}}
MCLines == MCPlainLines \cup 
  UNION {{LineOf(request, order) : order \in MCOrders(DOMAIN request.given)} : request \in MCRequests}
MCTexts == UNION {ToSet(line) : line \in MCLines}

-----------------------------------------------------------------------------
(* Sorting pairs of a key and a place, by the key.                         *)

KeyBefore(x, y) == x[1] < y[1]
Sorting == INSTANCE MergeSort WITH Lt <- KeyBefore

SortInit == input = <<>> /\ output = <<>>

CallSort ==
  /\ SortInit
  /\ \E n \in 1 .. 6 : \E sortKeys \in [1 .. n -> 1 .. 3] :
       /\ input' = [j \in 1 .. n |-> <<sortKeys[j], j>>]
       /\ output' = Sorting!Sort(input')

(* The result of sort() is the argument in order: nothing is lost, and     *)
(* nothing is taken twice.                                                 *)
SortExact ==
  /\ Len(output) = Len(input)
  /\ ToSet(output) = ToSet(input)
  /\ \A j \in 2 .. Len(output) : output[j - 1][1] <= output[j][1]

-----------------------------------------------------------------------------
MCInit == TreeInit /\ SearchInit /\ value = 1 /\ FrontInit /\ SortInit

MCNext ==
  \/ /\ SearchInit /\ FrontInit /\ SortInit /\ UNCHANGED <<searchVars, frontVars, sortVars>>
     /\ TreeNext
  \/ /\ TreeInit /\ FrontInit /\ SortInit /\ UNCHANGED <<treeVars, frontVars, sortVars>>
     /\ name = "none" \/ length # 0   \* one call is enough
     /\ SearchNext
  \/ /\ TreeInit /\ SearchInit /\ SortInit /\ UNCHANGED <<treeVars, searchVars, sortVars>>
     /\ FrontNext
  \/ /\ TreeInit /\ SearchInit /\ FrontInit /\ UNCHANGED <<treeVars, searchVars, frontVars>>
     /\ CallSort

MCSpec == MCInit /\ [][MCNext]_<<treeVars, searchVars, frontVars, sortVars>>

=============================================================================
