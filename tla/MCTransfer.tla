----------------------------- MODULE MCTransfer -----------------------------
(* Small instances of Transfer: four trains, out of lines that go to a    *)
(* change, on from it or all the way, by day and by night.  Times are in   *)
(* quarters of a day.                                                      *)
EXTENDS Transfer

CONSTANTS north, middle, other, south

Instants(quarters) == [e \in DOMAIN quarters |-> MinutesFromHm(6 * quarters[e], 0)]

Line(stops, departs, arrives, prices, begin, end) ==
  [stops |-> stops, departs |-> Instants(departs), arrives |-> Instants(arrives), prices |-> prices,
   begin |-> begin, end |-> end]

Early == Line(<<north, middle>>, <<0>>, <<1>>, <<2>>, 0, 1)
Night == Line(<<other, north, middle>>, <<3, 4>>, <<4, 5>>, <<1, 1>>, 0, 0)
Branch == Line(<<north, other, middle>>, <<1, 3>>, <<2, 6>>, <<1, 2>>, 0, 1)
Onward == Line(<<middle, south>>, <<1>>, <<3>>, <<2>>, 0, 2)
Slow == Line(<<other, middle, south>>, <<2, 5>>, <<3, 6>>, <<1, 1>>, -1, 1)
Express == Line(<<north, middle, south>>, <<0, 2>>, <<1, 3>>, <<2, 3>>, 0, 1)
Once == Line(<<middle, south>>, <<2>>, <<3>>, <<0>>, 0, 0)
Twice == Line(<<other, middle, south>>, <<0, 1>>, <<1, 2>>, <<1, 1>>, 0, 1)
Late == Line(<<north, middle>>, <<1>>, <<2>>, <<1>>, 1, 1)

Lines == {Early, Night, Branch, Onward, Slow, Express, Once, Twice, Late}

MCTimetables == [1 .. 4 -> Lines]
MCQueries ==
  {[from |-> north, to |-> south, date |-> date, sort |-> sort] :
     date \in 0 .. 2, sort \in {"time", "cost"}}

=============================================================================
