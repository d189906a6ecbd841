------------------------------ MODULE Transfer ------------------------------
(***************************************************************************)
(* The search for a journey with one change (command::run(QueryTransfer),  *)
(* train.cpp), over the trains that are on sale.  A section is what one    *)
(* train does of the journey.  At every station where a section from the   *)
(* origin meets a section to the destination, the ones are taken in order  *)
(* of arrival, and the others, moved to later and later dates as needed,   *)
(* wait in a priority queue with the values they had when they were added. *)
(*                                                                         *)
(* Times count from the start of the first date; a train's from the start  *)
(* of the day it sets out, and a section's from the date asked for.        *)
(***************************************************************************)
EXTENDS Datetime, SequencesExt, FiniteSetsExt

CONSTANTS
  Timetables,   \* sequences of trains, in the order of their names
  Queries       \* records with fields from, to, date and sort

ASSUME QueriesAssumption ==
  \A q \in Queries : q.from # q.to /\ q.date \in Int /\ q.sort \in {"time", "cost"}
ASSUME TimetablesAssumption ==
  \A timetable \in Timetables : timetable \in Seq(ToSet(timetable)) /\ \A id \in DOMAIN timetable :
    LET train == timetable[id]
        edges == 1 .. Len(train.stops) - 1
    IN  /\ train.stops \in Seq(ToSet(train.stops))
        /\ IsInjective(train.stops)
        /\ train.departs \in [edges -> Nat]
        /\ train.arrives \in [edges -> Nat]
        /\ train.prices \in [edges -> Nat]
        /\ \A e \in edges :
             /\ train.departs[e] <= train.arrives[e]
             /\ e + 1 \in edges => train.arrives[e] <= train.departs[e + 1]
        /\ train.begin \in Int /\ train.end \in Int /\ train.begin <= train.end

VARIABLES
  trains,    \* the released trains
  cmd,       \* the query
  phase,     \* where the search is: "station", "train", "queue" or "done"
  left,      \* the stations still to be looked at
  froms,     \* Vf of the station at hand: the sections not yet looked at
  from,      \* the section from the origin that is looked at
  tos,       \* Vt of the station at hand: the sections to the destination
  queue,     \* heap of pairs: a section when it was pushed, and its place in tos
  answer     \* ANS: the best solution so far, if any

vars == <<trains, cmd, phase, left, froms, from, tos, queue, answer>>

-----------------------------------------------------------------------------
(* The sections                                                            *)

IndexOfStop(train, station) == SelectInSeq(train.stops, LAMBDA s : s = station)

TotalPrice(train, ixFrom, ixTo) ==
  LET price[j \in ixFrom .. ixTo] == IF j = ixFrom THEN 0 ELSE price[j - 1] + train.prices[j - 1]
  IN  price[ixTo]

Section(id, mid, departure, arrival, price, res) ==
  [train |-> id, mid |-> mid, departure |-> departure, arrival |-> arrival,
   price |-> price, res |-> res, deleted |-> FALSE]

(* Vf: a train that leaves the origin on the date asked for, up to each of *)
(* the stops that follow.                                                  *)
SectionsFrom(id) ==
  LET train == trains[id]
      key == IndexOfStop(train, cmd.from)
      late == DaysOverflow(train.departs[key])
  IN  IF key \in 1 .. Len(train.stops) - 1 /\ InRange(cmd.date - late, train.begin, train.end)
      THEN {Section(id, train.stops[j],
                    WithoutOverflow(train.departs[key]),
                    train.arrives[j - 1] - late * kDay,
                    TotalPrice(train, key, j), 0) : j \in key + 1 .. Len(train.stops)}
      ELSE {}

(* How many days the first run of a train has to be put off for it not to  *)
(* leave a stop before the date asked for, as far as it runs.              *)
DaysToPutOff(train, departure) ==
  Min({train.end - train.begin} \cup
      {n \in 0 .. train.end - train.begin : DaysOverflow(departure) + n >= 0})

(* Vt: a train that stops at the destination, from each of the stops before *)
(* it, on the first date that is not too early.  res is the number of      *)
(* dates that are left.                                                    *)
SectionsTo(id) ==
  LET train == trains[id]
      key == IndexOfStop(train, cmd.to)
      Shift == (train.begin - cmd.date) * kDay
      SectionAt(j) ==
        LET n == DaysToPutOff(train, train.departs[j] + Shift)
        IN  Section(id, train.stops[j],
                    train.departs[j] + Shift + n * kDay,
                    train.arrives[key - 1] + Shift + n * kDay,
                    TotalPrice(train, j, key), train.end - train.begin - n)
  IN  {section \in {SectionAt(j) : j \in 1 .. key - 1} : DaysOverflow(section.departure) >= 0}

AllFrom == UNION {SectionsFrom(id) : id \in DOMAIN trains}
AllTo == UNION {SectionsTo(id) : id \in DOMAIN trains}

At(mid, sections) == {section \in sections : section.mid = mid}

(* The orders in which sort() may leave a set of sections.                 *)
Sorted(sections) ==
  {seq \in SetToSeqs(sections) :
     \A i, j \in DOMAIN seq :
       i < j => WithoutOverflow(seq[i].departure) <= WithoutOverflow(seq[j].departure)}

(* Section::move_to_tomorrow, where dates are left.                        *)
MoveToTomorrow(section) ==
  [section EXCEPT !.departure = @ + kDay, !.arrival = @ + kDay, !.res = @ - 1]

(* The values a section takes one after the other until it does not leave  *)
(* before the given time or runs out of dates.                             *)
Moves(section, time) ==
  LET n == Min({section.res} \cup
               {k \in 0 .. section.res : section.departure + k * kDay >= time})
      moved[k \in 0 .. n] == IF k = 0 THEN section ELSE MoveToTomorrow(moved[k - 1])
  IN  moved

(* What is pushed for the moves of the section at i.                       *)
Pairs(i, time) ==
  LET moved == Moves(tos[i], time)
  IN  [k \in DOMAIN moved \ {0} |-> [first |-> moved[k], second |-> i]]

Moved(section, time) ==
  LET last == Moves(section, time)[Max(DOMAIN Moves(section, time))]
  IN  [last EXCEPT !.deleted = @ \/ last.departure < time]

-----------------------------------------------------------------------------
(* The orders of the queue and of the solutions                            *)

(* a is smaller than b, the first number deciding before the later ones.   *)
Smaller(a, b) ==
  \E i \in DOMAIN a : a[i] < b[i] /\ \A j \in 1 .. i - 1 : a[j] = b[j]

(* SectionCmp                                                              *)
Rank(section) ==
  IF cmd.sort = "cost" THEN <<section.price, section.arrival, section.train>>
  ELSE <<section.arrival, section.price, section.train>>

Lower(a, b) == Smaller(Rank(b.first), Rank(a.first))

INSTANCE PairingHeap WITH Less <- Lower

(* Sol::operator<                                                          *)
Key(sol) ==
  LET price == sol.from.price + sol.to.price
      time == sol.to.arrival - sol.from.departure
  IN  (IF cmd.sort = "time" THEN <<time, price>> ELSE <<price, time>>)
        \o <<sol.from.train, sol.to.train>>

-----------------------------------------------------------------------------
(* The search.  The stations are numbered by a hash map: any may be next.  *)

Nothing == [train |-> 0]

Init ==
  /\ trains \in Timetables
  /\ cmd \in Queries
  /\ phase = "station"
  /\ left = {s.mid : s \in AllFrom} \cap {s.mid : s \in AllTo}
  /\ froms = {}
  /\ from = Nothing
  /\ tos = <<>>
  /\ queue = EmptyHeap
  /\ answer = {}

NextStation(mid) ==
  /\ phase = "station"
  /\ mid \in left
  /\ left' = left \ {mid}
  /\ froms' = At(mid, AllFrom)
  /\ tos' \in Sorted(At(mid, AllTo))
  /\ queue' = PushedAll(EmptyHeap, [i \in DOMAIN tos' |-> [first |-> tos'[i], second |-> i]])
  /\ phase' = "train"
  /\ UNCHANGED <<trains, cmd, from, answer>>

(* The queue when the moves of all sections have been pushed.              *)
QueueAfter(time) ==
  LET after[i \in 0 .. Len(tos)] ==
        IF i = 0 THEN queue ELSE PushedAll(after[i - 1], Pairs(i, time))
  IN  after[Len(tos)]

(* Mistake: the first values of a section are the only ones in the queue.  *)
NextTrainWithoutPush(f) ==
  /\ phase = "train"
  /\ f \in froms
  /\ \A other \in froms : f.arrival <= other.arrival
  /\ froms' = froms \ {f}
  /\ from' = f
  /\ tos' = [i \in DOMAIN tos |-> Moved(tos[i], f.arrival)]
  /\ phase' = "queue"
  /\ UNCHANGED <<trains, cmd, left, queue, answer>>

(* The next train in order of arrival: the sections it is too late for are *)
(* moved, and pushed again each time.                                      *)
NextTrain(f) ==
  /\ phase = "train"
  /\ f \in froms
  /\ \A other \in froms : f.arrival <= other.arrival
  /\ froms' = froms \ {f}
  /\ from' = f
  /\ tos' = [i \in DOMAIN tos |-> Moved(tos[i], f.arrival)]
  /\ queue' = QueueAfter(f.arrival)
  /\ phase' = "queue"
  /\ UNCHANGED <<trains, cmd, left, answer>>

(* Mistake: the values of a section that has been moved or deleted count.  *)
NeverOutdated(pair) == FALSE

(* The section has changed since it was pushed, or has no date left.       *)
Outdated(pair) ==
  \/ tos[pair.second].deleted
  \/ \E field \in {"departure", "arrival", "price"} : tos[pair.second][field] # pair.first[field]

Refused(pair) == pair.first.train = from.train \/ Outdated(pair)

PopHead ==
  /\ phase = "queue"
  /\ queue # EmptyHeap
  /\ Refused(TopOf(queue))
  /\ queue' = Popped(queue)
  /\ UNCHANGED <<trains, cmd, phase, left, froms, from, tos, answer>>

(* The head that is taken stays in the queue.                              *)
TakeHead ==
  /\ phase = "queue"
  /\ queue # EmptyHeap
  /\ ~ Refused(TopOf(queue))
  /\ LET sol == [from |-> from, to |-> tos[TopOf(queue).second]]
     IN  answer' = IF \A best \in answer : Smaller(Key(sol), Key(best)) THEN {sol} ELSE answer
  /\ phase' = "train"
  /\ UNCHANGED <<trains, cmd, left, froms, from, tos, queue>>

NoHead ==
  /\ phase = "queue"
  /\ queue = EmptyHeap
  /\ phase' = "train"
  /\ UNCHANGED <<trains, cmd, left, froms, from, tos, queue, answer>>

(* Mistake: the queue of one station is used for the next.                 *)
StationDoneKeepsQueue ==
  /\ phase = "train"
  /\ froms = {}
  /\ phase' = IF left = {} THEN "done" ELSE "station"
  /\ from' = Nothing
  /\ tos' = <<>>
  /\ UNCHANGED <<trains, cmd, left, froms, queue, answer>>

StationDone ==
  /\ phase = "train"
  /\ froms = {}
  /\ phase' = IF left = {} THEN "done" ELSE "station"
  /\ from' = Nothing
  /\ tos' = <<>>
  /\ queue' = EmptyHeap
  /\ UNCHANGED <<trains, cmd, left, froms, answer>>

Next ==
  \/ \E mid \in left : NextStation(mid)
  \/ \E f \in froms : NextTrain(f)
  \/ PopHead
  \/ TakeHead
  \/ NoHead
  \/ StationDone

Spec == Init /\ [][Next]_vars

-----------------------------------------------------------------------------
(* What the search is for: the journeys with one change.                   *)

(* One train from a stop to a later one, setting out on a date.            *)
Leg(id, i, j, date) ==
  LET train == trains[id]
  IN  [train |-> id,
       departure |-> (date - cmd.date) * kDay + train.departs[i],
       arrival |-> (date - cmd.date) * kDay + train.arrives[j - 1],
       price |-> TotalPrice(train, i, j)]

LegsOf(id, origin, destination) ==
  LET train == trains[id]
      i == IndexOfStop(train, origin)
      j == IndexOfStop(train, destination)
  IN  {Leg(id, i, j, date) : date \in IF 0 < i /\ i < j THEN train.begin .. train.end ELSE {}}

Legs(origin, destination) == UNION {LegsOf(id, origin, destination) : id \in DOMAIN trains}

Stations == UNION {ToSet(trains[id].stops) : id \in DOMAIN trains}

Journeys(mid) ==
  {journey \in [from : Legs(cmd.from, mid), to : Legs(mid, cmd.to)] :
     /\ journey.from.train # journey.to.train
     /\ DaysOverflow(journey.from.departure) = 0
     /\ journey.from.arrival <= journey.to.departure}

-----------------------------------------------------------------------------
(* Properties                                                              *)

Finished == phase = "done" \/ (phase = "station" /\ left = {})

LegOf(section) ==
  [train |-> section.train, departure |-> section.departure,
   arrival |-> section.arrival, price |-> section.price]

(* The bound on the depth of the heap: no more is ever pushed for a station. *)
MaxPushed ==
  Len(trains) * Max({0} \cup {trains[id].end - trains[id].begin + 1 : id \in DOMAIN trains})

(* Through pushes and pops in any order, the head of the queue is the best *)
(* of all that is in it, nothing is left in it for the next station, and a *)
(* section that can still be changed to is in it as it is now, unless its  *)
(* train comes from the origin itself.                                     *)
QueueExact ==
  LET waiting == ValuesIn(queue, MaxPushed)
  IN  /\ \A pair \in waiting : pair.second \in DOMAIN tos
      /\ queue # EmptyHeap => \A pair \in waiting : ~ Lower(TopOf(queue), pair)
      /\ \A i \in DOMAIN tos :
           ~ tos[i].deleted /\ At(tos[i].mid, SectionsFrom(tos[i].train)) = {} =>
             [first |-> tos[i], second |-> i] \in waiting

(* The answer is a journey that can be made: two trains that run on the    *)
(* dates it takes them for, the first from the origin on the date asked    *)
(* for, the second not before the first is there.                          *)
AnswerIsJourney ==
  \A sol \in answer :
    /\ sol.from.mid = sol.to.mid
    /\ [from |-> LegOf(sol.from), to |-> LegOf(sol.to)] \in Journeys(sol.from.mid)

(* A train that goes from the origin to the destination by way of mid.     *)
Through(mid) ==
  \E id \in DOMAIN trains :
    LET Ix(station) == IndexOfStop(trains[id], station)
    IN  0 < Ix(cmd.from) /\ Ix(cmd.from) < Ix(mid) /\ Ix(mid) < Ix(cmd.to)

BestVia(mid) ==
  \A journey \in Journeys(mid) :
    \E sol \in answer : ~ Smaller(Key(journey), Key(sol))

(* There is no better journey than the answer with a change at a station   *)
(* that no train passes on its way from the origin to the destination.     *)
BestWhereNoThroughTrain ==
  Finished => \A mid \in Stations : ~ Through(mid) => BestVia(mid)

(* "cannot transfer to the same train" (train.cpp:383), and only that is   *)
(* excluded: no journey with two trains is better than the answer.         *)
AnswerIsBest == Finished => \A mid \in Stations : BestVia(mid)

=============================================================================
