---------------------------- MODULE TrainCatalog ----------------------------
(***************************************************************************)
(* Trains, their stops and their rides (train.cpp).  A train is added,     *)
(* then deleted or released, and each of the three can be rolled back.  In *)
(* contrast to orders and users, a train whose creation is undone is       *)
(* destroyed and its id is given to the next train: the free ids form the  *)
(* free list of the trains file, the last one freed first.                 *)
(*                                                                         *)
(* A line is what AddTrain is told about a train: its stops, the day (from *)
(* the day the train sets out) on which it departs from each stop but the  *)
(* last, the seats and the dates.  Times and prices are left out, and a    *)
(* station or a name stands for its hash.                                  *)
(***************************************************************************)
EXTENDS CommandLog, RideSeats, SequencesExt

CONSTANTS
  TrainNames,
  Lines,       \* records with fields stops, days, seats and dates
  MaxTrains,   \* bound: the ids of the trains file
  MaxLog       \* bound: the length of the rollback log

ASSUME LinesAssumption ==
  \A line \in Lines :
    /\ DOMAIN line.stops = 1 .. Len(line.stops)
    /\ Len(line.stops) >= 2
    /\ IsInjective(line.stops)
    /\ line.days \in [1 .. Len(line.stops) - 1 -> Nat]
    /\ line.seats \in Nat \ {0}
    /\ line.dates \subseteq Int
ASSUME CatalogBoundsAssumption == MaxTrains \in Nat /\ MaxLog \in Nat

VARIABLES
  trains,       \* the trains file: the records in use, by id
  freeTrains,   \* its free list
  ixId,         \* Train::ixId: pairs of a name and an id
  ixStop,       \* Train::ixStop: pairs of a station and an id
  rideSeats     \* RideSeats::ixRide: the free seats of a ride <<id, date>>

catalogVars == <<trains, freeTrains, ixId, ixStop, rideSeats>>
vars == <<now, log, call, catalogVars>>

Init ==
  /\ now = 0
  /\ log = <<>>
  /\ call = NoCall
  /\ trains = <<>>
  /\ freeTrains = <<>>
  /\ ixId = {}
  /\ ixStop = {}
  /\ rideSeats = <<>>

-----------------------------------------------------------------------------
(* The records of the trains file, and the rides and stops of a train.     *)

Update(id, train) ==
  trains' = [i \in DOMAIN trains \cup {id} |-> IF i = id THEN train ELSE trains[i]]

(* save(): the first free id, or the next one.                             *)
NewId == IF freeTrains # <<>> THEN Head(freeTrains) ELSE Cardinality(DOMAIN trains) + 1

(* Mistake: the id that is used again stays free.                          *)
SaveKeepsFree(train) ==
  /\ NewId <= MaxTrains
  /\ Update(NewId, train)
  /\ UNCHANGED freeTrains

Save(train) ==
  /\ NewId <= MaxTrains
  /\ Update(NewId, train)
  /\ freeTrains' = IF freeTrains # <<>> THEN Tail(freeTrains) ELSE freeTrains

Destroy(id) ==
  /\ trains' = Restrict(trains, DOMAIN trains \ {id})
  /\ freeTrains' = <<id>> \o freeTrains

StopsOf(id) == {<<station, id>> : station \in ToSet(trains[id].line.stops)}
RidesOf(id) == {<<id, date>> : date \in trains[id].line.dates}
AllFree(line) == [e \in 0 .. Len(line.stops) - 2 |-> line.seats]

-----------------------------------------------------------------------------
(* The commands.  A command that fails a check changes nothing.            *)

(* Mistake: the name may be taken.                                         *)
AddTrainTwice(name, line) ==
  /\ Idle
  /\ Len(log) < MaxLog
  /\ Save([name |-> name, line |-> line, released |-> FALSE, deleted |-> FALSE])
  /\ ixId' = ixId \cup {<<name, NewId>>}
  /\ Log([op |-> "AddTrain", id |-> NewId])
  /\ UNCHANGED <<now, call, ixStop, rideSeats>>

AddTrain(name, line) ==
  /\ Idle
  /\ Len(log) < MaxLog
  /\ \A id \in DOMAIN trains : <<name, id>> \notin ixId
  /\ Save([name |-> name, line |-> line, released |-> FALSE, deleted |-> FALSE])
  /\ ixId' = ixId \cup {<<name, NewId>>}
  /\ Log([op |-> "AddTrain", id |-> NewId])
  /\ UNCHANGED <<now, call, ixStop, rideSeats>>

(* Mistake: a released train can be deleted.                               *)
DeleteReleasedTrain(name, id) ==
  /\ Idle
  /\ Len(log) < MaxLog
  /\ <<name, id>> \in ixId
  /\ Update(id, [trains[id] EXCEPT !.deleted = TRUE])
  /\ ixId' = ixId \ {<<name, id>>}
  /\ Log([op |-> "DeleteTrain", id |-> id])
  /\ UNCHANGED <<now, call, freeTrains, ixStop, rideSeats>>

DeleteTrain(name, id) ==
  /\ Idle
  /\ Len(log) < MaxLog
  /\ <<name, id>> \in ixId
  /\ ~ trains[id].released
  /\ Update(id, [trains[id] EXCEPT !.deleted = TRUE])
  /\ ixId' = ixId \ {<<name, id>>}
  /\ Log([op |-> "DeleteTrain", id |-> id])
  /\ UNCHANGED <<now, call, freeTrains, ixStop, rideSeats>>

ReleaseTrain(name, id) ==
  /\ Idle
  /\ Len(log) < MaxLog
  /\ <<name, id>> \in ixId
  /\ ~ trains[id].released
  /\ Update(id, [trains[id] EXCEPT !.released = TRUE])
  /\ ixStop' = ixStop \cup StopsOf(id)
  /\ rideSeats' = [r \in DOMAIN rideSeats \cup RidesOf(id) |->
                     IF r \in RidesOf(id) THEN AllFree(trains[id].line) ELSE rideSeats[r]]
  /\ Log([op |-> "ReleaseTrain", id |-> id])
  /\ UNCHANGED <<now, call, freeTrains, ixId>>

(* Mistake: forgets the log.                                               *)
CleanButLog ==
  /\ Idle
  /\ trains' = <<>>
  /\ freeTrains' = <<>>
  /\ ixId' = {}
  /\ ixStop' = {}
  /\ rideSeats' = <<>>
  /\ UNCHANGED <<now, log, call>>

(* command::run(Clean), the files of this component and the log.           *)
Clean ==
  /\ Idle
  /\ log' = <<>>
  /\ trains' = <<>>
  /\ freeTrains' = <<>>
  /\ ixId' = {}
  /\ ixStop' = {}
  /\ rideSeats' = <<>>
  /\ UNCHANGED <<now, call>>

-----------------------------------------------------------------------------
(* Rollback and the visitors that undo an entry of this component.         *)

Rollback(t) == StartRollback(t) /\ UNCHANGED catalogVars

EndRollback == RollbackDone /\ UNCHANGED catalogVars

Undoes(op) ==
  /\ HasEntryToUndo
  /\ Newest.content.op = op
  /\ DestroyEntry
  /\ UNCHANGED <<now, call>>

UndoAddTrain ==
  LET id == Newest.content.id
  IN  /\ Undoes("AddTrain")
      /\ ixId' = ixId \ {<<trains[id].name, id>>}
      /\ Destroy(id)
      /\ UNCHANGED <<ixStop, rideSeats>>

UndoDeleteTrain ==
  LET id == Newest.content.id
  IN  /\ Undoes("DeleteTrain")
      /\ Update(id, [trains[id] EXCEPT !.deleted = FALSE])
      /\ ixId' = ixId \cup {<<trains[id].name, id>>}
      /\ UNCHANGED <<freeTrains, ixStop, rideSeats>>

(* Mistake: the stops stay in the index.                                   *)
UndoReleaseTrainKeepsStops ==
  LET id == Newest.content.id
  IN  /\ Undoes("ReleaseTrain")
      /\ Update(id, [trains[id] EXCEPT !.released = FALSE])
      /\ rideSeats' = Restrict(rideSeats, DOMAIN rideSeats \ RidesOf(id))
      /\ UNCHANGED <<freeTrains, ixId, ixStop>>

UndoReleaseTrain ==
  LET id == Newest.content.id
  IN  /\ Undoes("ReleaseTrain")
      /\ Update(id, [trains[id] EXCEPT !.released = FALSE])
      /\ ixStop' = ixStop \ StopsOf(id)
      /\ rideSeats' = Restrict(rideSeats, DOMAIN rideSeats \ RidesOf(id))
      /\ UNCHANGED <<freeTrains, ixId>>

-----------------------------------------------------------------------------
Command ==
  \/ \E name \in TrainNames, line \in Lines : AddTrain(name, line)
  \/ \E name \in TrainNames, id \in DOMAIN trains :
       DeleteTrain(name, id) \/ ReleaseTrain(name, id)
  \/ Clean

Undo == UndoAddTrain \/ UndoDeleteTrain \/ UndoReleaseTrain

Next ==
  \/ \E t \in 0 .. MaxTime : ReadTimestamp(t) /\ UNCHANGED catalogVars
  \/ Command
  \/ \E t \in 0 .. MaxTime : Rollback(t)
  \/ Undo
  \/ EndRollback

Spec == Init /\ [][Next]_vars

-----------------------------------------------------------------------------
(* command::run(QueryTicket): the trains that stop at both stations, found *)
(* through the index of stops, that call at `from' first and set out from  *)
(* it on the date asked for, each with the seats it has left.              *)

IndexOfStop(line, station) == SelectInSeq(line.stops, LAMBDA s : s = station)

(* Mistake: the date of the departure is taken for the date of the ride.   *)
RideFromSameDay(id, date, ix) == <<id, date>>

(* Train::getRide(date, ixDeparture).                                      *)
RideFrom(id, date, ix) == <<id, date - trains[id].line.days[ix]>>

QueryTicket(from, to, date) ==
  {[train |-> id,
    seats |-> TicketsAvailable(
                rideSeats[RideFrom(id, date, IndexOfStop(trains[id].line, from))],
                IndexOfStop(trains[id].line, from) - 1,
                IndexOfStop(trains[id].line, to) - 1)] :
     id \in {i \in DOMAIN trains :
               LET line == trains[i].line
               IN  /\ <<from, i>> \in ixStop
                   /\ <<to, i>> \in ixStop
                   /\ IndexOfStop(line, from) < IndexOfStop(line, to)
                   /\ RideFrom(i, date, IndexOfStop(line, from)) \in DOMAIN rideSeats}}

-----------------------------------------------------------------------------
(* Properties                                                              *)

Train == [name : TrainNames, line : Lines, released : BOOLEAN, deleted : BOOLEAN]

(* The ids in use and the free ones are the ids 1 to n.                    *)
TypeOK ==
  /\ \A id \in DOMAIN trains : trains[id] \in Train
  /\ IsInjective(freeTrains)
  /\ ToSet(freeTrains) \cap DOMAIN trains = {}
  /\ ToSet(freeTrains) \cup DOMAIN trains = 1 .. (Len(freeTrains) + Cardinality(DOMAIN trains))
  /\ ixId \subseteq TrainNames \X Nat
  /\ \A r \in DOMAIN rideSeats : rideSeats[r] \in [DOMAIN rideSeats[r] -> Int]

Released == {id \in DOMAIN trains : trains[id].released}

(* The three indices say what the comments of train.h:50-53 say: ixId has  *)
(* the trains that are not deleted, ixStop and ixRide the stops and rides  *)
(* of the released ones, and nothing of a train that is gone; no id is in  *)
(* use and free at once, and none is lost.                                 *)
IndicesExact ==
  /\ TypeOK
  /\ ixId = {<<trains[id].name, id>> : id \in {i \in DOMAIN trains : ~ trains[i].deleted}}
  /\ ixStop = UNION {StopsOf(id) : id \in Released}
  /\ DOMAIN rideSeats = UNION {RidesOf(id) : id \in Released}

(* A name belongs to one train at most, however often it was added,        *)
(* deleted, added again and rolled back in between.                        *)
NamesUnique ==
  \A p, q \in ixId : p[1] = q[1] => p = q

Life(id) ==
  IF id \notin DOMAIN trains THEN <<>>
  ELSE IF trains[id].deleted THEN <<"AddTrain", "DeleteTrain">>
  ELSE IF trains[id].released THEN <<"AddTrain", "ReleaseTrain">>
  ELSE <<"AddTrain">>

EntriesOf(id) == {k \in DOMAIN log : log[k].content.id = id}

(* Ids are given out again, and still the log never speaks of a train      *)
(* other than the one an entry was written for: the entries about an id    *)
(* are, in order, the life of the train that has it now, which is never    *)
(* both deleted and released, and there is none about a free id.           *)
LogTellsEachLife ==
  \A id \in 1 .. MaxTrains :
    /\ \E place \in [DOMAIN Life(id) -> DOMAIN log] :
         /\ EntriesOf(id) = {place[n] : n \in DOMAIN Life(id)}
         /\ \A n \in DOMAIN Life(id) : log[place[n]].content.op = Life(id)[n]
         /\ \A m, n \in DOMAIN Life(id) : m < n => place[m] < place[n]
    /\ id \in DOMAIN trains => ~ (trains[id].deleted /\ trains[id].released)

Departs(line, from, to, date) ==
  \E i, j \in DOMAIN line.stops :
    /\ i < j
    /\ line.stops[i] = from
    /\ line.stops[j] = to
    /\ date - line.days[i] \in line.dates

(* QueryTicket offers exactly the released trains that go from the one     *)
(* station to the other and set out from the first on that date.           *)
QueryTicketExact ==
  Idle =>
    \A from, to \in UNION {ToSet(line.stops) : line \in Lines},
       date \in UNION {{d + n : d \in line.dates, n \in {0, 1}} : line \in Lines} :
      from # to =>
        {offer.train : offer \in QueryTicket(from, to, date)} =
          {id \in Released : Departs(trains[id].line, from, to, date)}

=============================================================================
