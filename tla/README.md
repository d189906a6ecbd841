# faketicket: a verification project

faketicket is the back end of a railway ticket service: one process reads
commands with timestamps from its standard input, changes users, trains and
orders kept in files of fixed-size chunks, and can roll everything back to an
earlier time. This directory holds TLA+ modules that model it, TLC
configurations that check them on small instances, and theorems about them
checked by TLAPS.

## The system

| component | state | operations | talks to |
| --- | --- | --- | --- |
| main loop (`src/main.cpp`) | current time | read a timestamp, parse, dispatch | every handler, one at a time |
| rollback (`src/rollback.cpp`) | log of entries, id of the last one | `log`, `Rollback` | the undo visitor of each component |
| accounts (`src/user.cpp`) | users, index by name, sessions with a cached privilege | `AddUser`, `Login`, `Logout`, `QueryProfile`, `ModifyProfile`, two undo visitors | rollback |
| trains (`src/train.cpp`) | trains, index by name, index of stops, seats of every ride | `AddTrain`, `DeleteTrain`, `ReleaseTrain`, `QueryTrain`, `QueryTicket`, `QueryTransfer`, three undo visitors | rollback |
| orders (`src/order.cpp`) | orders, index by user, queue by ride | `BuyTicket`, `QueryOrder`, `RefundTicket` with its pass over the queue, three undo visitors | accounts (sessions), trains (seats), rollback |
| clean and exit (`src/misc.cpp`) | none | truncate all files; end | all |
| chunk files (`lib/file/file.h`) | chunks, free list, user metadata | get, set, push, remove, truncate | the cache |
| cache (`lib/lru-cache.h`) | chunks in memory, with a dirty flag | get, upsert, clear | the stream of the file |
| indices (`lib/file/bptree.h`, `index.h`) | a tree of nodes in a chunk file | insert, remove, findOne, findMany, findAll, includes, truncate | chunk files, `array.h`, `set.h` |
| containers (`lib/*.h`) | hash map, red-black tree, heap, vector; binary search and sort | | everybody |
| dates (`lib/datetime.cpp`) | none | dates, instants and durations, and their texts | trains, the front ends |
| parser (`src/parser.cpp`, from `commands.yml`) | the command under construction | `parse` | main loop |
| binding (`src/node.cpp`) | none | one function per command, for Node.js | every handler |

Commands run one after the other, so the hard behaviours are not races. They
are the long sequences: handlers that change several files and write several
log entries, a rollback that undoes them one entry at a time through visitors
of three components that check nothing, ids that are used again, copies of
records written back late, caches (the privilege of a session, the chunks of a
file) beside the data they copy, and a tree whose nodes are copies in memory
until they are written.

What makes each component correct:

- **orders**: no seat is lost or sold twice; the queue is served in order and
  nobody waits for seats that are free; a rollback restores the book exactly;
  every change is in the log.
- **accounts**: a name has one user; no one gets the first user's privilege;
  a session's cached privilege follows its user.
- **trains**: the three indices name exactly the trains, stops and rides that
  exist, although ids are used again; the log never speaks of another train.
- **the whole**: every order's ride exists; undoing the entry of one component
  disturbs no other.
- **storage**: a read gives what was written last, an id in use is not given
  out, the log in its file is a sequence, a tree finds what was inserted.
- **containers**: the tree stays red-black and its iterators walk in order, the
  searches end at the bound, the sort loses nothing.
- **front ends**: a field holds the last value given for it; a line and a call
  of the binding give the handlers the same command.

## Modules

Components that write the rollback log extend `CommandLog`. The MC modules
(`MC...`) give the constants their values. `MCAlgorithms` puts the parts that
need no store side by side: one of them runs, the others stay in their initial
states. Theorems about a module `M` are in `MProofs`; those about `HashMap` are
in `CachedFileProofs`, those about `PairingHeap` and `Datetime` in
`TransferProofs`, and those about `Search`, `Parser` and `LogFile` together in
`SearchParserLogProofs`.

| module | models | state and actions |
| --- | --- | --- |
| `CommandLog` | `main.cpp`, `rollback.cpp` | the clock `now`, the `log` as a sequence, and `call`, the handler whose loop is running; no command starts while `call` is not `NoCall` |
| `RideSeats` | `RideSeatsBase` | `rangeAdd` and `ticketsAvailable` as operators on functions from edges to seats |
| `OrderBook` | `order.cpp` | purchases that succeed or wait, refunds, one step per iteration of the loops of `RefundTicket` (`SkipOrder`, `FulfillOrder`, `RefundDone`) and `Rollback` (one action per visitor) |
| `OrderBookHistory` | nothing new | `OrderBook` with a history variable: the book as it was before each entry. It holds the inductive invariant and the refinement mapping |
| `TicketService` | the promise of the order book | one book of orders for every moment of the past, and commands of a single step |
| `Accounts` | `user.cpp`, `misc.cpp` | users, index and sessions; `Clean` and `Exit`, which empty files and end the process |
| `TrainCatalog` | `train.cpp` but for `QueryTransfer` | trains, the free list of their file, the two indices, the seats of rides; `QueryTicket` as an operator |
| `TicketSystem` | all of the above | composes the three with `INSTANCE` over one clock, log and `call`; a purchase goes through the catalog |
| `Transfer` | `QueryTransfer` | the search as a loop: over the stations where one can change (`NextStation`), over the trains that arrive there (`NextTrain`, which moves the sections that leave too early), over the head of the queue (`PopHead`, `TakeHead`, `NoHead`); `Journeys` is what it is compared with |
| `PairingHeap` | `priority-queue.h` | heaps of nodes with sequences of children, and what `push`, `top` and `pop` make of them; the queue of `Transfer` is one |
| `CachedFile` | `File`, `Managed`, `LruCache` | the stream and the cache in `store`, the cache as a hash map; an operation on the file is the composition of the gets and sets of chunks it makes |
| `HashMap` | `hashmap.h` | maps as records of list nodes with two pointers each, of values, size and the number of buckets; `InsertKey` with its growth, `Erase`, `HasKey`, and the walks along the two lists every node hangs in |
| `Chunks` | `File::push`, `remove`, `truncate`, metadata | operators on files, a file being a header and its chunks |
| `ChunkFile` | the promise of `CachedFile` | a file without a cache, and the ids its clients hold |
| `ChunkStore` | the promise of `ChunkFile` | a function from the ids in use to objects |
| `LogFile` | `rollback.cpp` over `file.h` | the log as chunks, found by counting ids down from the metadata |
| `RollbackLog` | the promise of `LogFile` | the log of `CommandLog`, alone |
| `RbTree` | `internal/tree.h`, which `map.h` wraps | nodes with parent, children and colour, the header with the root, `leftmost_`; `Insert`, `Erase`, `Clear`, `AssignClone` with their fix-ups, the walks of the iterators |
| `Search` | `upperBound`, `lowerBound` of `algorithm.h` | the loop that halves the range, a step per iteration |
| `MergeSort` | `sort` of `algorithm.h` | a recursive operator |
| `Datetime` | `lib/datetime.cpp` | dates, instants, durations and their texts as operators; `Transfer` computes with them |
| `Parser` | `parser.cpp`, the loop of `main.cpp` | the words of a line, the index, the command under construction; `AssignField`, `MissValue` (a line that ends behind a flag ends the program), `Refuse`, `Dispatch` |
| `CommandTables` | the rest of `parser.cpp`, `parser.h`, `node.cpp` | the flags, members and types of every command, what a text is converted to, and the command a function of the binding builds |
| `FrontEnds` | `commands.yml` | requests, typed as lines with the flags of the manual in any order |
| `BpTree` | `bptree.h`, with `set.h` and `array.h` | the nodes in the chunks of a file; `Insert`, `RemoveOne`, `TruncateTree`, and the queries as operators |

Definitions whose comment begins with *Mistake* are variants of the definition
that follows, with the kind of slip the properties are meant to catch. No
specification uses them.

Layers are tied together by refinement: `LogFile` implements `RollbackLog`,
whose actions are those of `CommandLog`, with which the components are
modelled; `CachedFile` implements `ChunkFile`, whose operators, those of
`Chunks`, are what `LogFile` is built on, and which implements `ChunkStore`;
`OrderBookHistory` implements `TicketService`.

## What the runs show

All runs finish. `pass` runs find no error; a `violation` run checks a
statement of the code base that the code does not keep.

| run | instance | what is checked |
| --- | --- | --- |
| `orders` | one ride with two edges and two seats, three orders of up to two seats, two or three moments; four orders on a ride with two edges and one seat; three orders on two rides, or two of two users | `TypeOK`, `SeatConservation`, `NeverOversold`, `PendingIndexExact`, `UndoFindsItsOrder`, `NoOneWaitsInVain`, `UndoIsExact`, `EveryChangeIsLogged`, `NoQueueJumping`, the refinement `ImplementsService`, and `CommandsComplete` |
| `accounts_sessions` | two names, three records, privileges around 10 | `TypeOK`, `UsernamesUnique`, `NoEscalation`, `UndoFindsItsUser`, `SessionsStayExact` |
| `accounts_clean` | two names | violated: sessions are of users who exist (user.cpp:16) |
| `trains_life` | two names, three ids, two lines, one of them past midnight | `IndicesExact`, `NamesUnique`, `LogTellsEachLife`, `QueryTicketExact` |
| `system_rollback` | two users, two trains, three orders | `OrdersHaveTheirRide`, `SeatsAccounted`, `RollbackRestoresAll` |
| `transfer_search` | four trains out of nine lines, three dates, both orders | `AnswerIsJourney`, `BestWhereNoThroughTrain`, `QueueExact` |
| `transfer_same_train` | the same | violated: only changes to the same train are excluded (train.cpp:383) |
| `file_store` | three chunks and the header, a cache of three over a hash map that grows from four to eight buckets | `ImplementsFile`, `ImplementsStore`, `FreeListExact`, `CacheExact` |
| `log_file` | four chunks, times 0 to 2 | `IdsFollowEachOther`, `ImplementsSequence` |
| `bptree_queries` | nodes of up to four items; six pairs or fewer from an empty tree; trees grown from 7, 11 and 14 pairs in either order, and four operations more | `QueriesExact`, `WellFormed` (with `NoLeak`) |
| `algorithms` | a tree of up to ten items; sequences of up to five items to search and six to sort; a command and up to five words after it, out of four; every command of `commands.yml` with its members in many orders | `TreeIsRedBlack`, `WalksInOrder`, `BoundExact`, `SortExact`, `LastValueCounts`, `FrontEndsAgree` |
| `bptree_root` | nine keys | violated: a pair in the tree is found (bptree.h:81) |

### The bounds

Every bound is a constant: `MaxOrders`, `MaxRequest`, `MaxTime`, `MaxUsers`,
`MaxTrains`, `MaxLog`, `MaxChunks`, `MaxSteps`.

- *Orders.* A refund that serves two orders and passes over a third needs four
  orders; two edges are the least on which trips overlap without being equal;
  one more seat than the ride has shows the check of a request. Three moments
  let a rollback end in the middle of the log.
- *Accounts.* Three records for two names: a name is added again while the
  record of its undone predecessor is still in the file. Privileges 3, 5 and 10
  lie on both sides of each comparison with the default 10.
- *Trains.* Three ids for two names let an id be freed, given to another name,
  and freed again. A line that leaves a stop on the next day tells the date of a
  ride from the date of a departure.
- *Transfers.* Three trains are the least for which the choice of the second
  train depends on the first, and for which a train can hide itself from
  another; a fourth makes heaps whose root has several children when it is popped. The lines run on one to four dates, before and after the date asked for,
  by day and by night, so that sections are moved once, twice, and until no date is left. Times
  are multiples of six hours: what matters is only on which side of midnight a stop is.
- *Algorithms.* Ten values, inserted and erased in every order, reach all cases of
  both fix-ups on either side. The searches are called on ascending sequences with
  repetitions, for values they have and values beyond either end. Five words after
  the command have room for a flag that is given twice, a flag that is unknown or
  without a value, and values that look like flags. Every request is typed with two
  sets of texts, with and without the members that may be left out; its flags come
  in all orders up to three of them, and in all rotations beyond.
- *Storage.* A cache of three for three chunks and the header evicts in the
  middle of `push` and `remove`, and its map grows twice, the second time with
  nodes to take over; three of the four keys share a bucket before it, and two
  of them after. A free list
  of three ids has every order of removals, and the log in its file has four
  chunks. `kSize` is 512 in the code. The half limits of a node are dozens there,
  and static_assert asks only that they be at least 2; the models use 2, for which
  splits, loans and merges on every level happen within fourteen pairs. A tree of 7 pairs is about to split its root, one of 11 an
  inner node, and in one of 14 inner nodes lend and merge. The properties of
  `bptree_queries` say nothing once the root has been misplaced; that case is
  `bptree_root`.

### Fairness

`CommandsComplete` is checked under weak fairness of `LoopStep`, the iterations
of the loops of `RefundTicket` and `Rollback`. `main()` calls a handler and
waits for it; nothing can stop a loop or come between two iterations, so a
loop that can go on does. No fairness is assumed of commands: a user need not
ask for anything.

### Findings

- `accounts_clean`: `Clean` empties the files but not the set of sessions. A
  user who no longer exists stays logged in, with his old privilege.
- `bptree_root`: when two inner nodes merge into the only child of the root,
  `merge_` copies the child over the root with `memcpy`, the id included;
  `root.update()` writes the new root into the child's chunk. Chunk 0 keeps
  the old root, which still names the chunk that was just freed. Eight
  insertions, a removal and an insertion lose pairs in a tree with half limits
  of 2. `BpTree` goes on from there only with insertions that read no free
  chunk (`AfterDamage`), for what a free chunk holds when it is read as a node
  depends on the layout of the compiled structures.

- `transfer_same_train`: when the train of a section to the destination is the
  one the traveller has just arrived with, `QueryTransfer` pops the section and
  goes on; the trains that arrive later, and could well change to it, no longer find it.
  A train from north over middle to south (9:00, 10:00 to 11:00, 12:00) and one
  from north to middle (10:00 to 10:30) are enough: the answer is that there is
  no journey. `BestWhereNoThroughTrain` says how far the damage goes.

Three smaller disagreements have no run. `ticketsAvailable` and `rangeAdd` begin
with `TICKET_ASSERT(ixFrom > ixTo)` (train.cpp:61, 70), and every caller passes
them `ixFrom < ixTo`: a debug build aborts at the first purchase. The comment of `rangeAdd` (train.h:98)
calls the range inclusive, and the loop leaves `ixTo` alone, as the callers need.
`File::remove` gives the header back without the user's metadata, and
`push` brings back what the buried header held; the only user of metadata, the
rollback log, sets it again at the end of `log` and of `Rollback`, which
`log_file` shows to be enough.

## What is proved

The theorems hold for every value of the constants that satisfies the named
assumptions: the bounds are natural numbers; every ride has at least one edge
and one seat (`RidesAssumption`); privileges are integers
(`AccountsAssumption`); a line has at least two stops, all different, a day for
each departure and at least one seat (`LinesAssumption` of `TrainCatalog`); the
trains of the composed system have one shape, with at least one edge and one seat
(`SameShape`, `SystemAssumption`); the mark for an empty log is -1, which is no id
(`NoEntry`); the hash of an index is a natural number, and a cache has room for two
chunks (`CacheAssumption`); no flag of a command is used twice (`FlagsAssumption`); values are
integers (`Search`); the stops of a train are different, it leaves a stop not before it
is there and is at the next not before it has left, prices are natural numbers, and it
has a date at least (`TimetablesAssumption`); a query is for two different stations, for
a date that is a number of days, and for the least time or cost (`QueriesAssumption`).

| theorem | module | property |
| --- | --- | --- |
| `TypeCorrect` | `OrderBookHistoryProofs` | `TypeOK` |
| `RollbackInvariant` | | the inductive invariant `IInv` |
| `RollbackIsExact` | | `UndoIsExact` |
| `NoChangeEscapesTheLog` | | `EveryChangeIsLogged` |
| `QueueIsServed` | | `NoOneWaitsInVain` |
| `PendingIndexIsExact` | | `PendingIndexExact` |
| `UndoAssertionsHold` | | `UndoFindsItsOrder` |
| `SeatsNeverNegative` | | `NeverOversold` |
| `SeatsAddUp` | | `SeatConservation` |
| `QueueIsFair` | | `NoQueueJumping` |
| `BookImplementsService` | | `ImplementsService` |
| `TicketsAvailableIsMinimum` | `RideSeatsProofs` | `ticketsAvailable` is the minimum over the trip |
| `RangeAddInverse` | | adding and taking the same seats is the identity |
| `AccountsTypeCorrect` | `AccountsProofs` | `TypeOK` |
| `NamesStayUnique` | | `UsernamesUnique` |
| `NoOneEscalates` | | `NoEscalation` |
| `UndoFindsUser` | | `UndoFindsItsUser` |
| `SessionsStayTrue` | | `SessionsStayExact` |
| `IndicesStayExact` | `TrainCatalogProofs` | `IndicesExact` |
| `TrainNamesStayUnique` | | `NamesUnique` |
| `TicketsOfferedAreExact` | | `QueryTicketExact` |
| `LogTellsTheLifeOfEachTrain` | | `LogTellsEachLife` |
| `SystemInvariant` | `TicketSystemProofs` | the inductive invariant `SystemInv` |
| `OrdersKeepTheirRide` | | `OrdersHaveTheirRide` |
| `SystemSeatsAddUp` | | `SeatsAccounted` |
| `RollbackRestoresTheSystem` | | `RollbackRestoresAll` |
| `IdsStayConsecutive` | `SearchParserLogProofs` | `IdsFollowEachOther` |
| `LogFileIsSequence` | | `ImplementsSequence` |
| `CacheInvariant` | `CachedFileProofs` | the inductive invariant `CacheInv` |
| `CacheStaysExact` | | `CacheExact` |
| `FreeListStaysExact` | | `FreeListExact` |
| `CachedFileIsFile` | | `ImplementsFile` |
| `CachedFileIsStore` | | `ImplementsStore` |
| `BoundIsExact` | `SearchParserLogProofs` | `BoundExact` |
| `LastValueIsTaken` | | `LastValueCounts` |
| `JourneyCanBeMade` | `TransferProofs` | `AnswerIsJourney` |
| `QueueHasTheBest` | | `QueueExact` |
| `SearchFindsTheBest` | | `BestWhereNoThroughTrain` |
| `CalendarRoundTrip`, `DateTextRoundTrip` | | days and texts of the three months go there and back |
| `ClockExact`, `InstantTextRoundTrip` | | days, hours and minutes add up to the instant; its text goes there and back |

**Orders.** A state in the middle of a rollback is reached by undoing entries
from a state in which anything may have happened, so no invariant of the
present state alone is inductive: that the queue is in order after an entry is
undone rests on how the book was when the entry was written. The history
variable of `OrderBookHistory` keeps that book beside each entry, and `IInv`
says four things about it:

1. `HistoryInOrder`: every book of the past, and the present one, is in order
   (orders with trips, the index of pending orders exact, seats never negative);
2. `HistoryUndoes`: each entry, undone on the book after it, gives the book
   before it, and finds its order in the state its visitor asserts. This is
   what makes an undo step preserve all the rest: it returns to a book about
   which everything is known;
3. `HistoryQuiescent`: a book on which a command started has no order that
   waits in vain; only the entries a refund writes for the orders it serves come
   in between, and they carry the timestamp of the entry before, so a rollback,
   which stops at a change of timestamp, never ends on them;
4. `PresentQuiescent`: between commands the present book is quiescent; in a
   rollback it is, or there is an entry left to undo; in a refund only the
   orders still to be looked at may fit.

For a purchase 2 needs `RangeAddInverse`; for a refund 4 needs that serving an
order only takes seats, so that an order that did not fit does not fit later.
The listed properties follow from `IInv` and the step.

*Sums of seats.* `SeatConservation` adds up over a set of orders. What a sum over
a finite set is, is shown once, in `RideSeatsProofs`: the community modules'
`MapThenSumSet` picks the elements one by one, and that it does not matter which
comes first is shown with a smallest set for which it would. From there an order
more or less in the set is its seats more or less in the sum
(`SeatsOf` lemmas). The rest is again the history: every book of the past adds up
(`HistoryConserved`), a command moves the same seats between the order and the
ride, and an undo goes back to a book that added up. In a refund the copy of the
seats is what adds up, not the record it is written back to.

*The refinement.* `TicketService` keeps a book for every moment; the code keeps
one book and a log to go back by. The mapping takes as the book of time `t` the
one before the first entry that is newer than `t`. Four things carry it:

1. `TimeOK`: the log is in the order of time, so an entry more at the end
   changes no book of the past (`Grown`, `SamePast`);
2. `RefundProgress`: at any moment of a refund the orders looked at so far have
   been served or passed over as `TicketService` asks, and those to be looked at
   come after them in the queue;
3. a refund is one step of `TicketService`, at its `RefundDone`; before it the
   service still shows the book of before the refund, so the steps of the loop
   stutter;
4. a rollback is one step at its start, and every undo after it stutters, because
   the book it goes back to is the book of the past that stands beside the entry.

**Accounts.** Here the log itself is enough of a history. `AccountsInv` says of
it that every entry is about a user of the index, that the entry which added a
user is the first about him (`LogOK`), and that one user at most has the default
privilege *or may get it back*, by an entry that holds it as the value to restore
(`OneFirst`). The last part is why a demotion and a rollback make nobody else
equal to the first user. That nobody is logged in during a rollback
(`SessionsOK`) lets the undo visitors leave the sessions alone; that a name has
one user lets `ModifyProfile` change the one session of its name.

**Trains.** Ids are used again, so `CatalogInv` ties the log to the trains of
now: all entries are about trains of the file, and the one that added a train is
the first about its id (`LogOK`); a deleted train has exactly one entry that
says so, a released one has one (`FlagsOK`); of two trains with one name, the
deletion of one stands in the log before the addition of the other
(`OneAfterTheOther`). So a train that is destroyed leaves no stop, no ride and
no name behind, and a name that a rollback gives back is free by then. The free
list and the ids in use together are the ids 1 to n through `save()` and
`destroy()` (`TrainsOK`). `LogTellsEachLife` is the strongest statement of this:
the entries about an id, picked out of the log in order, are the life of the train
that has the id now. It follows from `LogOK` and `FlagsOK`, which say where the
entries of one train stand, and from `NoEntryTwice`: no entry stands in the log twice.

**The whole.** `SystemInv` is built like `IInv`, with the data of all
components in the place of the book. `Undone(v, c)` says what any visitor makes
of the data `v`; `HistoryUndoes` says that each entry leads back to the data that
stand beside it, and `HistoryOK` that all of these are in order (`CatalogOK`,
`BookOK`). So there are four kinds of steps: one that leaves the data alone, one that
writes an entry for what it changes (`Writes`), one that undoes the newest
(`Undoes`), and `Clean`; a lemma for each command says of which kind it is. In
order means that no order is without its ride and no ride without its
released train, and that is what keeps an id of a train from being used again too
early: a train can be destroyed only by undoing its addition, and the data of that
moment knew neither the id nor an order on it, so nothing has to be said about
the entries in between. What is outside the data, the records no index names and
the free list of trains, needs `FilesOK`: a new id is one that no train has.

**The log in its file.** The file keeps a free list as every chunk file does,
and the log counts on it to hand out consecutive ids: `Rollback` finds the
entry before by taking one off an id. `IdsStayConsecutive` shows that this holds
because only the last entry is ever destroyed; then the chain of free chunks
begins with the id after the last entry and goes up to the end of the file, at
every length of the file. `LogFileIsSequence` follows step by step: a push puts
the entry at the end of the sequence, a pop takes off the last one, and what the
log is asked for in between is the same.

**Files behind their cache.** What is proved is about pointers: a node of the
hash map hangs in two circular lists, and every get of a chunk takes it out of
both and puts it back at the end. `Ring` says what a circular list is, by the
sequence of its nodes: each leads to the one behind it, in both directions, and the
last to the head. `InsertNodeBefore` and `RemoveNode` on a ring make a ring with a node
more or less, and leave alone rings they have no node of (`RingInsert`, `OtherRingInsert`,
`RingRemove`, `OtherRingRemove`). On rings rests `MapOK`: the keys of the map hang in
the ring of all nodes, those of each bucket in the ring of the bucket, and nothing
else does (`Hung`). `InsertKeyOK` and `EraseOK` keep it. In the middle of `grow_`
the nodes not yet taken over still point into the old buckets; `MoveHangs` says that the
new buckets never lead to one of them. `MapOKIsExact` goes from there to the walks that
`MapExact` makes.

`StoreOK` says that the cache is such a map, holds `kSize` chunks at most, and that its
clean entries are what the stream holds. `Whole` is what the cache holds, and
behind it what the stream holds. A get leaves `Whole` alone, an eviction too, because
it writes back what is dirty, and a set changes one chunk of it (`AfterGetOK`, `WrittenOK`,
`ClearedOK`). So an operation of the file, however many gets and sets it makes and
whichever chunks they evict, changes the contents as `Chunks` says: that is
`CachedFileIsFile`.

The free list is a list in the file itself. `FreeStack` names the sequence of the
free chunks, from the bottom: the header leads to the last, each chunk to the one below
it, the chunks in use and those of the sequence are all there are, once each. A removal
puts an id on top of the stack, a push takes one off or a new one from the end. `FreeListExact`,
which counts along the list, follows by comparing its walk with the stack
(`FreeListIs`), and `CachedFileIsStore` from the two together: an id that is handed out is
in no client's hands.

**The transfer query.** `Setting` is what is known of a timetable and a query. A
section from the origin is the run of a train that leaves it on the date asked for
(`SectionsFromAre`, `LateIs`), and a section to the destination is the run of a train
on one of its dates; moving it goes through the dates that follow (`MovesAre`). When the
sections `F` from the origin are still to be met, a section to the destination is *placed*
(`Placed`): on every earlier date its train leaves before any of `F` is there, and so it
does on every date once the section is deleted. As `F` is met in order of arrival, no
date is passed over that could be needed later. Between a `NextTrain` and the head it
takes, no section that is not deleted leaves too early (`Ready`). This is `SearchOK`; a
head that is not refused makes a journey (`TakenIsChange`), and `JourneyCanBeMade` follows.

The heap holds outdated values too, and `Waiting` says what it must hold: the present
value of every section that is not deleted, unless its train comes from the origin itself
and so may have been refused for that. It is kept because every new value is pushed, and
because a head that is refused is not such a value (`PoppedWaiting`). No induction over
trees is possible here, so `Tree` is what belongs to a set of trees *with numbers of
nodes* that is closed under children: in a node of at most `w` nodes the children have
fewer, in sum (`Weights`). A least number of nodes takes the place of the induction
(`WayDown`, `ValuesAre`), and the sums of the values pushed, one for a date at most,
are within `MaxPushed`, the depth to which `QueueExact` looks.

For `SearchFindsTheBest`, `BestOK` adds how far the search is (`Progress`): at the station at
hand every section from the origin that has been met has no better way to go on than the
answer (`Best`), and so it is for all sections at the stations that are done. `ReadyWaits` is the
step that needs it all: a train that can be changed to on some date has a section, on that
date or an earlier one because it is placed, and it waits in the heap because no through
train blocks it; the head ranks no lower, and with the same first section the rank decides
between the solutions (`RankDecides`). What replaces the answer is better than it was
(`BetterStays`). Where a through train is in the way, `transfer_same_train` shows that the
statement fails.

**Algorithms.** The search keeps everything before its range in front of the
bound and everything behind it not; the parser keeps, for every flag, that its
field holds the last value given at a place before the index.

The proofs have one lemma per action.

What stays with TLC:

- `CommandsComplete`, which is a liveness property, and that the loops of the searches
  end.
- `BpTree`, `RbTree`, `MergeSort` and `FrontEnds`, which use recursive operators or
  the folds of values chosen for TLC, and are meant for TLC only.

## What the models take for granted

- Timestamps do not decrease; a purchase asks for at least one seat; the
  position in `RefundTicket` is at least 1; the stops of a train are distinct.
- A list on a line has at least one item: nothing on a line stands for an empty
  list (`_` is read as a list with one item). A member of an arithmetic type whose
  flag is missing is not initialised (parser.h:111 and others), and nothing is
  stated about it: requests have all members that `commands.yml` asks for.
- Different names and stations have different hashes (`index.h` compares
  hashes).
- A query of a tree by the components is a set of pairs in their modules; that
  the tree delivers it, in ascending order of the ids, is `QueriesExact`,
  as long as the root of the tree never loses its second-last child.
- `Clean` is left out of `OrderBook`, whose rides are there all along, and is in
  `Accounts`, `TrainCatalog` and `TicketSystem`.
- Prices and times of day (but for `Transfer`), passwords other than equality, the strings cached in an
  order and the wording of answers are abstracted.
- A killed process: the caches of the files are written back when entries are
  evicted and when the process ends, in no order the code controls, and there is
  no recovery code to model.

## Not modelled

- `vector.h`: a replacement of the standard one with tests of its own; the models use
  sequences. Copying hash maps.
- `variant.h`, `result.h`, `optional.h`, `exception.h`, `utility.h`,
  `varchar.h`: values and errors without state.
- The responses, as text or as objects of Node.js: output.
- `QueryProfile`, `QueryOrder` and `QueryTrain` change nothing and have no part in
  the models.
- `index.h`, which hashes strings and wraps the tree: the components use sets of
  pairs instead.
- Opening files, and the errors of the operating system.

## Plan

Done: the log, orders with their history and service, accounts, trains, the
composition, the transfer query with its heap, chunk files behind their cache
with its hash map, the log in its file, the B+ tree, the red-black tree, search
and sort, dates, the parser with its tables and the binding; the theorems about
orders with their sums of seats and their refinement, accounts, trains, the
composition, the log in its file, files behind their cache with its hash map,
the transfer query with its heap, search, parser and dates.

Next: `index.h` between the B+ tree and the indices of the components, and the
queries that only read.
