----------------------- MODULE SearchParserLogProofs -----------------------
(***************************************************************************)
(* Three components with short proofs: the binary search and the loop of   *)
(* the parser, for inputs of any size, and the rollback log in its file.   *)
(***************************************************************************)
EXTENDS Search, Parser, LogFile, TLAPS

-----------------------------------------------------------------------------
(* upperBound and lowerBound find the bound in sorted sequences of any     *)
(* length, and never look at an item that is not there.                    *)

Searched ==
  /\ items \in Seq(Values)
  /\ IsAscending(items)
  /\ value \in Values
  /\ name \in {"none", "upperBound", "lowerBound"}
  /\ name = "none" => items = <<>>

Window ==
  /\ first \in Nat
  /\ length \in Nat
  /\ first + length <= Len(items)

(* What is left of the window is in front of the bound, what is right of   *)
(* it is not.                                                              *)
SearchInv ==
  /\ Searched
  /\ Window
  /\ \A j \in 1 .. Len(items) : j <= first => InFront(items[j])
  /\ \A j \in 1 .. Len(items) : j > first + length => ~ InFront(items[j])

(* The item in the middle of a window that is not empty is in the window.  *)
LEMMA MidInWindow ==
  ASSUME SearchInv, length # 0
  PROVE  /\ Mid \in Nat
         /\ Mid < length
         /\ first + Mid + 1 \in 1 .. Len(items)
         /\ items[first + Mid + 1] \in Values
         /\ IsBefore(items[first + Mid + 1]) <=> InFront(items[first + Mid + 1])
<1>1. length \in Nat \ {0} /\ first \in Nat /\ first + length <= Len(items) /\ Len(items) \in Nat
  BY DEF SearchInv, Window, Searched
<1>2. Mid \in Nat /\ Mid < length
  BY <1>1 DEF Mid
<1>3. first + Mid + 1 \in 1 .. Len(items)
  BY <1>1, <1>2
<1>4. items[first + Mid + 1] \in Values
  BY <1>3 DEF SearchInv, Searched
<1>5. items[first + Mid + 1] \in Int /\ value \in Int
  BY <1>4, ValuesAssumption DEF SearchInv, Searched
<1>6. name \in {"upperBound", "lowerBound"}
  BY <1>1 DEF SearchInv, Searched
<1> QED
  BY <1>2, <1>3, <1>4, <1>5, <1>6 DEF IsBefore, InFront

(* In a sorted sequence what is before an item in front of the bound is in *)
(* front of it as well, and what is behind one that is not, is not.        *)
LEMMA FrontIsPrefix ==
  ASSUME SearchInv, NEW k \in 1 .. Len(items)
  PROVE  /\ InFront(items[k]) => \A j \in 1 .. Len(items) : j <= k => InFront(items[j])
         /\ ~ InFront(items[k]) => \A j \in 1 .. Len(items) : j >= k => ~ InFront(items[j])
<1>1. value \in Int /\ \A j \in 1 .. Len(items) : items[j] \in Int
  <2>1. value \in Values /\ items \in Seq(Values)
    BY DEF SearchInv, Searched
  <2>2. \A j \in 1 .. Len(items) : items[j] \in Values
    BY <2>1
  <2> QED
    BY <2>1, <2>2, ValuesAssumption
<1>2. \A j, n \in 1 .. Len(items) : j <= n => items[j] <= items[n]
  BY DEF SearchInv, Searched, IsAscending
<1>3. ASSUME NEW j \in 1 .. Len(items), j <= k, InFront(items[k]) PROVE InFront(items[j])
  BY <1>1, <1>2, <1>3 DEF InFront
<1>4. ASSUME NEW j \in 1 .. Len(items), j >= k, InFront(items[j]) PROVE InFront(items[k])
  BY <1>1, <1>2, <1>4 DEF InFront
<1> QED
  BY <1>3, <1>4

LEMMA SearchInitOK == SearchInit => SearchInv
BY DEF SearchInit, SearchInv, Searched, Window, IsAscending

LEMMA SearchStepOK == SearchInv /\ [SearchNext]_searchVars => SearchInv'
<1> SUFFICES ASSUME SearchInv, [SearchNext]_searchVars PROVE SearchInv'
  OBVIOUS
<1>1. ASSUME NEW n \in {"upperBound", "lowerBound"}, NEW k \in 0 .. MaxItems, NEW v \in Values,
             NEW s \in [1 .. k -> Values], Call(n, s, v)
      PROVE  SearchInv'
  <2>1. s \in Seq(Values) /\ Len(s) = k /\ k \in Nat
    BY MaxItemsAssumption
  <2> QED
    BY <1>1, <2>1 DEF Call, SearchInv, Searched, Window, IsAscending
<1>2. CASE GoRight
  <2>1. UNCHANGED <<items, value, name>> /\ first' = first + Mid + 1 /\ length' = length - (Mid + 1)
    BY <1>2 DEF GoRight
  <2>2. Searched'
    BY <2>1 DEF SearchInv, Searched, IsAscending
  <2>3. length # 0 /\ InFront(items[first + Mid + 1])
    BY <1>2, MidInWindow DEF GoRight
  <2>4. Window' /\ first' + length' = first + length
    BY <2>1, <2>3, MidInWindow DEF SearchInv, Window
  <2>5. \A j \in 1 .. Len(items) : j <= first' => InFront(items[j])
    BY <2>1, <2>3, MidInWindow, FrontIsPrefix
  <2>6. \A j \in 1 .. Len(items) : j > first' + length' => ~ InFront(items[j])
    BY <2>4 DEF SearchInv
  <2> QED
    BY <2>1, <2>2, <2>4, <2>5, <2>6 DEF SearchInv, InFront
<1>3. CASE GoLeft
  <2>1. UNCHANGED <<items, value, name, first>> /\ length' = Mid
    BY <1>3 DEF GoLeft
  <2>2. Searched'
    BY <2>1 DEF SearchInv, Searched, IsAscending
  <2>3. length # 0 /\ ~ InFront(items[first + Mid + 1])
    BY <1>3, MidInWindow DEF GoLeft
  <2>4. Window'
    BY <2>1, <2>3, MidInWindow DEF SearchInv, Window
  <2>5. \A j \in 1 .. Len(items) : j <= first' => InFront(items[j])
    BY <2>1 DEF SearchInv
  <2>6. \A j \in 1 .. Len(items) : j > first' + length' => ~ InFront(items[j])
    <3>1. \A j \in 1 .. Len(items) : j > first + Mid => j >= first + Mid + 1
      BY <2>3, MidInWindow DEF SearchInv, Window
    <3> QED
      BY <2>1, <2>3, <3>1, MidInWindow, FrontIsPrefix
  <2> QED
    BY <2>1, <2>2, <2>4, <2>5, <2>6 DEF SearchInv, InFront
<1>4. CASE UNCHANGED searchVars
  BY <1>4 DEF searchVars, SearchInv, Searched, Window, IsAscending, InFront
<1> QED
  BY <1>1, <1>2, <1>3, <1>4 DEF SearchNext

LEMMA SearchInvGivesBound == SearchInv => BoundExact
<1> SUFFICES ASSUME SearchInv, length = 0 PROVE \A j \in DOMAIN items : j <= first <=> InFront(items[j])
  BY DEF BoundExact
<1>1. DOMAIN items = 1 .. Len(items) /\ first \in Nat
  BY DEF SearchInv, Searched, Window
<1>2. \A j \in 1 .. Len(items) : j <= first \/ j > first + length
  BY <1>1
<1> QED
  BY <1>1, <1>2 DEF SearchInv

(* The bound is found in every sorted sequence, of any length, and for     *)
(* every value (lib/algorithm.h, upperBound and lowerBound).               *)
THEOREM BoundIsExact == SearchSpec => []BoundExact
<1>1. SearchInit => SearchInv
  BY SearchInitOK
<1>2. SearchInv /\ [SearchNext]_searchVars => SearchInv'
  BY SearchStepOK
<1>3. SearchInv => BoundExact
  BY SearchInvGivesBound
<1> QED
  BY <1>1, <1>2, <1>3, PTL DEF SearchSpec

-----------------------------------------------------------------------------
(* The parser reads lines of any length, for any table of flags, as        *)
(* LastValueCounts says.                                                   *)

(* The loop has come to a flag, or to the end of the line; what is behind  *)
(* it are flags with their values, and the fields hold the last of them.   *)
Progress(n) ==
  /\ IsFlagPlace(n)
  /\ \A k \in 1 .. n - 1 : IsFlagPlace(k) => IsKnown(k)
  /\ \A f \in Flags[argv[1]] : f.type \notin Appended => HoldsLast(f, n)

LoopInv ==
  outcome \in {"parsing", "command"} =>
    /\ Len(argv) \in Nat
    /\ argv[1] \in DOMAIN Flags
    /\ Flags[argv[1]] # {} =>
         /\ i \in Nat \ {0}
         /\ i <= Len(argv)
         /\ DOMAIN res = DOMAIN Struct[argv[1]]
         /\ Progress(i)
         /\ outcome = "command" => i = Len(argv)

LEMMA LoopInit == ParserInit => LoopInv
BY DEF ParserInit, LoopInv

(* The first flag stands in the first place.                               *)
LEMMA LoopStart ==
  ASSUME NEW line \in Lines, ReadLine(line)
  PROVE  LoopInv'
<1>1. SUFFICES ASSUME outcome' \in {"parsing", "command"}
               PROVE  LoopInv'
  BY DEF LoopInv
<1>2. /\ argv' = line /\ i' = 1 /\ line # <<>> /\ line[1] \in DOMAIN Flags
      /\ res' = Struct[line[1]]
      /\ Flags[line[1]] # {} => outcome' = "parsing"
  BY <1>1 DEF ReadLine
<1>3. line \in Seq(Texts)
  BY LinesAssumption
<1>4. Len(line) \in Nat \ {0}
  BY <1>2, <1>3
<1>5. Progress(1)'
  <2>1. IsFlagPlace(1) /\ 1 .. 1 - 1 = {}
    BY DEF IsFlagPlace
  <2>2. \A f : GivenBefore(f, 1)' = {}
    BY <2>1 DEF GivenBefore
  <2>3. \A f : HoldsLast(f, 1)' <=> (GivenBefore(f, 1)' = {} /\ res'[f.name] = Struct[argv'[1]][f.name])
    BY <2>2 DEF HoldsLast
  <2> QED
    BY <1>2, <2>1, <2>2, <2>3 DEF Progress
<1> QED
  BY <1>2, <1>4, <1>5 DEF LoopInv

(* One flag and its value have been read.                                  *)
LEMMA LoopAssign ==
  ASSUME LoopInv, outcome = "parsing", NEW f \in Flags[argv[1]], AssignField(f)
  PROVE  LoopInv'
<1>1. /\ argv' = argv /\ outcome' = outcome /\ i' = i + 2
      /\ res' = [res EXCEPT ![f.name] = Read(f)]
      /\ i + 1 < Len(argv) /\ IsFlagOf(f, i)
  BY DEF AssignField
<1>2. /\ Len(argv) \in Nat /\ argv[1] \in DOMAIN Flags /\ i \in Nat \ {0}
      /\ DOMAIN res = DOMAIN Struct[argv[1]] /\ Progress(i)
  BY DEF LoopInv
<1>3. f.name \in DOMAIN res
  BY <1>2, FlagsAssumption
<1>4. PICK n \in Nat \ {0} : n = i
  BY <1>2
<1>5. /\ IsFlagPlace(n) /\ IsFlagPlace(n + 2) /\ ~ IsFlagPlace(n + 1)
      /\ \A k \in 1 .. n - 1 : IsFlagPlace(k) => IsKnown(k)
      /\ \A g \in Flags[argv[1]] : g.type \notin Appended => HoldsLast(g, n)
      /\ IsFlagOf(f, n)
  BY <1>1, <1>2, <1>4 DEF Progress, IsFlagPlace
<1>6. /\ \A k \in 1 .. n + 2 - 1 : IsFlagPlace(k) => k \in 1 .. n - 1 \/ k = n
      /\ n \in 1 .. n + 2 - 1
      /\ 1 .. n - 1 \subseteq 1 .. n + 2 - 1
  BY <1>5
<1>7. \A k : /\ IsKnown(k)' <=> IsKnown(k)
             /\ \A g : IsFlagOf(g, k)' <=> IsFlagOf(g, k)
  BY <1>1 DEF IsKnown, IsFlagOf
<1>8. ASSUME NEW g \in Flags[argv[1]], g.type \notin Appended
      PROVE  HoldsLast(g, n + 2)'
  <2>1. GivenBefore(g, n + 2)' = GivenBefore(g, n + 2)
    BY <1>7 DEF GivenBefore
  <2>2. CASE g = f
    <3>1. n \in GivenBefore(g, n + 2)
      BY <1>5, <1>6, <2>2 DEF GivenBefore
    <3>2. \A l \in GivenBefore(g, n + 2) : l <= n
      BY <1>4, <1>6 DEF GivenBefore
    <3>3. res'[g.name] = Convert(g.type, argv[n + 2])
      BY <1>1, <1>3, <1>4, <1>8, <2>2 DEF Read
    <3> QED
      BY <1>1, <2>1, <3>1, <3>2, <3>3 DEF HoldsLast
  <2>3. CASE g # f
    <3>1. g.flag # f.flag /\ g.name # f.name
      BY <1>2, <1>8, <2>3, FlagsAssumption
    <3>2. n \notin GivenBefore(g, n + 2)
      BY <1>5, <3>1 DEF GivenBefore, IsFlagOf
    <3>3. GivenBefore(g, n + 2) = GivenBefore(g, n)
      BY <1>6, <3>2 DEF GivenBefore
    <3>4. res'[g.name] = res[g.name]
      BY <1>1, <1>2, <1>8, <3>1, FlagsAssumption
    <3>5. HoldsLast(g, n)
      BY <1>5, <1>8
    <3> QED
      BY <1>1, <2>1, <3>3, <3>4, <3>5 DEF HoldsLast
  <2> QED
    BY <2>2, <2>3
<1>9. Progress(n + 2)'
  <2>1. \A k \in 1 .. n + 2 - 1 : IsFlagPlace(k) => IsKnown(k)
    BY <1>5, <1>6 DEF IsKnown
  <2> QED
    BY <1>1, <1>5, <1>7, <1>8, <2>1 DEF Progress
<1>10. i' = n + 2 /\ n + 2 \in Nat \ {0} /\ n + 2 <= Len(argv)
  BY <1>1, <1>2, <1>4
<1>11. DOMAIN res' = DOMAIN res
  BY <1>1
<1> QED
  BY <1>1, <1>2, <1>9, <1>10, <1>11 DEF LoopInv

LEMMA LoopStep ==
  LoopInv /\ [ParserNext]_parserVars => LoopInv'
<1> SUFFICES ASSUME LoopInv, [ParserNext]_parserVars PROVE LoopInv'
  OBVIOUS
<1>1. ASSUME NEW line \in Lines, ReadLine(line) PROVE LoopInv'
  BY <1>1, LoopStart
<1>2. ASSUME outcome = "parsing", NEW f \in Flags[argv[1]], AssignField(f) PROVE LoopInv'
  BY <1>2, LoopAssign
<1>3. CASE MissValue \/ Refuse
  BY <1>3 DEF MissValue, Refuse, LoopInv
<1>4. CASE EndOfLine
  <2>1. outcome = "parsing" /\ i >= Len(argv) /\ outcome' = "command" /\ UNCHANGED <<argv, i, res>>
    BY <1>4 DEF EndOfLine
  <2>2. Flags[argv[1]] # {} => i = Len(argv)
    BY <2>1 DEF LoopInv
  <2> QED
    BY <2>1, <2>2 DEF LoopInv, Progress, IsKnown, IsFlagOf, HoldsLast, GivenBefore
<1>5. CASE Dispatch
  BY <1>5 DEF Dispatch, LoopInv
<1>6. CASE UNCHANGED parserVars
  BY <1>6 DEF parserVars, LoopInv, Progress, IsKnown, IsFlagOf, HoldsLast, GivenBefore
<1> QED
  BY <1>1, <1>2, <1>3, <1>4, <1>5, <1>6 DEF ParserNext, ParserStep

(* What a command that is accepted holds, for every table of flags and     *)
(* every line (parser.cpp).                                                *)
THEOREM LastValueIsTaken == ParserSpec => []LastValueCounts
<1>1. ParserInit => LoopInv
  BY LoopInit
<1>2. LoopInv /\ [ParserNext]_parserVars => LoopInv'
  BY LoopStep
<1>3. LoopInv => LastValueCounts
  BY DEF LoopInv, LastValueCounts, Progress
<1> QED
  BY <1>1, <1>2, <1>3, PTL DEF ParserSpec

-----------------------------------------------------------------------------
(* The file of the rollback log.                                           *)

(* A record of the free list of a file of m chunks: the ids from `next' on *)
(* are free and follow each other, and m was never given out.              *)
IsLink(link, next, m) ==
  /\ link = [next |-> next, hasNext |-> link.hasNext, user |-> link.user]
  /\ link.hasNext \in BOOLEAN
  /\ link.hasNext <=> next < m
  /\ link.user \in Int

(* Of the first m chunks those up to `last' are entries; the others are    *)
(* free, and each leads to the one behind it.                              *)
Layout(f, last, m) ==
  /\ m \in Nat
  /\ last \in Int
  /\ -1 <= last
  /\ last < m
  /\ f = [header |-> f.header, chunks |-> f.chunks]
  /\ 0 .. m - 1 \subseteq DOMAIN f.chunks
  /\ \A id \in 0 .. last : "timestamp" \in DOMAIN f.chunks[id]
  /\ IsLink(f.header, last + 1, m)
  /\ \A id \in last + 1 .. m - 1 : IsLink(f.chunks[id], id + 1, m)

CallType ==
  \/ call = NoCall
  \/ call = [cmd |-> "rollback", timestamp |-> call.timestamp, lastId |-> call.lastId]

LogInv ==
  /\ CallType
  /\ \E m \in Nat : Layout(file, LastId, m)

-----------------------------------------------------------------------------
(* The operations of the file keep the layout.                             *)

LEMMA HeaderIsLink ==
  ASSUME NEW next \in Int, NEW hasNext \in BOOLEAN, NEW m \in Int, hasNext <=> next < m
  PROVE  IsLink(Header(next, hasNext), next, m) /\ Header(next, hasNext).user = -1
<1>1. Header(next, hasNext) = [next |-> next, hasNext |-> hasNext, user |-> -1]
  BY NoEntry DEF Header
<1> QED
  BY <1>1 DEF IsLink

(* The header of an empty file, and that of a file with a freed chunk.     *)
EndLink == Header(0, FALSE)
FreeLink(id) == Header(id, TRUE)

LEMMA EndOfList == IsLink(EndLink, 0, 0) /\ EndLink.user = -1
<1>1. 0 \in Int /\ ~ (0 < 0)
  OBVIOUS
<1>2. IsLink(Header(0, FALSE), 0, 0) /\ Header(0, FALSE).user = -1
  BY <1>1, HeaderIsLink, Zenon
<1> QED
  BY <1>2, Zenon DEF EndLink

LEMMA FreedChunkLeads ==
  ASSUME NEW id \in Int, NEW m \in Int, id < m
  PROVE  IsLink(FreeLink(id), id, m)
<1>1. IsLink(Header(id, TRUE), id, m)
  BY HeaderIsLink, Zenon
<1> QED
  BY <1>1, Zenon DEF FreeLink

LEMMA PushLayout ==
  ASSUME NEW f, NEW last, NEW m, Layout(f, last, m), NEW data, "timestamp" \in DOMAIN data
  PROVE  \E n \in Nat : Layout(AfterSetMeta(AfterPush(f, data), last + 1), last + 1, n)
<1> DEFINE g == AfterSetMeta(AfterPush(f, data), last + 1)
<1>1. /\ m \in Nat /\ last \in Int /\ -1 <= last /\ last < m
      /\ 0 .. m - 1 \subseteq DOMAIN f.chunks
      /\ \A id \in 0 .. last : "timestamp" \in DOMAIN f.chunks[id]
      /\ IsLink(f.header, last + 1, m)
      /\ \A id \in last + 1 .. m - 1 : IsLink(f.chunks[id], id + 1, m)
  BY DEF Layout
<1>2. f.header.next = last + 1 /\ (f.header.hasNext <=> last + 1 < m)
  BY <1>1 DEF IsLink
<1>3. g.chunks = Stored(f.chunks, last + 1, data)
  BY <1>2 DEF AfterSetMeta, AfterPush
<1>4. /\ DOMAIN g.chunks = DOMAIN f.chunks \cup {last + 1}
      /\ g.chunks[last + 1] = data
      /\ \A id \in DOMAIN f.chunks : id # last + 1 => g.chunks[id] = f.chunks[id]
  BY <1>3 DEF Stored
<1>5. g = [header |-> g.header, chunks |-> g.chunks]
  BY DEF AfterSetMeta, AfterPush
<1>6. \A id \in 0 .. last + 1 : "timestamp" \in DOMAIN g.chunks[id]
  <2>1. \A id \in 0 .. last + 1 : id = last + 1 \/ (id \in 0 .. last /\ id \in DOMAIN f.chunks)
    BY <1>1
  <2> QED
    BY <1>1, <1>4, <2>1
<1>7. CASE last + 1 < m
  <2>1. g.header = [f.chunks[last + 1] EXCEPT !.user = last + 1]
    BY <1>2, <1>7 DEF AfterSetMeta, AfterPush
  <2>2. IsLink(f.chunks[last + 1], last + 2, m)
    BY <1>1, <1>7
  <2>3. IsLink(g.header, last + 2, m)
    BY <1>1, <2>1, <2>2 DEF IsLink
  <2>4. \A id \in last + 2 .. m - 1 : IsLink(g.chunks[id], id + 1, m)
    <3>1. \A id \in last + 2 .. m - 1 : id \in DOMAIN f.chunks /\ id # last + 1 /\ id \in last + 1 .. m - 1
      BY <1>1
    <3> QED
      BY <1>1, <1>4, <3>1
  <2> HIDE DEF g
  <2>5. Layout(g, last + 1, m)
    BY <1>1, <1>4, <1>5, <1>6, <1>7, <2>3, <2>4 DEF Layout
  <2> QED
    BY <1>1, <2>5 DEF g
<1>8. CASE ~ (last + 1 < m)
  <2>1. m = last + 1
    BY <1>1, <1>8
  <2>2. g.header = [next |-> last + 2, hasNext |-> f.header.hasNext, user |-> last + 1]
    <3>1. f.header = [next |-> last + 1, hasNext |-> f.header.hasNext, user |-> f.header.user]
      BY <1>1 DEF IsLink
    <3>2. AfterPush(f, data).header = [f.header EXCEPT !.next = @ + 1]
      BY <1>2, <1>8 DEF AfterPush
    <3>3. g.header = [AfterPush(f, data).header EXCEPT !.user = last + 1]
      BY DEF AfterSetMeta, AfterPush
    <3>4. [f.header EXCEPT !.next = @ + 1]
            = [next |-> last + 2, hasNext |-> f.header.hasNext, user |-> f.header.user]
      BY <1>1, <3>1
    <3> QED
      BY <3>2, <3>3, <3>4
  <2>3. IsLink(g.header, last + 2, m + 1)
    BY <1>1, <1>2, <1>8, <2>1, <2>2 DEF IsLink
  <2>4. last + 2 .. m = {} /\ 0 .. m \subseteq DOMAIN g.chunks /\ m + 1 \in Nat
    <3>1. \A id \in 0 .. m : id \in 0 .. m - 1 \/ id = last + 1
      BY <1>1, <2>1
    <3> QED
      BY <1>1, <1>4, <2>1, <3>1
  <2> HIDE DEF g
  <2>5. Layout(g, last + 1, m + 1)
    BY <1>1, <1>4, <1>5, <1>6, <2>1, <2>3, <2>4 DEF Layout
  <2> QED
    BY <2>4, <2>5 DEF g
<1> QED
  BY <1>7, <1>8

LEMMA RemoveLayout ==
  ASSUME NEW f, NEW last, NEW m, Layout(f, last, m), last >= 0
  PROVE  Layout(AfterRemove(f, last), last - 1, m)
<1> DEFINE g == AfterRemove(f, last)
<1>1. /\ m \in Nat /\ last \in Int /\ 0 <= last /\ last < m
      /\ 0 .. m - 1 \subseteq DOMAIN f.chunks
      /\ \A id \in 0 .. last : "timestamp" \in DOMAIN f.chunks[id]
      /\ IsLink(f.header, last + 1, m)
      /\ \A id \in last + 1 .. m - 1 : IsLink(f.chunks[id], id + 1, m)
  BY DEF Layout
<1>2. g = [header |-> g.header, chunks |-> g.chunks] /\ g.header = FreeLink(last)
  BY DEF AfterRemove, FreeLink
<1>3. /\ DOMAIN g.chunks = DOMAIN f.chunks \cup {last}
      /\ g.chunks[last] = f.header
      /\ \A id \in DOMAIN f.chunks : id # last => g.chunks[id] = f.chunks[id]
  BY DEF AfterRemove, Stored
<1>4. IsLink(g.header, last, m)
  BY <1>1, <1>2, FreedChunkLeads
<1>5. \A id \in last .. m - 1 : IsLink(g.chunks[id], id + 1, m)
  <2>1. \A id \in last .. m - 1 : id = last \/ (id # last /\ id \in DOMAIN f.chunks /\ id \in last + 1 .. m - 1)
    BY <1>1
  <2> QED
    BY <1>1, <1>3, <2>1
<1>6. \A id \in 0 .. last - 1 : "timestamp" \in DOMAIN g.chunks[id]
  <2>1. \A id \in 0 .. last - 1 : id # last /\ id \in DOMAIN f.chunks /\ id \in 0 .. last
    BY <1>1
  <2> QED
    BY <1>1, <1>3, <2>1
<1>7. last - 1 \in Int /\ -1 <= last - 1 /\ last - 1 < m /\ (last - 1) + 1 = last
  BY <1>1
<1> HIDE DEF g
<1>8. Layout(g, last - 1, m)
  BY <1>1, <1>2, <1>3, <1>4, <1>5, <1>6, <1>7 DEF Layout
<1> QED
  BY <1>8 DEF g

LEMMA SetMetaLayout ==
  ASSUME NEW f, NEW last, NEW m, Layout(f, last, m)
  PROVE  Layout(AfterSetMeta(f, last), last, m) /\ GetMeta(AfterSetMeta(f, last)) = last
<1> DEFINE g == AfterSetMeta(f, last)
<1>1. g = [header |-> [f.header EXCEPT !.user = last], chunks |-> f.chunks]
  BY DEF Layout, AfterSetMeta
<1>2. IsLink([f.header EXCEPT !.user = last], last + 1, m)
  BY DEF Layout, IsLink
<1>3. "user" \in DOMAIN f.header
  BY DEF Layout, IsLink
<1>4. GetMeta(g) = last
  BY <1>1, <1>3 DEF GetMeta
<1>5. g = [header |-> g.header, chunks |-> g.chunks] /\ g.chunks = f.chunks /\ IsLink(g.header, last + 1, m)
  BY <1>1, <1>2
<1> HIDE DEF g
<1>6. Layout(g, last, m)
  BY <1>5 DEF Layout
<1> QED
  BY <1>4, <1>6 DEF g

LEMMA TruncateLayout ==
  ASSUME NEW f, NEW last, NEW m, Layout(f, last, m)
  PROVE  Layout(AfterTruncate(f), -1, 0) /\ GetMeta(AfterTruncate(f)) = -1
<1> DEFINE g == AfterTruncate(f)
<1>1. g = [header |-> EndLink, chunks |-> f.chunks]
  <2>1. f = [header |-> f.header, chunks |-> f.chunks]
    BY DEF Layout
  <2>2. g = [f EXCEPT !.header = EndLink]
    BY Zenon DEF AfterTruncate, EndLink
  <2> HIDE DEF g
  <2> QED
    BY <2>1, <2>2
<1>2. IsLink(EndLink, 0, 0) /\ EndLink.user = -1
  BY EndOfList
<1>3. g = [header |-> g.header, chunks |-> g.chunks] /\ g.header = EndLink
  BY <1>1
<1>4. 0 .. 0 - 1 = {} /\ 0 .. -1 = {} /\ -1 + 1 = 0
  OBVIOUS
<1>5. GetMeta(g) = -1
  BY <1>2, <1>3 DEF GetMeta
<1> HIDE DEF g
<1>6. Layout(g, -1, 0)
  BY <1>2, <1>3, <1>4 DEF Layout
<1> QED
  BY <1>5, <1>6 DEF g

-----------------------------------------------------------------------------
(* The invariant.                                                          *)

LEMMA CallIs ==
  /\ call = NoCall => Idle /\ ~ RollingBack /\ LastId = GetMeta(file)
  /\ call # NoCall /\ CallType => ~ Idle /\ RollingBack /\ LastId = call.lastId
<1>1. call = NoCall => call.cmd = "none"
  BY DEF NoCall
<1>2. call # NoCall /\ CallType => call.cmd = "rollback"
  BY DEF CallType
<1> QED
  BY <1>1, <1>2 DEF Idle, RollingBack, LastId

LEMMA LogInit == Init => LogInv
<1> SUFFICES ASSUME Init
             PROVE  LogInv
  OBVIOUS
<1>1. file = [header |-> EndLink, chunks |-> <<>>] /\ call = NoCall
  BY DEF Init, EmptyFile, EndLink
<1>2. IsLink(EndLink, 0, 0) /\ EndLink.user = -1
  BY EndOfList
<1>3. LastId = -1
  BY <1>1, <1>2, CallIs DEF GetMeta
<1>4. 0 .. 0 - 1 = {} /\ 0 .. -1 = {} /\ -1 + 1 = 0
  OBVIOUS
<1>5. Layout(file, -1, 0)
  BY <1>1, <1>2, <1>4 DEF Layout
<1> QED
  BY <1>1, <1>3, <1>5 DEF LogInv, CallType

LEMMA LogStep ==
  ASSUME LogInv, NEW content, Log(content)
  PROVE  LogInv' /\ LastId' = LastId + 1 /\ PushId(file) = LastId + 1
<1>1. PICK m \in Nat : Layout(file, LastId, m)
  BY DEF LogInv
<1>2. Idle /\ call = NoCall /\ call' = NoCall
  BY DEF Log, Idle
<1>3. PushId(file) = LastId + 1 /\ LastId \in Int
  BY <1>1 DEF Layout, IsLink, PushId
<1> DEFINE data == [timestamp |-> now, content |-> content]
           g == AfterSetMeta(AfterPush(file, data), LastId + 1)
<1>4. file' = g
  BY <1>3 DEF Log
<1>5. \E n \in Nat : Layout(g, LastId + 1, n)
  <2>1. "timestamp" \in DOMAIN data
    OBVIOUS
  <2> HIDE DEF data
  <2> QED
    BY <1>1, <2>1, PushLayout DEF g
<1>6. GetMeta(g) = LastId + 1
  <2>1. PICK n \in Nat : Layout(g, LastId + 1, n)
    BY <1>5
  <2>2. g.header = [g.header EXCEPT !.user = LastId + 1]
    BY <2>1 DEF g, AfterSetMeta, AfterPush, Layout, IsLink
  <2>3. "user" \in DOMAIN g.header
    BY <2>1 DEF Layout, IsLink
  <2> HIDE DEF g
  <2> QED
    BY <2>2, <2>3 DEF GetMeta
<1> HIDE DEF g
<1>7. LastId' = LastId + 1
  BY <1>2, <1>4, <1>6 DEF LastId, RollingBack, NoCall
<1>8. (\E n \in Nat : Layout(file, LastId, n))'
  BY <1>4, <1>5, <1>7
<1>9. CallType'
  BY <1>2 DEF CallType
<1> QED
  BY <1>3, <1>7, <1>8, <1>9 DEF LogInv

LEMMA UndoStep ==
  ASSUME LogInv, UndoEntry
  PROVE  LogInv' /\ LastId' = LastId - 1 /\ LastId = call.lastId /\ call' # NoCall
<1>1. PICK m \in Nat : Layout(file, LastId, m)
  BY DEF LogInv
<1>2. RollingBack /\ call.lastId >= 0 /\ file' = AfterRemove(file, call.lastId)
      /\ call' = [call EXCEPT !.lastId = @ - 1]
  BY DEF UndoEntry, HasEntryToUndo
<1>3. LastId = call.lastId
  BY <1>2 DEF LastId
<1>4. call = [cmd |-> "rollback", timestamp |-> call.timestamp, lastId |-> call.lastId]
  BY <1>2 DEF LogInv, CallType, NoCall, RollingBack
<1>5. call' = [cmd |-> "rollback", timestamp |-> call.timestamp, lastId |-> call.lastId - 1]
  BY <1>2, <1>4
<1>6. CallType' /\ RollingBack' /\ LastId' = LastId - 1 /\ call' # NoCall
  BY <1>3, <1>5 DEF CallType, RollingBack, LastId, NoCall
<1>7. Layout(file', LastId', m)
  BY <1>1, <1>2, <1>3, <1>6, RemoveLayout
<1> QED
  BY <1>3, <1>6, <1>7 DEF LogInv

LEMMA DoneStep ==
  ASSUME LogInv, RollbackDone
  PROVE  LogInv' /\ LastId' = LastId /\ file'.chunks = file.chunks
<1>1. PICK m \in Nat : Layout(file, LastId, m)
  BY DEF LogInv
<1>2. RollingBack /\ file' = AfterSetMeta(file, LastId) /\ call' = NoCall
  BY DEF RollbackDone, LastId
<1>3. Layout(file', LastId, m) /\ GetMeta(file)' = LastId
  BY <1>1, <1>2, SetMetaLayout DEF GetMeta
<1>4. LastId' = LastId
  BY <1>2, <1>3 DEF LastId, RollingBack, NoCall
<1>5. file'.chunks = file.chunks
  <2>1. file = [header |-> file.header, chunks |-> file.chunks]
    BY <1>1 DEF Layout
  <2> QED
    BY <1>2, <2>1 DEF AfterSetMeta
<1> QED
  BY <1>2, <1>3, <1>4, <1>5 DEF LogInv, CallType

LEMMA CleanStep ==
  ASSUME LogInv, Clean
  PROVE  LogInv' /\ LastId' = -1
<1>1. PICK m \in Nat : Layout(file, LastId, m)
  BY DEF LogInv
<1>2. file' = AfterTruncate(file) /\ call' = NoCall
  BY DEF Clean, Idle
<1>3. Layout(file', -1, 0) /\ GetMeta(file)' = -1
  BY <1>1, <1>2, TruncateLayout DEF GetMeta
<1>4. LastId' = -1
  BY <1>2, <1>3 DEF LastId, RollingBack, NoCall
<1> QED
  BY <1>2, <1>3, <1>4 DEF LogInv, CallType

LEMMA StartStep ==
  ASSUME LogInv, NEW t, StartRollback(t)
  PROVE  LogInv' /\ LastId' = LastId
<1>1. call' = [cmd |-> "rollback", timestamp |-> t, lastId |-> GetMeta(file)] /\ file' = file
  BY DEF StartRollback
<1>2. RollingBack' /\ CallType'
  BY <1>1 DEF RollingBack, CallType
<1>3. LastId' = GetMeta(file)
  BY <1>1, <1>2 DEF LastId
<1>4. LastId = GetMeta(file)
  BY CallIs DEF StartRollback, Idle
<1> QED
  BY <1>1, <1>2, <1>3, <1>4 DEF LogInv

LEMMA LogNext == LogInv /\ [Next]_vars => LogInv'
<1> SUFFICES ASSUME LogInv, [Next]_vars
             PROVE  LogInv'
  OBVIOUS
<1>1. ASSUME UNCHANGED <<file, call>>
      PROVE  LogInv'
  BY <1>1 DEF LogInv, CallType, LastId, RollingBack, GetMeta
<1>2. ASSUME NEW t \in 0 .. MaxTime, ReadTimestamp(t)
      PROVE  LogInv'
  BY <1>1, <1>2 DEF ReadTimestamp
<1>3. ASSUME NEW t \in 0 .. MaxTime, StartRollback(t)
      PROVE  LogInv'
  BY <1>3, StartStep
<1>4. ASSUME NEW content \in Contents, Log(content)
      PROVE  LogInv'
  BY <1>4, LogStep
<1>5. CASE UndoEntry
  BY <1>5, UndoStep
<1>6. CASE RollbackDone
  BY <1>6, DoneStep
<1>7. CASE Clean
  BY <1>7, CleanStep
<1>8. CASE UNCHANGED vars
  BY <1>1, <1>8 DEF vars
<1> QED
  BY <1>2, <1>3, <1>4, <1>5, <1>6, <1>7, <1>8 DEF Next

THEOREM LogInvariant == Spec => []LogInv
<1> QED
  BY LogInit, LogNext, PTL DEF Spec

(* Rollback may count ids down: the ids of the entries follow each other.  *)
THEOREM IdsStayConsecutive == Spec => []IdsFollowEachOther
<1>1. LogInv => IdsFollowEachOther
  BY DEF LogInv, Layout, IsLink, IdsFollowEachOther, PushId
<1> QED
  BY <1>1, LogInvariant, PTL

-----------------------------------------------------------------------------
(* The refinement.                                                         *)

LogOf(f, last) == [k \in 1 .. last + 1 |-> f.chunks[k - 1]]

LEMMA LogIsSequence ==
  ASSUME NEW f, NEW last, NEW m, Layout(f, last, m)
  PROVE  /\ last + 1 \in Nat
         /\ LogOf(f, last) \in Seq({f.chunks[id] : id \in 0 .. last})
         /\ Len(LogOf(f, last)) = last + 1
<1>1. last \in Int /\ last + 1 \in Nat
  BY DEF Layout
<1>2. \A k \in 1 .. last + 1 : k - 1 \in 0 .. last
  BY <1>1
<1>3. LogOf(f, last) \in [1 .. last + 1 -> {f.chunks[id] : id \in 0 .. last}]
  BY <1>2 DEF LogOf
<1>4. LogOf(f, last) \in Seq({f.chunks[id] : id \in 0 .. last})
  BY <1>1, <1>3
<1>5. DOMAIN LogOf(f, last) = 1 .. last + 1
  BY DEF LogOf
<1> QED
  BY <1>1, <1>4, <1>5

MappedCall == IF Idle THEN NoCall ELSE [cmd |-> "rollback", timestamp |-> call.timestamp]

LEMMA InitRefines == Init => Sequence!Init
<1> SUFFICES ASSUME Init
             PROVE  Sequence!Init
  OBVIOUS
<1>1. now = 0 /\ Idle /\ LastId = -1
  BY CallIs, NoEntry DEF Init, EmptyFile, Header, GetMeta, Idle
<1>2. 1 .. LastId + 1 = {}
  BY <1>1
<1> QED
  BY <1>1, <1>2 DEF Sequence!Init, Sequence!NoCall, NoCall

LEMMA LogRefines ==
  ASSUME LogInv, NEW content \in Contents, Log(content)
  PROVE  Sequence!Append1(content)
<1>1. PICK m \in Nat : Layout(file, LastId, m)
  BY DEF LogInv
<1>2. PICK last : last = LastId
  OBVIOUS
<1> DEFINE s == LogOf(file, last)
           entry == [timestamp |-> now, content |-> content]
<1>3. last + 1 \in Nat /\ Len(s) = last + 1 /\ s \in Seq({file.chunks[id] : id \in 0 .. last})
  BY <1>1, <1>2, LogIsSequence
<1>4. last \in Int /\ -1 <= last /\ last < m
  BY <1>1, <1>2 DEF Layout
<1>5. LastId' = last + 1 /\ PushId(file) = last + 1
  BY <1>2, LogStep
<1>6. file'.chunks = Stored(file.chunks, last + 1, entry)
  BY <1>5 DEF Log, AfterSetMeta, AfterPush, PushId
<1>7. LogOf(file', last + 1) = Append(s, entry)
  <2>1. \A k \in 1 .. last + 2 : file'.chunks[k - 1] = IF k = last + 2 THEN entry ELSE file.chunks[k - 1]
    <3>1. TAKE k \in 1 .. last + 2
    <3>2. k - 1 \in DOMAIN file.chunks \cup {last + 1} /\ (k - 1 = last + 1 <=> k = last + 2)
      BY <1>1, <1>2, <1>4 DEF Layout
    <3> QED
      BY <1>6, <3>2 DEF Stored
  <2>2. LogOf(file', last + 1) = [k \in 1 .. last + 2 |-> IF k = last + 2 THEN entry ELSE file.chunks[k - 1]]
    BY <1>4, <2>1 DEF LogOf
  <2>3. Append(s, entry) = [k \in 1 .. last + 2 |-> IF k = last + 2 THEN entry ELSE s[k]]
    BY <1>3, <1>4
  <2>4. \A k \in 1 .. last + 2 : k # last + 2 => s[k] = file.chunks[k - 1]
    BY <1>4 DEF LogOf
  <2> QED
    BY <2>2, <2>3, <2>4
<1>8. Idle /\ Idle' /\ now' = now
  BY DEF Log, Idle
<1> QED
  BY <1>2, <1>5, <1>7, <1>8
  DEF LogOf, Sequence!Append1, Sequence!Idle, Sequence!NoCall, Sequence!Log, NoCall

LEMMA UndoRefines ==
  ASSUME LogInv, UndoEntry
  PROVE  Sequence!Undo
<1>1. PICK m \in Nat : Layout(file, LastId, m)
  BY DEF LogInv
<1>2. PICK last : last = LastId
  OBVIOUS
<1> DEFINE s == LogOf(file, last)
<1>3. last + 1 \in Nat /\ Len(s) = last + 1 /\ s \in Seq({file.chunks[id] : id \in 0 .. last})
  BY <1>1, <1>2, LogIsSequence
<1>4. LastId' = last - 1 /\ call.lastId = last /\ ~ Idle /\ ~ Idle'
  BY <1>2, UndoStep, CallIs DEF Idle, UndoEntry, HasEntryToUndo
<1>5. /\ RollingBack /\ last >= 0 /\ file.chunks[last].timestamp > call.timestamp
      /\ file' = AfterRemove(file, last) /\ call' = [call EXCEPT !.lastId = @ - 1] /\ now' = now
  BY <1>4 DEF UndoEntry, HasEntryToUndo
<1>6. last \in Nat /\ last < m
  BY <1>1, <1>2, <1>5 DEF Layout
<1>7. LogOf(file', last - 1) = SubSeq(s, 1, Len(s) - 1)
  <2>1. \A k \in 1 .. last : file'.chunks[k - 1] = file.chunks[k - 1]
    <3>1. TAKE k \in 1 .. last
    <3>2. k - 1 \in DOMAIN file.chunks /\ k - 1 # last
      BY <1>1, <1>2, <1>6 DEF Layout
    <3>3. file'.chunks = Stored(file.chunks, last, file.header)
      BY <1>5 DEF AfterRemove
    <3> QED
      BY <3>2, <3>3 DEF Stored
  <2>2. LogOf(file', last - 1) = [k \in 1 .. last |-> file.chunks[k - 1]]
    <3>1. last - 1 + 1 = last
      BY <1>6
    <3> QED
      BY <2>1, <3>1 DEF LogOf
  <2>3. SubSeq(s, 1, last) = [k \in 1 .. last |-> s[k]]
    BY <1>3, <1>6
  <2>4. \A k \in 1 .. last : s[k] = file.chunks[k - 1]
    BY <1>6 DEF LogOf
  <2> QED
    BY <1>3, <1>6, <2>2, <2>3, <2>4
<1>8. s # <<>> /\ s[Len(s)] = file.chunks[last]
  BY <1>3, <1>6 DEF LogOf
<1>9. call'.timestamp = call.timestamp
  BY <1>4, <1>5 DEF LogInv, CallType, Idle
<1>10. MappedCall' = MappedCall /\ MappedCall.cmd = "rollback" /\ MappedCall.timestamp = call.timestamp
  BY <1>4, <1>9 DEF MappedCall
<1>11. Sequence!HasEntryToUndo
  BY <1>2, <1>5, <1>8, <1>10
  DEF LogOf, MappedCall, Sequence!HasEntryToUndo, Sequence!RollingBack, Sequence!Newest
<1>12. Sequence!DestroyEntry
  BY <1>2, <1>4, <1>7 DEF LogOf, Sequence!DestroyEntry
<1> QED
  BY <1>5, <1>10, <1>11, <1>12 DEF MappedCall, Sequence!Undo

LEMMA DoneRefines ==
  ASSUME LogInv, RollbackDone
  PROVE  Sequence!RollbackDone
<1>1. PICK m \in Nat : Layout(file, LastId, m)
  BY DEF LogInv
<1>2. PICK last : last = LastId
  OBVIOUS
<1> DEFINE s == LogOf(file, last)
<1>3. last + 1 \in Nat /\ Len(s) = last + 1 /\ s \in Seq({file.chunks[id] : id \in 0 .. last})
  BY <1>1, <1>2, LogIsSequence
<1>4. LastId' = last /\ file'.chunks = file.chunks
  BY <1>2, DoneStep
<1>5. RollingBack /\ ~ HasEntryToUndo /\ call' = NoCall /\ now' = now /\ call.lastId = last
  BY <1>2 DEF RollbackDone, LastId
<1>6. ~ Idle /\ Idle'
  BY <1>5 DEF Idle, NoCall, RollingBack
<1>7. MappedCall = [cmd |-> "rollback", timestamp |-> call.timestamp] /\ MappedCall' = NoCall
  BY <1>6 DEF MappedCall
<1>8. ~ Sequence!HasEntryToUndo
  <2>0. Sequence!HasEntryToUndo => s # <<>> /\ s[Len(s)].timestamp > MappedCall.timestamp
    BY <1>2 DEF LogOf, MappedCall, Sequence!HasEntryToUndo, Sequence!Newest
  <2>1. SUFFICES ASSUME s # <<>>, s[Len(s)].timestamp > call.timestamp
                 PROVE  FALSE
    BY <1>7, <2>0
  <2>2. last \in Int /\ last >= 0
    BY <1>1, <1>2, <1>3, <2>1 DEF Layout
  <2>3. s[Len(s)] = file.chunks[last]
    <3>1. \A k \in 1 .. last + 1 : s[k] = file.chunks[k - 1]
      BY DEF LogOf
    <3>2. last + 1 \in 1 .. last + 1 /\ (last + 1) - 1 = last /\ Len(s) = last + 1
      BY <1>3, <2>2
    <3> QED
      BY <3>1, <3>2, Zenon
  <2> QED
    BY <1>5, <2>1, <2>2, <2>3 DEF HasEntryToUndo
<1>9. LogOf(file', LastId') = LogOf(file, LastId)
  BY <1>2, <1>4 DEF LogOf
<1>10. Sequence!RollingBack
  BY <1>7 DEF MappedCall, Sequence!RollingBack
<1> QED
  BY <1>5, <1>7, <1>8, <1>9, <1>10 DEF LogOf, MappedCall, Sequence!RollbackDone, Sequence!NoCall, NoCall

LEMMA CleanRefines ==
  ASSUME LogInv, Clean
  PROVE  Sequence!Clean
<1>1. Idle /\ Idle' /\ now' = now /\ LastId' = -1
  BY CleanStep DEF Clean, Idle
<1>2. LogOf(file', LastId') = <<>>
  BY <1>1 DEF LogOf
<1> QED
  BY <1>1, <1>2 DEF LogOf, Sequence!Clean, Sequence!Idle, Sequence!NoCall, NoCall

LEMMA StartRefines ==
  ASSUME LogInv, NEW t, StartRollback(t)
  PROVE  Sequence!StartRollback(t)
<1>1. LastId' = LastId /\ file' = file /\ now' = now /\ t <= now /\ Idle /\ RollingBack'
  BY StartStep DEF StartRollback, RollingBack
<1>2. ~ Idle' /\ call'.timestamp = t
  BY <1>1 DEF Idle, StartRollback, NoCall
<1> QED
  BY <1>1, <1>2 DEF Sequence!StartRollback, Sequence!Idle, Sequence!NoCall, NoCall

LEMMA ReadRefines ==
  ASSUME LogInv, NEW t, ReadTimestamp(t)
  PROVE  Sequence!ReadTimestamp(t)
<1>1. Idle /\ file' = file /\ call' = call /\ t >= now /\ now' = t
  BY DEF ReadTimestamp
<1>2. LastId' = LastId /\ Idle'
  BY <1>1 DEF LastId, RollingBack, GetMeta, Idle
<1> QED
  BY <1>1, <1>2 DEF Sequence!ReadTimestamp, Sequence!Idle, Sequence!NoCall, NoCall

(* Each step of the log in its file is the same step of the sequence.      *)
LEMMA NextRefines ==
  ASSUME LogInv, [Next]_vars
  PROVE  [Sequence!Next]_<<now, LogOf(file, LastId), MappedCall>>
<1>1. CASE UNCHANGED vars
  BY <1>1 DEF vars, LogOf, MappedCall, LastId, RollingBack, GetMeta, Idle
<1>2. CASE Next
  <2>1. ASSUME NEW t \in 0 .. MaxTime, ReadTimestamp(t) \/ StartRollback(t)
        PROVE  Sequence!Next
    BY <2>1, ReadRefines, StartRefines DEF Sequence!Next
  <2>2. ASSUME NEW content \in Contents, Log(content)
        PROVE  Sequence!Next
    BY <2>2, LogRefines DEF Sequence!Next
  <2>3. CASE UndoEntry
    BY <2>3, UndoRefines DEF Sequence!Next
  <2>4. CASE RollbackDone
    BY <2>4, DoneRefines DEF Sequence!Next
  <2>5. CASE Clean
    BY <2>5, CleanRefines DEF Sequence!Next
  <2> QED
    BY <1>2, <2>1, <2>2, <2>3, <2>4, <2>5 DEF Next
<1> QED
  BY <1>1, <1>2

(* The log in its file is the sequence the components are modelled with.   *)
THEOREM LogFileIsSequence == Spec => ImplementsSequence
<1>1. [Sequence!Next]_<<now, LogOf(file, LastId), MappedCall>>
        => [Sequence!Next]_<<now, [k \in 1 .. LastId + 1 |-> file.chunks[k - 1]],
                             IF Idle THEN NoCall ELSE [cmd |-> "rollback", timestamp |-> call.timestamp]>>
  BY DEF LogOf, MappedCall
<1>2. LogInv /\ [Next]_vars
        => [Sequence!Next]_<<now, [k \in 1 .. LastId + 1 |-> file.chunks[k - 1]],
                             IF Idle THEN NoCall ELSE [cmd |-> "rollback", timestamp |-> call.timestamp]>>
  BY <1>1, NextRefines
<1> QED
  BY <1>2, InitRefines, LogInvariant, PTL DEF Spec, ImplementsSequence, Sequence!Spec

=============================================================================
