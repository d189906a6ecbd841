----------------------------- MODULE ChunkFile -----------------------------
(***************************************************************************)
(* A file of chunks in use (file.h, File and Managed), as it would be      *)
(* without its cache: its clients push objects, and update and remove only *)
(* what they pushed.                                                       *)
(***************************************************************************)
EXTENDS Chunks, FiniteSetsExt

CONSTANTS
  Data,        \* what a chunk may hold
  UserMeta,    \* what the user of the file may keep in the header
  MaxChunks    \* bound: the number of chunks

VARIABLES
  file,     \* [header, chunks]
  live,     \* the ids in use, as the owners of the objects know them
  count     \* the objects that were pushed and not removed

vars == <<file, live, count>>

-----------------------------------------------------------------------------
Init ==
  /\ file = EmptyFile
  /\ live = {}
  /\ count = 0

Push(data) ==
  /\ PushId(file) < MaxChunks
  /\ file' = AfterPush(file, data)
  /\ live' = live \cup {PushId(file)}
  /\ count' = count + 1

Set(id, data) ==
  /\ id \in live
  /\ file' = AfterSet(file, id, data)
  /\ UNCHANGED <<live, count>>

Remove(id) ==
  /\ id \in live
  /\ file' = AfterRemove(file, id)
  /\ live' = live \ {id}
  /\ count' = count - 1

SetMeta(user) ==
  /\ file' = AfterSetMeta(file, user)
  /\ UNCHANGED <<live, count>>

Truncate ==
  /\ file' = AfterTruncate(file)
  /\ live' = {}
  /\ count' = 0

Next ==
  \/ \E data \in Data : Push(data) \/ \E id \in live : Set(id, data)
  \/ \E id \in live : Remove(id)
  \/ \E user \in UserMeta : SetMeta(user)
  \/ Truncate

Spec == Init /\ [][Next]_vars

-----------------------------------------------------------------------------
(* Properties                                                              *)

(* The header as it will be after n pushes that find a free chunk.         *)
Later ==
  LET after[n \in 0 .. MaxChunks] ==
        IF n = 0 THEN file.header
        ELSE IF after[n - 1].hasNext THEN file.chunks[after[n - 1].next] ELSE after[n - 1]
  IN  after

FreeIds == {Later[n].next : n \in {m \in 0 .. MaxChunks : Later[m].hasNext}}

(* The free list ends, and the ids on it and those in use are the ids that *)
(* were ever given out: every id is in use, or free, and not both.         *)
FreeListExact ==
  LET end == Later[MaxChunks]
  IN  /\ ~ end.hasNext
      /\ Cardinality(FreeIds) = Cardinality({n \in 0 .. MaxChunks : Later[n].hasNext})
      /\ FreeIds \cap live = {}
      /\ FreeIds \cup live = 0 .. (end.next - 1)

(* push() gives out an id that is not in use, and leaves what is in use as *)
(* it is; remove() frees one id, and nothing else is disturbed.            *)
Store == INSTANCE ChunkStore WITH data <- [id \in live |-> file.chunks[id]]

ImplementsStore == Store!Spec

=============================================================================
