----------------------------- MODULE CachedFile -----------------------------
(***************************************************************************)
(* A file of chunks behind its write-back cache (file.h, lru-cache.h).     *)
(* Every operation on the file is a few gets and sets of single chunks,    *)
(* each of which may evict another chunk from the cache, the header, the   *)
(* chunk at index -1, like any other.  The cache is a hash map: a chunk    *)
(* that is used is inserted anew, and the one inserted first makes room.   *)
(* The lengths of chunks are left out.                                     *)
(***************************************************************************)
EXTENDS Chunks, HashMap

CONSTANTS
  Data,        \* what a chunk in use may hold
  UserMeta,    \* what the user of the file may keep in the header
  MaxChunks,   \* bound: the number of chunks
  kSize        \* the chunks the cache can hold

ASSUME CacheAssumption ==
  /\ kSize \in Nat /\ kSize >= 2
  /\ MaxChunks \in Nat
  /\ NoMeta \in UserMeta
  /\ \A i \in -1 .. MaxChunks - 1 : Hash[i] \in Nat

VARIABLES
  store,    \* [disk, cache]: the stream, and the map of what is cached
  live,     \* the ids in use, as the owners of the objects know them
  count     \* the objects that were pushed and not removed

vars == <<store, live, count>>

-----------------------------------------------------------------------------
(* LruCache                                                                *)

Payload(v, d) == [value |-> v, dirty |-> d]
Cached(s, i) == HasKey(s.cache, i)

(* touch_: an entry, perhaps changed, is taken out and inserted again.     *)
Touch(s, i, payload) == [s EXCEPT !.cache = InsertKey(Erase(@, i), i, payload)]

(* Mistake: a chunk the file already has is not written again.             *)
WriteBackOnce(s, indices) ==
  LET dirty == {i \in indices : s.cache.value[i].dirty}
  IN  [s EXCEPT !.disk = Over(@, [i \in dirty |-> s.cache.value[i].value])]

(* The callback BeforeDestroy for each of the entries: dirty ones are      *)
(* written to the file.                                                    *)
WriteBack(s, indices) ==
  LET dirty == {i \in indices : s.cache.value[i].dirty}
  IN  [s EXCEPT !.disk = Over([i \in dirty |-> s.cache.value[i].value], @)]

(* upsert of a chunk that is not in the cache: a full cache gives up the   *)
(* entry at the beginning.                                                 *)
Insert(s, i, payload) ==
  LET lru == First(s.cache)
      room == IF s.cache.size = kSize
              THEN [WriteBack(s, {lru}) EXCEPT !.cache = Erase(@, lru)]
              ELSE s
  IN  [room EXCEPT !.cache = InsertKey(@, i, payload)]

-----------------------------------------------------------------------------
(* File: what the get and the set of one chunk leave behind.               *)

Read(s, i) == IF Cached(s, i) THEN s.cache.value[i].value ELSE s.disk[i]

AfterGet(s, i) ==
  IF Cached(s, i) THEN Touch(s, i, s.cache.value[i])
  ELSE Insert(s, i, Payload(s.disk[i], FALSE))

(* Mistake: an entry that was clean stays clean.                           *)
WrittenKeepsFlag(s, i, v) ==
  IF Cached(s, i) THEN Touch(s, i, Payload(v, s.cache.value[i].dirty))
  ELSE Insert(s, i, Payload(v, TRUE))

Written(s, i, v) ==
  IF Cached(s, i) THEN Touch(s, i, Payload(v, TRUE))
  ELSE Insert(s, i, Payload(v, TRUE))

Top == -1    \* the index of the header

-----------------------------------------------------------------------------
Init ==
  /\ store = Written([disk |-> <<>>, cache |-> EmptyMap], Top, Header(0, FALSE))
  /\ live = {}
  /\ count = 0

(* Managed::get.                                                           *)
Get(id) ==
  /\ id \in live
  /\ store' = AfterGet(store, id)
  /\ UNCHANGED <<live, count>>

(* push, when the header names a free chunk: the header is read, then the  *)
(* free chunk, which is the new header, and the new object goes there.     *)
PushFreed(data) ==
  LET meta == Read(store, Top)
      opened == AfterGet(store, Top)
      found == AfterGet(opened, meta.next)
  IN  /\ meta.hasNext
      /\ store' = Written(Written(found, Top, Read(opened, meta.next)), meta.next, data)
      /\ live' = live \cup {meta.next}
      /\ count' = count + 1

(* Mistake: the object is written before the header counts it.             *)
PushNewUncounted(data) ==
  LET meta == Read(store, Top)
  IN  /\ ~ meta.hasNext
      /\ meta.next < MaxChunks
      /\ store' = Written(AfterGet(store, Top), meta.next, data)
      /\ live' = live \cup {meta.next}
      /\ count' = count + 1

PushNew(data) ==
  LET meta == Read(store, Top)
      opened == AfterGet(store, Top)
  IN  /\ ~ meta.hasNext
      /\ meta.next < MaxChunks
      /\ store' = Written(Written(opened, Top, [meta EXCEPT !.next = @ + 1]), meta.next, data)
      /\ live' = live \cup {meta.next}
      /\ count' = count + 1

Set(id, data) ==
  /\ id \in live
  /\ store' = Written(store, id, data)
  /\ UNCHANGED <<live, count>>

(* The old header goes into the chunk that is freed.                       *)
Destroy(id) ==
  /\ id \in live
  /\ store' = Written(Written(AfterGet(store, Top), id, Read(store, Top)), Top, Header(id, TRUE))
  /\ live' = live \ {id}
  /\ count' = count - 1

SetMeta(user) ==
  /\ store' = Written(AfterGet(store, Top), Top, [Read(store, Top) EXCEPT !.user = user])
  /\ UNCHANGED <<live, count>>

(* Mistake: only the next id is reset.                                     *)
TruncateKeepsFree ==
  /\ store' = Written(store, Top, [Read(store, Top) EXCEPT !.next = 0])
  /\ live' = {}
  /\ count' = 0

Truncate ==
  /\ store' = Written(store, Top, Header(0, FALSE))
  /\ live' = {}
  /\ count' = 0

(* clear(), when the file is closed at the end of the program or its cache *)
(* is emptied.                                                             *)
ClearCache ==
  /\ store.cache.size > 0
  /\ store' = [WriteBack(store, DOMAIN store.cache.value) EXCEPT !.cache = EmptyMap]
  /\ UNCHANGED <<live, count>>

Next ==
  \/ \E data \in Data : PushFreed(data) \/ PushNew(data)
  \/ \E id \in live : Get(id) \/ Destroy(id) \/ \E data \in Data : Set(id, data)
  \/ \E user \in UserMeta : SetMeta(user)
  \/ Truncate
  \/ ClearCache

Spec == Init /\ [][Next]_vars

-----------------------------------------------------------------------------
(* Properties                                                              *)

TypeOK ==
  /\ live \subseteq 0 .. MaxChunks - 1
  /\ DOMAIN store.disk \subseteq {Top} \cup 0 .. MaxChunks - 1
  /\ store.cache.size <= kSize

(* However entries are touched and evicted, and however often the map has  *)
(* grown and been emptied, its lists and its buckets agree, and an entry   *)
(* that is not marked as changed is what the stream holds.                 *)
CacheExact ==
  /\ TypeOK
  /\ MapExact(store.cache)
  /\ \A i \in DOMAIN store.cache.value :
       ~ store.cache.value[i].dirty =>
         i \in DOMAIN store.disk /\ store.disk[i] = store.cache.value[i].value

(* The contents of the file, wherever they are kept.                       *)
Contents ==
  LET all == Over([i \in DOMAIN store.cache.value |-> store.cache.value[i].value], store.disk)
  IN  [header |-> all[Top], chunks |-> Restrict(all, DOMAIN all \ {Top})]

File == INSTANCE ChunkFile WITH file <- Contents

(* Whatever is evicted, read again or written back in the middle of an     *)
(* operation, the file behaves as one that has no cache; a get, and        *)
(* emptying the cache, leave it as it is.                                  *)
ImplementsFile == File!Spec

(* The free list, half of it in the cache and half on the disk, ends, and  *)
(* every id that was given out is in use, or free, and not both.           *)
FreeListExact == File!FreeListExact

(* No id is given out twice, and no object changes but by its owner.       *)
ImplementsStore == File!ImplementsStore

=============================================================================
