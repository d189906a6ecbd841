------------------------------- MODULE Chunks -------------------------------
(***************************************************************************)
(* How a file of chunks gives out ids (file.h: push, remove, truncate) and *)
(* keeps metadata for its user, as operators on files: a file is a record  *)
(* [header, chunks].  The header, the chunk at index -1, and every free    *)
(* chunk hold a record [next, hasNext, user]: a list of the free chunks,   *)
(* ended by a record without hasNext, whose next is the first id that was  *)
(* never given out.  remove() buries the old header in the chunk it frees. *)
(***************************************************************************)
EXTENDS Integers

CONSTANT NoMeta    \* the default value of the type of the metadata

Header(next, hasNext) == [next |-> next, hasNext |-> hasNext, user |-> NoMeta]

EmptyFile == [header |-> Header(0, FALSE), chunks |-> <<>>]

Stored(chunks, id, content) ==
  [i \in DOMAIN chunks \cup {id} |-> IF i = id THEN content ELSE chunks[i]]

PushId(f) == f.header.next

AfterPush(f, data) ==
  [header |-> IF f.header.hasNext THEN f.chunks[f.header.next]
              ELSE [f.header EXCEPT !.next = @ + 1],
   chunks |-> Stored(f.chunks, f.header.next, data)]

AfterSet(f, id, data) == [f EXCEPT !.chunks = Stored(@, id, data)]

AfterRemove(f, id) ==
  [header |-> Header(id, TRUE), chunks |-> Stored(f.chunks, id, f.header)]

GetMeta(f) == f.header.user
AfterSetMeta(f, user) == [f EXCEPT !.header.user = user]

(* The chunks stay where they are.                                         *)
AfterTruncate(f) == [f EXCEPT !.header = Header(0, FALSE)]

=============================================================================
