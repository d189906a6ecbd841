----------------------------- MODULE ChunkStore -----------------------------
(***************************************************************************)
(* What a file of chunks promises about ids: an object keeps its id and    *)
(* its data until it is changed or removed, and a new object gets an id    *)
(* that no other object has.                                               *)
(***************************************************************************)
EXTENDS Integers

CONSTANTS Data, MaxChunks

VARIABLES
  data,    \* the objects in the file, by id
  count    \* how many there are

vars == <<data, count>>

Init == data = <<>> /\ count = 0

Push(id, d) ==
  /\ id \notin DOMAIN data
  /\ data' = [i \in DOMAIN data \cup {id} |-> IF i = id THEN d ELSE data[i]]
  /\ count' = count + 1

Set(id, d) ==
  /\ data' = [data EXCEPT ![id] = d]
  /\ UNCHANGED count

Remove(id) ==
  /\ data' = [i \in DOMAIN data \ {id} |-> data[i]]
  /\ count' = count - 1

Truncate == data' = <<>> /\ count' = 0

Next ==
  \/ \E d \in Data : \/ \E id \in 0 .. MaxChunks : Push(id, d)
                     \/ \E id \in DOMAIN data : Set(id, d)
  \/ \E id \in DOMAIN data : Remove(id)
  \/ Truncate

Spec == Init /\ [][Next]_vars

=============================================================================
