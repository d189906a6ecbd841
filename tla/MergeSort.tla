----------------------------- MODULE MergeSort -----------------------------
(***************************************************************************)
(* sort (lib/algorithm.h), which orders the answers of QueryOrder and      *)
(* QueryTicket and the sections of QueryTransfer.                          *)
(***************************************************************************)
EXTENDS Integers, Sequences

CONSTANT Lt(_, _)   \* the comparison

RECURSIVE Merge(_, _), Sort(_)

(* The rest of a run is taken when the other has come to its end; of two   *)
(* equal elements the right one goes first.                                *)
Merge(p, q) ==
  IF p = <<>> /\ q = <<>> THEN <<>>
  ELSE IF p # <<>> /\ (q = <<>> \/ Lt(Head(p), Head(q)))
       THEN <<Head(p)>> \o Merge(Tail(p), q)
       ELSE <<Head(q)>> \o Merge(p, Tail(q))

(* Mistake: the second half is taken to be in order.                       *)
SortFirstHalf(s) ==
  LET mid == Len(s) \div 2
  IN  IF Len(s) <= 1 THEN s
      ELSE Merge(Sort(SubSeq(s, 1, mid)), SubSeq(s, mid + 1, Len(s)))

Sort(s) ==
  LET mid == Len(s) \div 2
  IN  IF Len(s) <= 1 THEN s
      ELSE Merge(Sort(SubSeq(s, 1, mid)), Sort(SubSeq(s, mid + 1, Len(s))))

=============================================================================
