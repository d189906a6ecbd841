------------------------------- MODULE Search -------------------------------
(***************************************************************************)
(* upperBound and lowerBound (lib/algorithm.h), with which the nodes of    *)
(* the B+ tree are searched: one macro, two comparisons.  The iterators    *)
(* are offsets from the first item.                                        *)
(***************************************************************************)
EXTENDS Integers, Sequences

CONSTANTS
  Values,     \* the values, integers
  MaxItems    \* bound: the length of a sequence that is searched

ASSUME ValuesAssumption == Values \subseteq Int
ASSUME MaxItemsAssumption == MaxItems \in Nat

VARIABLES
  items,    \* the sequence searched; the callers keep theirs sorted
  value,    \* the value searched for
  name,     \* "upperBound" or "lowerBound", "none" before the first call
  first,    \* the answer is here or later
  length    \* the items from first on that are still in question

searchVars == <<items, value, name, first, length>>

IsAscending(s) == \A i, j \in DOMAIN s : i <= j => s[i] <= s[j]

(* Mistake: both functions stop at an item equal to the value.             *)
IsStrictlyBefore(x) == value > x

(* cmp.cf(value, x): the bound is behind x.                                *)
IsBefore(x) == IF name = "upperBound" THEN value >= x ELSE value > x

SearchInit ==
  /\ items = <<>>
  /\ value \in Values
  /\ name = "none"
  /\ first = 0
  /\ length = 0

Call(n, s, v) ==
  /\ length = 0
  /\ IsAscending(s)
  /\ items' = s
  /\ value' = v
  /\ name' = n
  /\ first' = 0
  /\ length' = Len(s)

Mid == length \div 2

GoRight ==
  /\ length # 0
  /\ IsBefore(items[first + Mid + 1])
  /\ first' = first + Mid + 1
  /\ length' = length - (Mid + 1)
  /\ UNCHANGED <<items, value, name>>

GoLeft ==
  /\ length # 0
  /\ ~ IsBefore(items[first + Mid + 1])
  /\ length' = Mid
  /\ UNCHANGED <<items, value, name, first>>

SearchNext ==
  \/ \E n \in {"upperBound", "lowerBound"}, k \in 0 .. MaxItems, v \in Values :
       \E s \in [1 .. k -> Values] : Call(n, s, v)
  \/ GoRight
  \/ GoLeft

SearchSpec == SearchInit /\ [][SearchNext]_searchVars

-----------------------------------------------------------------------------
(* Properties                                                              *)

InFront(x) ==
  /\ name = "upperBound" => x <= value
  /\ name = "lowerBound" => x < value

(* When the loop ends, first is the bound: upperBound has come to the      *)
(* first item greater than the value, lowerBound to the first that is not  *)
(* less, or to the end.                                                    *)
BoundExact ==
  length = 0 => \A i \in DOMAIN items : i <= first <=> InFront(items[i])

=============================================================================
