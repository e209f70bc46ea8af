---------------------------- MODULE EnumerableSet ----------------------------
(***************************************************************************)
(* The library contracts/src/utils/EnumerableSetUpgradeable.sol: a set of  *)
(* addresses as an array of values and a mapping from each value to its    *)
(* position, counted from 1 as 0 stands for "not in the set".  Arrays are  *)
(* sequences, so a position here is the index that the mapping stores.     *)
(***************************************************************************)
EXTENDS Integers, Sequences

CONSTANT Elements   \* what a set can hold

\* the array and the mapping of a set
Sets == [values : Seq(Elements), index : [Elements -> Nat]]

EmptySet == [values |-> <<>>, index |-> [e \in Elements |-> 0]]

Contains(s, e) == s.index[e] # 0

Add(s, e) ==
  IF Contains(s, e) THEN s
  ELSE [values |-> Append(s.values, e),
        index |-> [s.index EXCEPT ![e] = Len(s.values) + 1]]

\* Mutant of Remove: the position of the value that moved is not updated
RemoveWithoutMove(s, e) ==
  LET last == s.values[Len(s.values)] IN
  IF ~ Contains(s, e) THEN s
  ELSE [values |-> [i \in 1..(Len(s.values) - 1) |->
                      IF i = s.index[e] THEN last ELSE s.values[i]],
        index |-> [s.index EXCEPT ![e] = 0]]

\* the last value takes the place of the removed one, then the array shrinks
Remove(s, e) ==
  LET last == s.values[Len(s.values)] IN
  IF ~ Contains(s, e) THEN s
  ELSE [values |-> [i \in 1..(Len(s.values) - 1) |->
                      IF i = s.index[e] THEN last ELSE s.values[i]],
        index |-> [[s.index EXCEPT ![last] = s.index[e]] EXCEPT ![e] = 0]]

\* what values() lists
Listed(s) == {s.values[i] : i \in 1..Len(s.values)}

\* the array and the mapping are inverse to each other
Consistent(s) ==
  /\ \A i \in 1..Len(s.values) : s.index[s.values[i]] = i
  /\ \A e \in Elements : Contains(s, e) =>
       /\ s.index[e] \in 1..Len(s.values)
       /\ s.values[s.index[e]] = e

=============================================================================
