---------------------------- MODULE Permutation ----------------------------
(***************************************************************************)
(* struct Permutation (masstree/include/permutation.h): the order of the   *)
(* keys of a border node and their number, packed into one word of 4-bit   *)
(* fields so that a reader gets both with a single load. The field of      *)
(* lowest weight is the number of keys; the others hold, from the highest  *)
(* down, the slots (trueIndex) of the keys in the order of their slices.   *)
(* ORDER is 16 in the code, which makes the word 64 bits wide.             *)
(***************************************************************************)
EXTENDS Integers

CONSTANT ORDER

ASSUME OrderAssumption == ORDER \in 3 .. 16

Slots == ORDER - 1
Field == 16                       \* a field is 4 bits wide

getNumKeys(p) == p % Field

setNumKeys(p, num) == (p \div Field) * Field + num

getKeyIndex(p, index) == (p \div Field ^ (Slots - index)) % Field

setKeyIndex(p, permutationIndex, trueIndex) ==
  LET weight == Field ^ (Slots - permutationIndex)
      left   == (p \div (Field * weight)) * (Field * weight)
  IN  left + trueIndex * weight + (p % weight)

isNotFull(p) == getNumKeys(p) # Slots

\* The fields from permutationIndex on move one place to the right, highest
\* first, and trueIndex takes the place that becomes free.
insert(p, permutationIndex, trueIndex) ==
  LET n == getNumKeys(p)
      shifted[i \in permutationIndex .. n] ==
        IF i = n THEN p
                 ELSE setKeyIndex(shifted[i + 1], i + 1, getKeyIndex(p, i))
  IN  setNumKeys(setKeyIndex(shifted[permutationIndex], permutationIndex, trueIndex),
                 n + 1)

\* The fields behind the one of trueIndex move one place to the left; the
\* last one stays, behind the new number of keys.
removeIndex(p, trueIndex) ==
  LET n   == getNumKeys(p)
      pos == CHOOSE i \in 0 .. n - 1 : getKeyIndex(p, i) = trueIndex
      shifted[i \in pos .. n - 1] ==
        IF i = pos THEN p
                   ELSE setKeyIndex(shifted[i - 1], i - 1, getKeyIndex(p, i))
  IN  setNumKeys(shifted[n - 1], n - 1)

fromSorted(n_keys) ==
  LET filled[i \in 0 .. n_keys] ==
        IF i = 0 THEN 0 ELSE setKeyIndex(filled[i - 1], i - 1, i - 1)
  IN  setNumKeys(filled[n_keys], n_keys)

sizeOne == fromSorted(1)

\* The slots in use, in the order of the word.
Order(p) == [i \in 1 .. getNumKeys(p) |-> getKeyIndex(p, i - 1)]
=============================================================================
