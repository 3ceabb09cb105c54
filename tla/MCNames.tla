------------------------------- MODULE MCNames -------------------------------
(* The directory holds a file a and a directory s with a file c, in this     *)
(* order of keys: an entry after a directory and one in it, and four keys    *)
(* that come in four pages.                                                  *)
EXTENDS Names, TLC

Tree == 1..4
TreeDirs == {1, 3}
TreeAbove == <<{}, {1}, {1}, {1, 3}>>

\* A directory that is not there, and one with the same names in it.
NothingOrAll ==
  {[e \in Tree |-> None]} \cup {[e \in Tree |-> IF e \in TreeDirs THEN Dir ELSE c] : c \in Contents}

ContentSymmetry == Permutations(Contents)
==============================================================================
