----------------------------- MODULE MCStatCache -----------------------------
(* Two threads.  With one path every call on it meets every other at every   *)
(* step; with two, entries are evicted and files are renamed.                *)
EXTENDS StatCache, TLC

Symmetry == Permutations(Threads)
==============================================================================
