----------------------------- MODULE MCFdEntity -----------------------------
(* Two pages of two bytes, the second one partial, two threads: a loaded and *)
(* an unloaded page at once, a write that ends inside a page, one thread     *)
(* between Load and pread or pwrite while the other one writes, flushes or   *)
(* opens.  Bytes 1 and 2 tell the object's bytes from written ones.          *)
EXTENDS FdEntity, TLC

ThreadSymmetry == Permutations(Threads)
==============================================================================
