----------------------------- MODULE MCCacheFile -----------------------------
(* Three pages of one byte: enough for a list of two pages in front of the   *)
(* tail of a longer one.  Two values tell what was written or replaced from  *)
(* what was there, and both from a hole.                                     *)
EXTENDS CacheFile, TLC

ByteSymmetry == Permutations(Byte \ {Zero})
==============================================================================
