----------------------------- MODULE MCPageList -----------------------------
(* Pages of 3 bytes and files of up to 14: whole, partial and no last pages.  *)
EXTENDS PageList
==============================================================================
