---------------------------- MODULE MCPathObjects ----------------------------
(* Two modes, to tell the mode that was set from the one there was, and two  *)
(* contents, to tell a file that was created from one that was stored.       *)
EXTENDS PathObjects
==============================================================================
