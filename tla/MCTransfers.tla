----------------------------- MODULE MCTransfers ----------------------------
(* Transfers of three chunks: two batches, the first of which takes two rounds. *)
EXTENDS Transfers
=============================================================================
