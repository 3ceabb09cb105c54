---------------------------- MODULE MCFdManager ----------------------------
(* Two threads, two handles and two paths: two handles on one path, a file   *)
(* that is opened while another thread closes it for the last time, a thread *)
(* that waits for an entity with fd_manager_lock in its hands, and the       *)
(* address of a deleted entity used again for another path.                  *)
EXTENDS FdManager, TLC

Symmetry == Permutations(Threads) \cup Permutations(Handles)
              \cup Permutations(Paths) \cup Permutations(Entities)
============================================================================
