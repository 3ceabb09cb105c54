------------------------------ MODULE Transfer ------------------------------
(***************************************************************************)
(* What FdEntity::Load and FdEntity::RowFlush rely on: a transfer moves    *)
(* the whole area or none of it as far as its caller can tell, and it      *)
(* reports success only when it has moved the whole.  It may report a      *)
(* failure although everything was moved.                                  *)
(***************************************************************************)

VARIABLES
    moved,      \* whether the destination has the whole area
    report      \* what the caller was told: "none" so far, "ok" or "error"

vars == <<moved, report>>

Init == moved = FALSE /\ report = "none"

Move == report = "none" /\ moved' = TRUE /\ UNCHANGED report

Succeed == report = "none" /\ moved' = TRUE /\ report' = "ok"

Fail == report = "none" /\ moved' \in {moved, TRUE} /\ report' = "error"

Next == Move \/ Succeed \/ Fail

Spec == Init /\ [][Next]_vars
=============================================================================
