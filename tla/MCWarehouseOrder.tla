--------------------------- MODULE MCWarehouseOrder ---------------------------
(***************************************************************************)
(* Small instances of WarehouseOrder for TLC.  In a behaviour resources    *)
(* only execute the order; or, with fewer tasks, they also take it and     *)
(* give it back; or supervisors reorder and pause it meanwhile.            *)
(***************************************************************************)
EXTENDS WarehouseOrder, TLC

CONSTANTS r1, r2, FewTasks

VARIABLE focus

Symmetry == Permutations(Resources)

Few(rows) == \A t \in TaskSlots : t > FewTasks => rows[t].status = "None"
Execute   == \E r \in Resources : Executing(r)
Dispatch  == \E r \in Resources : Dispatching(r)

MCInit == focus \in {"Execute", "Dispatch", "Supervise"} /\ Init
MCNext ==
  /\ UNCHANGED focus
  /\ \/ Execute /\ UNCHANGED supervised
     \/ focus = "Dispatch" /\ Dispatch /\ UNCHANGED supervised
     \/ focus = "Supervise" /\ Supervision /\ supervised' = TRUE
  /\ focus = "Execute" \/ Few(task')
MCSpec == MCInit /\ [][MCNext]_<<focus, vars>>
=============================================================================
