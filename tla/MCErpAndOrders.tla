---------------------------- MODULE MCErpAndOrders ----------------------------
(***************************************************************************)
(* Small instances of ErpSyncQueue and of OrderReplication for TLC.  The   *)
(* two share no state: a behaviour runs the one its focus names, and the   *)
(* other one stays as it was at first.                                     *)
(***************************************************************************)
EXTENDS ErpSyncQueue, TLC

CONSTANTS
  Focus,                              \* what the behaviours are about
  gr1, count1, w1, c1,                \* of the posting queue
  l1, l2, Drafts, DraftKind, Triggers, ReplicatedLate, None   \* of the replication

VARIABLES focus, trigger, order, draft, delivery, issue, work
replication == <<trigger, order, draft, delivery, issue, work>>
allVars == <<focus, vars, replication>>

\* The rows of the order are asked for in a few combinations: one row alone,
\* both, more of one, and a row removed.
TwoLines == {l1, l2}
Q(x, y) == (l1 :> x) @@ (l2 :> y)
Asked == [t \in Triggers |-> IF t = "Draft" THEN {} ELSE {Q(1, 0), Q(2, 1), Q(0, 1)}]
Drafted == {Q(2, 0), Q(2, 1)}
Moved == {Q(1, 0), Q(1, 1)}

Replication == INSTANCE OrderReplication WITH
  Lines <- TwoLines, Names <- 1..5, OrderInputs <- Asked, DraftInputs <- Drafted, Moves <- Moved,
  ChangePolicy <- "Adapt", ReleaseReplicated <- TRUE, FollowUp <- TRUE, CloseShortOrders <- TRUE,
  PostedLate <- ReplicatedLate, MaxQuantity <- 2, MaxIssues <- 2, MaxWork <- 7
ASSUME Replication!OrderReplicationAssumption

MCInit == focus \in Focus /\ Init /\ Replication!Init
MCNext ==
  /\ UNCHANGED focus
  /\ \/ focus = "Queue" /\ Next /\ UNCHANGED replication
     \/ focus = "Orders" /\ Replication!Next /\ UNCHANGED vars
MCSpec == MCInit /\ [][MCNext]_allVars

\* The rows of an order never ask the warehouse, together with what has left
\* it, for more than the customer ordered.
NeverOverCommitted == Replication!NeverOverCommitted

\* What the warehouse works on is never taken away from a delivery.
CoversWork == Replication!TypeOK /\ Replication!CoversWork

\* A draft and its deliveries ask for the same rows.
DraftMirrored == Replication!DraftMirrored
=============================================================================
