---------------------------- MODULE MCErpSyncQueue ----------------------------
(***************************************************************************)
(* Instances of ErpSyncQueue for TLC.                                      *)
(***************************************************************************)
EXTENDS ErpSyncQueue, TLC

CONSTANTS adj1, psc1, w1, w2, c1

\* "A reversal never overtakes its posting" (README, Posting mode): ERPNext holds
\* nothing for a cancelled document whose reversal has been done (dispatch).
ReversalComesLast ==
  \A d \in Docs : doc[d].state = "Cancelled" /\ PendingOf(d, TRUE) = {} => Live(d) = {}

=============================================================================
