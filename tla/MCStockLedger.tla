---------------------------- MODULE MCStockLedger ----------------------------
(***************************************************************************)
(* A small instance of StockLedger for TLC.                                *)
(***************************************************************************)
EXTENDS StockLedger, TLC

CONSTANTS b1, b2, t1, t2, d1, c1

\* Two units in two bins, one of them full.
TwoUnits == (1 :> b1) @@ (2 :> b2)
OneFull == (<<1, b1, t1>> :> 2)
=============================================================================
