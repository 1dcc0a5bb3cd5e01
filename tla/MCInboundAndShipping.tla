------------------------ MODULE MCInboundAndShipping ------------------------
(***************************************************************************)
(* Small instances of InboundDelivery and of PackAndShip for TLC.  The two *)
(* share no state: a behaviour runs the one its focus names, and the other *)
(* one stays as it was at first.                                           *)
(***************************************************************************)
EXTENDS InboundDelivery, TLC

CONSTANTS
  d1, d2, d3, g1, g2,      \* inbound deliveries and their receipts
  o1, o2, s1, s2           \* outbound deliveries and their shipments

VARIABLES focus, delivery, into, carton, shipment, issue, loose, missing, screen, packed
shipping == <<delivery, into, carton, shipment, issue, loose, missing, screen, packed>>
allVars == <<focus, vars, shipping>>

Symmetry == Permutations({g1, g2}) \cup Permutations({s1, s2})

\* A purchase that may be received in two receipts, a return and a production
\* order; two customers who want more than is in stock.
AllOrigins == (d1 :> "Purchase") @@ (d2 :> "Return") @@ (d3 :> "Production")
Three == (d1 :> 2) @@ (d2 :> 1) @@ (d3 :> 1)
Two == <<2, 1>>

\* One delivery is picked into two units, the other is served by cross-docking
\* into one of them; shipments are complete and in load sequence.
Shipping == INSTANCE PackAndShip WITH
  Deliveries <- {o1, o2}, Shipments <- {s1, s2}, Units <- 1..3,
  Requested <- (o1 :> 2) @@ (o2 :> 1), Filled <- (o1 :> "Pick") @@ (o2 :> "Cross Dock"),
  PickUnits <- (o1 :> {1, 2}) @@ (o2 :> {2}), StagingBin <- "Section", FollowUpBin <- "Section",
  PerUnit <- 1, CompletenessCheck <- "Block", LoadSequenceCheck <- "Block", LooseStock <- 1,
  None <- Nothing, MaxIssues <- 4, MaxWork <- 7, unit <- carton, work <- packed
ASSUME Shipping!PackAndShipAssumption

MCInit == focus \in {"Inbound", "Shipping"} /\ Init /\ Shipping!Init
MCNext ==
  /\ UNCHANGED focus
  /\ \/ focus = "Inbound" /\ Next /\ UNCHANGED shipping
     \/ focus = "Shipping" /\ Shipping!Next /\ UNCHANGED vars
MCSpec == MCInit /\ [][MCNext]_allVars

\* The quantity a delivery has issued is what its posted goods issues took, and
\* a unit is on one open shipment at most, and not on a truck that has left.
ShipmentsAddUp == Shipping!TypeOK /\ Shipping!IssuedIsPosted /\ Shipping!LoadedOnce

\* Packing, nesting and writing off keep the stock of a delivery where shipping
\* and goods issue find it.
PackingKeepsStock == Shipping!PackingKeepsStock
=============================================================================
