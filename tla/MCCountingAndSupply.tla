-------------------------- MODULE MCCountingAndSupply --------------------------
(***************************************************************************)
(* Small instances of InventoryCount and of ProductionSupply for TLC.  The *)
(* two share no state: a behaviour runs the one its focus names, and the   *)
(* other one stays as it was at first.                                     *)
(***************************************************************************)
EXTENDS InventoryCount, TLC

CONSTANTS Focus, b1, b2

VARIABLES focus, method, automatic, pmr, tasks, quantity, entry, looked, strays, stranded, supplyWork
supply == <<method, automatic, pmr, tasks, quantity, entry, looked, strays, stranded, supplyWork>>
allVars == <<focus, vars, supply>>

TwoBins == {b1, b2}
OneBin == {b1}
Stocked == {0, 2}
Counted == {0, 1, 2}
SomeProcedures == {"Low Stock", "Annual"}
Reviewed == {{"recount", "approval"}, {}}

\* Two orders, one location of the deconsolidation work center.
Production == INSTANCE ProductionSupply WITH
  Orders <- 1..2, Locations <- {"L1"}, Modes <- BOOLEAN, RequiredQuantities <- {1, 2},
  Methods <- {"Pick Parts", "Release Order Parts", "Crate Parts", "Kanban", "Direct Consumption"},
  OpeningStock <- 4, Minimum <- 1, Maximum <- 2, Lapses <- {}, MaxWork <- 7,
  stock <- quantity, work <- supplyWork
ASSUME Production!ProductionSupplyAssumption

\* The requests of production come in turn; or two orders are to be staged
\* for, and a staging may begin before others are done.
TwoOrdersOpen ==
  /\ method = "Pick Parts" /\ automatic = FALSE
  /\ pmr = [o \in 1..2 |-> [Production!NoPmr EXCEPT !.status = "Open", !.required = o]]
  /\ tasks = <<>> /\ quantity = [p \in Production!Places |-> IF p = "Storage" THEN 4 ELSE 0]
  /\ entry = [o \in 1..2 |-> <<>>]
  /\ looked = None /\ strays = {} /\ stranded = [l \in {"L1"} |-> 0]
  /\ supplyWork = 3
MCInit ==
  /\ focus \in Focus /\ Init
  /\ IF focus = "Staging" THEN TwoOrdersOpen ELSE Production!Init
  /\ \A b \in Bins : book[b1] >= book[b]   \* the bins are alike
  /\ focus # "Counts" => procedure = "Annual" /\ rule = {} /\ \A b \in Bins : book[b] = 0
  /\ focus = "Counts" => method = "Direct Consumption" /\ automatic
MCNext ==
  /\ UNCHANGED focus
  /\ \/ focus = "Counts" /\ Next /\ UNCHANGED supply
     \/ focus = "Production" /\ UNCHANGED <<looked, vars>> /\ Production!Next
     \/ focus = "Staging" /\ Production!Next /\ UNCHANGED vars
MCSpec == MCInit /\ [][MCNext]_allVars /\ Production!Fairness

\* What is tasked, staged, reserved and needed for an order agree.
StagingAddsUp == Production!StagingAddsUp

\* What is at a location of the work center is on its way, and locations are
\* shared only after requests at once or a reopened order.
WorkCenterKeepsOrder == Production!WorkCenterKeepsOrder

\* A bin below its minimum is refilled as long as there is stock.
LowBinIsRefilled == Production!LowBinIsRefilled
=============================================================================
