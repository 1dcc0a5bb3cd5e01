------------------------------ MODULE PackAndShip ------------------------------
(***************************************************************************)
(* From the staged pick to the posted goods issue: packing at a work       *)
(* center, shipments, loading, goods issues and their reversal.  One       *)
(* product, and one line per delivery.  A unit's stock is not marked with  *)
(* the delivery it is for: shipping and goods issue find it through the    *)
(* picks into the unit and the delivery the unit is stamped with.          *)
(***************************************************************************)
EXTENDS Integers, SequencesExt, FiniteSetsExt

CONSTANTS
  Deliveries, Shipments,
  Units,           \* 1..n, in the order of their names
  Requested,       \* [Deliveries -> quantity]
  Filled,          \* [Deliveries -> {"Pick", "Cross Dock"}]: how stock is staged
  PickUnits,       \* [Deliveries -> units its pickers put stock into]
  StagingBin,      \* destination of the picks
  FollowUpBin,     \* where a closed unit is sent; "Table": it stays
  PerUnit,         \* quantity per unit of the packing instruction
  CompletenessCheck, LoadSequenceCheck,   \* each "Off", "Warn" or "Block"
  LooseStock,      \* unassigned stock on the table
  None,
  MaxIssues, MaxWork                      \* bounds

PackAndShipAssumption ==
  /\ Units = 1..Cardinality(Units)
  /\ Requested \in [Deliveries -> Nat \ {0}] /\ PickUnits \in [Deliveries -> SUBSET Units]
  /\ PerUnit \in Nat \ {0} /\ LooseStock \in Nat

VARIABLES
  delivery,  \* [Deliveries -> Outbound Delivery with its line]
  into,      \* [Deliveries -> units its confirmed picks put stock into]
  unit,      \* [Units -> Handling Unit and its stock]
  shipment,  \* [Shipments -> WMS Shipment]
  issue,     \* Goods Issues, in order
  loose, missing,  \* stock on the table outside units; stock in the difference bin
  screen,    \* what an RF user sees as ready to issue
  work

vars == <<delivery, into, unit, shipment, issue, loose, missing, screen, work>>

OpenShipment == {"Planned", "Released", "Staging", "Ready to Load", "Loading"}
NoScreen == [delivery |-> None, lines |-> <<>>]
Smaller(a, b) == IF a < b THEN a ELSE b
Larger(a, b) == IF a > b THEN a ELSE b
SumOf(f, S) == MapThenSumSet(LAMBDA x : f[x], S)

Init ==
  /\ delivery = [d \in Deliveries |->
       [picked |-> 0, issued |-> 0, status |-> "Open", gi |-> "Not Posted",
        packing |-> "Not Started"]]
  /\ into = [d \in Deliveries |-> {}]
  /\ unit = [u \in Units |->
       [status |-> IF u \in UNION Range(PickUnits) THEN "Open" ELSE "None",
        bin |-> StagingBin, parent |-> None, closed |-> FALSE, stamp |-> None,
        shipment |-> None, quantity |-> 0]]
  /\ shipment = [s \in Shipments |-> [status |-> "None", stops |-> <<>>, rows |-> <<>>]]
  /\ issue = <<>>
  /\ loose = LooseStock
  /\ missing = 0
  /\ screen = NoScreen
  /\ work = 0

-----------------------------------------------------------------------------
(* Units, and the deliveries they hold stock for. *)

Subtree(us, u) ==
  LET level[n \in Nat] ==
        IF n = 0 THEN {u}
        ELSE LET inner == level[n - 1] IN inner \cup {v \in Units : us[v].parent \in inner}
  IN level[Cardinality(Units)]

Top(us, u) ==
  LET up[n \in Nat] ==
        IF n = 0 THEN u
        ELSE LET inner == up[n - 1] IN IF us[inner].parent = None THEN inner ELSE us[inner].parent
  IN up[Cardinality(Units)]

SubtreeQuantity(us, u) == MapThenSumSet(LAMBDA v : us[v].quantity, Subtree(us, u))

Owed(d) == delivery[d].picked - delivery[d].issued

HuDeliveries(u) ==
  LET units == Subtree(unit, u) IN
  {d \in Deliveries :
     \/ delivery[d].gi # "Posted" /\ \E v \in units : unit[v].stamp = d
     \/ /\ IF Filled[d] = "Pick" THEN Owed(d) > 0 ELSE delivery[d].gi # "Posted"
        /\ into[d] \cap units # {}}

\* The top units a shipment of delivery d loads.
DeliveryUnits(us, d) ==
  {Top(us, u) : u \in {v \in into[d] \cup {w \in Units : /\ us[w].stamp = d
                                                        /\ us[w].status \notin {"Shipped", "Cancelled"}} :
                         SubtreeQuantity(us, v) > 0}}

\* A pick or cross-dock task into unit u is confirmed.
ConfirmPick(d, u, q) ==
  /\ u \in PickUnits[d] /\ q \in 1..(Requested[d] - delivery[d].picked)
  /\ unit[u].status \in {"Open", "Staged"} /\ ~unit[u].closed /\ unit[u].parent = None
  /\ unit[u].bin # StagingBin => SubtreeQuantity(unit, u) = 0
  /\ into' = [into EXCEPT ![d] = @ \cup {u}]
  /\ unit' = [v \in Units |->
       IF v \notin Subtree(unit, u) THEN unit[v]
       ELSE IF v = u THEN [unit[u] EXCEPT !.status = "Staged", !.bin = StagingBin, !.quantity = @ + q]
       ELSE [unit[v] EXCEPT !.bin = StagingBin]]
  /\ delivery' = [delivery EXCEPT ![d].picked = @ + q,
       ![d].status = IF delivery[d].picked + q >= Requested[d] THEN "Picked" ELSE @]
  /\ UNCHANGED <<shipment, issue, loose, missing, screen>>

-----------------------------------------------------------------------------
(* The packing station. *)

AtStation(u) == unit[u].status # "None" /\ unit[u].bin = "Table"
PackInto(u) ==
  /\ AtStation(u) /\ ~unit[u].closed
  /\ unit[u].status \notin {"Closed", "Loaded", "Shipped", "Blocked", "Cancelled"}

StockOf(source) == IF source = None THEN loose ELSE unit[source].quantity
Sources(source) == IF source = None THEN {} ELSE HuDeliveries(source)

\* The delivery packed stock is for: the chosen one, or the one the source holds.
MayChoose(source, chosen) ==
  /\ chosen # None /\ Sources(source) # {} => chosen \in Sources(source)
  /\ Cardinality(Sources(source)) > 1 => chosen # None
Target(source, chosen) ==
  IF chosen # None THEN chosen
  ELSE IF Sources(source) # {} THEN CHOOSE d \in Sources(source) : TRUE ELSE None

\* _resolve_delivery: one unit never carries two deliveries.
MayPack(source, dest, chosen) ==
  /\ MayChoose(source, chosen)
  /\ HuDeliveries(dest) # {} => HuDeliveries(dest) = {Target(source, chosen)}

\* _stamp_delivery
Stamped(us, u, d) == IF d # None /\ us[u].stamp = None THEN [us EXCEPT ![u].stamp = d] ELSE us
InProcess(ds, d) ==
  IF d # None /\ ds[d].packing = "Not Started" THEN [ds EXCEPT ![d].packing = "In Process"] ELSE ds

\* repack_loose: q moves within the bin, from a unit or the table into unit dest.
Repacked(us, source, dest, q) ==
  [u \in Units |->
     IF u = dest THEN [us[u] EXCEPT !.quantity = @ + q]
     ELSE IF u = source THEN [us[u] EXCEPT !.quantity = @ - q] ELSE us[u]]

Pack(source, dest, q, chosen) ==
  /\ source # dest
  /\ PackInto(dest)
  /\ MayPack(source, dest, chosen)
  /\ unit' = Stamped(Repacked(unit, source, dest, q), dest, Target(source, chosen))
  /\ loose' = IF source = None THEN loose - q ELSE loose
  /\ delivery' = InProcess(delivery, Target(source, chosen))
  /\ UNCHANGED <<into, shipment, issue, missing, screen>>

PackProduct(source, dest, q, chosen) ==
  /\ source \in {None} \cup {u \in Units : AtStation(u) /\ ~unit[u].closed}
  /\ q \in 1..StockOf(source)
  /\ Pack(source, dest, q, chosen)

PackAll(source, dest, chosen) ==
  /\ AtStation(source) /\ unit[source].quantity > 0
  /\ Pack(source, dest, unit[source].quantity, chosen)

\* _update_packing_status
WithPackingStatus(ds, us, D) ==
  [d \in Deliveries |->
     IF d \notin D \/ DeliveryUnits(us, d) = {} THEN ds[d]
     ELSE [ds[d] EXCEPT !.packing =
             IF \A t \in DeliveryUnits(us, d) : us[t].closed THEN "Packed" ELSE "In Process"]]

\* Fresh units for the packing instruction; the last one takes the rest.
PackByInstruction(source, chosen, closing) ==
  LET quantity == StockOf(source)
      target == Target(source, chosen)
      count == (quantity + PerUnit - 1) \div PerUnit
      fresh == {u \in Units : unit[u].status = "None"}
      numbers == {u \in fresh : Cardinality({v \in fresh : v <= u}) <= count}
      share(u) == Smaller(PerUnit, quantity - PerUnit * Cardinality({v \in numbers : v < u}))
      started == InProcess(delivery, target)
  IN /\ source \in {None} \cup {u \in Units : AtStation(u)}
     /\ quantity > 0 /\ Cardinality(numbers) = count
     /\ MayChoose(source, chosen)
     /\ unit' = [u \in Units |->
          IF u = source THEN [unit[u] EXCEPT !.quantity = 0]
          ELSE IF u \notin numbers THEN unit[u]
          ELSE [unit[u] EXCEPT !.status = IF closing THEN "Closed" ELSE "Open", !.closed = closing,
                               !.bin = IF closing THEN FollowUpBin ELSE "Table",
                               !.quantity = share(u), !.stamp = target]]
     /\ loose' = IF source = None THEN 0 ELSE loose
     /\ delivery' = IF closing THEN WithPackingStatus(started, unit', {target}) ELSE started
     /\ UNCHANGED <<into, shipment, issue, missing, screen>>

PackHU(u, dest, chosen) ==
  /\ u # dest /\ AtStation(u) /\ PackInto(dest)
  /\ dest \notin Subtree(unit, u)
  /\ MayPack(u, dest, chosen)
  /\ unit' = Stamped([unit EXCEPT ![u].parent = dest], dest, Target(u, chosen))
  /\ delivery' = InProcess(delivery, Target(u, chosen))
  /\ UNCHANGED <<into, shipment, issue, loose, missing, screen>>

UnpackHU(u) ==
  /\ AtStation(u) /\ unit[u].parent # None /\ ~unit[unit[u].parent].closed
  /\ unit' = [unit EXCEPT ![u].parent = None]
  /\ UNCHANGED <<delivery, into, shipment, issue, loose, missing, screen>>

\* relocate_handling_unit: u leaves its parent, what is nested in it comes along.
RelocatedTo(us, u, bin) ==
  [v \in Units |->
     IF v \notin Subtree(us, u) THEN us[v]
     ELSE [us[v] EXCEPT !.bin = bin, !.parent = IF v = u THEN None ELSE @]]

TakeToTable(u) ==
  /\ unit[u].status # "None" /\ unit[u].bin = "Section"
  /\ unit' = RelocatedTo(unit, u, "Table")
  /\ UNCHANGED <<delivery, into, shipment, issue, loose, missing, screen>>

CreateStationHU(u, d) ==
  /\ unit[u].status = "None" /\ \A v \in Units : v < u => unit[v].status # "None"
  /\ unit' = [unit EXCEPT ![u].status = "Open", ![u].bin = "Table", ![u].stamp = d]
  /\ UNCHANGED <<delivery, into, shipment, issue, loose, missing, screen>>

DeleteEmptyHU(u) ==
  /\ AtStation(u) /\ unit[u].quantity = 0 /\ Subtree(unit, u) = {u}
  /\ unit' = [unit EXCEPT ![u] = [@ EXCEPT !.status = "Cancelled", !.closed = FALSE, !.bin = None,
                                           !.parent = None, !.stamp = None]]
  /\ UNCHANGED <<delivery, into, shipment, issue, loose, missing, screen>>

\* Mutant: stock of a unit is written off whatever it is for.
AnyStock(source) == TRUE

\* Stock picked for a delivery is not written off here.
Unassigned(source) == Sources(source) = {}

PostDifference(source, q) ==
  /\ source \in {None} \cup {u \in Units : AtStation(u)}
  /\ Unassigned(source) /\ q \in 1..StockOf(source)
  /\ unit' = IF source = None THEN unit ELSE [unit EXCEPT ![source].quantity = @ - q]
  /\ loose' = IF source = None THEN loose - q ELSE loose
  /\ missing' = missing + q
  /\ UNCHANGED <<delivery, into, shipment, issue, screen>>

UnpackedFor(d, except) ==
  {t \in Units : /\ t # except /\ AtStation(t) /\ unit[t].parent = None /\ ~unit[t].closed
                 /\ unit[t].status \notin {"Shipped", "Cancelled"}
                 /\ d \in HuDeliveries(t) /\ SubtreeQuantity(unit, t) > 0}

\* With the check on "Warn" the packer may close all the same.
CloseHU(u) ==
  LET closed == [v \in Units |-> IF v \in Subtree(unit, u)
                                 THEN [unit[v] EXCEPT !.closed = TRUE, !.status = "Closed"] ELSE unit[v]]
  IN /\ AtStation(u) /\ ~unit[u].closed /\ unit[u].parent = None /\ SubtreeQuantity(unit, u) > 0
     /\ CompletenessCheck = "Block" => \A d \in HuDeliveries(u) : UnpackedFor(d, u) = {}
     /\ delivery' = WithPackingStatus(delivery, closed, HuDeliveries(u))
     /\ unit' = IF FollowUpBin = "Table" THEN closed ELSE RelocatedTo(closed, u, FollowUpBin)
     /\ UNCHANGED <<into, shipment, issue, loose, missing, screen>>

ReopenHU(u) ==
  /\ AtStation(u) /\ unit[u].closed
  /\ unit' = [v \in Units |-> IF v \in Subtree(unit, u)
                              THEN [unit[v] EXCEPT !.closed = FALSE, !.status = "Open"] ELSE unit[v]]
  /\ delivery' = WithPackingStatus(delivery, unit', HuDeliveries(u))
  /\ UNCHANGED <<into, shipment, issue, loose, missing, screen>>

-----------------------------------------------------------------------------
(* Goods issue. *)

LoadedUnitsOf(us, d) ==
  {u \in UNION {Subtree(us, v) : v \in into[d] \cup {w \in Units : us[w].stamp = d}} :
     us[u].status = "Loaded"}

\* What each loaded unit, in the order of names, gives to the rest of the line.
ReadyLines(ds, us, d) ==
  LET units == LoadedUnitsOf(us, d)
      owed == ds[d].picked - ds[d].issued
  IN [u \in {v \in units : /\ us[v].quantity > 0
                           /\ SumOf([w \in Units |-> us[w].quantity], {w \in units : w < v}) < owed} |->
        Smaller(us[u].quantity, owed - SumOf([w \in Units |-> us[w].quantity], {w \in units : w < u}))]

\* _update_delivery_issue_status
WithIssueStatus(d, line) ==
  [line EXCEPT
     !.gi = IF line.issued >= Requested[d] THEN "Posted"
            ELSE IF line.issued > 0 THEN "Partially Posted" ELSE "Not Posted",
     !.status = IF line.issued >= Requested[d] THEN "Goods Issued" ELSE "Staged"]

\* Goods are issued out of loaded units at a door.
MayIssue(us, lines) ==
  \A u \in DOMAIN lines : /\ us[u].status = "Loaded" /\ us[u].bin = "Door"
                          /\ lines[u] <= us[u].quantity

IssueTotal(lines) == SumOf(lines, DOMAIN lines)

\* post_goods_issue, on the whole of what it changes.
Posted(w, d, lines) ==
  [delivery |-> [w.delivery EXCEPT ![d] =
      WithIssueStatus(d, [@ EXCEPT !.issued = @ + IssueTotal(lines)])],
   unit |-> [u \in Units |-> IF u \in DOMAIN lines
                THEN [w.unit[u] EXCEPT !.quantity = @ - lines[u], !.status = "Shipped"] ELSE w.unit[u]],
   issue |-> Append(w.issue, [delivery |-> d, lines |-> lines, status |-> "Posted"])]

\* post_goods_issue_for_delivery; the automatic issue ignores its refusal.
IssueAll(w, d) ==
  LET lines == ReadyLines(w.delivery, w.unit, d) IN
  IF lines = <<>> \/ ~MayIssue(w.unit, lines) THEN w ELSE Posted(w, d, lines)

Now == [delivery |-> delivery, unit |-> unit, issue |-> issue]
Become(w) == delivery' = w.delivery /\ unit' = w.unit /\ issue' = w.issue

PostGoodsIssue(d) ==
  /\ Len(issue) < MaxIssues
  /\ IssueAll(Now, d) # Now
  /\ Become(IssueAll(Now, d))
  /\ UNCHANGED <<into, shipment, loose, missing, screen>>

\* list_ready_to_ship on the RF screen, and its submission later.
ShowReady(d) ==
  /\ delivery[d].picked >= Requested[d] /\ delivery[d].gi # "Posted"
  /\ delivery[d].status \in {"Picked", "Staged", "Loading", "Loaded"}
  /\ ReadyLines(delivery, unit, d) # <<>>
  /\ screen' = [delivery |-> d, lines |-> ReadyLines(delivery, unit, d)]
  /\ UNCHANGED <<delivery, into, unit, shipment, issue, loose, missing>>

SubmitScreen ==
  /\ Len(issue) < MaxIssues
  /\ screen # NoScreen /\ MayIssue(unit, screen.lines)
  /\ Become(Posted(Now, screen.delivery, screen.lines))
  /\ screen' = NoScreen
  /\ UNCHANGED <<into, shipment, loose, missing>>

\* Mutant: the reversal leaves the line's issued quantity.
StaysIssued(line, q) == line

UnIssued(line, q) == [line EXCEPT !.issued = Larger(@ - q, 0)]

ReverseGoodsIssue(i) ==
  LET d == issue[i].delivery IN
  /\ issue[i].status = "Posted"
  /\ issue' = [issue EXCEPT ![i].status = "Reversed"]
  /\ unit' = [u \in Units |-> IF u \in DOMAIN issue[i].lines
       THEN [unit[u] EXCEPT !.quantity = @ + issue[i].lines[u], !.status = "Staged"] ELSE unit[u]]
  /\ delivery' = [delivery EXCEPT
       ![d] = WithIssueStatus(d, UnIssued(@, IssueTotal(issue[i].lines)))]
  /\ UNCHANGED <<into, shipment, loose, missing, screen>>

-----------------------------------------------------------------------------
(* Shipments. *)

OnShipment(s) == Range(shipment[s].stops)
OnOpenShipment(d) == \E s \in Shipments : shipment[s].status \in OpenShipment /\ d \in OnShipment(s)

StopOf(stops, u) ==
  LET at == {i \in DOMAIN stops : u \in DeliveryUnits(unit, stops[i])} IN
  IF at = {} THEN 0 ELSE CHOOSE i \in at : \A j \in at : i <= j

\* A unit is shipped together with every delivery it holds stock for.
NotShared(hus, stops) == \A u \in hus : HuDeliveries(u) \subseteq Range(stops)

\* The deliveries come in stop order.
CreateShipment(s, stops) ==
  LET hus == UNION {DeliveryUnits(unit, d) : d \in Range(stops)} IN
  /\ shipment[s].status = "None"
  /\ \A d \in Range(stops) : delivery[d].picked >= Requested[d] /\ ~OnOpenShipment(d)
  /\ hus # {} /\ NotShared(hus, stops)
  /\ shipment' = [shipment EXCEPT ![s] =
       [status |-> "Ready to Load", stops |-> stops,
        rows |-> [u \in hus |-> [stop |-> StopOf(stops, u), loaded |-> FALSE]]]]
  /\ delivery' = [d \in Deliveries |-> IF d \in Range(stops)
       THEN [delivery[d] EXCEPT !.status = "Loading"] ELSE delivery[d]]
  /\ UNCHANGED <<into, unit, issue, loose, missing, screen>>

\* Through the stops of the route to the door, with all that is nested in it.
LoadedAt(us, u, s) ==
  [v \in Units |-> IF v \in Subtree(us, u)
     THEN [us[v] EXCEPT !.bin = "Door", !.status = "Loaded", !.shipment = s] ELSE us[v]]

\* With the check on "Warn" the loader may load all the same.
InSequence(rows, u) ==
  LoadSequenceCheck = "Block" =>
    \A v \in DOMAIN rows : ~rows[v].loaded => rows[v].stop <= rows[u].stop

ConfirmLoaded(s, u) ==
  LET rows == [shipment[s].rows EXCEPT ![u].loaded = TRUE]
      full == \A v \in DOMAIN rows : rows[v].loaded
      loaded == [delivery |-> [d \in Deliveries |-> IF full /\ d \in OnShipment(s)
                                THEN [delivery[d] EXCEPT !.status = "Loaded"] ELSE delivery[d]],
                 unit |-> LoadedAt(unit, u, s), issue |-> issue]
  IN /\ shipment[s].status \in {"Ready to Load", "Loading"}
     /\ u \in DOMAIN shipment[s].rows /\ ~shipment[s].rows[u].loaded
     /\ InSequence(shipment[s].rows, u)
     /\ shipment' = [shipment EXCEPT ![s].rows = rows, ![s].status = IF full THEN "Loaded" ELSE "Loading"]
     /\ Len(issue) + Len(shipment[s].stops) <= MaxIssues
     /\ Become(IF full THEN FoldLeft(IssueAll, loaded, shipment[s].stops) ELSE loaded)
     /\ UNCHANGED <<into, loose, missing, screen>>

Depart(s) ==
  /\ shipment[s].status = "Loaded"
  /\ shipment' = [shipment EXCEPT ![s].status = "Departed"]
  /\ UNCHANGED <<delivery, into, unit, issue, loose, missing, screen>>

CompleteShipment(s) ==
  /\ shipment[s].status = "Departed"
  /\ shipment' = [shipment EXCEPT ![s].status = "Completed"]
  /\ unit' = [u \in Units |-> IF unit[u].shipment = s
                              THEN [unit[u] EXCEPT !.status = "Shipped"] ELSE unit[u]]
  /\ UNCHANGED <<delivery, into, issue, loose, missing, screen>>

-----------------------------------------------------------------------------
StopOrders ==
  {stops \in UNION {[1..n -> Deliveries] : n \in 1..Cardinality(Deliveries)} :
     Cardinality(Range(stops)) = Len(stops)}

PackingStep ==
  \/ \E source, dest \in Units, chosen \in Deliveries \cup {None} :
       PackAll(source, dest, chosen) \/ PackHU(source, dest, chosen)
  \/ \E source \in Units \cup {None}, dest \in Units, chosen \in Deliveries \cup {None} :
       \E q \in 1..StockOf(source) : PackProduct(source, dest, q, chosen)
  \/ \E source \in Units \cup {None}, chosen \in Deliveries \cup {None}, closing \in BOOLEAN :
       PackByInstruction(source, chosen, closing)
  \/ \E u \in Units, d \in Deliveries \cup {None} : CreateStationHU(u, d)
  \/ \E u \in Units : UnpackHU(u) \/ TakeToTable(u) \/ DeleteEmptyHU(u) \/ CloseHU(u) \/ ReopenHU(u)
  \/ \E source \in Units \cup {None} : \E q \in 1..StockOf(source) : PostDifference(source, q)

ShippingStep ==
  \/ \E d \in Deliveries, u \in Units : \E q \in 1..Requested[d] : ConfirmPick(d, u, q)
  \/ \E s \in Shipments, stops \in StopOrders : CreateShipment(s, stops)
  \/ \E s \in Shipments, u \in Units : ConfirmLoaded(s, u)
  \/ \E s \in Shipments : Depart(s) \/ CompleteShipment(s)
  \/ \E d \in Deliveries : PostGoodsIssue(d) \/ ShowReady(d)
  \/ SubmitScreen
  \/ \E i \in DOMAIN issue : ReverseGoodsIssue(i)

Next == work < MaxWork /\ work' = work + 1 /\ (PackingStep \/ ShippingStep)

Spec == Init /\ [][Next]_vars

-----------------------------------------------------------------------------
(* Properties. *)

Quantities == 0..(SumOf(Requested, Deliveries) + LooseStock)

\* Every quantity stays within the stock there is, and every status is one of
\* the document's.
TypeOK ==
  /\ \A d \in Deliveries :
       /\ delivery[d].picked \in 0..Requested[d] /\ delivery[d].issued \in Quantities
       /\ delivery[d].status \in {"Open", "Picked", "Loading", "Loaded", "Goods Issued", "Staged"}
       /\ delivery[d].packing \in {"Not Started", "In Process", "Packed"}
       /\ delivery[d].gi \in {"Not Posted", "Partially Posted", "Posted"}
       /\ into[d] \subseteq Units
  /\ \A u \in Units :
       /\ unit[u].quantity \in Quantities
       /\ unit[u].status \in {"None", "Open", "Staged", "Closed", "Loaded", "Shipped", "Cancelled"}
       /\ unit[u].parent \in Units \cup {None} /\ unit[u].stamp \in Deliveries \cup {None}
       /\ unit[u].shipment \in Shipments \cup {None} /\ unit[u].closed \in BOOLEAN
  /\ \A s \in Shipments :
       shipment[s].status \in OpenShipment \cup {"None", "Loaded", "Departed", "Completed"}
  /\ {loose, missing} \subseteq Quantities

\* Whatever is issued, automatically, with one tap, from an old screen or again
\* after a reversal: a line's issued quantity is the total of its posted Goods
\* Issues, and the delivery is Posted exactly when all of it is issued.  Beyond
\* what was picked there is only what was taken from the table: a Goods
\* Issue is not checked against the line (issue.py, create_and_submit_goods_issue).
FromTable == LooseStock - loose
IssuedIsPosted ==
  \A d \in Deliveries :
    /\ delivery[d].issued =
         SumOf([i \in DOMAIN issue |-> IssueTotal(issue[i].lines)],
               {i \in DOMAIN issue : issue[i].delivery = d /\ issue[i].status = "Posted"})
    /\ delivery[d].issued <= delivery[d].picked + FromTable
    /\ delivery[d].gi = "Posted" <=> delivery[d].issued >= Requested[d]

\* A unit never waits to be loaded on two open shipments, for whichever deliveries
\* were picked or packed into it and into what is nested in it, as long as only
\* picked stock is packed (shipping.py, _other_deliveries_sharing_hu).
LoadedOnce ==
  FromTable = 0 =>
    \A s, t \in Shipments :
      s # t /\ {shipment[s].status, shipment[t].status} \subseteq OpenShipment =>
        \A u \in DOMAIN shipment[s].rows \cap DOMAIN shipment[t].rows :
          shipment[s].rows[u].loaded \/ shipment[t].rows[u].loaded

\* Packing, nesting and differences leave the stock of a delivery where shipping
\* and goods issue find it: no step at the station takes any of it out of the
\* units picked or stamped for the delivery.  Said of a table where every unit, with
\* what is nested in it, serves one delivery and none has the stamp of one already issued, for there
\* the station cannot tell whose stock it moves (packing_station.py).
FoundFor(d) == UNION {Subtree(unit, t) : t \in DeliveryUnits(unit, d)}
FoundStock(d) == SumOf([u \in Units |-> unit[u].quantity], FoundFor(d))
Clean(u) ==
  /\ Cardinality({d \in Deliveries :
       \E v \in Subtree(unit, u) : v \in into[d] \/ unit[v].stamp = d}) <= 1
  /\ unit[u].stamp # None => delivery[unit[u].stamp].gi # "Posted"
PackingKeepsStock ==
  [][ UNCHANGED <<into, issue, shipment>> /\ (\A u \in Units : Clean(u)) =>
        \A d \in Deliveries : Owed(d) <= FoundStock(d) => Owed(d)' <= FoundStock(d)' ]_vars

=============================================================================
