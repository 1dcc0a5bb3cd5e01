---------------------------- MODULE InboundDelivery ----------------------------
(***************************************************************************)
(* Inbound deliveries (one line each): goods receipts, their reversal,     *)
(* putaway and cross-docking, inspections, and the return of delivered     *)
(* goods.  A receipt fills one handling unit; the stock of that unit is    *)
(* kept with the receipt.  Every operation locks the delivery or the       *)
(* request it works on and is one action; what a user has seen on a screen *)
(* earlier is an arbitrary input of it.                                    *)
(***************************************************************************)
EXTENDS Integers, Sequences, FiniteSetsExt

CONSTANTS
  Inbounds,     \* inbound deliveries
  Origin,       \* [Inbounds -> {"Purchase", "Return", "Production"}]
  Expected,     \* [Inbounds -> quantity]
  Outbounds,    \* 1..n: outbound deliveries of the item, earliest date first
  Requested,    \* [Outbounds -> quantity]
  Receipts,
  InStock,      \* quantity that normal allocation can still find
  Shipped,      \* quantity of the Delivery Note that returns refer to
  FullPallet,   \* full_hu_quantity; 0: requests are never split
  SampleCount,  \* samples of an inspection
  Acceptable,   \* acceptable_failures
  Nothing,
  MaxRequests, MaxPlans, MaxWork  \* bounds; work: all operations but task confirmations

ASSUME InboundAssumption ==
  /\ IsFiniteSet(Inbounds) /\ IsFiniteSet(Outbounds) /\ IsFiniteSet(Receipts)
  /\ Outbounds = 1..Cardinality(Outbounds)
  /\ Origin \in [Inbounds -> {"Purchase", "Return", "Production"}]
  /\ Expected \in [Inbounds -> Nat \ {0}] /\ Requested \in [Outbounds -> Nat \ {0}]
  /\ {InStock, Shipped, FullPallet, SampleCount, Acceptable} \subseteq Nat

VARIABLES
  inbound,   \* [Inbounds -> Inbound Delivery and its line]
  outbound,  \* [Outbounds -> Outbound Delivery and its line]
  plan,      \* Inbound Cross Dock Plan rows, in order
  receipt,   \* [Receipts -> Goods Receipt]
  unit,      \* [Receipts -> the unit received into: its bin and content]
  inspection,\* [Receipts -> WMS Quality Inspection]
  request,   \* Warehouse Requests with their tasks, in order
  returned,  \* returned_qty of the Delivery Note, written by ERPNext
  free,      \* what normal allocation can still find
  work

vars == <<inbound, outbound, plan, receipt, unit, inspection, request, returned, free, work>>

Types == {"AVAILABLE", "QUALITY", "BLOCKED"}
Empty == [t \in Types |-> 0]
Larger(a, b) == IF a > b THEN a ELSE b
Smaller(a, b) == IF a < b THEN a ELSE b
SumOf(f, S) == SumFunctionOnSet(f, S)

\* The elements of a set of numbers, lowest first.
InOrder(S) ==
  CHOOSE s \in [1..Cardinality(S) -> S] : \A i, j \in DOMAIN s : i < j => s[i] < s[j]

\* First come, first served: what each of available takes of a quantity.
Shares(available, quantity) ==
  [i \in DOMAIN available |->
     Smaller(available[i],
             Larger(quantity - SumOf(available, {j \in DOMAIN available : j < i}), 0))]

NoReceipt == [status |-> "None", inbound |-> Nothing, quantity |-> 0,
              type |-> "AVAILABLE", direct |-> FALSE, mirrored |-> FALSE]
NoInspection == [status |-> "None", bin |-> "Receiving", samples |-> <<>>]

Init ==
  /\ inbound = [d \in Inbounds |->
       [docstatus |-> 0, expected |-> Expected[d], received |-> 0, closed |-> FALSE,
        status |-> IF Origin[d] = "Purchase" THEN "Draft" ELSE "None"]]
  /\ outbound = [o \in Outbounds |->
       [docstatus |-> 1, requested |-> Requested[o], allocated |-> 0, picked |-> 0,
        fromStock |-> 0, status |-> "Open", picking |-> "Not Started"]]
  /\ plan = <<>>
  /\ receipt = [g \in Receipts |-> NoReceipt]
  /\ unit = [g \in Receipts |-> [bin |-> "Receiving", content |-> Empty]]
  /\ inspection = [g \in Receipts |-> NoInspection]
  /\ request = <<>>
  /\ returned = 0
  /\ free = InStock
  /\ work = 0

-----------------------------------------------------------------------------
(* Progress of the inbound delivery. *)

Received(d, q) ==
  LET new == Larger(d.received + q, 0) IN
  [d EXCEPT !.received = new,
            !.status = IF new >= d.expected THEN "Received"
                       ELSE IF new > 0 THEN "Partially Received"
                       ELSE IF d.docstatus = 1 THEN "Expected" ELSE "Draft"]

\* _validate_receipt_quantities, on the locked delivery.
MayReceive(d, q) ==
  /\ inbound[d].status # "None" /\ inbound[d].docstatus # 2
  /\ q <= inbound[d].expected - inbound[d].received

-----------------------------------------------------------------------------
(* Cross-docking: open outbound demand, and its reservation. *)

Outstanding(o, type) ==
  IF outbound[o].docstatus = 1 /\ type = "AVAILABLE"
  THEN Larger(outbound[o].requested - outbound[o].allocated, 0) ELSE 0

FindDemand(type, q) == Shares([o \in Outbounds |-> Outstanding(o, type)], q)

CrossDocked(reqs, o) ==
  SumOf([i \in DOMAIN reqs |-> reqs[i].requested],
        {i \in DOMAIN reqs : reqs[i].kind = "Cross Dock" /\ reqs[i].outbound = o
                             /\ reqs[i].status # "Cancelled"})

\* _update_delivery_picking_status
WithPickingStatus(line, o, reqs) ==
  [line EXCEPT
     !.picking = IF line.picked >= line.requested THEN "Picked"
                 ELSE IF line.picked > 0 THEN "Partially Picked"
                 ELSE IF CrossDocked(reqs, o) > 0
                         /\ line.requested - line.picked <= CrossDocked(reqs, o)
                 THEN "Not Relevant" ELSE "Not Started",
     !.status = IF line.picked >= line.requested THEN "Picked" ELSE line.status]

Reserved(taken, reqs) ==
  [o \in Outbounds |->
     IF taken[o] = 0 THEN outbound[o]
     ELSE WithPickingStatus([outbound[o] EXCEPT !.allocated = @ + taken[o]], o, reqs)]

OpenPlan(i) == IF plan[i].status = "Planned" THEN plan[i].planned - plan[i].consumed ELSE 0

\* planned_matches: what a receipt of q takes of the delivery's plan rows.
PlannedMatches(d, q) ==
  Shares([i \in DOMAIN plan |-> IF plan[i].inbound = d THEN OpenPlan(i) ELSE 0], q)

Consumed(taken) ==
  [i \in DOMAIN plan |->
     IF taken[i] = 0 THEN plan[i]
     ELSE [plan[i] EXCEPT
             !.consumed = @ + taken[i],
             !.status = IF plan[i].consumed + taken[i] >= plan[i].planned
                        THEN "Done" ELSE @]]

PlanCrossDock(d) ==
  LET already == SumOf([i \in DOMAIN plan |-> OpenPlan(i)],
                       {i \in DOMAIN plan : plan[i].inbound = d})
      taken == FindDemand("AVAILABLE", inbound[d].expected - inbound[d].received - already)
      matched == InOrder({o \in Outbounds : taken[o] > 0})
  IN
  /\ inbound[d].docstatus = 1 /\ ~inbound[d].closed
  /\ matched # <<>> /\ Len(plan) + Len(matched) <= MaxPlans
  /\ plan' = plan \o [k \in 1..Len(matched) |->
       [inbound |-> d, outbound |-> matched[k], planned |-> taken[matched[k]],
        consumed |-> 0, status |-> "Planned"]]
  /\ outbound' = Reserved(taken, request)
  /\ UNCHANGED <<inbound, receipt, unit, inspection, request, returned, free>>

\* cancel_cross_dock_plan: the rows of an inbound delivery give their demand back.
Withdrawn(rows) ==
  [i \in DOMAIN plan |->
     IF i \in rows /\ plan[i].status = "Planned"
     THEN [plan[i] EXCEPT !.status = "Cancelled"] ELSE plan[i]]

\* Mutant: the whole planned quantity is given back, consumed or not.
GivesBackAll(rows) ==
  [o \in Outbounds |->
     [outbound[o] EXCEPT !.allocated =
        Larger(@ - SumOf([i \in DOMAIN plan |-> plan[i].planned],
                         {i \in rows : plan[i].outbound = o /\ plan[i].status = "Planned"}), 0)]]

GivenBack(rows) ==
  [o \in Outbounds |->
     [outbound[o] EXCEPT !.allocated =
        Larger(@ - SumOf([i \in DOMAIN plan |-> OpenPlan(i)],
                         {i \in rows : plan[i].outbound = o}), 0)]]

-----------------------------------------------------------------------------
(* Warehouse requests and their tasks. *)

NewRequest(kind, g, o, type, source, q) ==
  [kind |-> kind, receipt |-> g, outbound |-> o, type |-> type, source |-> source,
   requested |-> q, status |-> "Open", tasks |-> <<>>]

\* _split_by_full_pallet: only where the system still chooses the bin.
Chunks(q, full) ==
  IF full = 0 \/ q <= full THEN <<q>>
  ELSE [i \in 1..((q + full - 1) \div full) |-> Smaller(full, q - (i - 1) * full)]

\* create_tasks_for_request
Tasked(req, direct) ==
  [req EXCEPT !.status = "Fully Tasked",
              !.tasks = [i \in DOMAIN Chunks(req.requested,
                                  IF req.kind = "Putaway" /\ ~direct THEN FullPallet ELSE 0) |->
                 [planned |-> Chunks(req.requested,
                                IF req.kind = "Putaway" /\ ~direct THEN FullPallet ELSE 0)[i],
                  status |-> "Open"]]]

\* plan_requests: those in failed find no bin and stay open.
Planned(reqs, first, failed, direct) ==
  [i \in DOMAIN reqs |->
     IF i >= first /\ i \notin failed THEN Tasked(reqs[i], direct) ELSE reqs[i]]

FailingPutaways(reqs, first) ==
  SUBSET {i \in DOMAIN reqs : i >= first /\ reqs[i].kind = "Putaway"}

\* create_putaway_requests: planned demand first, then open demand, then putaway;
\* goods received with a chosen bin ("direct") go nowhere else.
FromPlan(rec) ==
  IF rec.direct THEN [i \in DOMAIN plan |-> 0] ELSE PlannedMatches(rec.inbound, rec.quantity)

Unplanned(rec) == rec.quantity - SumOf(FromPlan(rec), DOMAIN plan)

FromDemand(rec) ==
  IF rec.direct THEN [o \in Outbounds |-> 0] ELSE FindDemand(rec.type, Unplanned(rec))

Dock(g, rec, o, q) == NewRequest("Cross Dock", g, o, rec.type, "Receiving", q)

PlannedDocks(g, rec) ==
  LET rows == InOrder({i \in DOMAIN plan : FromPlan(rec)[i] > 0})
  IN [k \in 1..Len(rows) |-> Dock(g, rec, plan[rows[k]].outbound, FromPlan(rec)[rows[k]])]

FoundDocks(g, rec) ==
  LET lines == InOrder({o \in Outbounds : FromDemand(rec)[o] > 0})
  IN [k \in 1..Len(lines) |-> Dock(g, rec, lines[k], FromDemand(rec)[lines[k]])]

Putaways(g, rec) ==
  LET put == Unplanned(rec) - SumOf(FromDemand(rec), Outbounds)
  IN IF put > 0 THEN <<NewRequest("Putaway", g, Nothing, rec.type, "Receiving", put)>> ELSE <<>>

Routed(g, rec) == request \o (PlannedDocks(g, rec) \o FoundDocks(g, rec) \o Putaways(g, rec))

RouteAndPlan(g, rec, tasked) ==
  /\ Len(Routed(g, rec)) <= MaxRequests
  /\ plan' = Consumed(FromPlan(rec))
  /\ outbound' = Reserved(FromDemand(rec), Routed(g, rec))
  /\ \E failed \in FailingPutaways(Routed(g, rec), Len(request) + 1) :
       request' = IF tasked
                  THEN Planned(Routed(g, rec), Len(request) + 1, failed, rec.direct)
                  ELSE Routed(g, rec)

-----------------------------------------------------------------------------
(* Goods receipts. *)

\* A new inspection, with its sample plan.
Inspected(g) ==
  [inspection EXCEPT ![g] =
     [status |-> "Draft", bin |-> "Receiving", samples |-> [i \in 1..SampleCount |-> "Pending"]]]

\* post_goods_receipt: the unit is filled in the receiving bin, quality stock
\* gets an inspection, the delivery its progress.
Post(g, rec) ==
  /\ MayReceive(rec.inbound, rec.quantity)
  /\ receipt' = [receipt EXCEPT ![g] = [rec EXCEPT !.status = "Posted"]]
  /\ unit' = [unit EXCEPT ![g].content = [Empty EXCEPT ![rec.type] = rec.quantity]]
  /\ inbound' = [inbound EXCEPT ![rec.inbound] = Received(@, rec.quantity)]
  /\ inspection' = IF rec.type = "QUALITY" THEN Inspected(g) ELSE inspection

Prepared(g, d, q, type, direct) ==
  [status |-> "Draft", inbound |-> d, quantity |-> q, type |-> type,
   direct |-> direct, mirrored |-> FALSE]

TypesOf(d) == IF Origin[d] = "Return" THEN {"QUALITY"} ELSE {"AVAILABLE", "QUALITY"}

\* create_and_submit_goods_receipt, from the scanner.
Receive(g, d, q, type, direct, tasked) ==
  LET rec == Prepared(g, d, q, type, direct) IN
  /\ receipt[g].status = "None" /\ type \in TypesOf(d)
  /\ Post(g, rec)
  /\ RouteAndPlan(g, rec, tasked)
  /\ UNCHANGED <<returned, free>>

\* A receipt prepared on the desk, submitted later.
DraftReceipt(g, d, q, type) ==
  /\ receipt[g].status = "None" /\ type \in TypesOf(d)
  /\ inbound[d].status # "None"
  /\ receipt' = [receipt EXCEPT ![g] = Prepared(g, d, q, type, FALSE)]
  /\ UNCHANGED <<inbound, outbound, plan, unit, inspection, request, returned, free>>

SubmitReceipt(g) ==
  /\ receipt[g].status = "Draft"
  /\ Post(g, receipt[g])
  /\ UNCHANGED <<outbound, plan, request, returned, free>>

\* The desk's Create Putaway; nothing remembers that it was pressed.
CreatePutaway(g) ==
  /\ receipt[g].status = "Posted"
  /\ RouteAndPlan(g, receipt[g], TRUE)
  /\ UNCHANGED <<inbound, receipt, unit, inspection, returned, free>>

\* Mutant: the goods are taken from wherever they are by now.
ReversibleAnywhere(g) == TRUE

\* The postings of a receipt are reversed in the bin it was received into.
Reversible(g) ==
  /\ unit[g].bin = "Receiving"
  /\ unit[g].content[receipt[g].type] >= receipt[g].quantity

\* Mutant: a reversal leaves the delivery as it is.
StaysReceived(d, q) == inbound[d]

HandedBack(d, q) == Received(inbound[d], -q)

\* reverse_goods_receipt; requests, tasks and inspection stay as they are.
ReverseReceipt(g) ==
  LET rec == receipt[g] IN
  /\ rec.status = "Posted"
  /\ Reversible(g)
  /\ unit' = [unit EXCEPT ![g].content[rec.type] = Larger(@ - rec.quantity, 0)]
  /\ receipt' = [receipt EXCEPT ![g].status = "Reversed"]
  /\ inbound' = [inbound EXCEPT ![rec.inbound] = HandedBack(rec.inbound, rec.quantity)]
  /\ UNCHANGED <<outbound, plan, inspection, request, returned, free>>

\* create_fg_receipt_from_work_order: delivery, receipt and tasks in one call.
ReceiveFromProduction(g, d, q) ==
  LET rec == Prepared(g, d, q, "AVAILABLE", FALSE)
      new == [docstatus |-> 0, expected |-> q, received |-> 0, closed |-> FALSE,
              status |-> "Draft"]
  IN
  /\ Origin[d] = "Production" /\ inbound[d].status = "None"
  /\ receipt[g].status = "None" /\ Len(Routed(g, rec)) <= MaxRequests
  /\ inbound' = [inbound EXCEPT ![d] = Received(new, q)]
  /\ receipt' = [receipt EXCEPT ![g] = [rec EXCEPT !.status = "Posted"]]
  /\ unit' = [unit EXCEPT ![g].content = [Empty EXCEPT !["AVAILABLE"] = q]]
  /\ plan' = Consumed(FromPlan(rec))
  /\ outbound' = Reserved(FromDemand(rec), Routed(g, rec))
  /\ request' = Planned(Routed(g, rec), Len(request) + 1, {}, FALSE)
  /\ UNCHANGED <<inspection, returned, free>>

-----------------------------------------------------------------------------
(* Life of the inbound delivery. *)

Release(d) ==
  /\ inbound[d].docstatus = 0 /\ inbound[d].status \in {"Draft", "Partially Received"}
  /\ inbound' = [inbound EXCEPT ![d].docstatus = 1,
                                ![d].status = IF @ = "Draft" THEN "Expected" ELSE @]
  /\ UNCHANGED <<outbound, plan, receipt, unit, inspection, request, returned, free>>

\* Refused once goods were received; its cross-dock plan stays.
CancelInbound(d) ==
  /\ inbound[d].docstatus = 1
  /\ \A g \in Receipts : receipt[g].inbound = d => receipt[g].status # "Posted"
  /\ inbound' = [inbound EXCEPT ![d].docstatus = 2, ![d].status = "Cancelled"]
  /\ UNCHANGED <<outbound, plan, receipt, unit, inspection, request, returned, free>>

\* complete_short: the goods that never come release their reserved demand.
CompleteInboundShort(d) ==
  LET rows == {i \in DOMAIN plan : plan[i].inbound = d} IN
  /\ inbound[d].docstatus = 1 /\ ~inbound[d].closed
  /\ inbound[d].status \notin {"Completed", "Cancelled"}
  /\ \A g \in Receipts : receipt[g].inbound = d => receipt[g].status # "Draft"
  /\ outbound' = GivenBack(rows)
  /\ plan' = Withdrawn(rows)
  /\ inbound' = [inbound EXCEPT ![d].status = "Completed", ![d].closed = TRUE,
                                ![d].expected = inbound[d].received]
  /\ UNCHANGED <<receipt, unit, inspection, request, returned, free>>

\* What open returns still expect of the Delivery Note.
PendingReturns ==
  SumOf([d \in Inbounds |-> Larger(inbound[d].expected - inbound[d].received, 0)],
        {d \in Inbounds : Origin[d] = "Return"
           /\ inbound[d].status \notin {"None", "Cancelled", "Completed"}})

\* create_return_inbound_delivery
CreateReturn(d) ==
  LET returnable == Shipped - returned - PendingReturns IN
  /\ Origin[d] = "Return" /\ inbound[d].status = "None"
  /\ returnable > 0
  /\ inbound' = [inbound EXCEPT ![d].status = "Draft", ![d].expected = returnable]
  /\ UNCHANGED <<outbound, plan, receipt, unit, inspection, request, returned, free>>

\* ERPNext posts the return of a receipt, at once or from the queue, and takes
\* it back when the receipt is cancelled (external).
MirrorReturn(g) ==
  LET posts == receipt[g].status = "Posted"
      q == receipt[g].quantity
  IN
  /\ receipt[g].status \in {"Posted", "Reversed"} /\ Origin[receipt[g].inbound] = "Return"
  /\ receipt[g].mirrored # posts
  /\ posts => returned + q <= Shipped
  /\ returned' = IF posts THEN returned + q ELSE returned - q
  /\ receipt' = [receipt EXCEPT ![g].mirrored = posts]
  /\ UNCHANGED <<inbound, outbound, plan, unit, inspection, request, free>>

-----------------------------------------------------------------------------
(* Tasks. *)

\* The Monitor's Create Tasks, and plan_open_putaway with a chosen bin.
CreateTasks(i, direct) ==
  /\ request[i].status = "Open"
  /\ request' = [request EXCEPT ![i] = Tasked(@, direct)]
  /\ UNCHANGED <<inbound, outbound, plan, receipt, unit, inspection, returned, free>>

Destination(req) ==
  CASE req.kind = "Cross Dock" -> "Staging"
    [] req.kind = "Putaway" -> "Storage"
    [] req.kind = "Internal Move" -> "Returns"

\* _update_request
WithStatus(req) ==
  [req EXCEPT !.status =
     IF \A k \in DOMAIN req.tasks : req.tasks[k].status = "Confirmed"
     THEN "Completed" ELSE "In Process"]

\* _apply_cross_dock_fulfillment
Fulfilled(o, q, reqs) ==
  WithPickingStatus(
    [outbound[o] EXCEPT !.picked = @ + q,
                        !.allocated = Larger(@, outbound[o].picked + q)], o, reqs)

\* The unit travels when the task empties it, else its part gets a new unit.
Taken(g, type, q, to) ==
  IF SumOf(unit[g].content, Types) = q
  THEN [unit EXCEPT ![g].bin = to]
  ELSE [unit EXCEPT ![g].content[type] = @ - q]

ConfirmTask(i, k) ==
  LET req == request[i]
      g == req.receipt
      q == req.tasks[k].planned
      done == WithStatus([req EXCEPT !.tasks[k].status = "Confirmed"])
  IN
  /\ req.tasks[k].status = "Open"
  /\ unit[g].bin = req.source /\ unit[g].content[req.type] >= q
  /\ unit' = Taken(g, req.type, q, Destination(req))
  /\ request' = [request EXCEPT ![i] = done]
  /\ outbound' = IF req.kind = "Cross Dock"
                 THEN [outbound EXCEPT ![req.outbound] = Fulfilled(req.outbound, q, request')]
                 ELSE outbound
  /\ UNCHANGED <<inbound, plan, receipt, inspection, returned, free>>

-----------------------------------------------------------------------------
(* The outbound deliveries the goods are docked to. *)

\* allocate_delivery, from the stock that is not modelled here.
Allocate(o) ==
  LET q == Smaller(outbound[o].requested - outbound[o].allocated, free) IN
  /\ outbound[o].docstatus = 1 /\ q > 0
  /\ outbound' = [outbound EXCEPT ![o].allocated = @ + q, ![o].fromStock = @ + q]
  /\ free' = free - q
  /\ UNCHANGED <<inbound, plan, receipt, unit, inspection, request, returned>>

MovedOf(req) ==
  SumOf([k \in DOMAIN req.tasks |-> req.tasks[k].planned],
        {k \in DOMAIN req.tasks : req.tasks[k].status = "Confirmed"})

Stopped(req) ==
  [req EXCEPT !.status = "Cancelled",
     !.tasks = [k \in DOMAIN req.tasks |->
                  IF req.tasks[k].status = "Open"
                  THEN [req.tasks[k] EXCEPT !.status = "Cancelled"] ELSE req.tasks[k]]]

\* redirect_cross_dock_to_putaway: what has not moved is put away instead.
Redirect(o) ==
  LET mine == {i \in DOMAIN request : request[i].kind = "Cross Dock"
                 /\ request[i].outbound = o
                 /\ request[i].status \notin {"Completed", "Cancelled"}}
      stopped == [i \in DOMAIN request |->
                    IF i \in mine THEN Stopped(request[i]) ELSE request[i]]
      put == InOrder({i \in mine : request[i].requested > MovedOf(request[i])})
      reqs == stopped \o [k \in 1..Len(put) |->
                NewRequest("Putaway", request[put[k]].receipt, Nothing,
                  request[put[k]].type, request[put[k]].source,
                  request[put[k]].requested - MovedOf(request[put[k]]))]
  IN
  /\ Len(reqs) <= MaxRequests
  /\ plan' = Withdrawn({i \in DOMAIN plan : plan[i].outbound = o})
  /\ \E failed \in FailingPutaways(reqs, Len(request) + 1) :
       request' = Planned(reqs, Len(request) + 1, failed, FALSE)

\* on_cancel_outbound_delivery; goods cross-docked already do not stop it.
CancelOutbound(o) ==
  /\ outbound[o].docstatus = 1
  /\ Redirect(o)
  /\ outbound' = [outbound EXCEPT ![o].docstatus = 2, ![o].status = "Cancelled",
                                  ![o].fromStock = 0]
  /\ free' = free + outbound[o].fromStock
  /\ UNCHANGED <<inbound, receipt, unit, inspection, returned>>

\* complete_short: refused while something is picked and not issued.
CompleteOutboundShort(o) ==
  /\ outbound[o].docstatus = 1 /\ outbound[o].status # "Completed"
  /\ outbound[o].picked = 0
  /\ Redirect(o)
  /\ outbound' = [outbound EXCEPT ![o].status = "Completed", ![o].requested = 0,
                                  ![o].fromStock = 0]
  /\ free' = free + outbound[o].fromStock
  /\ UNCHANGED <<inbound, receipt, unit, inspection, returned>>

-----------------------------------------------------------------------------
(* Quality inspections. *)

RecordSample(g, k, result) ==
  /\ inspection[g].status = "Draft"
  /\ inspection' = [inspection EXCEPT ![g].samples[k] = result]
  /\ UNCHANGED <<inbound, outbound, plan, receipt, unit, request, returned, free>>

\* evaluate_samples
Verdict(samples) ==
  LET failed == {k \in DOMAIN samples : samples[k] = "Fail"} IN
  IF Cardinality(failed) > Acceptable THEN "Reject"
  ELSE IF \E k \in DOMAIN samples : samples[k] = "Pending" THEN "Pending" ELSE "Accept"

\* The inspected quantity changes its stock type where it is booked.
Decided(g, bin, passed) ==
  /\ inspection[g].status = "Draft"
  /\ unit[g].bin = bin /\ unit[g].content["QUALITY"] >= receipt[g].quantity
  /\ unit' = [unit EXCEPT ![g].content =
                [t \in Types |-> CASE t = "QUALITY" -> @[t] - receipt[g].quantity
                                   [] t = "AVAILABLE" -> @[t] + passed
                                   [] t = "BLOCKED" -> @[t] + receipt[g].quantity - passed]]
  /\ inspection' = [inspection EXCEPT ![g].status = "Completed", ![g].bin = bin]
  /\ UNCHANGED <<inbound, outbound, plan, receipt, returned, free>>

\* complete_inspection looks up where the unit stands by now.
CompleteInspection(g, passed) ==
  /\ Decided(g, unit[g].bin, passed)
  /\ UNCHANGED request

CompleteBySamples(g) ==
  /\ inspection[g].samples # <<>> /\ Verdict(inspection[g].samples) # "Pending"
  /\ CompleteInspection(g, IF Verdict(inspection[g].samples) = "Accept"
                           THEN receipt[g].quantity ELSE 0)

\* _apply_decisions posts in the bin of the receipt, and may move the rejects.
Decide(g, passed, follow) ==
  /\ Decided(g, inspection[g].bin, passed)
  /\ IF follow /\ passed < receipt[g].quantity
     THEN /\ Len(request) < MaxRequests
          /\ request' = Append(request, Tasked(
               NewRequest("Internal Move", g, Nothing, "BLOCKED", inspection[g].bin,
                          receipt[g].quantity - passed), TRUE))
     ELSE UNCHANGED request

-----------------------------------------------------------------------------
Quantities(d) == 1..Expected[d]

Operation ==
  \/ \E d \in Inbounds : \/ PlanCrossDock(d) \/ Release(d) \/ CancelInbound(d)
                         \/ CompleteInboundShort(d) \/ CreateReturn(d)
  \/ \E g \in Receipts, d \in Inbounds : \E q \in Quantities(d) :
       \/ \E type \in Types, direct \in BOOLEAN, tasked \in BOOLEAN :
            Receive(g, d, q, type, direct, tasked)
       \/ \E type \in Types : DraftReceipt(g, d, q, type)
       \/ ReceiveFromProduction(g, d, q)
  \/ \E g \in Receipts :
       \/ SubmitReceipt(g) \/ CreatePutaway(g) \/ ReverseReceipt(g) \/ MirrorReturn(g)
       \/ CompleteBySamples(g)
       \/ \E passed \in 0..receipt[g].quantity :
            \/ CompleteInspection(g, passed)
            \/ \E follow \in BOOLEAN : Decide(g, passed, follow)
       \/ \E k \in DOMAIN inspection[g].samples, result \in {"Pass", "Fail"} :
            RecordSample(g, k, result)
  \/ \E i \in DOMAIN request : \E direct \in BOOLEAN : CreateTasks(i, direct)
  \/ \E o \in Outbounds : Allocate(o) \/ CancelOutbound(o) \/ CompleteOutboundShort(o)

Next ==
  \/ work < MaxWork /\ work' = work + 1 /\ Operation
  \/ /\ \E i \in DOMAIN request : \E k \in DOMAIN request[i].tasks : ConfirmTask(i, k)
     /\ UNCHANGED work

Spec == Init /\ [][Next]_vars

-----------------------------------------------------------------------------
(* Properties. *)

\* Types of the state.
TypeOK ==
  /\ \A d \in Inbounds : inbound[d].received \in Nat /\ inbound[d].expected \in Nat
  /\ \A o \in Outbounds : {outbound[o].allocated, outbound[o].picked,
                            outbound[o].requested, outbound[o].fromStock} \subseteq Nat
  /\ \A i \in DOMAIN plan : plan[i].consumed \in 0..plan[i].planned
  /\ \A g \in Receipts : \A t \in Types : unit[g].content[t] \in Nat
  /\ returned \in Nat /\ free \in Nat

PostedFor(d) == {g \in Receipts : receipt[g].inbound = d /\ receipt[g].status = "Posted"}

\* The received quantity of a line is that of its posted receipts, however they
\* were entered, cancelled and closed, and never more than was expected.
ReceiptProgress ==
  \A d \in Inbounds :
     /\ inbound[d].received = SumOf([g \in Receipts |-> receipt[g].quantity], PostedFor(d))
     /\ inbound[d].received <= inbound[d].expected

\* Whatever an open outbound line counts as allocated is reserved stock, planned
\* goods that have not come, or goods on their way across the dock: planning,
\* receipt, completion short and redirection never reserve or release twice.
ReservedHasSource ==
  \A o \in Outbounds :
     outbound[o].docstatus = 1 /\ outbound[o].status # "Completed" =>
       outbound[o].allocated = outbound[o].fromStock + CrossDocked(request, o)
         + SumOf([i \in DOMAIN plan |-> OpenPlan(i)],
                 {i \in DOMAIN plan : plan[i].outbound = o})

LeftDock(g) ==
  SumOf([i \in DOMAIN request |-> MovedOf(request[i])],
        {i \in DOMAIN request : request[i].receipt = g /\ request[i].kind # "Internal Move"})

\* Tasks never carry more from the dock than the receipt brought, and nothing of
\* a reversed receipt, although its requests and tasks stay open.
MovedWasReceived ==
  \A g \in Receipts :
     LeftDock(g) <= IF receipt[g].status = "Posted" THEN receipt[g].quantity ELSE 0

\* An outbound delivery is never promised or brought more than it asked for.
NeverOverdocked ==
  \A o \in Outbounds :
     outbound[o].docstatus = 1 /\ outbound[o].status # "Completed" =>
       /\ outbound[o].allocated <= outbound[o].requested
       /\ outbound[o].picked <= outbound[o].requested

\* What an outbound delivery has reserved through cross-docking has its source,
\* and it is neither promised nor brought more than it asked for.
CrossDocksAddUp == TypeOK /\ ReservedHasSource /\ NeverOverdocked

=============================================================================
