--------------------------- MODULE OrderReplication ---------------------------
(***************************************************************************)
(* Business documents and the deliveries that execute them.  A submitted   *)
(* Sales Order, or a draft (Delivery Note or Stock Entry), is replicated   *)
(* into Outbound Deliveries; changes of the document follow into them      *)
(* until the warehouse has started; goods issues are posted back.  One     *)
(* order and one warehouse; drafts carry no order; a delivery's lines are  *)
(* named after the row they come from.  What the business system itself    *)
(* refuses is marked external.                                             *)
(***************************************************************************)
EXTENDS Integers, SequencesExt, FiniteSetsExt

CONSTANTS
  Lines,           \* rows of the order and of a draft
  Drafts,          \* drafts that may be entered
  DraftKind,       \* "Delivery Note" or "Stock Entry"
  Names,           \* 1..n: names deliveries get, in order of creation
  Triggers,        \* of "Order", "Draft" and "Manual": outbound_replication
  OrderInputs,     \* [Triggers -> quantities an order may ask for]
  DraftInputs, Moves,   \* rows a draft may have; quantities a split may move
  ChangePolicy,    \* "Adapt" or "Block"
  ReleaseReplicated, FollowUp, CloseShortOrders,   \* warehouse settings, BOOLEAN
  PostedLate,      \* of "Order", "Draft": goods issues for these wait in the posting queue
  None,
  MaxQuantity, MaxIssues, MaxWork   \* bounds

OrderReplicationAssumption ==
  /\ Names = 1..Cardinality(Names)
  /\ {ReleaseReplicated, FollowUp, CloseShortOrders} \subseteq BOOLEAN
  /\ Triggers \subseteq {"Order", "Draft", "Manual"}
  /\ None \notin Lines \cup Drafts

VARIABLES
  trigger,    \* outbound_replication of the warehouse
  order,      \* the Sales Order: status, quantity and delivered quantity per row
  draft,      \* [Drafts -> the draft document]
  delivery,   \* [Names -> Outbound Delivery with its lines]
  issue,      \* Goods Issues, in order
  work

vars == <<trigger, order, draft, delivery, issue, work>>

Quantities == [Lines -> 0..MaxQuantity]
Nothing == [l \in Lines |-> 0]
Larger(a, b) == IF a > b THEN a ELSE b
Smaller(a, b) == IF a < b THEN a ELSE b
NoLine == [qty |-> 0, allocated |-> 0, picked |-> 0, issued |-> 0]
NoDelivery == [state |-> "None", short |-> FALSE, source |-> None, line |-> [l \in Lines |-> NoLine]]

Init ==
  /\ trigger \in Triggers
  /\ order = [status |-> "None", qty |-> Nothing, delivered |-> Nothing]
  /\ draft = [n \in Drafts |-> [status |-> "None", rows |-> Nothing, link |-> None]]
  /\ delivery = [d \in Names |-> NoDelivery]
  /\ issue = <<>>
  /\ work = 0

-----------------------------------------------------------------------------
(* Deliveries, as functions of a state of them: a handler changes several. *)

Present(ds) == {d \in Names : ds[d].state \in {"Draft", "Released"}}
OpenFor(ds, source) == {d \in Present(ds) : ds[d].source = source /\ ~ds[d].short}
LinesOf(ds, d) == {l \in Lines : ds[d].line[l].qty > 0}
SumOver(S, f(_)) == MapThenSumSet(f, S)

OnWms(ds, l) ==
  SumOver(OpenFor(ds, "Order"), LAMBDA d : Larger(ds[d].line[l].qty - ds[d].line[l].issued, 0))
OutstandingOrdered(ds, o, l) == o.qty[l] - OnWms(ds, l)
Outstanding(ds, o, l) == o.qty[l] - o.delivered[l] - OnWms(ds, l)

IsStarted(ds, d) ==
  \E l \in Lines : ds[d].line[l].issued > 0 \/ ds[d].line[l].picked > 0 \/ ds[d].line[l].allocated > 0

NameLeft(ds) == \E d \in Names : ds[d].state = "None"
NextName(ds) == Min({d \in Names : ds[d].state = "None"})

(* A new delivery, released and followed up as the warehouse asks: the     *)
(* follow-up allocates what stock there is (all, or none).                 *)
Filled(l, followed) == [l EXCEPT !.allocated = IF followed THEN l.qty ELSE 0]
WithDelivery(ds, source, rows, release, followed) ==
  [ds EXCEPT ![NextName(ds)] =
     [state |-> IF release THEN "Released" ELSE "Draft", short |-> FALSE, source |-> source,
      line |-> [l \in Lines |-> Filled([NoLine EXCEPT !.qty = rows[l]], release /\ followed)]]]
Followed == IF FollowUp THEN BOOLEAN ELSE {FALSE}

Withdrawn(ds, d) ==
  [ds EXCEPT ![d].state = IF @ = "Draft" THEN "Deleted" ELSE "Cancelled"]

CreateForOrder(ds, o, release, followed) ==
  LET rows == [l \in Lines |-> Larger(Outstanding(ds, o, l), 0)]
  IN  IF rows = Nothing THEN ds ELSE WithDelivery(ds, "Order", rows, release, followed)

RebuiltWithout(ds, d, ls, followed) ==
  LET kept == [l \in Lines |-> IF l \in ls THEN 0 ELSE ds[d].line[l].qty]
  IN  IF kept = Nothing THEN Withdrawn(ds, d)
      ELSE WithDelivery(Withdrawn(ds, d), ds[d].source, kept, ReleaseReplicated, followed)

-----------------------------------------------------------------------------
(* The order. *)

SubmitOrder(qty, followed) ==
  /\ order.status = "None" /\ qty # Nothing
  /\ order' = [order EXCEPT !.status = "Open", !.qty = qty]
  /\ delivery' = IF trigger = "Order"
                 THEN CreateForOrder(delivery, order', ReleaseReplicated, followed) ELSE delivery
  /\ UNCHANGED <<draft, issue>>

(* The button Create > Outbound Delivery: never released. *)
CreateByHand ==
  /\ order.status \in {"Open", "Closed"}
  /\ \E l \in Lines : Outstanding(delivery, order, l) > 0
  /\ NameLeft(delivery)
  /\ delivery' = CreateForOrder(delivery, order, FALSE, FALSE)
  /\ UNCHANGED <<order, draft, issue>>

CancelOrder ==
  /\ order.status \in {"Open", "Closed"}
  /\ order.delivered = Nothing                                  \* external
  /\ \A d \in OpenFor(delivery, "Order") : ~IsStarted(delivery, d)
  /\ order' = [order EXCEPT !.status = "Cancelled"]
  /\ delivery' = [d \in Names |-> IF d \in OpenFor(delivery, "Order")
                                  THEN Withdrawn(delivery, d)[d] ELSE delivery[d]]
  /\ UNCHANGED <<draft, issue>>

(* _reduce(): newest delivery first; left is what could not be taken off.  *)
FreeOf(ds, d, l) == ds[d].line[l].qty - ds[d].line[l].issued - ds[d].line[l].allocated
TakenOff(ds, l, qty, followed) ==
  LET open == {d \in OpenFor(ds, "Order") : l \in LinesOf(ds, d)}
      newestFirst == Reverse(SetToSortSeq(open, LAMBDA a, b : a < b))
      step(acc, d) ==
        LET take == Smaller(acc.left, Larger(FreeOf(acc.ds, d, l), 0))
            line == acc.ds[d].line[l]
        IN  IF take = 0 THEN acc
            ELSE [left |-> acc.left - take,
                  ds |-> IF line.qty = take /\ ~IsStarted(acc.ds, d)
                         THEN RebuiltWithout(acc.ds, d, {l}, followed)
                         ELSE [acc.ds EXCEPT ![d].line[l].qty = @ - take]]
  IN  FoldLeft(step, [ds |-> ds, left |-> qty], newestFirst)

(* More ordered: the first delivery that has not started takes it. *)
Grown(ds, l, qty) ==
  LET idle == {d \in OpenFor(ds, "Order") : l \in LinesOf(ds, d) /\ ~IsStarted(ds, d)}
  IN  IF idle = {} THEN ds ELSE [ds EXCEPT ![Min(idle)].line[l].qty = @ + qty]

(* One row of on_order_update_after_submit(); left = 0 when it is accepted. *)
RowFollowed(ds, o, l, followed) ==
  LET replicated == \E d \in OpenFor(ds, "Order") : l \in LinesOf(ds, d)
      diff == o.qty[l] - o.delivered[l] - OnWms(ds, l)
  IN  CASE ~replicated \/ diff = 0 \/ o.qty[l] = 0 -> [ds |-> ds, left |-> 0]
        [] diff < 0 /\ ChangePolicy # "Block" -> TakenOff(ds, l, -diff, followed)
        [] diff > 0 /\ ChangePolicy # "Block" -> [ds |-> Grown(ds, l, diff), left |-> 0]
        [] OTHER -> [ds |-> ds, left |-> 1]

WithoutRemoved(ds, o, followed) ==
  LET gone(d) == {l \in LinesOf(ds, d) : o.qty[l] = 0}
      step(acc, d) == IF gone(d) = {} THEN acc ELSE RebuiltWithout(acc, d, gone(d), followed)
  IN  FoldLeft(step, ds, SetToSortSeq(OpenFor(ds, "Order"), LAMBDA a, b : a < b))
MayLose(ds, o) ==
  \A d \in OpenFor(ds, "Order") : IsStarted(ds, d) => \A l \in LinesOf(ds, d) : o.qty[l] > 0

(* A quantity of zero is a removed row. *)
UpdateItems(qty, followed) ==
  /\ order.status = "Open" /\ qty # order.qty /\ qty # Nothing
  /\ \A l \in Lines : qty[l] >= order.delivered[l]              \* external
  /\ Cardinality({d \in Names : delivery[d].state = "None"}) >= 3   \* bound
  /\ LET o == [order EXCEPT !.qty = qty]
         rows == SetToSeq(Lines)
         followedRows == FoldLeft(
           LAMBDA acc, l : IF acc.left > 0 THEN acc ELSE RowFollowed(acc.ds, o, l, followed),
           [ds |-> delivery, left |-> 0], rows)
         created == IF trigger = "Order"
                    THEN CreateForOrder(followedRows.ds, o, ReleaseReplicated, followed)
                    ELSE followedRows.ds
     IN  /\ followedRows.left = 0
         /\ MayLose(created, o)
         /\ order' = o
         /\ delivery' = WithoutRemoved(created, o, followed)
  /\ UNCHANGED <<draft, issue>>

-----------------------------------------------------------------------------
(* Drafts: the delivery mirrors the draft's rows. *)

SameRows(d, rows) == \A l \in Lines : (delivery[d].line[l].qty > 0) = (rows[l] > 0)
SameLines(d, rows) == \A l \in Lines : delivery[d].line[l].qty = rows[l]
HasDelivery(n) == draft[n].link # None /\ delivery[draft[n].link].state # "Deleted"
Current(n) == HasDelivery(n) /\ delivery[draft[n].link].state \in {"Draft", "Released"}

SaveDraft(n, rows, followed) ==
  LET link == draft[n].link
      saved == [draft[n] EXCEPT !.status = "Draft", !.rows = rows]
  IN  /\ draft[n].status \in {"None", "Draft"} /\ rows # Nothing
      /\ trigger = "Draft"
      /\ NameLeft(delivery)
      /\ IF Current(n) /\ SameLines(link, rows)
         THEN draft' = [draft EXCEPT ![n] = saved] /\ UNCHANGED delivery
         ELSE /\ Current(n) => ~IsStarted(delivery, link)
              /\ LET ds == IF Current(n) THEN Withdrawn(delivery, link) ELSE delivery
                 IN  /\ delivery' = WithDelivery(ds, n, rows, ReleaseReplicated, followed)
                     /\ draft' = [draft EXCEPT ![n] = [saved EXCEPT !.link = NextName(ds)]]
      /\ UNCHANGED <<order, issue>>

TrashDraft(n) ==
  /\ draft[n].status = "Draft"
  /\ \A d \in OpenFor(delivery, n) : ~IsStarted(delivery, d)
  /\ draft' = [draft EXCEPT ![n].status = "Deleted"]
  /\ delivery' = [d \in Names |-> IF d \in OpenFor(delivery, n)
                                  THEN Withdrawn(delivery, d)[d] ELSE delivery[d]]
  /\ UNCHANGED <<order, issue>>

-----------------------------------------------------------------------------
(* The warehouse. *)

Release(d) ==
  /\ delivery[d].state = "Draft"
  /\ delivery' = [delivery EXCEPT ![d].state = "Released"]
  /\ UNCHANGED <<order, draft, issue>>

Line(d, l) == delivery[d].line[l]
WithLines(d, line(_)) == [delivery EXCEPT ![d].line = [l \in Lines |-> line(l)]]

(* allocate_delivery(), with stock for the rows in ls. *)
Allocate(d, ls) ==
  /\ delivery[d].state = "Released"
  /\ \A l \in ls : delivery[d].line[l].allocated < delivery[d].line[l].qty
  /\ delivery' = WithLines(d, LAMBDA l :
       IF l \in ls THEN Filled(Line(d, l), TRUE) ELSE Line(d, l))
  /\ UNCHANGED <<order, draft, issue>>

Pick(d) ==
  /\ delivery[d].state = "Released" /\ ~delivery[d].short
  /\ \E l \in Lines : delivery[d].line[l].picked < delivery[d].line[l].allocated
  /\ delivery' = WithLines(d, LAMBDA l : [Line(d, l) EXCEPT !.picked = Line(d, l).allocated])
  /\ UNCHANGED <<order, draft, issue>>

IsReplicatedDraft(d) == delivery[d].source \in Drafts /\ draft[delivery[d].source].status = "Draft"

(* sync_goods_issue(): what posting a goods issue does to the documents. *)
MayPost(d) == delivery[d].source = "Order" => order.status = "Open"   \* external
ErpKind(d) ==
  IF IsReplicatedDraft(d) THEN "Draft"
  ELSE IF delivery[d].source = "Order" THEN "Delivery Note" ELSE "Stock Entry"
DraftAfter(d, rows) ==
  IF IsReplicatedDraft(d)
  THEN [draft EXCEPT ![delivery[d].source] = [@ EXCEPT !.status = "Submitted", !.rows = rows]]
  ELSE draft
Plus(q, rows) == [l \in Lines |-> q[l] + rows[l]]
Minus(q, rows) == [l \in Lines |-> Larger(q[l] - rows[l], 0)]
OrderAfter(d, rows) ==
  IF delivery[d].source = "Order" THEN [order EXCEPT !.delivered = Plus(@, rows)] ELSE order

PostGoodsIssue(d, ls) ==
  LET rows == [l \in Lines |->
        IF l \in ls THEN delivery[d].line[l].picked - delivery[d].line[l].issued ELSE 0]
      posts == MayPost(d) /\ (IF delivery[d].source = "Order" THEN "Order" ELSE "Draft") \notin PostedLate
  IN  /\ delivery[d].state = "Released" /\ Len(issue) < MaxIssues
      /\ \A l \in ls : rows[l] > 0
      /\ delivery' = WithLines(d, LAMBDA l : [Line(d, l) EXCEPT !.issued = @ + rows[l]])
      /\ issue' = Append(issue, [of |-> d, rows |-> rows, reversed |-> FALSE,
                                 erp |-> IF posts THEN ErpKind(d) ELSE "Queued"])
      /\ draft' = IF posts THEN DraftAfter(d, rows) ELSE draft
      /\ order' = IF posts THEN OrderAfter(d, rows) ELSE order

(* The posting queue gets to a goods issue. *)
PostQueued(i) ==
  /\ issue[i].erp = "Queued" /\ ~issue[i].reversed
  /\ MayPost(issue[i].of)
  /\ issue' = [issue EXCEPT ![i].erp = ErpKind(issue[i].of)]
  /\ draft' = DraftAfter(issue[i].of, issue[i].rows)
  /\ order' = OrderAfter(issue[i].of, issue[i].rows)
  /\ UNCHANGED delivery

ReverseGoodsIssue(i) ==
  LET d == issue[i].of
  IN  /\ ~issue[i].reversed
      /\ issue' = [issue EXCEPT ![i].reversed = TRUE]
      /\ delivery' = WithLines(d, LAMBDA l :
           [Line(d, l) EXCEPT !.issued = Larger(@ - issue[i].rows[l], 0)])
      /\ order' = IF issue[i].erp = "Delivery Note"
                  THEN [order EXCEPT !.delivered = Minus(@, issue[i].rows)] ELSE order
      /\ draft' = IF issue[i].erp = "Draft"
                  THEN [draft EXCEPT ![delivery[d].source].status = "Cancelled"] ELSE draft

(* Cancelling in the warehouse: nothing picked, nothing issued. *)
CancelDelivery(d) ==
  /\ delivery[d].state = "Released"
  /\ \A l \in Lines : delivery[d].line[l].picked = 0
  /\ delivery' = Withdrawn(delivery, d)
  /\ UNCHANGED <<order, draft, issue>>

CompleteShort(d) ==
  LET del == delivery[d]
      source == del.source
      empty == \A l \in Lines : Line(d, l).issued = 0
      others == {e \in OpenFor(delivery, "Order") \ {d} : delivery[e].state = "Released"}
  IN  /\ del.state = "Released" /\ ~del.short
      /\ \A l \in Lines : Line(d, l).picked <= Line(d, l).issued
      /\ delivery' = [delivery EXCEPT ![d].short = TRUE,
           ![d].line = [l \in Lines |-> [Line(d, l) EXCEPT !.qty = Line(d, l).issued]]]
      /\ draft' = IF empty /\ IsReplicatedDraft(d)
                  THEN [draft EXCEPT ![source].status = "Deleted"] ELSE draft
      /\ order' = IF CloseShortOrders /\ source = "Order" /\ others = {} /\ order.status = "Open"
                  THEN [order EXCEPT !.status = "Closed"] ELSE order
      /\ UNCHANGED issue

NotPicked(d, l) == delivery[d].line[l].qty - delivery[d].line[l].picked
Movable(d, l) ==
  LET line == delivery[d].line[l]
  IN  line.qty - Max({line.allocated, line.picked, line.issued})

(* split_outbound_delivery(): a draft Delivery Note is split with it; a    *)
(* draft Stock Entry is not, and both deliveries name it as their source.  *)
Split(d, moves, other, followed) ==
  LET splits == DraftKind = "Delivery Note" /\ IsReplicatedDraft(d)
      source == delivery[d].source
      left == WithLines(d, LAMBDA l : [Line(d, l) EXCEPT !.qty = @ - moves[l]])
  IN  /\ delivery[d].state = "Released" /\ ~delivery[d].short
      /\ \E l \in Lines : delivery[d].line[l].issued < delivery[d].line[l].qty
      /\ moves # Nothing /\ \A l \in Lines : moves[l] > 0 => moves[l] <= Movable(d, l)
      /\ \E l \in Lines : moves[l] < delivery[d].line[l].qty
      /\ NameLeft(delivery)
      /\ IF splits THEN other \in Drafts /\ draft[other].status = "None" ELSE other = source
      /\ delivery' = WithDelivery(left, IF splits THEN other ELSE source, moves, TRUE, followed)
      /\ draft' = IF splits
           THEN [draft EXCEPT ![source].rows = Minus(@, moves),
                   ![other] = [status |-> "Draft", rows |-> moves, link |-> NextName(delivery)]]
           ELSE draft
      /\ UNCHANGED <<order, issue>>

Operation ==
  \/ \E followed \in Followed :
       \/ \E qty \in OrderInputs[trigger] : SubmitOrder(qty, followed) \/ UpdateItems(qty, followed)
       \/ \E n \in Drafts, rows \in DraftInputs : SaveDraft(n, rows, followed)
       \/ \E d \in Names, moves \in Moves, other \in Drafts \cup {"Order"} :
            Split(d, moves, other, followed)
  \/ CreateByHand \/ CancelOrder
  \/ \E n \in Drafts : TrashDraft(n)
  \/ \E d \in Names :
       \/ Release(d) \/ Pick(d) \/ CancelDelivery(d) \/ CompleteShort(d)
       \/ \E ls \in (SUBSET Lines) \ {{}} : Allocate(d, ls) \/ PostGoodsIssue(d, ls)
  \/ \E i \in DOMAIN issue : PostQueued(i) \/ ReverseGoodsIssue(i)

Next == work < MaxWork /\ work' = work + 1 /\ trigger' = trigger /\ Operation

Spec == Init /\ [][Next]_vars

-----------------------------------------------------------------------------
(* Properties. *)

TypeOK ==
  /\ order \in [status : {"None", "Open", "Closed", "Cancelled"}, qty : Quantities,
                delivered : [Lines -> Nat]]
  /\ \A n \in Drafts :
       /\ draft[n].status \in {"None", "Draft", "Submitted", "Cancelled", "Deleted"}
       /\ draft[n].link \in Names \cup {None}
  /\ \A d \in Names :
       /\ delivery[d].state \in {"None", "Draft", "Released", "Cancelled", "Deleted"}
       /\ delivery[d].line \in [Lines -> [qty : Nat, allocated : Nat, picked : Nat, issued : Nat]]

(* What left the building and what open deliveries still ask for never     *)
(* exceeds what an open order orders, however it is changed, split, closed *)
(* short, cancelled and reversed in between (erp_integration.py:76-95,     *)
(* 292-370, 509-537, delivery_split.py:20-72).                             *)
Live(d) == delivery[d].state \in {"Draft", "Released"}
IssuedFor(l) == SumOver({d \in Names : delivery[d].source = "Order"}, LAMBDA d : delivery[d].line[l].issued)
NeverOverCommitted ==
  order.status = "Open" =>
    \A l \in Lines : IssuedFor(l) + OnWms(delivery, l) <= order.qty[l]

(* A line of an open delivery asks for at least what is allocated, picked  *)
(* and issued on it: no change of the order or split takes away a quantity *)
(* the warehouse works on (erp_integration.py:334-353,                     *)
(* delivery_split.py:20-22).                                               *)
CoversWork ==
  \A d \in Names : Live(d) /\ ~delivery[d].short =>
    \A l \in Lines :
      LET line == delivery[d].line[l]
      IN  line.qty >= line.allocated /\ line.allocated >= line.picked /\ line.picked >= line.issued

(* While a draft waits, its open deliveries ask for exactly its rows,      *)
(* through every save, split, release and withdrawal                       *)
(* (erp_integration.py:218-226, 383-403, delivery_split.py:75-102).        *)
DraftMirrored ==
  \A n \in Drafts : draft[n].status = "Draft" =>
    LET open == OpenFor(delivery, n)
    IN  open # {} => \A l \in Lines :
          SumOver(open, LAMBDA d : delivery[d].line[l].qty) = draft[n].rows[l]
===============================================================================
