----------------------- MODULE InboundDeliveryProofs -----------------------
(***************************************************************************)
(* What is proved of InboundDelivery, for any deliveries, receipts and     *)
(* quantities: received quantities are those of the posted receipts, tasks *)
(* carry from the dock what came to it, and whatever an outbound delivery  *)
(* was promised by cross-docking has its source.                           *)
(***************************************************************************)
EXTENDS InboundDelivery, Sums, SequenceTheorems

LEMMA Finite ==
  IsFiniteSet(Inbounds) /\ IsFiniteSet(Outbounds) /\ IsFiniteSet(Receipts) /\ IsFiniteSet(Types)
<1>1. IsFiniteSet(Types)
  <2>1. IsFiniteSet({"AVAILABLE"}) /\ IsFiniteSet({"QUALITY"}) /\ IsFiniteSet({"BLOCKED"})
    BY FS_Singleton
  <2>2. IsFiniteSet({"AVAILABLE"} \cup {"QUALITY"})
    BY <2>1, FS_Union
  <2>3. IsFiniteSet(({"AVAILABLE"} \cup {"QUALITY"}) \cup {"BLOCKED"})
    BY <2>1, <2>2, FS_Union
  <2>4. Types = ({"AVAILABLE"} \cup {"QUALITY"}) \cup {"BLOCKED"}
    BY DEF Types
  <2>5. QED
    BY <2>3, <2>4
<1>2. QED
  BY <1>1, InboundAssumption

-----------------------------------------------------------------------------
(* The inductive invariant. *)

Kinds == {"Putaway", "Cross Dock", "Internal Move"}
Places == {"Receiving", "Staging", "Storage", "Returns"}
InboundRow ==
  [docstatus : {0, 1, 2}, expected : Nat, received : Nat, closed : BOOLEAN,
   status : {"None", "Draft", "Expected", "Partially Received", "Received",
             "Completed", "Cancelled"}]
OutboundRow ==
  [docstatus : {1, 2}, requested : Nat, allocated : Nat, picked : Nat, fromStock : Nat,
   status : {"Open", "Picked", "Completed", "Cancelled"},
   picking : {"Not Started", "Not Relevant", "Partially Picked", "Picked"}]
PlanRow ==
  [inbound : Inbounds, outbound : Outbounds, planned : Nat, consumed : Nat,
   status : {"Planned", "Done", "Cancelled"}]
ReceiptRow ==
  [status : {"None", "Draft", "Posted", "Reversed"}, inbound : Inbounds \cup {Nothing},
   quantity : Nat, type : Types, direct : BOOLEAN, mirrored : BOOLEAN]
UnitRow == [bin : Places, content : [Types -> Nat]]
InspectionRow ==
  [status : {"None", "Draft", "Completed"}, bin : Places,
   samples : Seq({"Pending", "Pass", "Fail"})]
TaskRow == [planned : Int, status : {"Open", "Confirmed", "Cancelled"}]
RequestRow ==
  [kind : Kinds, receipt : Receipts, outbound : Outbounds \cup {Nothing}, type : Types,
   source : Places, requested : Nat \ {0}, tasks : Seq(TaskRow),
   status : {"Open", "Fully Tasked", "In Process", "Completed", "Cancelled"}]

\* What a request is: it leaves the dock unless it moves rejects, only a putaway
\* is split into tasks, and one that is finished has no open task.
Proper(r) ==
  /\ r.kind # "Internal Move" => r.source = "Receiving"
  /\ r.kind = "Cross Dock" => r.outbound \in Outbounds
  /\ r.kind # "Putaway" =>
       DOMAIN r.tasks \subseteq {1} /\ \A k \in DOMAIN r.tasks : r.tasks[k].planned = r.requested
  /\ r.status = "Open" => r.tasks = <<>>
  /\ r.status \in {"Completed", "Cancelled"} =>
       \A k \in DOMAIN r.tasks : r.tasks[k].status # "Open"

\* Deliveries and their receipts.
ReceiptTypes ==
  /\ inbound \in [Inbounds -> InboundRow]
  /\ receipt \in [Receipts -> ReceiptRow]
  /\ returned \in Nat
  /\ \A g \in Receipts : receipt[g].status # "None" =>
       receipt[g].inbound \in Inbounds /\ inbound[receipt[g].inbound].status # "None"
Mirrored == {g \in Receipts : receipt[g].mirrored}
ReturnsAddUp ==
  /\ \A g \in Mirrored : receipt[g].status \in {"Posted", "Reversed"}
  /\ returned = SumOf([g \in Receipts |-> receipt[g].quantity], Mirrored)
ReceiptInv == ReceiptTypes /\ ReceiptProgress /\ ReturnsAddUp

\* Requests, tasks and the units they move.
RequestTypes == request \in Seq(RequestRow) /\ \A i \in DOMAIN request : Proper(request[i])
DockTypes ==
  unit \in [Receipts -> UnitRow] /\ inspection \in [Receipts -> InspectionRow] /\ RequestTypes
AtDock(u) == IF u.bin = "Receiving" THEN SumOf(u.content, Types) ELSE 0
Came(rec) == IF rec.status = "Posted" THEN rec.quantity ELSE 0
Leaves == \A g \in Receipts : LeftDock(g) + AtDock(unit[g]) <= Came(receipt[g])
DockInv == DockTypes /\ Leaves

\* Outbound deliveries, plans and cross-docks.
CrossTypes ==
  /\ outbound \in [Outbounds -> OutboundRow]
  /\ plan \in Seq(PlanRow)
  /\ \A i \in DOMAIN plan : plan[i].consumed <= plan[i].planned
  /\ free \in Nat
IsOpen(o) == outbound[o].docstatus = 1 /\ outbound[o].status # "Completed"
Docking(r, o) == r.kind = "Cross Dock" /\ r.outbound = o /\ r.status # "Cancelled"
Arrived(reqs, o) ==
  SumOf([i \in DOMAIN reqs |-> MovedOf(reqs[i])], {i \in DOMAIN reqs : Docking(reqs[i], o)})
ArrivedIsPicked == \A o \in Outbounds : IsOpen(o) => outbound[o].picked = Arrived(request, o)
Ended(r) == r.status \in {"Completed", "Cancelled"}
Engaged(s, o) == \E i \in DOMAIN s : s[i].kind = "Cross Dock" /\ s[i].outbound = o /\ ~Ended(s[i])
Foreseen(s, o) == \E i \in DOMAIN s : s[i].outbound = o /\ s[i].status = "Planned"
ClosedWantNothing ==
  \A o \in Outbounds :
    ~IsOpen(o) => /\ outbound[o].docstatus = 1 => outbound[o].requested = 0
                  /\ ~Foreseen(plan, o) /\ ~Engaged(request, o)
CrossInv ==
  /\ CrossTypes /\ ReservedHasSource /\ NeverOverdocked
  /\ ArrivedIsPicked /\ ClosedWantNothing

IInv == ReceiptInv /\ DockInv /\ CrossInv

-----------------------------------------------------------------------------
(* Sums over receipts. *)

Put(f, x, v) == [f EXCEPT ![x] = v]

LEMMA PutIs ==
  ASSUME NEW S, NEW T, NEW f \in [S -> T], NEW x \in S, NEW v \in T
  PROVE  /\ Put(f, x, v) \in [S -> T] /\ Put(f, x, v)[x] = v
         /\ \A y \in S : y # x => Put(f, x, v)[y] = f[y]
BY DEF Put

\* A sum over part of a set is the sum over all of it with 0 for the others.
LEMMA SumOfPart ==
  ASSUME NEW S, IsFiniteSet(S), NEW T \in SUBSET S, NEW f, NEW g,
         \A x \in S : g[x] \in Int,
         \A x \in T : g[x] = f[x], \A x \in S \ T : g[x] = 0
  PROVE  SumOf(f, T) = SumOf(g, S)
<1>1. IsFiniteSet(T)
  BY FS_Subset
<1>2. SumFunctionOnSet(g, S) = SumFunctionOnSet(g, T)
  BY SumRestricted
<1>3. SumFunctionOnSet(f, T) = SumFunctionOnSet(g, T)
  BY <1>1, SumEqual
<1>4. QED
  BY <1>2, <1>3 DEF SumOf

QuantityOf(r) == [g \in Receipts |-> r[g].quantity]
PostedSum(r, d) == SumOf(QuantityOf(r), {g \in Receipts : r[g].inbound = d /\ r[g].status = "Posted"})
MirrorSum(r) == SumOf(QuantityOf(r), {g \in Receipts : r[g].mirrored})
PostedQuantity(row, d) == IF row.inbound = d /\ row.status = "Posted" THEN row.quantity ELSE 0
MirroredQuantity(row) == IF row.mirrored THEN row.quantity ELSE 0

LEMMA ReceiptFields ==
  ASSUME NEW row \in ReceiptRow
  PROVE  /\ row.quantity \in Nat /\ row.mirrored \in BOOLEAN /\ row.type \in Types
         /\ row.direct \in BOOLEAN /\ row.inbound \in Inbounds \cup {Nothing}
         /\ row.status \in {"None", "Draft", "Posted", "Reversed"}
         /\ \A d : PostedQuantity(row, d) \in Nat
         /\ MirroredQuantity(row) \in Nat
BY DEF ReceiptRow, PostedQuantity, MirroredQuantity

LEMMA ReceiptSums ==
  ASSUME NEW r \in [Receipts -> ReceiptRow]
  PROVE  /\ \A d : PostedSum(r, d) = SumOf([g \in Receipts |-> PostedQuantity(r[g], d)], Receipts)
         /\ MirrorSum(r) = SumOf([g \in Receipts |-> MirroredQuantity(r[g])], Receipts)
<1>0. \A g \in Receipts : r[g] \in ReceiptRow
  OBVIOUS
<1>1. ASSUME NEW d
      PROVE  PostedSum(r, d) = SumOf([g \in Receipts |-> PostedQuantity(r[g], d)], Receipts)
  <2> DEFINE T == {g \in Receipts : r[g].inbound = d /\ r[g].status = "Posted"}
             f == QuantityOf(r)
             h == [g \in Receipts |-> PostedQuantity(r[g], d)]
  <2>1. \A x \in Receipts : h[x] \in Int
    BY <1>0, ReceiptFields
  <2>2. \A x \in T : h[x] = f[x]
    BY DEF PostedQuantity, QuantityOf
  <2>3. \A x \in Receipts \ T : h[x] = 0
    BY DEF PostedQuantity
  <2>4. T \in SUBSET Receipts /\ PostedSum(r, d) = SumOf(f, T)
    BY DEF PostedSum
  <2> HIDE DEF T, f, h
  <2>5. SumOf(f, T) = SumOf(h, Receipts)
    BY <2>1, <2>2, <2>3, <2>4, SumOfPart, Finite
  <2>6. QED
    BY <2>4, <2>5 DEF h
<1>2. MirrorSum(r) = SumOf([g \in Receipts |-> MirroredQuantity(r[g])], Receipts)
  <2> DEFINE T == {g \in Receipts : r[g].mirrored}
             f == QuantityOf(r)
             h == [g \in Receipts |-> MirroredQuantity(r[g])]
  <2>1. \A x \in Receipts : h[x] \in Int
    BY <1>0, ReceiptFields
  <2>2. \A x \in T : h[x] = f[x]
    BY DEF MirroredQuantity, QuantityOf
  <2>3. \A x \in Receipts \ T : h[x] = 0
    BY DEF MirroredQuantity
  <2>4. T \in SUBSET Receipts /\ MirrorSum(r) = SumOf(f, T)
    BY DEF MirrorSum
  <2> HIDE DEF T, f, h
  <2>5. SumOf(f, T) = SumOf(h, Receipts)
    BY <2>1, <2>2, <2>3, <2>4, SumOfPart, Finite
  <2>6. QED
    BY <2>4, <2>5 DEF h
<1>3. QED
  BY <1>1, <1>2

\* What a change of one receipt does to the sums.
LEMMA OneReceipt ==
  ASSUME NEW r \in [Receipts -> ReceiptRow], NEW g \in Receipts, NEW row \in ReceiptRow
  PROVE  LET s == Put(r, g, row) IN
         /\ \A d : PostedSum(s, d) = PostedSum(r, d) + PostedQuantity(row, d) - PostedQuantity(r[g], d)
         /\ MirrorSum(s) = MirrorSum(r) + MirroredQuantity(row) - MirroredQuantity(r[g])
<1> DEFINE s == Put(r, g, row)
<1>0. s \in [Receipts -> ReceiptRow] /\ s[g] = row /\ \A h \in Receipts : h # g => s[h] = r[h]
  BY DEF Put
<1> HIDE DEF s
<1>1. ASSUME NEW d
      PROVE  PostedSum(s, d) = PostedSum(r, d) + PostedQuantity(row, d) - PostedQuantity(r[g], d)
  <2> DEFINE f == [x \in Receipts |-> PostedQuantity(r[x], d)]
             h == [x \in Receipts |-> PostedQuantity(s[x], d)]
  <2>1. \A x \in Receipts : f[x] \in Int /\ h[x] \in Int
    BY <1>0, ReceiptFields
  <2>2. \A x \in Receipts \ {g} : h[x] = f[x]
    BY <1>0
  <2>3. h[g] = PostedQuantity(row, d) /\ f[g] = PostedQuantity(r[g], d)
    BY <1>0
  <2>4. PostedSum(s, d) = SumFunctionOnSet(h, Receipts) /\ PostedSum(r, d) = SumFunctionOnSet(f, Receipts)
    BY <1>0, ReceiptSums DEF SumOf
  <2> HIDE DEF f, h
  <2>5. SumFunctionOnSet(h, Receipts) = SumFunctionOnSet(f, Receipts) + (h[g] - f[g])
    BY <2>1, <2>2, SumChange, Finite
  <2>6. SumFunctionOnSet(f, Receipts) \in Int
    BY <2>1, SumInt, Finite
  <2>7. QED
    BY <2>1, <2>3, <2>4, <2>5, <2>6
<1>2. MirrorSum(s) = MirrorSum(r) + MirroredQuantity(row) - MirroredQuantity(r[g])
  <2> DEFINE f == [x \in Receipts |-> MirroredQuantity(r[x])]
             h == [x \in Receipts |-> MirroredQuantity(s[x])]
  <2>1. \A x \in Receipts : f[x] \in Int /\ h[x] \in Int
    BY <1>0, ReceiptFields
  <2>2. \A x \in Receipts \ {g} : h[x] = f[x]
    BY <1>0
  <2>3. h[g] = MirroredQuantity(row) /\ f[g] = MirroredQuantity(r[g])
    BY <1>0
  <2>4. MirrorSum(s) = SumFunctionOnSet(h, Receipts) /\ MirrorSum(r) = SumFunctionOnSet(f, Receipts)
    BY <1>0, ReceiptSums DEF SumOf
  <2> HIDE DEF f, h
  <2>5. SumFunctionOnSet(h, Receipts) = SumFunctionOnSet(f, Receipts) + (h[g] - f[g])
    BY <2>1, <2>2, SumChange, Finite
  <2>6. SumFunctionOnSet(f, Receipts) \in Int
    BY <2>1, SumInt, Finite
  <2>7. QED
    BY <2>1, <2>3, <2>4, <2>5, <2>6
<1>3. QED
  BY <1>1, <1>2 DEF s

LEMMA PostedAtLeast ==
  ASSUME NEW r \in [Receipts -> ReceiptRow], NEW g \in Receipts, NEW d
  PROVE  PostedSum(r, d) \in Nat /\ PostedQuantity(r[g], d) <= PostedSum(r, d)
         /\ MirrorSum(r) \in Nat /\ MirroredQuantity(r[g]) <= MirrorSum(r)
<1> DEFINE f == [x \in Receipts |-> PostedQuantity(r[x], d)]
           h == [x \in Receipts |-> MirroredQuantity(r[x])]
<1>1. \A x \in Receipts : f[x] \in Nat /\ h[x] \in Nat
  BY ReceiptFields
<1>2. f[g] = PostedQuantity(r[g], d) /\ h[g] = MirroredQuantity(r[g])
  OBVIOUS
<1>3. PostedSum(r, d) = SumFunctionOnSet(f, Receipts) /\ MirrorSum(r) = SumFunctionOnSet(h, Receipts)
  BY ReceiptSums DEF SumOf
<1> HIDE DEF f, h
<1>4. /\ SumFunctionOnSet(f, Receipts) \in Nat /\ f[g] <= SumFunctionOnSet(f, Receipts)
      /\ SumFunctionOnSet(h, Receipts) \in Nat /\ h[g] <= SumFunctionOnSet(h, Receipts)
  BY <1>1, SumNat, SumElement, Finite
<1>5. QED
  BY <1>2, <1>3, <1>4

-----------------------------------------------------------------------------
(* What was received: ReceiptInv. *)

LEMMA ProgressIs ==
  /\ ReceiptProgress <=> \A d \in Inbounds : /\ inbound[d].received = PostedSum(receipt, d)
                                             /\ inbound[d].received <= inbound[d].expected
  /\ ReturnsAddUp <=> /\ \A g \in Receipts : receipt[g].mirrored => receipt[g].status \in {"Posted", "Reversed"}
                      /\ returned = MirrorSum(receipt)
BY DEF ReceiptProgress, PostedFor, PostedSum, QuantityOf, ReturnsAddUp, Mirrored, MirrorSum

LEMMA InboundFields ==
  ASSUME NEW row \in InboundRow
  PROVE  row.expected \in Nat /\ row.received \in Nat
BY DEF InboundRow

\* The life of a delivery does not change what it received.
LEMMA DeliveryKeeps ==
  ASSUME ReceiptInv, NEW d \in Inbounds, NEW row \in InboundRow,
         inbound' = Put(inbound, d, row), row.received = inbound[d].received,
         row.received <= row.expected, row.status # "None", UNCHANGED <<receipt, returned>>
  PROVE  ReceiptInv'
<1>1. /\ inbound' \in [Inbounds -> InboundRow] /\ inbound'[d] = row
      /\ \A e \in Inbounds : e # d => inbound'[e] = inbound[e]
  BY DEF Put, ReceiptInv, ReceiptTypes
<1>2. ReceiptTypes'
  BY <1>1 DEF ReceiptInv, ReceiptTypes
<1>3. ReceiptProgress' /\ ReturnsAddUp'
  <2>1. \A e \in Inbounds : inbound[e].received = PostedSum(receipt, e) /\ inbound[e].received <= inbound[e].expected
    BY ProgressIs DEF ReceiptInv
  <2>2. \A e \in Inbounds : inbound'[e].received = PostedSum(receipt', e) /\ inbound'[e].received <= inbound'[e].expected
    BY <1>1, <2>1
  <2>3. QED
    BY <2>2, ProgressIs DEF ReceiptInv, ReceiptProgress, PostedFor, PostedSum, QuantityOf, ReturnsAddUp, Mirrored
<1>4. QED
  BY <1>2, <1>3 DEF ReceiptInv

\* A receipt is written, with what it makes of the delivery and of the returns.
LEMMA ReceiptKeeps ==
  ASSUME ReceiptInv, NEW g \in Receipts, NEW rec \in ReceiptRow, NEW d \in Inbounds, NEW row \in InboundRow,
         receipt' = Put(receipt, g, rec), inbound' = Put(inbound, d, row),
         rec.inbound = d, rec.status # "None", row.status # "None",
         receipt[g].status = "Posted" => receipt[g].inbound = d,
         row.received = inbound[d].received + PostedQuantity(rec, d) - PostedQuantity(receipt[g], d),
         row.received <= row.expected,
         rec.mirrored => rec.status \in {"Posted", "Reversed"},
         returned' = returned + MirroredQuantity(rec) - MirroredQuantity(receipt[g])
  PROVE  ReceiptInv'
<1>0. receipt \in [Receipts -> ReceiptRow] /\ inbound \in [Inbounds -> InboundRow]
  BY DEF ReceiptInv, ReceiptTypes
<1>1. /\ inbound' \in [Inbounds -> InboundRow] /\ inbound'[d] = row
      /\ \A e \in Inbounds : e # d => inbound'[e] = inbound[e]
  BY <1>0 DEF Put
<1>2. /\ receipt' \in [Receipts -> ReceiptRow] /\ receipt'[g] = rec
      /\ \A h \in Receipts : h # g => receipt'[h] = receipt[h]
  BY <1>0 DEF Put
<1>3. /\ \A e \in Inbounds : inbound[e].received = PostedSum(receipt, e) /\ inbound[e].received <= inbound[e].expected
      /\ \A h \in Receipts : receipt[h].mirrored => receipt[h].status \in {"Posted", "Reversed"}
      /\ returned = MirrorSum(receipt)
  BY ProgressIs DEF ReceiptInv
<1>4. /\ \A e : PostedSum(receipt', e) = PostedSum(receipt, e) + PostedQuantity(rec, e) - PostedQuantity(receipt[g], e)
      /\ MirrorSum(receipt') = MirrorSum(receipt) + MirroredQuantity(rec) - MirroredQuantity(receipt[g])
  BY <1>0, OneReceipt
<1>5. returned' \in Nat
  <2>1. MirrorSum(receipt') \in Nat
    BY <1>2, PostedAtLeast
  <2>2. QED
    BY <1>3, <1>4, <2>1
<1>6. \A e \in Inbounds : inbound'[e].received = PostedSum(receipt', e) /\ inbound'[e].received <= inbound'[e].expected
  <2> SUFFICES ASSUME NEW e \in Inbounds
               PROVE  inbound'[e].received = PostedSum(receipt', e) /\ inbound'[e].received <= inbound'[e].expected
    OBVIOUS
  <2>1. CASE e = d
    BY <1>1, <1>3, <1>4, <2>1
  <2>2. CASE e # d
    <3>1. PostedQuantity(rec, e) = 0 /\ PostedQuantity(receipt[g], e) = 0
      BY <2>2 DEF PostedQuantity
    <3>2. PostedSum(receipt, e) \in Nat
      BY <1>0, PostedAtLeast
    <3>3. QED
      BY <1>1, <1>3, <1>4, <2>2, <3>1, <3>2
  <2>3. QED
    BY <2>1, <2>2
<1>7. ReceiptTypes'
  <2>1. \A h \in Receipts : receipt'[h].status # "None" =>
          receipt'[h].inbound \in Inbounds /\ inbound'[receipt'[h].inbound].status # "None"
    BY <1>1, <1>2 DEF ReceiptInv, ReceiptTypes
  <2>2. QED
    BY <1>1, <1>2, <1>5, <2>1 DEF ReceiptTypes
<1>8. \A h \in Receipts : receipt'[h].mirrored => receipt'[h].status \in {"Posted", "Reversed"}
  BY <1>2, <1>3
<1>9. returned' = MirrorSum(receipt')
  BY <1>3, <1>4
<1>10. ReceiptProgress' /\ ReturnsAddUp'
  BY <1>6, <1>8, <1>9 DEF ReceiptProgress, PostedFor, PostedSum, QuantityOf, ReturnsAddUp, Mirrored, MirrorSum
<1>11. QED
  BY <1>7, <1>10 DEF ReceiptInv

LEMMA ReceiptStays ==
  ASSUME ReceiptInv, UNCHANGED <<inbound, receipt, returned>>
  PROVE  ReceiptInv'
BY DEF ReceiptInv, ReceiptTypes, ReceiptProgress, PostedFor, ReturnsAddUp, Mirrored

LEMMA ReceivedIs ==
  ASSUME NEW row \in InboundRow, NEW q \in Int
  PROVE  /\ Received(row, q) \in InboundRow
         /\ Received(row, q).received = Larger(row.received + q, 0)
         /\ Received(row, q).expected = row.expected
         /\ Received(row, q).status # "None"
<1> DEFINE new == Larger(row.received + q, 0)
           status == IF new >= row.expected THEN "Received"
                     ELSE IF new > 0 THEN "Partially Received"
                     ELSE IF row.docstatus = 1 THEN "Expected" ELSE "Draft"
<1>1. new \in Nat
  BY InboundFields DEF Larger
<1>2. status \in {"Draft", "Expected", "Partially Received", "Received"}
  OBVIOUS
<1>3. Received(row, q) = [row EXCEPT !.received = new, !.status = status]
  BY DEF Received
<1> HIDE DEF new, status
<1>4. /\ [row EXCEPT !.received = new, !.status = status] \in InboundRow
      /\ [row EXCEPT !.received = new, !.status = status].received = new
      /\ [row EXCEPT !.received = new, !.status = status].expected = row.expected
      /\ [row EXCEPT !.received = new, !.status = status].status = status
  BY <1>1, <1>2 DEF InboundRow
<1>5. QED
  BY <1>2, <1>3, <1>4 DEF new

LEMMA PreparedIs ==
  ASSUME NEW g, NEW d \in Inbounds, NEW q \in Nat, NEW type \in Types, NEW direct \in BOOLEAN
  PROVE  /\ Prepared(g, d, q, type, direct) \in ReceiptRow
         /\ Prepared(g, d, q, type, direct).status = "Draft"
         /\ Prepared(g, d, q, type, direct).inbound = d
         /\ Prepared(g, d, q, type, direct).quantity = q
         /\ Prepared(g, d, q, type, direct).type = type
         /\ Prepared(g, d, q, type, direct).direct = direct
         /\ ~Prepared(g, d, q, type, direct).mirrored
BY DEF Prepared, ReceiptRow

LEMMA QuantitiesNat ==
  ASSUME NEW d \in Inbounds, NEW q \in Quantities(d)
  PROVE  q \in Nat \ {0}
BY InboundAssumption DEF Quantities

WithReceiptStatus(rec, s) == [rec EXCEPT !.status = s]

LEMMA StatusIs ==
  ASSUME NEW rec \in ReceiptRow, NEW s \in {"None", "Draft", "Posted", "Reversed"}
  PROVE  /\ WithReceiptStatus(rec, s) \in ReceiptRow
         /\ WithReceiptStatus(rec, s).status = s
         /\ WithReceiptStatus(rec, s).inbound = rec.inbound
         /\ WithReceiptStatus(rec, s).quantity = rec.quantity
         /\ WithReceiptStatus(rec, s).type = rec.type
         /\ WithReceiptStatus(rec, s).mirrored = rec.mirrored
BY DEF ReceiptRow, WithReceiptStatus

LEMMA NotMirrored ==
  ASSUME ReceiptInv, NEW g \in Receipts
  PROVE  /\ receipt[g] \in ReceiptRow
         /\ receipt[g].mirrored => receipt[g].status \in {"Posted", "Reversed"}
         /\ receipt[g].status # "None" => receipt[g].inbound \in Inbounds /\ inbound[receipt[g].inbound].status # "None"
         /\ \A d \in Inbounds : inbound[d] \in InboundRow /\ inbound[d].received <= inbound[d].expected
BY ProgressIs DEF ReceiptInv, ReceiptTypes

\* A receipt that is drafted now is posted.
LEMMA PostingKeeps ==
  ASSUME ReceiptInv, NEW g \in Receipts, receipt[g].status \in {"None", "Draft"},
         NEW rec \in ReceiptRow, rec.inbound \in Inbounds, ~rec.mirrored, UNCHANGED returned,
         NEW row \in InboundRow, rec.quantity <= row.expected - row.received,
         row.received = inbound[rec.inbound].received,
         receipt' = Put(receipt, g, WithReceiptStatus(rec, "Posted")),
         inbound' = Put(inbound, rec.inbound, Received(row, rec.quantity))
  PROVE  ReceiptInv'
<1> DEFINE d == rec.inbound
           new == WithReceiptStatus(rec, "Posted")
<1>1. /\ new \in ReceiptRow /\ new.status = "Posted" /\ new.inbound = d
      /\ new.quantity = rec.quantity /\ new.mirrored = rec.mirrored
  BY StatusIs
<1>2. rec.quantity \in Nat /\ row.received \in Nat /\ row.expected \in Nat
  BY ReceiptFields, InboundFields
<1>3. /\ Received(row, rec.quantity) \in InboundRow
      /\ Received(row, rec.quantity).received = row.received + rec.quantity
      /\ Received(row, rec.quantity).expected = row.expected
      /\ Received(row, rec.quantity).status # "None"
  <2>1. rec.quantity \in Int /\ row.received + rec.quantity >= 0
    BY <1>2
  <2>2. Larger(row.received + rec.quantity, 0) = row.received + rec.quantity
    BY <2>1, <1>2 DEF Larger
  <2>3. QED
    BY <2>1, <2>2, ReceivedIs
<1>4. /\ PostedQuantity(new, d) = rec.quantity /\ PostedQuantity(receipt[g], d) = 0
      /\ MirroredQuantity(new) = 0 /\ MirroredQuantity(receipt[g]) = 0
  <2>1. ~receipt[g].mirrored
    BY NotMirrored
  <2>2. QED
    BY <1>1, <2>1 DEF PostedQuantity, MirroredQuantity
<1>5. returned \in Nat
  BY DEF ReceiptInv, ReceiptTypes
<1> HIDE DEF new
<1>6. QED
  BY <1>1, <1>2, <1>3, <1>4, <1>5, ReceiptKeeps DEF new

LEMMA PostKeeps ==
  ASSUME ReceiptInv, NEW g \in Receipts, receipt[g].status \in {"None", "Draft"},
         NEW rec \in ReceiptRow, rec.inbound \in Inbounds, ~rec.mirrored, UNCHANGED returned,
         Post(g, rec)
  PROVE  ReceiptInv'
<1> DEFINE row == inbound[rec.inbound]
<1>1. row \in InboundRow
  BY NotMirrored
<1>2. rec.quantity <= row.expected - row.received
  BY DEF Post, MayReceive
<1>3. receipt' = Put(receipt, g, WithReceiptStatus(rec, "Posted"))
  BY DEF Post, Put, WithReceiptStatus
<1>4. inbound' = Put(inbound, rec.inbound, Received(row, rec.quantity))
  BY DEF Post, Put
<1> HIDE DEF row
<1>5. QED
  BY <1>1, <1>2, <1>3, <1>4, PostingKeeps DEF row

LEMMA ReceiveKeeps ==
  ASSUME ReceiptInv, NEW g \in Receipts, NEW d \in Inbounds, NEW q \in Quantities(d),
         NEW type \in Types, NEW direct \in BOOLEAN, NEW tasked, Receive(g, d, q, type, direct, tasked)
  PROVE  ReceiptInv'
<1>1. q \in Nat
  BY QuantitiesNat
<1>2. receipt[g].status = "None" /\ Post(g, Prepared(g, d, q, type, direct)) /\ UNCHANGED returned
  BY DEF Receive
<1>3. QED
  BY <1>1, <1>2, PreparedIs, PostKeeps

LEMMA SubmitReceiptKeeps ==
  ASSUME ReceiptInv, NEW g \in Receipts, SubmitReceipt(g)
  PROVE  ReceiptInv'
<1>1. receipt[g].status = "Draft" /\ Post(g, receipt[g]) /\ UNCHANGED returned
  BY DEF SubmitReceipt
<1>2. QED
  BY <1>1, NotMirrored, PostKeeps

LEMMA DraftReceiptKeeps ==
  ASSUME ReceiptInv, NEW g \in Receipts, NEW d \in Inbounds, NEW q \in Quantities(d),
         NEW type \in Types, DraftReceipt(g, d, q, type)
  PROVE  ReceiptInv'
<1> DEFINE rec == Prepared(g, d, q, type, FALSE)
<1>1. /\ rec \in ReceiptRow /\ rec.status = "Draft" /\ rec.inbound = d /\ ~rec.mirrored
  <2>1. q \in Nat
    BY QuantitiesNat
  <2>2. QED
    BY <2>1 DEF Prepared, ReceiptRow
<1>2. /\ receipt[g].status = "None" /\ inbound[d].status # "None"
      /\ receipt' = Put(receipt, g, rec) /\ UNCHANGED <<inbound, returned>>
  BY DEF DraftReceipt, Put
<1> HIDE DEF rec
<1>3. /\ PostedQuantity(rec, d) = 0 /\ PostedQuantity(receipt[g], d) = 0
      /\ MirroredQuantity(rec) = 0 /\ MirroredQuantity(receipt[g]) = 0
  BY <1>1, <1>2, NotMirrored DEF PostedQuantity, MirroredQuantity
<1>4. /\ inbound[d] \in InboundRow /\ inbound[d].received <= inbound[d].expected
      /\ inbound[d].received \in Nat /\ returned \in Nat
  BY NotMirrored, InboundFields DEF ReceiptInv, ReceiptTypes
<1>5. inbound' = Put(inbound, d, inbound[d])
  BY <1>2 DEF Put, ReceiptInv, ReceiptTypes
<1>6. QED
  BY <1>1, <1>2, <1>3, <1>4, <1>5, ReceiptKeeps

LEMMA ReverseReceiptKeeps ==
  ASSUME ReceiptInv, NEW g \in Receipts, ReverseReceipt(g)
  PROVE  ReceiptInv'
<1> DEFINE rec == receipt[g]
           d == receipt[g].inbound
           new == WithReceiptStatus(rec, "Reversed")
           row == Received(inbound[d], -rec.quantity)
<1>1. /\ rec.status = "Posted" /\ receipt' = Put(receipt, g, new) /\ inbound' = Put(inbound, d, row)
      /\ UNCHANGED returned
  BY DEF ReverseReceipt, Put, WithReceiptStatus, HandedBack
<1>2. /\ rec \in ReceiptRow /\ d \in Inbounds /\ inbound[d] \in InboundRow
      /\ inbound[d].received <= inbound[d].expected
      /\ inbound[d].received \in Nat /\ inbound[d].expected \in Nat /\ rec.quantity \in Nat
  BY <1>1, NotMirrored, ReceiptFields, InboundFields
<1>3. /\ new \in ReceiptRow /\ new.status = "Reversed" /\ new.inbound = d
      /\ new.quantity = rec.quantity /\ new.mirrored = rec.mirrored
  BY <1>2, StatusIs
<1>4. rec.quantity <= inbound[d].received
  <2>1. PostedQuantity(receipt[g], d) = rec.quantity
    BY <1>1 DEF PostedQuantity
  <2>2. inbound[d].received = PostedSum(receipt, d) /\ receipt \in [Receipts -> ReceiptRow]
    BY <1>2, ProgressIs DEF ReceiptInv, ReceiptTypes
  <2>3. QED
    BY <2>1, <2>2, PostedAtLeast
<1>5. /\ row \in InboundRow /\ row.received = inbound[d].received - rec.quantity
      /\ row.expected = inbound[d].expected /\ row.status # "None"
  <2>1. -rec.quantity \in Int /\ inbound[d].received + (-rec.quantity) >= 0
    BY <1>2, <1>4
  <2>2. Larger(inbound[d].received + (-rec.quantity), 0) = inbound[d].received - rec.quantity
    BY <2>1, <1>2 DEF Larger
  <2>3. QED
    BY <1>2, <2>1, <2>2, ReceivedIs
<1>6. /\ PostedQuantity(new, d) = 0 /\ PostedQuantity(receipt[g], d) = rec.quantity
      /\ MirroredQuantity(new) = MirroredQuantity(receipt[g]) /\ MirroredQuantity(new) \in Nat
  BY <1>1, <1>2, <1>3, ReceiptFields DEF PostedQuantity, MirroredQuantity
<1>7. returned \in Nat
  BY DEF ReceiptInv, ReceiptTypes
<1> HIDE DEF new, row
<1>8. row.received = inbound[d].received + PostedQuantity(new, d) - PostedQuantity(receipt[g], d)
  BY <1>2, <1>5, <1>6
<1>9. returned' = returned + MirroredQuantity(new) - MirroredQuantity(receipt[g])
  BY <1>1, <1>6, <1>7
<1>10. row.received <= row.expected
  BY <1>2, <1>4, <1>5
<1>11. QED
  BY <1>1, <1>2, <1>3, <1>5, <1>8, <1>9, <1>10, ReceiptKeeps

LEMMA MirrorReturnKeeps ==
  ASSUME ReceiptInv, NEW g \in Receipts, MirrorReturn(g)
  PROVE  ReceiptInv'
<1> DEFINE rec == receipt[g]
           d == receipt[g].inbound
           posts == rec.status = "Posted"
           new == [rec EXCEPT !.mirrored = posts]
<1>1. /\ rec.status \in {"Posted", "Reversed"} /\ rec.mirrored # posts
      /\ returned' = IF posts THEN returned + rec.quantity ELSE returned - rec.quantity
      /\ receipt' = Put(receipt, g, new) /\ UNCHANGED inbound
  BY DEF MirrorReturn, Put
<1>2. /\ rec \in ReceiptRow /\ d \in Inbounds /\ inbound[d] \in InboundRow /\ inbound[d].status # "None"
      /\ inbound[d].received <= inbound[d].expected
      /\ inbound[d].received \in Nat /\ rec.quantity \in Nat /\ rec.mirrored \in BOOLEAN
  BY <1>1, NotMirrored, ReceiptFields, InboundFields
<1>3. /\ new \in ReceiptRow /\ new.status = rec.status /\ new.inbound = d
      /\ new.quantity = rec.quantity /\ new.mirrored = posts
  BY <1>2 DEF ReceiptRow
<1>4. PostedQuantity(new, d) = PostedQuantity(receipt[g], d) /\ PostedQuantity(new, d) \in Nat
  BY <1>2, <1>3, ReceiptFields DEF PostedQuantity
<1>5. returned \in Nat
  BY DEF ReceiptInv, ReceiptTypes
<1>6. returned' = returned + MirroredQuantity(new) - MirroredQuantity(receipt[g])
  <2>1. CASE posts
    <3>1. MirroredQuantity(new) = rec.quantity
      BY <1>3, <2>1, Zenon DEF MirroredQuantity
    <3>2. MirroredQuantity(receipt[g]) = 0
      BY <1>1, <1>2, <2>1, Zenon DEF MirroredQuantity
    <3>3. QED
      BY <1>1, <1>2, <1>5, <2>1, <3>1, <3>2
  <2>2. CASE ~posts
    <3>1. MirroredQuantity(new) = 0
      BY <1>3, <2>2, Zenon DEF MirroredQuantity
    <3>2. MirroredQuantity(receipt[g]) = rec.quantity
      BY <1>1, <1>2, <2>2, Zenon DEF MirroredQuantity
    <3>3. QED
      BY <1>1, <1>2, <1>5, <2>2, <3>1, <3>2
  <2>3. QED
    BY <2>1, <2>2
<1>7. inbound' = Put(inbound, d, inbound[d])
  BY <1>1 DEF Put, ReceiptInv, ReceiptTypes
<1> HIDE DEF new
<1>8. inbound[d].received = inbound[d].received + PostedQuantity(new, d) - PostedQuantity(receipt[g], d)
  BY <1>2, <1>4
<1>9. QED
  BY <1>1, <1>2, <1>3, <1>6, <1>7, <1>8, ReceiptKeeps

LEMMA InboundRows ==
  ASSUME ReceiptInv, NEW d \in Inbounds
  PROVE  inbound[d] \in InboundRow /\ inbound[d].received <= inbound[d].expected
BY ProgressIs DEF ReceiptInv, ReceiptTypes

\* A delivery nobody entered yet received nothing.
LEMMA NothingReceived ==
  ASSUME ReceiptInv, NEW d \in Inbounds, inbound[d].status = "None"
  PROVE  inbound[d].received = 0
<1>1. \A h \in Receipts : PostedQuantity(receipt[h], d) = 0
  BY NotMirrored DEF PostedQuantity
<1>2. receipt \in [Receipts -> ReceiptRow] /\ inbound[d].received = PostedSum(receipt, d)
  BY ProgressIs DEF ReceiptInv, ReceiptTypes
<1> DEFINE f == [h \in Receipts |-> PostedQuantity(receipt[h], d)]
<1>3. \A h \in Receipts : f[h] = 0
  BY <1>1
<1>4. PostedSum(receipt, d) = SumFunctionOnSet(f, Receipts)
  BY <1>2, ReceiptSums DEF SumOf
<1> HIDE DEF f
<1>5. SumFunctionOnSet(f, Receipts) = 0
  BY <1>3, SumZero, Finite
<1>6. QED
  BY <1>2, <1>4, <1>5

LEMMA ReceiveFromProductionKeeps ==
  ASSUME ReceiptInv, NEW g \in Receipts, NEW d \in Inbounds, NEW q \in Quantities(d),
         ReceiveFromProduction(g, d, q)
  PROVE  ReceiptInv'
<1> DEFINE rec == Prepared(g, d, q, "AVAILABLE", FALSE)
           row == [docstatus |-> 0, expected |-> q, received |-> 0, closed |-> FALSE, status |-> "Draft"]
<1>1. q \in Nat
  BY QuantitiesNat
<1>2. rec \in ReceiptRow /\ rec.inbound = d /\ rec.quantity = q /\ ~rec.mirrored
  BY <1>1 DEF Prepared, ReceiptRow, Types
<1>3. row \in InboundRow /\ row.expected = q /\ row.received = 0
  BY <1>1 DEF InboundRow
<1>4. /\ receipt[g].status = "None" /\ inbound[d].status = "None" /\ UNCHANGED returned
      /\ receipt' = Put(receipt, g, WithReceiptStatus(rec, "Posted"))
      /\ inbound' = Put(inbound, d, Received(row, q))
  BY DEF ReceiveFromProduction, Put, WithReceiptStatus
<1>5. inbound[d].received = 0
  BY <1>4, NothingReceived
<1> HIDE DEF rec, row
<1>6. rec.quantity <= row.expected - row.received
  BY <1>1, <1>2, <1>3
<1>7. QED
  BY <1>2, <1>3, <1>4, <1>5, <1>6, PostingKeeps

LEMMA ReleaseKeeps ==
  ASSUME ReceiptInv, NEW d \in Inbounds, Release(d)
  PROVE  ReceiptInv'
<1> DEFINE status == IF inbound[d].status = "Draft" THEN "Expected" ELSE inbound[d].status
           row == [inbound[d] EXCEPT !.docstatus = 1, !.status = status]
<1>1. inbound[d] \in InboundRow /\ inbound[d].received <= inbound[d].expected
  BY InboundRows
<1>2. status \in {"Expected", "Partially Received"}
  BY DEF Release
<1>3. inbound' = Put(inbound, d, row) /\ UNCHANGED <<receipt, returned>>
  BY DEF Release, Put
<1> HIDE DEF status
<1>4. /\ row \in InboundRow /\ row.received = inbound[d].received
      /\ row.expected = inbound[d].expected /\ row.status = status
  BY <1>1, <1>2 DEF InboundRow
<1> HIDE DEF row
<1>5. QED
  BY <1>1, <1>2, <1>3, <1>4, DeliveryKeeps

LEMMA CancelInboundKeeps ==
  ASSUME ReceiptInv, NEW d \in Inbounds, CancelInbound(d)
  PROVE  ReceiptInv'
<1> DEFINE row == [inbound[d] EXCEPT !.docstatus = 2, !.status = "Cancelled"]
<1>1. inbound[d] \in InboundRow /\ inbound[d].received <= inbound[d].expected
  BY InboundRows
<1>2. inbound' = Put(inbound, d, row) /\ UNCHANGED <<receipt, returned>>
  BY DEF CancelInbound, Put
<1>3. /\ row \in InboundRow /\ row.received = inbound[d].received
      /\ row.expected = inbound[d].expected /\ row.status = "Cancelled"
  BY <1>1 DEF InboundRow
<1> HIDE DEF row
<1>4. QED
  BY <1>1, <1>2, <1>3, DeliveryKeeps

LEMMA CompleteInboundShortKeeps ==
  ASSUME ReceiptInv, NEW d \in Inbounds, CompleteInboundShort(d)
  PROVE  ReceiptInv'
<1> DEFINE row == [inbound[d] EXCEPT !.status = "Completed", !.closed = TRUE,
                                     !.expected = inbound[d].received]
<1>1. inbound[d] \in InboundRow /\ inbound[d].received \in Nat
  BY InboundRows, InboundFields
<1>2. inbound' = Put(inbound, d, row) /\ UNCHANGED <<receipt, returned>>
  BY DEF CompleteInboundShort, Put
<1>3. /\ row \in InboundRow /\ row.received = inbound[d].received
      /\ row.expected = inbound[d].received /\ row.status = "Completed"
  BY <1>1 DEF InboundRow
<1> HIDE DEF row
<1>4. row.received <= row.expected
  BY <1>1, <1>3
<1>5. QED
  BY <1>1, <1>2, <1>3, <1>4, DeliveryKeeps

LEMMA CreateReturnKeeps ==
  ASSUME ReceiptInv, NEW d \in Inbounds, CreateReturn(d)
  PROVE  ReceiptInv'
<1> DEFINE returnable == Shipped - returned - PendingReturns
           row == [inbound[d] EXCEPT !.status = "Draft", !.expected = returnable]
<1>1. inbound[d] \in InboundRow /\ inbound[d].status = "None"
  BY InboundRows DEF CreateReturn
<1>2. inbound' = Put(inbound, d, row) /\ UNCHANGED <<receipt, returned>> /\ returnable > 0
  BY DEF CreateReturn, Put
<1>3. returnable \in Int
  <2> DEFINE f == [e \in Inbounds |-> Larger(inbound[e].expected - inbound[e].received, 0)]
             S == {e \in Inbounds : Origin[e] = "Return"
                     /\ inbound[e].status \notin {"None", "Cancelled", "Completed"}}
  <2>1. IsFiniteSet(S)
    BY Finite, FS_Subset
  <2>2. \A e \in S : f[e] \in Int
    BY InboundRows, InboundFields DEF Larger
  <2>3. PendingReturns = SumFunctionOnSet(f, S)
    BY DEF PendingReturns, SumOf
  <2> HIDE DEF f, S
  <2>4. PendingReturns \in Int
    BY <2>1, <2>2, <2>3, SumInt
  <2>5. Shipped \in Int /\ returned \in Int
    BY InboundAssumption DEF ReceiptInv, ReceiptTypes
  <2>6. QED
    BY <2>4, <2>5
<1> HIDE DEF returnable
<1>4. /\ row \in InboundRow /\ row.received = inbound[d].received
      /\ row.expected = returnable /\ row.status = "Draft"
  <2>1. returnable \in Nat
    BY <1>2, <1>3
  <2>2. QED
    BY <1>1, <2>1 DEF InboundRow
<1>5. inbound[d].received = 0
  BY <1>1, NothingReceived
<1> HIDE DEF row
<1>6. row.received <= row.expected
  BY <1>2, <1>3, <1>4, <1>5
<1>7. QED
  BY <1>1, <1>2, <1>4, <1>6, DeliveryKeeps

LEMMA ReceiptInvInit == Init => ReceiptInv
<1> SUFFICES ASSUME Init PROVE ReceiptInv
  OBVIOUS
<1>1. ReceiptTypes
  <2>1. \A d \in Inbounds : inbound[d] \in InboundRow
    BY InboundAssumption DEF Init, InboundRow
  <2>2. \A g \in Receipts : receipt[g] = NoReceipt /\ NoReceipt.status = "None"
    BY DEF Init, NoReceipt
  <2>3. NoReceipt \in ReceiptRow
    BY DEF NoReceipt, ReceiptRow, Types
  <2>4. returned \in Nat
    BY DEF Init
  <2>5. inbound = [d \in Inbounds |-> inbound[d]] /\ receipt = [g \in Receipts |-> receipt[g]]
    BY DEF Init
  <2>6. QED
    BY <2>1, <2>2, <2>3, <2>4, <2>5 DEF ReceiptTypes
<1>2. \A d \in Inbounds : inbound[d].received = 0 /\ inbound[d].expected \in Nat
  BY InboundAssumption DEF Init
<1>3. /\ \A g \in Receipts : \A d : PostedQuantity(receipt[g], d) = 0
      /\ \A g \in Receipts : MirroredQuantity(receipt[g]) = 0 /\ ~receipt[g].mirrored
  BY DEF Init, NoReceipt, PostedQuantity, MirroredQuantity
<1>4. receipt \in [Receipts -> ReceiptRow]
  BY <1>1 DEF ReceiptTypes
<1>5. ASSUME NEW d \in Inbounds
      PROVE  PostedSum(receipt, d) = 0
  <2> DEFINE f == [g \in Receipts |-> PostedQuantity(receipt[g], d)]
  <2>1. \A g \in Receipts : f[g] = 0
    BY <1>3
  <2>2. PostedSum(receipt, d) = SumFunctionOnSet(f, Receipts)
    BY <1>4, ReceiptSums DEF SumOf
  <2> HIDE DEF f
  <2>3. QED
    BY <2>1, <2>2, SumZero, Finite
<1>6. MirrorSum(receipt) = 0
  <2> DEFINE f == [g \in Receipts |-> MirroredQuantity(receipt[g])]
  <2>1. \A g \in Receipts : f[g] = 0
    BY <1>3
  <2>2. MirrorSum(receipt) = SumFunctionOnSet(f, Receipts)
    BY <1>4, ReceiptSums DEF SumOf
  <2> HIDE DEF f
  <2>3. QED
    BY <2>1, <2>2, SumZero, Finite
<1>7. returned = 0
  BY DEF Init
<1>8. QED
  BY <1>1, <1>2, <1>3, <1>5, <1>6, <1>7, ProgressIs DEF ReceiptInv

LEMMA ReceiptInvNext ==
  ASSUME ReceiptInv, [Next]_vars
  PROVE  ReceiptInv'
<1>1. CASE UNCHANGED vars
  BY <1>1, ReceiptStays DEF vars
<1>2. CASE Operation
  <2>1. ASSUME NEW d \in Inbounds,
               PlanCrossDock(d) \/ Release(d) \/ CancelInbound(d) \/ CompleteInboundShort(d) \/ CreateReturn(d)
        PROVE  ReceiptInv'
    <3>1. CASE PlanCrossDock(d)
      BY <3>1, ReceiptStays DEF PlanCrossDock
    <3>2. QED
      BY <2>1, <3>1, ReleaseKeeps, CancelInboundKeeps, CompleteInboundShortKeeps, CreateReturnKeeps
  <2>2. ASSUME NEW g \in Receipts, NEW d \in Inbounds, NEW q \in Quantities(d),
               \/ \E type \in Types, direct \in BOOLEAN, tasked \in BOOLEAN :
                    Receive(g, d, q, type, direct, tasked)
               \/ \E type \in Types : DraftReceipt(g, d, q, type)
               \/ ReceiveFromProduction(g, d, q)
        PROVE  ReceiptInv'
    BY <2>2, ReceiveKeeps, DraftReceiptKeeps, ReceiveFromProductionKeeps
  <2>3. ASSUME NEW g \in Receipts, SubmitReceipt(g) \/ CreatePutaway(g) \/ ReverseReceipt(g) \/ MirrorReturn(g)
        PROVE  ReceiptInv'
    <3>1. CASE CreatePutaway(g)
      BY <3>1, ReceiptStays DEF CreatePutaway
    <3>2. QED
      BY <2>3, <3>1, SubmitReceiptKeeps, ReverseReceiptKeeps, MirrorReturnKeeps
  <2>4. ASSUME NEW g \in Receipts,
               \/ CompleteBySamples(g)
               \/ \E passed \in 0..receipt[g].quantity :
                    CompleteInspection(g, passed) \/ \E follow \in BOOLEAN : Decide(g, passed, follow)
               \/ \E k \in DOMAIN inspection[g].samples, result \in {"Pass", "Fail"} : RecordSample(g, k, result)
        PROVE  ReceiptInv'
    <3>1. UNCHANGED <<inbound, receipt, returned>>
      BY <2>4 DEF CompleteBySamples, CompleteInspection, Decide, Decided, RecordSample
    <3>2. QED
      BY <3>1, ReceiptStays
  <2>5. ASSUME NEW i \in DOMAIN request, NEW direct \in BOOLEAN, CreateTasks(i, direct)
        PROVE  ReceiptInv'
    BY <2>5, ReceiptStays DEF CreateTasks
  <2>6. ASSUME NEW o \in Outbounds, Allocate(o) \/ CancelOutbound(o) \/ CompleteOutboundShort(o)
        PROVE  ReceiptInv'
    BY <2>6, ReceiptStays DEF Allocate, CancelOutbound, CompleteOutboundShort
  <2>7. QED
    BY <1>2, <2>1, <2>2, <2>3, <2>4, <2>5, <2>6, Zenon DEF Operation
<1>3. ASSUME NEW i \in DOMAIN request, NEW k \in DOMAIN request[i].tasks, ConfirmTask(i, k)
      PROVE  ReceiptInv'
  BY <1>3, ReceiptStays DEF ConfirmTask
<1>4. QED
  BY <1>1, <1>2, <1>3 DEF Next

\* The received quantity of a line is that of its posted receipts, for any
\* number of deliveries and receipts and in any order of entering, reversing,
\* cancelling, closing and returning: _validate_receipt_quantities, under the
\* lock of the delivery, never lets in more than was expected.
THEOREM ReceivedIsPosted == Spec => []ReceiptProgress
<1>1. Init => ReceiptInv
  BY ReceiptInvInit
<1>2. ReceiptInv /\ [Next]_vars => ReceiptInv'
  BY ReceiptInvNext
<1>3. ReceiptInv => ReceiptProgress
  BY DEF ReceiptInv
<1>4. QED
  BY <1>1, <1>2, <1>3, PTL DEF Spec

-----------------------------------------------------------------------------
(* Numbers in order. *)

Ascends(s) == \A i, j \in DOMAIN s : i < j => s[i] < s[j]
Orders(S) == {s \in [1..Cardinality(S) -> S] : Ascends(s)}

LEMMA GreatestOf ==
  ASSUME NEW S \in SUBSET Int, IsFiniteSet(S), S # {}
  PROVE  \E m \in S : \A x \in S : x <= m
<1> DEFINE Bad == {s \in SUBSET S : s # {} /\ ~\E m \in s : \A x \in s : x <= m}
<1> SUFFICES ASSUME Bad # {} PROVE FALSE
  OBVIOUS
<1>1. PICK s \in Bad : IsFiniteSet(s) /\ \A x \in s : s \ {x} \notin Bad
  BY LeastSubset
<1>2. PICK y \in s : TRUE
  OBVIOUS
<1>3. CASE s \ {y} = {}
  BY <1>2, <1>3
<1>4. CASE s \ {y} # {}
  <2>1. PICK m \in s \ {y} : \A x \in s \ {y} : x <= m
    BY <1>1, <1>2, <1>4
  <2>2. CASE y <= m
    BY <2>1, <2>2
  <2>3. CASE ~(y <= m)
    BY <2>1, <2>3
  <2>4. QED
    BY <2>2, <2>3
<1>5. QED
  BY <1>3, <1>4

LEMMA OrdersExist ==
  ASSUME NEW S \in SUBSET Int, IsFiniteSet(S)
  PROVE  Orders(S) # {}
<1> DEFINE Bad == {s \in SUBSET S : Orders(s) = {}}
<1> SUFFICES ASSUME Bad # {} PROVE FALSE
  OBVIOUS
<1>1. PICK s \in Bad : IsFiniteSet(s) /\ \A x \in s : s \ {x} \notin Bad
  BY LeastSubset
<1>2. s \in SUBSET Int /\ Cardinality(s) \in Nat
  BY <1>1, FS_CardinalityType
<1>3. CASE s = {}
  <2>1. Cardinality(s) = 0
    BY <1>3, FS_EmptySet
  <2>2. <<>> \in Orders(s)
    BY <2>1 DEF Orders, Ascends
  <2>3. QED
    BY <2>2
<1>4. CASE s # {}
  <2> DEFINE n == Cardinality(s)
  <2>1. PICK m \in s : \A x \in s : x <= m
    BY <1>1, <1>2, <1>4, GreatestOf
  <2>2. Cardinality(s \ {m}) = n - 1 /\ n # 0
    BY <1>1, <1>2, <2>1, <1>4, FS_RemoveElement, FS_EmptySet
  <2>3. PICK f \in Orders(s \ {m}) : TRUE
    BY <1>1, <2>1
  <2>4. f \in [1..(n - 1) -> s \ {m}] /\ Ascends(f)
    BY <2>2, <2>3 DEF Orders
  <2> DEFINE h == [i \in 1..n |-> IF i = n THEN m ELSE f[i]]
  <2> HIDE DEF n
  <2>5. n \in Nat \ {0}
    BY <1>2, <2>2 DEF n
  <2>6. \A i \in 1..n : i # n => i \in 1..(n - 1)
    BY <2>5
  <2>7. h \in [1..n -> s]
    BY <2>1, <2>4, <2>6
  <2>8. Ascends(h)
    <3> SUFFICES ASSUME NEW i \in 1..n, NEW j \in 1..n, i < j
                 PROVE  h[i] < h[j]
      BY DEF Ascends
    <3>1. i # n /\ i \in 1..(n - 1)
      BY <2>5
    <3>2. CASE j = n
      <4>1. f[i] \in s \ {m}
        BY <2>4, <3>1
      <4>2. f[i] <= m /\ f[i] # m /\ f[i] \in Int /\ m \in Int
        BY <1>2, <2>1, <4>1
      <4>3. QED
        BY <3>1, <3>2, <4>2
    <3>3. CASE j # n
      <4>1. j \in 1..(n - 1)
        BY <2>6, <3>3
      <4>2. f[i] < f[j]
        BY <2>4, <3>1, <4>1 DEF Ascends
      <4>3. QED
        BY <3>1, <3>3, <4>2
    <3>4. QED
      BY <3>2, <3>3
  <2>9. h \in Orders(s)
    BY <2>7, <2>8 DEF Orders, n
  <2>10. QED
    BY <2>9
<1>5. QED
  BY <1>3, <1>4

\* InOrder(S) lists S, each element once.
LEMMA InOrderIs ==
  ASSUME NEW S \in SUBSET Int, IsFiniteSet(S)
  PROVE  /\ InOrder(S) \in Seq(S) /\ Len(InOrder(S)) \in Nat
         /\ InOrder(S) \in [1..Len(InOrder(S)) -> S]
         /\ \A i, j \in 1..Len(InOrder(S)) : InOrder(S)[i] = InOrder(S)[j] => i = j
         /\ {InOrder(S)[i] : i \in 1..Len(InOrder(S))} = S
<1> DEFINE n == Cardinality(S)
           s == InOrder(S)
<1>1. n \in Nat
  BY FS_CardinalityType
<1>2. s \in [1..n -> S] /\ \A i, j \in 1..n : i < j => s[i] < s[j]
  <2>1. PICK f \in [1..n -> S] : \A i, j \in DOMAIN f : i < j => f[i] < f[j]
    BY OrdersExist DEF Orders, Ascends
  <2>2. /\ s \in [1..n -> S]
        /\ \A i, j \in DOMAIN s : i < j => s[i] < s[j]
    BY <2>1 DEF InOrder
  <2>3. QED
    BY <2>2
<1> HIDE DEF s, n
<1>3. s \in Seq(S) /\ Len(s) = n
  BY <1>1, <1>2
<1>4. \A i, j \in 1..n : s[i] = s[j] => i = j
  <2> SUFFICES ASSUME NEW i \in 1..n, NEW j \in 1..n, s[i] = s[j], i # j PROVE FALSE
    OBVIOUS
  <2>1. i < j \/ j < i
    BY <1>1
  <2>2. s[i] \in Int /\ s[j] \in Int
    BY <1>2
  <2>3. QED
    BY <1>2, <2>1, <2>2
<1>5. s \in Injection(1..n, S)
  BY <1>2, <1>4 DEF Injection, IsInjective
<1>6. Cardinality(1..n) = n
  BY <1>1, FS_Interval
<1>7. s \in Surjection(1..n, S)
  BY <1>5, <1>6, FS_Injection DEF n
<1>8. {s[i] : i \in 1..n} = S
  BY <1>2, <1>7 DEF Surjection
<1>9. QED
  BY <1>1, <1>2, <1>3, <1>4, <1>8 DEF s

\* A sum over S is the sum over its elements in order.
LEMMA SumInOrder ==
  ASSUME NEW S \in SUBSET Int, IsFiniteSet(S), NEW f, \A x \in S : f[x] \in Int,
         NEW h, \A i \in 1..Len(InOrder(S)) : h[i] = f[InOrder(S)[i]]
  PROVE  SumFunctionOnSet(h, 1..Len(InOrder(S))) = SumFunctionOnSet(f, S)
<1> DEFINE s == InOrder(S)
           I == 1..Len(s)
<1>1. /\ Len(s) \in Nat /\ s \in [I -> S]
      /\ \A i, j \in I : s[i] = s[j] => i = j
      /\ {s[i] : i \in I} = S
  BY InOrderIs
<1>2. IsFiniteSet(I)
  BY <1>1, FS_Interval
<1>3. \A i \in I : h[i] \in Int /\ f[s[i]] = h[i]
  BY <1>1
<1> HIDE DEF s, I
<1>4. SumFunctionOnSet(f, {s[i] : i \in I}) = SumFunctionOnSet(h, I)
  BY <1>1, <1>2, <1>3, SumRenamed
<1>5. QED
  BY <1>1, <1>4 DEF s, I

-----------------------------------------------------------------------------
(* What a sequence of requests, tasks or plan rows adds up to. *)

MovedTask(t) == IF t.status = "Confirmed" THEN t.planned ELSE 0

Weight(r, what, of) ==
  CASE what = "Moved" -> MovedTask(r)
    [] what = "Left" -> IF r.receipt = of /\ r.kind # "Internal Move" THEN MovedOf(r) ELSE 0
    [] what = "Docked" -> IF Docking(r, of) THEN r.requested ELSE 0
    [] what = "Arrived" -> IF Docking(r, of) THEN MovedOf(r) ELSE 0
    [] what = "Promised" ->
         IF r.outbound = of /\ r.status = "Planned" THEN r.planned - r.consumed ELSE 0
Parts(s, what, of) == [i \in DOMAIN s |-> Weight(s[i], what, of)]
Weighed(s, what, of) == \A i \in DOMAIN s : Weight(s[i], what, of) \in Int
TotalOf(s, what, of) == SumFunctionOnSet(Parts(s, what, of), DOMAIN s)
Joined(s, t) == s \o t

LEMMA DomainIs ==
  ASSUME NEW R, NEW s \in Seq(R)
  PROVE  /\ IsFiniteSet(DOMAIN s) /\ DOMAIN s = 1..Len(s) /\ Len(s) \in Nat
         /\ \A i \in DOMAIN s : s[i] \in R
<1>1. DOMAIN s = 1..Len(s) /\ Len(s) \in Nat /\ \A i \in DOMAIN s : s[i] \in R
  OBVIOUS
<1>2. QED
  BY <1>1, FS_Interval

LEMMA PartsAre ==
  ASSUME NEW s, NEW what, NEW of, Weighed(s, what, of)
  PROVE  \A i \in DOMAIN s : /\ Parts(s, what, of)[i] = Weight(s[i], what, of)
                             /\ Parts(s, what, of)[i] \in Int
BY DEF Parts, Weighed

LEMMA TotalInt ==
  ASSUME NEW R, NEW s \in Seq(R), NEW what, NEW of, Weighed(s, what, of)
  PROVE  TotalOf(s, what, of) \in Int
<1>1. IsFiniteSet(DOMAIN s)
  BY DomainIs
<1>2. QED
  BY <1>1, PartsAre, SumInt DEF TotalOf

LEMMA TotalSame ==
  ASSUME NEW R, NEW s \in Seq(R), NEW t, NEW what, NEW of,
         DOMAIN t = DOMAIN s,
         \A i \in DOMAIN s : Weight(t[i], what, of) = Weight(s[i], what, of)
  PROVE  TotalOf(t, what, of) = TotalOf(s, what, of)
<1>1. IsFiniteSet(DOMAIN s)
  BY DomainIs
<1>2. \A i \in DOMAIN s : Parts(t, what, of)[i] = Parts(s, what, of)[i]
  BY DEF Parts
<1>3. QED
  BY <1>1, <1>2, SumEqual DEF TotalOf

LEMMA TotalZero ==
  ASSUME NEW R, NEW s \in Seq(R), NEW what, NEW of, \A i \in DOMAIN s : Weight(s[i], what, of) = 0
  PROVE  TotalOf(s, what, of) = 0
<1>1. IsFiniteSet(DOMAIN s)
  BY DomainIs
<1>2. \A i \in DOMAIN s : Parts(s, what, of)[i] = 0
  BY DEF Parts
<1>3. QED
  BY <1>1, <1>2, SumZero DEF TotalOf

LEMMA TotalNat ==
  ASSUME NEW R, NEW s \in Seq(R), NEW what, NEW of, \A i \in DOMAIN s : Weight(s[i], what, of) \in Nat
  PROVE  TotalOf(s, what, of) \in Nat
<1>1. IsFiniteSet(DOMAIN s)
  BY DomainIs
<1>2. \A i \in DOMAIN s : Parts(s, what, of)[i] \in Nat
  BY DEF Parts
<1>3. QED
  BY <1>1, <1>2, SumNat DEF TotalOf

LEMMA TotalAtMost ==
  ASSUME NEW R, NEW s \in Seq(R), NEW what, NEW more, NEW of,
         Weighed(s, what, of), Weighed(s, more, of),
         \A i \in DOMAIN s : Weight(s[i], what, of) <= Weight(s[i], more, of)
  PROVE  TotalOf(s, what, of) <= TotalOf(s, more, of)
<1>1. IsFiniteSet(DOMAIN s)
  BY DomainIs
<1>2. \A i \in DOMAIN s : /\ Parts(s, what, of)[i] \in Int /\ Parts(s, more, of)[i] \in Int
                          /\ Parts(s, what, of)[i] <= Parts(s, more, of)[i]
  BY PartsAre
<1>3. QED
  BY <1>1, <1>2, SumAtMost DEF TotalOf

\* One entry is rewritten.
LEMMA TotalPut ==
  ASSUME NEW R, NEW s \in Seq(R), NEW k \in DOMAIN s, NEW v \in R, NEW what, NEW of,
         Weighed(s, what, of), Weight(v, what, of) \in Int
  PROVE  TotalOf(Put(s, k, v), what, of) =
           TotalOf(s, what, of) + Weight(v, what, of) - Weight(s[k], what, of)
<1> DEFINE t == Put(s, k, v)
<1>1. /\ DOMAIN t = DOMAIN s /\ t[k] = v
      /\ \A i \in DOMAIN s : i # k => t[i] = s[i]
  BY DEF Put
<1> HIDE DEF t
<1>2. IsFiniteSet(DOMAIN s)
  BY DomainIs
<1> DEFINE f == Parts(s, what, of)
           h == Parts(t, what, of)
<1>3. /\ \A i \in DOMAIN s : f[i] \in Int
      /\ h[k] = Weight(v, what, of) /\ h[k] \in Int /\ f[k] = Weight(s[k], what, of)
      /\ \A i \in DOMAIN s \ {k} : h[i] = f[i]
  BY <1>1 DEF Parts, Weighed
<1>4. TotalOf(t, what, of) = SumFunctionOnSet(h, DOMAIN s) /\ TotalOf(s, what, of) = SumFunctionOnSet(f, DOMAIN s)
  BY <1>1 DEF TotalOf
<1> HIDE DEF f, h
<1>5. SumFunctionOnSet(h, DOMAIN s) = SumFunctionOnSet(f, DOMAIN s) + (h[k] - f[k])
  BY <1>2, <1>3, SumChange
<1>6. SumFunctionOnSet(f, DOMAIN s) \in Int
  BY <1>2, <1>3, SumInt
<1>7. QED
  BY <1>3, <1>4, <1>5, <1>6 DEF t

\* A sum over part of a sequence.
LEMMA TotalPart ==
  ASSUME NEW R, NEW s \in Seq(R), NEW what, NEW of, Weighed(s, what, of),
         NEW f, NEW T \in SUBSET DOMAIN s,
         \A i \in T : Weight(s[i], what, of) = f[i],
         \A i \in DOMAIN s \ T : Weight(s[i], what, of) = 0
  PROVE  SumOf(f, T) = TotalOf(s, what, of)
<1> DEFINE g == Parts(s, what, of)
           D == DOMAIN s
<1>1. IsFiniteSet(D) /\ \A i \in D : g[i] \in Int
  BY DomainIs, PartsAre
<1>2. T \in SUBSET D /\ (\A i \in T : g[i] = f[i]) /\ \A i \in D \ T : g[i] = 0
  BY DEF Parts
<1>3. TotalOf(s, what, of) = SumOf(g, D)
  BY DEF TotalOf, SumOf
<1> HIDE DEF g, D
<1>4. SumOf(f, T) = SumOf(g, D)
  BY <1>1, <1>2, SumOfPart
<1>5. QED
  BY <1>3, <1>4

\* Entries that stand for the elements of a set of numbers, in order.
LEMMA TotalListed ==
  ASSUME NEW s, NEW what, NEW of, NEW S \in SUBSET Int, IsFiniteSet(S),
         DOMAIN s = 1..Len(InOrder(S)), NEW f, \A x \in S : f[x] \in Int,
         \A k \in DOMAIN s : Weight(s[k], what, of) = f[InOrder(S)[k]]
  PROVE  TotalOf(s, what, of) = SumFunctionOnSet(f, S)
<1> DEFINE h == Parts(s, what, of)
<1>1. \A k \in 1..Len(InOrder(S)) : h[k] = f[InOrder(S)[k]]
  BY DEF Parts
<1>2. TotalOf(s, what, of) = SumFunctionOnSet(h, 1..Len(InOrder(S)))
  BY DEF TotalOf
<1> HIDE DEF h
<1>3. SumFunctionOnSet(h, 1..Len(InOrder(S))) = SumFunctionOnSet(f, S)
  BY <1>1, SumInOrder
<1>4. QED
  BY <1>2, <1>3

LEMMA JoinedIs ==
  ASSUME NEW R, NEW s \in Seq(R), NEW t \in Seq(R)
  PROVE  /\ Joined(s, t) \in Seq(R) /\ Len(Joined(s, t)) = Len(s) + Len(t)
         /\ DOMAIN Joined(s, t) = 1..(Len(s) + Len(t))
         /\ \A i \in 1..Len(s) : Joined(s, t)[i] = s[i]
         /\ \A i \in 1..Len(t) : Joined(s, t)[Len(s) + i] = t[i]
         /\ \A i \in DOMAIN Joined(s, t) : i > Len(s) =>
              i - Len(s) \in DOMAIN t /\ Joined(s, t)[i] = t[i - Len(s)]
         /\ \A i \in DOMAIN Joined(s, t) : i <= Len(s) => i \in DOMAIN s /\ Joined(s, t)[i] = s[i]
BY DEF Joined

LEMMA TotalJoined ==
  ASSUME NEW R, NEW s \in Seq(R), NEW t \in Seq(R), NEW what, NEW of,
         Weighed(s, what, of), Weighed(t, what, of)
  PROVE  /\ Weighed(Joined(s, t), what, of)
         /\ TotalOf(Joined(s, t), what, of) = TotalOf(s, what, of) + TotalOf(t, what, of)
<1> DEFINE u == Joined(s, t)
           m == Len(s)
           n == Len(t)
           A == 1..m
           B == (m + 1)..(m + n)
           C == 1..n
           name == [i \in C |-> m + i]
           f == Parts(u, what, of)
           g == Parts(s, what, of)
           h == Parts(t, what, of)
<1>1. m \in Nat /\ n \in Nat /\ DOMAIN s = A /\ DOMAIN t = C /\ IsFiniteSet(A) /\ IsFiniteSet(C)
  BY DomainIs
<1>2. DOMAIN u = A \cup B /\ A \cap B = {} /\ IsFiniteSet(B)
  <2>1. A \cup B = 1..(m + n) /\ A \cap B = {} /\ m + 1 \in Int /\ m + n \in Int
    BY <1>1
  <2>2. DOMAIN u = 1..(m + n)
    BY JoinedIs
  <2>3. QED
    BY <2>1, <2>2, FS_Interval
<1>3. \A i \in A : u[i] = s[i]
  BY JoinedIs
<1>4. \A i \in C : u[m + i] = t[i] /\ m + i \in B /\ name[i] = m + i
  <2>1. \A i \in C : u[m + i] = t[i]
    BY JoinedIs
  <2>2. QED
    BY <1>1, <2>1
<1>5. \A k \in B : k - m \in C /\ name[k - m] = k
  BY <1>1
<1>6. \A i, j \in C : name[i] = name[j] => i = j
  BY <1>1
<1> HIDE DEF u, m, n, A, B, C, name
<1>7. {name[i] : i \in C} = B
  BY <1>4, <1>5
<1>8. /\ \A i \in A : f[i] = g[i] /\ g[i] \in Int
      /\ \A i \in C : f[name[i]] = h[i] /\ h[i] \in Int
  BY <1>1, <1>2, <1>3, <1>4 DEF Parts, Weighed
<1>9. \A i \in A \cup B : f[i] \in Int
  BY <1>7, <1>8
<1>10. Weighed(u, what, of)
  BY <1>2, <1>9 DEF Parts, Weighed
<1>11. /\ TotalOf(u, what, of) = SumFunctionOnSet(f, A \cup B)
       /\ TotalOf(s, what, of) = SumFunctionOnSet(g, A)
       /\ TotalOf(t, what, of) = SumFunctionOnSet(h, C)
  BY <1>1, <1>2 DEF TotalOf
<1> HIDE DEF f, g, h
<1>12. SumFunctionOnSet(f, A \cup B) = SumFunctionOnSet(f, A) + SumFunctionOnSet(f, B)
  BY <1>1, <1>2, <1>9, SumDisjoint
<1>13. SumFunctionOnSet(f, A) = SumFunctionOnSet(g, A)
  BY <1>1, <1>8, SumEqual
<1>14. SumFunctionOnSet(f, {name[i] : i \in C}) = SumFunctionOnSet(h, C)
  <2>1. \A i \in C : h[i] \in Int /\ f[name[i]] = h[i]
    BY <1>8
  <2>2. QED
    BY <1>1, <1>6, <2>1, SumRenamed
<1>15. QED
  BY <1>7, <1>10, <1>11, <1>12, <1>13, <1>14 DEF u

-----------------------------------------------------------------------------
(* Requests and their tasks. *)

Measures == {"Left", "Docked", "Arrived"}

LEMMA RequestFields ==
  ASSUME NEW r \in RequestRow
  PROVE  /\ r.kind \in Kinds /\ r.receipt \in Receipts /\ r.type \in Types /\ r.source \in Places
         /\ r.outbound \in Outbounds \cup {Nothing}
         /\ r.requested \in Nat /\ r.requested > 0 /\ r.tasks \in Seq(TaskRow)
         /\ \A k \in DOMAIN r.tasks : r.tasks[k] \in TaskRow
         /\ r.status \in {"Open", "Fully Tasked", "In Process", "Completed", "Cancelled"}
<1>1. /\ r.kind \in Kinds /\ r.receipt \in Receipts /\ r.type \in Types /\ r.source \in Places
      /\ r.outbound \in Outbounds \cup {Nothing}
      /\ r.requested \in Nat \ {0} /\ r.tasks \in Seq(TaskRow)
      /\ r.status \in {"Open", "Fully Tasked", "In Process", "Completed", "Cancelled"}
  BY DEF RequestRow
<1>2. \A k \in DOMAIN r.tasks : r.tasks[k] \in TaskRow
  BY <1>1, DomainIs
<1>3. r.requested \in Nat /\ r.requested > 0
  <2>1. r.requested \in Nat \ {0}
    BY <1>1
  <2> HIDE <1>1
  <2>2. QED
    BY <2>1
<1>4. QED
  BY <1>1, <1>2, <1>3

LEMMA TaskWeight ==
  ASSUME NEW t, NEW of
  PROVE  Weight(t, "Moved", of) = MovedTask(t)
BY DEF Weight

LEMMA TasksWeighed ==
  ASSUME NEW s \in Seq(TaskRow), NEW of
  PROVE  Weighed(s, "Moved", of)
<1>1. \A i \in DOMAIN s : s[i] \in TaskRow
  OBVIOUS
<1>2. \A t \in TaskRow : MovedTask(t) \in Int
  BY DEF MovedTask, TaskRow
<1>3. QED
  BY <1>1, <1>2, TaskWeight DEF Weighed

LEMMA MovedIs ==
  ASSUME NEW r, r.tasks \in Seq(TaskRow)
  PROVE  MovedOf(r) = TotalOf(r.tasks, "Moved", Nothing) /\ MovedOf(r) \in Int
<1> DEFINE s == r.tasks
           f == [k \in DOMAIN r.tasks |-> r.tasks[k].planned]
           T == {k \in DOMAIN r.tasks : r.tasks[k].status = "Confirmed"}
<1>1. MovedOf(r) = SumOf(f, T) /\ T \in SUBSET DOMAIN s
  BY DEF MovedOf
<1>2. /\ \A i \in T : Weight(s[i], "Moved", Nothing) = f[i]
      /\ \A i \in DOMAIN s \ T : Weight(s[i], "Moved", Nothing) = 0
  BY TaskWeight DEF MovedTask
<1>3. Weighed(s, "Moved", Nothing)
  BY TasksWeighed
<1>4. s \in Seq(TaskRow)
  OBVIOUS
<1> HIDE DEF f, T, s
<1>5. SumOf(f, T) = TotalOf(s, "Moved", Nothing)
  BY <1>1, <1>2, <1>3, <1>4, TotalPart
<1>6. TotalOf(s, "Moved", Nothing) \in Int
  BY <1>3, <1>4, TotalInt
<1>7. QED
  BY <1>1, <1>5, <1>6 DEF s

LEMMA NothingMoved ==
  ASSUME NEW r, r.tasks \in Seq(TaskRow), \A k \in DOMAIN r.tasks : r.tasks[k].status # "Confirmed"
  PROVE  MovedOf(r) = 0
<1>1. \A k \in DOMAIN r.tasks : Weight(r.tasks[k], "Moved", Nothing) = 0
  BY TaskWeight DEF MovedTask
<1>2. TotalOf(r.tasks, "Moved", Nothing) = 0
  BY <1>1, TotalZero
<1>3. QED
  BY <1>2, MovedIs

\* A cross-dock moves no more than was requested.
LEMMA MovedInBounds ==
  ASSUME NEW r \in RequestRow, Proper(r), r.kind # "Putaway"
  PROVE  MovedOf(r) \in 0..r.requested
<1>1. /\ r.tasks \in Seq(TaskRow) /\ r.requested \in Nat
      /\ DOMAIN r.tasks \subseteq {1} /\ \A k \in DOMAIN r.tasks : r.tasks[k].planned = r.requested
  BY RequestFields DEF Proper
<1> DEFINE s == r.tasks
           f == Parts(s, "Moved", Nothing)
<1>2. \A k \in DOMAIN s : f[k] \in {0, r.requested}
  BY <1>1, TaskWeight DEF Parts, MovedTask
<1>3. MovedOf(r) = SumFunctionOnSet(f, DOMAIN s)
  BY <1>1, MovedIs DEF TotalOf
<1> HIDE DEF f, s
<1>4. CASE DOMAIN s = {}
  BY <1>1, <1>3, <1>4, SumEmpty
<1>5. CASE DOMAIN s # {}
  <2>1. DOMAIN s = {1} /\ 1 \in DOMAIN s
    BY <1>1, <1>5 DEF s
  <2>0. IsFiniteSet({1})
    BY FS_Singleton
  <2>2. IsFiniteSet(DOMAIN s) /\ \A k \in DOMAIN s : f[k] \in Int
    BY <1>1, <1>2, <2>0, <2>1
  <2>3. SumFunctionOnSet(f, DOMAIN s) = f[1] + SumFunctionOnSet(f, DOMAIN s \ {1})
    BY <2>1, <2>2, SumRemove
  <2>4. DOMAIN s \ {1} = {}
    BY <2>1
  <2>5. SumFunctionOnSet(f, DOMAIN s) = f[1]
    BY <2>1, <2>2, <2>3, <2>4, SumEmpty
  <2>6. QED
    BY <1>1, <1>2, <1>3, <2>1, <2>5
<1>6. QED
  BY <1>4, <1>5

LEMMA WeightsAre ==
  ASSUME NEW r, NEW of
  PROVE  /\ Weight(r, "Left", of) = IF r.receipt = of /\ r.kind # "Internal Move" THEN MovedOf(r) ELSE 0
         /\ Weight(r, "Docked", of) = IF Docking(r, of) THEN r.requested ELSE 0
         /\ Weight(r, "Arrived", of) = IF Docking(r, of) THEN MovedOf(r) ELSE 0
         /\ Weight(r, "Left", of) \in {0, MovedOf(r)} /\ Weight(r, "Docked", of) \in {0, r.requested}
         /\ Weight(r, "Arrived", of) \in {0, MovedOf(r)}
BY DEF Weight

LEMMA RequestsWeighed ==
  ASSUME NEW s \in Seq(RequestRow), NEW what \in Measures, NEW of
  PROVE  Weighed(s, what, of)
<1>1. ASSUME NEW r \in RequestRow
      PROVE  Weight(r, what, of) \in Int
  <2>0. r.tasks \in Seq(TaskRow) /\ r.requested \in Nat
    BY RequestFields, Zenon
  <2>1. r.tasks \in Seq(TaskRow) /\ r.requested \in Int
    BY <2>0
  <2>2. MovedOf(r) \in Int
    BY <2>1, MovedIs
  <2>3. what \in {"Left", "Docked", "Arrived"}
    BY DEF Measures
  <2>4. /\ Weight(r, "Left", of) \in Int /\ Weight(r, "Docked", of) \in Int
        /\ Weight(r, "Arrived", of) \in Int
    <3>1. /\ Weight(r, "Left", of) \in {0, MovedOf(r)}
          /\ Weight(r, "Docked", of) \in {0, r.requested}
          /\ Weight(r, "Arrived", of) \in {0, MovedOf(r)}
      BY WeightsAre, Zenon
    <3>2. QED
      BY <2>1, <2>2, <3>1
  <2>5. QED
    BY <2>3, <2>4
<1>2. \A i \in DOMAIN s : s[i] \in RequestRow
  BY DomainIs
<1>3. QED
  BY <1>1, <1>2 DEF Weighed

\* Requests that are told apart by no measure.
Similar(r, t) ==
  /\ t \in RequestRow /\ Proper(t)
  /\ t.kind = r.kind /\ t.outbound = r.outbound
  /\ Ended(r) => Ended(t)
  /\ \A what \in Measures : \A of : Weight(t, what, of) = Weight(r, what, of)

LEMMA ChunksAre ==
  ASSUME NEW q \in Nat, NEW full \in Nat
  PROVE  /\ Chunks(q, full) \in Seq(Int)
         /\ full = 0 => Chunks(q, full) = <<q>>
<1>1. CASE full = 0 \/ q <= full
  BY <1>1 DEF Chunks
<1>2. CASE ~(full = 0 \/ q <= full)
  <2> DEFINE n == (q + full - 1) \div full
  <2>1. q + full - 1 \in Nat /\ full \in Nat \ {0}
    BY <1>2
  <2>2. n \in Nat
    <3>1. ASSUME NEW x \in Nat, NEW y \in Nat \ {0}
          PROVE  x \div y \in Nat
      OBVIOUS
    <3>2. QED
      BY <2>1, <3>1
  <2> HIDE DEF n
  <2>3. \A i \in 1..n : Smaller(full, q - (i - 1) * full) \in Int
    <3> TAKE i \in 1..n
    <3>1. i - 1 \in Int /\ (i - 1) * full \in Int
      BY <2>2
    <3>2. QED
      BY <3>1 DEF Smaller
  <2>4. Chunks(q, full) = [i \in 1..n |-> Smaller(full, q - (i - 1) * full)]
    BY <1>2 DEF Chunks, n
  <2>5. Chunks(q, full) \in Seq(Int)
    BY <2>2, <2>3, <2>4
  <2>6. QED
    BY <1>2, <2>5
<1>3. QED
  BY <1>1, <1>2

TasksOf(r, direct) ==
  LET c == Chunks(r.requested, IF r.kind = "Putaway" /\ ~direct THEN FullPallet ELSE 0) IN
  [i \in DOMAIN c |-> [planned |-> c[i], status |-> "Open"]]

LEMMA TasksAre ==
  ASSUME NEW r \in RequestRow, NEW direct \in BOOLEAN
  PROVE  /\ TasksOf(r, direct) \in Seq(TaskRow)
         /\ \A k \in DOMAIN TasksOf(r, direct) : TasksOf(r, direct)[k].status = "Open"
         /\ r.kind # "Putaway" =>
              /\ DOMAIN TasksOf(r, direct) \subseteq {1}
              /\ \A k \in DOMAIN TasksOf(r, direct) : TasksOf(r, direct)[k].planned = r.requested
<1> DEFINE full == IF r.kind = "Putaway" /\ ~direct THEN FullPallet ELSE 0
           c == Chunks(r.requested, full)
           t == TasksOf(r, direct)
<1>1. full \in Nat /\ (r.kind # "Putaway" => full = 0)
  BY InboundAssumption
<1>2. r.requested \in Nat
  BY RequestFields
<1>3. t = [i \in DOMAIN c |-> [planned |-> c[i], status |-> "Open"]]
  BY DEF TasksOf
<1> HIDE DEF full
<1>4. c \in Seq(Int) /\ (full = 0 => c = <<r.requested>>)
  BY <1>1, <1>2, ChunksAre
<1> HIDE DEF c, t
<1>5. DOMAIN c = 1..Len(c) /\ Len(c) \in Nat /\ \A i \in DOMAIN c : c[i] \in Int
  BY <1>4, DomainIs
<1>6. DOMAIN t = 1..Len(c) /\ \A i \in DOMAIN t : t[i].status = "Open" /\ t[i].planned = c[i] /\ t[i] \in TaskRow
  BY <1>3, <1>5 DEF TaskRow
<1>7. t \in Seq(TaskRow)
  <2>1. t = [i \in 1..Len(c) |-> t[i]]
    BY <1>3, <1>5
  <2>2. QED
    BY <1>5, <1>6, <2>1
<1>8. r.kind # "Putaway" => DOMAIN c = {1} /\ c[1] = r.requested
  BY <1>1, <1>4
<1>9. QED
  BY <1>5, <1>6, <1>7, <1>8 DEF t

LEMMA TaskedIs ==
  ASSUME NEW r \in RequestRow, Proper(r), r.status = "Open", NEW direct \in BOOLEAN
  PROVE  Similar(r, Tasked(r, direct))
<1> DEFINE t == Tasked(r, direct)
           tasks == TasksOf(r, direct)
<1>1. t = [r EXCEPT !.status = "Fully Tasked", !.tasks = tasks]
  BY DEF Tasked, TasksOf
<1>2. /\ tasks \in Seq(TaskRow) /\ \A k \in DOMAIN tasks : tasks[k].status = "Open"
      /\ r.kind # "Putaway" => DOMAIN tasks \subseteq {1} /\ \A k \in DOMAIN tasks : tasks[k].planned = r.requested
  BY TasksAre
<1> HIDE DEF tasks
<1>3. /\ t \in RequestRow /\ t.status = "Fully Tasked" /\ t.tasks = tasks
      /\ t.kind = r.kind /\ t.outbound = r.outbound /\ t.receipt = r.receipt
      /\ t.requested = r.requested /\ t.source = r.source
  BY <1>1, <1>2 DEF RequestRow
<1>4. r.tasks = <<>> /\ ~Ended(r)
  BY DEF Proper, Ended
<1> HIDE DEF t
<1>5. Proper(t)
  BY <1>2, <1>3 DEF Proper
<1>6. MovedOf(r) = 0 /\ MovedOf(t) = 0
  <2>1. r.tasks \in Seq(TaskRow) /\ t.tasks \in Seq(TaskRow)
    BY <1>3, RequestFields
  <2>2. /\ \A k \in DOMAIN r.tasks : r.tasks[k].status # "Confirmed"
        /\ \A k \in DOMAIN t.tasks : t.tasks[k].status # "Confirmed"
    <3>1. DOMAIN r.tasks = {}
      BY <1>4
    <3>2. QED
      BY <1>2, <1>3, <3>1
  <2>3. QED
    BY <2>1, <2>2, NothingMoved
<1>7. \A of : Docking(t, of) <=> Docking(r, of)
  BY <1>3 DEF Docking
<1>8. \A what \in Measures : \A of : Weight(t, what, of) = Weight(r, what, of)
  BY <1>3, <1>6, <1>7 DEF Weight, Measures
<1>9. QED
  BY <1>3, <1>4, <1>5, <1>8 DEF Similar, t

Alike(s, t) ==
  t \in Seq(RequestRow) /\ DOMAIN t = DOMAIN s /\ \A i \in DOMAIN s : Similar(s[i], t[i])

LEMMA SimilarToItself ==
  ASSUME NEW r \in RequestRow, Proper(r)
  PROVE  Similar(r, r)
BY DEF Similar

LEMMA AlikeTotals ==
  ASSUME NEW s \in Seq(RequestRow), NEW t, Alike(s, t)
  PROVE  \A what \in Measures : \A of : TotalOf(t, what, of) = TotalOf(s, what, of)
<1> SUFFICES ASSUME NEW what \in Measures, NEW of PROVE TotalOf(t, what, of) = TotalOf(s, what, of)
  OBVIOUS
<1>1. DOMAIN t = DOMAIN s /\ \A i \in DOMAIN s : Weight(t[i], what, of) = Weight(s[i], what, of)
  BY DEF Alike, Similar
<1>2. QED
  BY <1>1, TotalSame

LEMMA PlannedAlike ==
  ASSUME NEW all \in Seq(RequestRow), \A i \in DOMAIN all : Proper(all[i]),
         NEW first \in Nat, \A i \in DOMAIN all : i >= first => all[i].status = "Open",
         NEW failed, NEW direct \in BOOLEAN
  PROVE  Alike(all, Planned(all, first, failed, direct))
<1> DEFINE out == Planned(all, first, failed, direct)
<1>1. /\ DOMAIN all = 1..Len(all) /\ Len(all) \in Nat
      /\ \A i \in DOMAIN all : all[i] \in RequestRow
  BY DomainIs
<1>2. /\ out = [i \in DOMAIN all |-> out[i]]
      /\ \A i \in DOMAIN all : out[i] = IF i >= first /\ i \notin failed THEN Tasked(all[i], direct) ELSE all[i]
  BY DEF Planned
<1> HIDE DEF out
<1>3. ASSUME NEW i \in DOMAIN all
      PROVE  Similar(all[i], out[i])
  <2>1. Similar(all[i], all[i])
    BY <1>1, SimilarToItself
  <2>2. CASE i >= first /\ i \notin failed
    <3>1. Similar(all[i], Tasked(all[i], direct))
      BY <1>1, <2>2, TaskedIs
    <3>2. QED
      BY <1>2, <2>2, <3>1
  <2>3. CASE ~(i >= first /\ i \notin failed)
    BY <1>2, <2>1, <2>3
  <2>4. QED
    BY <2>2, <2>3
<1>4. \A i \in DOMAIN all : out[i] \in RequestRow
  BY <1>3 DEF Similar
<1>5. out \in Seq(RequestRow) /\ DOMAIN out = DOMAIN all
  BY <1>1, <1>2, <1>4
<1>6. QED
  BY <1>3, <1>5 DEF Alike, out

-----------------------------------------------------------------------------
(* The sums of the properties, over whole sequences. *)

LEMMA LeftIs ==
  ASSUME request \in Seq(RequestRow), NEW g
  PROVE  LeftDock(g) = TotalOf(request, "Left", g)
<1> DEFINE f == [i \in DOMAIN request |-> MovedOf(request[i])]
           T == {i \in DOMAIN request : request[i].receipt = g /\ request[i].kind # "Internal Move"}
<1>1. LeftDock(g) = SumOf(f, T) /\ T \in SUBSET DOMAIN request
  BY DEF LeftDock
<1>2. /\ \A i \in T : Weight(request[i], "Left", g) = f[i]
      /\ \A i \in DOMAIN request \ T : Weight(request[i], "Left", g) = 0
  BY WeightsAre
<1>3. Weighed(request, "Left", g)
  BY RequestsWeighed DEF Measures
<1> HIDE DEF f, T
<1>4. QED
  BY <1>1, <1>2, <1>3, TotalPart

LEMMA DockedIs ==
  ASSUME NEW s \in Seq(RequestRow), NEW o
  PROVE  CrossDocked(s, o) = TotalOf(s, "Docked", o)
<1> DEFINE f == [i \in DOMAIN s |-> s[i].requested]
           T == {i \in DOMAIN s : s[i].kind = "Cross Dock" /\ s[i].outbound = o /\ s[i].status # "Cancelled"}
<1>1. CrossDocked(s, o) = SumOf(f, T) /\ T \in SUBSET DOMAIN s
  BY DEF CrossDocked
<1>2. /\ \A i \in T : Weight(s[i], "Docked", o) = f[i]
      /\ \A i \in DOMAIN s \ T : Weight(s[i], "Docked", o) = 0
  BY WeightsAre DEF Docking
<1>3. Weighed(s, "Docked", o)
  BY RequestsWeighed DEF Measures
<1> HIDE DEF f, T
<1>4. QED
  BY <1>1, <1>2, <1>3, TotalPart

LEMMA ArrivedIs ==
  ASSUME NEW s \in Seq(RequestRow), NEW o
  PROVE  Arrived(s, o) = TotalOf(s, "Arrived", o)
<1> DEFINE f == [i \in DOMAIN s |-> MovedOf(s[i])]
           T == {i \in DOMAIN s : Docking(s[i], o)}
<1>1. Arrived(s, o) = SumOf(f, T) /\ T \in SUBSET DOMAIN s
  BY DEF Arrived
<1>2. /\ \A i \in T : Weight(s[i], "Arrived", o) = f[i]
      /\ \A i \in DOMAIN s \ T : Weight(s[i], "Arrived", o) = 0
  BY WeightsAre
<1>3. Weighed(s, "Arrived", o)
  BY RequestsWeighed DEF Measures
<1> HIDE DEF f, T
<1>4. QED
  BY <1>1, <1>2, <1>3, TotalPart

LEMMA PlanFields ==
  ASSUME NEW r \in PlanRow
  PROVE  /\ r.inbound \in Inbounds /\ r.outbound \in Outbounds /\ r.planned \in Nat /\ r.consumed \in Nat
         /\ r.status \in {"Planned", "Done", "Cancelled"}
BY DEF PlanRow

LEMMA PromisedWeight ==
  ASSUME NEW r, NEW of
  PROVE  Weight(r, "Promised", of) =
           IF r.outbound = of /\ r.status = "Planned" THEN r.planned - r.consumed ELSE 0
BY DEF Weight

LEMMA PlansWeighed ==
  ASSUME NEW s \in Seq(PlanRow), NEW of
  PROVE  Weighed(s, "Promised", of)
<1>1. ASSUME NEW r \in PlanRow
      PROVE  Weight(r, "Promised", of) \in Int
  <2>1. r.planned \in Int /\ r.consumed \in Int
    BY PlanFields
  <2>2. QED
    BY <2>1, PromisedWeight
<1>2. QED
  BY <1>1, DomainIs DEF Weighed

LEMMA PromisedIs ==
  ASSUME plan \in Seq(PlanRow), NEW o
  PROVE  SumOf([i \in DOMAIN plan |-> OpenPlan(i)], {i \in DOMAIN plan : plan[i].outbound = o})
           = TotalOf(plan, "Promised", o)
<1> DEFINE f == [i \in DOMAIN plan |-> OpenPlan(i)]
           T == {i \in DOMAIN plan : plan[i].outbound = o}
<1>1. T \in SUBSET DOMAIN plan
  OBVIOUS
<1>2. /\ \A i \in T : Weight(plan[i], "Promised", o) = f[i]
      /\ \A i \in DOMAIN plan \ T : Weight(plan[i], "Promised", o) = 0
  BY PromisedWeight DEF OpenPlan
<1>3. Weighed(plan, "Promised", o)
  BY PlansWeighed
<1> HIDE DEF f, T
<1>4. SumOf(f, T) = TotalOf(plan, "Promised", o)
  BY <1>1, <1>2, <1>3, TotalPart
<1>5. QED
  BY <1>4 DEF f, T

-----------------------------------------------------------------------------
(* What a receipt takes of the plan and of the open demand. *)

LEMMA SharesAre ==
  ASSUME NEW available, IsFiniteSet(DOMAIN available),
         \A i \in DOMAIN available : available[i] \in Nat, NEW q \in Int
  PROVE  /\ DOMAIN Shares(available, q) = DOMAIN available
         /\ \A i \in DOMAIN available : Shares(available, q)[i] \in 0..available[i]
<1> SUFFICES ASSUME NEW i \in DOMAIN available
             PROVE  Shares(available, q)[i] \in 0..available[i]
  BY DEF Shares
<1> DEFINE S == {j \in DOMAIN available : j < i}
           rest == Larger(q - SumFunctionOnSet(available, S), 0)
<1>1. Shares(available, q)[i] = Smaller(available[i], rest)
  BY DEF Shares, SumOf
<1>2. IsFiniteSet(S) /\ \A j \in S : available[j] \in Int
  <2>1. S \in SUBSET DOMAIN available
    OBVIOUS
  <2>2. IsFiniteSet(S)
    BY <2>1, FS_Subset
  <2>3. QED
    BY <2>1, <2>2
<1> HIDE DEF S
<1>3. SumFunctionOnSet(available, S) \in Int
  BY <1>2, SumInt
<1>4. rest \in Nat
  BY <1>3 DEF Larger
<1> HIDE DEF rest
<1>5. available[i] \in Nat
  OBVIOUS
<1>6. QED
  BY <1>1, <1>4, <1>5 DEF Smaller

LEMMA PlanRows ==
  ASSUME CrossTypes
  PROVE  /\ IsFiniteSet(DOMAIN plan) /\ DOMAIN plan = 1..Len(plan) /\ Len(plan) \in Nat
         /\ \A i \in DOMAIN plan : plan[i] \in PlanRow /\ OpenPlan(i) \in Nat
         /\ \A i \in DOMAIN plan : OpenPlan(i) > 0 => plan[i].status = "Planned"
<1>1. plan \in Seq(PlanRow) /\ \A i \in DOMAIN plan : plan[i].consumed <= plan[i].planned
  BY DEF CrossTypes
<1>2. IsFiniteSet(DOMAIN plan) /\ DOMAIN plan = 1..Len(plan) /\ Len(plan) \in Nat
      /\ \A i \in DOMAIN plan : plan[i] \in PlanRow
  BY <1>1, DomainIs
<1>3. \A i \in DOMAIN plan : plan[i].planned \in Nat /\ plan[i].consumed \in Nat
  BY <1>2, PlanFields
<1>4. \A i \in DOMAIN plan : OpenPlan(i) \in Nat /\ (OpenPlan(i) > 0 => plan[i].status = "Planned")
  BY <1>1, <1>3 DEF OpenPlan
<1>5. QED
  BY <1>2, <1>4

LEMMA OutboundFields ==
  ASSUME NEW r \in OutboundRow
  PROVE  /\ r.requested \in Nat /\ r.allocated \in Nat /\ r.picked \in Nat /\ r.fromStock \in Nat
         /\ r.docstatus \in {1, 2} /\ r.status \in {"Open", "Picked", "Completed", "Cancelled"}
BY DEF OutboundRow

LEMMA DemandIs ==
  ASSUME CrossTypes, NEW type, NEW q \in Int
  PROVE  /\ DOMAIN FindDemand(type, q) = Outbounds
         /\ \A o \in Outbounds : FindDemand(type, q)[o] \in Nat
         /\ \A o \in Outbounds : FindDemand(type, q)[o] > 0 =>
              /\ outbound[o].docstatus = 1
              /\ outbound[o].allocated + FindDemand(type, q)[o] <= outbound[o].requested
<1> DEFINE available == [o \in Outbounds |-> Outstanding(o, type)]
           taken == FindDemand(type, q)
<1>1. \A o \in Outbounds : /\ outbound[o].requested \in Nat /\ outbound[o].allocated \in Nat
  BY OutboundFields DEF CrossTypes
<1>2. \A o \in Outbounds : /\ available[o] \in Nat
                           /\ available[o] > 0 => /\ outbound[o].docstatus = 1
                                                  /\ outbound[o].allocated + available[o] <= outbound[o].requested
  BY <1>1 DEF Outstanding, Larger
<1>3. DOMAIN available = Outbounds /\ taken = Shares(available, q) /\ IsFiniteSet(DOMAIN available)
  BY Finite DEF FindDemand
<1> HIDE DEF available, taken
<1>4. DOMAIN taken = Outbounds /\ \A o \in Outbounds : taken[o] \in 0..available[o]
  BY <1>2, <1>3, SharesAre
<1>5. \A o \in Outbounds : taken[o] \in Nat /\ (taken[o] > 0 => available[o] > 0 /\ taken[o] <= available[o])
  BY <1>2, <1>4
<1>6. QED
  BY <1>1, <1>2, <1>4, <1>5 DEF taken

LEMMA FromPlanIs ==
  ASSUME CrossTypes, NEW rec \in ReceiptRow
  PROVE  /\ DOMAIN FromPlan(rec) = DOMAIN plan
         /\ \A i \in DOMAIN plan : FromPlan(rec)[i] \in Nat /\ FromPlan(rec)[i] <= OpenPlan(i)
         /\ Unplanned(rec) \in Int
<1> DEFINE available == [i \in DOMAIN plan |-> IF plan[i].inbound = rec.inbound THEN OpenPlan(i) ELSE 0]
           taken == FromPlan(rec)
<1>1. rec.quantity \in Int
  BY ReceiptFields
<1>2. IsFiniteSet(DOMAIN plan) /\ \A i \in DOMAIN plan : OpenPlan(i) \in Nat
  BY PlanRows
<1>3. /\ DOMAIN available = DOMAIN plan
      /\ \A i \in DOMAIN available : available[i] \in Nat /\ available[i] <= OpenPlan(i)
  BY <1>2
<1>4. taken = IF rec.direct THEN [i \in DOMAIN plan |-> 0] ELSE Shares(available, rec.quantity)
  BY DEF FromPlan, PlannedMatches
<1> HIDE DEF available
<1>5. /\ DOMAIN Shares(available, rec.quantity) = DOMAIN plan
      /\ \A i \in DOMAIN plan : Shares(available, rec.quantity)[i] \in 0..available[i]
  BY <1>1, <1>2, <1>3, SharesAre
<1>6. DOMAIN taken = DOMAIN plan /\ \A i \in DOMAIN plan : taken[i] \in Nat /\ taken[i] <= OpenPlan(i)
  <2>1. CASE rec.direct
    BY <1>2, <1>4, <2>1
  <2>2. CASE ~rec.direct
    BY <1>2, <1>3, <1>4, <1>5, <2>2
  <2>3. QED
    BY <2>1, <2>2
<1> HIDE DEF taken
<1>7. SumFunctionOnSet(taken, DOMAIN plan) \in Int
  BY <1>2, <1>6, SumInt
<1>8. Unplanned(rec) \in Int
  BY <1>1, <1>7 DEF Unplanned, SumOf, taken
<1>9. QED
  BY <1>6, <1>8 DEF taken

LEMMA FromDemandIs ==
  ASSUME CrossTypes, NEW rec \in ReceiptRow
  PROVE  /\ DOMAIN FromDemand(rec) = Outbounds
         /\ \A o \in Outbounds : FromDemand(rec)[o] \in Nat
         /\ \A o \in Outbounds : FromDemand(rec)[o] > 0 =>
              /\ outbound[o].docstatus = 1
              /\ outbound[o].allocated + FromDemand(rec)[o] <= outbound[o].requested
         /\ SumFunctionOnSet(FromDemand(rec), Outbounds) \in Int
<1> DEFINE taken == FromDemand(rec)
<1>1. Unplanned(rec) \in Int
  BY FromPlanIs
<1>2. /\ DOMAIN taken = Outbounds /\ \A o \in Outbounds : taken[o] \in Nat
      /\ \A o \in Outbounds : taken[o] > 0 =>
           outbound[o].docstatus = 1 /\ outbound[o].allocated + taken[o] <= outbound[o].requested
  <2>1. CASE rec.direct
    BY <2>1 DEF FromDemand
  <2>2. CASE ~rec.direct
    <3>1. taken = FindDemand(rec.type, Unplanned(rec))
      BY <2>2 DEF FromDemand
    <3>2. QED
      BY <1>1, <3>1, DemandIs
  <2>3. QED
    BY <2>1, <2>2
<1> HIDE DEF taken
<1>3. SumFunctionOnSet(taken, Outbounds) \in Int
  BY <1>2, SumInt, Finite
<1>4. QED
  BY <1>2, <1>3 DEF taken

-----------------------------------------------------------------------------
(* The requests that route a receipt. *)

\* A request without tasks.
Fresh(r) == r \in RequestRow /\ Proper(r) /\ r.status = "Open"

LEMMA FreshWeights ==
  ASSUME NEW r, Fresh(r), NEW of
  PROVE  /\ Weight(r, "Left", of) = 0 /\ Weight(r, "Arrived", of) = 0
         /\ Weight(r, "Docked", of) = IF r.kind = "Cross Dock" /\ r.outbound = of THEN r.requested ELSE 0
<1>1. r \in RequestRow /\ r.tasks = <<>> /\ r.status = "Open"
  BY DEF Fresh, Proper
<1>2. r.tasks \in Seq(TaskRow)
  BY <1>1, RequestFields
<1>3. DOMAIN r.tasks = {}
  BY <1>1
<1>4. MovedOf(r) = 0
  BY <1>2, <1>3, NothingMoved
<1>5. Docking(r, of) <=> r.kind = "Cross Dock" /\ r.outbound = of
  BY <1>1 DEF Docking
<1>6. QED
  BY <1>4, <1>5, WeightsAre

LEMMA Positive ==
  ASSUME NEW q, q \in Int, q > 0
  PROVE  q \in Nat \ {0}
OBVIOUS

LEMMA NoTasks ==
  ASSUME NEW R
  PROVE  <<>> \in Seq(R) /\ DOMAIN <<>> = {}
OBVIOUS

LEMMA NewRequestIs ==
  ASSUME NEW kind, NEW g, NEW o, NEW type, NEW source, NEW q,
         kind \in Kinds, g \in Receipts, o \in Outbounds \cup {Nothing},
         type \in Types, source \in Places, q \in Int, q > 0,
         kind # "Internal Move" => source = "Receiving",
         kind = "Cross Dock" => o \in Outbounds
  PROVE  Fresh(NewRequest(kind, g, o, type, source, q))
<1> DEFINE r == NewRequest(kind, g, o, type, source, q)
<1>1. q \in Nat \ {0}
  BY Positive
<1>2. <<>> \in Seq(TaskRow)
  BY NoTasks
<1>3. /\ r \in RequestRow /\ r.kind = kind /\ r.source = source /\ r.outbound = o
      /\ r.requested = q /\ r.status = "Open" /\ r.tasks = <<>>
  BY <1>1, <1>2 DEF NewRequest, RequestRow
<1> HIDE DEF r
<1>4. Proper(r)
  <2>1. DOMAIN r.tasks = {}
    BY <1>3, NoTasks, Zenon
  <2>2. QED
    BY <1>3, <2>1 DEF Proper
<1>5. QED
  BY <1>3, <1>4 DEF Fresh, r

LEMMA DockIs ==
  ASSUME NEW g \in Receipts, NEW rec \in ReceiptRow, NEW o, o \in Outbounds, NEW q, q \in Int, q > 0
  PROVE  Fresh(Dock(g, rec, o, q))
<1> DEFINE kind == "Cross Dock"
           source == "Receiving"
           type == rec.type
<1>1. /\ kind \in Kinds /\ source \in Places /\ kind # "Internal Move" /\ type \in Types
      /\ source = "Receiving" /\ o \in Outbounds \cup {Nothing}
  BY ReceiptFields DEF Kinds, Places
<1>2. Dock(g, rec, o, q) = NewRequest(kind, g, o, type, source, q)
  BY DEF Dock
<1> HIDE DEF kind, source, type
<1>3. Fresh(NewRequest(kind, g, o, type, source, q))
  BY <1>1, NewRequestIs
<1>4. QED
  BY <1>2, <1>3

DocksOf(g, rec, D, to, taken) ==
  LET s == InOrder({i \in D : taken[i] > 0})
  IN [k \in 1..Len(s) |-> Dock(g, rec, to[s[k]], taken[s[k]])]

LEMMA DocksAre ==
  ASSUME NEW g \in Receipts, NEW rec \in ReceiptRow, NEW D \in SUBSET Int, IsFiniteSet(D),
         NEW to, \A i \in D : to[i] \in Outbounds, NEW taken, \A i \in D : taken[i] \in Nat
  PROVE  /\ DocksOf(g, rec, D, to, taken) \in Seq(RequestRow)
         /\ \A k \in DOMAIN DocksOf(g, rec, D, to, taken) :
              /\ Fresh(DocksOf(g, rec, D, to, taken)[k])
              /\ \E i \in D : taken[i] > 0 /\ DocksOf(g, rec, D, to, taken)[k].outbound = to[i]
         /\ \A o : TotalOf(DocksOf(g, rec, D, to, taken), "Docked", o) =
                     SumFunctionOnSet([i \in D |-> IF to[i] = o THEN taken[i] ELSE 0], D)
<1> DEFINE S == {i \in D : taken[i] > 0}
           s == InOrder(S)
           n == Len(s)
           docks == DocksOf(g, rec, D, to, taken)
<1>1. S \in SUBSET D /\ \A i \in S : taken[i] \in Nat /\ taken[i] > 0
  OBVIOUS
<1>2. IsFiniteSet(S) /\ S \in SUBSET Int
  BY <1>1, FS_Subset
<1>3. docks = [k \in 1..n |-> Dock(g, rec, to[s[k]], taken[s[k]])]
  BY DEF DocksOf
<1>d. \A i \in D \ S : ~(taken[i] > 0)
  OBVIOUS
<1> HIDE DEF S
<1>4. n \in Nat /\ s \in [1..n -> S]
  BY <1>2, InOrderIs
<1> HIDE DEF s, n, docks
<1>5. \A k \in 1..n : s[k] \in S /\ s[k] \in D
  BY <1>1, <1>4
<1>6. ASSUME NEW i \in S
      PROVE  /\ Fresh(Dock(g, rec, to[i], taken[i]))
             /\ Dock(g, rec, to[i], taken[i]).kind = "Cross Dock"
             /\ Dock(g, rec, to[i], taken[i]).outbound = to[i]
             /\ Dock(g, rec, to[i], taken[i]).requested = taken[i]
  <2>1. to[i] \in Outbounds
    BY <1>1
  <2>2. taken[i] \in Int /\ taken[i] > 0
    BY <1>1
  <2>3. Fresh(Dock(g, rec, to[i], taken[i]))
    BY <2>1, <2>2, DockIs
  <2>4. QED
    BY <2>3 DEF Dock, NewRequest
<1>7. /\ DOMAIN docks = 1..n
      /\ \A k \in 1..n : /\ Fresh(docks[k]) /\ docks[k].kind = "Cross Dock"
                         /\ docks[k].outbound = to[s[k]] /\ docks[k].requested = taken[s[k]]
  BY <1>3, <1>5, <1>6
<1>8. \A k \in 1..n : docks[k] \in RequestRow
  BY <1>7 DEF Fresh
<1>9. docks \in Seq(RequestRow)
  <2>1. docks = [k \in 1..n |-> docks[k]]
    BY <1>3
  <2>2. QED
    BY <1>4, <1>8, <2>1
<1>10. ASSUME NEW o
       PROVE  TotalOf(docks, "Docked", o) = SumFunctionOnSet([i \in D |-> IF to[i] = o THEN taken[i] ELSE 0], D)
  <2> DEFINE f == [i \in D |-> IF to[i] = o THEN taken[i] ELSE 0]
  <2>1. \A i \in D : f[i] \in Int
    OBVIOUS
  <2>2. \A k \in 1..n : Weight(docks[k], "Docked", o) = f[s[k]]
    <3> TAKE k \in 1..n
    <3>1. Fresh(docks[k]) /\ docks[k].kind = "Cross Dock" /\ docks[k].outbound = to[s[k]]
          /\ docks[k].requested = taken[s[k]] /\ s[k] \in D
      BY <1>5, <1>7
    <3>2. Weight(docks[k], "Docked", o) = IF to[s[k]] = o THEN taken[s[k]] ELSE 0
      BY <3>1, FreshWeights
    <3>3. QED
      BY <3>1, <3>2
  <2>3. \A i \in D \ S : f[i] = 0
    BY <1>d
  <2> HIDE DEF f
  <2>4. TotalOf(docks, "Docked", o) = SumFunctionOnSet(f, S)
    <3>1. \A i \in S : f[i] \in Int
      BY <1>1, <2>1
    <3>2. DOMAIN docks = 1..Len(InOrder(S)) /\ \A k \in DOMAIN docks : Weight(docks[k], "Docked", o) = f[InOrder(S)[k]]
      BY <1>7, <2>2 DEF s, n
    <3>3. QED
      BY <1>2, <3>1, <3>2, TotalListed
  <2>5. SumFunctionOnSet(f, D) = SumFunctionOnSet(f, S)
    BY <1>1, <2>1, <2>3, SumRestricted
  <2>6. QED
    BY <2>4, <2>5 DEF f
<1>11. \A k \in DOMAIN docks : Fresh(docks[k]) /\ \E i \in D : taken[i] > 0 /\ docks[k].outbound = to[i]
  BY <1>1, <1>5, <1>7
<1>12. QED
  BY <1>9, <1>10, <1>11 DEF docks

LEMMA JoinedRequests ==
  ASSUME NEW s, s \in Seq(RequestRow), NEW t, t \in Seq(RequestRow)
  PROVE  /\ Joined(s, t) \in Seq(RequestRow) /\ Len(Joined(s, t)) = Len(s) + Len(t)
         /\ \A i \in DOMAIN Joined(s, t) : i > Len(s) =>
              i - Len(s) \in DOMAIN t /\ Joined(s, t)[i] = t[i - Len(s)]
         /\ \A i \in DOMAIN Joined(s, t) : i <= Len(s) => i \in DOMAIN s /\ Joined(s, t)[i] = s[i]
<1>1. Joined(s, t) \in Seq(RequestRow)
  BY JoinedIs
<1>2. Len(Joined(s, t)) = Len(s) + Len(t)
  BY JoinedIs
<1>3. \A i \in DOMAIN Joined(s, t) : i > Len(s) =>
        i - Len(s) \in DOMAIN t /\ Joined(s, t)[i] = t[i - Len(s)]
  BY JoinedIs
<1>4. \A i \in DOMAIN Joined(s, t) : i <= Len(s) => i \in DOMAIN s /\ Joined(s, t)[i] = s[i]
  BY JoinedIs
<1>5. QED
  BY <1>1, <1>2, <1>3, <1>4

LEMMA JoinedTotals ==
  ASSUME NEW s, s \in Seq(RequestRow), NEW t, t \in Seq(RequestRow), NEW what \in Measures, NEW of
  PROVE  TotalOf(Joined(s, t), what, of) = TotalOf(s, what, of) + TotalOf(t, what, of)
<1>1. Weighed(s, what, of) /\ Weighed(t, what, of)
  BY RequestsWeighed
<1>2. QED
  BY <1>1, TotalJoined

LEMMA RequestTotals ==
  ASSUME NEW s, s \in Seq(RequestRow), NEW what \in Measures, NEW of
  PROVE  TotalOf(s, what, of) \in Int
BY RequestsWeighed, TotalInt

\* A planned row or open demand of an outbound delivery.
Wanted(o) ==
  \/ Foreseen(plan, o)
  \/ outbound[o].docstatus = 1 /\ outbound[o].allocated < outbound[o].requested
AllFresh(s) ==
  /\ s \in Seq(RequestRow)
  /\ \A i \in DOMAIN s : Fresh(s[i]) /\ (s[i].kind = "Cross Dock" => Wanted(s[i].outbound))

LEMMA JoinedFresh ==
  ASSUME NEW s, NEW t, AllFresh(s), AllFresh(t)
  PROVE  AllFresh(Joined(s, t))
<1>1. s \in Seq(RequestRow) /\ t \in Seq(RequestRow)
  BY DEF AllFresh
<1> DEFINE u == Joined(s, t)
<1>2. u \in Seq(RequestRow)
  BY <1>1, JoinedRequests
<1>3. \A i \in DOMAIN u : i <= Len(s) \/ i > Len(s)
  <2>1. DOMAIN u = 1..Len(u) /\ Len(u) \in Nat /\ Len(s) \in Nat
    BY <1>1, <1>2, DomainIs
  <2>2. QED
    BY <2>1
<1>4. \A i \in DOMAIN u : /\ i <= Len(s) => i \in DOMAIN s /\ u[i] = s[i]
                          /\ i > Len(s) => i - Len(s) \in DOMAIN t /\ u[i] = t[i - Len(s)]
  BY <1>1, JoinedRequests
<1> HIDE DEF u
<1>5. \A i \in DOMAIN u : Fresh(u[i]) /\ (u[i].kind = "Cross Dock" => Wanted(u[i].outbound))
  BY <1>3, <1>4 DEF AllFresh
<1>6. QED
  BY <1>2, <1>5 DEF AllFresh, u

LEMMA FreshTotals ==
  ASSUME NEW s, AllFresh(s), NEW of
  PROVE  TotalOf(s, "Left", of) = 0 /\ TotalOf(s, "Arrived", of) = 0
<1>1. s \in Seq(RequestRow) /\ \A i \in DOMAIN s : Fresh(s[i])
  BY DEF AllFresh
<1>2. \A i \in DOMAIN s : Weight(s[i], "Left", of) = 0 /\ Weight(s[i], "Arrived", of) = 0
  BY <1>1, FreshWeights
<1>3. QED
  BY <1>1, <1>2, TotalZero

\* Requests appended to those there are.
Appended(s) == Joined(request, s)
LEMMA AppendedIs ==
  ASSUME RequestTypes, NEW s, AllFresh(s)
  PROVE  /\ Appended(s) \in Seq(RequestRow) /\ \A i \in DOMAIN Appended(s) : Proper(Appended(s)[i])
         /\ \A i \in DOMAIN Appended(s) : i >= Len(request) + 1 =>
              /\ Appended(s)[i].status = "Open"
              /\ Appended(s)[i].kind = "Cross Dock" => Wanted(Appended(s)[i].outbound)
         /\ \A i \in DOMAIN Appended(s) : ~(i >= Len(request) + 1) =>
              i \in DOMAIN request /\ Appended(s)[i] = request[i]
         /\ \A of : /\ TotalOf(Appended(s), "Left", of) = TotalOf(request, "Left", of)
                    /\ TotalOf(Appended(s), "Arrived", of) = TotalOf(request, "Arrived", of)
                    /\ TotalOf(Appended(s), "Docked", of) =
                         TotalOf(request, "Docked", of) + TotalOf(s, "Docked", of)
<1> DEFINE u == Appended(s)
           n == Len(request)
<1>1. /\ request \in Seq(RequestRow) /\ s \in Seq(RequestRow)
      /\ \A i \in DOMAIN request : Proper(request[i])
      /\ \A i \in DOMAIN s : Fresh(s[i]) /\ (s[i].kind = "Cross Dock" => Wanted(s[i].outbound))
  BY DEF RequestTypes, AllFresh
<1>2. u \in Seq(RequestRow)
  BY <1>1, JoinedRequests DEF Appended
<1>3. \A i \in DOMAIN u : /\ i <= n => i \in DOMAIN request /\ u[i] = request[i]
                          /\ i > n => i - n \in DOMAIN s /\ u[i] = s[i - n]
  BY <1>1, JoinedRequests DEF Appended
<1>4. \A i \in DOMAIN u : (i >= n + 1 => i > n) /\ (~(i >= n + 1) => i <= n)
  <2>1. DOMAIN u = 1..Len(u) /\ Len(u) \in Nat /\ n \in Nat
    BY <1>1, <1>2, DomainIs
  <2>2. QED
    BY <2>1
<1> HIDE DEF u, n
<1>5. \A i \in DOMAIN u : ~(i >= n + 1) => i \in DOMAIN request /\ u[i] = request[i]
  BY <1>3, <1>4
<1>6. \A i \in DOMAIN u : i >= n + 1 => \E j \in DOMAIN s : u[i] = s[j]
  BY <1>3, <1>4
<1>7. \A i \in DOMAIN u : i >= n + 1 =>
        u[i].status = "Open" /\ Proper(u[i]) /\ (u[i].kind = "Cross Dock" => Wanted(u[i].outbound))
  BY <1>1, <1>6 DEF Fresh
<1>8. \A i \in DOMAIN u : Proper(u[i])
  BY <1>1, <1>5, <1>7
<1>9. ASSUME NEW what \in Measures, NEW of
      PROVE  TotalOf(u, what, of) = TotalOf(request, what, of) + TotalOf(s, what, of)
             /\ TotalOf(request, what, of) \in Int
  <2>0. request \in Seq(RequestRow) /\ s \in Seq(RequestRow)
    BY <1>1
  <2>1. TotalOf(Joined(request, s), what, of) = TotalOf(request, what, of) + TotalOf(s, what, of)
    BY <2>0, JoinedTotals
  <2>2. TotalOf(request, what, of) \in Int
    BY <1>1, RequestTotals
  <2>3. QED
    BY <2>1, <2>2 DEF Appended, u
<1>10. ASSUME NEW of
       PROVE  /\ TotalOf(u, "Left", of) = TotalOf(request, "Left", of)
              /\ TotalOf(u, "Arrived", of) = TotalOf(request, "Arrived", of)
              /\ TotalOf(u, "Docked", of) = TotalOf(request, "Docked", of) + TotalOf(s, "Docked", of)
  <2>1. "Left" \in Measures /\ "Arrived" \in Measures /\ "Docked" \in Measures
    BY DEF Measures
  <2>2. TotalOf(s, "Left", of) = 0 /\ TotalOf(s, "Arrived", of) = 0
    BY FreshTotals
  <2>3. QED
    BY <1>9, <2>1, <2>2
<1>11. QED
  BY <1>2, <1>5, <1>7, <1>8, <1>10 DEF u, n

Targets == [i \in DOMAIN plan |-> plan[i].outbound]
FromPlanFor(rec, o) ==
  SumFunctionOnSet([i \in DOMAIN plan |-> IF Targets[i] = o THEN FromPlan(rec)[i] ELSE 0], DOMAIN plan)

LEMMA PlannedDocksAre ==
  ASSUME CrossTypes, NEW g \in Receipts, NEW rec \in ReceiptRow
  PROVE  /\ AllFresh(PlannedDocks(g, rec))
         /\ \A o : TotalOf(PlannedDocks(g, rec), "Docked", o) = FromPlanFor(rec, o)
<1> DEFINE D == DOMAIN plan
           to == Targets
           taken == FromPlan(rec)
           docks == DocksOf(g, rec, D, to, taken)
<1>1. PlannedDocks(g, rec) = docks
  <2>1. \A S \in SUBSET D : \A k \in 1..Len(InOrder(S)) : InOrder(S)[k] \in S
    <3> TAKE S \in SUBSET D
    <3>1. S \in SUBSET Int /\ IsFiniteSet(S)
      BY PlanRows, FS_Subset
    <3>2. QED
      BY <3>1, InOrderIs
  <2> DEFINE S == {i \in D : taken[i] > 0}
             s == InOrder(S)
  <2>2. \A k \in 1..Len(s) : to[s[k]] = plan[s[k]].outbound
    <3>1. S \in SUBSET D
      OBVIOUS
    <3> HIDE DEF S
    <3>2. \A k \in 1..Len(s) : s[k] \in D
      BY <2>1, <3>1
    <3>3. QED
      BY <3>2 DEF Targets
  <2>3. PlannedDocks(g, rec) = [k \in 1..Len(s) |-> Dock(g, rec, plan[s[k]].outbound, taken[s[k]])]
    BY DEF PlannedDocks
  <2>4. docks = [k \in 1..Len(s) |-> Dock(g, rec, to[s[k]], taken[s[k]])]
    BY DEF DocksOf
  <2> HIDE DEF s, docks
  <2>5. QED
    BY <2>2, <2>3, <2>4
<1>2. D \in SUBSET Int /\ IsFiniteSet(D)
  BY PlanRows
<1>3. \A i \in D : /\ to[i] = plan[i].outbound /\ plan[i] \in PlanRow
                   /\ OpenPlan(i) \in Nat /\ (OpenPlan(i) > 0 => plan[i].status = "Planned")
  BY PlanRows DEF Targets
<1>4. \A i \in D : taken[i] \in Nat /\ taken[i] <= OpenPlan(i)
  BY FromPlanIs
<1>5. \A i \in D : to[i] \in Outbounds
  BY <1>3, PlanFields
<1>6. \A i \in D : taken[i] > 0 => Wanted(to[i])
  <2> SUFFICES ASSUME NEW i \in D, taken[i] > 0 PROVE Wanted(to[i])
    OBVIOUS
  <2>1. OpenPlan(i) > 0
    BY <1>3, <1>4
  <2>2. plan[i].status = "Planned" /\ plan[i].outbound = to[i] /\ i \in DOMAIN plan
    BY <1>3, <2>1
  <2>3. QED
    BY <2>2 DEF Wanted, Foreseen
<1> HIDE DEF docks
<1>7. /\ docks \in Seq(RequestRow)
      /\ \A k \in DOMAIN docks : Fresh(docks[k]) /\ \E i \in D : taken[i] > 0 /\ docks[k].outbound = to[i]
      /\ \A o : TotalOf(docks, "Docked", o) = SumFunctionOnSet([i \in D |-> IF to[i] = o THEN taken[i] ELSE 0], D)
  <2> HIDE DEF D, to, taken
  <2>1. QED
    BY <1>2, <1>4, <1>5, DocksAre DEF docks
<1>8. AllFresh(docks)
  BY <1>6, <1>7 DEF AllFresh
<1>9. QED
  BY <1>1, <1>7, <1>8 DEF FromPlanFor

LEMMA SumOfOne ==
  ASSUME NEW f, NEW S, IsFiniteSet(S), NEW o \in S, NEW v \in Int, \A i \in S : f[i] = IF i = o THEN v ELSE 0
  PROVE  SumFunctionOnSet(f, S) = v
<1>1. /\ \A i \in S : f[i] \in Int
      /\ f[o] = v /\ \A i \in S \ {o} : f[i] = 0
  OBVIOUS
<1>2. SumFunctionOnSet(f, S) = f[o] + SumFunctionOnSet(f, S \ {o})
  BY <1>1, SumRemove
<1>3. IsFiniteSet(S \ {o})
  BY FS_RemoveElement
<1>4. SumFunctionOnSet(f, S \ {o}) = 0
  BY <1>1, <1>3, SumZero
<1>5. QED
  BY <1>1, <1>2, <1>4

LEMMA FoundDocksAre ==
  ASSUME CrossTypes, NEW g \in Receipts, NEW rec \in ReceiptRow
  PROVE  /\ AllFresh(FoundDocks(g, rec))
         /\ \A o \in Outbounds : TotalOf(FoundDocks(g, rec), "Docked", o) = FromDemand(rec)[o]
<1> DEFINE D == Outbounds
           to == [o \in Outbounds |-> o]
           taken == FromDemand(rec)
           docks == DocksOf(g, rec, D, to, taken)
<1>2. D \in SUBSET Int /\ IsFiniteSet(D)
  BY InboundAssumption, FS_CardinalityType
<1>1. FoundDocks(g, rec) = docks
  <2> DEFINE S == {o \in Outbounds : taken[o] > 0}
             s == InOrder(S)
  <2>1. \A k \in 1..Len(s) : s[k] \in Outbounds
    <3>1. S \in SUBSET D
      OBVIOUS
    <3> HIDE DEF S
    <3>2. S \in SUBSET Int /\ IsFiniteSet(S)
      BY <1>2, <3>1, FS_Subset
    <3>3. QED
      BY <3>1, <3>2, InOrderIs
  <2>2. FoundDocks(g, rec) = [k \in 1..Len(s) |-> Dock(g, rec, s[k], taken[s[k]])]
    BY DEF FoundDocks
  <2>3. docks = [k \in 1..Len(s) |-> Dock(g, rec, to[s[k]], taken[s[k]])]
    BY DEF DocksOf
  <2>4. \A k \in 1..Len(s) : to[s[k]] = s[k]
    BY <2>1
  <2> HIDE DEF s, docks, to
  <2>5. QED
    BY <2>2, <2>3, <2>4
<1>3. \A o \in Outbounds : to[o] = o
  OBVIOUS
<1>4. /\ \A o \in Outbounds : taken[o] \in Nat
      /\ \A o \in Outbounds : taken[o] > 0 =>
           outbound[o].docstatus = 1 /\ outbound[o].allocated + taken[o] <= outbound[o].requested
  BY FromDemandIs
<1>5. \A o \in Outbounds : taken[o] > 0 => Wanted(to[o])
  <2> SUFFICES ASSUME NEW o \in Outbounds, taken[o] > 0 PROVE Wanted(o)
    BY <1>3
  <2>1. outbound[o].requested \in Nat /\ outbound[o].allocated \in Nat
    BY OutboundFields DEF CrossTypes
  <2>2. outbound[o].docstatus = 1 /\ outbound[o].allocated < outbound[o].requested
    BY <1>4, <2>1
  <2>3. QED
    BY <2>2 DEF Wanted
<1> HIDE DEF docks, to, taken
<1>6. /\ docks \in Seq(RequestRow)
      /\ \A k \in DOMAIN docks : Fresh(docks[k]) /\ \E i \in D : taken[i] > 0 /\ docks[k].outbound = to[i]
      /\ \A o : TotalOf(docks, "Docked", o) = SumFunctionOnSet([i \in D |-> IF to[i] = o THEN taken[i] ELSE 0], D)
  <2>1. \A i \in D : to[i] \in Outbounds /\ taken[i] \in Nat
    BY <1>3, <1>4
  <2> HIDE DEF D
  <2>2. QED
    BY <1>2, <2>1, DocksAre DEF docks
<1>7. AllFresh(docks)
  BY <1>5, <1>6 DEF AllFresh
<1>8. ASSUME NEW o \in Outbounds
      PROVE  SumFunctionOnSet([i \in D |-> IF to[i] = o THEN taken[i] ELSE 0], D) = taken[o]
  <2> DEFINE f == [i \in D |-> IF to[i] = o THEN taken[i] ELSE 0]
  <2>1. \A i \in D : f[i] = IF i = o THEN taken[o] ELSE 0
    BY <1>3
  <2>2. taken[o] \in Int
    BY <1>4
  <2> HIDE DEF f
  <2>3. SumFunctionOnSet(f, D) = taken[o]
    BY <1>2, <2>1, <2>2, SumOfOne
  <2>4. QED
    BY <2>3 DEF f
<1>9. QED
  BY <1>1, <1>6, <1>7, <1>8 DEF taken

LEMMA PutawaysAre ==
  ASSUME CrossTypes, NEW g \in Receipts, NEW rec \in ReceiptRow
  PROVE  AllFresh(Putaways(g, rec)) /\ \A o : TotalOf(Putaways(g, rec), "Docked", o) = 0
<1> DEFINE put == Unplanned(rec) - SumOf(FromDemand(rec), Outbounds)
           kind == "Putaway"
           source == "Receiving"
           type == rec.type
           r == NewRequest(kind, g, Nothing, type, source, put)
           s == Putaways(g, rec)
<1>1. put \in Int
  BY FromPlanIs, FromDemandIs DEF SumOf
<1>2. s = IF put > 0 THEN <<r>> ELSE <<>>
  BY DEF Putaways
<1>3. /\ kind \in Kinds /\ source \in Places /\ kind # "Internal Move" /\ kind # "Cross Dock" /\ type \in Types
      /\ source = "Receiving" /\ Nothing \in Outbounds \cup {Nothing}
  BY ReceiptFields DEF Kinds, Places
<1>4. r.kind # "Cross Dock"
  BY DEF NewRequest
<1> HIDE DEF put, kind, source, type
<1>5. put > 0 => Fresh(r)
  BY <1>1, <1>3, NewRequestIs
<1> HIDE DEF r, s
<1>6. put > 0 => r \in RequestRow
  BY <1>5 DEF Fresh
<1>7. s \in Seq(RequestRow) /\ \A i \in DOMAIN s : s[i] = r /\ put > 0
  <2>1. CASE put > 0
    BY <1>2, <1>6, <2>1
  <2>2. CASE ~(put > 0)
    <3>1. s = <<>>
      BY <1>2, <2>2
    <3>2. QED
      BY <3>1, NoTasks, Zenon
  <2>3. QED
    BY <2>1, <2>2
<1>8. AllFresh(s)
  BY <1>4, <1>5, <1>7 DEF AllFresh
<1>9. ASSUME NEW o
      PROVE  TotalOf(s, "Docked", o) = 0
  <2>1. \A i \in DOMAIN s : Weight(s[i], "Docked", o) = 0
    BY <1>4, <1>5, <1>7, FreshWeights
  <2>2. QED
    BY <1>7, <2>1, TotalZero
<1>10. QED
  BY <1>8, <1>9 DEF s

\* The effect of new requests: no goods are on their way yet, and only an outbound
\* delivery that wants them gets a cross-dock.
Grows(s, added) ==
  /\ s \in Seq(RequestRow) /\ \A i \in DOMAIN s : Proper(s[i])
  /\ \A g : TotalOf(s, "Left", g) = TotalOf(request, "Left", g)
  /\ \A o : TotalOf(s, "Arrived", o) = TotalOf(request, "Arrived", o)
  /\ \A o \in Outbounds : TotalOf(s, "Docked", o) = TotalOf(request, "Docked", o) + added[o]
  /\ \A o \in Outbounds : Engaged(s, o) => Engaged(request, o) \/ Wanted(o)

LEMMA AppendedGrows ==
  ASSUME RequestTypes, NEW s, AllFresh(s), NEW added,
         \A o \in Outbounds : TotalOf(s, "Docked", o) = added[o]
  PROVE  Grows(Appended(s), added)
<1> DEFINE u == Appended(s)
<1>1. /\ u \in Seq(RequestRow) /\ \A i \in DOMAIN u : Proper(u[i])
      /\ \A i \in DOMAIN u : i >= Len(request) + 1 => (u[i].kind = "Cross Dock" => Wanted(u[i].outbound))
      /\ \A i \in DOMAIN u : ~(i >= Len(request) + 1) => i \in DOMAIN request /\ u[i] = request[i]
      /\ \A of : /\ TotalOf(u, "Left", of) = TotalOf(request, "Left", of)
                 /\ TotalOf(u, "Arrived", of) = TotalOf(request, "Arrived", of)
                 /\ TotalOf(u, "Docked", of) = TotalOf(request, "Docked", of) + TotalOf(s, "Docked", of)
  BY AppendedIs
<1> HIDE DEF u
<1>2. \A o \in Outbounds : Engaged(u, o) => Engaged(request, o) \/ Wanted(o)
  <2> SUFFICES ASSUME NEW o \in Outbounds, NEW i \in DOMAIN u, u[i].kind = "Cross Dock",
                      u[i].outbound = o, ~Ended(u[i])
               PROVE  Engaged(request, o) \/ Wanted(o)
    BY DEF Engaged
  <2>1. CASE i >= Len(request) + 1
    BY <1>1, <2>1
  <2>2. CASE ~(i >= Len(request) + 1)
    BY <1>1, <2>2 DEF Engaged
  <2>3. QED
    BY <2>1, <2>2
<1>3. QED
  BY <1>1, <1>2 DEF Grows, u

LEMMA AlikeGrows ==
  ASSUME NEW s, NEW t, NEW added, Grows(s, added), Alike(s, t)
  PROVE  Grows(t, added)
<1>1. s \in Seq(RequestRow) /\ t \in Seq(RequestRow) /\ DOMAIN t = DOMAIN s
  BY DEF Grows, Alike
<1>2. \A what \in Measures : \A of : TotalOf(t, what, of) = TotalOf(s, what, of)
  BY <1>1, AlikeTotals
<1>3. \A of : /\ TotalOf(t, "Left", of) = TotalOf(s, "Left", of)
              /\ TotalOf(t, "Arrived", of) = TotalOf(s, "Arrived", of)
              /\ TotalOf(t, "Docked", of) = TotalOf(s, "Docked", of)
  BY <1>2 DEF Measures
<1>4. \A i \in DOMAIN t : Proper(t[i])
  BY <1>1 DEF Alike, Similar
<1>5. \A o \in Outbounds : Engaged(t, o) => Engaged(s, o)
  BY <1>1 DEF Alike, Similar, Engaged
<1>6. QED
  BY <1>1, <1>3, <1>4, <1>5 DEF Grows

Added(rec) == [o \in Outbounds |-> FromPlanFor(rec, o) + FromDemand(rec)[o]]

LEMMA RoutedGrows ==
  ASSUME RequestTypes, CrossTypes, NEW g \in Receipts, NEW rec \in ReceiptRow
  PROVE  /\ Grows(Routed(g, rec), Added(rec))
         /\ \A i \in DOMAIN Routed(g, rec) : i >= Len(request) + 1 => Routed(g, rec)[i].status = "Open"
<1> DEFINE pd == PlannedDocks(g, rec)
           fd == FoundDocks(g, rec)
           pa == Putaways(g, rec)
           new == Joined(Joined(pd, fd), pa)
<1>1. Routed(g, rec) = Appended(new)
  BY DEF Routed, Appended, Joined
<1>2. /\ AllFresh(pd) /\ AllFresh(fd) /\ AllFresh(pa)
      /\ \A o : TotalOf(pd, "Docked", o) = FromPlanFor(rec, o)
      /\ \A o \in Outbounds : TotalOf(fd, "Docked", o) = FromDemand(rec)[o]
      /\ \A o : TotalOf(pa, "Docked", o) = 0
  BY PlannedDocksAre, FoundDocksAre, PutawaysAre
<1> HIDE DEF pd, fd, pa
<1>3. AllFresh(Joined(pd, fd)) /\ AllFresh(new)
  BY <1>2, JoinedFresh
<1>4. ASSUME NEW o \in Outbounds
      PROVE  TotalOf(new, "Docked", o) = FromPlanFor(rec, o) + FromDemand(rec)[o]
  <2>1. pd \in Seq(RequestRow) /\ fd \in Seq(RequestRow) /\ pa \in Seq(RequestRow)
        /\ Joined(pd, fd) \in Seq(RequestRow)
    BY <1>2, <1>3 DEF AllFresh
  <2>2. "Docked" \in Measures
    BY DEF Measures
  <2>3. TotalOf(Joined(pd, fd), "Docked", o) = TotalOf(pd, "Docked", o) + TotalOf(fd, "Docked", o)
    BY <2>1, <2>2, JoinedTotals
  <2>4. TotalOf(new, "Docked", o) = TotalOf(Joined(pd, fd), "Docked", o) + TotalOf(pa, "Docked", o)
    BY <2>1, <2>2, JoinedTotals
  <2>5. TotalOf(Joined(pd, fd), "Docked", o) \in Int
    BY <2>1, <2>2, RequestTotals
  <2>6. QED
    BY <1>2, <2>3, <2>4, <2>5
<1> HIDE DEF new
<1>5. \A o \in Outbounds : TotalOf(new, "Docked", o) = Added(rec)[o]
  BY <1>4 DEF Added
<1>6. Grows(Appended(new), Added(rec))
  BY <1>3, <1>5, AppendedGrows
<1>7. \A i \in DOMAIN Appended(new) : i >= Len(request) + 1 => Appended(new)[i].status = "Open"
  BY <1>3, AppendedIs
<1>8. QED
  BY <1>1, <1>6, <1>7

LEMMA PlannedGrows ==
  ASSUME RequestTypes, NEW s, NEW added, Grows(s, added),
         \A i \in DOMAIN s : i >= Len(request) + 1 => s[i].status = "Open",
         NEW failed, NEW direct \in BOOLEAN
  PROVE  Grows(Planned(s, Len(request) + 1, failed, direct), added)
<1> DEFINE first == Len(request) + 1
<1>1. s \in Seq(RequestRow) /\ \A i \in DOMAIN s : Proper(s[i])
  BY DEF Grows
<1>2. first \in Nat
  BY DomainIs DEF RequestTypes
<1> HIDE DEF first
<1>3. \A i \in DOMAIN s : i >= first => s[i].status = "Open"
  BY DEF first
<1>4. Alike(s, Planned(s, first, failed, direct))
  BY <1>1, <1>2, <1>3, PlannedAlike
<1>5. Grows(Planned(s, first, failed, direct), added)
  BY <1>4, AlikeGrows
<1>6. QED
  BY <1>5 DEF first

-----------------------------------------------------------------------------
(* The lines of outbound deliveries. *)

Line(row, reqs, rows, o) ==
  IF row.docstatus = 1 /\ row.status # "Completed"
  THEN /\ row.allocated = row.fromStock + TotalOf(reqs, "Docked", o) + TotalOf(rows, "Promised", o)
       /\ row.allocated <= row.requested /\ row.picked <= row.requested
       /\ row.picked = TotalOf(reqs, "Arrived", o)
  ELSE /\ row.docstatus = 1 => row.requested = 0
       /\ ~Foreseen(rows, o) /\ ~Engaged(reqs, o)

LEMMA LinesAre ==
  ASSUME request \in Seq(RequestRow), plan \in Seq(PlanRow)
  PROVE  ReservedHasSource /\ NeverOverdocked /\ ArrivedIsPicked /\ ClosedWantNothing
           <=> \A o \in Outbounds : Line(outbound[o], request, plan, o)
<1>1. ASSUME NEW o \in Outbounds
      PROVE  /\ CrossDocked(request, o) = TotalOf(request, "Docked", o)
             /\ Arrived(request, o) = TotalOf(request, "Arrived", o)
             /\ SumOf([i \in DOMAIN plan |-> OpenPlan(i)], {i \in DOMAIN plan : plan[i].outbound = o})
                  = TotalOf(plan, "Promised", o)
  BY DockedIs, ArrivedIs, PromisedIs
<1>2. /\ ReservedHasSource <=> \A o \in Outbounds : IsOpen(o) =>
           outbound[o].allocated = outbound[o].fromStock + TotalOf(request, "Docked", o) + TotalOf(plan, "Promised", o)
      /\ ArrivedIsPicked <=> \A o \in Outbounds : IsOpen(o) => outbound[o].picked = TotalOf(request, "Arrived", o)
  BY <1>1 DEF ReservedHasSource, ArrivedIsPicked, IsOpen
<1>3. NeverOverdocked <=> \A o \in Outbounds : IsOpen(o) =>
        outbound[o].allocated <= outbound[o].requested /\ outbound[o].picked <= outbound[o].requested
  BY DEF NeverOverdocked, IsOpen
<1>4. \A o : Line(outbound[o], request, plan, o) <=>
        IF IsOpen(o)
        THEN /\ outbound[o].allocated = outbound[o].fromStock + TotalOf(request, "Docked", o) + TotalOf(plan, "Promised", o)
             /\ outbound[o].allocated <= outbound[o].requested /\ outbound[o].picked <= outbound[o].requested
             /\ outbound[o].picked = TotalOf(request, "Arrived", o)
        ELSE /\ outbound[o].docstatus = 1 => outbound[o].requested = 0
             /\ ~Foreseen(plan, o) /\ ~Engaged(request, o)
  BY DEF Line, IsOpen
<1>5. QED
  BY <1>2, <1>3, <1>4, Zenon DEF ClosedWantNothing

LEMMA CrossIs ==
  ASSUME RequestTypes
  PROVE  CrossInv <=> CrossTypes /\ \A o \in Outbounds : Line(outbound[o], request, plan, o)
BY LinesAre DEF CrossInv, CrossTypes, RequestTypes

LEMMA PickingStatusIs ==
  ASSUME NEW row, row \in OutboundRow, NEW o, NEW reqs
  PROVE  LET new == WithPickingStatus(row, o, reqs) IN
         /\ new \in OutboundRow /\ new.docstatus = row.docstatus /\ new.requested = row.requested
         /\ new.allocated = row.allocated /\ new.picked = row.picked /\ new.fromStock = row.fromStock
         /\ new.status = row.status \/ new.status = "Picked"
<1> DEFINE picking == IF row.picked >= row.requested THEN "Picked"
                      ELSE IF row.picked > 0 THEN "Partially Picked"
                      ELSE IF CrossDocked(reqs, o) > 0
                              /\ row.requested - row.picked <= CrossDocked(reqs, o)
                      THEN "Not Relevant" ELSE "Not Started"
           status == IF row.picked >= row.requested THEN "Picked" ELSE row.status
<1>1. WithPickingStatus(row, o, reqs) = [row EXCEPT !.picking = picking, !.status = status]
  BY DEF WithPickingStatus
<1>2. /\ picking \in {"Not Started", "Not Relevant", "Partially Picked", "Picked"}
      /\ status = row.status \/ status = "Picked"
  OBVIOUS
<1> HIDE DEF picking, status
<1>3. QED
  BY <1>1, <1>2 DEF OutboundRow

LEMMA PlanTotals ==
  ASSUME NEW s, s \in Seq(PlanRow), NEW o
  PROVE  TotalOf(s, "Promised", o) \in Int
BY PlansWeighed, TotalInt

LEMMA OutboundRows ==
  ASSUME CrossTypes, NEW o \in Outbounds
  PROVE  /\ outbound[o] \in OutboundRow
         /\ outbound[o].requested \in Nat /\ outbound[o].allocated \in Nat
         /\ outbound[o].picked \in Nat /\ outbound[o].fromStock \in Nat
<1>1. outbound[o] \in OutboundRow
  BY DEF CrossTypes
<1>2. QED
  BY <1>1, OutboundFields

\* A line of which t more is allocated, planned or on its way.
LEMMA AllocatedLine ==
  ASSUME NEW o, NEW old \in OutboundRow, NEW new \in OutboundRow, NEW t \in Nat,
         NEW reqs, reqs \in Seq(RequestRow), NEW reqs2, reqs2 \in Seq(RequestRow),
         NEW rows, rows \in Seq(PlanRow), NEW rows2, rows2 \in Seq(PlanRow),
         Line(old, reqs, rows, o),
         new.docstatus = old.docstatus, new.status = old.status \/ new.status = "Picked",
         new.requested = old.requested, new.picked = old.picked, new.fromStock = old.fromStock,
         new.allocated = old.allocated + t, t = 0 => new = old,
         t > 0 => old.docstatus = 1 /\ old.allocated + t <= old.requested,
         TotalOf(reqs2, "Docked", o) + TotalOf(rows2, "Promised", o) =
           TotalOf(reqs, "Docked", o) + TotalOf(rows, "Promised", o) + t,
         TotalOf(reqs2, "Arrived", o) = TotalOf(reqs, "Arrived", o),
         Engaged(reqs2, o) =>
           Engaged(reqs, o) \/ Foreseen(rows, o) \/ (old.docstatus = 1 /\ old.allocated < old.requested),
         Foreseen(rows2, o) => Foreseen(rows, o) \/ t > 0
  PROVE  Line(new, reqs2, rows2, o)
<1>1. old.requested \in Nat /\ old.allocated \in Nat /\ old.picked \in Nat /\ old.fromStock \in Nat
  BY OutboundFields
<1>2. CASE old.docstatus = 1 /\ old.status # "Completed"
  <2> DEFINE d == TotalOf(reqs, "Docked", o)
             p == TotalOf(rows, "Promised", o)
             e == TotalOf(reqs2, "Docked", o)
             q == TotalOf(rows2, "Promised", o)
  <2>1. d \in Int /\ p \in Int /\ e \in Int /\ q \in Int
    <3>1. "Docked" \in Measures
      BY DEF Measures
    <3>2. QED
      BY <3>1, RequestTotals, PlanTotals
  <2>2. /\ old.allocated = old.fromStock + d + p
        /\ old.allocated <= old.requested /\ old.picked <= old.requested
        /\ old.picked = TotalOf(reqs, "Arrived", o)
    BY <1>2 DEF Line
  <2>3. e + q = d + p + t
    OBVIOUS
  <2>4. new.docstatus = 1 /\ new.status # "Completed"
    BY <1>2
  <2> HIDE DEF d, p, e, q
  <2>5. new.allocated = new.fromStock + e + q
    <3>1. ASSUME NEW a \in Int, NEW f \in Int, a = f + d + p
          PROVE  a + t = f + e + q
      BY <2>1, <2>3, <3>1
    <3>2. old.allocated + t = old.fromStock + e + q
      BY <1>1, <2>2, <3>1
    <3>3. QED
      BY <3>2
  <2>6. new.allocated <= new.requested
    BY <1>1, <2>2
  <2>7. QED
    BY <2>2, <2>4, <2>5, <2>6 DEF Line, e, q
<1>3. CASE ~(old.docstatus = 1 /\ old.status # "Completed")
  <2>1. (old.docstatus = 1 => old.requested = 0) /\ ~Foreseen(rows, o) /\ ~Engaged(reqs, o)
    BY <1>3, Zenon DEF Line
  <2>2. ~(old.docstatus = 1 /\ old.allocated < old.requested)
    BY <1>1, <2>1
  <2>3. ~(t > 0)
    BY <1>1, <2>1
  <2>4. t = 0
    BY <2>3
  <2>5. new = old /\ ~Foreseen(rows2, o) /\ ~Engaged(reqs2, o)
    BY <2>1, <2>2, <2>3, <2>4
  <2>6. QED
    BY <1>3, <2>1, <2>5, Zenon DEF Line
<1>4. QED
  BY <1>2, <1>3

\* Demand is reserved: by planning, or by a receipt that meets it.
LEMMA ReservedKeeps ==
  ASSUME RequestTypes, CrossInv, RequestTypes', NEW taken, NEW reqs,
         \A o \in Outbounds : taken[o] \in Nat,
         \A o \in Outbounds : taken[o] > 0 =>
           outbound[o].docstatus = 1 /\ outbound[o].allocated + taken[o] <= outbound[o].requested,
         outbound' = Reserved(taken, reqs), free' = free,
         plan' \in Seq(PlanRow), \A i \in DOMAIN plan' : plan'[i].consumed <= plan'[i].planned,
         \A o \in Outbounds :
           /\ TotalOf(request', "Docked", o) + TotalOf(plan', "Promised", o) =
                TotalOf(request, "Docked", o) + TotalOf(plan, "Promised", o) + taken[o]
           /\ TotalOf(request', "Arrived", o) = TotalOf(request, "Arrived", o)
           /\ Engaged(request', o) => Engaged(request, o) \/ Wanted(o)
           /\ Foreseen(plan', o) => Foreseen(plan, o) \/ taken[o] > 0
  PROVE  CrossInv'
<1>1. CrossTypes /\ \A o \in Outbounds : Line(outbound[o], request, plan, o)
  BY CrossIs
<1>2. ASSUME NEW o \in Outbounds
      PROVE  /\ outbound'[o] \in OutboundRow /\ outbound'[o].docstatus = outbound[o].docstatus
             /\ outbound'[o].requested = outbound[o].requested /\ outbound'[o].picked = outbound[o].picked
             /\ outbound'[o].fromStock = outbound[o].fromStock
             /\ outbound'[o].allocated = outbound[o].allocated + taken[o]
             /\ taken[o] = 0 => outbound'[o] = outbound[o]
             /\ outbound'[o].status = outbound[o].status \/ outbound'[o].status = "Picked"
  <2>0. outbound[o] \in OutboundRow /\ outbound[o].allocated \in Nat
    BY <1>1, OutboundRows
  <2> DEFINE sum == outbound[o].allocated + taken[o]
             row == [outbound[o] EXCEPT !.allocated = sum]
  <2>1. outbound'[o] = IF taken[o] = 0 THEN outbound[o] ELSE WithPickingStatus(row, o, reqs)
    BY DEF Reserved
  <2>2. sum \in Nat /\ sum = outbound[o].allocated + taken[o]
    BY <2>0
  <2> HIDE DEF sum
  <2>3. /\ row \in OutboundRow /\ row.docstatus = outbound[o].docstatus /\ row.requested = outbound[o].requested
        /\ row.picked = outbound[o].picked /\ row.fromStock = outbound[o].fromStock
        /\ row.allocated = sum /\ row.status = outbound[o].status
    BY <2>0, <2>2 DEF OutboundRow
  <2> HIDE DEF row
  <2>4. CASE taken[o] = 0
    BY <2>0, <2>1, <2>4
  <2>5. CASE taken[o] # 0
    <3> DEFINE new == WithPickingStatus(row, o, reqs)
    <3>1. /\ new \in OutboundRow /\ new.docstatus = row.docstatus /\ new.requested = row.requested
          /\ new.allocated = row.allocated /\ new.picked = row.picked /\ new.fromStock = row.fromStock
          /\ new.status = row.status \/ new.status = "Picked"
      BY <2>3, PickingStatusIs
    <3>2. outbound'[o] = new
      BY <2>1, <2>5
    <3> HIDE DEF new
    <3>3. QED
      BY <2>2, <2>3, <2>5, <3>1, <3>2
  <2>6. QED
    BY <2>4, <2>5
<1>3. outbound' = [o \in Outbounds |-> outbound'[o]]
  BY DEF Reserved
<1>4. CrossTypes'
  <2>1. outbound' \in [Outbounds -> OutboundRow]
    BY <1>2, <1>3
  <2>2. free' \in Nat
    BY <1>1 DEF CrossTypes
  <2>3. QED
    BY <2>1, <2>2 DEF CrossTypes
<1>5. ASSUME NEW o \in Outbounds
      PROVE  Line(outbound'[o], request', plan', o)
  <2>1. outbound[o] \in OutboundRow /\ outbound'[o] \in OutboundRow /\ taken[o] \in Nat
    BY <1>1, <1>2, OutboundRows
  <2>2. request \in Seq(RequestRow) /\ request' \in Seq(RequestRow) /\ plan \in Seq(PlanRow)
    BY <1>1 DEF RequestTypes, CrossTypes
  <2>3. /\ taken[o] > 0 => outbound[o].docstatus = 1 /\ outbound[o].allocated + taken[o] <= outbound[o].requested
        /\ TotalOf(request', "Docked", o) + TotalOf(plan', "Promised", o) =
             TotalOf(request, "Docked", o) + TotalOf(plan, "Promised", o) + taken[o]
        /\ TotalOf(request', "Arrived", o) = TotalOf(request, "Arrived", o)
        /\ Foreseen(plan', o) => Foreseen(plan, o) \/ taken[o] > 0
    OBVIOUS
  <2>4. Engaged(request', o) =>
          \/ Engaged(request, o) \/ Foreseen(plan, o)
          \/ outbound[o].docstatus = 1 /\ outbound[o].allocated < outbound[o].requested
    BY Zenon DEF Wanted
  <2>5. Line(outbound[o], request, plan, o)
    BY <1>1
  <2>6. QED
    BY <1>2, <2>1, <2>2, <2>3, <2>4, <2>5, AllocatedLine
<1>6. CrossInv' <=> CrossTypes' /\ \A o \in Outbounds : Line(outbound'[o], request', plan', o)
  <2>1. request' \in Seq(RequestRow) /\ plan' \in Seq(PlanRow)
    BY DEF RequestTypes
  <2>2. (RequestTypes => (CrossInv <=> CrossTypes /\ \A o \in Outbounds : Line(outbound[o], request, plan, o)))'
    BY CrossIs, PTL
  <2>3. QED
    BY <2>2
<1>7. QED
  BY <1>4, <1>5, <1>6

-----------------------------------------------------------------------------
(* Plan rows. *)

RowsOK(s) == s \in Seq(PlanRow) /\ \A i \in DOMAIN s : s[i].consumed <= s[i].planned

\* What a receipt takes of a row leaves the rest of it open.
LEMMA ConsumedRow ==
  ASSUME CrossTypes, NEW rec \in ReceiptRow, NEW i \in DOMAIN plan
  PROVE  LET row == Consumed(FromPlan(rec))[i] IN
         /\ row \in PlanRow /\ row.consumed <= row.planned /\ row.outbound = plan[i].outbound
         /\ row.status = "Planned" => plan[i].status = "Planned"
         /\ \A o : Weight(plan[i], "Promised", o) =
                     Weight(row, "Promised", o) + (IF plan[i].outbound = o THEN FromPlan(rec)[i] ELSE 0)
<1> DEFINE t == FromPlan(rec)[i]
           c == plan[i].consumed + t
           status == IF c >= plan[i].planned THEN "Done" ELSE plan[i].status
           row == IF t = 0 THEN plan[i] ELSE [plan[i] EXCEPT !.consumed = c, !.status = status]
<1>1. t \in Nat /\ t <= OpenPlan(i) /\ OpenPlan(i) \in Nat
  BY FromPlanIs, PlanRows
<1>2. /\ plan[i] \in PlanRow /\ plan[i].planned \in Nat /\ plan[i].consumed \in Nat
      /\ plan[i].consumed <= plan[i].planned
  BY PlanRows, PlanFields DEF CrossTypes
<1>3. Consumed(FromPlan(rec))[i] = row
  BY DEF Consumed
<1> HIDE DEF t
<1>4. CASE t = 0
  BY <1>2, <1>3, <1>4, PromisedWeight DEF t
<1>5. CASE t # 0
  <2>1. plan[i].status = "Planned" /\ t <= plan[i].planned - plan[i].consumed
    BY <1>1, <1>2, <1>5 DEF OpenPlan
  <2>2. c \in Nat /\ c <= plan[i].planned /\ status \in {"Planned", "Done"}
    BY <1>1, <1>2, <2>1
  <2>3. status = "Done" => c = plan[i].planned
    BY <1>2, <2>1, <2>2
  <2>c. c = plan[i].consumed + t
    OBVIOUS
  <2> HIDE DEF c, status
  <2>4. /\ row \in PlanRow /\ row.consumed = c /\ row.planned = plan[i].planned
        /\ row.outbound = plan[i].outbound /\ row.status = status
    BY <1>2, <1>5, <2>2 DEF PlanRow
  <2> HIDE DEF row
  <2>5. ASSUME NEW o
        PROVE  Weight(plan[i], "Promised", o) =
                 Weight(row, "Promised", o) + (IF plan[i].outbound = o THEN t ELSE 0)
    <3>1. Weight(plan[i], "Promised", o) = IF plan[i].outbound = o THEN plan[i].planned - plan[i].consumed ELSE 0
      BY <2>1, PromisedWeight
    <3>2. Weight(row, "Promised", o) = IF plan[i].outbound = o /\ status = "Planned" THEN plan[i].planned - c ELSE 0
      BY <2>4, PromisedWeight
    <3>3. CASE plan[i].outbound = o /\ status = "Planned"
      BY <1>1, <1>2, <2>c, <3>1, <3>2, <3>3
    <3>4. CASE plan[i].outbound = o /\ status = "Done"
      BY <1>1, <1>2, <2>3, <2>c, <3>1, <3>2, <3>4
    <3>5. CASE plan[i].outbound # o
      BY <3>1, <3>2, <3>5
    <3>6. QED
      BY <2>2, <3>3, <3>4, <3>5
  <2>6. QED
    BY <1>3, <2>1, <2>2, <2>4, <2>5 DEF t
<1>6. QED
  BY <1>4, <1>5

LEMMA ConsumedIs ==
  ASSUME CrossTypes, NEW rec \in ReceiptRow
  PROVE  /\ RowsOK(Consumed(FromPlan(rec)))
         /\ \A o : TotalOf(plan, "Promised", o) =
                     TotalOf(Consumed(FromPlan(rec)), "Promised", o) + FromPlanFor(rec, o)
         /\ \A o : Foreseen(Consumed(FromPlan(rec)), o) => Foreseen(plan, o)
<1> DEFINE rows == Consumed(FromPlan(rec))
           D == DOMAIN plan
<1>1. IsFiniteSet(D) /\ D = 1..Len(plan) /\ Len(plan) \in Nat /\ plan \in Seq(PlanRow)
  BY PlanRows DEF CrossTypes
<1>2. rows = [i \in D |-> rows[i]]
  BY DEF Consumed
<1>3. ASSUME NEW i \in D
      PROVE  /\ rows[i] \in PlanRow /\ rows[i].consumed <= rows[i].planned /\ rows[i].outbound = plan[i].outbound
             /\ rows[i].status = "Planned" => plan[i].status = "Planned"
             /\ \A o : Weight(plan[i], "Promised", o) =
                         Weight(rows[i], "Promised", o) + (IF plan[i].outbound = o THEN FromPlan(rec)[i] ELSE 0)
  BY ConsumedRow
<1> HIDE DEF rows
<1>4. rows \in Seq(PlanRow) /\ DOMAIN rows = D
  BY <1>1, <1>2, <1>3
<1>5. RowsOK(rows)
  BY <1>3, <1>4 DEF RowsOK
<1>6. \A o : Foreseen(rows, o) => Foreseen(plan, o)
  BY <1>3, <1>4 DEF Foreseen
<1>7. ASSUME NEW o
      PROVE  TotalOf(plan, "Promised", o) = TotalOf(rows, "Promised", o) + FromPlanFor(rec, o)
  <2> DEFINE f == Parts(rows, "Promised", o)
             g == [i \in D |-> IF Targets[i] = o THEN FromPlan(rec)[i] ELSE 0]
             h == Parts(plan, "Promised", o)
  <2>1. \A i \in D : f[i] \in Int
    BY <1>4, PlansWeighed, PartsAre
  <2>2. \A i \in D : g[i] \in Int
    BY FromPlanIs
  <2>3. \A i \in D : h[i] = f[i] + g[i]
    BY <1>3, <1>4 DEF Parts, Targets
  <2>4. /\ TotalOf(plan, "Promised", o) = SumFunctionOnSet(h, D)
        /\ TotalOf(rows, "Promised", o) = SumFunctionOnSet(f, D)
        /\ FromPlanFor(rec, o) = SumFunctionOnSet(g, D)
    BY <1>4 DEF TotalOf, FromPlanFor
  <2> HIDE DEF f, g, h, D
  <2>5. SumFunctionOnSet(h, D) = SumFunctionOnSet(f, D) + SumFunctionOnSet(g, D)
    BY <1>1, <2>1, <2>2, <2>3, SumPlus
  <2>6. QED
    BY <2>4, <2>5
<1>8. QED
  BY <1>5, <1>6, <1>7 DEF rows

LEMMA FromPlanForInt ==
  ASSUME CrossTypes, NEW rec \in ReceiptRow, NEW o
  PROVE  FromPlanFor(rec, o) \in Int
<1> DEFINE D == DOMAIN plan
           g == [i \in D |-> IF Targets[i] = o THEN FromPlan(rec)[i] ELSE 0]
<1>1. IsFiniteSet(D) /\ \A i \in D : g[i] \in Int
  BY PlanRows, FromPlanIs
<1>2. FromPlanFor(rec, o) = SumFunctionOnSet(g, D)
  BY DEF FromPlanFor
<1> HIDE DEF g, D
<1>3. QED
  BY <1>1, <1>2, SumInt

LEMMA GrowsTypes ==
  ASSUME NEW added, Grows(request', added)
  PROVE  RequestTypes'
BY DEF Grows, RequestTypes

\* A receipt is routed: planned rows are used up, open demand is reserved.
LEMMA RoutingKeeps ==
  ASSUME RequestTypes, CrossInv, NEW g \in Receipts, NEW rec \in ReceiptRow,
         Grows(request', Added(rec)), plan' = Consumed(FromPlan(rec)),
         outbound' = Reserved(FromDemand(rec), Routed(g, rec)), free' = free
  PROVE  CrossInv'
<1> DEFINE taken == FromDemand(rec)
           reqs == Routed(g, rec)
<1>1. CrossTypes /\ plan \in Seq(PlanRow) /\ request \in Seq(RequestRow)
  BY DEF CrossInv, CrossTypes, RequestTypes
<1>2. /\ \A o \in Outbounds : taken[o] \in Nat
      /\ \A o \in Outbounds : taken[o] > 0 =>
           outbound[o].docstatus = 1 /\ outbound[o].allocated + taken[o] <= outbound[o].requested
  BY <1>1, FromDemandIs
<1>3. RowsOK(plan') /\ \A o : Foreseen(plan', o) => Foreseen(plan, o)
  BY <1>1, ConsumedIs
<1>4. RequestTypes'
  BY GrowsTypes
<1>5. ASSUME NEW o \in Outbounds
      PROVE  /\ TotalOf(request', "Docked", o) + TotalOf(plan', "Promised", o) =
                  TotalOf(request, "Docked", o) + TotalOf(plan, "Promised", o) + taken[o]
             /\ TotalOf(request', "Arrived", o) = TotalOf(request, "Arrived", o)
             /\ Engaged(request', o) => Engaged(request, o) \/ Wanted(o)
  <2> DEFINE d == TotalOf(request, "Docked", o)
             p == TotalOf(plan, "Promised", o)
             e == TotalOf(request', "Docked", o)
             q == TotalOf(plan', "Promised", o)
             f == FromPlanFor(rec, o)
             t == taken[o]
  <2>1. e = d + (f + t)
    BY DEF Grows, Added
  <2>2. p = q + f
    BY <1>1, ConsumedIs
  <2>3. d \in Int /\ q \in Int /\ f \in Int /\ t \in Int
    <3>1. d \in Int
      BY <1>1, RequestTotals DEF Measures
    <3>2. q \in Int
      BY <1>3, PlanTotals DEF RowsOK
    <3>3. f \in Int
      BY <1>1, FromPlanForInt
    <3>4. t \in Int
      BY <1>2
    <3>5. QED
      BY <3>1, <3>2, <3>3, <3>4
  <2> HIDE DEF d, p, e, q, f, t
  <2>4. e + q = d + p + t
    BY <2>1, <2>2, <2>3
  <2>5. /\ TotalOf(request', "Arrived", o) = TotalOf(request, "Arrived", o)
        /\ Engaged(request', o) => Engaged(request, o) \/ Wanted(o)
    BY DEF Grows
  <2>6. QED
    BY <2>4, <2>5 DEF d, p, e, q, t
<1>6. plan' \in Seq(PlanRow) /\ \A i \in DOMAIN plan' : plan'[i].consumed <= plan'[i].planned
  BY <1>3 DEF RowsOK
<1> HIDE DEF taken, reqs
<1>7. outbound' = Reserved(taken, reqs)
  BY DEF taken, reqs
<1>8. QED
  BY <1>2, <1>3, <1>4, <1>5, <1>6, <1>7, ReservedKeeps

LEMMA RouteAndPlanGrows ==
  ASSUME RequestTypes, CrossTypes, NEW g \in Receipts, NEW rec \in ReceiptRow, NEW tasked \in BOOLEAN,
         RouteAndPlan(g, rec, tasked)
  PROVE  Grows(request', Added(rec))
<1>1. /\ Grows(Routed(g, rec), Added(rec))
      /\ \A i \in DOMAIN Routed(g, rec) : i >= Len(request) + 1 => Routed(g, rec)[i].status = "Open"
  BY RoutedGrows
<1>2. rec.direct \in BOOLEAN
  BY ReceiptFields
<1>3. \A failed : Grows(Planned(Routed(g, rec), Len(request) + 1, failed, rec.direct), Added(rec))
  BY <1>1, <1>2, PlannedGrows
<1>4. PICK failed : request' = IF tasked THEN Planned(Routed(g, rec), Len(request) + 1, failed, rec.direct)
                               ELSE Routed(g, rec)
  BY DEF RouteAndPlan
<1>5. QED
  BY <1>1, <1>3, <1>4

LEMMA RouteKeepsCross ==
  ASSUME RequestTypes, CrossInv, NEW g \in Receipts, NEW rec \in ReceiptRow, NEW tasked \in BOOLEAN,
         RouteAndPlan(g, rec, tasked), free' = free
  PROVE  CrossInv' /\ Grows(request', Added(rec))
<1>1. CrossTypes
  BY DEF CrossInv
<1>2. Grows(request', Added(rec))
  BY <1>1, RouteAndPlanGrows
<1>3. plan' = Consumed(FromPlan(rec)) /\ outbound' = Reserved(FromDemand(rec), Routed(g, rec))
  BY DEF RouteAndPlan
<1>4. QED
  BY <1>2, <1>3, RoutingKeeps

LEMMA JoinedRows ==
  ASSUME NEW s, s \in Seq(PlanRow), NEW t, t \in Seq(PlanRow), RowsOK(s), RowsOK(t)
  PROVE  /\ RowsOK(Joined(s, t))
         /\ \A o : TotalOf(Joined(s, t), "Promised", o) = TotalOf(s, "Promised", o) + TotalOf(t, "Promised", o)
         /\ \A o : Foreseen(Joined(s, t), o) => Foreseen(s, o) \/ Foreseen(t, o)
<1> DEFINE u == Joined(s, t)
<1>1. u \in Seq(PlanRow)
  BY JoinedIs
<1>2. \A i \in DOMAIN u : i > Len(s) => i - Len(s) \in DOMAIN t /\ u[i] = t[i - Len(s)]
  BY JoinedIs
<1>3. \A i \in DOMAIN u : i <= Len(s) => i \in DOMAIN s /\ u[i] = s[i]
  BY JoinedIs
<1>4. ASSUME NEW o
      PROVE  TotalOf(u, "Promised", o) = TotalOf(s, "Promised", o) + TotalOf(t, "Promised", o)
  <2>1. Weighed(s, "Promised", o) /\ Weighed(t, "Promised", o)
    BY PlansWeighed
  <2>2. QED
    BY <2>1, TotalJoined
<1> HIDE DEF u
<1>5. \A i \in DOMAIN u : i > Len(s) \/ i <= Len(s)
  <2>1. DOMAIN u = 1..Len(u) /\ Len(u) \in Nat /\ Len(s) \in Nat
    BY <1>1, DomainIs
  <2>2. QED
    BY <2>1
<1>6. \A i \in DOMAIN u : (\E j \in DOMAIN s : u[i] = s[j]) \/ (\E j \in DOMAIN t : u[i] = t[j])
  BY <1>2, <1>3, <1>5
<1>7. RowsOK(u)
  BY <1>1, <1>6 DEF RowsOK
<1>8. \A o : Foreseen(u, o) => Foreseen(s, o) \/ Foreseen(t, o)
  BY <1>6 DEF Foreseen
<1>9. QED
  BY <1>4, <1>7, <1>8 DEF u

LEMMA PlanCrossDockKeepsCross ==
  ASSUME ReceiptTypes, RequestTypes, CrossInv, NEW d \in Inbounds, PlanCrossDock(d)
  PROVE  CrossInv' /\ RequestTypes'
<1> DEFINE f == [i \in DOMAIN plan |-> OpenPlan(i)]
           T == {i \in DOMAIN plan : plan[i].inbound = d}
           q == inbound[d].expected - inbound[d].received - SumOf(f, T)
           taken == FindDemand("AVAILABLE", q)
           S == {o \in Outbounds : taken[o] > 0}
           s == InOrder(S)
           rows == [k \in 1..Len(s) |-> [inbound |-> d, outbound |-> s[k], planned |-> taken[s[k]],
                                         consumed |-> 0, status |-> "Planned"]]
<1>1. /\ plan' = Joined(plan, rows) /\ outbound' = Reserved(taken, request)
      /\ request' = request /\ free' = free
  BY DEF PlanCrossDock, Joined
<1>2. CrossTypes /\ plan \in Seq(PlanRow) /\ RowsOK(plan)
  BY DEF CrossInv, CrossTypes, RowsOK
<1>3. q \in Int
  <2>1. inbound[d] \in InboundRow
    BY DEF ReceiptTypes
  <2>2. inbound[d].expected \in Int /\ inbound[d].received \in Int
    BY <2>1, InboundFields
  <2>3. T \in SUBSET DOMAIN plan /\ \A i \in DOMAIN plan : f[i] \in Int
    BY <1>2, PlanRows
  <2>4. IsFiniteSet(T)
    BY <1>2, <2>3, PlanRows, FS_Subset
  <2> HIDE DEF f, T
  <2>5. SumOf(f, T) \in Int
    BY <2>3, <2>4, SumInt DEF SumOf
  <2>6. QED
    BY <2>2, <2>5
<1> HIDE DEF q
<1>4. /\ \A o \in Outbounds : taken[o] \in Nat
      /\ \A o \in Outbounds : taken[o] > 0 =>
           outbound[o].docstatus = 1 /\ outbound[o].allocated + taken[o] <= outbound[o].requested
  BY <1>2, <1>3, DemandIs
<1>5. S \in SUBSET Outbounds /\ \A o \in S : taken[o] > 0
  OBVIOUS
<1>6. \A o \in Outbounds \ S : ~(taken[o] > 0)
  OBVIOUS
<1> HIDE DEF taken, S
<1>7. IsFiniteSet(S) /\ S \in SUBSET Int
  <2>1. Outbounds \in SUBSET Int
    BY InboundAssumption, FS_CardinalityType
  <2>2. QED
    BY <1>5, <2>1, Finite, FS_Subset
<1>8. Len(s) \in Nat /\ \A k \in 1..Len(s) : s[k] \in S /\ s[k] \in Outbounds
  <2>1. Len(s) \in Nat /\ s \in [1..Len(s) -> S]
    BY <1>7, InOrderIs
  <2> HIDE DEF s
  <2>2. \A k \in 1..Len(s) : s[k] \in S
    BY <2>1
  <2>3. QED
    BY <1>5, <2>1, <2>2
<1> HIDE DEF s
<1>9. /\ DOMAIN rows = 1..Len(s)
      /\ \A k \in 1..Len(s) : /\ rows[k] \in PlanRow /\ rows[k].consumed <= rows[k].planned
                              /\ rows[k].outbound = s[k] /\ rows[k].status = "Planned"
                              /\ rows[k].planned - rows[k].consumed = taken[s[k]]
  <2>1. \A k \in 1..Len(s) : taken[s[k]] \in Nat
    BY <1>4, <1>8
  <2>2. ASSUME NEW k \in 1..Len(s)
        PROVE  rows[k] \in PlanRow
    BY <1>8, <2>1 DEF PlanRow
  <2>3. QED
    BY <2>1, <2>2
<1>10. rows = [k \in 1..Len(s) |-> rows[k]]
  OBVIOUS
<1> HIDE DEF rows
<1>11. rows \in Seq(PlanRow) /\ RowsOK(rows)
  BY <1>8, <1>9, <1>10 DEF RowsOK
<1>12. ASSUME NEW o \in Outbounds
       PROVE  TotalOf(rows, "Promised", o) = taken[o]
  <2> DEFINE g == [i \in Outbounds |-> IF i = o THEN taken[o] ELSE 0]
  <2>1. \A i \in Outbounds : g[i] = IF i = o THEN taken[o] ELSE 0
    OBVIOUS
  <2>2. taken[o] \in Int /\ \A i \in Outbounds : g[i] \in Int
    BY <1>4
  <2> HIDE DEF g
  <2>3. \A k \in DOMAIN rows : Weight(rows[k], "Promised", o) = g[s[k]]
    BY <1>8, <1>9, <2>1, PromisedWeight
  <2>4. TotalOf(rows, "Promised", o) = SumFunctionOnSet(g, S)
    <3>1. \A i \in S : g[i] \in Int
      BY <1>5, <2>2
    <3>2. DOMAIN rows = 1..Len(InOrder(S)) /\ \A k \in DOMAIN rows : Weight(rows[k], "Promised", o) = g[InOrder(S)[k]]
      BY <1>9, <2>3 DEF s
    <3>3. QED
      BY <1>7, <3>1, <3>2, TotalListed
  <2>5. SumFunctionOnSet(g, Outbounds) = SumFunctionOnSet(g, S)
    <3>1. \A i \in Outbounds \ S : g[i] = 0
      BY <1>4, <1>6, <2>1
    <3>2. QED
      BY <1>5, <2>2, <3>1, SumRestricted, Finite
  <2>6. SumFunctionOnSet(g, Outbounds) = taken[o]
    BY <2>1, <2>2, SumOfOne, Finite
  <2>7. QED
    BY <2>4, <2>5, <2>6
<1>13. /\ RowsOK(plan')
       /\ \A o : TotalOf(plan', "Promised", o) = TotalOf(plan, "Promised", o) + TotalOf(rows, "Promised", o)
       /\ \A o : Foreseen(plan', o) => Foreseen(plan, o) \/ Foreseen(rows, o)
  BY <1>1, <1>2, <1>11, JoinedRows
<1>14. \A o : Foreseen(rows, o) => taken[o] > 0
  BY <1>5, <1>8, <1>9 DEF Foreseen
<1>15. RequestTypes' /\ request \in Seq(RequestRow)
  BY <1>1 DEF RequestTypes
<1>16. ASSUME NEW o \in Outbounds
       PROVE  /\ TotalOf(request', "Docked", o) + TotalOf(plan', "Promised", o) =
                   TotalOf(request, "Docked", o) + TotalOf(plan, "Promised", o) + taken[o]
              /\ TotalOf(request', "Arrived", o) = TotalOf(request, "Arrived", o)
              /\ Engaged(request', o) => Engaged(request, o) \/ Wanted(o)
              /\ Foreseen(plan', o) => Foreseen(plan, o) \/ taken[o] > 0
  <2> DEFINE a == TotalOf(request, "Docked", o)
             p == TotalOf(plan, "Promised", o)
  <2>1. a \in Int /\ p \in Int /\ taken[o] \in Int
    <3>1. "Docked" \in Measures
      BY DEF Measures
    <3>2. QED
      BY <1>2, <1>4, <1>15, <3>1, RequestTotals, PlanTotals
  <2>2. TotalOf(request', "Docked", o) = a /\ TotalOf(plan', "Promised", o) = p + taken[o]
    BY <1>1, <1>12, <1>13
  <2> HIDE DEF a, p
  <2>3. TotalOf(request', "Docked", o) + TotalOf(plan', "Promised", o) = a + p + taken[o]
    BY <2>1, <2>2
  <2>4. QED
    BY <1>1, <1>13, <1>14, <2>3 DEF a, p
<1>17. plan' \in Seq(PlanRow) /\ \A i \in DOMAIN plan' : plan'[i].consumed <= plan'[i].planned
  BY <1>13 DEF RowsOK
<1>18. CrossInv'
  BY <1>1, <1>4, <1>15, <1>16, <1>17, ReservedKeeps
<1>19. QED
  BY <1>15, <1>18

-----------------------------------------------------------------------------
(* Outbound deliveries and the work on their cross-docks: CrossInv. *)

LEMMA CrossFromLines ==
  ASSUME RequestTypes', CrossTypes', \A o \in Outbounds : Line(outbound'[o], request', plan', o)
  PROVE  CrossInv'
<1>1. (RequestTypes => (CrossInv <=> CrossTypes /\ \A o \in Outbounds : Line(outbound[o], request, plan, o)))'
  BY CrossIs, PTL
<1>2. QED
  BY <1>1

\* Nothing that a line adds up has changed.
LEMMA LineStays ==
  ASSUME NEW o, NEW row, NEW reqs, NEW reqs2, NEW rows, NEW rows2, Line(row, reqs, rows, o),
         TotalOf(reqs2, "Docked", o) = TotalOf(reqs, "Docked", o),
         TotalOf(reqs2, "Arrived", o) = TotalOf(reqs, "Arrived", o),
         TotalOf(rows2, "Promised", o) = TotalOf(rows, "Promised", o),
         Engaged(reqs2, o) => Engaged(reqs, o), Foreseen(rows2, o) => Foreseen(rows, o)
  PROVE  Line(row, reqs2, rows2, o)
BY DEF Line

\* The outbound deliveries and the plan stay as they are.
LEMMA RequestsKeepCross ==
  ASSUME RequestTypes, CrossInv, RequestTypes', UNCHANGED <<outbound, plan, free>>,
         \A o \in Outbounds : /\ TotalOf(request', "Docked", o) = TotalOf(request, "Docked", o)
                              /\ TotalOf(request', "Arrived", o) = TotalOf(request, "Arrived", o)
                              /\ Engaged(request', o) => Engaged(request, o)
  PROVE  CrossInv'
<1>1. CrossTypes /\ \A o \in Outbounds : Line(outbound[o], request, plan, o)
  BY CrossIs
<1>2. CrossTypes'
  BY <1>1 DEF CrossTypes
<1>3. ASSUME NEW o \in Outbounds
      PROVE  Line(outbound'[o], request', plan', o)
  <2>1. Line(outbound[o], request, plan, o)
    BY <1>1
  <2>2. Line(outbound[o], request', plan, o)
    BY <2>1, LineStays
  <2>3. QED
    BY <2>2
<1>4. QED
  BY <1>2, <1>3, CrossFromLines

\* The effect on requests of the steps that bring nothing to an outbound delivery
\* and promise it nothing.
Same(s) ==
  /\ s \in Seq(RequestRow) /\ \A i \in DOMAIN s : Proper(s[i])
  /\ \A what \in Measures : \A of : TotalOf(s, what, of) = TotalOf(request, what, of)
  /\ \A o : Engaged(s, o) => Engaged(request, o)

LEMMA SameKeepsCross ==
  ASSUME RequestTypes, CrossInv, Same(request'), UNCHANGED <<outbound, plan, free>>
  PROVE  CrossInv' /\ RequestTypes'
<1>1. RequestTypes'
  BY DEF Same, RequestTypes
<1>2. "Docked" \in Measures /\ "Arrived" \in Measures
  BY DEF Measures
<1>3. QED
  BY <1>1, <1>2, RequestsKeepCross DEF Same

LEMMA AlikeSame ==
  ASSUME RequestTypes, NEW s, NEW t, Same(s), Alike(s, t)
  PROVE  Same(t)
<1>1. s \in Seq(RequestRow)
  BY DEF Same
<1>2. \A what \in Measures : \A of : TotalOf(t, what, of) = TotalOf(s, what, of)
  BY <1>1, AlikeTotals
<1>3. \A o : Engaged(t, o) => Engaged(s, o)
  BY DEF Alike, Similar, Engaged
<1>4. \A i \in DOMAIN t : Proper(t[i])
  BY DEF Alike, Similar
<1>5. QED
  BY <1>2, <1>3, <1>4 DEF Same, Alike

LEMMA PutAlike ==
  ASSUME NEW s, s \in Seq(RequestRow), \A j \in DOMAIN s : Proper(s[j]),
         NEW i \in DOMAIN s, NEW r, Similar(s[i], r)
  PROVE  Alike(s, Put(s, i, r))
<1>1. r \in RequestRow
  BY DEF Similar
<1>2. Put(s, i, r) \in Seq(RequestRow) /\ DOMAIN Put(s, i, r) = DOMAIN s
  BY <1>1 DEF Put
<1>3. \A j \in DOMAIN s : Put(s, i, r)[j] = IF j = i THEN r ELSE s[j]
  BY DEF Put
<1>4. \A j \in DOMAIN s : Similar(s[j], s[j])
  BY SimilarToItself
<1>5. QED
  BY <1>2, <1>3, <1>4 DEF Alike

LEMMA RequestSame ==
  ASSUME RequestTypes
  PROVE  Same(request)
BY DEF Same, RequestTypes

LEMMA CreateTasksIs ==
  ASSUME RequestTypes, NEW i \in DOMAIN request, NEW direct \in BOOLEAN, CreateTasks(i, direct)
  PROVE  Same(request') /\ UNCHANGED <<outbound, plan, free>>
<1>1. request \in Seq(RequestRow) /\ \A j \in DOMAIN request : Proper(request[j])
  BY DEF RequestTypes
<1>2. request[i] \in RequestRow /\ request[i].status = "Open"
  BY <1>1 DEF CreateTasks
<1>3. Similar(request[i], Tasked(request[i], direct))
  BY <1>1, <1>2, TaskedIs
<1>4. request' = Put(request, i, Tasked(request[i], direct))
  BY DEF CreateTasks, Put
<1>5. Alike(request, request')
  BY <1>1, <1>3, <1>4, PutAlike
<1>6. QED
  BY <1>5, RequestSame, AlikeSame DEF CreateTasks

\* Requests that weigh nothing are added.
Weightless(s) ==
  /\ s \in Seq(RequestRow)
  /\ \A i \in DOMAIN s : Proper(s[i]) /\ s[i].kind # "Cross Dock"
  /\ \A i \in DOMAIN s : \A what \in Measures : \A of : Weight(s[i], what, of) = 0

LEMMA WeightlessJoined ==
  ASSUME NEW b, b \in Seq(RequestRow), \A i \in DOMAIN b : Proper(b[i]), NEW s, Weightless(s)
  PROVE  /\ Joined(b, s) \in Seq(RequestRow) /\ \A i \in DOMAIN Joined(b, s) : Proper(Joined(b, s)[i])
         /\ \A what \in Measures : \A of : TotalOf(Joined(b, s), what, of) = TotalOf(b, what, of)
         /\ \A o : Engaged(Joined(b, s), o) => Engaged(b, o)
<1>1. s \in Seq(RequestRow)
  BY DEF Weightless
<1>2. ASSUME NEW what \in Measures, NEW of
      PROVE  TotalOf(Joined(b, s), what, of) = TotalOf(b, what, of)
  <2>1. TotalOf(s, what, of) = 0
    BY <1>1, TotalZero DEF Weightless
  <2>2. TotalOf(b, what, of) \in Int
    BY RequestTotals
  <2>3. TotalOf(Joined(b, s), what, of) = TotalOf(b, what, of) + TotalOf(s, what, of)
    BY <1>1, JoinedTotals
  <2>4. QED
    BY <2>1, <2>2, <2>3
<1>3. /\ Joined(b, s) \in Seq(RequestRow)
      /\ \A i \in DOMAIN Joined(b, s) : i > Len(b) =>
           i - Len(b) \in DOMAIN s /\ Joined(b, s)[i] = s[i - Len(b)]
      /\ \A i \in DOMAIN Joined(b, s) : i <= Len(b) => i \in DOMAIN b /\ Joined(b, s)[i] = b[i]
  BY <1>1, JoinedRequests
<1>4. \A i \in DOMAIN Joined(b, s) : i > Len(b) \/ i <= Len(b)
  <2>1. DOMAIN Joined(b, s) \subseteq Nat /\ Len(b) \in Nat
    BY <1>3
  <2>2. QED
    BY <2>1
<1>5. \A i \in DOMAIN Joined(b, s) :
        (\E j \in DOMAIN s : Joined(b, s)[i] = s[j]) \/ (\E j \in DOMAIN b : Joined(b, s)[i] = b[j])
  BY <1>3, <1>4
<1>6. \A i \in DOMAIN Joined(b, s) : Proper(Joined(b, s)[i])
  BY <1>5 DEF Weightless
<1>7. \A o : Engaged(Joined(b, s), o) => Engaged(b, o)
  BY <1>5 DEF Engaged, Weightless
<1>8. QED
  BY <1>2, <1>3, <1>6, <1>7

LEMMA FreshWeightless ==
  ASSUME NEW r, Fresh(r), r.kind # "Cross Dock", NEW what \in Measures, NEW of
  PROVE  Weight(r, what, of) = 0
<1>1. /\ Weight(r, "Left", of) = 0 /\ Weight(r, "Arrived", of) = 0
      /\ Weight(r, "Docked", of) = IF r.kind = "Cross Dock" /\ r.outbound = of THEN r.requested ELSE 0
  BY FreshWeights
<1>2. Weight(r, "Docked", of) = 0
  BY <1>1
<1>3. what \in {"Left", "Docked", "Arrived"}
  BY DEF Measures
<1>4. QED
  BY <1>1, <1>2, <1>3

LEMMA SingleRequest ==
  ASSUME NEW t, t \in RequestRow, NEW s, s \in Seq(RequestRow)
  PROVE  /\ <<t>> \in Seq(RequestRow) /\ DOMAIN <<t>> = {1} /\ <<t>>[1] = t
         /\ Append(s, t) = Joined(s, <<t>>)
BY AppendIsConcat DEF Joined

\* Rejects that are moved away concern neither the dock nor an outbound delivery.
LEMMA RejectsSame ==
  ASSUME RequestTypes, NEW r, Fresh(r), r.kind = "Internal Move"
  PROVE  Same(Append(request, Tasked(r, TRUE)))
<1> DEFINE t == Tasked(r, TRUE)
           s == <<t>>
<1>1. Similar(r, t)
  BY TaskedIs DEF Fresh
<1> HIDE DEF t
<1>2. t \in RequestRow /\ Proper(t) /\ t.kind = "Internal Move"
  BY <1>1 DEF Similar
<1>3. \A what \in Measures : \A of : Weight(t, what, of) = 0
  BY <1>1, FreshWeightless DEF Similar
<1>4. request \in Seq(RequestRow) /\ \A j \in DOMAIN request : Proper(request[j])
  BY DEF RequestTypes
<1>5. s \in Seq(RequestRow) /\ DOMAIN s = {1} /\ s[1] = t /\ Append(request, t) = Joined(request, s)
  BY <1>2, <1>4, SingleRequest
<1> HIDE DEF s
<1>6. Weightless(s)
  BY <1>2, <1>3, <1>5 DEF Weightless
<1>7. Same(Joined(request, s))
  BY <1>4, <1>6, WeightlessJoined DEF Same
<1>8. QED
  BY <1>5, <1>7 DEF t

LEMMA DecideIs ==
  ASSUME RequestTypes, NEW g \in Receipts, receipt[g] \in ReceiptRow, inspection[g] \in InspectionRow,
         NEW passed \in 0..receipt[g].quantity, NEW follow \in BOOLEAN, Decide(g, passed, follow)
  PROVE  Same(request') /\ UNCHANGED <<outbound, plan, free>>
<1>1. UNCHANGED <<outbound, plan, free>>
  BY DEF Decide, Decided
<1>2. CASE follow /\ passed < receipt[g].quantity
  <2> DEFINE q == receipt[g].quantity - passed
             r == NewRequest("Internal Move", g, Nothing, "BLOCKED", inspection[g].bin, q)
  <2>1. q \in Int /\ q > 0
    <3>1. receipt[g].quantity \in Nat
      BY ReceiptFields
    <3>2. QED
      BY <1>2, <3>1
  <2>2. inspection[g].bin \in Places
    BY DEF InspectionRow
  <2>3. request' = Append(request, Tasked(r, TRUE))
    BY <1>2 DEF Decide
  <2>4. r.kind = "Internal Move"
    BY DEF NewRequest
  <2> HIDE DEF q
  <2>5. Fresh(r)
    <3>1. "Internal Move" \in Kinds /\ "BLOCKED" \in Types /\ Nothing \in Outbounds \cup {Nothing}
      BY DEF Kinds, Types
    <3>2. QED
      BY <2>1, <2>2, <3>1, NewRequestIs
  <2> HIDE DEF r
  <2>6. QED
    BY <1>1, <2>3, <2>4, <2>5, RejectsSame
<1>3. CASE ~(follow /\ passed < receipt[g].quantity)
  <2>1. request' = request
    BY <1>3 DEF Decide
  <2>2. QED
    BY <1>1, <2>1, RequestSame
<1>4. QED
  BY <1>2, <1>3

\* A task is confirmed: its quantity has moved.
TaskDone(r, k) == WithStatus([r EXCEPT !.tasks[k].status = "Confirmed"])

LEMMA TaskDoneIs ==
  ASSUME NEW r \in RequestRow, Proper(r), NEW k \in DOMAIN r.tasks, r.tasks[k].status = "Open"
  PROVE  LET done == TaskDone(r, k) IN
         /\ done \in RequestRow /\ Proper(done) /\ done.status \in {"Completed", "In Process"}
         /\ done.kind = r.kind /\ done.outbound = r.outbound /\ done.receipt = r.receipt
         /\ done.requested = r.requested /\ done.type = r.type
         /\ MovedOf(done) = MovedOf(r) + r.tasks[k].planned
         /\ r.status \notin {"Open", "Completed", "Cancelled"}
<1> DEFINE task == [r.tasks[k] EXCEPT !.status = "Confirmed"]
           tasks == Put(r.tasks, k, task)
           part == [r EXCEPT !.tasks = tasks]
           status == IF \A j \in DOMAIN tasks : tasks[j].status = "Confirmed"
                     THEN "Completed" ELSE "In Process"
           done == TaskDone(r, k)
<1>1. r.tasks \in Seq(TaskRow) /\ r.tasks[k] \in TaskRow
  BY RequestFields
<1>2. task \in TaskRow /\ task.status = "Confirmed" /\ task.planned = r.tasks[k].planned
  BY <1>1 DEF TaskRow
<1>3. [r EXCEPT !.tasks[k].status = "Confirmed"] = part
  BY DEF Put, RequestRow
<1> HIDE DEF task
<1>4. /\ tasks \in Seq(TaskRow) /\ DOMAIN tasks = DOMAIN r.tasks
      /\ \A j \in DOMAIN tasks : tasks[j] = IF j = k THEN task ELSE r.tasks[j]
  BY <1>1, <1>2 DEF Put
<1>5. part \in RequestRow /\ part.tasks = tasks
  BY <1>4 DEF RequestRow
<1>6. done = [part EXCEPT !.status = status]
  BY <1>3, <1>5 DEF TaskDone, WithStatus
<1>7. /\ status \in {"Completed", "In Process"}
      /\ status = "Completed" => \A j \in DOMAIN tasks : tasks[j].status = "Confirmed"
  OBVIOUS
<1> HIDE DEF tasks, status
<1>8. /\ done \in RequestRow /\ done.status = status /\ done.tasks = tasks
      /\ done.kind = r.kind /\ done.outbound = r.outbound /\ done.receipt = r.receipt
      /\ done.requested = r.requested /\ done.type = r.type /\ done.source = r.source
  BY <1>4, <1>6, <1>7 DEF RequestRow
<1> HIDE DEF done, part
<1>9. Proper(done)
  <2>1. done.kind # "Putaway" => DOMAIN tasks \subseteq {1} /\ \A j \in DOMAIN tasks : tasks[j].planned = r.requested
    BY <1>2, <1>4, <1>8 DEF Proper
  <2>2. done.kind # "Internal Move" => done.source = "Receiving"
    BY <1>8 DEF Proper
  <2>3. done.kind = "Cross Dock" => done.outbound \in Outbounds
    BY <1>8 DEF Proper
  <2>4. done.status # "Open" /\ done.status # "Cancelled"
    BY <1>7, <1>8
  <2>5. done.status = "Completed" => \A j \in DOMAIN tasks : tasks[j].status # "Open"
    BY <1>7, <1>8
  <2>6. QED
    BY <1>8, <2>1, <2>2, <2>3, <2>4, <2>5 DEF Proper
<1>10. r.status \notin {"Open", "Completed", "Cancelled"}
  <2>1. r.tasks # <<>>
    OBVIOUS
  <2>2. QED
    BY <2>1 DEF Proper
<1>11. MovedOf(done) = MovedOf(r) + r.tasks[k].planned
  <2>1. MovedOf(r) = TotalOf(r.tasks, "Moved", Nothing) /\ MovedOf(r) \in Int
    BY <1>1, MovedIs
  <2>2. MovedOf(done) = TotalOf(tasks, "Moved", Nothing)
    BY <1>4, <1>8, MovedIs
  <2>3. Weight(task, "Moved", Nothing) = r.tasks[k].planned /\ Weight(r.tasks[k], "Moved", Nothing) = 0
    BY <1>2, TaskWeight DEF MovedTask
  <2>4. r.tasks[k].planned \in Int
    BY <1>1 DEF TaskRow
  <2>5. TotalOf(tasks, "Moved", Nothing) =
          TotalOf(r.tasks, "Moved", Nothing) + Weight(task, "Moved", Nothing) - Weight(r.tasks[k], "Moved", Nothing)
    <3>1. Weighed(r.tasks, "Moved", Nothing) /\ Weight(task, "Moved", Nothing) \in Int
      BY <1>1, <2>3, <2>4, TasksWeighed
    <3>2. QED
      BY <1>1, <1>2, <3>1, TotalPut DEF tasks
  <2>6. QED
    BY <2>1, <2>2, <2>3, <2>4, <2>5
<1>12. QED
  BY <1>7, <1>8, <1>9, <1>10, <1>11 DEF done

LEMMA PutRequest ==
  ASSUME NEW s, s \in Seq(RequestRow), NEW i \in DOMAIN s, NEW v, v \in RequestRow
  PROVE  /\ Put(s, i, v) \in Seq(RequestRow) /\ DOMAIN Put(s, i, v) = DOMAIN s
         /\ \A j \in DOMAIN s : Put(s, i, v)[j] = IF j = i THEN v ELSE s[j]
BY DEF Put

LEMMA PutRequestTotals ==
  ASSUME NEW s, s \in Seq(RequestRow), NEW i \in DOMAIN s, NEW v, v \in RequestRow,
         NEW what \in Measures, NEW of
  PROVE  /\ TotalOf(Put(s, i, v), what, of) = TotalOf(s, what, of) + Weight(v, what, of) - Weight(s[i], what, of)
         /\ TotalOf(s, what, of) \in Int /\ Weight(v, what, of) \in Int /\ Weight(s[i], what, of) \in Int
<1>1. Weighed(s, what, of)
  BY RequestsWeighed
<1>2. Weight(v, what, of) \in Int
  <2>1. Put(s, i, v) \in Seq(RequestRow) /\ i \in DOMAIN Put(s, i, v) /\ Put(s, i, v)[i] = v
    BY PutRequest
  <2>2. Weighed(Put(s, i, v), what, of)
    BY <2>1, RequestsWeighed
  <2>3. QED
    BY <2>1, <2>2 DEF Weighed
<1>3. QED
  BY <1>1, <1>2, TotalPut, RequestTotals DEF Weighed

Moves(r, done, q) ==
  /\ q \in Int /\ MovedOf(r) \in Int
  /\ r.status # "Cancelled" /\ done.status # "Cancelled"
  /\ done.kind = r.kind /\ done.outbound = r.outbound /\ done.receipt = r.receipt
  /\ done.requested = r.requested /\ MovedOf(done) = MovedOf(r) + q
MoreArrived(r, q, o) == IF r.kind = "Cross Dock" /\ r.outbound = o THEN q ELSE 0
MoreLeft(r, q, g) == IF r.receipt = g /\ r.kind # "Internal Move" THEN q ELSE 0

LEMMA WeightsMore ==
  ASSUME NEW r, NEW done, NEW q, Moves(r, done, q), NEW of
  PROVE  /\ Weight(done, "Docked", of) = Weight(r, "Docked", of)
         /\ Weight(done, "Arrived", of) = Weight(r, "Arrived", of) + MoreArrived(r, q, of)
         /\ Weight(done, "Left", of) = Weight(r, "Left", of) + MoreLeft(r, q, of)
         /\ MoreArrived(r, q, of) \in Int /\ MoreLeft(r, q, of) \in Int
<1>1. Weight(done, "Docked", of) = Weight(r, "Docked", of)
  BY DEF Weight, Docking, Moves
<1>2. Weight(done, "Arrived", of) = Weight(r, "Arrived", of) + MoreArrived(r, q, of)
  BY DEF Weight, Docking, Moves, MoreArrived
<1>3. Weight(done, "Left", of) = Weight(r, "Left", of) + MoreLeft(r, q, of)
  BY DEF Weight, Moves, MoreLeft
<1>4. q \in Int
  BY DEF Moves
<1>5. MoreArrived(r, q, of) \in {0, q} /\ MoreLeft(r, q, of) \in {0, q}
  BY DEF MoreArrived, MoreLeft
<1>6. MoreArrived(r, q, of) \in Int /\ MoreLeft(r, q, of) \in Int
  BY <1>4, <1>5
<1>7. QED
  BY <1>1, <1>2, <1>3, <1>6

LEMMA ConfirmedTotals ==
  ASSUME RequestTypes, NEW i \in DOMAIN request, NEW k \in DOMAIN request[i].tasks,
         request[i].tasks[k].status = "Open", request' = Put(request, i, TaskDone(request[i], k))
  PROVE  LET r == request[i]
             q == r.tasks[k].planned
         IN
         /\ RequestTypes'
         /\ \A of : TotalOf(request', "Docked", of) = TotalOf(request, "Docked", of)
         /\ \A of : TotalOf(request', "Arrived", of) = TotalOf(request, "Arrived", of) + MoreArrived(r, q, of)
         /\ \A of : TotalOf(request', "Left", of) = TotalOf(request, "Left", of) + MoreLeft(r, q, of)
         /\ \A o : Engaged(request', o) => Engaged(request, o)
         /\ r.kind = "Cross Dock" => Engaged(request, r.outbound)
<1> DEFINE r == request[i]
           q == r.tasks[k].planned
           done == TaskDone(r, k)
<1>1. request \in Seq(RequestRow) /\ r \in RequestRow /\ Proper(r) /\ \A j \in DOMAIN request : Proper(request[j])
  BY DEF RequestTypes
<1>2. q \in Int
  <2>1. r.tasks[k] \in TaskRow
    BY <1>1, RequestFields
  <2>2. QED
    BY <2>1 DEF TaskRow
<1>3. /\ done \in RequestRow /\ Proper(done) /\ done.status \in {"Completed", "In Process"}
      /\ done.kind = r.kind /\ done.outbound = r.outbound /\ done.receipt = r.receipt
      /\ done.requested = r.requested /\ MovedOf(done) = MovedOf(r) + q
      /\ r.status \notin {"Open", "Completed", "Cancelled"}
  BY <1>1, TaskDoneIs
<1>0. request' = Put(request, i, done)
  OBVIOUS
<1> HIDE DEF done
<1>4. /\ request' \in Seq(RequestRow) /\ DOMAIN request' = DOMAIN request
      /\ \A j \in DOMAIN request : request'[j] = IF j = i THEN done ELSE request[j]
  <2>1. request \in Seq(RequestRow)
    BY <1>1
  <2>2. done \in RequestRow
    BY <1>3
  <2>3. /\ Put(request, i, done) \in Seq(RequestRow) /\ DOMAIN Put(request, i, done) = DOMAIN request
        /\ \A j \in DOMAIN request : Put(request, i, done)[j] = IF j = i THEN done ELSE request[j]
    BY <2>1, <2>2, PutRequest
  <2>4. QED
    BY <1>0, <2>3
<1>5. RequestTypes'
  BY <1>1, <1>3, <1>4 DEF RequestTypes
<1>6. MovedOf(r) \in Int /\ r.requested \in Int
  <2>1. r.tasks \in Seq(TaskRow) /\ r.requested \in Nat
    BY <1>1, RequestFields
  <2>2. QED
    BY <2>1, MovedIs
<1> HIDE DEF q
<1>7. ASSUME NEW of
      PROVE  /\ Weight(done, "Docked", of) = Weight(r, "Docked", of)
             /\ Weight(done, "Arrived", of) = Weight(r, "Arrived", of) + MoreArrived(r, q, of)
             /\ Weight(done, "Left", of) = Weight(r, "Left", of) + MoreLeft(r, q, of)
             /\ MoreArrived(r, q, of) \in Int /\ MoreLeft(r, q, of) \in Int
  <2>1. Moves(r, done, q)
    BY <1>2, <1>3, <1>6 DEF Moves
  <2> HIDE DEF r
  <2>2. QED
    BY <2>1, WeightsMore
<1>8. ASSUME NEW what \in Measures, NEW of
      PROVE  /\ TotalOf(request', what, of) = TotalOf(request, what, of) + Weight(done, what, of) - Weight(r, what, of)
             /\ TotalOf(request, what, of) \in Int
             /\ Weight(r, what, of) \in Int /\ Weight(done, what, of) \in Int
  <2>1. request \in Seq(RequestRow)
    BY <1>1
  <2>2. done \in RequestRow
    BY <1>3
  <2>3. QED
    BY <1>0, <2>1, <2>2, PutRequestTotals
<1>9. "Docked" \in Measures /\ "Arrived" \in Measures /\ "Left" \in Measures
  BY DEF Measures
<1>10. ASSUME NEW of
       PROVE  /\ TotalOf(request', "Docked", of) = TotalOf(request, "Docked", of)
              /\ TotalOf(request', "Arrived", of) = TotalOf(request, "Arrived", of) + MoreArrived(r, q, of)
              /\ TotalOf(request', "Left", of) = TotalOf(request, "Left", of) + MoreLeft(r, q, of)
  <2>1. ASSUME NEW t \in Int, NEW a \in Int, NEW b \in Int, NEW c \in Int, b = a + c
        PROVE  t + b - a = t + c
    BY <2>1
  <2>2. TotalOf(request', "Docked", of) = TotalOf(request, "Docked", of)
    <3> DEFINE t == TotalOf(request, "Docked", of)
               a == Weight(r, "Docked", of)
    <3>1. t \in Int /\ a \in Int /\ TotalOf(request', "Docked", of) = t + a - a
      BY <1>7, <1>8, <1>9
    <3> HIDE DEF t, a
    <3>2. t + a - a = t
      BY <3>1
    <3>3. QED
      BY <3>1, <3>2 DEF t
  <2>3. TotalOf(request', "Arrived", of) = TotalOf(request, "Arrived", of) + MoreArrived(r, q, of)
    BY <1>7, <1>8, <1>9, <2>1
  <2>4. TotalOf(request', "Left", of) = TotalOf(request, "Left", of) + MoreLeft(r, q, of)
    BY <1>7, <1>8, <1>9, <2>1
  <2>5. QED
    BY <2>2, <2>3, <2>4
<1>11. ASSUME NEW o, Engaged(request', o)
       PROVE  Engaged(request, o)
  <2>1. PICK j \in DOMAIN request : request'[j].kind = "Cross Dock" /\ request'[j].outbound = o /\ ~Ended(request'[j])
    BY <1>4, <1>11 DEF Engaged
  <2>2. ~Ended(r)
    BY <1>3 DEF Ended
  <2>3. request[j].kind = "Cross Dock" /\ request[j].outbound = o /\ ~Ended(request[j])
    <3>1. CASE j = i
      BY <1>3, <1>4, <2>1, <2>2, <3>1
    <3>2. CASE j # i
      BY <1>4, <2>1, <3>2
    <3>3. QED
      BY <3>1, <3>2
  <2>4. QED
    BY <2>3 DEF Engaged
<1>12. r.kind = "Cross Dock" => Engaged(request, r.outbound)
  BY <1>3 DEF Engaged, Ended
<1>13. QED
  BY <1>5, <1>10, <1>11, <1>12 DEF q

LEMMA ArrivedInBounds ==
  ASSUME NEW s, s \in Seq(RequestRow), \A i \in DOMAIN s : Proper(s[i]), NEW o
  PROVE  TotalOf(s, "Arrived", o) \in Nat /\ TotalOf(s, "Arrived", o) <= TotalOf(s, "Docked", o)
<1>1. "Arrived" \in Measures /\ "Docked" \in Measures
  BY DEF Measures
<1>2. Weighed(s, "Arrived", o) /\ Weighed(s, "Docked", o)
  BY <1>1, RequestsWeighed
<1>3. ASSUME NEW i \in DOMAIN s
      PROVE  Weight(s[i], "Arrived", o) \in Nat /\ Weight(s[i], "Arrived", o) <= Weight(s[i], "Docked", o)
  <2>1. s[i] \in RequestRow /\ Proper(s[i])
    OBVIOUS
  <2>2. /\ Weight(s[i], "Docked", o) = IF Docking(s[i], o) THEN s[i].requested ELSE 0
        /\ Weight(s[i], "Arrived", o) = IF Docking(s[i], o) THEN MovedOf(s[i]) ELSE 0
    BY WeightsAre
  <2>3. CASE Docking(s[i], o)
    <3>1. s[i].kind # "Putaway"
      BY <2>3 DEF Docking
    <3>2. MovedOf(s[i]) \in 0..s[i].requested
      BY <2>1, <3>1, MovedInBounds
    <3>3. s[i].requested \in Nat
      BY <2>1, RequestFields
    <3>4. MovedOf(s[i]) \in Nat /\ MovedOf(s[i]) <= s[i].requested
      BY <3>2, <3>3
    <3>5. QED
      BY <2>2, <2>3, <3>4
  <2>4. CASE ~Docking(s[i], o)
    BY <2>2, <2>4
  <2>5. QED
    BY <2>3, <2>4
<1>4. QED
  BY <1>2, <1>3, TotalNat, TotalAtMost

LEMMA PromisedNat ==
  ASSUME NEW s, RowsOK(s), NEW o
  PROVE  TotalOf(s, "Promised", o) \in Nat
<1>1. ASSUME NEW i \in DOMAIN s
      PROVE  Weight(s[i], "Promised", o) \in Nat
  <2>1. s[i] \in PlanRow /\ s[i].consumed <= s[i].planned
    BY DEF RowsOK
  <2>2. s[i].planned \in Nat /\ s[i].consumed \in Nat
    BY <2>1, PlanFields
  <2>3. s[i].planned - s[i].consumed \in Nat
    BY <2>1, <2>2
  <2>4. QED
    BY <2>3, PromisedWeight
<1>2. QED
  BY <1>1, TotalNat DEF RowsOK

\* Goods arrive at an outbound delivery that was promised them.
LEMMA ArrivingLine ==
  ASSUME NEW o, NEW old \in OutboundRow, NEW q, q \in Int, NEW reqs, reqs \in Seq(RequestRow),
         NEW reqs2, reqs2 \in Seq(RequestRow), \A j \in DOMAIN reqs2 : Proper(reqs2[j]),
         NEW rows, RowsOK(rows), Line(old, reqs, rows, o), Engaged(reqs, o),
         TotalOf(reqs2, "Docked", o) = TotalOf(reqs, "Docked", o),
         TotalOf(reqs2, "Arrived", o) = TotalOf(reqs, "Arrived", o) + q
  PROVE  LET row == [old EXCEPT !.picked = @ + q, !.allocated = Larger(@, old.picked + q)]
             new == WithPickingStatus(row, o, reqs2)
         IN  new \in OutboundRow /\ Line(new, reqs2, rows, o)
<1> DEFINE picked == old.picked + q
           most == Larger(old.allocated, picked)
           row == [old EXCEPT !.picked = picked, !.allocated = most]
           new == WithPickingStatus(row, o, reqs2)
           d == TotalOf(reqs, "Docked", o)
           p == TotalOf(rows, "Promised", o)
           a == TotalOf(reqs2, "Arrived", o)
<1>1. old.requested \in Nat /\ old.allocated \in Nat /\ old.picked \in Nat /\ old.fromStock \in Nat
  BY OutboundFields
<1>2. /\ old.docstatus = 1 /\ old.status # "Completed"
      /\ old.allocated = old.fromStock + d + p
      /\ old.allocated <= old.requested /\ picked = a
  BY DEF Line
<1>3. d \in Int
  BY RequestTotals DEF Measures
<1>4. a \in Nat /\ a <= d
  BY ArrivedInBounds
<1>5. p \in Nat
  BY PromisedNat
<1> HIDE DEF d, p, a
<1>6. a <= old.allocated
  BY <1>1, <1>2, <1>3, <1>4, <1>5
<1>7. picked = a /\ most = old.allocated
  BY <1>1, <1>2, <1>4, <1>6 DEF Larger
<1> HIDE DEF picked, most
<1>8. /\ row \in OutboundRow /\ row.docstatus = 1 /\ row.status # "Completed"
      /\ row.allocated = old.allocated /\ row.picked = a
      /\ row.requested = old.requested /\ row.fromStock = old.fromStock
  BY <1>1, <1>2, <1>4, <1>7 DEF OutboundRow
<1>9. [old EXCEPT !.picked = @ + q, !.allocated = Larger(@, old.picked + q)] = row
  BY DEF picked, most
<1> HIDE DEF row
<1>10. /\ new \in OutboundRow /\ new.docstatus = row.docstatus /\ new.requested = row.requested
       /\ new.allocated = row.allocated /\ new.picked = row.picked /\ new.fromStock = row.fromStock
       /\ new.status = row.status \/ new.status = "Picked"
  BY <1>8, PickingStatusIs
<1> HIDE DEF new
<1>11. new.docstatus = 1 /\ new.status # "Completed"
  BY <1>8, <1>10
<1>12. a <= old.requested
  BY <1>1, <1>2, <1>4, <1>6
<1>13. Line(new, reqs2, rows, o)
  BY <1>2, <1>8, <1>10, <1>11, <1>12 DEF Line, a, d, p
<1>14. QED
  BY <1>9, <1>10, <1>13 DEF new

LEMMA ConfirmTaskIs ==
  ASSUME RequestTypes, NEW i \in DOMAIN request, NEW k \in DOMAIN request[i].tasks, ConfirmTask(i, k)
  PROVE  /\ request[i].tasks[k].status = "Open" /\ request' = Put(request, i, TaskDone(request[i], k))
         /\ request[i] \in RequestRow /\ Proper(request[i]) /\ request[i].tasks[k].planned \in Int
<1>1. request[i].tasks[k].status = "Open" /\ request' = Put(request, i, TaskDone(request[i], k))
  BY DEF ConfirmTask, Put, TaskDone
<1>2. request[i] \in RequestRow /\ Proper(request[i])
  BY DEF RequestTypes
<1>3. request[i].tasks[k] \in TaskRow
  BY <1>2, RequestFields
<1>4. request[i].tasks[k].planned \in Int
  BY <1>3 DEF TaskRow
<1>5. QED
  BY <1>1, <1>2, <1>4

LEMMA ConfirmTaskKeepsCross ==
  ASSUME RequestTypes, CrossInv, NEW i \in DOMAIN request, NEW k \in DOMAIN request[i].tasks, ConfirmTask(i, k)
  PROVE  CrossInv' /\ RequestTypes'
<1> DEFINE r == request[i]
           q == r.tasks[k].planned
<1>1. /\ RequestTypes'
      /\ \A of : TotalOf(request', "Docked", of) = TotalOf(request, "Docked", of)
      /\ \A of : TotalOf(request', "Arrived", of) = TotalOf(request, "Arrived", of) + MoreArrived(r, q, of)
      /\ \A o : Engaged(request', o) => Engaged(request, o)
      /\ r.kind = "Cross Dock" => Engaged(request, r.outbound)
  BY ConfirmTaskIs, ConfirmedTotals
<1>2. q \in Int /\ Proper(r)
  BY ConfirmTaskIs
<1>3. CrossTypes /\ \A o \in Outbounds : Line(outbound[o], request, plan, o)
  BY CrossIs
<1>4. request \in Seq(RequestRow) /\ request' \in Seq(RequestRow) /\ \A j \in DOMAIN request' : Proper(request'[j])
  BY <1>1 DEF RequestTypes
<1>5. \A o : TotalOf(request, "Arrived", o) \in Int
  BY <1>4, RequestTotals DEF Measures
<1>6. plan' = plan /\ free' = free
  BY DEF ConfirmTask
<1>7. ASSUME NEW o, MoreArrived(r, q, o) = 0
      PROVE  TotalOf(request', "Arrived", o) = TotalOf(request, "Arrived", o)
  <2>1. TotalOf(request', "Arrived", o) = TotalOf(request, "Arrived", o) + 0
    BY <1>1, <1>7
  <2>2. QED
    BY <1>5, <2>1
<1>8. CASE r.kind # "Cross Dock"
  <2>1. outbound' = outbound
    BY <1>8 DEF ConfirmTask
  <2>2. \A o : MoreArrived(r, q, o) = 0
    BY <1>8 DEF MoreArrived
  <2>3. QED
    BY <1>1, <1>6, <1>7, <2>1, <2>2, RequestsKeepCross
<1>9. CASE r.kind = "Cross Dock"
  <2> DEFINE o == r.outbound
             new == Fulfilled(o, q, request')
  <2>1. o \in Outbounds /\ Engaged(request, o)
    BY <1>1, <1>2, <1>9 DEF Proper
  <2>2. outbound' = [outbound EXCEPT ![o] = new]
    BY <1>9 DEF ConfirmTask
  <2>3. MoreArrived(r, q, o) = q /\ \A p : p # o => MoreArrived(r, q, p) = 0
    BY <1>9 DEF MoreArrived
  <2> HIDE DEF r, q, o
  <2>4. new \in OutboundRow /\ Line(new, request', plan, o)
    <3> DEFINE old == outbound[o]
               row == [old EXCEPT !.picked = @ + q, !.allocated = Larger(@, old.picked + q)]
    <3>1. new = WithPickingStatus(row, o, request')
      BY DEF Fulfilled
    <3>2. old \in OutboundRow /\ Line(old, request, plan, o)
      BY <1>3, <2>1, OutboundRows
    <3>3. RowsOK(plan)
      BY <1>3 DEF CrossTypes, RowsOK
    <3>4. /\ TotalOf(request', "Docked", o) = TotalOf(request, "Docked", o)
          /\ TotalOf(request', "Arrived", o) = TotalOf(request, "Arrived", o) + q
      BY <1>1, <2>3
    <3>5. q \in Int
      BY <1>2
    <3> HIDE DEF old, new
    <3>6. WithPickingStatus(row, o, request') \in OutboundRow /\ Line(WithPickingStatus(row, o, request'), request', plan, o)
      BY <1>4, <2>1, <3>2, <3>3, <3>4, <3>5, ArrivingLine
    <3>7. QED
      BY <3>1, <3>6
  <2> HIDE DEF new
  <2>5. CrossTypes'
    <3>1. outbound \in [Outbounds -> OutboundRow]
      BY <1>3 DEF CrossTypes
    <3>2. outbound' \in [Outbounds -> OutboundRow]
      BY <2>1, <2>2, <2>4, <3>1
    <3>3. QED
      BY <1>3, <1>6, <3>2 DEF CrossTypes
  <2>6. ASSUME NEW p \in Outbounds
        PROVE  Line(outbound'[p], request', plan', p)
    <3>0. outbound \in [Outbounds -> OutboundRow]
      BY <1>3 DEF CrossTypes
    <3>1. CASE p = o
      <4>1. outbound'[p] = new
        BY <2>2, <3>0, <3>1
      <4>2. QED
        BY <1>6, <2>4, <3>1, <4>1
    <3>2. CASE p # o
      <4>1. outbound'[p] = outbound[p] /\ Line(outbound[p], request, plan, p)
        BY <1>3, <2>2, <3>0, <3>2
      <4>2. TotalOf(request', "Arrived", p) = TotalOf(request, "Arrived", p)
        BY <1>7, <2>3, <3>2
      <4>3. Line(outbound[p], request', plan, p)
        BY <1>1, <4>1, <4>2, LineStays
      <4>4. QED
        BY <1>6, <4>1, <4>3
    <3>3. QED
      BY <3>1, <3>2
  <2>7. QED
    BY <1>1, <2>5, <2>6, CrossFromLines
<1>10. QED
  BY <1>8, <1>9

\* One outbound delivery is written.
LEMMA OneLineKeepsCross ==
  ASSUME CrossTypes, RequestTypes', RowsOK(plan'), free' \in Nat, NEW o \in Outbounds,
         NEW new, new \in OutboundRow, outbound' = Put(outbound, o, new),
         Line(new, request', plan', o),
         \A p \in Outbounds : p # o => Line(outbound[p], request', plan', p)
  PROVE  CrossInv'
<1>1. outbound \in [Outbounds -> OutboundRow]
  BY DEF CrossTypes
<1>2. /\ outbound' \in [Outbounds -> OutboundRow] /\ outbound'[o] = new
      /\ \A p \in Outbounds : p # o => outbound'[p] = outbound[p]
  BY <1>1 DEF Put
<1>3. CrossTypes'
  BY <1>2 DEF CrossTypes, RowsOK
<1>4. \A p \in Outbounds : Line(outbound'[p], request', plan', p)
  BY <1>2
<1>5. QED
  BY <1>3, <1>4, CrossFromLines

LEMMA AllocateKeepsCross ==
  ASSUME RequestTypes, CrossInv, NEW o \in Outbounds, Allocate(o)
  PROVE  CrossInv' /\ RequestTypes'
<1> DEFINE old == outbound[o]
           q == Smaller(old.requested - old.allocated, free)
           more == old.allocated + q
           held == old.fromStock + q
           new == [old EXCEPT !.allocated = more, !.fromStock = held]
           d == TotalOf(request, "Docked", o)
           p == TotalOf(plan, "Promised", o)
<1>1. CrossTypes /\ \A r \in Outbounds : Line(outbound[r], request, plan, r)
  BY CrossIs
<1>2. old \in OutboundRow /\ old.requested \in Nat /\ old.allocated \in Nat /\ old.fromStock \in Nat /\ free \in Nat
  BY <1>1, OutboundRows DEF CrossTypes
<1>3. old.docstatus = 1 /\ q > 0 /\ free' = free - q /\ plan' = plan /\ request' = request
  BY DEF Allocate
<1>4. q \in Nat /\ q <= free /\ q <= old.requested - old.allocated
  BY <1>2, <1>3 DEF Smaller
<1>5. outbound' = Put(outbound, o, new)
  BY <1>1 DEF Allocate, Put, CrossTypes
<1> HIDE DEF q
<1>6. more \in Nat /\ held \in Nat /\ free' \in Nat /\ more <= old.requested
  BY <1>2, <1>3, <1>4
<1>7. old.status # "Completed"
  <2>1. CASE old.status = "Completed"
    <3>1. old.requested = 0
      BY <1>1, <1>3, <2>1 DEF Line
    <3>2. FALSE
      BY <1>2, <1>3, <1>4, <3>1
    <3>3. QED
      BY <3>2
  <2>2. QED
    BY <2>1
<1>8. /\ old.allocated = old.fromStock + d + p /\ old.picked <= old.requested
      /\ old.picked = TotalOf(request, "Arrived", o)
  BY <1>1, <1>3, <1>7 DEF Line
<1>9. d \in Int /\ p \in Int
  BY <1>1, RequestTotals, PlanTotals DEF Measures, RequestTypes, CrossTypes
<1> HIDE DEF d, p
<1>10. more = held + d + p
  BY <1>2, <1>4, <1>8, <1>9
<1> HIDE DEF more, held, old
<1>11. /\ new \in OutboundRow /\ new.docstatus = 1 /\ new.status # "Completed"
       /\ new.allocated = more /\ new.fromStock = held /\ new.requested = old.requested /\ new.picked = old.picked
  BY <1>2, <1>3, <1>6, <1>7 DEF OutboundRow
<1> HIDE DEF new
<1>12. Line(new, request, plan, o)
  BY <1>6, <1>8, <1>10, <1>11 DEF Line, d, p
<1>13. RequestTypes' /\ RowsOK(plan')
  BY <1>1, <1>3 DEF RequestTypes, CrossTypes, RowsOK
<1>14. QED
  BY <1>1, <1>3, <1>5, <1>6, <1>11, <1>12, <1>13, OneLineKeepsCross

\* What withdrawn plan rows give back to an outbound delivery.
Back(rows, o) == SumOf([i \in DOMAIN plan |-> OpenPlan(i)], {i \in rows : plan[i].outbound = o})

LEMMA WithdrawnRow ==
  ASSUME CrossTypes, NEW rows, NEW i \in DOMAIN plan
  PROVE  LET row == Withdrawn(rows)[i] IN
         /\ row \in PlanRow /\ row.consumed <= row.planned /\ row.outbound = plan[i].outbound
         /\ row.status = "Planned" => plan[i].status = "Planned" /\ i \notin rows
         /\ \A o : Weight(plan[i], "Promised", o) =
                     Weight(row, "Promised", o) + (IF i \in rows /\ plan[i].outbound = o THEN OpenPlan(i) ELSE 0)
<1> DEFINE row == Withdrawn(rows)[i]
<1>1. /\ plan[i] \in PlanRow /\ plan[i].planned \in Nat /\ plan[i].consumed \in Nat
      /\ plan[i].consumed <= plan[i].planned
  BY PlanRows, PlanFields DEF CrossTypes
<1>2. row = IF i \in rows /\ plan[i].status = "Planned"
            THEN [plan[i] EXCEPT !.status = "Cancelled"] ELSE plan[i]
  BY DEF Withdrawn
<1> HIDE DEF row
<1>3. OpenPlan(i) = IF plan[i].status = "Planned" THEN plan[i].planned - plan[i].consumed ELSE 0
  BY DEF OpenPlan
<1>4. CASE i \in rows /\ plan[i].status = "Planned"
  <2>1. row \in PlanRow /\ row.consumed <= row.planned /\ row.outbound = plan[i].outbound /\ row.status = "Cancelled"
    BY <1>1, <1>2, <1>4 DEF PlanRow
  <2>2. \A o : Weight(row, "Promised", o) = 0
    BY <2>1, PromisedWeight
  <2>3. \A o : Weight(plan[i], "Promised", o) = IF plan[i].outbound = o THEN OpenPlan(i) ELSE 0
    BY <1>3, <1>4, PromisedWeight
  <2>4. OpenPlan(i) \in Int
    BY PlanRows
  <2>5. ASSUME NEW o
        PROVE  Weight(plan[i], "Promised", o) =
                 Weight(row, "Promised", o) + (IF i \in rows /\ plan[i].outbound = o THEN OpenPlan(i) ELSE 0)
    <3>1. CASE plan[i].outbound = o
      BY <1>4, <2>2, <2>3, <2>4, <3>1
    <3>2. CASE plan[i].outbound # o
      BY <2>2, <2>3, <3>2
    <3>3. QED
      BY <3>1, <3>2
  <2>6. QED
    BY <2>1, <2>5 DEF row
<1>5. CASE ~(i \in rows /\ plan[i].status = "Planned")
  <2>1. row = plan[i]
    BY <1>2, <1>5
  <2>2. row.status = "Planned" => plan[i].status = "Planned" /\ i \notin rows
    BY <1>5, <2>1
  <2>3. i \in rows => OpenPlan(i) = 0
    BY <1>3, <1>5
  <2>4. ASSUME NEW o
        PROVE  Weight(plan[i], "Promised", o) =
                 Weight(row, "Promised", o) + (IF i \in rows /\ plan[i].outbound = o THEN OpenPlan(i) ELSE 0)
    <3>1. (IF i \in rows /\ plan[i].outbound = o THEN OpenPlan(i) ELSE 0) = 0
      BY <2>3
    <3>2. Weight(plan[i], "Promised", o) \in Int
      BY PlansWeighed DEF Weighed, CrossTypes
    <3>3. QED
      BY <2>1, <3>1, <3>2
  <2>5. QED
    BY <1>1, <2>1, <2>2, <2>4 DEF row
<1>6. QED
  BY <1>4, <1>5

LEMMA BackIs ==
  ASSUME CrossTypes, NEW rows \in SUBSET DOMAIN plan, NEW o
  PROVE  /\ Back(rows, o) = SumFunctionOnSet([i \in DOMAIN plan |->
                              IF i \in rows /\ plan[i].outbound = o THEN OpenPlan(i) ELSE 0], DOMAIN plan)
         /\ Back(rows, o) \in Nat
<1> DEFINE D == DOMAIN plan
           f == [i \in D |-> OpenPlan(i)]
           T == {i \in rows : plan[i].outbound = o}
           g == [i \in D |-> IF i \in rows /\ plan[i].outbound = o THEN OpenPlan(i) ELSE 0]
<1>1. IsFiniteSet(D) /\ \A i \in D : OpenPlan(i) \in Nat
  BY PlanRows
<1>2. /\ T \in SUBSET D /\ \A i \in T : g[i] = f[i]
      /\ \A i \in D \ T : g[i] = 0
  OBVIOUS
<1>3. \A i \in D : g[i] \in {0, OpenPlan(i)}
  OBVIOUS
<1>4. \A i \in D : g[i] \in Nat
  BY <1>1, <1>3
<1>5. Back(rows, o) = SumOf(f, T)
  BY DEF Back
<1> HIDE DEF D, f, T, g
<1>6. SumOf(f, T) = SumOf(g, D)
  BY <1>1, <1>2, <1>4, SumOfPart
<1>7. SumFunctionOnSet(g, D) \in Nat
  BY <1>1, <1>4, SumNat
<1>8. QED
  BY <1>5, <1>6, <1>7 DEF SumOf, g, D

LEMMA WithdrawnIs ==
  ASSUME CrossTypes, NEW rows \in SUBSET DOMAIN plan
  PROVE  /\ RowsOK(Withdrawn(rows))
         /\ \A o : TotalOf(plan, "Promised", o) = TotalOf(Withdrawn(rows), "Promised", o) + Back(rows, o)
         /\ \A o : Foreseen(Withdrawn(rows), o) => \E i \in DOMAIN plan \ rows : plan[i].outbound = o /\ plan[i].status = "Planned"
<1> DEFINE new == Withdrawn(rows)
           D == DOMAIN plan
<1>1. IsFiniteSet(D) /\ D = 1..Len(plan) /\ Len(plan) \in Nat /\ plan \in Seq(PlanRow)
  BY PlanRows DEF CrossTypes
<1>2. new = [i \in D |-> new[i]]
  BY DEF Withdrawn
<1>3. ASSUME NEW i \in D
      PROVE  /\ new[i] \in PlanRow /\ new[i].consumed <= new[i].planned /\ new[i].outbound = plan[i].outbound
             /\ new[i].status = "Planned" => plan[i].status = "Planned" /\ i \notin rows
             /\ \A o : Weight(plan[i], "Promised", o) =
                         Weight(new[i], "Promised", o) + (IF i \in rows /\ plan[i].outbound = o THEN OpenPlan(i) ELSE 0)
  BY WithdrawnRow
<1> HIDE DEF new
<1>4. new \in Seq(PlanRow) /\ DOMAIN new = D
  BY <1>1, <1>2, <1>3
<1>5. RowsOK(new)
  BY <1>3, <1>4 DEF RowsOK
<1>6. \A o : Foreseen(new, o) => \E i \in D \ rows : plan[i].outbound = o /\ plan[i].status = "Planned"
  BY <1>3, <1>4 DEF Foreseen
<1>7. ASSUME NEW o
      PROVE  TotalOf(plan, "Promised", o) = TotalOf(new, "Promised", o) + Back(rows, o)
  <2> DEFINE f == Parts(new, "Promised", o)
             g == [i \in D |-> IF i \in rows /\ plan[i].outbound = o THEN OpenPlan(i) ELSE 0]
             h == Parts(plan, "Promised", o)
  <2>1. \A i \in D : f[i] \in Int
    BY <1>4, PlansWeighed, PartsAre
  <2>2. \A i \in D : g[i] \in Int
    <3>1. \A i \in D : g[i] \in {0, OpenPlan(i)} /\ OpenPlan(i) \in Int
      BY PlanRows
    <3>2. QED
      BY <3>1
  <2>3. \A i \in D : h[i] = f[i] + g[i]
    BY <1>3, <1>4 DEF Parts
  <2>4. /\ TotalOf(plan, "Promised", o) = SumFunctionOnSet(h, D)
        /\ TotalOf(new, "Promised", o) = SumFunctionOnSet(f, D)
        /\ Back(rows, o) = SumFunctionOnSet(g, D)
    BY <1>4, BackIs DEF TotalOf
  <2> HIDE DEF f, g, h, D
  <2>5. SumFunctionOnSet(h, D) = SumFunctionOnSet(f, D) + SumFunctionOnSet(g, D)
    BY <1>1, <2>1, <2>2, <2>3, SumPlus
  <2>6. QED
    BY <2>4, <2>5
<1>8. QED
  BY <1>5, <1>6, <1>7 DEF new, D

\* Demand that will not be met from a plan row is open again.
LessAllocated(row, b) == [row EXCEPT !.allocated = Larger(row.allocated - b, 0)]

LEMMA GivenBackLine ==
  ASSUME NEW o, NEW old \in OutboundRow, NEW b, b \in Nat, NEW reqs, reqs \in Seq(RequestRow),
         \A j \in DOMAIN reqs : Proper(reqs[j]), NEW rows, RowsOK(rows), NEW rows2, RowsOK(rows2),
         Line(old, reqs, rows, o), TotalOf(rows, "Promised", o) = TotalOf(rows2, "Promised", o) + b,
         Foreseen(rows2, o) => Foreseen(rows, o)
  PROVE  LessAllocated(old, b) \in OutboundRow /\ Line(LessAllocated(old, b), reqs, rows2, o)
<1> DEFINE less == Larger(old.allocated - b, 0)
           new == [old EXCEPT !.allocated = less]
           d == TotalOf(reqs, "Docked", o)
           p == TotalOf(rows, "Promised", o)
           q == TotalOf(rows2, "Promised", o)
<1>1. old.requested \in Nat /\ old.allocated \in Nat /\ old.picked \in Nat /\ old.fromStock \in Nat
  BY OutboundFields
<1>2. d \in Int /\ TotalOf(reqs, "Arrived", o) \in Nat /\ TotalOf(reqs, "Arrived", o) <= d
  BY ArrivedInBounds, RequestTotals DEF Measures
<1>3. q \in Nat /\ p = q + b
  BY PromisedNat
<1>4. /\ less \in Nat
      /\ old.allocated - b >= 0 => less = old.allocated - b
      /\ less <= old.allocated
  BY <1>1 DEF Larger
<1>5. LessAllocated(old, b) = new
  BY DEF LessAllocated
<1> HIDE DEF less
<1>6. /\ new \in OutboundRow /\ new.docstatus = old.docstatus /\ new.status = old.status
      /\ new.requested = old.requested /\ new.allocated = less
      /\ new.picked = old.picked /\ new.fromStock = old.fromStock
  BY <1>4 DEF OutboundRow
<1> HIDE DEF new
<1>7. CASE old.docstatus = 1 /\ old.status # "Completed"
  <2>1. /\ old.allocated = old.fromStock + d + p
        /\ old.allocated <= old.requested /\ old.picked <= old.requested
        /\ old.picked = TotalOf(reqs, "Arrived", o)
    BY <1>7 DEF Line
  <2>2. d \in Nat
    BY <1>2
  <2> HIDE DEF d, p, q
  <2>3. old.allocated = old.fromStock + d + q + b
    <3>1. old.allocated = old.fromStock + d + (q + b)
      BY <1>3, <2>1
    <3>2. QED
      BY <1>1, <1>3, <2>2, <3>1
  <2>4. less = old.fromStock + d + q
    BY <1>1, <1>3, <1>4, <2>2, <2>3
  <2>5. less <= old.requested
    BY <1>1, <1>4, <2>1
  <2>6. Line(new, reqs, rows2, o)
    BY <1>6, <1>7, <2>1, <2>4, <2>5 DEF Line, d, q
  <2>7. QED
    BY <1>5, <1>6, <2>6
<1>8. CASE ~(old.docstatus = 1 /\ old.status # "Completed")
  <2>1. (old.docstatus = 1 => old.requested = 0) /\ ~Foreseen(rows, o) /\ ~Engaged(reqs, o)
    BY <1>8, Zenon DEF Line
  <2>2. ~(new.docstatus = 1 /\ new.status # "Completed")
    BY <1>6, <1>8
  <2>3. (new.docstatus = 1 => new.requested = 0) /\ ~Foreseen(rows2, o)
    BY <1>6, <2>1
  <2>4. Line(new, reqs, rows2, o)
    BY <2>1, <2>2, <2>3, Zenon DEF Line
  <2>5. QED
    BY <1>5, <1>6, <2>4
<1>9. QED
  BY <1>7, <1>8

LEMMA CompleteInboundShortKeepsCross ==
  ASSUME RequestTypes, CrossInv, NEW d \in Inbounds, CompleteInboundShort(d)
  PROVE  CrossInv' /\ RequestTypes'
<1> DEFINE rows == {i \in DOMAIN plan : plan[i].inbound = d}
<1>1. outbound' = GivenBack(rows) /\ plan' = Withdrawn(rows) /\ request' = request /\ free' = free
  BY DEF CompleteInboundShort
<1>2. CrossTypes /\ \A o \in Outbounds : Line(outbound[o], request, plan, o)
  BY CrossIs
<1>3. rows \in SUBSET DOMAIN plan
  OBVIOUS
<1> HIDE DEF rows
<1>4. /\ RowsOK(plan')
      /\ \A o : TotalOf(plan, "Promised", o) = TotalOf(plan', "Promised", o) + Back(rows, o)
      /\ \A o : Foreseen(plan', o) => Foreseen(plan, o)
  BY <1>1, <1>2, <1>3, WithdrawnIs DEF Foreseen
<1>5. RequestTypes'
  BY <1>1 DEF RequestTypes
<1>6. ASSUME NEW o \in Outbounds
      PROVE  outbound'[o] \in OutboundRow /\ Line(outbound'[o], request', plan', o)
  <2> DEFINE old == outbound[o]
             b == Back(rows, o)
  <2>1. outbound'[o] = LessAllocated(old, b)
    BY <1>1 DEF GivenBack, Back, LessAllocated
  <2>2. old \in OutboundRow /\ b \in Nat /\ RowsOK(plan)
    BY <1>2, <1>3, OutboundRows, BackIs DEF CrossTypes, RowsOK
  <2>3. /\ request \in Seq(RequestRow) /\ \A j \in DOMAIN request : Proper(request[j])
        /\ Line(old, request, plan, o) /\ TotalOf(plan, "Promised", o) = TotalOf(plan', "Promised", o) + b
        /\ Foreseen(plan', o) => Foreseen(plan, o)
    BY <1>2, <1>4 DEF RequestTypes
  <2> HIDE DEF old, b
  <2>4. LessAllocated(old, b) \in OutboundRow /\ Line(LessAllocated(old, b), request, plan', o)
    BY <1>4, <2>2, <2>3, GivenBackLine
  <2>5. QED
    BY <1>1, <2>1, <2>4
<1>7. CrossTypes'
  <2>1. outbound' = [o \in Outbounds |-> outbound'[o]]
    BY <1>1 DEF GivenBack
  <2>2. outbound' \in [Outbounds -> OutboundRow]
    BY <1>6, <2>1
  <2>3. QED
    BY <1>1, <1>2, <1>4, <2>2 DEF CrossTypes, RowsOK
<1>8. QED
  BY <1>5, <1>6, <1>7, CrossFromLines

\* Work that is stopped keeps what has moved.
LEMMA StoppedIs ==
  ASSUME NEW r \in RequestRow, Proper(r)
  PROVE  LET new == Stopped(r) IN
         /\ new \in RequestRow /\ Proper(new) /\ new.status = "Cancelled"
         /\ new.kind = r.kind /\ new.outbound = r.outbound /\ new.receipt = r.receipt
         /\ new.requested = r.requested /\ MovedOf(new) = MovedOf(r)
<1> DEFINE task(k) == IF r.tasks[k].status = "Open" THEN [r.tasks[k] EXCEPT !.status = "Cancelled"] ELSE r.tasks[k]
           tasks == [k \in DOMAIN r.tasks |-> task(k)]
           new == Stopped(r)
<1>1. new = [r EXCEPT !.status = "Cancelled", !.tasks = tasks]
  BY DEF Stopped
<1>2. r.tasks \in Seq(TaskRow) /\ \A k \in DOMAIN r.tasks : r.tasks[k] \in TaskRow
  BY RequestFields
<1>3. \A k \in DOMAIN r.tasks :
        /\ task(k) \in TaskRow /\ task(k).planned = r.tasks[k].planned /\ task(k).status # "Open"
        /\ task(k).status = "Confirmed" <=> r.tasks[k].status = "Confirmed"
  BY <1>2 DEF TaskRow
<1>4. \A k \in DOMAIN r.tasks : MovedTask(task(k)) = MovedTask(r.tasks[k])
  BY <1>3 DEF MovedTask
<1> HIDE DEF task
<1>5. DOMAIN tasks = DOMAIN r.tasks /\ tasks \in Seq(TaskRow) /\ \A k \in DOMAIN r.tasks : tasks[k] = task(k)
  <2>1. DOMAIN r.tasks = 1..Len(r.tasks) /\ Len(r.tasks) \in Nat
    BY <1>2, DomainIs
  <2>2. QED
    BY <1>3, <2>1
<1> HIDE DEF tasks
<1>6. /\ new \in RequestRow /\ new.status = "Cancelled" /\ new.tasks = tasks
      /\ new.kind = r.kind /\ new.outbound = r.outbound /\ new.receipt = r.receipt
      /\ new.requested = r.requested /\ new.source = r.source
  BY <1>1, <1>5 DEF RequestRow
<1> HIDE DEF new
<1>7. Proper(new)
  <2>1. new.kind # "Putaway" => DOMAIN tasks \subseteq {1} /\ \A k \in DOMAIN tasks : tasks[k].planned = r.requested
    BY <1>3, <1>5, <1>6 DEF Proper
  <2>2. (new.kind # "Internal Move" => new.source = "Receiving") /\ (new.kind = "Cross Dock" => new.outbound \in Outbounds)
    BY <1>6 DEF Proper
  <2>3. \A k \in DOMAIN tasks : tasks[k].status # "Open"
    BY <1>3, <1>5
  <2>4. QED
    BY <1>6, <2>1, <2>2, <2>3 DEF Proper
<1>8. MovedOf(new) = MovedOf(r)
  <2>1. MovedOf(r) = TotalOf(r.tasks, "Moved", Nothing) /\ MovedOf(new) = TotalOf(tasks, "Moved", Nothing)
    BY <1>2, <1>5, <1>6, MovedIs
  <2>2. \A k \in DOMAIN r.tasks : Weight(tasks[k], "Moved", Nothing) = Weight(r.tasks[k], "Moved", Nothing)
    BY <1>4, <1>5, TaskWeight
  <2>3. TotalOf(tasks, "Moved", Nothing) = TotalOf(r.tasks, "Moved", Nothing)
    BY <1>2, <1>5, <2>2, TotalSame
  <2>4. QED
    BY <2>1, <2>3
<1>9. QED
  BY <1>6, <1>7, <1>8 DEF new

\* The cross-docks of o that are not finished.
Mine(o) ==
  {i \in DOMAIN request : request[i].kind = "Cross Dock" /\ request[i].outbound = o
                            /\ request[i].status \notin {"Completed", "Cancelled"}}
StoppedFor(o) == [i \in DOMAIN request |-> IF i \in Mine(o) THEN Stopped(request[i]) ELSE request[i]]

LEMMA StoppedForIs ==
  ASSUME RequestTypes, NEW o
  PROVE  /\ StoppedFor(o) \in Seq(RequestRow) /\ \A i \in DOMAIN StoppedFor(o) : Proper(StoppedFor(o)[i])
         /\ Len(StoppedFor(o)) = Len(request)
         /\ \A g : TotalOf(StoppedFor(o), "Left", g) = TotalOf(request, "Left", g)
         /\ \A p : p # o => /\ TotalOf(StoppedFor(o), "Docked", p) = TotalOf(request, "Docked", p)
                            /\ TotalOf(StoppedFor(o), "Arrived", p) = TotalOf(request, "Arrived", p)
                            /\ Engaged(StoppedFor(o), p) => Engaged(request, p)
         /\ ~Engaged(StoppedFor(o), o)
<1> DEFINE s == StoppedFor(o)
           D == DOMAIN request
<1>1. /\ request \in Seq(RequestRow) /\ D = 1..Len(request) /\ Len(request) \in Nat
      /\ \A i \in D : request[i] \in RequestRow /\ Proper(request[i])
  BY DomainIs DEF RequestTypes
<1>2. s = [i \in D |-> s[i]] /\ \A i \in D : s[i] = IF i \in Mine(o) THEN Stopped(request[i]) ELSE request[i]
  BY DEF StoppedFor
<1> HIDE DEF s
<1>3. ASSUME NEW i \in D
      PROVE  /\ s[i] \in RequestRow /\ Proper(s[i])
             /\ s[i].kind = request[i].kind /\ s[i].outbound = request[i].outbound
             /\ s[i].receipt = request[i].receipt /\ s[i].requested = request[i].requested
             /\ MovedOf(s[i]) = MovedOf(request[i])
             /\ i \in Mine(o) => s[i].status = "Cancelled"
             /\ i \notin Mine(o) => s[i] = request[i]
  <2>1. CASE i \in Mine(o)
    <3> DEFINE new == Stopped(request[i])
    <3>1. /\ new \in RequestRow /\ Proper(new) /\ new.status = "Cancelled"
          /\ new.kind = request[i].kind /\ new.outbound = request[i].outbound /\ new.receipt = request[i].receipt
          /\ new.requested = request[i].requested /\ MovedOf(new) = MovedOf(request[i])
      BY <1>1, StoppedIs
    <3>2. s[i] = new
      BY <1>2, <2>1
    <3> HIDE DEF new
    <3>3. QED
      BY <2>1, <3>1, <3>2
  <2>2. CASE i \notin Mine(o)
    BY <1>1, <1>2, <2>2
  <2>3. QED
    BY <2>1, <2>2
<1>4. s \in Seq(RequestRow) /\ DOMAIN s = D /\ Len(s) = Len(request)
  BY <1>1, <1>2, <1>3
<1>5. \A i \in D : \A g : Weight(s[i], "Left", g) = Weight(request[i], "Left", g)
  BY <1>3 DEF Weight
<1>6. ASSUME NEW p, p # o, NEW i \in D
      PROVE  /\ Weight(s[i], "Docked", p) = Weight(request[i], "Docked", p)
             /\ Weight(s[i], "Arrived", p) = Weight(request[i], "Arrived", p)
  <2>1. CASE i \in Mine(o)
    <3>1. request[i].outbound = o
      BY <2>1 DEF Mine
    <3>2. s[i].outbound = request[i].outbound
      BY <1>3
    <3>3. ~Docking(request[i], p) /\ ~Docking(s[i], p)
      BY <1>6, <3>1, <3>2 DEF Docking
    <3>4. QED
      BY <3>3 DEF Weight
  <2>2. CASE i \notin Mine(o)
    BY <1>3, <2>2
  <2>3. QED
    BY <2>1, <2>2
<1>7. /\ \A g : TotalOf(s, "Left", g) = TotalOf(request, "Left", g)
      /\ \A p : p # o => /\ TotalOf(s, "Docked", p) = TotalOf(request, "Docked", p)
                         /\ TotalOf(s, "Arrived", p) = TotalOf(request, "Arrived", p)
  BY <1>1, <1>4, <1>5, <1>6, TotalSame
<1>8. ~Engaged(s, o)
  <2>1. ASSUME NEW i \in D, s[i].kind = "Cross Dock", s[i].outbound = o, ~Ended(s[i])
        PROVE  FALSE
    <3>1. i \notin Mine(o)
      BY <1>3, <2>1 DEF Ended
    <3>2. s[i] = request[i]
      BY <1>3, <3>1
    <3>3. QED
      BY <2>1, <3>1, <3>2 DEF Mine, Ended
  <2>2. QED
    BY <1>4, <2>1 DEF Engaged
<1>9. \A p : p # o /\ Engaged(s, p) => Engaged(request, p)
  <2>1. ASSUME NEW i \in D, ~Ended(s[i])
        PROVE  s[i] = request[i]
    BY <1>3, <2>1 DEF Ended
  <2>2. QED
    BY <1>4, <2>1 DEF Engaged
<1>10. QED
  BY <1>3, <1>4, <1>7, <1>8, <1>9 DEF s

\* What the goods of stopped cross-docks become.
Unmoved(o) == {i \in Mine(o) : request[i].requested > MovedOf(request[i])}
PutBack(o) ==
  LET put == InOrder(Unmoved(o)) IN
  [k \in 1..Len(put) |->
     NewRequest("Putaway", request[put[k]].receipt, Nothing, request[put[k]].type,
                request[put[k]].source, request[put[k]].requested - MovedOf(request[put[k]]))]

LEMMA PutBackIs ==
  ASSUME RequestTypes, NEW o
  PROVE  Weightless(PutBack(o)) /\ \A k \in DOMAIN PutBack(o) : PutBack(o)[k].status = "Open"
<1> DEFINE D == Unmoved(o)
           put == InOrder(D)
           s == PutBack(o)
           one(j) == NewRequest("Putaway", request[j].receipt, Nothing, request[j].type,
                                request[j].source, request[j].requested - MovedOf(request[j]))
<1>1. /\ IsFiniteSet(DOMAIN request) /\ DOMAIN request \in SUBSET Int
      /\ \A i \in DOMAIN request : request[i] \in RequestRow /\ Proper(request[i])
  BY DomainIs DEF RequestTypes
<1>2. D \in SUBSET DOMAIN request /\ \A i \in D : request[i].requested > MovedOf(request[i])
  BY DEF Unmoved, Mine
<1>3. \A i \in D : request[i].kind = "Cross Dock"
  BY DEF Unmoved, Mine
<1> HIDE DEF D
<1>4. IsFiniteSet(D) /\ D \in SUBSET Int
  BY <1>1, <1>2, FS_Subset
<1>5. Len(put) \in Nat /\ \A k \in 1..Len(put) : put[k] \in D
  BY <1>4, InOrderIs
<1>6. s = [k \in 1..Len(put) |-> one(put[k])]
  BY DEF PutBack, D
<1>7. ASSUME NEW j \in D
      PROVE  Fresh(one(j)) /\ one(j).kind = "Putaway"
  <2> DEFINE r == request[j]
             q == r.requested - MovedOf(r)
             kind == "Putaway"
  <2>1. r \in RequestRow /\ Proper(r) /\ r.kind = "Cross Dock" /\ r.requested > MovedOf(r)
    BY <1>1, <1>2, <1>3
  <2>7. one(j) = NewRequest(kind, r.receipt, Nothing, r.type, r.source, q)
    OBVIOUS
  <2> HIDE DEF r
  <2>2. /\ r.receipt \in Receipts /\ r.type \in Types /\ r.source \in Places
        /\ r.requested \in Nat /\ r.tasks \in Seq(TaskRow)
    BY <2>1, RequestFields
  <2>3. MovedOf(r) \in Int
    BY <2>2, MovedIs
  <2>4. q \in Int /\ q > 0
    <3>1. ASSUME NEW a \in Nat, NEW b \in Int, a > b
          PROVE  a - b \in Int /\ a - b > 0
      BY <3>1
    <3>2. QED
      BY <2>1, <2>2, <2>3, <3>1
  <2>5. r.source = "Receiving"
    BY <2>1 DEF Proper
  <2>6. kind \in Kinds /\ Nothing \in Outbounds \cup {Nothing} /\ kind # "Cross Dock"
    BY DEF Kinds
  <2>8. one(j).kind = "Putaway"
    BY DEF NewRequest
  <2> HIDE DEF q, kind
  <2>9. Fresh(NewRequest(kind, r.receipt, Nothing, r.type, r.source, q))
    BY <2>2, <2>4, <2>5, <2>6, NewRequestIs
  <2>10. QED
    BY <2>7, <2>8, <2>9
<1> HIDE DEF one, put
<1>8. DOMAIN s = 1..Len(put) /\ \A k \in DOMAIN s : Fresh(s[k]) /\ s[k].kind = "Putaway"
  BY <1>5, <1>6, <1>7
<1>9. s = [k \in 1..Len(put) |-> s[k]]
  BY <1>6
<1> HIDE DEF s
<1>10. \A k \in DOMAIN s : s[k] \in RequestRow /\ Proper(s[k]) /\ s[k].status = "Open"
  BY <1>8 DEF Fresh
<1>11. s \in Seq(RequestRow)
  BY <1>5, <1>8, <1>9, <1>10
<1>12. \A k \in DOMAIN s : \A what \in Measures : \A of : Weight(s[k], what, of) = 0
  BY <1>8, FreshWeightless
<1>13. QED
  BY <1>8, <1>10, <1>11, <1>12 DEF Weightless, s

LEMMA RedirectIs ==
  ASSUME RequestTypes, NEW o, Redirect(o)
  PROVE  /\ RequestTypes' /\ plan' = Withdrawn({i \in DOMAIN plan : plan[i].outbound = o})
         /\ \A g : TotalOf(request', "Left", g) = TotalOf(request, "Left", g)
         /\ \A p : p # o => /\ TotalOf(request', "Docked", p) = TotalOf(request, "Docked", p)
                            /\ TotalOf(request', "Arrived", p) = TotalOf(request, "Arrived", p)
                            /\ Engaged(request', p) => Engaged(request, p)
         /\ ~Engaged(request', o)
<1> DEFINE b == StoppedFor(o)
           s == PutBack(o)
           reqs == Joined(b, s)
           first == Len(request) + 1
<1>1. PICK failed : request' = Planned(reqs, first, failed, FALSE)
  <2>1. reqs = StoppedFor(o) \o PutBack(o)
    BY DEF Joined
  <2>2. QED
    BY <2>1 DEF Redirect, StoppedFor, PutBack, Mine, Unmoved
<1>2. plan' = Withdrawn({i \in DOMAIN plan : plan[i].outbound = o})
  BY DEF Redirect
<1>3. /\ b \in Seq(RequestRow) /\ \A i \in DOMAIN b : Proper(b[i])
      /\ Len(b) = Len(request)
      /\ \A g : TotalOf(b, "Left", g) = TotalOf(request, "Left", g)
      /\ \A p : p # o => /\ TotalOf(b, "Docked", p) = TotalOf(request, "Docked", p)
                         /\ TotalOf(b, "Arrived", p) = TotalOf(request, "Arrived", p)
                         /\ Engaged(b, p) => Engaged(request, p)
      /\ ~Engaged(b, o)
  BY StoppedForIs
<1>4. Weightless(s) /\ \A k \in DOMAIN s : s[k].status = "Open"
  BY PutBackIs
<1> HIDE DEF b, s
<1>5. /\ reqs \in Seq(RequestRow) /\ \A i \in DOMAIN reqs : Proper(reqs[i])
      /\ \A what \in Measures : \A of : TotalOf(reqs, what, of) = TotalOf(b, what, of)
      /\ \A p : Engaged(reqs, p) => Engaged(b, p)
  BY <1>3, <1>4, WeightlessJoined
<1>6. first \in Nat /\ \A i \in DOMAIN reqs : i >= first => reqs[i].status = "Open"
  <2>1. s \in Seq(RequestRow)
    BY <1>4 DEF Weightless
  <2>2. \A i \in DOMAIN reqs : i > Len(b) => i - Len(b) \in DOMAIN s /\ reqs[i] = s[i - Len(b)]
    BY <1>3, <2>1, JoinedRequests
  <2>3. Len(request) \in Nat /\ DOMAIN reqs \subseteq Nat
    BY <1>5 DEF RequestTypes
  <2>4. \A i \in DOMAIN reqs : i >= first => i > Len(b)
    BY <1>3, <2>3
  <2>5. QED
    BY <1>4, <2>2, <2>3, <2>4
<1> HIDE DEF reqs, first
<1>7. Alike(reqs, request')
  <2>1. FALSE \in BOOLEAN
    OBVIOUS
  <2>2. Alike(reqs, Planned(reqs, first, failed, FALSE))
    BY <1>5, <1>6, <2>1, PlannedAlike
  <2>3. QED
    BY <1>1, <2>2
<1>8. \A what \in Measures : \A of : TotalOf(request', what, of) = TotalOf(reqs, what, of)
  BY <1>5, <1>7, AlikeTotals
<1>9. \A p : Engaged(request', p) => Engaged(reqs, p)
  BY <1>7 DEF Alike, Similar, Engaged
<1>10. RequestTypes'
  BY <1>7 DEF Alike, Similar, RequestTypes
<1>11. "Left" \in Measures /\ "Docked" \in Measures /\ "Arrived" \in Measures
  BY DEF Measures
<1>12. QED
  BY <1>2, <1>3, <1>5, <1>8, <1>9, <1>10, <1>11

\* An outbound delivery is closed: nothing is on its way to it any more, and the
\* others keep what they were promised.
LEMMA RedirectKeepsCross ==
  ASSUME RequestTypes, CrossInv, NEW o \in Outbounds, Redirect(o), NEW new, new \in OutboundRow,
         outbound' = Put(outbound, o, new), ~(new.docstatus = 1 /\ new.status # "Completed"),
         new.docstatus = 1 => new.requested = 0, free' \in Nat
  PROVE  CrossInv' /\ RequestTypes'
<1> DEFINE rows == {i \in DOMAIN plan : plan[i].outbound = o}
<1>1. CrossTypes /\ \A p \in Outbounds : Line(outbound[p], request, plan, p)
  BY CrossIs
<1>2. /\ RequestTypes' /\ plan' = Withdrawn(rows)
      /\ \A p : p # o => /\ TotalOf(request', "Docked", p) = TotalOf(request, "Docked", p)
                         /\ TotalOf(request', "Arrived", p) = TotalOf(request, "Arrived", p)
                         /\ Engaged(request', p) => Engaged(request, p)
      /\ ~Engaged(request', o)
  BY RedirectIs
<1>3. /\ rows \in SUBSET DOMAIN plan
      /\ \A i \in DOMAIN plan \ rows : plan[i].outbound # o
      /\ \A p : p # o => {i \in rows : plan[i].outbound = p} = {}
  OBVIOUS
<1> HIDE DEF rows
<1>4. /\ RowsOK(plan')
      /\ \A p : TotalOf(plan, "Promised", p) = TotalOf(plan', "Promised", p) + Back(rows, p)
      /\ \A p : Foreseen(plan', p) => \E i \in DOMAIN plan \ rows : plan[i].outbound = p /\ plan[i].status = "Planned"
  BY <1>1, <1>2, <1>3, WithdrawnIs
<1>5. ~Foreseen(plan', o)
  BY <1>3, <1>4
<1>6. ASSUME NEW p, p # o
      PROVE  TotalOf(plan', "Promised", p) = TotalOf(plan, "Promised", p)
  <2>1. {i \in rows : plan[i].outbound = p} = {}
    BY <1>3, <1>6
  <2>2. Back(rows, p) = 0
    BY <2>1, SumEmpty DEF Back, SumOf
  <2>3. TotalOf(plan', "Promised", p) \in Int
    BY <1>4, PlanTotals DEF RowsOK
  <2>4. TotalOf(plan, "Promised", p) = TotalOf(plan', "Promised", p) + 0
    BY <1>4, <2>2
  <2>5. QED
    BY <2>3, <2>4
<1>7. Line(new, request', plan', o)
  BY <1>2, <1>5, Zenon DEF Line
<1>8. ASSUME NEW p \in Outbounds, p # o
      PROVE  Line(outbound[p], request', plan', p)
  <2>1. Foreseen(plan', p) => Foreseen(plan, p)
    BY <1>4 DEF Foreseen
  <2>2. Line(outbound[p], request, plan, p)
    BY <1>1
  <2>3. /\ TotalOf(request', "Docked", p) = TotalOf(request, "Docked", p)
        /\ TotalOf(request', "Arrived", p) = TotalOf(request, "Arrived", p)
        /\ Engaged(request', p) => Engaged(request, p)
        /\ TotalOf(plan', "Promised", p) = TotalOf(plan, "Promised", p)
    BY <1>2, <1>6, <1>8
  <2>4. QED
    BY <2>1, <2>2, <2>3, LineStays
<1>9. QED
  BY <1>1, <1>2, <1>4, <1>7, <1>8, OneLineKeepsCross

LEMMA CancelOutboundKeepsCross ==
  ASSUME RequestTypes, CrossInv, NEW o \in Outbounds, CancelOutbound(o)
  PROVE  CrossInv' /\ RequestTypes'
<1> DEFINE old == outbound[o]
           new == [old EXCEPT !.docstatus = 2, !.status = "Cancelled", !.fromStock = 0]
<1>1. CrossTypes
  BY DEF CrossInv
<1>2. old \in OutboundRow /\ old.fromStock \in Nat /\ free \in Nat
  BY <1>1, OutboundRows DEF CrossTypes
<1>3. outbound' = Put(outbound, o, new) /\ Redirect(o) /\ free' = free + old.fromStock
  BY <1>1 DEF CancelOutbound, Put, CrossTypes
<1> HIDE DEF old
<1>4. new \in OutboundRow /\ new.docstatus = 2
  BY <1>2 DEF OutboundRow
<1> HIDE DEF new
<1>5. ~(new.docstatus = 1 /\ new.status # "Completed") /\ (new.docstatus = 1 => new.requested = 0) /\ free' \in Nat
  BY <1>2, <1>3, <1>4
<1>6. QED
  BY <1>3, <1>4, <1>5, RedirectKeepsCross

LEMMA CompleteOutboundShortKeepsCross ==
  ASSUME RequestTypes, CrossInv, NEW o \in Outbounds, CompleteOutboundShort(o)
  PROVE  CrossInv' /\ RequestTypes'
<1> DEFINE old == outbound[o]
           new == [old EXCEPT !.status = "Completed", !.requested = 0, !.fromStock = 0]
<1>1. CrossTypes
  BY DEF CrossInv
<1>2. old \in OutboundRow /\ old.fromStock \in Nat /\ free \in Nat
  BY <1>1, OutboundRows DEF CrossTypes
<1>3. outbound' = Put(outbound, o, new) /\ Redirect(o) /\ free' = free + old.fromStock
  BY <1>1 DEF CompleteOutboundShort, Put, CrossTypes
<1> HIDE DEF old
<1>4. new \in OutboundRow /\ new.status = "Completed" /\ new.requested = 0
  BY <1>2 DEF OutboundRow
<1> HIDE DEF new
<1>5. ~(new.docstatus = 1 /\ new.status # "Completed") /\ (new.docstatus = 1 => new.requested = 0) /\ free' \in Nat
  BY <1>2, <1>3, <1>4
<1>6. QED
  BY <1>3, <1>4, <1>5, RedirectKeepsCross

LEMMA ReceiveFromProductionKeepsCross ==
  ASSUME RequestTypes, CrossInv, NEW g \in Receipts, NEW d \in Inbounds, NEW q \in Quantities(d),
         ReceiveFromProduction(g, d, q)
  PROVE  CrossInv' /\ \E added : Grows(request', added)
<1> DEFINE rec == Prepared(g, d, q, "AVAILABLE", FALSE)
<1>1. rec \in ReceiptRow
  <2>1. q \in Nat
    BY QuantitiesNat
  <2>2. "AVAILABLE" \in Types /\ FALSE \in BOOLEAN
    BY DEF Types
  <2>3. QED
    BY <2>1 DEF Prepared, ReceiptRow, Types
<1>2. /\ plan' = Consumed(FromPlan(rec)) /\ outbound' = Reserved(FromDemand(rec), Routed(g, rec)) /\ free' = free
      /\ request' = Planned(Routed(g, rec), Len(request) + 1, {}, FALSE)
  BY DEF ReceiveFromProduction
<1> HIDE DEF rec
<1>3. CrossTypes
  BY DEF CrossInv
<1>4. /\ Grows(Routed(g, rec), Added(rec))
      /\ \A i \in DOMAIN Routed(g, rec) : i >= Len(request) + 1 => Routed(g, rec)[i].status = "Open"
  BY <1>1, <1>3, RoutedGrows
<1>5. Grows(Planned(Routed(g, rec), Len(request) + 1, {}, FALSE), Added(rec))
  <2>1. FALSE \in BOOLEAN
    OBVIOUS
  <2>2. QED
    BY <1>4, <2>1, PlannedGrows
<1>6. Grows(request', Added(rec))
  BY <1>2, <1>5
<1>7. CrossInv'
  BY <1>1, <1>2, <1>6, RoutingKeeps
<1>8. QED
  BY <1>6, <1>7

\* Steps that create, plan or stop requests move nothing from the dock.
LeftStays == \A g : TotalOf(request', "Left", g) = TotalOf(request, "Left", g)

LEMMA GrowsLeft ==
  ASSUME NEW added, Grows(request', added)
  PROVE  RequestTypes' /\ LeftStays
BY GrowsTypes DEF Grows, LeftStays

LEMMA SameLeft ==
  ASSUME Same(request')
  PROVE  RequestTypes' /\ LeftStays
<1>1. "Left" \in Measures
  BY DEF Measures
<1>2. QED
  BY <1>1 DEF Same, LeftStays, RequestTypes

LEMMA CrossStays ==
  ASSUME RequestTypes, CrossInv, UNCHANGED <<outbound, plan, request, free>>
  PROVE  CrossInv' /\ RequestTypes' /\ LeftStays
<1>1. Same(request)
  BY RequestSame
<1>2. Same(request')
  BY <1>1
<1>3. QED
  BY <1>2, SameKeepsCross, SameLeft

LEMMA ReceivingKeepsCross ==
  ASSUME RequestTypes, CrossInv, NEW g \in Receipts, NEW rec \in ReceiptRow, NEW tasked \in BOOLEAN,
         RouteAndPlan(g, rec, tasked), free' = free
  PROVE  CrossInv' /\ RequestTypes' /\ LeftStays
<1>1. CrossInv' /\ Grows(request', Added(rec))
  BY RouteKeepsCross
<1>2. QED
  BY <1>1, GrowsLeft

LEMMA OperationKeepsCross ==
  ASSUME ReceiptTypes, DockTypes, CrossInv, Operation
  PROVE  CrossInv' /\ RequestTypes' /\ LeftStays
<1>1. RequestTypes /\ \A g \in Receipts : receipt[g] \in ReceiptRow /\ inspection[g] \in InspectionRow
  BY DEF DockTypes, ReceiptTypes
<1>2. ASSUME NEW d \in Inbounds,
             PlanCrossDock(d) \/ Release(d) \/ CancelInbound(d) \/ CompleteInboundShort(d) \/ CreateReturn(d)
      PROVE  CrossInv' /\ RequestTypes' /\ LeftStays
  <2>1. CASE PlanCrossDock(d)
    <3>1. CrossInv' /\ RequestTypes'
      BY <1>1, <2>1, PlanCrossDockKeepsCross
    <3>2. request' = request
      BY <2>1 DEF PlanCrossDock
    <3>3. QED
      BY <3>1, <3>2 DEF LeftStays
  <2>2. CASE CompleteInboundShort(d)
    <3>1. CrossInv' /\ RequestTypes'
      BY <1>1, <2>2, CompleteInboundShortKeepsCross
    <3>2. request' = request
      BY <2>2 DEF CompleteInboundShort
    <3>3. QED
      BY <3>1, <3>2 DEF LeftStays
  <2>3. CASE Release(d) \/ CancelInbound(d) \/ CreateReturn(d)
    <3>1. UNCHANGED <<outbound, plan, request, free>>
      BY <2>3 DEF Release, CancelInbound, CreateReturn
    <3>2. QED
      BY <1>1, <3>1, CrossStays
  <2>4. QED
    BY <1>2, <2>1, <2>2, <2>3
<1>3. ASSUME NEW g \in Receipts, NEW d \in Inbounds, NEW q \in Quantities(d),
             \/ \E type \in Types, direct \in BOOLEAN, tasked \in BOOLEAN :
                  Receive(g, d, q, type, direct, tasked)
             \/ \E type \in Types : DraftReceipt(g, d, q, type)
             \/ ReceiveFromProduction(g, d, q)
      PROVE  CrossInv' /\ RequestTypes' /\ LeftStays
  <2>1. ASSUME NEW type \in Types, NEW direct \in BOOLEAN, NEW tasked \in BOOLEAN,
               Receive(g, d, q, type, direct, tasked)
        PROVE  CrossInv' /\ RequestTypes' /\ LeftStays
    <3>1. q \in Nat
      BY QuantitiesNat
    <3>2. Prepared(g, d, q, type, direct) \in ReceiptRow
      BY <3>1, PreparedIs
    <3>3. RouteAndPlan(g, Prepared(g, d, q, type, direct), tasked) /\ free' = free
      BY <2>1 DEF Receive
    <3>4. QED
      BY <1>1, <3>2, <3>3, ReceivingKeepsCross
  <2>2. ASSUME NEW type \in Types, DraftReceipt(g, d, q, type)
        PROVE  CrossInv' /\ RequestTypes' /\ LeftStays
    BY <1>1, <2>2, CrossStays DEF DraftReceipt
  <2>3. CASE ReceiveFromProduction(g, d, q)
    <3>1. CrossInv' /\ \E added : Grows(request', added)
      BY <1>1, <2>3, ReceiveFromProductionKeepsCross
    <3>2. QED
      BY <3>1, GrowsLeft
  <2>4. QED
    BY <1>3, <2>1, <2>2, <2>3
<1>4. ASSUME NEW g \in Receipts, SubmitReceipt(g) \/ CreatePutaway(g) \/ ReverseReceipt(g) \/ MirrorReturn(g)
      PROVE  CrossInv' /\ RequestTypes' /\ LeftStays
  <2>1. CASE CreatePutaway(g)
    <3>1. RouteAndPlan(g, receipt[g], TRUE) /\ free' = free
      BY <2>1 DEF CreatePutaway
    <3>2. receipt[g] \in ReceiptRow /\ TRUE \in BOOLEAN
      BY <1>1
    <3>3. QED
      BY <1>1, <3>1, <3>2, ReceivingKeepsCross
  <2>2. CASE SubmitReceipt(g) \/ ReverseReceipt(g) \/ MirrorReturn(g)
    <3>1. UNCHANGED <<outbound, plan, request, free>>
      BY <2>2 DEF SubmitReceipt, ReverseReceipt, MirrorReturn
    <3>2. QED
      BY <1>1, <3>1, CrossStays
  <2>3. QED
    BY <1>4, <2>1, <2>2
<1>5. ASSUME NEW g \in Receipts,
             \/ CompleteBySamples(g)
             \/ \E passed \in 0..receipt[g].quantity :
                  CompleteInspection(g, passed) \/ \E follow \in BOOLEAN : Decide(g, passed, follow)
             \/ \E k \in DOMAIN inspection[g].samples, result \in {"Pass", "Fail"} : RecordSample(g, k, result)
      PROVE  CrossInv' /\ RequestTypes' /\ LeftStays
  <2>1. ASSUME NEW passed \in 0..receipt[g].quantity, NEW follow \in BOOLEAN, Decide(g, passed, follow)
        PROVE  CrossInv' /\ RequestTypes' /\ LeftStays
    <3>1. Same(request') /\ UNCHANGED <<outbound, plan, free>>
      BY <1>1, <2>1, DecideIs
    <3>2. QED
      BY <1>1, <3>1, SameKeepsCross, SameLeft
  <2>2. CASE \/ CompleteBySamples(g)
             \/ \E passed \in 0..receipt[g].quantity : CompleteInspection(g, passed)
             \/ \E k \in DOMAIN inspection[g].samples, result \in {"Pass", "Fail"} : RecordSample(g, k, result)
    <3>1. UNCHANGED <<outbound, plan, request, free>>
      BY <2>2 DEF CompleteBySamples, CompleteInspection, Decided, RecordSample
    <3>2. QED
      BY <1>1, <3>1, CrossStays
  <2>3. QED
    BY <1>5, <2>1, <2>2
<1>6. ASSUME NEW i \in DOMAIN request, NEW direct \in BOOLEAN, CreateTasks(i, direct)
      PROVE  CrossInv' /\ RequestTypes' /\ LeftStays
  BY <1>1, <1>6, CreateTasksIs, SameKeepsCross, SameLeft
<1>7. ASSUME NEW o \in Outbounds, Allocate(o) \/ CancelOutbound(o) \/ CompleteOutboundShort(o)
      PROVE  CrossInv' /\ RequestTypes' /\ LeftStays
  <2>1. CASE Allocate(o)
    <3>1. CrossInv' /\ RequestTypes'
      BY <1>1, <2>1, AllocateKeepsCross
    <3>2. request' = request
      BY <2>1 DEF Allocate
    <3>3. QED
      BY <3>1, <3>2 DEF LeftStays
  <2>2. CASE CancelOutbound(o) \/ CompleteOutboundShort(o)
    <3>1. CrossInv' /\ RequestTypes'
      BY <1>1, <2>2, CancelOutboundKeepsCross, CompleteOutboundShortKeepsCross
    <3>2. Redirect(o)
      BY <2>2 DEF CancelOutbound, CompleteOutboundShort
    <3>3. \A g : TotalOf(request', "Left", g) = TotalOf(request, "Left", g)
      BY <1>1, <3>2, RedirectIs
    <3>4. QED
      BY <3>1, <3>3 DEF LeftStays
  <2>3. QED
    BY <1>7, <2>1, <2>2
<1>8. QED
  BY <1>2, <1>3, <1>4, <1>5, <1>6, <1>7, Zenon DEF Operation

-----------------------------------------------------------------------------
(* What leaves the dock had come: DockInv. *)

LEMMA ContentTotal ==
  ASSUME NEW c, c \in [Types -> Nat]
  PROVE  SumOf(c, Types) \in Nat /\ \A t \in Types : c[t] <= SumOf(c, Types)
<1>1. \A t \in Types : c[t] \in Nat
  OBVIOUS
<1>2. QED
  BY <1>1, SumNat, SumElement, Finite DEF SumOf

LEMMA ContentIs ==
  ASSUME NEW c, c \in [Types -> Nat]
  PROVE  SumOf(c, Types) = c["AVAILABLE"] + c["QUALITY"] + c["BLOCKED"]
<1> DEFINE a == "AVAILABLE"
           q == "QUALITY"
           b == "BLOCKED"
           S == Types \ {a}
           T == S \ {q}
           U == T \ {b}
<1>1. a \in Types /\ q \in S /\ b \in T /\ U = {}
  BY DEF Types
<1>2. /\ c[a] \in Nat /\ c[q] \in Nat /\ c[b] \in Nat
      /\ \A t \in Types : c[t] \in Int
  BY DEF Types
<1>3. S \subseteq Types /\ T \subseteq S
  OBVIOUS
<1> HIDE DEF a, q, b
<1>4. IsFiniteSet(S) /\ IsFiniteSet(T)
  BY <1>3, Finite, FS_Subset
<1>5. SumFunctionOnSet(c, Types) = c[a] + SumFunctionOnSet(c, S)
  BY <1>1, <1>2, SumRemove, Finite
<1> HIDE DEF S
<1>6. SumFunctionOnSet(c, S) = c[q] + SumFunctionOnSet(c, T)
  BY <1>1, <1>2, <1>3, <1>4, SumRemove
<1> HIDE DEF T
<1>7. SumFunctionOnSet(c, T) = c[b] + SumFunctionOnSet(c, U)
  BY <1>1, <1>2, <1>3, <1>4, SumRemove
<1>8. SumFunctionOnSet(c, U) = 0
  BY <1>1, SumEmpty
<1>9. SumFunctionOnSet(c, Types) = c[a] + c[q] + c[b]
  BY <1>2, <1>5, <1>6, <1>7, <1>8
<1>10. QED
  BY <1>9 DEF SumOf, a, q, b

LEMMA ContentChange ==
  ASSUME NEW c, c \in [Types -> Nat], NEW t \in Types, NEW v, v \in Nat
  PROVE  /\ Put(c, t, v) \in [Types -> Nat]
         /\ SumOf(Put(c, t, v), Types) = SumOf(c, Types) + (v - c[t])
<1>1. /\ Put(c, t, v) \in [Types -> Nat] /\ Put(c, t, v)[t] = v
      /\ \A u \in Types : u # t => Put(c, t, v)[u] = c[u]
  BY DEF Put
<1>2. \A u \in Types : c[u] \in Int
  OBVIOUS
<1>3. Put(c, t, v)[t] \in Int /\ \A u \in Types \ {t} : Put(c, t, v)[u] = c[u]
  BY <1>1
<1>4. SumFunctionOnSet(Put(c, t, v), Types) = SumFunctionOnSet(c, Types) + (Put(c, t, v)[t] - c[t])
  BY <1>2, <1>3, SumChange, Finite
<1>5. QED
  BY <1>1, <1>4 DEF SumOf

\* An empty unit is filled.
LEMMA FilledIs ==
  ASSUME NEW t \in Types, NEW q, q \in Nat
  PROVE  Put(Empty, t, q) \in [Types -> Nat] /\ SumOf(Put(Empty, t, q), Types) = q
<1>1. Empty \in [Types -> Nat] /\ Empty[t] = 0 /\ \A u \in Types : Empty[u] = 0
  BY DEF Empty
<1>2. SumOf(Empty, Types) = 0
  BY <1>1, SumZero, Finite DEF SumOf
<1>3. SumOf(Put(Empty, t, q), Types) = 0 + (q - 0)
  BY <1>1, <1>2, ContentChange
<1>4. Put(Empty, t, q) \in [Types -> Nat]
  BY <1>1, ContentChange
<1> DEFINE sum == SumOf(Put(Empty, t, q), Types)
<1>5. sum = 0 + (q - 0)
  BY <1>3
<1> HIDE DEF sum
<1>6. sum = q
  BY <1>5
<1>7. QED
  BY <1>4, <1>6 DEF sum

LEMMA UnitFields ==
  ASSUME NEW u \in UnitRow
  PROVE  u.bin \in Places /\ u.content \in [Types -> Nat] /\ AtDock(u) \in Nat
<1>1. u.bin \in Places /\ u.content \in [Types -> Nat]
  BY DEF UnitRow
<1>2. SumOf(u.content, Types) \in Nat
  BY <1>1, ContentTotal
<1>3. QED
  BY <1>1, <1>2 DEF AtDock

LEMMA LeavesIs ==
  ASSUME RequestTypes
  PROVE  Leaves <=> \A g \in Receipts : TotalOf(request, "Left", g) + AtDock(unit[g]) <= Came(receipt[g])
<1>1. \A g : LeftDock(g) = TotalOf(request, "Left", g)
  BY LeftIs DEF RequestTypes
<1>2. QED
  BY <1>1 DEF Leaves

LEMMA LeavesFrom ==
  ASSUME RequestTypes', \A g \in Receipts : TotalOf(request', "Left", g) + AtDock(unit'[g]) <= Came(receipt'[g])
  PROVE  Leaves'
<1>1. (RequestTypes => (Leaves <=> \A g \in Receipts :
         TotalOf(request, "Left", g) + AtDock(unit[g]) <= Came(receipt[g])))'
  BY LeavesIs, PTL
<1>2. QED
  BY <1>1

LEMMA DockIsKept ==
  ASSUME DockInv, RequestTypes', inspection' \in [Receipts -> InspectionRow],
         NEW g \in Receipts, NEW u, u \in UnitRow, unit' = Put(unit, g, u),
         \A h \in Receipts : h # g => TotalOf(request', "Left", h) = TotalOf(request, "Left", h)
                                      /\ Came(receipt'[h]) = Came(receipt[h]),
         TotalOf(request', "Left", g) + AtDock(u) <= Came(receipt'[g])
  PROVE  DockInv'
<1>1. unit \in [Receipts -> UnitRow] /\ RequestTypes /\ Leaves
  BY DEF DockInv, DockTypes
<1>2. /\ unit' \in [Receipts -> UnitRow] /\ unit'[g] = u
      /\ \A h \in Receipts : h # g => unit'[h] = unit[h]
  BY <1>1 DEF Put
<1>3. \A h \in Receipts : TotalOf(request, "Left", h) + AtDock(unit[h]) <= Came(receipt[h])
  BY <1>1, LeavesIs
<1>4. ASSUME NEW h \in Receipts
      PROVE  TotalOf(request', "Left", h) + AtDock(unit'[h]) <= Came(receipt'[h])
  <2>1. CASE h = g
    BY <1>2, <2>1
  <2>2. CASE h # g
    <3>1. TotalOf(request, "Left", h) + AtDock(unit[h]) <= Came(receipt[h])
      BY <1>3
    <3>2. /\ TotalOf(request', "Left", h) = TotalOf(request, "Left", h) /\ unit'[h] = unit[h]
          /\ Came(receipt'[h]) = Came(receipt[h])
      BY <1>2, <2>2
    <3>3. QED
      BY <3>1, <3>2
  <2>3. QED
    BY <2>1, <2>2
<1>5. Leaves'
  BY <1>4, LeavesFrom
<1>6. QED
  BY <1>2, <1>5 DEF DockInv, DockTypes

\* The units stay as they are, and so does what came.
LEMMA DockStays ==
  ASSUME DockInv, RequestTypes', LeftStays, inspection' \in [Receipts -> InspectionRow], unit' = unit,
         \A h \in Receipts : Came(receipt'[h]) = Came(receipt[h])
  PROVE  DockInv'
<1>1. unit \in [Receipts -> UnitRow] /\ RequestTypes /\ Leaves
  BY DEF DockInv, DockTypes
<1>2. \A h \in Receipts : TotalOf(request, "Left", h) + AtDock(unit[h]) <= Came(receipt[h])
  BY <1>1, LeavesIs
<1>3. ASSUME NEW h \in Receipts
      PROVE  TotalOf(request', "Left", h) + AtDock(unit'[h]) <= Came(receipt'[h])
  <2>1. TotalOf(request, "Left", h) + AtDock(unit[h]) <= Came(receipt[h])
    BY <1>2
  <2>2. TotalOf(request', "Left", h) = TotalOf(request, "Left", h) /\ Came(receipt'[h]) = Came(receipt[h])
    BY DEF LeftStays
  <2>3. QED
    BY <2>1, <2>2
<1>4. Leaves'
  BY <1>3, LeavesFrom
<1>5. QED
  BY <1>1, <1>4 DEF DockInv, DockTypes

LEMMA LeftInt ==
  ASSUME RequestTypes, NEW g
  PROVE  TotalOf(request, "Left", g) \in Int
BY RequestTotals DEF RequestTypes, Measures

\* What the dock holds of a receipt, before and after.
LEMMA DockOf ==
  ASSUME DockInv, NEW g \in Receipts
  PROVE  /\ unit[g] \in UnitRow /\ AtDock(unit[g]) \in Nat
         /\ TotalOf(request, "Left", g) \in Int
         /\ TotalOf(request, "Left", g) + AtDock(unit[g]) <= Came(receipt[g])
<1>1. unit \in [Receipts -> UnitRow] /\ RequestTypes /\ Leaves
  BY DEF DockInv, DockTypes
<1>2. unit[g] \in UnitRow
  BY <1>1
<1>3. QED
  BY <1>1, <1>2, LeavesIs, UnitFields, LeftInt

\* Goods are received into an empty unit.
LEMMA FillKeepsDock ==
  ASSUME DockInv, RequestTypes', LeftStays, inspection' \in [Receipts -> InspectionRow],
         NEW g \in Receipts, Came(receipt[g]) = 0, NEW rec \in ReceiptRow, NEW new,
         new.status = "Posted", new.quantity = rec.quantity, receipt' = Put(receipt, g, new),
         receipt \in [Receipts -> ReceiptRow],
         unit' = [unit EXCEPT ![g].content = Put(Empty, rec.type, rec.quantity)]
  PROVE  DockInv'
<1> DEFINE q == rec.quantity
           c == Put(Empty, rec.type, q)
           u == [unit[g] EXCEPT !.content = c]
           l == TotalOf(request, "Left", g)
<1>1. q \in Nat /\ rec.type \in Types
  BY ReceiptFields
<1>2. c \in [Types -> Nat] /\ SumOf(c, Types) = q
  BY <1>1, FilledIs
<1>3. unit' = Put(unit, g, u)
  BY DEF Put
<1>4. unit[g] \in UnitRow /\ AtDock(unit[g]) \in Nat /\ l \in Int /\ l + AtDock(unit[g]) <= 0
  BY DockOf
<1> HIDE DEF c
<1>5. u \in UnitRow /\ u.content = c
  BY <1>2, <1>4 DEF UnitRow
<1> HIDE DEF u
<1>6. AtDock(u) \in {0, q}
  BY <1>2, <1>5 DEF AtDock
<1>7. Came(receipt'[g]) = q /\ \A h \in Receipts : h # g => Came(receipt'[h]) = Came(receipt[h])
  <2>1. receipt'[g] = new /\ \A h \in Receipts : h # g => receipt'[h] = receipt[h]
    BY DEF Put
  <2>2. Came(new) = q
    BY DEF Came
  <2>3. QED
    BY <2>1, <2>2
<1>8. \A h : TotalOf(request', "Left", h) = TotalOf(request, "Left", h)
  BY DEF LeftStays
<1> HIDE DEF q
<1>9. TotalOf(request', "Left", g) + AtDock(u) <= Came(receipt'[g])
  <2>1. l <= 0
    BY <1>4
  <2>2. l + AtDock(u) <= q
    BY <1>1, <1>4, <1>6, <2>1
  <2>3. QED
    BY <1>7, <1>8, <2>2
<1>10. QED
  BY <1>3, <1>5, <1>7, <1>8, <1>9, DockIsKept

LEMMA InspectedIs ==
  ASSUME inspection \in [Receipts -> InspectionRow], NEW g \in Receipts
  PROVE  Inspected(g) \in [Receipts -> InspectionRow]
<1> DEFINE s == [i \in 1..SampleCount |-> "Pending"]
           new == [status |-> "Draft", bin |-> "Receiving", samples |-> s]
<1>1. SampleCount \in Nat
  BY InboundAssumption
<1>2. s \in Seq({"Pending", "Pass", "Fail"})
  BY <1>1
<1>3. Inspected(g) = [inspection EXCEPT ![g] = new]
  BY DEF Inspected
<1> HIDE DEF s
<1>4. new \in InspectionRow
  BY <1>2 DEF InspectionRow, Places
<1> HIDE DEF new
<1>5. QED
  BY <1>3, <1>4

\* A receipt is posted.
LEMMA PostKeepsDock ==
  ASSUME DockInv, ReceiptTypes, RequestTypes', LeftStays, NEW g \in Receipts, NEW rec \in ReceiptRow,
         receipt[g].status # "Posted", Post(g, rec)
  PROVE  DockInv'
<1> DEFINE new == [rec EXCEPT !.status = "Posted"]
<1>1. /\ receipt' = [receipt EXCEPT ![g] = new]
      /\ unit' = [unit EXCEPT ![g].content = [Empty EXCEPT ![rec.type] = rec.quantity]]
      /\ inspection' = Inspected(g) \/ inspection' = inspection
  BY DEF Post
<1>2. new.status = "Posted" /\ new.quantity = rec.quantity
  BY DEF ReceiptRow
<1> HIDE DEF new
<1>3. receipt' = Put(receipt, g, new) /\ unit' = [unit EXCEPT ![g].content = Put(Empty, rec.type, rec.quantity)]
  BY <1>1 DEF Put
<1>4. inspection' \in [Receipts -> InspectionRow]
  BY <1>1, InspectedIs DEF DockInv, DockTypes
<1>5. Came(receipt[g]) = 0 /\ receipt \in [Receipts -> ReceiptRow]
  BY DEF Came, ReceiptTypes
<1>6. QED
  BY <1>2, <1>3, <1>4, <1>5, FillKeepsDock

LEMMA ProducedKeepsDock ==
  ASSUME DockInv, ReceiptTypes, RequestTypes', LeftStays, NEW g \in Receipts, NEW d \in Inbounds,
         NEW q, q \in Nat, ReceiveFromProduction(g, d, q)
  PROVE  DockInv'
<1> DEFINE rec == Prepared(g, d, q, "AVAILABLE", FALSE)
           new == [rec EXCEPT !.status = "Posted"]
<1>1. /\ receipt' = [receipt EXCEPT ![g] = new] /\ receipt[g].status = "None"
      /\ unit' = [unit EXCEPT ![g].content = [Empty EXCEPT !["AVAILABLE"] = q]]
      /\ inspection' = inspection
  BY DEF ReceiveFromProduction
<1>2. rec \in ReceiptRow /\ rec.type = "AVAILABLE" /\ rec.quantity = q
  <2>1. "AVAILABLE" \in Types /\ FALSE \in BOOLEAN
    BY DEF Types
  <2>2. rec \in ReceiptRow
    BY <2>1, PreparedIs
  <2>3. QED
    BY <2>2 DEF Prepared
<1> HIDE DEF rec
<1>3. new.status = "Posted" /\ new.quantity = rec.quantity
  BY <1>2 DEF ReceiptRow
<1> HIDE DEF new
<1>4. receipt' = Put(receipt, g, new) /\ unit' = [unit EXCEPT ![g].content = Put(Empty, rec.type, rec.quantity)]
  BY <1>1, <1>2 DEF Put
<1>5. inspection' \in [Receipts -> InspectionRow]
  BY <1>1 DEF DockInv, DockTypes
<1>6. Came(receipt[g]) = 0 /\ receipt \in [Receipts -> ReceiptRow]
  BY <1>1 DEF Came, ReceiptTypes
<1>7. QED
  BY <1>2, <1>3, <1>4, <1>5, <1>6, FillKeepsDock

\* A receipt is taken back, out of a unit that still stands where it came.
LEMMA ReverseKeepsDock ==
  ASSUME DockInv, ReceiptTypes, RequestTypes', LeftStays, NEW g \in Receipts, ReverseReceipt(g)
  PROVE  DockInv'
<1> DEFINE rec == receipt[g]
           t == rec.type
           q == rec.quantity
           old == unit[g]
           v == old.content[t] - q
           c == Put(old.content, t, v)
           u == [old EXCEPT !.content = c]
           l == TotalOf(request, "Left", g)
<1>1. /\ rec.status = "Posted" /\ old.bin = "Receiving" /\ old.content[t] >= q
      /\ unit' = [unit EXCEPT ![g].content[t] = Larger(@ - q, 0)]
      /\ receipt' = [receipt EXCEPT ![g].status = "Reversed"] /\ inspection' = inspection
  BY DEF ReverseReceipt, Reversible
<1>2. receipt \in [Receipts -> ReceiptRow] /\ rec \in ReceiptRow
  BY DEF ReceiptTypes
<1>3. q \in Nat /\ t \in Types
  BY <1>2, ReceiptFields
<1>4. old \in UnitRow /\ AtDock(old) \in Nat /\ l \in Int /\ l + AtDock(old) <= Came(rec)
  BY DockOf
<1>5. Came(rec) = q
  BY <1>1 DEF Came
<1>6. Came(receipt'[g]) = 0 /\ \A h \in Receipts : h # g => Came(receipt'[h]) = Came(receipt[h])
  <2>1. receipt'[g] = [rec EXCEPT !.status = "Reversed"] /\ \A h \in Receipts : h # g => receipt'[h] = receipt[h]
    BY <1>1, <1>2
  <2>2. receipt'[g].status = "Reversed"
    BY <1>2, <2>1 DEF ReceiptRow
  <2>3. QED
    BY <2>1, <2>2 DEF Came
<1> HIDE DEF rec
<1>7. old.content \in [Types -> Nat] /\ old.content[t] \in Nat
  BY <1>3, <1>4, UnitFields
<1> HIDE DEF q
<1>8. v \in Nat
  BY <1>1, <1>3, <1>7
<1>9. Larger(old.content[t] - q, 0) = v
  BY <1>8 DEF Larger
<1>10. unit' = Put(unit, g, u)
  BY <1>1, <1>9 DEF Put
<1>11. c \in [Types -> Nat] /\ SumOf(c, Types) = SumOf(old.content, Types) + (v - old.content[t])
  BY <1>3, <1>7, <1>8, ContentChange
<1>12. AtDock(old) = SumOf(old.content, Types)
  BY <1>1 DEF AtDock
<1> HIDE DEF c
<1>13. u \in UnitRow /\ u.content = c /\ u.bin = "Receiving"
  BY <1>1, <1>4, <1>11 DEF UnitRow
<1> HIDE DEF u
<1>14. AtDock(u) = SumOf(c, Types)
  BY <1>13 DEF AtDock
<1>15. l + AtDock(u) <= 0
  <2> DEFINE a == AtDock(old)
             b == AtDock(u)
             w == old.content[t]
  <2>1. a \in Nat /\ w \in Nat /\ v = w - q /\ b = a + (v - w) /\ l + a <= q
    BY <1>4, <1>5, <1>7, <1>11, <1>12, <1>14
  <2> HIDE DEF a, b, w, v, l
  <2>2. QED
    BY <1>3, <1>4, <2>1 DEF b, l
<1>16. \A h : TotalOf(request', "Left", h) = TotalOf(request, "Left", h)
  BY DEF LeftStays
<1>17. inspection' \in [Receipts -> InspectionRow]
  BY <1>1 DEF DockInv, DockTypes
<1>18. TotalOf(request', "Left", g) + AtDock(u) <= Came(receipt'[g])
  BY <1>6, <1>15, <1>16
<1>19. QED
  BY <1>6, <1>10, <1>13, <1>16, <1>17, <1>18, DockIsKept

\* An inspected quantity changes its type within the unit.
LEMMA DecidedKeepsDock ==
  ASSUME DockInv, ReceiptTypes, RequestTypes', LeftStays, NEW g \in Receipts, NEW bin, NEW p, p \in 0..receipt[g].quantity,
         Decided(g, bin, p)
  PROVE  DockInv'
<1> DEFINE q == receipt[g].quantity
           old == unit[g]
           c == old.content
           new == [t \in Types |-> CASE t = "QUALITY" -> c[t] - q
                                     [] t = "AVAILABLE" -> c[t] + p
                                     [] t = "BLOCKED" -> c[t] + q - p]
           u == [old EXCEPT !.content = new]
<1>1. /\ c["QUALITY"] >= q /\ old.bin = bin /\ receipt' = receipt
      /\ inspection' = [inspection EXCEPT ![g].status = "Completed", ![g].bin = bin]
      /\ unit' = [unit EXCEPT ![g].content =
                [t \in Types |-> CASE t = "QUALITY" -> @[t] - receipt[g].quantity
                                   [] t = "AVAILABLE" -> @[t] + p
                                   [] t = "BLOCKED" -> @[t] + receipt[g].quantity - p]]
  BY DEF Decided
<1>2. receipt[g] \in ReceiptRow
  BY DEF ReceiptTypes
<1>3. q \in Nat /\ p \in Nat /\ p <= q
  BY <1>2, ReceiptFields
<1>4. old \in UnitRow /\ AtDock(old) \in Nat
      /\ TotalOf(request, "Left", g) + AtDock(old) <= Came(receipt[g])
  BY DockOf
<1>5. c \in [Types -> Nat] /\ old.bin \in Places
  BY <1>4, UnitFields
<1>6. unit' = Put(unit, g, u)
  BY <1>1 DEF Put
<1> HIDE DEF q, c
<1>7. c["AVAILABLE"] \in Nat /\ c["QUALITY"] \in Nat /\ c["BLOCKED"] \in Nat
  BY <1>5 DEF Types
<1>8. new["AVAILABLE"] = c["AVAILABLE"] + p /\ new["QUALITY"] = c["QUALITY"] - q /\ new["BLOCKED"] = c["BLOCKED"] + q - p
  BY DEF Types
<1>9. new["AVAILABLE"] \in Nat /\ new["QUALITY"] \in Nat /\ new["BLOCKED"] \in Nat
  <2> DEFINE x == c["AVAILABLE"]
             y == c["QUALITY"]
             z == c["BLOCKED"]
  <2>1. x \in Nat /\ y \in Nat /\ z \in Nat /\ y >= q
    BY <1>1, <1>7
  <2>2. new["AVAILABLE"] = x + p /\ new["QUALITY"] = y - q /\ new["BLOCKED"] = z + q - p
    BY <1>8
  <2> HIDE DEF x, y, z, new
  <2>3. x + p \in Nat /\ y - q \in Nat /\ z + q - p \in Nat
    BY <1>3, <2>1
  <2>4. QED
    BY <2>2, <2>3
<1>10. new \in [Types -> Nat]
  <2>1. \A t \in Types : new[t] \in Nat
    BY <1>9 DEF Types
  <2>2. QED
    BY <2>1
<1>11. SumOf(new, Types) = SumOf(c, Types)
  <2>1. SumOf(c, Types) = c["AVAILABLE"] + c["QUALITY"] + c["BLOCKED"]
    BY <1>5, ContentIs
  <2> DEFINE n == new
  <2>2. n \in [Types -> Nat]
    BY <1>10
  <2>3. n["AVAILABLE"] = c["AVAILABLE"] + p /\ n["QUALITY"] = c["QUALITY"] - q /\ n["BLOCKED"] = c["BLOCKED"] + q - p
    BY <1>8
  <2> HIDE DEF n
  <2>4. SumOf(n, Types) = n["AVAILABLE"] + n["QUALITY"] + n["BLOCKED"]
    BY <2>2, ContentIs
  <2>5. SumOf(n, Types) = SumOf(c, Types)
    BY <1>3, <1>7, <2>1, <2>3, <2>4
  <2>6. QED
    BY <2>5 DEF n
<1> HIDE DEF new
<1>12. u \in UnitRow /\ u.content = new /\ u.bin = old.bin
  BY <1>4, <1>10 DEF UnitRow
<1> HIDE DEF u
<1>13. AtDock(u) = AtDock(old)
  BY <1>11, <1>12 DEF AtDock, c
<1>14. inspection' \in [Receipts -> InspectionRow]
  <2> DEFINE i == inspection[g]
             after == [i EXCEPT !.status = "Completed", !.bin = bin]
  <2>1. inspection \in [Receipts -> InspectionRow]
    BY DEF DockInv, DockTypes
  <2>2. i \in InspectionRow
    BY <2>1
  <2>3. inspection' = [inspection EXCEPT ![g] = after]
    BY <1>1
  <2>4. bin \in Places
    BY <1>1, <1>5
  <2> HIDE DEF i
  <2>5. after \in InspectionRow
    BY <2>2, <2>4 DEF InspectionRow
  <2> HIDE DEF after
  <2>6. QED
    BY <2>1, <2>3, <2>5
<1>15. /\ \A h : TotalOf(request', "Left", h) = TotalOf(request, "Left", h)
       /\ \A h \in Receipts : Came(receipt'[h]) = Came(receipt[h])
  BY <1>1 DEF LeftStays
<1>16. TotalOf(request', "Left", g) + AtDock(u) <= Came(receipt'[g])
  BY <1>4, <1>13, <1>15
<1>17. QED
  BY <1>6, <1>12, <1>14, <1>15, <1>16, DockIsKept

LEMMA SampleKeepsDock ==
  ASSUME DockInv, RequestTypes', LeftStays, NEW g \in Receipts, NEW k \in DOMAIN inspection[g].samples,
         NEW result \in {"Pass", "Fail"}, RecordSample(g, k, result)
  PROVE  DockInv'
<1> DEFINE i == inspection[g]
           old == i.samples
           s == [old EXCEPT ![k] = result]
           after == [i EXCEPT !.samples = s]
<1>1. inspection \in [Receipts -> InspectionRow]
  BY DEF DockInv, DockTypes
<1>2. i \in InspectionRow
  BY <1>1
<1>3. inspection' = [inspection EXCEPT ![g] = after] /\ unit' = unit /\ receipt' = receipt
  BY DEF RecordSample
<1> HIDE DEF i
<1>4. old \in Seq({"Pending", "Pass", "Fail"})
  BY <1>2 DEF InspectionRow
<1>5. k \in DOMAIN old
  BY DEF i
<1> HIDE DEF old
<1>6. s \in Seq({"Pending", "Pass", "Fail"})
  BY <1>4, <1>5
<1> HIDE DEF s
<1>7. after \in InspectionRow
  BY <1>2, <1>6 DEF InspectionRow
<1> HIDE DEF after
<1>8. inspection' \in [Receipts -> InspectionRow]
  BY <1>1, <1>3, <1>7
<1>9. QED
  BY <1>3, <1>8, DockStays

\* Where a task takes its goods.
LEMMA DestinationIs ==
  ASSUME NEW r \in RequestRow
  PROVE  Destination(r) \in Places /\ Destination(r) # "Receiving"
<1>1. r.kind \in Kinds
  BY RequestFields
<1>2. CASE r.kind = "Cross Dock"
  BY <1>2 DEF Destination, Places
<1>3. CASE r.kind = "Putaway"
  BY <1>3 DEF Destination, Places
<1>4. CASE r.kind = "Internal Move"
  BY <1>4 DEF Destination, Places
<1>5. QED
  BY <1>1, <1>2, <1>3, <1>4 DEF Kinds

\* A task takes q of a unit's goods away, with the unit or without it.
LEMMA TakenIs ==
  ASSUME NEW old, old \in UnitRow, NEW t, t \in Types, NEW q, q \in Int, old.content[t] >= q,
         NEW to, to \in Places, to # "Receiving"
  PROVE  LET c == Put(old.content, t, old.content[t] - q)
             u == IF SumOf(old.content, Types) = q THEN [old EXCEPT !.bin = to] ELSE [old EXCEPT !.content = c]
         IN  /\ u \in UnitRow
             /\ old.bin = "Receiving" => AtDock(u) = AtDock(old) - q
             /\ old.bin # "Receiving" => AtDock(u) = AtDock(old)
<1> DEFINE w == old.content[t]
           v == w - q
           c == Put(old.content, t, v)
           u == IF SumOf(old.content, Types) = q THEN [old EXCEPT !.bin = to] ELSE [old EXCEPT !.content = c]
<1>1. old.bin \in Places /\ old.content \in [Types -> Nat] /\ w \in Nat /\ SumOf(old.content, Types) \in Nat
  BY UnitFields, ContentTotal
<1>2. v \in Nat
  BY <1>1
<1>3. c \in [Types -> Nat] /\ SumOf(c, Types) = SumOf(old.content, Types) + (v - w)
  BY <1>1, <1>2, ContentChange
<1>4. v - w = -q
  BY <1>1
<1> HIDE DEF c, v, w
<1>5. CASE SumOf(old.content, Types) = q
  <2> DEFINE e == [old EXCEPT !.bin = to]
  <2>1. u = e
    BY <1>5
  <2>2. e \in UnitRow /\ e.bin = to
    BY DEF UnitRow
  <2> HIDE DEF e, u
  <2>3. AtDock(e) = 0
    BY <2>2 DEF AtDock
  <2>4. old.bin = "Receiving" => AtDock(old) = q
    BY <1>5 DEF AtDock
  <2>5. old.bin # "Receiving" => AtDock(old) = 0
    BY DEF AtDock
  <2>6. /\ u \in UnitRow
        /\ old.bin = "Receiving" => AtDock(u) = AtDock(old) - q
        /\ old.bin # "Receiving" => AtDock(u) = AtDock(old)
    BY <2>1, <2>2, <2>3, <2>4, <2>5
  <2>7. QED
    BY <2>6 DEF u, c, v, w
<1>6. CASE SumOf(old.content, Types) # q
  <2> DEFINE e == [old EXCEPT !.content = c]
  <2>1. u = e
    BY <1>6
  <2>2. e \in UnitRow /\ e.bin = old.bin /\ e.content = c
    BY <1>3 DEF UnitRow
  <2> HIDE DEF e, u
  <2>3. old.bin = "Receiving" => AtDock(e) = SumOf(c, Types) /\ AtDock(old) = SumOf(old.content, Types)
    BY <2>2 DEF AtDock
  <2>4. SumOf(c, Types) = SumOf(old.content, Types) - q
    BY <1>1, <1>3, <1>4
  <2>5. old.bin # "Receiving" => AtDock(e) = 0 /\ AtDock(old) = 0
    BY <2>2 DEF AtDock
  <2>6. /\ u \in UnitRow
        /\ old.bin = "Receiving" => AtDock(u) = AtDock(old) - q
        /\ old.bin # "Receiving" => AtDock(u) = AtDock(old)
    BY <2>1, <2>2, <2>3, <2>4, <2>5
  <2>7. QED
    BY <2>6 DEF u, c, v, w
<1>7. QED
  BY <1>5, <1>6

LEMMA ConfirmTaskKeepsDock ==
  ASSUME DockInv, ReceiptTypes, NEW i \in DOMAIN request, NEW k \in DOMAIN request[i].tasks, ConfirmTask(i, k)
  PROVE  DockInv'
<1> DEFINE r == request[i]
           q == r.tasks[k].planned
           g == r.receipt
           t == r.type
           old == unit[g]
           c == Put(old.content, t, old.content[t] - q)
           u == IF SumOf(old.content, Types) = q THEN [old EXCEPT !.bin = Destination(r)]
                ELSE [old EXCEPT !.content = c]
<1>1. RequestTypes /\ unit \in [Receipts -> UnitRow] /\ inspection \in [Receipts -> InspectionRow]
  BY DEF DockInv, DockTypes
<1>2. /\ r \in RequestRow /\ Proper(r) /\ q \in Int
      /\ RequestTypes' /\ \A of : TotalOf(request', "Left", of) = TotalOf(request, "Left", of) + MoreLeft(r, q, of)
  BY <1>1, ConfirmTaskIs, ConfirmedTotals
<1>3. /\ old.bin = r.source /\ old.content[t] >= q /\ unit' = Taken(g, t, q, Destination(r))
      /\ receipt' = receipt /\ inspection' = inspection
  BY DEF ConfirmTask
<1>4. unit' = Put(unit, g, u)
  BY <1>3 DEF Taken, Put
<1>5. r.kind = "Internal Move" => q \in Nat
  <2>1. r.kind = "Internal Move" => q = r.requested
    BY <1>2 DEF Proper
  <2>2. r.requested \in Nat
    BY <1>2, RequestFields
  <2>3. QED
    BY <2>1, <2>2
<1>6. r.kind # "Internal Move" => r.source = "Receiving"
  BY <1>2 DEF Proper
<1>7. g \in Receipts /\ t \in Types
  BY <1>2, RequestFields
<1> HIDE DEF q, t, r
<1>8. old \in UnitRow /\ AtDock(old) \in Nat /\ TotalOf(request, "Left", g) \in Int
      /\ TotalOf(request, "Left", g) + AtDock(old) <= Came(receipt[g])
  BY <1>7, DockOf
<1> HIDE DEF g
<1>9. /\ u \in UnitRow
      /\ old.bin = "Receiving" => AtDock(u) = AtDock(old) - q
      /\ old.bin # "Receiving" => AtDock(u) = AtDock(old)
  BY <1>2, <1>3, <1>7, <1>8, DestinationIs, TakenIs
<1> HIDE DEF u, old
<1>10. ASSUME NEW h \in Receipts, h # g
       PROVE  TotalOf(request', "Left", h) = TotalOf(request, "Left", h) /\ Came(receipt'[h]) = Came(receipt[h])
  <2>1. MoreLeft(r, q, h) = 0
    BY <1>10 DEF MoreLeft, g
  <2>2. TotalOf(request, "Left", h) \in Int
    BY <1>1, LeftInt
  <2>3. TotalOf(request', "Left", h) = TotalOf(request, "Left", h) + 0
    BY <1>2, <2>1
  <2>4. QED
    BY <1>3, <2>2, <2>3
<1>11. TotalOf(request', "Left", g) + AtDock(u) <= Came(receipt'[g])
  <2> DEFINE l == TotalOf(request, "Left", g)
             m == TotalOf(request', "Left", g)
             x == MoreLeft(r, q, g)
  <2>1. m = l + x /\ receipt'[g] = receipt[g]
    BY <1>2, <1>3
  <2>2. l \in Int /\ AtDock(old) \in Nat /\ l + AtDock(old) <= Came(receipt[g]) /\ q \in Int
    BY <1>2, <1>8
  <2>3. Came(receipt[g]) \in Int
    <3>1. receipt[g] \in ReceiptRow
      BY <1>7 DEF ReceiptTypes
    <3>2. receipt[g].quantity \in Nat
      BY <3>1, ReceiptFields
    <3>3. QED
      BY <3>2 DEF Came
  <2> HIDE DEF l, m, x
  <2>4. CASE r.kind = "Internal Move"
    <3>1. x = 0
      BY <2>4 DEF x, MoreLeft
    <3>2. AtDock(u) \in {AtDock(old), AtDock(old) - q} /\ q \in Nat
      BY <1>5, <1>9, <2>4
    <3>3. m + AtDock(u) <= Came(receipt[g])
      BY <2>1, <2>2, <2>3, <3>1, <3>2
    <3>4. QED
      BY <2>1, <3>3 DEF m
  <2>5. CASE r.kind # "Internal Move"
    <3>1. x = q
      BY <2>5 DEF x, MoreLeft, g
    <3>2. AtDock(u) = AtDock(old) - q
      BY <1>3, <1>6, <1>9, <2>5 DEF old
    <3>3. m + AtDock(u) <= Came(receipt[g])
      BY <2>1, <2>2, <2>3, <3>1, <3>2
    <3>4. QED
      BY <2>1, <3>3 DEF m
  <2>6. QED
    BY <2>4, <2>5
<1>12. inspection' \in [Receipts -> InspectionRow]
  BY <1>1, <1>3
<1>13. QED
  BY <1>2, <1>4, <1>7, <1>9, <1>10, <1>11, <1>12, DockIsKept

LEMMA OperationKeepsDock ==
  ASSUME DockInv, ReceiptTypes, RequestTypes', LeftStays, Operation
  PROVE  DockInv'
<1>1. receipt \in [Receipts -> ReceiptRow] /\ inspection \in [Receipts -> InspectionRow]
  BY DEF DockInv, DockTypes, ReceiptTypes
<1>2. ASSUME UNCHANGED <<unit, inspection, receipt>>
      PROVE  DockInv'
  BY <1>1, <1>2, DockStays
<1>3. ASSUME NEW d \in Inbounds,
             PlanCrossDock(d) \/ Release(d) \/ CancelInbound(d) \/ CompleteInboundShort(d) \/ CreateReturn(d)
      PROVE  DockInv'
  BY <1>2, <1>3 DEF PlanCrossDock, Release, CancelInbound, CompleteInboundShort, CreateReturn
<1>4. ASSUME NEW g \in Receipts, NEW d \in Inbounds, NEW q \in Quantities(d),
             \/ \E type \in Types, direct \in BOOLEAN, tasked \in BOOLEAN :
                  Receive(g, d, q, type, direct, tasked)
             \/ \E type \in Types : DraftReceipt(g, d, q, type)
             \/ ReceiveFromProduction(g, d, q)
      PROVE  DockInv'
  <2>1. q \in Nat
    BY QuantitiesNat
  <2>2. ASSUME NEW type \in Types, NEW direct \in BOOLEAN, NEW tasked \in BOOLEAN,
               Receive(g, d, q, type, direct, tasked)
        PROVE  DockInv'
    <3>1. Prepared(g, d, q, type, direct) \in ReceiptRow
      BY <2>1, PreparedIs
    <3>2. receipt[g].status # "Posted" /\ Post(g, Prepared(g, d, q, type, direct))
      BY <2>2 DEF Receive
    <3>3. QED
      BY <3>1, <3>2, PostKeepsDock
  <2>3. ASSUME NEW type \in Types, DraftReceipt(g, d, q, type)
        PROVE  DockInv'
    <3> DEFINE rec == Prepared(g, d, q, type, FALSE)
    <3>1. /\ receipt' = [receipt EXCEPT ![g] = rec] /\ receipt[g].status = "None"
          /\ unit' = unit /\ inspection' = inspection
      BY <2>3 DEF DraftReceipt
    <3>2. rec.status = "Draft"
      BY DEF Prepared
    <3> HIDE DEF rec
    <3>3. \A h \in Receipts : Came(receipt'[h]) = Came(receipt[h])
      BY <1>1, <3>1, <3>2 DEF Came
    <3>4. QED
      BY <1>1, <3>1, <3>3, DockStays
  <2>4. QED
    BY <1>4, <2>1, <2>2, <2>3, ProducedKeepsDock
<1>5. ASSUME NEW g \in Receipts, SubmitReceipt(g) \/ CreatePutaway(g) \/ ReverseReceipt(g) \/ MirrorReturn(g)
      PROVE  DockInv'
  <2>1. receipt[g] \in ReceiptRow
    BY <1>1
  <2>2. CASE SubmitReceipt(g)
    <3>1. receipt[g].status # "Posted" /\ Post(g, receipt[g])
      BY <2>2 DEF SubmitReceipt
    <3>2. QED
      BY <2>1, <3>1, PostKeepsDock
  <2>3. CASE CreatePutaway(g)
    BY <1>2, <2>3 DEF CreatePutaway
  <2>4. CASE MirrorReturn(g)
    <3> DEFINE v == receipt[g].status = "Posted"
               rec == [receipt[g] EXCEPT !.mirrored = v]
    <3>1. receipt' = [receipt EXCEPT ![g] = rec] /\ unit' = unit /\ inspection' = inspection
      BY <2>4 DEF MirrorReturn
    <3> HIDE DEF v
    <3>2. rec.status = receipt[g].status /\ rec.quantity = receipt[g].quantity
      BY <2>1 DEF ReceiptRow
    <3> HIDE DEF rec
    <3>3. \A h \in Receipts : Came(receipt'[h]) = Came(receipt[h])
      BY <1>1, <3>1, <3>2 DEF Came
    <3>4. QED
      BY <1>1, <3>1, <3>3, DockStays
  <2>5. QED
    BY <1>5, <2>2, <2>3, <2>4, ReverseKeepsDock
<1>6. ASSUME NEW g \in Receipts,
             \/ CompleteBySamples(g)
             \/ \E passed \in 0..receipt[g].quantity :
                  CompleteInspection(g, passed) \/ \E follow \in BOOLEAN : Decide(g, passed, follow)
             \/ \E k \in DOMAIN inspection[g].samples, result \in {"Pass", "Fail"} : RecordSample(g, k, result)
      PROVE  DockInv'
  <2>1. CASE \E k \in DOMAIN inspection[g].samples, result \in {"Pass", "Fail"} : RecordSample(g, k, result)
    BY <2>1, SampleKeepsDock
  <2>2. ASSUME NEW p \in 0..receipt[g].quantity,
               CompleteInspection(g, p) \/ \E follow \in BOOLEAN : Decide(g, p, follow)
        PROVE  DockInv'
    <3>1. Decided(g, unit[g].bin, p) \/ Decided(g, inspection[g].bin, p)
      BY <2>2 DEF CompleteInspection, Decide
    <3>2. p \in 0..receipt[g].quantity
      OBVIOUS
    <3>3. QED
      BY <3>1, <3>2, DecidedKeepsDock
  <2>3. CASE CompleteBySamples(g)
    <3> DEFINE p == IF Verdict(inspection[g].samples) = "Accept" THEN receipt[g].quantity ELSE 0
    <3>1. CompleteInspection(g, p)
      BY <2>3 DEF CompleteBySamples
    <3>2. receipt[g].quantity \in Nat
      <4>1. receipt[g] \in ReceiptRow
        BY <1>1
      <4>2. QED
        BY <4>1, ReceiptFields
    <3>3. p \in 0..receipt[g].quantity
      BY <3>2
    <3> HIDE DEF p
    <3>4. QED
      BY <2>2, <3>1, <3>3
  <2>4. QED
    BY <1>6, <2>1, <2>2, <2>3
<1>7. ASSUME NEW i \in DOMAIN request, NEW direct \in BOOLEAN, CreateTasks(i, direct)
      PROVE  DockInv'
  BY <1>2, <1>7 DEF CreateTasks
<1>8. ASSUME NEW o \in Outbounds, Allocate(o) \/ CancelOutbound(o) \/ CompleteOutboundShort(o)
      PROVE  DockInv'
  BY <1>2, <1>8 DEF Allocate, CancelOutbound, CompleteOutboundShort
<1>9. QED
  BY <1>3, <1>4, <1>5, <1>6, <1>7, <1>8, Zenon DEF Operation

-----------------------------------------------------------------------------
(* The invariant. *)

LEMMA InitIs ==
  ASSUME Init
  PROVE  DockInv /\ CrossInv
<1>1. request = <<>> /\ plan = <<>>
  BY DEF Init
<1>2. request \in Seq(RequestRow) /\ plan \in Seq(PlanRow) /\ DOMAIN request = {} /\ DOMAIN plan = {}
  BY <1>1
<1>3. (\A what, of : TotalOf(request, what, of) = 0) /\ \A what, of : TotalOf(plan, what, of) = 0
  BY <1>2, SumEmpty DEF TotalOf
<1>4. RequestTypes
  BY <1>2 DEF RequestTypes
<1>5. DockInv
  <2> DEFINE u == [bin |-> "Receiving", content |-> Empty]
             s == [status |-> "None", bin |-> "Receiving", samples |-> <<>>]
  <2>1. /\ unit = [g \in Receipts |-> u]
        /\ inspection = [g \in Receipts |-> s]
        /\ receipt = [g \in Receipts |-> NoReceipt]
    BY DEF Init, NoInspection
  <2>2. Empty \in [Types -> Nat] /\ \A t \in Types : Empty[t] = 0
    BY DEF Empty
  <2>3. SumOf(Empty, Types) = 0
    BY <2>2, SumZero, Finite DEF SumOf
  <2>4. u \in UnitRow
    BY <2>2 DEF UnitRow, Places
  <2>5. s \in InspectionRow
    BY DEF InspectionRow, Places
  <2>6. AtDock(u) = 0
    BY <2>3 DEF AtDock
  <2> HIDE DEF u, s
  <2>7. unit \in [Receipts -> UnitRow] /\ inspection \in [Receipts -> InspectionRow]
    BY <2>1, <2>4, <2>5
  <2>8. ASSUME NEW g \in Receipts
        PROVE  TotalOf(request, "Left", g) + AtDock(unit[g]) <= Came(receipt[g])
    <3>1. unit[g] = u /\ receipt[g] = NoReceipt
      BY <2>1
    <3>2. Came(receipt[g]) = 0
      BY <3>1 DEF Came, NoReceipt
    <3>3. TotalOf(request, "Left", g) = 0 /\ AtDock(unit[g]) = 0
      BY <1>3, <2>6, <3>1
    <3>4. QED
      BY <3>2, <3>3
  <2>9. QED
    BY <1>4, <2>7, <2>8, LeavesIs DEF DockInv, DockTypes
<1>6. CrossInv
  <2>1. ASSUME NEW o \in Outbounds
        PROVE  outbound[o] \in OutboundRow /\ Line(outbound[o], request, plan, o)
    <3> DEFINE r == Requested[o]
               row == [docstatus |-> 1, requested |-> r, allocated |-> 0, picked |-> 0,
                       fromStock |-> 0, status |-> "Open", picking |-> "Not Started"]
    <3>1. outbound[o] = row /\ r \in Nat
      BY InboundAssumption DEF Init
    <3> HIDE DEF r
    <3>2. row \in OutboundRow /\ row.docstatus = 1 /\ row.status # "Completed" /\ row.requested \in Nat
          /\ row.allocated = 0 /\ row.picked = 0 /\ row.fromStock = 0
      BY <3>1 DEF OutboundRow
    <3>3. /\ TotalOf(request, "Docked", o) = 0 /\ TotalOf(plan, "Promised", o) = 0
          /\ TotalOf(request, "Arrived", o) = 0
      BY <1>3
    <3> HIDE DEF row
    <3>4. Line(row, request, plan, o)
      BY <3>2, <3>3 DEF Line
    <3>5. QED
      BY <3>1, <3>2, <3>4
  <2>2. outbound \in [Outbounds -> OutboundRow]
    BY <2>1 DEF Init
  <2>3. free \in Nat
    BY InboundAssumption DEF Init
  <2>4. CrossTypes
    BY <1>2, <2>2, <2>3 DEF CrossTypes
  <2>5. QED
    BY <1>4, <2>1, <2>4, CrossIs
<1>7. QED
  BY <1>5, <1>6

LEMMA IInvNext ==
  ASSUME IInv, [Next]_vars
  PROVE  IInv'
<1>1. ReceiptInv /\ ReceiptTypes /\ DockInv /\ DockTypes /\ RequestTypes /\ CrossInv
  BY DEF IInv, ReceiptInv, DockInv, DockTypes
<1>2. ReceiptInv'
  BY <1>1, ReceiptInvNext
<1>3. CASE Operation
  <2>1. CrossInv' /\ RequestTypes' /\ LeftStays
    BY <1>1, <1>3, OperationKeepsCross
  <2>2. DockInv'
    BY <1>1, <1>3, <2>1, OperationKeepsDock
  <2>3. QED
    BY <1>2, <2>1, <2>2 DEF IInv
<1>4. ASSUME NEW i \in DOMAIN request, NEW k \in DOMAIN request[i].tasks, ConfirmTask(i, k)
      PROVE  IInv'
  <2>1. CrossInv'
    BY <1>1, <1>4, ConfirmTaskKeepsCross
  <2>2. DockInv'
    BY <1>1, <1>4, ConfirmTaskKeepsDock
  <2>3. QED
    BY <1>2, <2>1, <2>2 DEF IInv
<1>5. CASE UNCHANGED vars
  <2>1. /\ UNCHANGED <<outbound, plan, request, free>>
        /\ UNCHANGED <<unit, inspection, receipt>>
    BY <1>5 DEF vars
  <2>2. CrossInv' /\ RequestTypes' /\ LeftStays
    BY <1>1, <2>1, CrossStays
  <2>3. inspection' \in [Receipts -> InspectionRow] /\ \A h \in Receipts : Came(receipt'[h]) = Came(receipt[h])
    BY <1>1, <2>1 DEF DockTypes
  <2>4. DockInv'
    BY <1>1, <2>1, <2>2, <2>3, DockStays
  <2>5. QED
    BY <1>2, <2>2, <2>4 DEF IInv
<1>6. QED
  BY <1>3, <1>4, <1>5 DEF Next

\* The inductive invariant of inbound deliveries: types, what was received, what
\* left the dock, and what outbound deliveries were promised.
THEOREM InboundInvariant == Spec => []IInv
<1>1. Init => IInv
  BY ReceiptInvInit, InitIs DEF IInv
<1>2. IInv /\ [Next]_vars => IInv'
  BY IInvNext
<1>3. QED
  BY <1>1, <1>2, PTL DEF Spec

\* Tasks carry no more from the dock than a posted receipt brought, and nothing
\* of one that was reversed, whatever was put away, cross-docked, inspected,
\* redirected or stopped in between: confirm_task finds the goods in the bin or fails.
THEOREM LeftWasReceived == Spec => []MovedWasReceived
<1>1. ASSUME IInv
      PROVE  MovedWasReceived
  <2>1. DockInv /\ RequestTypes
    BY <1>1 DEF IInv, DockInv, DockTypes
  <2>2. ASSUME NEW g \in Receipts
        PROVE  LeftDock(g) <= Came(receipt[g])
    <3>1. /\ AtDock(unit[g]) \in Nat /\ TotalOf(request, "Left", g) \in Int
          /\ TotalOf(request, "Left", g) + AtDock(unit[g]) <= Came(receipt[g])
      BY <2>1, DockOf
    <3>2. LeftDock(g) = TotalOf(request, "Left", g)
      BY <2>1, LeftIs DEF RequestTypes
    <3>3. Came(receipt[g]) \in Int
      <4>1. receipt[g] \in ReceiptRow
        BY <1>1 DEF IInv, ReceiptInv, ReceiptTypes
      <4>2. receipt[g].quantity \in Nat
        BY <4>1, ReceiptFields
      <4>3. QED
        BY <4>2 DEF Came
    <3>4. QED
      BY <3>1, <3>2, <3>3
  <2>3. QED
    BY <2>2 DEF MovedWasReceived, Came
<1>2. QED
  BY <1>1, InboundInvariant, PTL

\* Cross-docking reserves and releases exactly once: what an open outbound line
\* counts as allocated is stock, planned goods or goods on their way, and it is
\* never promised or brought more than it asked for.
THEOREM ReservedOnce == Spec => []CrossDocksAddUp
<1>1. ASSUME IInv
      PROVE  CrossDocksAddUp
  <2>1. /\ inbound \in [Inbounds -> InboundRow] /\ unit \in [Receipts -> UnitRow]
        /\ outbound \in [Outbounds -> OutboundRow] /\ plan \in Seq(PlanRow)
        /\ \A i \in DOMAIN plan : plan[i].consumed <= plan[i].planned
        /\ returned \in Nat /\ free \in Nat
    BY <1>1 DEF IInv, ReceiptInv, ReceiptTypes, DockInv, DockTypes, CrossInv, CrossTypes
  <2>2. ASSUME NEW d \in Inbounds
        PROVE  inbound[d].received \in Nat /\ inbound[d].expected \in Nat
    <3>1. inbound[d] \in InboundRow
      BY <2>1
    <3>2. QED
      BY <3>1 DEF InboundRow
  <2>3. ASSUME NEW o \in Outbounds
        PROVE  {outbound[o].allocated, outbound[o].picked, outbound[o].requested, outbound[o].fromStock} \subseteq Nat
    <3>1. outbound[o] \in OutboundRow
      BY <2>1
    <3>2. QED
      BY <3>1 DEF OutboundRow
  <2>4. ASSUME NEW i \in DOMAIN plan
        PROVE  plan[i].consumed \in 0..plan[i].planned
    <3>1. plan[i] \in PlanRow /\ plan[i].consumed <= plan[i].planned
      BY <2>1
    <3>2. plan[i].consumed \in Nat /\ plan[i].planned \in Nat
      BY <3>1 DEF PlanRow
    <3>3. QED
      BY <3>1, <3>2
  <2>5. ASSUME NEW g \in Receipts, NEW t \in Types
        PROVE  unit[g].content[t] \in Nat
    <3>1. unit[g] \in UnitRow
      BY <2>1
    <3>2. QED
      BY <3>1, UnitFields
  <2>6. TypeOK
    BY <2>1, <2>2, <2>3, <2>4, <2>5 DEF TypeOK
  <2>7. QED
    BY <1>1, <2>6 DEF IInv, CrossInv, CrossDocksAddUp
<1>2. QED
  BY <1>1, InboundInvariant, PTL

=============================================================================
