----------------------- MODULE OutboundPickingProofs -----------------------
(***************************************************************************)
(* Theorems about OutboundPicking, for any number of deliveries, balance   *)
(* rows, users and requests and any quantities.                            *)
(***************************************************************************)
EXTENDS OutboundPicking, Sums

USE ConstantsAssumption

-----------------------------------------------------------------------------
\* Names and single rows: what the row operators return.
LEMMA AllocationIdParts ==
  ASSUME NEW a \in AllocationIds
  PROVE  DeliveryOf(a) \in Deliveries /\ BalanceOf(a) \in Balances
BY DEF AllocationIds, DeliveryOf, BalanceOf

LEMMA TaskIdParts ==
  ASSUME NEW t \in TaskIds
  PROVE  /\ AllocationOf(t) \in AllocationIds
         /\ AllocationOf(t) \in TaskKeys
BY DEF TaskIds, AllocationOf, TaskKeys

\* Finitely many allocations and tasks: sums over them are defined.
LEMMA FiniteNames == IsFiniteSet(AllocationIds) /\ IsFiniteSet(TaskIds)
<1> DEFINE Nested == Deliveries \X (Balances \X (1..MaxRows))
           name == [p \in Nested |-> <<p[1], p[2][1], p[2][2]>>]
<1>1. IsFiniteSet(1..MaxRows)
  BY FS_Interval
<1>2. IsFiniteSet(Balances \X (1..MaxRows))
  BY <1>1, FS_Product
<1>3. IsFiniteSet(Nested)
  BY <1>2, FS_Product
<1>4. AllocationIds = {name[p] : p \in Nested}
  <2>1. ASSUME NEW d \in Deliveries, NEW b \in Balances, NEW k \in 1..MaxRows
        PROVE  <<d, <<b, k>>>> \in Nested /\ name[<<d, <<b, k>>>>] = <<d, b, k>>
    OBVIOUS
  <2>2. \A p \in Nested : name[p] \in AllocationIds
    BY DEF AllocationIds
  <2>3. \A a \in AllocationIds : \E p \in Nested : name[p] = a
    <3> SUFFICES ASSUME NEW a \in AllocationIds
                 PROVE  \E p \in Nested : name[p] = a
      OBVIOUS
    <3>1. a[1] \in Deliveries /\ a[2] \in Balances /\ a[3] \in 1..MaxRows /\ a = <<a[1], a[2], a[3]>>
      BY DEF AllocationIds
    <3> DEFINE p == <<a[1], <<a[2], a[3]>>>>
    <3>2. p \in Nested /\ name[p] = <<a[1], a[2], a[3]>>
      BY <2>1, <3>1
    <3> HIDE DEF name, Nested, p
    <3>3. name[p] = a
      BY <3>1, <3>2
    <3>4. QED
      BY <3>2, <3>3
  <2> HIDE DEF name, Nested
  <2>4. QED
    BY <2>2, <2>3, Zenon
<1>5. IsFiniteSet(AllocationIds)
  <2> HIDE DEF name, Nested
  <2>1. IsFiniteSet({name[p] : p \in Nested})
    BY <1>3, FiniteImage
  <2>2. QED
    BY <1>4, <2>1, Zenon
<1>6. QED
  BY <1>1, <1>5, FS_Product DEF TaskIds

\* sum(allocated_quantity) is a natural number.
LEMMA AllocatedOfType ==
  ASSUME TypeOK, NEW S \in SUBSET AllocationIds
  PROVE  AllocatedOf(S) \in Nat
<1>1. IsFiniteSet(S)
  BY FiniteNames, FS_Subset
<1>2. \A a \in S : [x \in AllocationIds |-> allocation[x].allocated][a] \in Nat
  BY DEF TypeOK, AllocationRow
<1>3. QED
  BY <1>1, <1>2, SumNat DEF AllocatedOf

\* The statuses a recomputation writes are the ones the doctype knows.
LEMMA StatusTypes ==
  ASSUME NEW m \in Int, NEW n \in Int
  PROVE  /\ AllocationStatusOf(m, n) \in {"Not Allocated", "Partially Allocated", "Fully Allocated"}
         /\ PickingStatusOf(m, n) \in {"Not Started", "Partially Picked", "Picked"}
BY DEF AllocationStatusOf, PickingStatusOf

\* release_allocation keeps a row a row, whatever it is asked to release, and
\* a pick of what is there leaves no more reserved than remains.
LEMMA BalanceRowOps ==
  ASSUME NEW row \in BalanceRow, NEW q \in Nat
  PROVE  /\ ReleaseAllocation(row, q) \in BalanceRow
         /\ row.allocated <= row.quantity =>
              ReleaseAllocation(row, q).allocated <= ReleaseAllocation(row, q).quantity
         /\ q <= row.quantity => PickFromBalance(row, q) \in BalanceRow
         /\ q <= row.quantity /\ row.allocated <= row.quantity =>
              PickFromBalance(row, q).allocated <= PickFromBalance(row, q).quantity
         /\ [row EXCEPT !.quantity = row.quantity + q] \in BalanceRow
         /\ [row EXCEPT !.allocated = row.allocated + q] \in BalanceRow
BY DEF BalanceRow, ReleaseAllocation, PickFromBalance, Floor0

LEMMA ChargeableBounds ==
  ASSUME TypeOK, NEW a \in AllocationIds, NEW q \in Nat
  PROVE  /\ Chargeable(a, q) \in Nat
         /\ Chargeable(a, q) <= q
         /\ Chargeable(a, q) > 0 => Chargeable(a, q) <= allocation[a].allocated - allocation[a].picked
         /\ allocation[a].allocated - allocation[a].picked >= q => Chargeable(a, q) = q
<1>1. allocation[a].allocated \in Nat /\ allocation[a].picked \in Nat
  BY DEF TypeOK, AllocationRow
<1>2. QED
  BY <1>1 DEF Chargeable, Outstanding, Lesser

LEMMA AllocationRowOps ==
  ASSUME NEW row \in AllocationRow, NEW take \in Nat
  PROVE  /\ BookPick(row, take) \in AllocationRow
         /\ take <= row.allocated => ShrinkAllocation(row, take) \in AllocationRow
         /\ take <= row.picked => UnwindPick(row, take) \in AllocationRow
<1>1. /\ row.allocated \in Nat /\ row.picked \in Nat
      /\ row.status \in AllocationStatus
  BY DEF AllocationRow
<1>2. \A m, n \in Nat, s \in AllocationStatus :
        [allocated |-> m, picked |-> n, status |-> s] \in AllocationRow
  BY DEF AllocationRow
<1>3. /\ "Picked" \in AllocationStatus /\ "Partially Picked" \in AllocationStatus
      /\ "Allocated" \in AllocationStatus
  BY DEF AllocationStatus
<1>4. BookPick(row, take) \in AllocationRow
  <2>1. (IF row.picked + take >= row.allocated THEN "Picked" ELSE "Partially Picked")
          \in AllocationStatus
    BY <1>3
  <2>2. row.picked + take \in Nat
    BY <1>1
  <2>3. QED
    BY <1>1, <1>2, <2>1, <2>2, Zenon DEF BookPick
<1>5. ASSUME take <= row.allocated
      PROVE  ShrinkAllocation(row, take) \in AllocationRow
  <2>1. (IF row.picked >= row.allocated - take THEN "Picked" ELSE row.status)
          \in AllocationStatus
    BY <1>1, <1>3, Zenon
  <2>2. row.allocated - take \in Nat
    BY <1>1, <1>5
  <2>3. QED
    BY <1>1, <1>2, <2>1, <2>2, Zenon DEF ShrinkAllocation
<1>6. ASSUME take <= row.picked
      PROVE  UnwindPick(row, take) \in AllocationRow
  <2>1. (IF row.picked = take THEN "Allocated"
         ELSE IF row.picked - take >= row.allocated THEN "Picked"
         ELSE "Partially Picked") \in AllocationStatus
    BY <1>3, Zenon
  <2>2. row.picked - take \in Nat
    BY <1>1, <1>6
  <2>3. QED
    BY <1>1, <1>2, <2>1, <2>2, Zenon DEF UnwindPick
<1>7. QED
  BY <1>4, <1>5, <1>6

LEMMA AllocationRowUpdates ==
  ASSUME NEW row \in AllocationRow, NEW s \in AllocationStatus
  PROVE  [row EXCEPT !.status = s] \in AllocationRow
BY Zenon DEF AllocationRow

LEMMA DeliveryFields ==
  ASSUME NEW row \in DeliveryRow
  PROVE  /\ row.docstatus \in 1..2
         /\ row.requested \in Int /\ row.allocated \in Int /\ row.picked \in Int
BY Zenon DEF DeliveryRow

LEMMA DeliveryRowUpdates ==
  ASSUME NEW row \in DeliveryRow
  PROVE  /\ \A s \in {"Not Started", "Partially Picked", "Picked"} :
              [row EXCEPT !.picking_status = s] \in DeliveryRow
         /\ \A s \in {"Not Allocated", "Partially Allocated", "Fully Allocated"} :
              [row EXCEPT !.allocation_status = s] \in DeliveryRow
         /\ \A n \in Int : [row EXCEPT !.picked = n] \in DeliveryRow
         /\ \A m, n \in Int : [row EXCEPT !.requested = m, !.allocated = n] \in DeliveryRow
         /\ \A m \in Int, s \in {"Not Allocated", "Partially Allocated", "Fully Allocated"} :
              [row EXCEPT !.allocated = m, !.allocation_status = s] \in DeliveryRow
         /\ \A n \in 1..2 : [row EXCEPT !.docstatus = n] \in DeliveryRow
BY Zenon DEF DeliveryRow

LEMMA TaskRowUpdates ==
  ASSUME NEW row \in TaskRow, NEW s \in TaskStatus
  PROVE  /\ \A n \in Nat, key \in LedgerKeys :
              [row EXCEPT !.confirmed = n, !.status = s, !.idempotency_key = key] \in TaskRow
         /\ \A n \in Nat : [row EXCEPT !.status = s, !.planned = n] \in TaskRow
         /\ [row EXCEPT !.status = s] \in TaskRow
         /\ [row EXCEPT !.reversed = TRUE] \in TaskRow
BY Zenon DEF TaskRow

LEMMA LineOps ==
  ASSUME NEW ln \in DeliveryRow, NEW take \in Nat
  PROVE  /\ BookPickOnLine(ln, take) \in DeliveryRow
         /\ ShrinkLine(ln, take) \in DeliveryRow
         /\ UnwindLine(ln, take) \in DeliveryRow
<1>2. /\ ln.picked \in Int /\ ln.requested \in Int /\ ln.allocated \in Int
      /\ Floor0(ln.picked - take) \in Int
  <2>1. ln.picked \in Int /\ ln.requested \in Int /\ ln.allocated \in Int
    BY Zenon DEF DeliveryRow
  <2>2. Floor0(ln.picked - take) \in Int
    BY <2>1 DEF Floor0
  <2>3. QED
    BY <2>1, <2>2
<1>3. ASSUME NEW row \in DeliveryRow
      PROVE  WithPickingStatus(row) \in DeliveryRow
  <2>1. row.requested \in Int /\ row.picked \in Int
    BY DEF DeliveryRow
  <2>2. QED
    BY <2>1, DeliveryRowUpdates, StatusTypes, Zenon DEF WithPickingStatus
<1>4. BookPickOnLine(ln, take) \in DeliveryRow
  <2>1. ln.picked + take \in Int
    BY <1>2
  <2>2. QED
    BY DeliveryRowUpdates, <1>3, <2>1, Zenon DEF BookPickOnLine
<1>5. UnwindLine(ln, take) \in DeliveryRow
  BY DeliveryRowUpdates, <1>2, <1>3, Zenon DEF UnwindLine
<1>6. ShrinkLine(ln, take) \in DeliveryRow
  <2>1. ln.requested - take \in Int /\ ln.allocated - take \in Int
    BY <1>2
  <2> DEFINE short == [ln EXCEPT !.requested = @ - take, !.allocated = @ - take]
  <2>2. short \in DeliveryRow
    BY <2>1, DeliveryRowUpdates, Zenon
  <2>3. short.requested \in Int /\ short.allocated \in Int
    BY <2>2, Zenon DEF DeliveryRow
  <2>4. AllocationStatusOf(short.requested, short.allocated)
          \in {"Not Allocated", "Partially Allocated", "Fully Allocated"}
    BY <2>3, StatusTypes, Zenon
  <2>5. [WithPickingStatus(short) EXCEPT
           !.allocation_status = AllocationStatusOf(short.requested, short.allocated)]
          \in DeliveryRow
    <3> HIDE DEF short
    <3>1. WithPickingStatus(short) \in DeliveryRow
      BY <1>3, <2>2
    <3>2. QED
      BY DeliveryRowUpdates, <2>4, <3>1, Zenon
  <2>6. QED
    BY <2>5, Zenon DEF ShrinkLine
<1>7. QED
  BY <1>4, <1>5, <1>6

-----------------------------------------------------------------------------
\* What a well-typed state says of a task, its allocation and its row.
LEMMA TaskFacts ==
  ASSUME TypeInvariant, NEW t \in TaskIds
  PROVE  /\ task[t] \in TaskRow
         /\ task[t].planned \in Nat /\ task[t].confirmed \in Nat
         /\ task[t].planned - task[t].confirmed \in Nat
         /\ allocation[AllocationOf(t)] \in AllocationRow
         /\ allocation[AllocationOf(t)].picked \in Nat
         /\ allocation[AllocationOf(t)].allocated \in Nat
         /\ stockBalance[BalanceOf(AllocationOf(t))] \in BalanceRow
         /\ stockBalance[BalanceOf(AllocationOf(t))].quantity \in Nat
         /\ delivery[DeliveryOf(AllocationOf(t))] \in DeliveryRow
         /\ staged[DeliveryOf(AllocationOf(t))] \in Nat
<1>1. task[t] \in TaskRow
  BY DEF TypeInvariant, TypeOK
<1>2. task[t].planned \in Nat /\ task[t].confirmed \in Nat
  BY <1>1, Zenon DEF TaskRow
<1>3. task[t].planned - task[t].confirmed \in Nat
  BY <1>2 DEF TypeInvariant, TaskSound
<1>4. /\ allocation[AllocationOf(t)] \in AllocationRow
      /\ stockBalance[BalanceOf(AllocationOf(t))] \in BalanceRow
      /\ delivery[DeliveryOf(AllocationOf(t))] \in DeliveryRow
      /\ staged[DeliveryOf(AllocationOf(t))] \in Nat
  BY TaskIdParts, AllocationIdParts DEF TypeInvariant, TypeOK
<1>5. /\ allocation[AllocationOf(t)].picked \in Nat
      /\ allocation[AllocationOf(t)].allocated \in Nat
      /\ stockBalance[BalanceOf(AllocationOf(t))].quantity \in Nat
  BY <1>4, Zenon DEF AllocationRow, BalanceRow
<1>6. QED
  BY <1>1, <1>2, <1>3, <1>4, <1>5
-----------------------------------------------------------------------------
\* Each action keeps every record well typed and every task sound.
LEMMA InitTypes == Init => TypeInvariant
<1> SUFFICES ASSUME Init PROVE TypeInvariant
  OBVIOUS
<1>1. \A a \in AllocationIds : NoAllocation \in AllocationRow
  BY DEF NoAllocation, AllocationRow, AllocationStatus
<1>2. \A t \in TaskIds : NoTask(AllocationOf(t)) \in TaskRow
  BY TaskIdParts DEF NoTask, TaskRow, TaskStatus
<1>3. TypeOK
  <2>1. stockBalance \in [Balances -> BalanceRow]
    BY DEF Init, BalanceRow
  <2>2. \A d \in Deliveries :
          [docstatus |-> 1, requested |-> Demand[d], allocated |-> 0,
           picked |-> 0, allocation_status |-> "Not Allocated",
           picking_status |-> "Not Started"] \in DeliveryRow
    BY DEF DeliveryRow
  <2>3. delivery \in [Deliveries -> DeliveryRow]
    BY <2>2, Zenon DEF Init
  <2>4. /\ ledger = {} /\ differenceBin = 0 /\ staged \in [Deliveries -> Nat]
        /\ allocation \in [AllocationIds -> AllocationRow]
        /\ task \in [TaskIds -> TaskRow]
        /\ snapshot \in [Users -> SUBSET ReadRow]
    BY <1>1, <1>2 DEF Init
  <2>5. QED
    BY <2>1, <2>3, <2>4 DEF TypeOK
<1>4. \A t \in TaskIds : task[t].confirmed = 0 /\ task[t].planned = 0 /\ task[t].status = "None"
  BY DEF Init, NoTask
<1>5. \A t \in TaskIds : TaskSound(t)
  <2>1. 0 <= 0
    OBVIOUS
  <2>2. QED
    BY <1>4, <2>1, Zenon DEF TaskSound, Docstatus0, OpenTask
<1>6. QED
  BY <1>3, <1>5 DEF TypeInvariant

\* Allocate takes from each row at most what is available, if anything.
LEMMA AllocateEffect ==
  ASSUME TypeOK, NEW d \in Deliveries, Allocate(d)
  PROVE  \E k \in 1..MaxRows, p \in [take : [Balances -> Nat], left : Nat] :
           /\ Reserve(d, k, p)
           /\ p.left + SumFunctionOnSet(p.take, Balances)
                = delivery[d].requested - delivery[d].allocated
           /\ \A b \in Balances : p.take[b] > 0 => p.take[b] <= Available(b)
<1>1. PICK candidates \in SUBSET Balances, k \in 1..MaxRows :
        \E p \in Allocations(d, candidates, delivery[d].requested - delivery[d].allocated) :
          Reserve(d, k, p)
  BY DEF Allocate
<1>2. PICK p \in Allocations(d, candidates, delivery[d].requested - delivery[d].allocated) :
        Reserve(d, k, p)
  BY <1>1
<1>3. delivery[d].requested - delivery[d].allocated \in Int
  <2>1. delivery[d] \in DeliveryRow
    BY DEF TypeOK
  <2>2. QED
    BY <2>1, DeliveryFields
<1>4. p \in [take : [Balances -> Nat], left : Nat]
  BY <1>3 DEF Allocations
<1>5. /\ p.left + SumFunctionOnSet(p.take, Balances) = delivery[d].requested - delivery[d].allocated
      /\ \A b \in Balances : p.take[b] > 0 => p.take[b] <= Available(b)
  BY DEF Allocations
<1>6. QED
  BY <1>2, <1>4, <1>5

LEMMA AllocateTypes ==
  ASSUME TypeInvariant, NEW d \in Deliveries, Allocate(d)
  PROVE  TypeInvariant'
<1>1. PICK k \in 1..MaxRows, p \in [take : [Balances -> Nat], left : Nat] : Reserve(d, k, p)
  BY AllocateEffect DEF TypeInvariant
<1> DEFINE take == p.take
           left == p.left
<1>2. stockBalance' \in [Balances -> BalanceRow]
  BY <1>1, BalanceRowOps DEF Reserve, TypeInvariant, TypeOK
<1>3. allocation' \in [AllocationIds -> AllocationRow]
  <2>1. \A n \in Nat : [status |-> "Allocated", allocated |-> n, picked |-> 0] \in AllocationRow
    BY DEF AllocationRow, AllocationStatus
  <2>2. \A a \in AllocationIds : take[BalanceOf(a)] \in Nat
    BY AllocationIdParts
  <2>3. QED
    BY <1>1, <2>1, <2>2 DEF Reserve, TypeInvariant, TypeOK
<1>4. delivery' \in [Deliveries -> DeliveryRow]
  <2>1. delivery[d] \in DeliveryRow
    BY DEF TypeInvariant, TypeOK
  <2>2. delivery[d].requested \in Int /\ delivery[d].requested - left \in Int
    BY <1>1, <2>1, DeliveryFields
  <2>3. AllocationStatusOf(delivery[d].requested, delivery[d].requested - left)
          \in {"Not Allocated", "Partially Allocated", "Fully Allocated"}
    BY <2>2, StatusTypes
  <2>4. QED
    BY <1>1, <2>1, <2>2, <2>3, DeliveryRowUpdates, Zenon DEF Reserve, TypeInvariant, TypeOK
<1>5. UNCHANGED <<task, ledger, staged, differenceBin, snapshot>>
  BY <1>1 DEF Reserve
<1>6. QED
  BY <1>2, <1>3, <1>4, <1>5 DEF TypeInvariant, TypeOK, TaskSound, Docstatus0, OpenTask
\* Rewriting one task keeps all tasks sound if the new row is.
LEMMA TaskUpdate ==
  ASSUME TypeInvariant, NEW t \in TaskIds, NEW row \in TaskRow,
         task' = [task EXCEPT ![t] = row],
         row.confirmed <= row.planned,
         row.status \in {"Open", "Partially Confirmed", "Exception"} =>
           ~row.reversed /\ row.idempotency_key \in TaskKeys
  PROVE  /\ task' \in [TaskIds -> TaskRow]
         /\ \A v \in TaskIds : TaskSound(v)'
<1>1. /\ task' \in [TaskIds -> TaskRow]
      /\ task'[t] = row
      /\ \A v \in TaskIds \ {t} : task'[v] = task[v]
  BY Zenon DEF TypeInvariant, TypeOK
<1>2. TaskSound(t)'
  BY <1>1, Zenon DEF TaskSound, Docstatus0, OpenTask
<1>3. \A v \in TaskIds \ {t} : TaskSound(v)'
  BY <1>1, Zenon DEF TypeInvariant, TaskSound, Docstatus0, OpenTask
<1>4. QED
  BY <1>1, <1>2, <1>3, Zenon

LEMMA ReadAllocationsTypes ==
  ASSUME TypeInvariant, NEW u \in Users, NEW d \in Deliveries, ReadAllocations(u, d)
  PROVE  TypeInvariant'
<1>1. \A a \in AllocationIds : [name |-> a, row |-> allocation[a]] \in ReadRow
  BY Zenon DEF TypeInvariant, TypeOK, ReadRow
<1>2. {[name |-> a, row |-> allocation[a]] :
         a \in {c \in AllocationIds : DeliveryOf(c) = d /\ allocation[c].status = "Allocated"}}
        \in SUBSET ReadRow
  BY <1>1, Zenon
<1>3. snapshot' \in [Users -> SUBSET ReadRow]
  BY <1>2, Zenon DEF ReadAllocations, TypeInvariant, TypeOK
<1>4. QED
  BY <1>3 DEF ReadAllocations, TypeInvariant, TypeOK, TaskSound, Docstatus0, OpenTask

LEMMA ClaimTypes ==
  ASSUME TypeInvariant, NEW u \in Users, ClaimAllocations(u)
  PROVE  TypeInvariant'
<1>1. PICK number \in [Claimed(u) -> 1..MaxRows] :
        task' = [t \in TaskIds |->
          IF \E x \in Claimed(u) : t = <<x.name, number[x]>>
            THEN [status |-> "Open", confirmed |-> 0, reversed |-> FALSE,
                  planned |-> (CHOOSE x \in Claimed(u) : x.name = t[1]).row.allocated,
                  idempotency_key |-> t[1]]
            ELSE task[t]]
  BY Zenon DEF ClaimAllocations
<1> DEFINE NewTask(t) ==
             [status |-> "Open", confirmed |-> 0, reversed |-> FALSE,
              planned |-> (CHOOSE x \in Claimed(u) : x.name = t[1]).row.allocated,
              idempotency_key |-> t[1]]
<1>2. ASSUME NEW t \in TaskIds, \E x \in Claimed(u) : t = <<x.name, number[x]>>
      PROVE  /\ (CHOOSE x \in Claimed(u) : x.name = t[1]).row.allocated \in Nat
             /\ NewTask(t) \in TaskRow
             /\ NewTask(t).confirmed <= NewTask(t).planned
  <2>1. PICK y \in Claimed(u) : y = (CHOOSE x \in Claimed(u) : x.name = t[1])
    BY <1>2
  <2>2. y \in ReadRow
    BY DEF Claimed, TypeInvariant, TypeOK
  <2>3. y.row.allocated \in Nat
    BY <2>2 DEF ReadRow, AllocationRow
  <2>4. t[1] \in TaskKeys
    BY TaskIdParts DEF AllocationOf
  <2>5. \A n \in Nat, key \in TaskKeys :
          [status |-> "Open", confirmed |-> 0, reversed |-> FALSE,
           planned |-> n, idempotency_key |-> key] \in TaskRow
    BY DEF TaskRow, TaskStatus
  <2>6. QED
    BY <2>1, <2>3, <2>4, <2>5
<1>3. task' \in [TaskIds -> TaskRow]
  BY <1>1, <1>2, Zenon DEF TypeInvariant, TypeOK
<1>4. \A t \in TaskIds : TaskSound(t)'
  BY <1>1, <1>2, TaskIdParts, Zenon
     DEF TypeInvariant, TaskSound, Docstatus0, OpenTask, AllocationOf
<1>5. allocation' \in [AllocationIds -> AllocationRow]
  <2>1. \A a \in AllocationIds : [allocation[a] EXCEPT !.status = "Released"] \in AllocationRow
    BY AllocationRowUpdates, Zenon DEF TypeInvariant, TypeOK, AllocationStatus
  <2>2. QED
    BY <2>1, Zenon DEF ClaimAllocations, TypeInvariant, TypeOK
<1>6. snapshot' \in [Users -> SUBSET ReadRow]
  BY Zenon DEF ClaimAllocations, TypeInvariant, TypeOK
<1>7. QED
  BY <1>3, <1>4, <1>5, <1>6 DEF ClaimAllocations, TypeInvariant, TypeOK

LEMMA ClaimRefusedTypes ==
  ASSUME TypeInvariant, NEW u \in Users, ClaimRefused(u)
  PROVE  TypeInvariant'
BY DEF ClaimRefused, TypeInvariant, TypeOK, TaskSound, Docstatus0, OpenTask
\* A confirmation of a task that is open, under a key the ledger may hold,
\* that closes the task if the key derives from the task's own.
LEMMA ConfirmTypes ==
  ASSUME TypeInvariant, NEW t \in TaskIds, NEW qty \in Nat, NEW key \in LedgerKeys,
         OpenTask(t), Confirm(t, qty, key),
         key \in TaskKeys \/ qty >= task[t].planned - task[t].confirmed
  PROVE  TypeInvariant'
<1> DEFINE a == AllocationOf(t)
           b == BalanceOf(a)
           d == DeliveryOf(a)
           open == task[t].planned - task[t].confirmed
           posted == Lesser(qty, open)
           take == Chargeable(a, posted)
           status == IF posted = open THEN "Confirmed" ELSE "Partially Confirmed"
<1>1. /\ open \in Nat /\ posted \in Nat /\ take \in Nat
      /\ posted <= open /\ posted <= qty
  <2>1. open \in Nat
    BY TaskFacts
  <2>2. posted \in Nat /\ posted <= open /\ posted <= qty
    BY <2>1 DEF Lesser
  <2>3. take \in Nat
    BY <2>2, TaskIdParts, ChargeableBounds DEF TypeInvariant
  <2>4. QED
    BY <2>1, <2>2, <2>3
<1>2. /\ a \in AllocationIds /\ b \in Balances /\ d \in Deliveries
  BY TaskIdParts, AllocationIdParts
<1>3. stockBalance' \in [Balances -> BalanceRow]
  <2>1. posted <= stockBalance[b].quantity
    BY <1>1, TaskFacts DEF Confirm
  <2>2. PickFromBalance(stockBalance[b], posted) \in BalanceRow
    BY <1>1, <2>1, TaskFacts, BalanceRowOps
  <2>3. QED
    BY <1>2, <2>2, Zenon DEF Confirm, TypeInvariant, TypeOK
<1>4. /\ allocation' \in [AllocationIds -> AllocationRow]
      /\ delivery' \in [Deliveries -> DeliveryRow]
  <2>1. /\ BookPick(allocation[a], take) \in AllocationRow
        /\ BookPickOnLine(delivery[d], take) \in DeliveryRow
    BY <1>1, TaskFacts, AllocationRowOps, LineOps
  <2>2. QED
    BY <1>2, <2>1, Zenon DEF Confirm, TypeInvariant, TypeOK
<1>5. /\ staged' \in [Deliveries -> Nat]
      /\ differenceBin' \in Nat
  <2>1. staged[d] + posted \in Nat /\ qty - posted \in Nat
    BY <1>1, TaskFacts
  <2>2. /\ staged' = [staged EXCEPT ![d] = staged[d] + posted]
        /\ differenceBin' = differenceBin + (qty - posted)
    BY Zenon DEF Confirm
  <2>3. staged \in [Deliveries -> Nat] /\ differenceBin \in Nat
    BY DEF TypeInvariant, TypeOK
  <2> HIDE DEF posted, d
  <2>4. QED
    BY <1>2, <2>1, <2>2, <2>3
<1>6. ledger' \in SUBSET LedgerEntry
  <2>1. [key |-> key, task |-> t, quantity |-> posted] \in LedgerEntry
    BY <1>1, Zenon DEF LedgerEntry
  <2>2. QED
    BY <2>1, Zenon DEF Confirm, TypeInvariant, TypeOK
<1>7. /\ task' \in [TaskIds -> TaskRow]
      /\ \A v \in TaskIds : TaskSound(v)'
  <2> DEFINE row == [task[t] EXCEPT !.confirmed = task[t].confirmed + posted,
                                    !.status = status, !.idempotency_key = key]
  <2>1. task[t].confirmed + posted \in Nat /\ task[t].confirmed + posted <= task[t].planned
    BY <1>1, TaskFacts
  <2>2. task' = [task EXCEPT ![t] = row]
    BY Zenon DEF Confirm
  <2>3. status \in TaskStatus /\ task[t] \in TaskRow
    BY TaskFacts, Zenon DEF TaskStatus
  <2>4. row \in TaskRow
    BY <2>1, <2>3, TaskRowUpdates, Zenon
  <2>5. /\ row.confirmed = task[t].confirmed + posted
        /\ row.planned = task[t].planned
        /\ row.status = status
        /\ row.reversed = task[t].reversed
        /\ row.idempotency_key = key
    BY <2>3, Zenon DEF TaskRow
  <2>6. status \in {"Open", "Partially Confirmed", "Exception"} => key \in TaskKeys
    <3>1. qty >= open => posted = open
      BY <1>1 DEF Lesser
    <3>2. QED
      BY <3>1, Zenon
  <2>7. ~task[t].reversed
    BY Zenon DEF TypeInvariant, TaskSound, Docstatus0
  <2> HIDE DEF row, status
  <2>8. QED
    BY <2>1, <2>2, <2>4, <2>5, <2>6, <2>7, TaskUpdate, Zenon
<1>8. snapshot' \in [Users -> SUBSET ReadRow]
  BY Zenon DEF Confirm, TypeInvariant, TypeOK
<1>9. QED
  BY <1>3, <1>4, <1>5, <1>6, <1>7, <1>8, Zenon DEF TypeInvariant, TypeOK

\* A request to confirm is answered as a replay or confirms the open task.
Confirmation(t) ==
  \/ ConfirmInBackground(t)
  \/ \E q \in 1..MaxQuantity, r \in RequestIds : ConfirmFromScanner(t, q, r)

LEMMA ConfirmationEffect ==
  ASSUME TypeInvariant, NEW t \in TaskIds, Confirmation(t)
  PROVE  \/ UNCHANGED vars
         \/ /\ OpenTask(t)
            /\ \E qty \in Nat, key \in LedgerKeys :
                 /\ Confirm(t, qty, key) /\ ~Posted(key)
                 /\ key \in TaskKeys \/ qty >= task[t].planned - task[t].confirmed
<1>1. CASE ConfirmInBackground(t)
  <2> DEFINE open == task[t].planned - task[t].confirmed
  <2>1. OpenTask(t) /\ (UNCHANGED vars \/ (Confirm(t, open, DefaultKey(t)) /\ ~Posted(DefaultKey(t))))
    BY <1>1, Zenon DEF ConfirmInBackground, ConfirmOrReplay
  <2>2. open \in Nat /\ open >= open
    BY TaskFacts
  <2>3. DefaultKey(t) \in LedgerKeys
    BY <2>1, TaskFacts, Zenon DEF DefaultKey, LedgerKeys, TypeInvariant, TaskSound, Docstatus0
  <2>4. QED
    BY <2>1, <2>2, <2>3, Zenon
<1>2. CASE \E q \in 1..MaxQuantity, r \in RequestIds : ConfirmFromScanner(t, q, r)
  <2>1. PICK q \in 1..MaxQuantity, r \in RequestIds : ConfirmFromScanner(t, q, r)
    BY <1>2
  <2>2. OpenTask(t) /\ (UNCHANGED vars \/ (Confirm(t, q, r) /\ ~Posted(r)))
    BY <2>1, Zenon DEF ConfirmFromScanner, ConfirmOrReplay
  <2>3. q \in Nat /\ r \in LedgerKeys /\ r \in TaskKeys
    BY DEF LedgerKeys, TaskKeys
  <2>4. QED
    BY <2>2, <2>3, Zenon
<1>3. QED
  BY <1>1, <1>2 DEF Confirmation

LEMMA UnchangedTypes ==
  ASSUME TypeInvariant, UNCHANGED vars
  PROVE  TypeInvariant'
BY DEF vars, TypeInvariant, TypeOK, TaskSound, Docstatus0, OpenTask

LEMMA ConfirmationTypes ==
  ASSUME TypeInvariant, NEW t \in TaskIds, Confirmation(t)
  PROVE  TypeInvariant'
BY ConfirmationEffect, ConfirmTypes, UnchangedTypes, Zenon

LEMMA RaiseExceptionTypes ==
  ASSUME TypeInvariant, NEW t \in TaskIds, NEW revised \in Nat, RaiseException(t, revised)
  PROVE  TypeInvariant'
<1> DEFINE row == [task[t] EXCEPT !.status = "Exception", !.planned = revised]
<1>1. /\ row \in TaskRow
      /\ row.confirmed = task[t].confirmed /\ row.planned = revised
      /\ row.reversed = task[t].reversed
      /\ row.idempotency_key = task[t].idempotency_key
  <2>1. task[t] \in TaskRow /\ "Exception" \in TaskStatus
    BY TaskFacts, Zenon DEF TaskStatus
  <2>2. QED
    BY <2>1, TaskRowUpdates, Zenon DEF TaskRow
<1>2. task[t].confirmed <= revised
  BY TaskFacts DEF RaiseException
<1>3. ~task[t].reversed /\ task[t].idempotency_key \in TaskKeys
  BY Zenon DEF RaiseException, TypeInvariant, TaskSound
<1>4. task' = [task EXCEPT ![t] = row]
  BY Zenon DEF RaiseException
<1> HIDE DEF row
<1>5. task' \in [TaskIds -> TaskRow] /\ \A v \in TaskIds : TaskSound(v)'
  BY <1>1, <1>2, <1>3, <1>4, TaskUpdate, Zenon
<1>6. QED
  BY <1>5, Zenon DEF RaiseException, TypeInvariant, TypeOK

LEMMA CloseShortTypes ==
  ASSUME TypeInvariant, NEW t \in TaskIds, CloseShort(t)
  PROVE  TypeInvariant'
<1> DEFINE a == AllocationOf(t)
           d == DeliveryOf(a)
           shortfall == task[t].planned - task[t].confirmed
           take == Chargeable(a, shortfall)
           row == [task[t] EXCEPT !.status = "Confirmed", !.planned = task[t].confirmed]
<1>1. /\ a \in AllocationIds /\ BalanceOf(a) \in Balances /\ d \in Deliveries
  BY TaskIdParts, AllocationIdParts
<1>2. /\ shortfall \in Nat /\ take \in Nat
      /\ take <= allocation[a].allocated
  <2>1. shortfall \in Nat /\ allocation[a].allocated \in Nat /\ allocation[a].picked \in Nat
    BY TaskFacts
  <2>2. take \in Nat /\ (take > 0 => take <= allocation[a].allocated - allocation[a].picked)
    BY <1>1, <2>1, ChargeableBounds DEF TypeInvariant
  <2> HIDE DEF take
  <2>3. QED
    BY <2>1, <2>2
<1>3. stockBalance' \in [Balances -> BalanceRow]
  <2>1. ReleaseAllocation(stockBalance[BalanceOf(a)], shortfall) \in BalanceRow
    BY <1>2, TaskFacts, BalanceRowOps
  <2>2. QED
    BY <1>1, <2>1, Zenon DEF CloseShort, TypeInvariant, TypeOK
<1>4. /\ allocation' \in [AllocationIds -> AllocationRow]
      /\ delivery' \in [Deliveries -> DeliveryRow]
  <2>1. /\ ShrinkAllocation(allocation[a], take) \in AllocationRow
        /\ ShrinkLine(delivery[d], take) \in DeliveryRow
    BY <1>2, TaskFacts, AllocationRowOps, LineOps
  <2>2. QED
    BY <1>1, <2>1, Zenon DEF CloseShort, TypeInvariant, TypeOK
<1>5. task' \in [TaskIds -> TaskRow] /\ \A v \in TaskIds : TaskSound(v)'
  <2>1. task[t] \in TaskRow /\ "Confirmed" \in TaskStatus /\ task[t].confirmed \in Nat
    BY TaskFacts, Zenon DEF TaskStatus
  <2>2. /\ row \in TaskRow /\ row.status = "Confirmed"
        /\ row.confirmed = task[t].confirmed /\ row.planned = task[t].confirmed
    BY <2>1, TaskRowUpdates, Zenon DEF TaskRow
  <2>3. task[t].confirmed <= task[t].confirmed
    BY <2>1
  <2>4. task' = [task EXCEPT ![t] = row]
    BY Zenon DEF CloseShort
  <2> HIDE DEF row
  <2>5. QED
    BY <2>2, <2>3, <2>4, TaskUpdate, Zenon
<1>6. QED
  BY <1>3, <1>4, <1>5, Zenon DEF CloseShort, TypeInvariant, TypeOK

LEMMA ReverseTypes ==
  ASSUME TypeInvariant, NEW t \in TaskIds, Reverse(t)
  PROVE  TypeInvariant'
<1> DEFINE a == AllocationOf(t)
           d == DeliveryOf(a)
           back == ReturnRow[BalanceOf(a)]
           qty == task[t].confirmed
           take == Lesser(qty, allocation[a].picked)
           row == [task[t] EXCEPT !.reversed = TRUE]
<1>1. /\ a \in AllocationIds /\ BalanceOf(a) \in Balances /\ d \in Deliveries
      /\ back \in Balances
  BY TaskIdParts, AllocationIdParts
<1>2. qty \in Nat /\ take \in Nat /\ take <= allocation[a].picked
  BY TaskFacts DEF Lesser
<1>3. stockBalance' \in [Balances -> BalanceRow]
  <2>1. stockBalance[back] \in BalanceRow
    BY <1>1 DEF TypeInvariant, TypeOK
  <2>2. [stockBalance[back] EXCEPT !.quantity = stockBalance[back].quantity + qty] \in BalanceRow
    BY <1>2, <2>1, BalanceRowOps
  <2>3. QED
    BY <1>1, <2>2, Zenon DEF Reverse, TypeInvariant, TypeOK
<1>4. /\ allocation' \in [AllocationIds -> AllocationRow]
      /\ delivery' \in [Deliveries -> DeliveryRow]
  <2>1. /\ UnwindPick(allocation[a], take) \in AllocationRow
        /\ UnwindLine(delivery[d], take) \in DeliveryRow
    BY <1>2, TaskFacts, AllocationRowOps, LineOps
  <2>2. QED
    BY <1>1, <2>1, Zenon DEF Reverse, TypeInvariant, TypeOK
<1>5. staged' \in [Deliveries -> Nat]
  <2>1. staged[d] - qty \in Nat
    BY <1>2, TaskFacts DEF Reverse
  <2>2. QED
    BY <1>1, <2>1, Zenon DEF Reverse, TypeInvariant, TypeOK
<1>6. task' \in [TaskIds -> TaskRow] /\ \A v \in TaskIds : TaskSound(v)'
  <2>1. task[t] \in TaskRow /\ task[t].status \in TaskStatus
    BY TaskFacts, Zenon DEF TaskRow
  <2>2. /\ row \in TaskRow /\ row.status = "Confirmed"
        /\ row.confirmed = task[t].confirmed /\ row.planned = task[t].planned
    BY <2>1, TaskRowUpdates, Zenon DEF TaskRow, Reverse
  <2>3. task[t].confirmed <= task[t].planned
    BY Zenon DEF TypeInvariant, TaskSound
  <2>4. task' = [task EXCEPT ![t] = row]
    BY Zenon DEF Reverse
  <2> HIDE DEF row
  <2>5. QED
    BY <2>2, <2>3, <2>4, TaskUpdate, Zenon
<1>7. QED
  BY <1>3, <1>4, <1>5, <1>6, Zenon DEF Reverse, TypeInvariant, TypeOK

LEMMA CancelTypes ==
  ASSUME TypeInvariant, NEW d \in Deliveries, CancelDelivery(d)
  PROVE  TypeInvariant'
<1> DEFINE live == LiveAllocations(d)
           reserved == [b \in Balances |-> AllocatedOf({a \in live : BalanceOf(a) = b})]
<1>1. stockBalance' \in [Balances -> BalanceRow]
  <2>1. reserved \in [Balances -> Nat]
    BY AllocatedOfType DEF LiveAllocations, TypeInvariant
  <2>2. stockBalance' = [b \in Balances |-> ReleaseAllocation(stockBalance[b], reserved[b])]
    BY DEF CancelDelivery
  <2> HIDE DEF reserved
  <2>3. QED
    BY <2>1, <2>2, BalanceRowOps DEF TypeInvariant, TypeOK
<1>2. allocation' \in [AllocationIds -> AllocationRow]
  BY AllocationRowUpdates, Zenon DEF CancelDelivery, TypeInvariant, TypeOK, AllocationStatus
<1>3. delivery' \in [Deliveries -> DeliveryRow]
  <2>1. 2 \in 1..2
    OBVIOUS
  <2>2. \A e \in Deliveries : delivery[e] \in DeliveryRow
    BY DEF TypeInvariant, TypeOK
  <2>3. [delivery[d] EXCEPT !.docstatus = 2] \in DeliveryRow
    BY <2>1, <2>2, DeliveryRowUpdates
  <2>4. QED
    BY <2>3, Zenon DEF CancelDelivery, TypeInvariant, TypeOK
<1>4. \A t \in TaskIds : /\ [task[t] EXCEPT !.status = "Cancelled"] \in TaskRow
                         /\ task'[t] = task[t] \/
                            task'[t] = [task[t] EXCEPT !.status = "Cancelled"]
  <2>1. \A t \in TaskIds : task[t] \in TaskRow /\ "Cancelled" \in TaskStatus
    BY DEF TypeInvariant, TypeOK, TaskStatus
  <2>2. \A t \in TaskIds : task'[t] = task[t] \/
                           task'[t] = [task[t] EXCEPT !.status = "Cancelled"]
    BY Zenon DEF CancelDelivery
  <2>3. QED
    BY <2>1, <2>2, TaskRowUpdates
<1>5. task' \in [TaskIds -> TaskRow]
  BY <1>4, Zenon DEF CancelDelivery, TypeInvariant, TypeOK
<1>6. ASSUME NEW t \in TaskIds
      PROVE  TaskSound(t)'
  <2>1. CASE task'[t] = task[t]
    BY <2>1, Zenon DEF TypeInvariant, TaskSound, Docstatus0, OpenTask
  <2>2. CASE task'[t] = [task[t] EXCEPT !.status = "Cancelled"]
    <3>1. task[t] \in TaskRow
      BY DEF TypeInvariant, TypeOK
    <3>2. /\ task'[t].status = "Cancelled"
          /\ task'[t].confirmed = task[t].confirmed
          /\ task'[t].planned = task[t].planned
      BY <2>2, <3>1, Zenon DEF TaskRow
    <3>3. QED
      BY <3>2, Zenon DEF TypeInvariant, TaskSound, Docstatus0, OpenTask
  <2>3. QED
    BY <1>4, <2>1, <2>2
<1>7. QED
  BY <1>1, <1>2, <1>3, <1>5, <1>6, Zenon DEF CancelDelivery, TypeInvariant, TypeOK

-----------------------------------------------------------------------------
\* A step of Next, one case per action.
LEMMA StepTypes ==
  ASSUME TypeInvariant, [Next]_vars
  PROVE  TypeInvariant'
<1>1. CASE UNCHANGED vars
  BY <1>1, UnchangedTypes
<1>2. CASE Next
  <2>1. ASSUME NEW d \in Deliveries, Allocate(d)
        PROVE  TypeInvariant'
    BY <2>1, AllocateTypes
  <2>2. ASSUME NEW d \in Deliveries, CancelDelivery(d)
        PROVE  TypeInvariant'
    BY <2>2, CancelTypes
  <2>3. ASSUME NEW u \in Users, ClaimAllocations(u) \/ ClaimRefused(u)
        PROVE  TypeInvariant'
    BY <2>3, ClaimTypes, ClaimRefusedTypes
  <2>4. ASSUME NEW u \in Users, NEW d \in Deliveries, ReadAllocations(u, d)
        PROVE  TypeInvariant'
    BY <2>4, ReadAllocationsTypes
  <2>5. ASSUME NEW t \in TaskIds, Confirmation(t)
        PROVE  TypeInvariant'
    BY <2>5, ConfirmationTypes
  <2>6. ASSUME NEW t \in TaskIds, NEW revised \in 1..MaxQuantity, RaiseException(t, revised)
        PROVE  TypeInvariant'
    <3>1. revised \in Nat
      OBVIOUS
    <3>2. QED
      BY <2>6, <3>1, RaiseExceptionTypes
  <2>7. ASSUME NEW t \in TaskIds, CloseShort(t)
        PROVE  TypeInvariant'
    BY <2>7, CloseShortTypes
  <2>8. ASSUME NEW t \in TaskIds, Reverse(t)
        PROVE  TypeInvariant'
    BY <2>8, ReverseTypes
  <2>9. QED
    BY <1>2, <2>1, <2>2, <2>3, <2>4, <2>5, <2>6, <2>7, <2>8, Zenon
       DEF Next, Forward, Confirmation
<1>3. QED
  BY <1>1, <1>2

\* Every record keeps its type, and no quantity of a balance row, an
\* allocation or a task ever becomes negative.
THEOREM TypeCorrect == Spec => []TypeOK
<1>1. Init => TypeInvariant
  BY InitTypes
<1>2. TypeInvariant /\ [Next]_vars => TypeInvariant'
  BY StepTypes
<1>3. TypeInvariant => TypeOK
  BY DEF TypeInvariant
<1>4. QED
  BY <1>1, <1>2, <1>3, PTL DEF Spec
-----------------------------------------------------------------------------
\* No action reserves more on a row than the row holds.
LEMMA StepBounds ==
  ASSUME TypeInvariant, AllocationBounds, [Next]_vars
  PROVE  AllocationBounds'
<1>0. \A c \in Balances : /\ stockBalance[c] \in BalanceRow
                          /\ stockBalance[c].allocated \in Nat
                          /\ stockBalance[c].quantity \in Nat
                          /\ stockBalance[c].allocated <= stockBalance[c].quantity
  <2>1. \A c \in Balances : stockBalance[c] \in BalanceRow
    BY DEF TypeInvariant, TypeOK
  <2>2. QED
    BY <2>1, Zenon DEF BalanceRow, AllocationBounds
<1> SUFFICES ASSUME NEW b \in Balances
             PROVE  stockBalance'[b].allocated <= stockBalance'[b].quantity
  BY DEF AllocationBounds
<1>1. CASE stockBalance'[b] = stockBalance[b]
  BY <1>0, <1>1
<1>2. ASSUME NEW q \in Nat, stockBalance'[b] = ReleaseAllocation(stockBalance[b], q)
      PROVE  stockBalance'[b].allocated <= stockBalance'[b].quantity
  BY <1>0, <1>2, BalanceRowOps
<1>3. ASSUME NEW t \in TaskIds, NEW qty \in Nat, NEW key \in LedgerKeys, Confirm(t, qty, key)
      PROVE  stockBalance'[b].allocated <= stockBalance'[b].quantity
  <2> DEFINE posted == Lesser(qty, task[t].planned - task[t].confirmed)
             c == BalanceOf(AllocationOf(t))
  <2>1. posted \in Nat
    BY TaskFacts DEF Lesser
  <2>2. c \in Balances /\ posted <= stockBalance[c].quantity
    BY <1>3, TaskIdParts, AllocationIdParts, Zenon DEF Confirm
  <2>3. stockBalance' = [stockBalance EXCEPT ![c] = PickFromBalance(stockBalance[c], posted)]
    BY <1>3, Zenon DEF Confirm
  <2>4. PickFromBalance(stockBalance[c], posted).allocated <=
          PickFromBalance(stockBalance[c], posted).quantity
    BY <1>0, <2>1, <2>2, BalanceRowOps
  <2> HIDE DEF posted, c
  <2>5. CASE b = c
    BY <2>2, <2>3, <2>4, <2>5, Zenon DEF TypeInvariant, TypeOK
  <2>6. CASE b # c
    BY <1>1, <2>3, <2>6, Zenon DEF TypeInvariant, TypeOK
  <2>7. QED
    BY <2>5, <2>6
<1>4. ASSUME NEW d \in Deliveries, Allocate(d)
      PROVE  stockBalance'[b].allocated <= stockBalance'[b].quantity
  <2>1. PICK k \in 1..MaxRows, p \in [take : [Balances -> Nat], left : Nat] :
          /\ Reserve(d, k, p)
          /\ \A c \in Balances : p.take[c] > 0 => p.take[c] <= Available(c)
    BY <1>4, AllocateEffect DEF TypeInvariant
  <2> DEFINE take == p.take[b]
  <2>2. take \in Nat
    BY DEF Reserve
  <2>3. take > 0 => take <= stockBalance[b].quantity - stockBalance[b].allocated
    BY <2>1 DEF Available
  <2>4. stockBalance'[b] = [stockBalance[b] EXCEPT !.allocated = stockBalance[b].allocated + take]
    BY <2>1, Zenon DEF Reserve
  <2>5. /\ stockBalance'[b].allocated = stockBalance[b].allocated + take
        /\ stockBalance'[b].quantity = stockBalance[b].quantity
    BY <1>0, <2>4, Zenon DEF BalanceRow
  <2> HIDE DEF take
  <2>6. QED
    BY <1>0, <2>2, <2>3, <2>5
<1>5. ASSUME NEW d \in Deliveries, CancelDelivery(d)
      PROVE  stockBalance'[b].allocated <= stockBalance'[b].quantity
  <2> DEFINE reserved == [c \in Balances |->
                          AllocatedOf({a \in LiveAllocations(d) : BalanceOf(a) = c})]
  <2>1. reserved \in [Balances -> Nat]
    BY AllocatedOfType DEF LiveAllocations, TypeInvariant
  <2>2. stockBalance' = [c \in Balances |-> ReleaseAllocation(stockBalance[c], reserved[c])]
    BY <1>5 DEF CancelDelivery
  <2> HIDE DEF reserved
  <2>3. reserved[b] \in Nat /\ stockBalance'[b] = ReleaseAllocation(stockBalance[b], reserved[b])
    BY <2>1, <2>2
  <2>4. QED
    BY <1>2, <2>3, Zenon
<1>6. ASSUME NEW t \in TaskIds, CloseShort(t)
      PROVE  stockBalance'[b].allocated <= stockBalance'[b].quantity
  <2> DEFINE shortfall == task[t].planned - task[t].confirmed
             c == BalanceOf(AllocationOf(t))
  <2>1. shortfall \in Nat /\ c \in Balances
    BY TaskFacts, TaskIdParts, AllocationIdParts
  <2>2. stockBalance' = [stockBalance EXCEPT ![c] = ReleaseAllocation(stockBalance[c], shortfall)]
    BY <1>6, Zenon DEF CloseShort
  <2> HIDE DEF shortfall, c
  <2>3. CASE b = c
    BY <1>2, <2>1, <2>2, <2>3, Zenon DEF TypeInvariant, TypeOK
  <2>4. CASE b # c
    BY <1>1, <2>2, <2>4, Zenon DEF TypeInvariant, TypeOK
  <2>5. QED
    BY <2>3, <2>4
<1>7. ASSUME NEW t \in TaskIds, Reverse(t)
      PROVE  stockBalance'[b].allocated <= stockBalance'[b].quantity
  <2> DEFINE c == ReturnRow[BalanceOf(AllocationOf(t))]
             qty == task[t].confirmed
  <2>1. qty \in Nat /\ c \in Balances
    BY TaskFacts, TaskIdParts, AllocationIdParts
  <2>2. stockBalance' = [stockBalance EXCEPT ![c] =
          [stockBalance[c] EXCEPT !.quantity = stockBalance[c].quantity + qty]]
    BY <1>7, Zenon DEF Reverse
  <2> HIDE DEF c, qty
  <2>3. CASE b = c
    <3>1. /\ stockBalance'[b].allocated = stockBalance[b].allocated
          /\ stockBalance'[b].quantity = stockBalance[b].quantity + qty
      BY <1>0, <2>1, <2>2, <2>3, Zenon DEF TypeInvariant, TypeOK, BalanceRow
    <3>2. QED
      BY <1>0, <2>1, <3>1
  <2>4. CASE b # c
    BY <1>1, <2>2, <2>4, Zenon DEF TypeInvariant, TypeOK
  <2>5. QED
    BY <2>3, <2>4
<1>8. CASE UNCHANGED stockBalance
  BY <1>1, <1>8
<1>9. CASE Next
  <2>1. ASSUME NEW t \in TaskIds, Confirmation(t)
        PROVE  stockBalance'[b].allocated <= stockBalance'[b].quantity
    BY <1>3, <1>8, <2>1, ConfirmationEffect, Zenon DEF vars
  <2>2. ASSUME NEW u \in Users, NEW d \in Deliveries, ReadAllocations(u, d)
        PROVE  UNCHANGED stockBalance
    BY <2>2, Zenon DEF ReadAllocations
  <2>3. ASSUME NEW u \in Users, ClaimAllocations(u) \/ ClaimRefused(u)
        PROVE  UNCHANGED stockBalance
    BY <2>3, Zenon DEF ClaimAllocations, ClaimRefused
  <2>4. ASSUME NEW t \in TaskIds, NEW revised \in 1..MaxQuantity, RaiseException(t, revised)
        PROVE  UNCHANGED stockBalance
    BY <2>4, Zenon DEF RaiseException
  <2>5. QED
    BY <1>4, <1>5, <1>6, <1>7, <1>8, <1>9, <2>1, <2>2, <2>3, <2>4, Zenon
       DEF Next, Forward, Confirmation
<1>10. QED
  BY <1>8, <1>9, Zenon DEF vars

\* allocation_bounds, for any stock, any demand and any number of competing
\* requests: a balance row never has more reserved on it than it holds.
THEOREM ReservationWithinStock == Spec => []AllocationBounds
<1>1. Init => TypeInvariant /\ AllocationBounds
  <2>1. Init => AllocationBounds
    <3> SUFFICES ASSUME Init, NEW b \in Balances
                 PROVE  stockBalance[b].allocated <= stockBalance[b].quantity
      BY DEF AllocationBounds
    <3>1. stockBalance[b].allocated = 0 /\ stockBalance[b].quantity = InitialStock[b]
      BY DEF Init
    <3>2. QED
      BY <3>1
  <2>2. QED
    BY <2>1, InitTypes
<1>2. TypeInvariant /\ AllocationBounds /\ [Next]_vars => TypeInvariant' /\ AllocationBounds'
  BY StepTypes, StepBounds
<1>3. QED
  BY <1>1, <1>2, PTL DEF Spec
-----------------------------------------------------------------------------
\* Releasing for picking: a step after which no task is live that was not
\* before, and no live task's allocation can be claimed, keeps the claims sound.
LEMMA ClaimFrame ==
  ASSUME ClaimInvariant, UNCHANGED snapshot,
         \A v \in TaskIds : LiveTask(v)' =>
           LiveTask(v) /\ allocation'[AllocationOf(v)].status \notin {"None", "Allocated"}
  PROVE  ClaimSound' /\ OnePickTaskPerAllocation'
BY Zenon DEF ClaimInvariant, ClaimSound, OnePickTaskPerAllocation

\* A task that is not submitted yet is live.
LEMMA DraftIsLive ==
  ASSUME TypeInvariant, NEW t \in TaskIds, Docstatus0(t)
  PROVE  LiveTask(t)
BY Zenon DEF TypeInvariant, TaskSound, Docstatus0, OpenTask, LiveTask

\* The actions on one task t rewrite the rows of t and of its allocation only.
LEMMA OneTaskFrame ==
  ASSUME ClaimInvariant, NEW t \in TaskIds, LiveTask(t), UNCHANGED snapshot,
         NEW row, task' = [task EXCEPT ![t] = row],
         NEW alloc, allocation' = [allocation EXCEPT ![AllocationOf(t)] = alloc],
         \/ alloc.status \in {allocation[AllocationOf(t)].status, "Picked", "Partially Picked"}
         \/ row.reversed
  PROVE  ClaimSound' /\ OnePickTaskPerAllocation'
<1> SUFFICES ASSUME NEW v \in TaskIds, LiveTask(v)'
             PROVE  /\ LiveTask(v)
                    /\ allocation'[AllocationOf(v)].status \notin {"None", "Allocated"}
  BY ClaimFrame
<1>1. task \in [TaskIds -> TaskRow] /\ allocation \in [AllocationIds -> AllocationRow]
  BY DEF ClaimInvariant, TypeInvariant, TypeOK
<1>2. CASE v = t
  <2>1. ~row.reversed
    BY <1>1, <1>2, Zenon DEF LiveTask
  <2>2. allocation'[AllocationOf(t)] = alloc
    BY <1>1, TaskIdParts, Zenon
  <2>3. allocation[AllocationOf(t)].status \notin {"None", "Allocated"}
    BY DEF ClaimInvariant, ClaimSound
  <2>4. QED
    BY <1>2, <2>1, <2>2, <2>3, Zenon
<1>3. CASE v # t
  <2>1. LiveTask(v)
    BY <1>1, <1>3, Zenon DEF LiveTask
  <2>2. AllocationOf(v) # AllocationOf(t)
    BY <1>3, <2>1, Zenon DEF ClaimInvariant, OnePickTaskPerAllocation
  <2>3. allocation'[AllocationOf(v)] = allocation[AllocationOf(v)]
    BY <1>1, <2>2, TaskIdParts, Zenon
  <2>4. QED
    BY <2>1, <2>3, Zenon DEF ClaimInvariant, ClaimSound
<1>4. QED
  BY <1>2, <1>3

LEMMA AllocateClaims ==
  ASSUME ClaimInvariant, NEW d \in Deliveries, Allocate(d)
  PROVE  ClaimSound' /\ OnePickTaskPerAllocation'
<1>1. PICK k \in 1..MaxRows, p \in [take : [Balances -> Nat], left : Nat] : Reserve(d, k, p)
  BY AllocateEffect DEF ClaimInvariant, TypeInvariant
<1>2. ASSUME NEW v \in TaskIds, LiveTask(v)'
      PROVE  LiveTask(v) /\ allocation'[AllocationOf(v)].status \notin {"None", "Allocated"}
  <2> DEFINE a == AllocationOf(v)
  <2>1. LiveTask(v)
    BY <1>1, <1>2, Zenon DEF Reserve, LiveTask
  <2>2. a \in AllocationIds /\ allocation[a].status \notin {"None", "Allocated"}
    BY <2>1, TaskIdParts DEF ClaimInvariant, ClaimSound
  <2>3. ~(DeliveryOf(a) = d /\ a[3] = k)
    <3>1. SUFFICES ASSUME DeliveryOf(a) = d, a[3] = k
                   PROVE  allocation[a].status = "None"
      BY <2>2
    <3>2. a = <<d, BalanceOf(a), k>> /\ BalanceOf(a) \in Balances
      BY <2>2, <3>1 DEF AllocationIds, DeliveryOf, BalanceOf
    <3>3. ~(k < k)
      OBVIOUS
    <3>4. allocation[<<d, BalanceOf(a), k>>].status = "None"
      BY <1>1, <3>2, <3>3, Zenon DEF Reserve
    <3>5. QED
      BY <3>2, <3>4
  <2>4. allocation'[a] = allocation[a]
    BY <1>1, <2>2, <2>3, Zenon DEF Reserve
  <2>5. QED
    BY <2>1, <2>2, <2>4
<1>3. UNCHANGED snapshot
  BY <1>1 DEF Reserve
<1>4. QED
  BY <1>2, <1>3, ClaimFrame

LEMMA ReadAllocationsClaims ==
  ASSUME ClaimInvariant, NEW u \in Users, NEW d \in Deliveries, ReadAllocations(u, d)
  PROVE  ClaimSound' /\ OnePickTaskPerAllocation'
<1>1. UNCHANGED <<task, allocation>>
  BY DEF ReadAllocations
<1>2. ASSUME NEW w \in Users, NEW x \in snapshot'[w], NEW y \in snapshot'[w], x.name = y.name
      PROVE  x = y
  <2>1. CASE w = u
    <3>1. snapshot'[u] = {[name |-> a, row |-> allocation[a]] :
            a \in {c \in AllocationIds : DeliveryOf(c) = d /\ allocation[c].status = "Allocated"}}
      BY Zenon DEF ReadAllocations, ClaimInvariant, TypeInvariant, TypeOK
    <3>2. PICK a, c \in AllocationIds : /\ x = [name |-> a, row |-> allocation[a]]
                                        /\ y = [name |-> c, row |-> allocation[c]]
      BY <2>1, <3>1, Zenon
    <3>3. QED
      BY <1>2, <3>2
  <2>2. CASE w # u
    BY <1>2, <2>2, Zenon DEF ReadAllocations, ClaimInvariant, ClaimSound, TypeInvariant, TypeOK
  <2>3. QED
    BY <2>1, <2>2
<1>3. QED
  BY <1>1, <1>2, Zenon DEF ClaimInvariant, ClaimSound, OnePickTaskPerAllocation, LiveTask

\* Each claimed allocation gets exactly one task, and had no live one.
LEMMA ClaimClaims ==
  ASSUME ClaimInvariant, NEW u \in Users, ClaimAllocations(u)
  PROVE  ClaimSound' /\ OnePickTaskPerAllocation'
<1>1. PICK number \in [Claimed(u) -> 1..MaxRows] :
        task' = [t \in TaskIds |->
          IF \E x \in Claimed(u) : t = <<x.name, number[x]>>
            THEN [status |-> "Open", confirmed |-> 0, reversed |-> FALSE,
                  planned |-> (CHOOSE x \in Claimed(u) : x.name = t[1]).row.allocated,
                  idempotency_key |-> t[1]]
            ELSE task[t]]
  BY Zenon DEF ClaimAllocations
<1>2. \A x \in Claimed(u) : /\ x \in snapshot[u]
                            /\ x.name \in AllocationIds
                            /\ allocation[x.name].status = "Allocated"
  BY DEF Claimed, ClaimInvariant, TypeInvariant, TypeOK, ReadRow
<1>3. ASSUME NEW t \in TaskIds, LiveTask(t)'
      PROVE  \/ \E x \in Claimed(u) : t = <<x.name, number[x]>> /\ AllocationOf(t) = x.name
             \/ LiveTask(t) /\ \A x \in Claimed(u) : AllocationOf(t) # x.name
  <2>1. CASE \E x \in Claimed(u) : t = <<x.name, number[x]>>
    BY <2>1 DEF AllocationOf
  <2>2. CASE ~ \E x \in Claimed(u) : t = <<x.name, number[x]>>
    <3>1. task'[t] = task[t]
      BY <1>1, <2>2, Zenon
    <3>2. LiveTask(t)
      BY <1>3, <3>1, Zenon DEF LiveTask
    <3>3. QED
      BY <1>2, <3>2, Zenon DEF ClaimInvariant, ClaimSound
  <2>3. QED
    BY <2>1, <2>2
<1>4. OnePickTaskPerAllocation'
  <2> SUFFICES ASSUME NEW t \in TaskIds, NEW v \in TaskIds, LiveTask(t)', LiveTask(v)',
                      AllocationOf(t) = AllocationOf(v)
               PROVE  t = v
    BY DEF OnePickTaskPerAllocation
  <2>1. CASE \E x \in Claimed(u) : t = <<x.name, number[x]>> /\ AllocationOf(t) = x.name
    <3>1. PICK x \in Claimed(u) : t = <<x.name, number[x]>> /\ AllocationOf(t) = x.name
      BY <2>1
    <3>2. PICK y \in Claimed(u) : v = <<y.name, number[y]>> /\ AllocationOf(v) = y.name
      BY <1>3, <3>1, Zenon
    <3>3. x = y
      BY <1>2, <3>1, <3>2, Zenon DEF ClaimInvariant, ClaimSound
    <3>4. QED
      BY <3>1, <3>2, <3>3
  <2>2. CASE LiveTask(t) /\ \A x \in Claimed(u) : AllocationOf(t) # x.name
    <3>1. LiveTask(v)
      BY <1>3, <2>2, Zenon
    <3>2. QED
      BY <2>2, <3>1, Zenon DEF ClaimInvariant, OnePickTaskPerAllocation
  <2>3. QED
    BY <1>3, <2>1, <2>2
<1>5. ASSUME NEW t \in TaskIds, LiveTask(t)'
      PROVE  allocation'[AllocationOf(t)].status \notin {"None", "Allocated"}
  <2> DEFINE a == AllocationOf(t)
  <2>1. a \in AllocationIds /\ allocation[a] \in AllocationRow
    BY TaskIdParts DEF ClaimInvariant, TypeInvariant, TypeOK
  <2>2. CASE \E x \in Claimed(u) : a = x.name
    <3>1. allocation'[a] = [allocation[a] EXCEPT !.status = "Released"]
      BY <2>1, <2>2, Zenon DEF ClaimAllocations
    <3>2. allocation'[a].status = "Released"
      BY <2>1, <3>1, Zenon DEF AllocationRow
    <3>3. QED
      BY <3>2
  <2>3. CASE \A x \in Claimed(u) : a # x.name
    <3>1. LiveTask(t)
      BY <1>3, <1>5, <2>3, Zenon
    <3>2. allocation'[a] = allocation[a]
      BY <2>1, <2>3, Zenon DEF ClaimAllocations
    <3>3. QED
      BY <3>1, <3>2, Zenon DEF ClaimInvariant, ClaimSound
  <2>4. QED
    BY <2>2, <2>3
<1>6. \A w \in Users : \A x, y \in snapshot'[w] : x.name = y.name => x = y
  <2>1. \A w \in Users : snapshot'[w] = snapshot[w] \/ snapshot'[w] = {}
    BY Zenon DEF ClaimAllocations, ClaimInvariant, TypeInvariant, TypeOK
  <2>2. QED
    BY <2>1, Zenon DEF ClaimInvariant, ClaimSound
<1>7. QED
  BY <1>4, <1>5, <1>6, Zenon DEF ClaimSound

LEMMA ClaimRefusedClaims ==
  ASSUME ClaimInvariant, NEW u \in Users, ClaimRefused(u)
  PROVE  ClaimSound' /\ OnePickTaskPerAllocation'
<1>1. UNCHANGED <<task, allocation>>
  BY DEF ClaimRefused
<1>2. \A w \in Users : snapshot'[w] = snapshot[w] \/ snapshot'[w] = {}
  BY Zenon DEF ClaimRefused, ClaimInvariant, TypeInvariant, TypeOK
<1>3. \A w \in Users : \A x, y \in snapshot'[w] : x.name = y.name => x = y
  BY <1>2, Zenon DEF ClaimInvariant, ClaimSound
<1>4. QED
  BY <1>1, <1>3, Zenon DEF ClaimInvariant, ClaimSound, OnePickTaskPerAllocation, LiveTask
LEMMA ConfirmClaims ==
  ASSUME ClaimInvariant, NEW t \in TaskIds, NEW qty \in Nat, NEW key \in LedgerKeys,
         OpenTask(t), Confirm(t, qty, key)
  PROVE  ClaimSound' /\ OnePickTaskPerAllocation'
<1> DEFINE a == AllocationOf(t)
           posted == Lesser(qty, task[t].planned - task[t].confirmed)
           take == Chargeable(a, posted)
           row == [task[t] EXCEPT
                     !.confirmed = task[t].confirmed + posted,
                     !.status = IF posted = task[t].planned - task[t].confirmed
                                  THEN "Confirmed" ELSE "Partially Confirmed",
                     !.idempotency_key = key]
           alloc == BookPick(allocation[a], take)
<1>1. LiveTask(t)
  BY DraftIsLive DEF ClaimInvariant, Docstatus0
<1>2. task' = [task EXCEPT ![t] = row] /\ allocation' = [allocation EXCEPT ![a] = alloc]
  BY Zenon DEF Confirm
<1>3. alloc.status \in {allocation[a].status, "Picked", "Partially Picked"}
  BY DEF BookPick
<1>4. UNCHANGED snapshot
  BY Zenon DEF Confirm
<1> HIDE DEF row, alloc, a
<1>5. QED
  BY <1>1, <1>2, <1>3, <1>4, OneTaskFrame, Zenon DEF a

LEMMA RaiseExceptionClaims ==
  ASSUME ClaimInvariant, NEW t \in TaskIds, NEW revised \in Nat, RaiseException(t, revised)
  PROVE  ClaimSound' /\ OnePickTaskPerAllocation'
<1> DEFINE row == [task[t] EXCEPT !.status = "Exception", !.planned = revised]
<1>1. LiveTask(t)
  BY DraftIsLive DEF ClaimInvariant, RaiseException
<1>2. task' = [task EXCEPT ![t] = row]
  BY Zenon DEF RaiseException
<1>3. /\ UNCHANGED <<snapshot, allocation>>
      /\ allocation \in [AllocationIds -> AllocationRow]
  BY Zenon DEF RaiseException, ClaimInvariant, TypeInvariant, TypeOK
<1>4. allocation' = [allocation EXCEPT ![AllocationOf(t)] = allocation[AllocationOf(t)]]
  BY <1>3, TaskIdParts, Zenon
<1> HIDE DEF row
<1>5. QED
  BY <1>1, <1>2, <1>3, <1>4, OneTaskFrame

LEMMA CloseShortClaims ==
  ASSUME ClaimInvariant, NEW t \in TaskIds, CloseShort(t)
  PROVE  ClaimSound' /\ OnePickTaskPerAllocation'
<1> DEFINE a == AllocationOf(t)
           take == Chargeable(a, task[t].planned - task[t].confirmed)
           row == [task[t] EXCEPT !.status = "Confirmed", !.planned = task[t].confirmed]
           alloc == ShrinkAllocation(allocation[a], take)
<1>1. LiveTask(t)
  BY DraftIsLive DEF ClaimInvariant, CloseShort
<1>2. task' = [task EXCEPT ![t] = row] /\ allocation' = [allocation EXCEPT ![a] = alloc]
  BY Zenon DEF CloseShort
<1>3. alloc.status \in {allocation[a].status, "Picked", "Partially Picked"}
  BY DEF ShrinkAllocation
<1>4. UNCHANGED snapshot
  BY Zenon DEF CloseShort
<1> HIDE DEF row, alloc, a
<1>5. QED
  BY <1>1, <1>2, <1>3, <1>4, OneTaskFrame, Zenon DEF a

LEMMA ReverseClaims ==
  ASSUME ClaimInvariant, NEW t \in TaskIds, Reverse(t)
  PROVE  ClaimSound' /\ OnePickTaskPerAllocation'
<1> DEFINE a == AllocationOf(t)
           take == Lesser(task[t].confirmed, allocation[a].picked)
           row == [task[t] EXCEPT !.reversed = TRUE]
           alloc == UnwindPick(allocation[a], take)
<1>1. LiveTask(t)
  BY Zenon DEF Reverse, LiveTask
<1>2. task' = [task EXCEPT ![t] = row] /\ allocation' = [allocation EXCEPT ![a] = alloc]
  BY Zenon DEF Reverse
<1>3. row.reversed
  BY TaskFacts, Zenon DEF ClaimInvariant, TaskRow
<1>4. UNCHANGED snapshot
  BY Zenon DEF Reverse
<1> HIDE DEF row, alloc, a
<1>5. QED
  BY <1>1, <1>2, <1>3, <1>4, OneTaskFrame, Zenon DEF a

LEMMA CancelClaims ==
  ASSUME ClaimInvariant, NEW d \in Deliveries, CancelDelivery(d)
  PROVE  ClaimSound' /\ OnePickTaskPerAllocation'
<1>1. ASSUME NEW v \in TaskIds, LiveTask(v)'
      PROVE  LiveTask(v) /\ allocation'[AllocationOf(v)].status \notin {"None", "Allocated"}
  <2> DEFINE a == AllocationOf(v)
  <2>1. task'[v] = task[v] \/ task'[v] = [task[v] EXCEPT !.status = "Cancelled"]
    BY Zenon DEF CancelDelivery
  <2>2. task[v] \in TaskRow
    BY DEF ClaimInvariant, TypeInvariant, TypeOK
  <2>3. LiveTask(v)
    BY <1>1, <2>1, <2>2, Zenon DEF LiveTask, TaskRow
  <2>4. a \in AllocationIds /\ allocation[a] \in AllocationRow
    BY TaskIdParts DEF ClaimInvariant, TypeInvariant, TypeOK
  <2>5. \/ allocation'[a] = allocation[a]
        \/ allocation'[a] = [allocation[a] EXCEPT !.status = "Cancelled"]
    BY <2>4, Zenon DEF CancelDelivery
  <2>6. allocation'[a].status \in {allocation[a].status, "Cancelled"}
    BY <2>4, <2>5, Zenon DEF AllocationRow
  <2>7. QED
    BY <2>3, <2>6, Zenon DEF ClaimInvariant, ClaimSound
<1>2. UNCHANGED snapshot
  BY Zenon DEF CancelDelivery
<1>3. QED
  BY <1>1, <1>2, ClaimFrame

LEMMA StepClaims ==
  ASSUME ClaimInvariant, [Next]_vars
  PROVE  ClaimSound' /\ OnePickTaskPerAllocation'
<1>1. CASE UNCHANGED vars
  BY <1>1, Zenon DEF vars, ClaimInvariant, ClaimSound, OnePickTaskPerAllocation, LiveTask
<1>2. CASE Next
  <2> DEFINE Goal == ClaimSound' /\ OnePickTaskPerAllocation'
  <2>1. ASSUME NEW d \in Deliveries, Allocate(d) PROVE Goal
    BY <2>1, AllocateClaims
  <2>2. ASSUME NEW d \in Deliveries, CancelDelivery(d) PROVE Goal
    BY <2>2, CancelClaims
  <2>3. ASSUME NEW u \in Users, ClaimAllocations(u) \/ ClaimRefused(u) PROVE Goal
    BY <2>3, ClaimClaims, ClaimRefusedClaims
  <2>4. ASSUME NEW u \in Users, NEW d \in Deliveries, ReadAllocations(u, d) PROVE Goal
    BY <2>4, ReadAllocationsClaims
  <2>5. ASSUME NEW t \in TaskIds, Confirmation(t) PROVE Goal
    BY <1>1, <2>5, ConfirmationEffect, ConfirmClaims, Zenon DEF ClaimInvariant
  <2>6. ASSUME NEW t \in TaskIds, NEW revised \in 1..MaxQuantity, RaiseException(t, revised)
        PROVE  Goal
    <3>1. revised \in Nat
      OBVIOUS
    <3>2. QED
      BY <2>6, <3>1, RaiseExceptionClaims
  <2>7. ASSUME NEW t \in TaskIds, CloseShort(t) PROVE Goal
    BY <2>7, CloseShortClaims
  <2>8. ASSUME NEW t \in TaskIds, Reverse(t) PROVE Goal
    BY <2>8, ReverseClaims
  <2> HIDE DEF Goal
  <2>9. Goal
    BY <1>2, <2>1, <2>2, <2>3, <2>4, <2>5, <2>6, <2>7, <2>8, Zenon
       DEF Next, Forward, Confirmation
  <2>10. QED
    BY <2>9 DEF Goal
<1>3. QED
  BY <1>1, <1>2

LEMMA ClaimInvariantHolds == Spec => []ClaimInvariant
<1>1. Init => ClaimInvariant
  <2> SUFFICES ASSUME Init PROVE ClaimInvariant
    OBVIOUS
  <2>1. \A t \in TaskIds : ~LiveTask(t)
    BY DEF Init, NoTask, LiveTask
  <2>2. \A u \in Users : snapshot[u] = {}
    BY DEF Init
  <2>3. QED
    BY <2>1, <2>2, InitTypes, Zenon DEF ClaimInvariant, ClaimSound, OnePickTaskPerAllocation
<1>2. ClaimInvariant /\ [Next]_vars => ClaimInvariant'
  BY StepTypes, StepClaims DEF ClaimInvariant
<1>3. QED
  BY <1>1, <1>2, PTL DEF Spec

\* However many users release the same deliveries at once, with or without
\* snapshot isolation, an allocation never has two live pick tasks.
THEOREM SinglePickTask == Spec => []OnePickTaskPerAllocation
<1>1. ClaimInvariant => OnePickTaskPerAllocation
  BY DEF ClaimInvariant
<1>2. QED
  BY <1>1, ClaimInvariantHolds, PTL

-----------------------------------------------------------------------------
(***************************************************************************)
(* Quantities: what was posted, picked, reserved and staged adds up over   *)
(* tasks, allocations, delivery lines and balance rows.                    *)
(***************************************************************************)

(* What the row operators and the actions do, field by field.              *)

LEMMA AllocationFields ==
  ASSUME NEW row \in AllocationRow
  PROVE  row.allocated \in Nat /\ row.picked \in Nat /\ row.status \in AllocationStatus
BY Zenon DEF AllocationRow

LEMMA BookPickFields ==
  ASSUME NEW row \in AllocationRow, NEW take \in Nat
  PROVE  /\ BookPick(row, take).allocated = row.allocated
         /\ BookPick(row, take).picked = row.picked + take
         /\ BookPick(row, take).status =
              IF take = 0 THEN row.status
              ELSE IF row.picked + take >= row.allocated THEN "Picked" ELSE "Partially Picked"
<1>1. row.allocated \in Nat /\ row.picked \in Nat
  BY AllocationFields
<1>2. CASE take = 0
  BY <1>1, <1>2 DEF BookPick
<1>3. CASE take # 0
  BY <1>3, Zenon DEF BookPick
<1>4. QED
  BY <1>2, <1>3

LEMMA ShrinkFields ==
  ASSUME NEW row \in AllocationRow, NEW take \in Nat
  PROVE  /\ ShrinkAllocation(row, take).allocated = row.allocated - take
         /\ ShrinkAllocation(row, take).picked = row.picked
         /\ ShrinkAllocation(row, take).status =
              IF take # 0 /\ row.picked >= row.allocated - take THEN "Picked" ELSE row.status
<1>1. row.allocated \in Nat /\ row.picked \in Nat
  BY AllocationFields
<1>2. CASE take = 0
  BY <1>1, <1>2 DEF ShrinkAllocation
<1>3. CASE take # 0
  BY <1>3, Zenon DEF ShrinkAllocation
<1>4. QED
  BY <1>2, <1>3

LEMMA UnwindFields ==
  ASSUME NEW row \in AllocationRow, NEW take \in Nat
  PROVE  /\ UnwindPick(row, take).allocated = row.allocated
         /\ UnwindPick(row, take).picked = row.picked - take
         /\ UnwindPick(row, take).status =
              IF take = 0 THEN row.status
              ELSE IF row.picked = take THEN "Allocated"
              ELSE IF row.picked - take >= row.allocated THEN "Picked"
              ELSE "Partially Picked"
<1>1. row.allocated \in Nat /\ row.picked \in Nat
  BY AllocationFields
<1>2. CASE take = 0
  BY <1>1, <1>2 DEF UnwindPick
<1>3. CASE take # 0
  BY <1>3, Zenon DEF UnwindPick
<1>4. QED
  BY <1>2, <1>3

\* An unwound allocation is as it was, or open again, or still picked.
LEMMA UnwindStatus ==
  ASSUME NEW row \in AllocationRow, NEW take \in Nat
  PROVE  UnwindPick(row, take).status \in {row.status, "Allocated", "Partially Picked", "Picked"}
<1>1. CASE take = 0
  BY <1>1 DEF UnwindPick
<1>2. CASE take # 0
  BY <1>2, UnwindFields
<1>3. QED
  BY <1>1, <1>2

\* ln has these quantities; all it shares with m is that it is cancelled or not.
LineIs(ln, m, requested, allocated, picked) ==
  /\ ln.docstatus = m.docstatus
  /\ ln.requested = requested /\ ln.allocated = allocated /\ ln.picked = picked

LEMMA LineStatus ==
  ASSUME NEW ln \in DeliveryRow, NEW s
  PROVE  /\ LineIs([ln EXCEPT !.picking_status = s], ln, ln.requested, ln.allocated, ln.picked)
         /\ LineIs([ln EXCEPT !.allocation_status = s], ln, ln.requested, ln.allocated, ln.picked)
         /\ LineIs(WithPickingStatus(ln), ln, ln.requested, ln.allocated, ln.picked)
BY Zenon DEF DeliveryRow, LineIs, WithPickingStatus

LEMMA LineQuantities ==
  ASSUME NEW ln \in DeliveryRow, NEW m, NEW n, NEW s
  PROVE  /\ LineIs([ln EXCEPT !.picked = n], ln, ln.requested, ln.allocated, n)
         /\ LineIs([ln EXCEPT !.requested = m, !.allocated = n], ln, m, n, ln.picked)
         /\ LineIs([ln EXCEPT !.allocated = n, !.allocation_status = s], ln, ln.requested, n, ln.picked)
BY Zenon DEF DeliveryRow, LineIs

LEMMA LineCancelled ==
  ASSUME NEW ln \in DeliveryRow
  PROVE  /\ [ln EXCEPT !.docstatus = 2].docstatus = 2
         /\ [ln EXCEPT !.docstatus = 2].requested = ln.requested
         /\ [ln EXCEPT !.docstatus = 2].allocated = ln.allocated
         /\ [ln EXCEPT !.docstatus = 2].picked = ln.picked
BY Zenon DEF DeliveryRow

LEMMA LineFields ==
  ASSUME NEW ln \in DeliveryRow, NEW take \in Nat
  PROVE  /\ LineIs(BookPickOnLine(ln, take), ln, ln.requested, ln.allocated, ln.picked + take)
         /\ LineIs(ShrinkLine(ln, take), ln, ln.requested - take, ln.allocated - take, ln.picked)
         /\ LineIs(UnwindLine(ln, take), ln, ln.requested, ln.allocated,
                     IF take = 0 THEN ln.picked ELSE Floor0(ln.picked - take))
<1>1. ln.requested \in Int /\ ln.allocated \in Int /\ ln.picked \in Int
  BY DeliveryFields
<1>2. CASE take = 0
  BY <1>1, <1>2 DEF BookPickOnLine, ShrinkLine, UnwindLine, LineIs
<1>3. CASE take # 0
  <2>1. ASSUME NEW n \in Int
        PROVE  LineIs(WithPickingStatus([ln EXCEPT !.picked = n]), ln, ln.requested, ln.allocated, n)
    <3> DEFINE row == [ln EXCEPT !.picked = n]
    <3>1. row \in DeliveryRow
      BY DeliveryRowUpdates
    <3>2. LineIs(row, ln, ln.requested, ln.allocated, n)
      BY LineQuantities
    <3> HIDE DEF row
    <3>3. LineIs(WithPickingStatus(row), row, row.requested, row.allocated, row.picked)
      BY <3>1, LineStatus
    <3>4. LineIs(WithPickingStatus(row), ln, ln.requested, ln.allocated, n)
      BY <3>2, <3>3, Zenon DEF LineIs
    <3>5. QED
      BY <3>4 DEF row
  <2>2. LineIs(BookPickOnLine(ln, take), ln, ln.requested, ln.allocated, ln.picked + take)
    <3>1. ln.picked + take \in Int
      BY <1>1
    <3>2. BookPickOnLine(ln, take) = WithPickingStatus([ln EXCEPT !.picked = ln.picked + take])
      BY <1>3, Zenon DEF BookPickOnLine
    <3>3. QED
      BY <2>1, <3>1, <3>2, Zenon
  <2>3. LineIs(UnwindLine(ln, take), ln, ln.requested, ln.allocated, Floor0(ln.picked - take))
    <3>1. Floor0(ln.picked - take) \in Int
      BY <1>1 DEF Floor0
    <3>2. UnwindLine(ln, take) = WithPickingStatus([ln EXCEPT !.picked = Floor0(ln.picked - take)])
      BY <1>3, Zenon DEF UnwindLine
    <3>3. QED
      BY <2>1, <3>1, <3>2, Zenon
  <2>4. LineIs(ShrinkLine(ln, take), ln, ln.requested - take, ln.allocated - take, ln.picked)
    <3> DEFINE m == ln.requested - take
               n == ln.allocated - take
               row == [ln EXCEPT !.requested = m, !.allocated = n]
               counted == WithPickingStatus(row)
               whole == [counted EXCEPT !.allocation_status = AllocationStatusOf(row.requested, row.allocated)]
    <3>1. m \in Int /\ n \in Int
      BY <1>1
    <3>2. ShrinkLine(ln, take) = whole
      BY <1>3, Zenon DEF ShrinkLine
    <3> HIDE DEF m, n
    <3>3. row \in DeliveryRow
      BY <3>1, DeliveryRowUpdates
    <3>4. LineIs(row, ln, m, n, ln.picked)
      BY LineQuantities
    <3> HIDE DEF row
    <3>5. row.requested \in Int /\ row.picked \in Int
      BY <3>3, DeliveryFields
    <3>6. counted \in DeliveryRow
      BY <3>3, <3>5, StatusTypes, DeliveryRowUpdates, Zenon DEF WithPickingStatus
    <3>7. LineIs(counted, row, row.requested, row.allocated, row.picked)
      BY <3>3, LineStatus
    <3> HIDE DEF counted
    <3>8. LineIs(whole, counted, counted.requested, counted.allocated, counted.picked)
      BY <3>6, LineStatus
    <3> HIDE DEF whole
    <3>9. LineIs(whole, ln, m, n, ln.picked)
      BY <3>4, <3>7, <3>8, Zenon DEF LineIs
    <3>10. QED
      BY <3>2, <3>9 DEF m, n
  <2>5. QED
    BY <1>3, <2>2, <2>3, <2>4
<1>4. QED
  BY <1>2, <1>3

-----------------------------------------------------------------------------
\* g is f but for x, where it is v.
Changes(f, g, S, x, v) == g[x] = v /\ \A y \in S \ {x} : g[y] = f[y]

LEMMA ExceptChanges ==
  ASSUME NEW S, NEW T, NEW f \in [S -> T], NEW x \in S, NEW v
  PROVE  Changes(f, [f EXCEPT ![x] = v], S, x, v)
BY Zenon DEF Changes

\* A confirmation that is no replay.
ToPost(t, qty) == Lesser(qty, task[t].planned - task[t].confirmed)

LEMMA ConfirmFields ==
  ASSUME TypeInvariant, NEW t \in TaskIds, NEW qty \in Nat, NEW key, Confirm(t, qty, key)
  PROVE  LET a == AllocationOf(t)
             b == BalanceOf(a)
             d == DeliveryOf(a)
             posted == ToPost(t, qty)
             take == Chargeable(a, posted)
         IN  /\ posted \in Nat /\ take \in Nat /\ posted <= task[t].planned - task[t].confirmed
             /\ posted <= stockBalance[b].quantity
             /\ ledger' = ledger \cup {[key |-> key, task |-> t, quantity |-> posted]}
             /\ task'[t].planned = task[t].planned
             /\ task'[t].confirmed = task[t].confirmed + posted
             /\ task'[t].reversed = task[t].reversed
             /\ task'[t].status = IF posted = task[t].planned - task[t].confirmed
                                    THEN "Confirmed" ELSE "Partially Confirmed"
             /\ \A v \in TaskIds \ {t} : task'[v] = task[v]
             /\ Changes(allocation, allocation', AllocationIds, a, BookPick(allocation[a], take))
             /\ Changes(delivery, delivery', Deliveries, d, BookPickOnLine(delivery[d], take))
             /\ Changes(stockBalance, stockBalance', Balances, b, PickFromBalance(stockBalance[b], posted))
             /\ Changes(staged, staged', Deliveries, d, staged[d] + posted)
             /\ UNCHANGED snapshot
<1> DEFINE a == AllocationOf(t)
           b == BalanceOf(a)
           d == DeliveryOf(a)
           open == task[t].planned - task[t].confirmed
           posted == ToPost(t, qty)
           take == Chargeable(a, posted)
           row == [task[t] EXCEPT
                     !.confirmed = task[t].confirmed + posted,
                     !.status = IF posted = open THEN "Confirmed" ELSE "Partially Confirmed",
                     !.idempotency_key = key]
<1>1. a \in AllocationIds /\ b \in Balances /\ d \in Deliveries
  BY TaskIdParts, AllocationIdParts
<1>2. open \in Nat /\ posted \in Nat /\ posted <= open
  BY TaskFacts DEF ToPost, Lesser
<1>3. take \in Nat
  BY <1>1, <1>2, ChargeableBounds DEF TypeInvariant
<1>4. /\ stockBalance' = [stockBalance EXCEPT ![b] = PickFromBalance(stockBalance[b], posted)]
      /\ staged' = [staged EXCEPT ![d] = staged[d] + posted]
      /\ ledger' = ledger \cup {[key |-> key, task |-> t, quantity |-> posted]}
      /\ task' = [task EXCEPT ![t] = row]
      /\ allocation' = [allocation EXCEPT ![a] = BookPick(allocation[a], take)]
      /\ delivery' = [delivery EXCEPT ![d] = BookPickOnLine(delivery[d], take)]
      /\ stockBalance[b].quantity >= posted
      /\ UNCHANGED snapshot
  BY Zenon DEF Confirm, ToPost
<1>5. /\ row.planned = task[t].planned
      /\ row.confirmed = task[t].confirmed + posted
      /\ row.reversed = task[t].reversed
      /\ row.status = IF posted = open THEN "Confirmed" ELSE "Partially Confirmed"
  BY TaskFacts, Zenon DEF TaskRow
<1>6. /\ stockBalance \in [Balances -> BalanceRow] /\ staged \in [Deliveries -> Nat]
      /\ task \in [TaskIds -> TaskRow] /\ allocation \in [AllocationIds -> AllocationRow]
      /\ delivery \in [Deliveries -> DeliveryRow]
  BY DEF TypeInvariant, TypeOK
<1>7. task'[t] = row /\ \A v \in TaskIds \ {t} : task'[v] = task[v]
  BY <1>4, <1>6, Zenon
<1> HIDE DEF row
<1>8. /\ Changes(allocation, allocation', AllocationIds, a, BookPick(allocation[a], take))
      /\ Changes(delivery, delivery', Deliveries, d, BookPickOnLine(delivery[d], take))
      /\ Changes(stockBalance, stockBalance', Balances, b, PickFromBalance(stockBalance[b], posted))
      /\ Changes(staged, staged', Deliveries, d, staged[d] + posted)
  BY <1>1, <1>4, <1>6, ExceptChanges, Zenon
<1>9. /\ task'[t].planned = task[t].planned
      /\ task'[t].confirmed = task[t].confirmed + posted
      /\ task'[t].reversed = task[t].reversed
      /\ task'[t].status = IF posted = open THEN "Confirmed" ELSE "Partially Confirmed"
  BY <1>5, <1>7
<1>10. posted <= stockBalance[b].quantity
  BY <1>4
<1> HIDE DEF posted, take, open
<1>11. QED
  BY <1>2, <1>3, <1>4, <1>7, <1>8, <1>9, <1>10, Zenon DEF open, posted, take

LEMMA RaiseExceptionFields ==
  ASSUME TypeInvariant, NEW t \in TaskIds, NEW revised, RaiseException(t, revised)
  PROVE  /\ Docstatus0(t) /\ revised \in Nat
         /\ revised > task[t].confirmed /\ revised <= task[t].planned
         /\ task'[t].planned = revised /\ task'[t].confirmed = task[t].confirmed
         /\ task'[t].reversed = task[t].reversed /\ task'[t].status = "Exception"
         /\ \A v \in TaskIds \ {t} : task'[v] = task[v]
         /\ UNCHANGED <<stockBalance, delivery, allocation, ledger, staged, snapshot>>
<1> DEFINE row == [task[t] EXCEPT !.status = "Exception", !.planned = revised]
<1>1. /\ task' = [task EXCEPT ![t] = row]
      /\ Docstatus0(t) /\ revised \in (task[t].confirmed + 1)..task[t].planned
      /\ UNCHANGED <<stockBalance, delivery, allocation, ledger, staged, snapshot>>
  BY Zenon DEF RaiseException
<1>2. revised \in Nat /\ revised > task[t].confirmed /\ revised <= task[t].planned
  BY <1>1, TaskFacts
<1>3. /\ row.planned = revised /\ row.confirmed = task[t].confirmed
      /\ row.reversed = task[t].reversed /\ row.status = "Exception"
  BY TaskFacts, Zenon DEF TaskRow
<1> HIDE DEF row
<1>4. task'[t] = row /\ \A v \in TaskIds \ {t} : task'[v] = task[v]
  BY <1>1, Zenon DEF TypeInvariant, TypeOK
<1>5. QED
  BY <1>1, <1>2, <1>3, <1>4, Zenon

LEMMA CloseShortFields ==
  ASSUME TypeInvariant, NEW t \in TaskIds, CloseShort(t)
  PROVE  LET a == AllocationOf(t)
             b == BalanceOf(a)
             d == DeliveryOf(a)
             shortfall == task[t].planned - task[t].confirmed
             take == Chargeable(a, shortfall)
         IN  /\ Docstatus0(t) /\ shortfall \in Nat /\ take \in Nat
             /\ task'[t].planned = task[t].confirmed /\ task'[t].confirmed = task[t].confirmed
             /\ task'[t].reversed = task[t].reversed /\ task'[t].status = "Confirmed"
             /\ \A v \in TaskIds \ {t} : task'[v] = task[v]
             /\ Changes(allocation, allocation', AllocationIds, a, ShrinkAllocation(allocation[a], take))
             /\ Changes(delivery, delivery', Deliveries, d, ShrinkLine(delivery[d], take))
             /\ Changes(stockBalance, stockBalance', Balances, b, ReleaseAllocation(stockBalance[b], shortfall))
             /\ UNCHANGED <<ledger, staged, snapshot>>
<1> DEFINE a == AllocationOf(t)
           b == BalanceOf(a)
           d == DeliveryOf(a)
           shortfall == task[t].planned - task[t].confirmed
           take == Chargeable(a, shortfall)
           row == [task[t] EXCEPT !.status = "Confirmed", !.planned = task[t].confirmed]
<1>1. a \in AllocationIds /\ b \in Balances /\ d \in Deliveries
  BY TaskIdParts, AllocationIdParts
<1>2. shortfall \in Nat
  BY TaskFacts
<1>3. take \in Nat
  BY <1>1, <1>2, ChargeableBounds DEF TypeInvariant
<1>4. /\ task' = [task EXCEPT ![t] = row]
      /\ stockBalance' = [stockBalance EXCEPT ![b] = ReleaseAllocation(stockBalance[b], shortfall)]
      /\ allocation' = [allocation EXCEPT ![a] = ShrinkAllocation(allocation[a], take)]
      /\ delivery' = [delivery EXCEPT ![d] = ShrinkLine(delivery[d], take)]
      /\ Docstatus0(t)
      /\ UNCHANGED <<ledger, staged, snapshot>>
  BY Zenon DEF CloseShort
<1>5. /\ row.planned = task[t].confirmed /\ row.confirmed = task[t].confirmed
      /\ row.reversed = task[t].reversed /\ row.status = "Confirmed"
  BY TaskFacts, Zenon DEF TaskRow
<1>6. /\ stockBalance \in [Balances -> BalanceRow]
      /\ task \in [TaskIds -> TaskRow] /\ allocation \in [AllocationIds -> AllocationRow]
      /\ delivery \in [Deliveries -> DeliveryRow]
  BY DEF TypeInvariant, TypeOK
<1> HIDE DEF row
<1>7. task'[t] = row /\ \A v \in TaskIds \ {t} : task'[v] = task[v]
  BY <1>4, <1>6, Zenon
<1>8. /\ Changes(allocation, allocation', AllocationIds, a, ShrinkAllocation(allocation[a], take))
      /\ Changes(delivery, delivery', Deliveries, d, ShrinkLine(delivery[d], take))
      /\ Changes(stockBalance, stockBalance', Balances, b, ReleaseAllocation(stockBalance[b], shortfall))
  BY <1>1, <1>4, <1>6, ExceptChanges, Zenon
<1> HIDE DEF shortfall, take
<1>9. QED
  BY <1>2, <1>3, <1>4, <1>5, <1>7, <1>8, Zenon DEF shortfall, take

LEMMA ReverseFields ==
  ASSUME TypeInvariant, NEW t \in TaskIds, Reverse(t)
  PROVE  LET a == AllocationOf(t)
             d == DeliveryOf(a)
             qty == task[t].confirmed
             take == Lesser(qty, allocation[a].picked)
         IN  /\ task[t].status = "Confirmed" /\ ~task[t].reversed /\ qty > 0
             /\ take \in Nat /\ take <= qty /\ take <= allocation[a].picked /\ staged[d] >= qty
             /\ task'[t].planned = task[t].planned /\ task'[t].confirmed = qty
             /\ task'[t].reversed /\ task'[t].status = "Confirmed"
             /\ \A v \in TaskIds \ {t} : task'[v] = task[v]
             /\ Changes(allocation, allocation', AllocationIds, a, UnwindPick(allocation[a], take))
             /\ Changes(delivery, delivery', Deliveries, d, UnwindLine(delivery[d], take))
             /\ Changes(staged, staged', Deliveries, d, staged[d] - qty)
             /\ UNCHANGED <<ledger, snapshot>>
<1> DEFINE a == AllocationOf(t)
           d == DeliveryOf(a)
           qty == task[t].confirmed
           take == Lesser(qty, allocation[a].picked)
           row == [task[t] EXCEPT !.reversed = TRUE]
<1>1. a \in AllocationIds /\ d \in Deliveries
  BY TaskIdParts, AllocationIdParts
<1>2. take \in Nat /\ take <= qty /\ take <= allocation[a].picked
  BY TaskFacts DEF Lesser
<1>3. /\ task' = [task EXCEPT ![t] = row]
      /\ staged' = [staged EXCEPT ![d] = staged[d] - qty]
      /\ allocation' = [allocation EXCEPT ![a] = UnwindPick(allocation[a], take)]
      /\ delivery' = [delivery EXCEPT ![d] = UnwindLine(delivery[d], take)]
      /\ task[t].status = "Confirmed" /\ ~task[t].reversed /\ qty > 0 /\ staged[d] >= qty
      /\ UNCHANGED <<ledger, snapshot>>
  BY Zenon DEF Reverse
<1>4. /\ row.planned = task[t].planned /\ row.confirmed = qty
      /\ row.reversed /\ row.status = task[t].status
  BY TaskFacts, Zenon DEF TaskRow
<1>5. /\ staged \in [Deliveries -> Nat]
      /\ task \in [TaskIds -> TaskRow] /\ allocation \in [AllocationIds -> AllocationRow]
      /\ delivery \in [Deliveries -> DeliveryRow]
  BY DEF TypeInvariant, TypeOK
<1> HIDE DEF row
<1>6. task'[t] = row /\ \A v \in TaskIds \ {t} : task'[v] = task[v]
  BY <1>3, <1>5, Zenon
<1>7. /\ Changes(allocation, allocation', AllocationIds, a, UnwindPick(allocation[a], take))
      /\ Changes(delivery, delivery', Deliveries, d, UnwindLine(delivery[d], take))
      /\ Changes(staged, staged', Deliveries, d, staged[d] - qty)
  BY <1>1, <1>3, <1>5, ExceptChanges, Zenon
<1> HIDE DEF take, qty
<1>8. QED
  BY <1>2, <1>3, <1>4, <1>6, <1>7, Zenon DEF take, qty

LEMMA CancelFields ==
  ASSUME TypeInvariant, NEW d \in Deliveries, CancelDelivery(d)
  PROVE  /\ delivery[d].docstatus = 1
         /\ \A t \in TaskIds :
              /\ AllocationOf(t) \in LiveAllocations(d) => ~BlocksCancel(t)
              /\ task'[t].planned = task[t].planned /\ task'[t].confirmed = task[t].confirmed
              /\ task'[t].reversed = task[t].reversed
              /\ task'[t].status = IF AllocationOf(t) \in LiveAllocations(d) /\ Docstatus0(t)
                                     THEN "Cancelled" ELSE task[t].status
         /\ \A a \in AllocationIds :
              /\ allocation'[a].allocated = allocation[a].allocated
              /\ allocation'[a].picked = allocation[a].picked
              /\ allocation'[a].status = IF a \in LiveAllocations(d) THEN "Cancelled" ELSE allocation[a].status
         /\ \A e \in Deliveries :
              /\ delivery'[e].requested = delivery[e].requested
              /\ delivery'[e].allocated = delivery[e].allocated
              /\ delivery'[e].picked = delivery[e].picked
              /\ delivery'[e].docstatus = IF e = d THEN 2 ELSE delivery[e].docstatus
         /\ \A b \in Balances : stockBalance'[b] =
              ReleaseAllocation(stockBalance[b], AllocatedOf({a \in LiveAllocations(d) : BalanceOf(a) = b}))
         /\ UNCHANGED <<ledger, staged, snapshot>>
<1> DEFINE live == LiveAllocations(d)
<1>1. /\ delivery[d].docstatus = 1
      /\ \A t \in TaskIds : AllocationOf(t) \in live => ~BlocksCancel(t)
      /\ UNCHANGED <<ledger, staged, snapshot>>
  BY Zenon DEF CancelDelivery
<1>2. ASSUME NEW t \in TaskIds
      PROVE  /\ task'[t].planned = task[t].planned /\ task'[t].confirmed = task[t].confirmed
             /\ task'[t].reversed = task[t].reversed
             /\ task'[t].status = IF AllocationOf(t) \in live /\ Docstatus0(t)
                                    THEN "Cancelled" ELSE task[t].status
  <2>1. task'[t] = IF AllocationOf(t) \in live /\ Docstatus0(t)
                     THEN [task[t] EXCEPT !.status = "Cancelled"] ELSE task[t]
    BY Zenon DEF CancelDelivery
  <2>2. task[t] \in TaskRow
    BY TaskFacts
  <2>3. CASE AllocationOf(t) \in live /\ Docstatus0(t)
    <3>1. task'[t] = [task[t] EXCEPT !.status = "Cancelled"]
      BY <2>1, <2>3
    <3>2. QED
      BY <2>2, <2>3, <3>1, Zenon DEF TaskRow
  <2>4. CASE ~(AllocationOf(t) \in live /\ Docstatus0(t))
    BY <2>1, <2>4, Zenon
  <2>5. QED
    BY <2>3, <2>4
<1>3. ASSUME NEW a \in AllocationIds
      PROVE  /\ allocation'[a].allocated = allocation[a].allocated
             /\ allocation'[a].picked = allocation[a].picked
             /\ allocation'[a].status = IF a \in live THEN "Cancelled" ELSE allocation[a].status
  <2>1. allocation'[a] = IF a \in live THEN [allocation[a] EXCEPT !.status = "Cancelled"]
                         ELSE allocation[a]
    BY Zenon DEF CancelDelivery
  <2>2. allocation[a] \in AllocationRow
    BY DEF TypeInvariant, TypeOK
  <2>3. CASE a \in live
    <3>1. allocation'[a] = [allocation[a] EXCEPT !.status = "Cancelled"]
      BY <2>1, <2>3
    <3>2. QED
      BY <2>2, <2>3, <3>1, Zenon DEF AllocationRow
  <2>4. CASE a \notin live
    BY <2>1, <2>4, Zenon
  <2>5. QED
    BY <2>3, <2>4
<1>4. ASSUME NEW e \in Deliveries
      PROVE  /\ delivery'[e].requested = delivery[e].requested
             /\ delivery'[e].allocated = delivery[e].allocated
             /\ delivery'[e].picked = delivery[e].picked
             /\ delivery'[e].docstatus = IF e = d THEN 2 ELSE delivery[e].docstatus
  <2>1. delivery' = [delivery EXCEPT ![d] = [delivery[d] EXCEPT !.docstatus = 2]]
    BY Zenon DEF CancelDelivery
  <2>2. delivery \in [Deliveries -> DeliveryRow]
    BY DEF TypeInvariant, TypeOK
  <2>3. CASE e = d
    <3>1. delivery'[e] = [delivery[d] EXCEPT !.docstatus = 2]
      BY <2>1, <2>2, <2>3, Zenon
    <3>2. delivery[d] \in DeliveryRow
      BY <2>2
    <3>3. QED
      BY <2>3, <3>1, <3>2, LineCancelled, Zenon
  <2>4. CASE e # d
    BY <2>1, <2>2, <2>4, Zenon
  <2>5. QED
    BY <2>3, <2>4
<1>5. \A b \in Balances : stockBalance'[b] =
        ReleaseAllocation(stockBalance[b], AllocatedOf({a \in live : BalanceOf(a) = b}))
  BY Zenon DEF CancelDelivery
<1>6. QED
  BY <1>1, <1>2, <1>3, <1>4, <1>5, Zenon

\* The pick task a claim makes of what it read.
LEMMA ClaimFields ==
  ASSUME ClaimInvariant, NEW u \in Users, ClaimAllocations(u)
  PROVE  /\ \A x \in Claimed(u) : /\ x \in snapshot[u] /\ x.name \in AllocationIds
                                  /\ allocation[x.name].status = "Allocated"
                                  /\ SnapshotIsolation => allocation[x.name] = x.row
         /\ \A t \in TaskIds :
              \/ task'[t] = task[t]
              \/ \E x \in Claimed(u) :
                   /\ AllocationOf(t) = x.name /\ task[t].status = "None"
                   /\ task'[t].status = "Open" /\ task'[t].confirmed = 0 /\ ~task'[t].reversed
                   /\ task'[t].planned = x.row.allocated
         /\ \A a \in AllocationIds :
              /\ allocation'[a].allocated = allocation[a].allocated
              /\ allocation'[a].picked = allocation[a].picked
              /\ allocation'[a].status = IF \E x \in Claimed(u) : x.name = a
                                           THEN "Released" ELSE allocation[a].status
         /\ \A w \in Users : snapshot'[w] = IF w = u THEN {} ELSE snapshot[w]
         /\ UNCHANGED <<stockBalance, delivery, ledger, staged>>
<1>1. PICK number \in [Claimed(u) -> 1..MaxRows] :
        /\ \A x \in Claimed(u), j \in 1..MaxRows :
             j < number[x] <=> task[<<x.name, j>>].status # "None"
        /\ task' = [t \in TaskIds |->
          IF \E x \in Claimed(u) : t = <<x.name, number[x]>>
            THEN [status |-> "Open", confirmed |-> 0, reversed |-> FALSE,
                  planned |-> (CHOOSE x \in Claimed(u) : x.name = t[1]).row.allocated,
                  idempotency_key |-> t[1]]
            ELSE task[t]]
  BY Zenon DEF ClaimAllocations
<1>2. ASSUME NEW x \in Claimed(u)
      PROVE  /\ x \in snapshot[u] /\ x.name \in AllocationIds
             /\ allocation[x.name].status = "Allocated"
             /\ SnapshotIsolation => allocation[x.name] = x.row
  <2>1. x \in snapshot[u] /\ allocation[x.name].status = "Allocated"
    BY DEF Claimed
  <2>2. x \in ReadRow
    BY <2>1 DEF ClaimInvariant, TypeInvariant, TypeOK
  <2>3. SnapshotIsolation => Unchanged(u)
    BY Zenon DEF ClaimAllocations
  <2>4. QED
    BY <2>1, <2>2, <2>3, Zenon DEF Unchanged, ReadRow
<1>3. ASSUME NEW t \in TaskIds, task'[t] # task[t]
      PROVE  \E x \in Claimed(u) :
               /\ AllocationOf(t) = x.name /\ task[t].status = "None"
               /\ task'[t].status = "Open" /\ task'[t].confirmed = 0 /\ ~task'[t].reversed
               /\ task'[t].planned = x.row.allocated
  <2>1. PICK x \in Claimed(u) : t = <<x.name, number[x]>>
    BY <1>1, <1>3, Zenon
  <2>2. AllocationOf(t) = x.name /\ t[1] = x.name
    BY <2>1 DEF AllocationOf
  <2>3. task[t].status = "None"
    <3>1. number[x] \in 1..MaxRows /\ ~(number[x] < number[x])
      BY <1>1
    <3>2. task[<<x.name, number[x]>>].status = "None"
      BY <1>1, <3>1, Zenon
    <3>3. QED
      BY <2>1, <3>2
  <2>4. (CHOOSE y \in Claimed(u) : y.name = t[1]) = x
    <3>1. \A y \in Claimed(u) : y.name = x.name => y = x
      BY <1>2, Zenon DEF ClaimInvariant, ClaimSound
    <3>2. QED
      BY <2>2, <3>1
  <2>5. task'[t] = [status |-> "Open", confirmed |-> 0, reversed |-> FALSE,
                    planned |-> x.row.allocated, idempotency_key |-> t[1]]
    BY <1>1, <2>1, <2>4, Zenon
  <2>6. /\ task'[t].status = "Open" /\ task'[t].confirmed = 0 /\ task'[t].reversed = FALSE
        /\ task'[t].planned = x.row.allocated
    BY <2>5
  <2>7. QED
    BY <2>2, <2>3, <2>6
<1>4. ASSUME NEW a \in AllocationIds
      PROVE  /\ allocation'[a].allocated = allocation[a].allocated
             /\ allocation'[a].picked = allocation[a].picked
             /\ allocation'[a].status = IF \E x \in Claimed(u) : x.name = a
                                          THEN "Released" ELSE allocation[a].status
  <2>1. allocation'[a] = IF \E x \in Claimed(u) : x.name = a
                           THEN [allocation[a] EXCEPT !.status = "Released"] ELSE allocation[a]
    BY Zenon DEF ClaimAllocations
  <2>2. allocation[a] \in AllocationRow
    BY DEF ClaimInvariant, TypeInvariant, TypeOK
  <2>3. CASE \E x \in Claimed(u) : x.name = a
    <3>1. allocation'[a] = [allocation[a] EXCEPT !.status = "Released"]
      BY <2>1, <2>3
    <3>2. QED
      BY <2>2, <2>3, <3>1, Zenon DEF AllocationRow
  <2>4. CASE ~\E x \in Claimed(u) : x.name = a
    BY <2>1, <2>4, Zenon
  <2>5. QED
    BY <2>3, <2>4
<1>5. /\ \A w \in Users : snapshot'[w] = IF w = u THEN {} ELSE snapshot[w]
      /\ UNCHANGED <<stockBalance, delivery, ledger, staged>>
  BY Zenon DEF ClaimAllocations, ClaimInvariant, TypeInvariant, TypeOK
<1>6. QED
  BY <1>2, <1>3, <1>4, <1>5, Zenon

\* A claim touches no task that has a row.
LEMMA ClaimEffect ==
  ASSUME NEW u \in Users, ClaimAllocations(u), NEW t \in TaskIds
  PROVE  \/ task'[t] = task[t]
         \/ /\ task[t].status = "None"
            /\ task'[t].status = "Open" /\ task'[t].confirmed = 0 /\ ~task'[t].reversed
<1>1. PICK number \in [Claimed(u) -> 1..MaxRows] :
        /\ \A x \in Claimed(u), j \in 1..MaxRows :
             j < number[x] <=> task[<<x.name, j>>].status # "None"
        /\ task' = [v \in TaskIds |->
          IF \E x \in Claimed(u) : v = <<x.name, number[x]>>
            THEN [status |-> "Open", confirmed |-> 0, reversed |-> FALSE,
                  planned |-> (CHOOSE x \in Claimed(u) : x.name = v[1]).row.allocated,
                  idempotency_key |-> v[1]]
            ELSE task[v]]
  BY Zenon DEF ClaimAllocations
<1>2. CASE ~\E x \in Claimed(u) : t = <<x.name, number[x]>>
  BY <1>1, <1>2, Zenon
<1>3. CASE \E x \in Claimed(u) : t = <<x.name, number[x]>>
  <2>1. PICK x \in Claimed(u) : t = <<x.name, number[x]>>
    BY <1>3
  <2>2. number[x] \in 1..MaxRows /\ ~(number[x] < number[x])
    BY <1>1
  <2>3. task[<<x.name, number[x]>>].status = "None"
    BY <1>1, <2>2, Zenon
  <2>4. \E n : task'[t] = [status |-> "Open", confirmed |-> 0, reversed |-> FALSE,
                           planned |-> n, idempotency_key |-> t[1]]
    BY <1>1, <1>3, Zenon
  <2>5. QED
    BY <2>1, <2>3, <2>4
<1>4. QED
  BY <1>2, <1>3

\* What an allocation run takes from the rows.
Takes(d, k, take, left) ==
  /\ delivery[d].docstatus = 1
  /\ left + SumFunctionOnSet(take, Balances) = delivery[d].requested - delivery[d].allocated
  /\ \A a \in AllocationIds :
       /\ DeliveryOf(a) = d /\ a[3] = k => allocation[a].status = "None"
       /\ allocation'[a] = IF DeliveryOf(a) = d /\ a[3] = k /\ take[BalanceOf(a)] > 0
                             THEN [status |-> "Allocated", allocated |-> take[BalanceOf(a)], picked |-> 0]
                             ELSE allocation[a]
  /\ \A e \in Deliveries \ {d} : delivery'[e] = delivery[e]
  /\ LineIs(delivery'[d], delivery[d], delivery[d].requested,
            delivery[d].requested - left, delivery[d].picked)
  /\ \A b \in Balances : /\ stockBalance'[b].allocated = stockBalance[b].allocated + take[b]
                         /\ stockBalance'[b].quantity = stockBalance[b].quantity
  /\ UNCHANGED <<task, ledger, staged, snapshot>>

LEMMA AllocateFields ==
  ASSUME TypeInvariant, NEW d \in Deliveries, Allocate(d)
  PROVE  \E k \in 1..MaxRows, take \in [Balances -> Nat], left \in Nat : Takes(d, k, take, left)
<1>1. PICK k \in 1..MaxRows, p \in [take : [Balances -> Nat], left : Nat] :
        /\ Reserve(d, k, p)
        /\ p.left + SumFunctionOnSet(p.take, Balances) = delivery[d].requested - delivery[d].allocated
  BY AllocateEffect DEF TypeInvariant
<1> DEFINE take == p.take
           left == p.left
<1>2. /\ take \in [Balances -> Nat] /\ left \in Nat
      /\ left + SumFunctionOnSet(take, Balances) = delivery[d].requested - delivery[d].allocated
  BY <1>1
<1>3. delivery[d].docstatus = 1
  BY DEF Allocate
<1>4. ASSUME NEW a \in AllocationIds
      PROVE  /\ DeliveryOf(a) = d /\ a[3] = k => allocation[a].status = "None"
             /\ allocation'[a] = IF DeliveryOf(a) = d /\ a[3] = k /\ take[BalanceOf(a)] > 0
                                   THEN [status |-> "Allocated", allocated |-> take[BalanceOf(a)], picked |-> 0]
                                   ELSE allocation[a]
  <2>1. k \in 1..MaxRows /\ ~(k < k)
    OBVIOUS
  <2>2. \A b \in Balances : allocation[<<d, b, k>>].status = "None"
    BY <1>1, <2>1, Zenon DEF Reserve
  <2>3. DeliveryOf(a) = d /\ a[3] = k => BalanceOf(a) \in Balances /\ a = <<d, BalanceOf(a), k>>
    BY DEF AllocationIds, DeliveryOf, BalanceOf
  <2>4. DeliveryOf(a) = d /\ a[3] = k => allocation[a].status = "None"
    BY <2>2, <2>3
  <2>5. QED
    BY <1>1, <2>4, Zenon DEF Reserve
<1>5. /\ \A e \in Deliveries \ {d} : delivery'[e] = delivery[e]
      /\ LineIs(delivery'[d], delivery[d], delivery[d].requested,
                delivery[d].requested - left, delivery[d].picked)
  <2> DEFINE status == AllocationStatusOf(delivery[d].requested, delivery[d].requested - left)
             row == [delivery[d] EXCEPT !.allocated = delivery[d].requested - left,
                                        !.allocation_status = status]
  <2>1. delivery' = [delivery EXCEPT ![d] = row]
    BY <1>1, Zenon DEF Reserve
  <2>2. delivery[d] \in DeliveryRow /\ delivery \in [Deliveries -> DeliveryRow]
    BY DEF TypeInvariant, TypeOK
  <2> HIDE DEF status
  <2>3. LineIs(row, delivery[d], delivery[d].requested, delivery[d].requested - left, delivery[d].picked)
    BY <2>2, LineQuantities
  <2> HIDE DEF row
  <2>4. QED
    BY <2>1, <2>2, <2>3, Zenon
<1>6. ASSUME NEW b \in Balances
      PROVE  /\ stockBalance'[b].allocated = stockBalance[b].allocated + take[b]
             /\ stockBalance'[b].quantity = stockBalance[b].quantity
  <2>1. stockBalance'[b] = [stockBalance[b] EXCEPT !.allocated = stockBalance[b].allocated + take[b]]
    BY <1>1, Zenon DEF Reserve
  <2>2. stockBalance[b] \in BalanceRow
    BY DEF TypeInvariant, TypeOK
  <2>3. QED
    BY <2>1, <2>2, Zenon DEF BalanceRow
<1>7. UNCHANGED <<task, ledger, staged, snapshot>>
  BY <1>1 DEF Reserve
<1> HIDE DEF take, left
<1>8. Takes(d, k, take, left)
  BY <1>2, <1>3, <1>4, <1>5, <1>6, <1>7, Zenon DEF Takes
<1>9. QED
  BY <1>2, <1>8

-----------------------------------------------------------------------------
\* A step is one of these, a replayed confirmation being no step at all.
Advance(t) == \E qty \in Nat, key \in LedgerKeys : Confirm(t, qty, key) /\ ~Posted(key) /\ OpenTask(t)

LEMMA StepCases ==
  ASSUME TypeInvariant, [Next]_vars
  PROVE  \/ UNCHANGED vars
         \/ \E d \in Deliveries : Allocate(d) \/ CancelDelivery(d)
         \/ \E u \in Users : ClaimAllocations(u) \/ ClaimRefused(u)
         \/ \E u \in Users, d \in Deliveries : ReadAllocations(u, d)
         \/ \E t \in TaskIds : Advance(t) \/ CloseShort(t) \/ Reverse(t)
         \/ \E t \in TaskIds, revised \in 1..MaxQuantity : RaiseException(t, revised)
<1>1. ASSUME NEW t \in TaskIds, Confirmation(t)
      PROVE  UNCHANGED vars \/ Advance(t)
  BY <1>1, ConfirmationEffect, Zenon DEF Advance
<1>2. QED
  BY <1>1, Zenon DEF Next, Forward, Confirmation

\* Reading, and a claim that is refused, touch the request's snapshot only.
LEMMA RequestFrame ==
  ASSUME NEW u \in Users,
         ClaimRefused(u) \/ \E d \in Deliveries : ReadAllocations(u, d)
  PROVE  UNCHANGED <<stockBalance, delivery, allocation, task, ledger, staged>>
BY Zenon DEF ClaimRefused, ReadAllocations

-----------------------------------------------------------------------------
(* What is posted.                                                         *)

PostedFor(t) == SumFunctionOnSet([e \in ledger |-> e.quantity], {e \in ledger : e.task = t})

LEMMA PostingFrame ==
  ASSUME PostingInvariant, TypeInvariant', UNCHANGED ledger,
         \A t \in TaskIds : /\ task'[t].confirmed = task[t].confirmed
                            /\ task'[t].status = "None" => task[t].status = "None"
  PROVE  PostingInvariant'
BY Zenon DEF PostingInvariant, PostedEqualsConfirmed

LEMMA AdvancePosting ==
  ASSUME PostingInvariant, TypeInvariant', NEW t \in TaskIds, Advance(t)
  PROVE  PostingInvariant'
<1>1. PICK qty \in Nat, key \in LedgerKeys : Confirm(t, qty, key) /\ ~Posted(key)
  BY DEF Advance
<1> DEFINE posted == ToPost(t, qty)
           entry == [key |-> key, task |-> t, quantity |-> posted]
           before == [e \in ledger |-> e.quantity]
           after == [e \in ledger \cup {entry} |-> e.quantity]
<1>2. TypeInvariant /\ IsFiniteSet(ledger)
  BY DEF PostingInvariant
<1>3. /\ posted \in Nat
      /\ ledger' = ledger \cup {entry}
      /\ task'[t].confirmed = task[t].confirmed + posted
      /\ task'[t].status \in {"Confirmed", "Partially Confirmed"}
      /\ \A v \in TaskIds \ {t} : task'[v] = task[v]
  BY <1>1, <1>2, ConfirmFields, Zenon
<1> HIDE DEF posted
<1>4. entry \notin ledger
  BY <1>1 DEF Posted
<1>5. \A e \in ledger : e.quantity \in Nat
  BY <1>2 DEF TypeInvariant, TypeOK, LedgerEntry
<1>6. entry.task = t /\ entry.quantity = posted
  OBVIOUS
<1>7. \A v \in TaskIds : PostedFor(v)' = SumFunctionOnSet(after, {e \in ledger \cup {entry} : e.task = v})
  BY <1>3, Zenon DEF PostedFor
<1>8. \A v \in TaskIds : task[v].confirmed = PostedFor(v)
  BY DEF PostingInvariant, PostedEqualsConfirmed, PostedFor
<1>9. ASSUME NEW v \in TaskIds
      PROVE  /\ IsFiniteSet({e \in ledger : e.task = v})
             /\ SumFunctionOnSet(after, {e \in ledger : e.task = v}) = PostedFor(v)
  <2> DEFINE entries == {e \in ledger : e.task = v}
  <2>1. IsFiniteSet(entries)
    BY <1>2, FS_Subset
  <2>2. \A e \in entries : after[e] = before[e]
    OBVIOUS
  <2> HIDE DEF after, before
  <2>3. SumFunctionOnSet(after, entries) = SumFunctionOnSet(before, entries)
    BY <2>1, <2>2, SumEqual
  <2>4. QED
    BY <2>1, <2>3 DEF PostedFor, before
<1>10. ASSUME NEW v \in TaskIds, v # t
       PROVE  task'[v].confirmed = PostedFor(v)'
  <2>1. {e \in ledger \cup {entry} : e.task = v} = {e \in ledger : e.task = v}
    BY <1>6, <1>10
  <2> HIDE DEF after, entry
  <2>2. QED
    BY <1>3, <1>7, <1>8, <1>9, <1>10, <2>1, Zenon
<1>11. task'[t].confirmed = PostedFor(t)'
  <2> DEFINE entries == {e \in ledger : e.task = t}
  <2>1. {e \in ledger \cup {entry} : e.task = t} = entries \cup {entry}
    BY <1>6
  <2>2. \A e \in entries : after[e] \in Int
    BY <1>5
  <2>3. after[entry] = posted /\ posted \in Int /\ entry \notin entries
    <3>1. entry \in ledger \cup {entry}
      OBVIOUS
    <3>2. after[entry] = entry.quantity
      BY <3>1, Zenon
    <3>3. posted \in Int
      <4>1. posted \in Nat
        BY <1>3, Zenon
      <4>2. QED
        BY <4>1
    <3>4. QED
      BY <1>4, <1>6, <3>2, <3>3, Zenon
  <2>4. IsFiniteSet(entries) /\ SumFunctionOnSet(after, entries) = PostedFor(t)
    BY <1>9
  <2> HIDE DEF after, entry, entries
  <2>5. SumFunctionOnSet(after, entries \cup {entry}) = after[entry] + SumFunctionOnSet(after, entries)
    BY <2>2, <2>3, <2>4, SumAdd
  <2>6. PostedFor(t)' = posted + task[t].confirmed
    BY <1>7, <1>8, <2>1, <2>3, <2>4, <2>5, Zenon
  <2>7. task[t].confirmed \in Nat /\ task'[t].confirmed = task[t].confirmed + posted
    BY <1>2, <1>3, TaskFacts, Zenon
  <2>8. task[t].confirmed + posted = posted + task[t].confirmed
    BY <2>3, <2>7
  <2>9. QED
    BY <2>6, <2>7, <2>8, Zenon
<1>12. PostedEqualsConfirmed'
  BY <1>10, <1>11, Zenon DEF PostedEqualsConfirmed, PostedFor
<1>13. IsFiniteSet(ledger')
  BY <1>2, <1>3, FS_AddElement
<1>14. \A v \in TaskIds : task'[v].status = "None" => task'[v].confirmed = 0
  BY <1>3, Zenon DEF PostingInvariant
<1>15. QED
  BY <1>12, <1>13, <1>14 DEF PostingInvariant

LEMMA PostingStep ==
  ASSUME PostingInvariant, [Next]_vars
  PROVE  PostingInvariant'
<1>1. TypeInvariant /\ TypeInvariant'
  BY StepTypes DEF PostingInvariant
<1>2. CASE UNCHANGED <<task, ledger>>
  BY <1>1, <1>2, PostingFrame
<1>3. ASSUME NEW d \in Deliveries, Allocate(d)
      PROVE  PostingInvariant'
  BY <1>1, <1>2, <1>3, AllocateFields, Zenon DEF Takes
<1>4. ASSUME NEW d \in Deliveries, CancelDelivery(d)
      PROVE  PostingInvariant'
  <2>1. UNCHANGED ledger /\ \A t \in TaskIds : /\ task'[t].confirmed = task[t].confirmed
                                               /\ task'[t].status \in {"Cancelled", task[t].status}
    BY <1>1, <1>4, CancelFields, Zenon
  <2>2. QED
    BY <1>1, <2>1, PostingFrame
<1>5. ASSUME NEW u \in Users, ClaimAllocations(u)
      PROVE  PostingInvariant'
  <2>1. UNCHANGED ledger
    BY <1>5 DEF ClaimAllocations
  <2>2. ASSUME NEW t \in TaskIds
        PROVE  /\ task'[t].confirmed = task[t].confirmed
               /\ task'[t].status = "None" => task[t].status = "None"
    BY <1>5, ClaimEffect, Zenon DEF PostingInvariant
  <2>3. QED
    BY <1>1, <2>1, <2>2, PostingFrame
<1>6. ASSUME NEW u \in Users, ClaimRefused(u) \/ \E d \in Deliveries : ReadAllocations(u, d)
      PROVE  PostingInvariant'
  BY <1>2, <1>6, RequestFrame, Zenon
<1>7. ASSUME NEW t \in TaskIds, Advance(t)
      PROVE  PostingInvariant'
  BY <1>1, <1>7, AdvancePosting
<1>8. ASSUME NEW t \in TaskIds, \/ CloseShort(t)
                                \/ Reverse(t)
                                \/ \E revised \in 1..MaxQuantity : RaiseException(t, revised)
      PROVE  PostingInvariant'
  <2>1. /\ UNCHANGED ledger
        /\ \A v \in TaskIds \ {t} : task'[v] = task[v]
        /\ task'[t].confirmed = task[t].confirmed
        /\ task'[t].status \in {"Confirmed", "Exception"}
    BY <1>1, <1>8, CloseShortFields, ReverseFields, RaiseExceptionFields, Zenon
  <2>2. \A v \in TaskIds : /\ task'[v].confirmed = task[v].confirmed
                           /\ task'[v].status = "None" => task[v].status = "None"
    BY <2>1, Zenon
  <2>3. QED
    BY <1>1, <2>1, <2>2, PostingFrame
<1>9. QED
  BY <1>1, <1>2, <1>3, <1>4, <1>5, <1>6, <1>7, <1>8, StepCases, Zenon DEF vars

\* However often a scanner resends a confirmation and however confirmations,
\* reversals and releases interleave, each task's ledger entries add up to
\* exactly what the task says it confirmed.
THEOREM PostedOnce == Spec => []PostedEqualsConfirmed
<1>1. Init => PostingInvariant
  <2> SUFFICES ASSUME Init PROVE PostingInvariant
    OBVIOUS
  <2>1. TypeInvariant
    BY InitTypes
  <2>2. ledger = {} /\ \A t \in TaskIds : task[t].confirmed = 0
    BY DEF Init, NoTask
  <2>3. \A t \in TaskIds : SumFunctionOnSet([e \in ledger |-> e.quantity], {e \in ledger : e.task = t}) = 0
    <3>1. {e \in ledger : TRUE} = {} /\ \A t \in TaskIds : {e \in ledger : e.task = t} = {}
      BY <2>2
    <3>2. QED
      BY <3>1, SumEmpty
  <2>4. QED
    BY <2>1, <2>2, <2>3, FS_EmptySet DEF PostingInvariant, PostedEqualsConfirmed
<1>2. PostingInvariant /\ [Next]_vars => PostingInvariant'
  BY PostingStep
<1>3. PostingInvariant => PostedEqualsConfirmed
  BY DEF PostingInvariant
<1>4. QED
  BY <1>1, <1>2, <1>3, PTL DEF Spec
-----------------------------------------------------------------------------
(* What a delivery line reports.                                           *)

\* Sums over the allocations of a line, of any table of allocations.
LEMMA LineSums ==
  ASSUME NEW alloc \in [AllocationIds -> AllocationRow], NEW S \in SUBSET AllocationIds,
         \A a \in AllocationIds : alloc[a].picked <= alloc[a].allocated
  PROVE  LET picked == SumFunctionOnSet([a \in AllocationIds |-> alloc[a].picked], S)
             allocated == SumFunctionOnSet([a \in AllocationIds |-> alloc[a].allocated], S)
         IN  /\ picked \in Nat /\ allocated \in Nat /\ picked <= allocated
             /\ \A a \in S : alloc[a].picked <= picked
<1> DEFINE f == [a \in AllocationIds |-> alloc[a].picked]
           g == [a \in AllocationIds |-> alloc[a].allocated]
<1>1. IsFiniteSet(S)
  BY FiniteNames, FS_Subset
<1>2. \A a \in AllocationIds : f[a] = alloc[a].picked /\ g[a] = alloc[a].allocated
  OBVIOUS
<1>3. \A a \in AllocationIds : alloc[a].picked \in Nat /\ alloc[a].allocated \in Nat
  BY AllocationFields
<1> HIDE DEF f, g
<1>4. \A a \in S : f[a] \in Nat /\ g[a] \in Nat /\ f[a] <= g[a]
  BY <1>2, <1>3
<1>5. SumFunctionOnSet(f, S) \in Nat /\ SumFunctionOnSet(g, S) \in Nat
  BY <1>1, <1>4, SumNat
<1>6. SumFunctionOnSet(f, S) <= SumFunctionOnSet(g, S)
  BY <1>1, <1>4, SumAtMost
<1>7. ASSUME NEW a \in S PROVE alloc[a].picked <= SumFunctionOnSet(f, S)
  <2>1. f[a] <= SumFunctionOnSet(f, S)
    BY <1>1, <1>4, SumElement
  <2>2. QED
    BY <1>2, <2>1
<1>8. QED
  BY <1>5, <1>6, <1>7 DEF f, g

\* When one allocation changes, the sums change with it.
LEMMA SumsFollow ==
  ASSUME TypeOK, TypeOK', NEW a \in AllocationIds, NEW row,
         Changes(allocation, allocation', AllocationIds, a, row), NEW S \in SUBSET AllocationIds
  PROVE  /\ AllocatedOf(S)' = IF a \in S THEN AllocatedOf(S) + (row.allocated - allocation[a].allocated)
                              ELSE AllocatedOf(S)
         /\ PickedOf(S)' = IF a \in S THEN PickedOf(S) + (row.picked - allocation[a].picked)
                           ELSE PickedOf(S)
<1> DEFINE f == [x \in AllocationIds |-> allocation[x].allocated]
           g == [x \in AllocationIds |-> allocation'[x].allocated]
           p == [x \in AllocationIds |-> allocation[x].picked]
           q == [x \in AllocationIds |-> allocation'[x].picked]
<1>1. IsFiniteSet(S)
  BY FiniteNames, FS_Subset
<1>2. \A x \in AllocationIds : /\ f[x] = allocation[x].allocated /\ g[x] = allocation'[x].allocated
                               /\ p[x] = allocation[x].picked /\ q[x] = allocation'[x].picked
  OBVIOUS
<1>3. \A x \in AllocationIds : /\ allocation[x].allocated \in Int /\ allocation'[x].allocated \in Int
                               /\ allocation[x].picked \in Int /\ allocation'[x].picked \in Int
  BY AllocationFields DEF TypeOK
<1>4. allocation'[a] = row /\ \A x \in AllocationIds \ {a} : allocation'[x] = allocation[x]
  BY DEF Changes
<1>5. /\ AllocatedOf(S) = SumFunctionOnSet(f, S) /\ AllocatedOf(S)' = SumFunctionOnSet(g, S)
      /\ PickedOf(S) = SumFunctionOnSet(p, S) /\ PickedOf(S)' = SumFunctionOnSet(q, S)
  BY DEF AllocatedOf, PickedOf
<1> HIDE DEF f, g, p, q
<1>6. \A x \in S : f[x] \in Int /\ g[x] \in Int /\ p[x] \in Int /\ q[x] \in Int
  BY <1>2, <1>3
<1>7. \A x \in S \ {a} : g[x] = f[x] /\ q[x] = p[x]
  BY <1>2, <1>4
<1>8. SumFunctionOnSet(g, S) = IF a \in S THEN SumFunctionOnSet(f, S) + (g[a] - f[a])
                               ELSE SumFunctionOnSet(f, S)
  BY <1>1, <1>6, <1>7, SumOneChange
<1>9. SumFunctionOnSet(q, S) = IF a \in S THEN SumFunctionOnSet(p, S) + (q[a] - p[a])
                               ELSE SumFunctionOnSet(p, S)
  BY <1>1, <1>6, <1>7, SumOneChange
<1>10. g[a] = row.allocated /\ f[a] = allocation[a].allocated /\ q[a] = row.picked /\ p[a] = allocation[a].picked
  BY <1>2, <1>4
<1>11. QED
  BY <1>5, <1>8, <1>9, <1>10, Zenon

\* A line whose numbers follow one of its allocations still adds up.
LEMMA LineUpdate ==
  ASSUME LineInvariant, TypeInvariant', NEW a \in AllocationIds, NEW row, NEW ln,
         Changes(allocation, allocation', AllocationIds, a, row),
         Changes(delivery, delivery', Deliveries, DeliveryOf(a), ln),
         NEW m \in Int, NEW n \in Int,
         row.allocated = allocation[a].allocated + m, row.picked = allocation[a].picked + n,
         LineIs(ln, delivery[DeliveryOf(a)], delivery[DeliveryOf(a)].requested + m,
                delivery[DeliveryOf(a)].allocated + m, delivery[DeliveryOf(a)].picked + n),
         row.picked <= row.allocated,
         row.status = "None" => row.allocated = 0,
         row.status = "Picked" => row.picked = row.allocated
  PROVE  LineInvariant'
<1> DEFINE d == DeliveryOf(a)
<1>1. /\ d \in Deliveries /\ TypeOK /\ TypeOK'
      /\ allocation \in [AllocationIds -> AllocationRow] /\ allocation' \in [AllocationIds -> AllocationRow]
  BY AllocationIdParts DEF LineInvariant, TypeInvariant, TypeOK
<1>2. allocation'[a] = row /\ \A x \in AllocationIds \ {a} : allocation'[x] = allocation[x]
  BY DEF Changes
<1>3. \A x \in AllocationIds : AllocationSound(x)'
  BY <1>2, Zenon DEF LineInvariant, AllocationSound
<1>4. \A x \in AllocationIds : allocation'[x].picked <= allocation'[x].allocated
  BY <1>3 DEF AllocationSound
<1>5. /\ allocation[a].allocated \in Nat /\ allocation[a].picked \in Nat
  BY <1>1, AllocationFields
<1>6. row.allocated - allocation[a].allocated = m /\ row.picked - allocation[a].picked = n
  BY <1>5
<1>7. \A e \in Deliveries :
        /\ AllocationsFor(e) \in SUBSET AllocationIds
        /\ a \in AllocationsFor(e) <=> e = d
  BY DEF AllocationsFor
<1>8. ASSUME NEW e \in Deliveries
      PROVE  /\ AllocatedOf(AllocationsFor(e))' =
                  IF e = d THEN AllocatedOf(AllocationsFor(e)) + m ELSE AllocatedOf(AllocationsFor(e))
             /\ PickedOf(AllocationsFor(e))' =
                  IF e = d THEN PickedOf(AllocationsFor(e)) + n ELSE PickedOf(AllocationsFor(e))
  <2> DEFINE S == AllocationsFor(e)
  <2>1. S' = S
    BY DEF AllocationsFor
  <2>2. S \in SUBSET AllocationIds /\ (a \in S <=> e = d)
    BY <1>7
  <2> HIDE DEF S
  <2>3. /\ AllocatedOf(S)' = IF a \in S THEN AllocatedOf(S) + (row.allocated - allocation[a].allocated)
                             ELSE AllocatedOf(S)
        /\ PickedOf(S)' = IF a \in S THEN PickedOf(S) + (row.picked - allocation[a].picked)
                          ELSE PickedOf(S)
    BY <1>1, <2>2, SumsFollow
  <2>4. QED
    BY <1>6, <2>2, <2>3, Zenon DEF S
<1>9. ASSUME NEW e \in Deliveries
      PROVE  /\ 0 <= PickedOf(AllocationsFor(e))'
             /\ PickedOf(AllocationsFor(e))' <= AllocatedOf(AllocationsFor(e))'
  <2> DEFINE S == AllocationsFor(e)
             picked == SumFunctionOnSet([x \in AllocationIds |-> allocation'[x].picked], S)
             allocated == SumFunctionOnSet([x \in AllocationIds |-> allocation'[x].allocated], S)
  <2>1. picked \in Nat /\ picked <= allocated
    <3>1. S \in SUBSET AllocationIds
      BY <1>7
    <3> HIDE DEF S
    <3>2. QED
      BY <1>1, <1>4, <3>1, LineSums
  <2>2. PickedOf(AllocationsFor(e))' = picked /\ AllocatedOf(AllocationsFor(e))' = allocated
    BY Zenon DEF PickedOf, AllocatedOf, AllocationsFor
  <2> HIDE DEF picked, allocated
  <2>3. QED
    BY <2>1, <2>2
<1>10. \A e \in Deliveries :
         /\ delivery[e].allocated <= delivery[e].requested
         /\ delivery[e].allocated = AllocatedOf(AllocationsFor(e))
         /\ delivery[e].picked = PickedOf(AllocationsFor(e))
  BY DEF LineInvariant, OutboundProgress
<1>11. /\ delivery'[d] = ln /\ \A e \in Deliveries \ {d} : delivery'[e] = delivery[e]
       /\ ln.requested = delivery[d].requested + m /\ ln.allocated = delivery[d].allocated + m
       /\ ln.picked = delivery[d].picked + n
  BY Zenon DEF Changes, LineIs
<1>12. ASSUME NEW e \in Deliveries
       PROVE  /\ delivery'[e].allocated <= delivery'[e].requested
              /\ delivery'[e].allocated = AllocatedOf(AllocationsFor(e))'
              /\ delivery'[e].picked = PickedOf(AllocationsFor(e))'
  <2>1. CASE e = d
    <3>1. /\ delivery'[e].allocated = AllocatedOf(AllocationsFor(e))'
          /\ delivery'[e].picked = PickedOf(AllocationsFor(e))'
      BY <1>8, <1>10, <1>11, <2>1, Zenon
    <3>2. /\ delivery'[e].requested = delivery[d].requested + m
          /\ delivery'[e].allocated = delivery[d].allocated + m
      BY <1>11, <2>1
    <3>3. delivery[d].requested \in Int /\ delivery[d].allocated \in Int
      BY <1>1, DeliveryFields DEF TypeOK
    <3>4. delivery'[e].allocated <= delivery'[e].requested
      BY <1>1, <1>10, <3>2, <3>3
    <3>5. QED
      BY <3>1, <3>4
  <2>2. CASE e # d
    BY <1>8, <1>10, <1>11, <2>2, Zenon
  <2>3. QED
    BY <2>1, <2>2
<1>13. OutboundProgress'
  <2>1. ASSUME NEW e \in Deliveries
        PROVE  /\ 0 <= delivery'[e].picked /\ delivery'[e].picked <= delivery'[e].allocated
               /\ delivery'[e].allocated <= delivery'[e].requested
               /\ delivery'[e].allocated = AllocatedOf(AllocationsFor(e))'
               /\ delivery'[e].picked = PickedOf(AllocationsFor(e))'
    BY <1>9, <1>12
  <2>2. QED
    BY <2>1, Zenon DEF OutboundProgress
<1>14. QED
  BY <1>3, <1>13 DEF LineInvariant
LEMMA LineFacts ==
  ASSUME LineInvariant, NEW a \in AllocationIds
  PROVE  /\ TypeInvariant /\ TypeOK
         /\ DeliveryOf(a) \in Deliveries /\ a \in AllocationsFor(DeliveryOf(a))
         /\ allocation[a] \in AllocationRow /\ delivery[DeliveryOf(a)] \in DeliveryRow
         /\ allocation[a].allocated \in Nat /\ allocation[a].picked \in Nat
         /\ delivery[DeliveryOf(a)].requested \in Int /\ delivery[DeliveryOf(a)].allocated \in Int
         /\ delivery[DeliveryOf(a)].picked \in Int
         /\ allocation[a].picked <= delivery[DeliveryOf(a)].picked
         /\ AllocationSound(a)
<1> DEFINE d == DeliveryOf(a)
<1>1. TypeInvariant /\ TypeOK /\ d \in Deliveries /\ AllocationSound(a)
  BY AllocationIdParts DEF LineInvariant, TypeInvariant
<1>2. /\ allocation[a] \in AllocationRow /\ delivery[d] \in DeliveryRow
      /\ allocation \in [AllocationIds -> AllocationRow]
  BY <1>1 DEF TypeOK
<1>3. \A x \in AllocationIds : allocation[x].picked <= allocation[x].allocated
  BY DEF LineInvariant, AllocationSound
<1>4. AllocationsFor(d) \in SUBSET AllocationIds /\ a \in AllocationsFor(d)
  BY DEF AllocationsFor
<1>5. allocation[a].picked <= PickedOf(AllocationsFor(d))
  BY <1>2, <1>3, <1>4, LineSums, Zenon DEF PickedOf
<1>6. delivery[d].picked = PickedOf(AllocationsFor(d))
  BY <1>1 DEF LineInvariant, OutboundProgress
<1>7. QED
  BY <1>1, <1>2, <1>4, <1>5, <1>6, AllocationFields, DeliveryFields, Zenon

\* The numbers of a row after a pick, and after a pick is undone.
LEMMA PickArithmetic ==
  ASSUME NEW m \in Nat, NEW n \in Nat, NEW take \in Nat, n <= m
  PROVE  /\ m = m + 0 /\ n + take - take = n
         /\ (take > 0 => take <= m - n) => n + take <= m /\ (n + take >= m => n + take = m)
         /\ take <= n => n - take <= m /\ (n - take >= m => n - take = m)
         /\ n - take = n + (-take) /\ m - take = m + (-take)
         /\ n + 0 = n /\ n - 0 = n
OBVIOUS

LEMMA AdvanceLine ==
  ASSUME LineInvariant, TypeInvariant', NEW t \in TaskIds, Advance(t)
  PROVE  LineInvariant'
<1>1. PICK qty \in Nat, key \in LedgerKeys : Confirm(t, qty, key)
  BY DEF Advance
<1> DEFINE a == AllocationOf(t)
           d == DeliveryOf(a)
           posted == ToPost(t, qty)
           take == Chargeable(a, posted)
           row == BookPick(allocation[a], take)
           ln == BookPickOnLine(delivery[d], take)
<1>2. a \in AllocationIds /\ TypeInvariant
  BY TaskIdParts DEF LineInvariant
<1>3. /\ posted \in Nat /\ take \in Nat
      /\ Changes(allocation, allocation', AllocationIds, a, row)
      /\ Changes(delivery, delivery', Deliveries, d, ln)
  BY <1>1, <1>2, ConfirmFields, Zenon
<1>4. take > 0 => take <= allocation[a].allocated - allocation[a].picked
  BY <1>2, <1>3, ChargeableBounds DEF TypeInvariant
<1> HIDE DEF a, take
<1>5. /\ row.allocated = allocation[a].allocated /\ row.picked = allocation[a].picked + take
      /\ row.status = IF take = 0 THEN allocation[a].status
                      ELSE IF allocation[a].picked + take >= allocation[a].allocated
                             THEN "Picked" ELSE "Partially Picked"
  BY <1>2, <1>3, LineFacts, BookPickFields
<1>6. LineIs(ln, delivery[d], delivery[d].requested, delivery[d].allocated, delivery[d].picked + take)
  BY <1>2, <1>3, LineFacts, LineFields
<1> HIDE DEF row, ln
<1>7. /\ allocation[a].allocated \in Nat /\ allocation[a].picked \in Nat
      /\ delivery[d].requested \in Int /\ delivery[d].allocated \in Int
  BY <1>2, LineFacts
<1>8. /\ allocation[a].status = "None" => allocation[a].allocated = 0
      /\ allocation[a].picked <= allocation[a].allocated
      /\ allocation[a].status = "Picked" => allocation[a].picked = allocation[a].allocated
  BY <1>2, LineFacts DEF AllocationSound
<1>9. /\ row.picked <= row.allocated
      /\ row.status = "None" => row.allocated = 0
      /\ row.status = "Picked" => row.picked = row.allocated
  <2> DEFINE m == allocation[a].allocated
             n == allocation[a].picked
  <2>1. m \in Nat /\ n \in Nat /\ take \in Nat /\ n <= m
    BY <1>3, <1>7, <1>8, Zenon
  <2>2. /\ n + take <= m /\ (n + take >= m => n + take = m)
        /\ n + 0 = n
    BY <1>4, <2>1, PickArithmetic
  <2>3. row.allocated = m /\ row.picked = n + take
    BY <1>5, Zenon
  <2>4. CASE take = 0
    BY <1>5, <1>8, <2>1, <2>2, <2>3, <2>4, Zenon
  <2>5. CASE take # 0
    BY <1>5, <2>2, <2>3, <2>5, Zenon
  <2>6. QED
    BY <2>4, <2>5
<1>10. /\ row.allocated = allocation[a].allocated + 0
       /\ delivery[d].requested = delivery[d].requested + 0
       /\ delivery[d].allocated = delivery[d].allocated + 0
       /\ 0 \in Int /\ take \in Int
  <2>1. \A n \in Int : n + 0 = n
    OBVIOUS
  <2>2. \A n \in Nat : n \in Int
    OBVIOUS
  <2>3. 0 \in Int
    OBVIOUS
  <2>4. QED
    BY <1>3, <1>5, <1>7, <2>1, <2>2, <2>3, Zenon
<1>11. LineIs(ln, delivery[d], delivery[d].requested + 0, delivery[d].allocated + 0, delivery[d].picked + take)
  BY <1>6, <1>10, Zenon
<1>12. QED
  BY <1>2, <1>3, <1>5, <1>9, <1>10, <1>11, LineUpdate, Zenon

LEMMA CloseShortLine ==
  ASSUME LineInvariant, TypeInvariant', NEW t \in TaskIds, CloseShort(t)
  PROVE  LineInvariant'
<1> DEFINE a == AllocationOf(t)
           d == DeliveryOf(a)
           shortfall == task[t].planned - task[t].confirmed
           take == Chargeable(a, shortfall)
           row == ShrinkAllocation(allocation[a], take)
           ln == ShrinkLine(delivery[d], take)
<1>2. a \in AllocationIds /\ TypeInvariant
  BY TaskIdParts DEF LineInvariant
<1>3. /\ shortfall \in Nat /\ take \in Nat
      /\ Changes(allocation, allocation', AllocationIds, a, row)
      /\ Changes(delivery, delivery', Deliveries, d, ln)
  BY <1>2, CloseShortFields, Zenon
<1>4. take > 0 => take <= allocation[a].allocated - allocation[a].picked
  BY <1>2, <1>3, ChargeableBounds DEF TypeInvariant
<1> HIDE DEF a, take
<1>5. /\ row.allocated = allocation[a].allocated - take /\ row.picked = allocation[a].picked
      /\ row.status = IF take # 0 /\ allocation[a].picked >= allocation[a].allocated - take
                        THEN "Picked" ELSE allocation[a].status
  BY <1>2, <1>3, LineFacts, ShrinkFields
<1>6. LineIs(ln, delivery[d], delivery[d].requested - take, delivery[d].allocated - take, delivery[d].picked)
  BY <1>2, <1>3, LineFacts, LineFields
<1> HIDE DEF row, ln
<1>7. /\ allocation[a].allocated \in Nat /\ allocation[a].picked \in Nat
      /\ delivery[d].requested \in Int /\ delivery[d].allocated \in Int /\ delivery[d].picked \in Int
  BY <1>2, LineFacts
<1>8. /\ allocation[a].status = "None" => allocation[a].allocated = 0
      /\ allocation[a].picked <= allocation[a].allocated
      /\ allocation[a].status = "Picked" => allocation[a].picked = allocation[a].allocated
  BY <1>2, LineFacts DEF AllocationSound
<1>9. /\ row.picked <= row.allocated
      /\ row.status = "None" => row.allocated = 0
      /\ row.status = "Picked" => row.picked = row.allocated
  BY <1>3, <1>4, <1>5, <1>7, <1>8
<1>10. /\ row.allocated = allocation[a].allocated + (-take)
       /\ row.picked = allocation[a].picked + 0
       /\ delivery[d].requested - take = delivery[d].requested + (-take)
       /\ delivery[d].allocated - take = delivery[d].allocated + (-take)
       /\ delivery[d].picked = delivery[d].picked + 0
       /\ 0 \in Int /\ -take \in Int
  BY <1>3, <1>5, <1>7
<1>11. LineIs(ln, delivery[d], delivery[d].requested + (-take), delivery[d].allocated + (-take), delivery[d].picked + 0)
  BY <1>6, <1>10, Zenon
<1>12. QED
  BY <1>2, <1>3, <1>9, <1>10, <1>11, LineUpdate, Zenon

LEMMA ReverseLine ==
  ASSUME LineInvariant, TypeInvariant', NEW t \in TaskIds, Reverse(t)
  PROVE  LineInvariant'
<1> DEFINE a == AllocationOf(t)
           d == DeliveryOf(a)
           take == Lesser(task[t].confirmed, allocation[a].picked)
           row == UnwindPick(allocation[a], take)
           ln == UnwindLine(delivery[d], take)
           picked == IF take = 0 THEN delivery[d].picked ELSE Floor0(delivery[d].picked - take)
<1>2. a \in AllocationIds /\ TypeInvariant
  BY TaskIdParts DEF LineInvariant
<1>3. /\ take \in Nat /\ take <= allocation[a].picked
      /\ Changes(allocation, allocation', AllocationIds, a, row)
      /\ Changes(delivery, delivery', Deliveries, d, ln)
  BY <1>2, ReverseFields, Zenon
<1> HIDE DEF a, take
<1>5. /\ row.allocated = allocation[a].allocated /\ row.picked = allocation[a].picked - take
      /\ row.status = IF take = 0 THEN allocation[a].status
                      ELSE IF allocation[a].picked = take THEN "Allocated"
                      ELSE IF allocation[a].picked - take >= allocation[a].allocated THEN "Picked"
                      ELSE "Partially Picked"
  BY <1>2, <1>3, LineFacts, UnwindFields
<1>6. LineIs(ln, delivery[d], delivery[d].requested, delivery[d].allocated, picked)
  BY <1>2, <1>3, LineFacts, LineFields
<1> HIDE DEF row, ln
<1>7. /\ allocation[a].allocated \in Nat /\ allocation[a].picked \in Nat
      /\ delivery[d].requested \in Int /\ delivery[d].allocated \in Int /\ delivery[d].picked \in Int
      /\ allocation[a].picked <= delivery[d].picked
  BY <1>2, LineFacts
<1>8. /\ allocation[a].status = "None" => allocation[a].allocated = 0
      /\ allocation[a].picked <= allocation[a].allocated
      /\ allocation[a].status = "Picked" => allocation[a].picked = allocation[a].allocated
  BY <1>2, LineFacts DEF AllocationSound
<1>9. /\ row.picked <= row.allocated
      /\ row.status = "None" => row.allocated = 0
      /\ row.status = "Picked" => row.picked = row.allocated
  <2> DEFINE m == allocation[a].allocated
             n == allocation[a].picked
  <2>1. m \in Nat /\ n \in Nat /\ take \in Nat /\ n <= m
    BY <1>3, <1>7, <1>8, Zenon
  <2>2. /\ n - take <= m /\ (n - take >= m => n - take = m)
        /\ n - 0 = n
    BY <1>3, <2>1, PickArithmetic
  <2>3. row.allocated = m /\ row.picked = n - take
    BY <1>5, Zenon
  <2>4. CASE take = 0
    BY <1>5, <1>8, <2>1, <2>2, <2>3, <2>4, Zenon
  <2>5. CASE take # 0
    BY <1>5, <2>2, <2>3, <2>5, Zenon
  <2>6. QED
    BY <2>4, <2>5
<1>10. picked = delivery[d].picked + (-take)
  BY <1>3, <1>7 DEF Floor0
<1>11. /\ row.allocated = allocation[a].allocated + 0
       /\ row.picked = allocation[a].picked + (-take)
       /\ delivery[d].requested = delivery[d].requested + 0
       /\ delivery[d].allocated = delivery[d].allocated + 0
       /\ 0 \in Int /\ -take \in Int
  <2>1. \A n \in Int : n + 0 = n
    OBVIOUS
  <2>2. \A n \in Nat : n \in Int /\ -n \in Int
    OBVIOUS
  <2>3. \A m, n \in Nat : m - n = m + (-n)
    OBVIOUS
  <2>4. 0 \in Int
    OBVIOUS
  <2>5. QED
    BY <1>3, <1>5, <1>7, <2>1, <2>2, <2>3, <2>4, Zenon
<1> HIDE DEF picked
<1>12. LineIs(ln, delivery[d], delivery[d].requested + 0, delivery[d].allocated + 0, delivery[d].picked + (-take))
  BY <1>6, <1>10, <1>11, Zenon
<1>13. QED
  BY <1>2, <1>3, <1>9, <1>11, <1>12, LineUpdate, Zenon

\* What an allocation run reserves, as a function of the allocations.
Taken(d, k, take) ==
  [a \in AllocationIds |-> IF DeliveryOf(a) = d /\ a[3] = k THEN take[BalanceOf(a)] ELSE 0]

LEMMA TakenSums ==
  ASSUME NEW d \in Deliveries, NEW k \in 1..MaxRows, NEW take \in [Balances -> Nat]
  PROVE  /\ SumFunctionOnSet(Taken(d, k, take), AllocationsFor(d)) = SumFunctionOnSet(take, Balances)
         /\ \A e \in Deliveries \ {d} : SumFunctionOnSet(Taken(d, k, take), AllocationsFor(e)) = 0
         /\ \A b \in Balances : SumFunctionOnSet(Taken(d, k, take), AllocationsOn(b)) = take[b]
<1> DEFINE f == Taken(d, k, take)
           name == [b \in Balances |-> <<d, b, k>>]
<1>1. \A a \in AllocationIds :
        /\ f[a] \in Nat
        /\ ~(DeliveryOf(a) = d /\ a[3] = k) => f[a] = 0
        /\ DeliveryOf(a) = d /\ a[3] = k => f[a] = take[BalanceOf(a)] /\ a = name[BalanceOf(a)]
  <2>1. \A a \in AllocationIds : BalanceOf(a) \in Balances /\ a = <<DeliveryOf(a), BalanceOf(a), a[3]>>
    BY DEF AllocationIds, BalanceOf, DeliveryOf
  <2>2. QED
    BY <2>1 DEF Taken
<1>2. \A b \in Balances : /\ name[b] \in AllocationIds /\ DeliveryOf(name[b]) = d
                          /\ BalanceOf(name[b]) = b /\ name[b][3] = k
  BY DEF AllocationIds, BalanceOf, DeliveryOf
<1>3. \A S \in SUBSET AllocationIds : IsFiniteSet(S)
  BY FiniteNames, FS_Subset
<1> HIDE DEF f, name
<1>4. SumFunctionOnSet(f, AllocationsFor(d)) = SumFunctionOnSet(take, Balances)
  <2> DEFINE T == {name[b] : b \in Balances}
  <2>1. T \in SUBSET AllocationsFor(d) /\ AllocationsFor(d) \in SUBSET AllocationIds
    BY <1>2 DEF AllocationsFor
  <2>2. \A a \in AllocationsFor(d) \ T : f[a] = 0
    <3>1. ASSUME NEW a \in AllocationsFor(d), a \notin T, a[3] = k
          PROVE  FALSE
      <4>1. a = name[BalanceOf(a)] /\ BalanceOf(a) \in Balances
        BY <1>1, <3>1, AllocationIdParts DEF AllocationsFor
      <4>2. QED
        BY <3>1, <4>1
    <3>2. QED
      BY <1>1, <3>1 DEF AllocationsFor
  <2>3. \A a \in AllocationsFor(d) : f[a] \in Int
    BY <1>1 DEF AllocationsFor
  <2>4. \A b \in Balances : take[b] \in Int /\ f[name[b]] = take[b]
    BY <1>1, <1>2
  <2>5. \A b, c \in Balances : name[b] = name[c] => b = c
    BY <1>2, Zenon
  <2>6. SumFunctionOnSet(f, T) = SumFunctionOnSet(take, Balances)
    BY <2>4, <2>5, SumRenamed
  <2> HIDE DEF T
  <2>7. SumFunctionOnSet(f, AllocationsFor(d)) = SumFunctionOnSet(f, T)
    BY <1>3, <2>1, <2>2, <2>3, SumRestricted
  <2>8. QED
    BY <2>6, <2>7
<1>5. ASSUME NEW e \in Deliveries, e # d
      PROVE  SumFunctionOnSet(f, AllocationsFor(e)) = 0
  <2>1. AllocationsFor(e) \in SUBSET AllocationIds /\ \A a \in AllocationsFor(e) : f[a] = 0
    BY <1>1, <1>5 DEF AllocationsFor
  <2>2. QED
    BY <1>3, <2>1, SumZero
<1>6. ASSUME NEW b \in Balances
      PROVE  SumFunctionOnSet(f, AllocationsOn(b)) = take[b]
  <2>1. name[b] \in AllocationsOn(b) /\ AllocationsOn(b) \in SUBSET AllocationIds
    BY <1>2 DEF AllocationsOn
  <2>2. \A a \in AllocationsOn(b) : a # name[b] => f[a] = 0
    BY <1>1, Zenon DEF AllocationsOn
  <2>3. f[name[b]] = take[b] /\ take[b] \in Nat
    BY <1>1, <1>2
  <2>4. \A a \in AllocationsOn(b) : f[a] \in Int
    BY <1>1 DEF AllocationsOn
  <2>5. SumFunctionOnSet(f, AllocationsOn(b)) = f[name[b]] + SumFunctionOnSet(f, AllocationsOn(b) \ {name[b]})
    BY <1>3, <2>1, <2>4, SumRemove
  <2>6. SumFunctionOnSet(f, AllocationsOn(b) \ {name[b]}) = 0
    <3>1. AllocationsOn(b) \ {name[b]} \in SUBSET AllocationIds
      BY <2>1
    <3>2. QED
      BY <1>3, <2>2, <3>1, SumZero
  <2>7. QED
    BY <2>3, <2>5, <2>6
<1>7. QED
  BY <1>4, <1>5, <1>6 DEF f

\* A run adds what it takes to the rows it makes.
LEMMA TakenRows ==
  ASSUME LineInvariant, NEW d \in Deliveries, NEW k \in 1..MaxRows,
         NEW take \in [Balances -> Nat], NEW left \in Nat, Takes(d, k, take, left),
         NEW a \in AllocationIds
  PROVE  /\ Taken(d, k, take)[a] \in Nat
         /\ allocation'[a].allocated = allocation[a].allocated + Taken(d, k, take)[a]
         /\ allocation'[a].picked = allocation[a].picked
         /\ AllocationSound(a)'
<1>1. /\ allocation[a].allocated \in Nat /\ allocation[a].picked \in Nat /\ AllocationSound(a)
      /\ BalanceOf(a) \in Balances
  BY LineFacts, AllocationIdParts
<1> DEFINE new == DeliveryOf(a) = d /\ a[3] = k
           q == take[BalanceOf(a)]
<1>2. /\ new => allocation[a].status = "None"
      /\ allocation'[a] = IF new /\ q > 0 THEN [status |-> "Allocated", allocated |-> q, picked |-> 0]
                          ELSE allocation[a]
  BY Zenon DEF Takes
<1>3. Taken(d, k, take)[a] = IF new THEN q ELSE 0
  BY DEF Taken
<1>4. q \in Nat
  BY <1>1
<1>5. new => allocation[a].allocated = 0 /\ allocation[a].picked = 0
  BY <1>1, <1>2 DEF AllocationSound
<1> HIDE DEF new, q
<1>6. CASE new /\ q > 0
  <2>1. allocation'[a].status = "Allocated" /\ allocation'[a].allocated = q /\ allocation'[a].picked = 0
    BY <1>2, <1>6
  <2>2. QED
    BY <1>3, <1>4, <1>5, <1>6, <2>1 DEF AllocationSound
<1>7. CASE ~(new /\ q > 0)
  <2>1. allocation'[a] = allocation[a]
    BY <1>2, <1>7, Zenon
  <2>2. Taken(d, k, take)[a] = 0
    BY <1>3, <1>4, <1>7
  <2>3. AllocationSound(a)'
    BY <1>1, <2>1, Zenon DEF AllocationSound
  <2>4. QED
    BY <1>1, <2>1, <2>2, <2>3
<1>8. QED
  BY <1>6, <1>7

LEMMA AllocateLine ==
  ASSUME LineInvariant, TypeInvariant', NEW d \in Deliveries, Allocate(d)
  PROVE  LineInvariant'
<1>1. TypeInvariant /\ TypeOK /\ TypeOK'
  BY DEF LineInvariant, TypeInvariant
<1>2. PICK k \in 1..MaxRows, take \in [Balances -> Nat], left \in Nat : Takes(d, k, take, left)
  BY <1>1, AllocateFields
<1> DEFINE taken == Taken(d, k, take)
           f == [x \in AllocationIds |-> allocation[x].allocated]
           g == [x \in AllocationIds |-> allocation'[x].allocated]
           p == [x \in AllocationIds |-> allocation[x].picked]
           q == [x \in AllocationIds |-> allocation'[x].picked]
<1>3. \A a \in AllocationIds :
        /\ taken[a] \in Nat
        /\ allocation'[a].allocated = allocation[a].allocated + taken[a]
        /\ allocation'[a].picked = allocation[a].picked
        /\ AllocationSound(a)'
  BY <1>2, TakenRows
<1>4. \A a \in AllocationIds : allocation[a].allocated \in Nat /\ allocation[a].picked \in Nat
  BY LineFacts
<1>5. \A e \in Deliveries :
        /\ AllocatedOf(AllocationsFor(e)) = SumFunctionOnSet(f, AllocationsFor(e))
        /\ AllocatedOf(AllocationsFor(e))' = SumFunctionOnSet(g, AllocationsFor(e))
        /\ PickedOf(AllocationsFor(e)) = SumFunctionOnSet(p, AllocationsFor(e))
        /\ PickedOf(AllocationsFor(e))' = SumFunctionOnSet(q, AllocationsFor(e))
  BY Zenon DEF AllocatedOf, PickedOf, AllocationsFor
<1>6. \A a \in AllocationIds : /\ f[a] \in Int /\ taken[a] \in Int /\ g[a] = f[a] + taken[a]
                               /\ p[a] = q[a]
  BY <1>3, <1>4
<1>7. \A e \in Deliveries : AllocationsFor(e) \in SUBSET AllocationIds /\ IsFiniteSet(AllocationsFor(e))
  BY FiniteNames, FS_Subset DEF AllocationsFor
<1>8. /\ SumFunctionOnSet(taken, AllocationsFor(d)) = SumFunctionOnSet(take, Balances)
      /\ \A e \in Deliveries \ {d} : SumFunctionOnSet(taken, AllocationsFor(e)) = 0
  BY TakenSums
<1>9. SumFunctionOnSet(take, Balances) \in Nat
  BY SumNat
<1> HIDE DEF taken, f, g, p, q
<1>10. \A e \in Deliveries :
         /\ SumFunctionOnSet(g, AllocationsFor(e)) =
              SumFunctionOnSet(f, AllocationsFor(e)) + SumFunctionOnSet(taken, AllocationsFor(e))
         /\ SumFunctionOnSet(p, AllocationsFor(e)) = SumFunctionOnSet(q, AllocationsFor(e))
  <2> SUFFICES ASSUME NEW e \in Deliveries
               PROVE  /\ SumFunctionOnSet(g, AllocationsFor(e)) =
                           SumFunctionOnSet(f, AllocationsFor(e)) + SumFunctionOnSet(taken, AllocationsFor(e))
                      /\ SumFunctionOnSet(p, AllocationsFor(e)) = SumFunctionOnSet(q, AllocationsFor(e))
    OBVIOUS
  <2> DEFINE S == AllocationsFor(e)
  <2>1. IsFiniteSet(S) /\ \A a \in S : /\ f[a] \in Int /\ taken[a] \in Int /\ g[a] = f[a] + taken[a]
                                       /\ p[a] = q[a]
    BY <1>6, <1>7
  <2> HIDE DEF S
  <2>2. SumFunctionOnSet(g, S) = SumFunctionOnSet(f, S) + SumFunctionOnSet(taken, S)
    BY <2>1, SumPlus
  <2>3. SumFunctionOnSet(p, S) = SumFunctionOnSet(q, S)
    BY <2>1, SumEqual
  <2>4. QED
    BY <2>2, <2>3 DEF S
<1>11. \A e \in Deliveries :
         /\ 0 <= delivery[e].picked /\ delivery[e].picked <= delivery[e].allocated
         /\ delivery[e].allocated <= delivery[e].requested
         /\ delivery[e].allocated = AllocatedOf(AllocationsFor(e))
         /\ delivery[e].picked = PickedOf(AllocationsFor(e))
         /\ delivery[e].requested \in Int /\ delivery[e].allocated \in Int /\ delivery[e].picked \in Int
  <2>1. \A e \in Deliveries : delivery[e] \in DeliveryRow
    BY <1>1 DEF TypeOK
  <2>2. QED
    BY <2>1, DeliveryFields, Zenon DEF LineInvariant, OutboundProgress
<1>12. /\ \A e \in Deliveries \ {d} : delivery'[e] = delivery[e]
       /\ delivery'[d].requested = delivery[d].requested
       /\ delivery'[d].allocated = delivery[d].requested - left
       /\ delivery'[d].picked = delivery[d].picked
       /\ left + SumFunctionOnSet(take, Balances) = delivery[d].requested - delivery[d].allocated
  BY <1>2, Zenon DEF Takes, LineIs
<1>13. ASSUME NEW e \in Deliveries
       PROVE  /\ 0 <= delivery'[e].picked /\ delivery'[e].picked <= delivery'[e].allocated
              /\ delivery'[e].allocated <= delivery'[e].requested
              /\ delivery'[e].allocated = AllocatedOf(AllocationsFor(e))'
              /\ delivery'[e].picked = PickedOf(AllocationsFor(e))'
  <2> DEFINE before == SumFunctionOnSet(f, AllocationsFor(e))
             after == SumFunctionOnSet(g, AllocationsFor(e))
             more == SumFunctionOnSet(taken, AllocationsFor(e))
             total == SumFunctionOnSet(take, Balances)
  <2>1. /\ AllocatedOf(AllocationsFor(e))' = after
        /\ delivery[e].allocated = before /\ before \in Int
        /\ after = before + more
        /\ PickedOf(AllocationsFor(e))' = delivery[e].picked
    BY <1>5, <1>10, <1>11, Zenon
  <2>2. IF e = d THEN more = total ELSE more = 0
    BY <1>8
  <2>3. total \in Nat
    BY <1>9
  <2> HIDE DEF before, after, more, total
  <2>4. CASE e = d
    <3>1. left + total = delivery[e].requested - delivery[e].allocated
      BY <1>12, <2>4 DEF total
    <3>2. /\ delivery'[e].requested = delivery[e].requested
          /\ delivery'[e].allocated = delivery[e].requested - left
          /\ delivery'[e].picked = delivery[e].picked
      BY <1>12, <2>4
    <3> DEFINE requested == delivery[e].requested
               allocated == delivery[e].allocated
               picked == delivery[e].picked
    <3>3. /\ requested \in Int /\ allocated \in Int /\ picked \in Int
          /\ 0 <= picked /\ picked <= allocated /\ allocated <= requested
      BY <1>11
    <3>4. more = total /\ allocated = before
      BY <2>1, <2>2, <2>4
    <3>5. requested - left = after /\ picked <= requested - left /\ requested - left <= requested
      <4>1. left + total = requested - allocated
        BY <3>1
      <4>2. after = before + more
        BY <2>1
      <4> HIDE DEF requested, allocated, picked
      <4>3. QED
        BY <2>3, <3>3, <3>4, <4>1, <4>2
    <3>6. QED
      BY <2>1, <3>2, <3>3, <3>5, Zenon
  <2>5. CASE e # d
    <3>1. delivery'[e] = delivery[e] /\ more = 0
      BY <1>12, <2>2, <2>5, Zenon
    <3>2. after = before
      BY <2>1, <3>1
    <3>3. QED
      BY <1>11, <2>1, <3>1, <3>2, Zenon
  <2>6. QED
    BY <2>4, <2>5
<1>14. OutboundProgress'
  BY <1>13, Zenon DEF OutboundProgress
<1>15. QED
  BY <1>3, <1>14 DEF LineInvariant

\* Nothing but statuses changes on the lines and the allocations.
LEMMA LineFrame ==
  ASSUME LineInvariant, TypeInvariant',
         \A e \in Deliveries : /\ delivery'[e].requested = delivery[e].requested
                               /\ delivery'[e].allocated = delivery[e].allocated
                               /\ delivery'[e].picked = delivery[e].picked,
         \A a \in AllocationIds : /\ allocation'[a].allocated = allocation[a].allocated
                                  /\ allocation'[a].picked = allocation[a].picked
                                  /\ allocation'[a].status \in {allocation[a].status, "Released", "Cancelled"}
  PROVE  LineInvariant'
<1>1. \A a \in AllocationIds : AllocationSound(a)'
  BY ZenonT(40) DEF LineInvariant, AllocationSound
<1>2. ASSUME NEW S \in SUBSET AllocationIds
      PROVE  /\ SumFunctionOnSet([x \in AllocationIds |-> allocation'[x].allocated], S)
                = SumFunctionOnSet([x \in AllocationIds |-> allocation[x].allocated], S)
             /\ SumFunctionOnSet([x \in AllocationIds |-> allocation'[x].picked], S)
                = SumFunctionOnSet([x \in AllocationIds |-> allocation[x].picked], S)
  <2>1. /\ [x \in AllocationIds |-> allocation'[x].allocated] = [x \in AllocationIds |-> allocation[x].allocated]
        /\ [x \in AllocationIds |-> allocation'[x].picked] = [x \in AllocationIds |-> allocation[x].picked]
    OBVIOUS
  <2>2. QED
    BY <2>1, Zenon
<1>3. \A e \in Deliveries : AllocationsFor(e) \in SUBSET AllocationIds
  BY DEF AllocationsFor
<1>4. \A e \in Deliveries : /\ AllocatedOf(AllocationsFor(e))' = AllocatedOf(AllocationsFor(e))
                            /\ PickedOf(AllocationsFor(e))' = PickedOf(AllocationsFor(e))
  BY <1>2, <1>3, Zenon DEF AllocatedOf, PickedOf, AllocationsFor
<1>5. OutboundProgress'
  BY <1>4, Zenon DEF LineInvariant, OutboundProgress
<1>6. QED
  BY <1>1, <1>5 DEF LineInvariant

LEMMA LineStep ==
  ASSUME LineInvariant, ClaimInvariant, [Next]_vars
  PROVE  LineInvariant'
<1>1. TypeInvariant /\ TypeInvariant'
  BY StepTypes DEF LineInvariant
<1>2. CASE UNCHANGED <<delivery, allocation>>
  BY <1>1, <1>2, LineFrame, Zenon
<1>3. ASSUME NEW d \in Deliveries, Allocate(d)
      PROVE  LineInvariant'
  BY <1>1, <1>3, AllocateLine
<1>4. ASSUME NEW d \in Deliveries, CancelDelivery(d)
      PROVE  LineInvariant'
  <2>1. /\ \A e \in Deliveries : /\ delivery'[e].requested = delivery[e].requested
                                 /\ delivery'[e].allocated = delivery[e].allocated
                                 /\ delivery'[e].picked = delivery[e].picked
        /\ \A a \in AllocationIds : /\ allocation'[a].allocated = allocation[a].allocated
                                    /\ allocation'[a].picked = allocation[a].picked
                                    /\ allocation'[a].status \in {allocation[a].status, "Cancelled"}
    BY <1>1, <1>4, CancelFields, Zenon
  <2>2. QED
    BY <1>1, <2>1, LineFrame, Zenon
<1>5. ASSUME NEW u \in Users, ClaimAllocations(u)
      PROVE  LineInvariant'
  <2>1. /\ UNCHANGED delivery
        /\ \A a \in AllocationIds : /\ allocation'[a].allocated = allocation[a].allocated
                                    /\ allocation'[a].picked = allocation[a].picked
                                    /\ allocation'[a].status \in {allocation[a].status, "Released"}
    BY <1>5, ClaimFields, Zenon
  <2>2. QED
    BY <1>1, <2>1, LineFrame, Zenon
<1>6. ASSUME NEW u \in Users, ClaimRefused(u) \/ \E d \in Deliveries : ReadAllocations(u, d)
      PROVE  LineInvariant'
  BY <1>2, <1>6, RequestFrame, Zenon
<1>7. ASSUME NEW t \in TaskIds, Advance(t) \/ CloseShort(t) \/ Reverse(t)
      PROVE  LineInvariant'
  BY <1>1, <1>7, AdvanceLine, CloseShortLine, ReverseLine
<1>8. ASSUME NEW t \in TaskIds, NEW revised \in 1..MaxQuantity, RaiseException(t, revised)
      PROVE  LineInvariant'
  BY <1>1, <1>2, <1>8, RaiseExceptionFields, Zenon
<1>9. QED
  BY <1>1, <1>2, <1>3, <1>4, <1>5, <1>6, <1>7, <1>8, StepCases, Zenon DEF vars

LEMMA LineInit == Init => LineInvariant
<1> SUFFICES ASSUME Init PROVE LineInvariant
  OBVIOUS
<1>1. TypeInvariant
  BY InitTypes
<1>2. \A a \in AllocationIds :
        allocation[a].status = "None" /\ allocation[a].allocated = 0 /\ allocation[a].picked = 0
  BY DEF Init, NoAllocation
<1>3. \A d \in Deliveries : /\ delivery[d].picked = 0 /\ delivery[d].allocated = 0
                            /\ delivery[d].requested \in Nat
  BY DEF Init
<1>4. ASSUME NEW d \in Deliveries
      PROVE  AllocatedOf(AllocationsFor(d)) = 0 /\ PickedOf(AllocationsFor(d)) = 0
  <2> DEFINE S == AllocationsFor(d)
             f == [a \in AllocationIds |-> allocation[a].allocated]
             p == [a \in AllocationIds |-> allocation[a].picked]
  <2>1. S \in SUBSET AllocationIds
    BY DEF AllocationsFor
  <2>2. IsFiniteSet(S) /\ \A a \in S : f[a] = 0 /\ p[a] = 0
    BY <1>2, <2>1, FiniteNames, FS_Subset
  <2> HIDE DEF S, f, p
  <2>3. SumFunctionOnSet(f, S) = 0 /\ SumFunctionOnSet(p, S) = 0
    BY <2>2, SumZero
  <2>4. QED
    BY <2>3 DEF f, p, S, AllocatedOf, PickedOf
<1>5. OutboundProgress
  BY <1>3, <1>4 DEF OutboundProgress
<1>6. QED
  BY <1>1, <1>2, <1>5 DEF LineInvariant, AllocationSound

\* Allocation runs, picks, short picks, reversals and cancellations leave every
\* delivery line adding up: it is picked at most as far as it is allocated,
\* allocated at most as far as it asks, and both numbers are the sums over
\* its allocations.
THEOREM LinesAddUp == Spec => []OutboundProgress
<1>1. Init => LineInvariant
  BY LineInit
<1>2. LineInvariant /\ ClaimInvariant /\ [Next]_vars => LineInvariant'
  BY LineStep
<1>3. LineInvariant => OutboundProgress
  BY DEF LineInvariant
<1>4. QED
  BY <1>1, <1>2, <1>3, ClaimInvariantHolds, PTL DEF Spec

-----------------------------------------------------------------------------
(* What is staged.                                                         *)

StagedFor(d) == SumFunctionOnSet(InStaging, TasksFor(d))

LEMMA StagingType ==
  ASSUME TypeOK, NEW t \in TaskIds
  PROVE  /\ InStaging[t] = IF task[t].reversed THEN 0 ELSE task[t].confirmed
         /\ InStaging[t] \in Nat
<1>1. task[t].confirmed \in Nat
  BY DEF TypeOK, TaskRow
<1>2. QED
  BY <1>1 DEF InStaging

LEMMA TasksOf ==
  ASSUME NEW d \in Deliveries
  PROVE  /\ TasksFor(d) \in SUBSET TaskIds /\ IsFiniteSet(TasksFor(d))
         /\ TasksFor(d)' = TasksFor(d)
<1>1. TasksFor(d) \in SUBSET TaskIds /\ TasksFor(d)' = TasksFor(d)
  BY DEF TasksFor
<1>2. QED
  BY <1>1, FiniteNames, FS_Subset

\* Nothing moves to or from staging.
LEMMA StagedSame ==
  ASSUME StagingInvariant, UNCHANGED staged, \A t \in TaskIds : InStaging'[t] = InStaging[t]
  PROVE  \A d \in Deliveries : staged'[d] = StagedFor(d)'
<1> TAKE d \in Deliveries
<1>1. SumFunctionOnSet(InStaging', TasksFor(d)) = SumFunctionOnSet(InStaging, TasksFor(d))
  BY TasksOf, SumEqual
<1>2. StagedFor(d)' = SumFunctionOnSet(InStaging', TasksFor(d))
  BY TasksOf DEF StagedFor
<1>3. staged[d] = StagedFor(d)
  BY DEF StagingInvariant, StagedFor
<1>4. QED
  BY <1>1, <1>2, <1>3, Zenon DEF StagedFor

\* What one task gains, its delivery gains.
LEMMA StagedFollows ==
  ASSUME StagingInvariant, TypeOK', NEW t \in TaskIds, \A v \in TaskIds \ {t} : task'[v] = task[v],
         NEW m \in Int, InStaging'[t] = InStaging[t] + m,
         LET d == DeliveryOf(AllocationOf(t)) IN Changes(staged, staged', Deliveries, d, staged[d] + m)
  PROVE  \A d \in Deliveries : staged'[d] = StagedFor(d)'
<1> SUFFICES ASSUME NEW d \in Deliveries PROVE staged'[d] = StagedFor(d)'
  OBVIOUS
<1> DEFINE f == InStaging
           g == InStaging'
           S == TasksFor(d)
<1>1. TypeOK
  BY DEF StagingInvariant, TypeInvariant
<1>2. \A v \in TaskIds : f[v] \in Int /\ g[v] \in Int
  <2>1. \A v \in TaskIds : InStaging[v] \in Nat
    BY <1>1, StagingType
  <2>2. \A v \in TaskIds : task'[v].confirmed \in Nat
    BY DEF TypeOK, TaskRow
  <2>3. \A v \in TaskIds : InStaging'[v] \in Nat
    BY <2>2 DEF InStaging
  <2>4. QED
    BY <2>1, <2>3
<1>3. \A v \in TaskIds \ {t} : g[v] = f[v]
  BY DEF InStaging
<1>4. S \in SUBSET TaskIds /\ IsFiniteSet(S) /\ (t \in S <=> d = DeliveryOf(AllocationOf(t)))
  BY TasksOf DEF TasksFor
<1>5. staged[d] = SumFunctionOnSet(f, S) /\ StagedFor(d)' = SumFunctionOnSet(g, S)
  BY TasksOf DEF StagingInvariant, StagedFor
<1>6. IF t \in S THEN staged'[d] = staged[d] + m ELSE staged'[d] = staged[d]
  BY <1>4, Zenon DEF Changes
<1>7. f[t] \in Int /\ g[t] = f[t] + m
  BY <1>2
<1> HIDE DEF f, g, S
<1>8. SumFunctionOnSet(g, S) =
        IF t \in S THEN SumFunctionOnSet(f, S) + (g[t] - f[t]) ELSE SumFunctionOnSet(f, S)
  BY <1>2, <1>3, <1>4, SumOneChange
<1>9. g[t] - f[t] = m
  BY <1>7
<1>10. QED
  BY <1>5, <1>6, <1>8, <1>9, Zenon

\* A step of one task of a delivery that is not cancelled.
LEMMA TaskStaging ==
  ASSUME StagingInvariant, TypeInvariant', NEW t \in TaskIds,
         task[t].status # "None", task'[t].status # "None",
         delivery[DeliveryOf(AllocationOf(t))].docstatus # 2,
         \A v \in TaskIds \ {t} : task'[v] = task[v],
         \A a \in AllocationIds \ {AllocationOf(t)} : allocation'[a] = allocation[a],
         allocation'[AllocationOf(t)].status
           \in {allocation[AllocationOf(t)].status, "Allocated", "Partially Picked", "Picked"},
         \A e \in Deliveries : delivery'[e].docstatus = delivery[e].docstatus,
         \A e \in Deliveries \ {DeliveryOf(AllocationOf(t))} : staged'[e] = staged[e],
         \A e \in Deliveries : staged'[e] = StagedFor(e)'
  PROVE  StagingInvariant'
<1> DEFINE a == AllocationOf(t)
           d == DeliveryOf(a)
<1>1. a \in AllocationIds /\ d \in Deliveries
  BY TaskIdParts, AllocationIdParts
<1>2. allocation[a].status \notin {"None", "Cancelled"}
  BY <1>1, Zenon DEF StagingInvariant
<1>3. ASSUME NEW v \in TaskIds
      PROVE  /\ task'[v].status = "None" => task'[v].confirmed = 0
             /\ task'[v].status # "None" => allocation'[AllocationOf(v)].status # "None"
             /\ Docstatus0(v)' => allocation'[AllocationOf(v)].status # "Cancelled"
  <2>1. CASE AllocationOf(v) = a
    <3>1. allocation'[AllocationOf(v)].status \notin {"None", "Cancelled"}
      BY <1>2, <2>1
    <3>2. task'[v].status = "None" => task'[v].confirmed = 0
      BY ZenonT(40) DEF StagingInvariant
    <3>3. QED
      BY <3>1, <3>2
  <2>2. CASE AllocationOf(v) # a
    <3>1. /\ task'[v] = task[v] /\ allocation'[AllocationOf(v)] = allocation[AllocationOf(v)]
          /\ Docstatus0(v)' = Docstatus0(v)
      BY <2>2, TaskIdParts, Zenon DEF Docstatus0, OpenTask
    <3>2. QED
      BY <3>1, ZenonT(40) DEF StagingInvariant
  <2>3. QED
    BY <2>1, <2>2
<1>4. \A x \in AllocationIds :
        allocation'[x].status = "Cancelled" => delivery'[DeliveryOf(x)].docstatus = 2
  BY <1>2, AllocationIdParts, ZenonT(40) DEF StagingInvariant
<1>5. ASSUME NEW e \in Deliveries, delivery'[e].docstatus = 2
      PROVE  /\ staged'[e] = 0 /\ LiveAllocations(e)' = {}
             /\ \A v \in TaskIds : DeliveryOf(AllocationOf(v)) = e => ~Docstatus0(v)'
  <2>1. e # d /\ delivery[e].docstatus = 2
    BY <1>5
  <2>2. /\ staged[e] = 0 /\ LiveAllocations(e) = {}
        /\ \A v \in TaskIds : DeliveryOf(AllocationOf(v)) = e => ~Docstatus0(v)
    BY <2>1, Zenon DEF StagingInvariant, CancelledHoldsNothing
  <2>3. \A x \in AllocationIds : DeliveryOf(x) = e => allocation'[x] = allocation[x]
    BY <2>1, Zenon
  <2>4. LiveAllocations(e)' = {}
    <3>1. ASSUME NEW x \in AllocationIds, DeliveryOf(x) = e
          PROVE  allocation'[x].status \in {"None", "Cancelled"}
      <4>1. allocation'[x] = allocation[x]
        BY <2>3, <3>1, Zenon
      <4>2. x \notin LiveAllocations(e)
        BY <2>2, Zenon
      <4>3. QED
        BY <3>1, <4>1, <4>2 DEF LiveAllocations
    <3>2. QED
      BY <3>1, Zenon DEF LiveAllocations
  <2>5. \A v \in TaskIds : DeliveryOf(AllocationOf(v)) = e => task'[v] = task[v]
    BY <2>1, Zenon
  <2>6. \A v \in TaskIds : DeliveryOf(AllocationOf(v)) = e => ~Docstatus0(v)'
    BY <2>2, <2>5, Zenon DEF Docstatus0, OpenTask
  <2>7. QED
    BY <2>1, <2>2, <2>4, <2>6, Zenon
<1>6. CancelledHoldsNothing'
  BY <1>5, Zenon DEF CancelledHoldsNothing
<1>7. QED
  BY <1>3, <1>4, <1>6, Zenon DEF StagingInvariant, StagedFor

\* Only a delivery that is not cancelled has tasks that can still move.
LEMMA LiveDelivery ==
  ASSUME StagingInvariant, NEW t \in TaskIds,
         \/ Docstatus0(t)
         \/ staged[DeliveryOf(AllocationOf(t))] # 0
  PROVE  delivery[DeliveryOf(AllocationOf(t))].docstatus # 2
<1>1. DeliveryOf(AllocationOf(t)) \in Deliveries
  BY TaskIdParts, AllocationIdParts
<1>2. QED
  BY <1>1, Zenon DEF StagingInvariant, CancelledHoldsNothing

LEMMA AdvanceStaging ==
  ASSUME StagingInvariant, TypeInvariant', NEW t \in TaskIds, Advance(t)
  PROVE  StagingInvariant'
<1>1. PICK qty \in Nat, key \in LedgerKeys : Confirm(t, qty, key) /\ OpenTask(t)
  BY DEF Advance
<1> DEFINE a == AllocationOf(t)
           d == DeliveryOf(a)
           posted == ToPost(t, qty)
           take == Chargeable(a, posted)
<1>2. /\ TypeInvariant /\ TypeOK /\ TypeOK' /\ a \in AllocationIds /\ d \in Deliveries
      /\ allocation[a] \in AllocationRow /\ delivery[d] \in DeliveryRow
  BY TaskIdParts, AllocationIdParts DEF StagingInvariant, TypeInvariant, TypeOK
<1>3. /\ posted \in Nat /\ take \in Nat
      /\ task'[t].confirmed = task[t].confirmed + posted
      /\ task'[t].reversed = task[t].reversed
      /\ task'[t].status \in {"Confirmed", "Partially Confirmed"}
      /\ \A v \in TaskIds \ {t} : task'[v] = task[v]
      /\ Changes(allocation, allocation', AllocationIds, a, BookPick(allocation[a], take))
      /\ Changes(delivery, delivery', Deliveries, d, BookPickOnLine(delivery[d], take))
      /\ Changes(staged, staged', Deliveries, d, staged[d] + posted)
  BY <1>1, <1>2, ConfirmFields, Zenon
<1> HIDE DEF posted, take
<1>4. BookPick(allocation[a], take).status \in {allocation[a].status, "Partially Picked", "Picked"}
  BY <1>2, <1>3, BookPickFields, Zenon
<1>5. BookPickOnLine(delivery[d], take).docstatus = delivery[d].docstatus
  BY <1>2, <1>3, LineFields, Zenon DEF LineIs
<1>6. Docstatus0(t) /\ ~task[t].reversed /\ task[t].status # "None" /\ task'[t].status # "None"
  BY <1>1, <1>2, <1>3, Zenon DEF OpenTask, Docstatus0, TypeInvariant, TaskSound
<1>7. InStaging'[t] = InStaging[t] + posted
  BY <1>3, <1>6 DEF InStaging
<1>8. posted \in Int
  <2>1. posted \in Nat
    BY <1>3, Zenon
  <2>2. QED
    BY <2>1
<1>9. \A e \in Deliveries : staged'[e] = StagedFor(e)'
  BY <1>2, <1>3, <1>7, <1>8, StagedFollows
<1>10. /\ \A x \in AllocationIds \ {a} : allocation'[x] = allocation[x]
       /\ allocation'[a].status \in {allocation[a].status, "Allocated", "Partially Picked", "Picked"}
  BY <1>3, <1>4, Zenon DEF Changes
<1>11. /\ \A e \in Deliveries : delivery'[e].docstatus = delivery[e].docstatus
       /\ \A e \in Deliveries \ {d} : staged'[e] = staged[e]
  BY <1>3, <1>5, Zenon DEF Changes
<1>12. delivery[d].docstatus # 2
  BY <1>6, LiveDelivery
<1>13. QED
  BY <1>3, <1>6, <1>9, <1>10, <1>11, <1>12, TaskStaging

LEMMA CloseShortStaging ==
  ASSUME StagingInvariant, TypeInvariant', NEW t \in TaskIds, CloseShort(t)
  PROVE  StagingInvariant'
<1> DEFINE a == AllocationOf(t)
           d == DeliveryOf(a)
           shortfall == task[t].planned - task[t].confirmed
           take == Chargeable(a, shortfall)
<1>2. /\ TypeInvariant /\ TypeOK /\ TypeOK' /\ a \in AllocationIds /\ d \in Deliveries
      /\ allocation[a] \in AllocationRow /\ delivery[d] \in DeliveryRow
  BY TaskIdParts, AllocationIdParts DEF StagingInvariant, TypeInvariant, TypeOK
<1>3. /\ Docstatus0(t) /\ take \in Nat
      /\ task'[t].confirmed = task[t].confirmed
      /\ task'[t].reversed = task[t].reversed
      /\ task'[t].status = "Confirmed"
      /\ \A v \in TaskIds \ {t} : task'[v] = task[v]
      /\ Changes(allocation, allocation', AllocationIds, a, ShrinkAllocation(allocation[a], take))
      /\ Changes(delivery, delivery', Deliveries, d, ShrinkLine(delivery[d], take))
      /\ UNCHANGED staged
  BY <1>2, CloseShortFields, Zenon
<1> HIDE DEF take
<1>4. ShrinkAllocation(allocation[a], take).status \in {allocation[a].status, "Picked"}
  BY <1>2, <1>3, ShrinkFields, Zenon
<1>5. ShrinkLine(delivery[d], take).docstatus = delivery[d].docstatus
  BY <1>2, <1>3, LineFields, Zenon DEF LineIs
<1>6. task[t].status # "None" /\ task'[t].status # "None"
  BY <1>3, Zenon DEF OpenTask, Docstatus0
<1>7. \A v \in TaskIds : InStaging'[v] = InStaging[v]
  <2>1. \A v \in TaskIds : task'[v].confirmed = task[v].confirmed /\ task'[v].reversed = task[v].reversed
    BY <1>3, Zenon
  <2>2. QED
    BY <2>1 DEF InStaging
<1>9. \A e \in Deliveries : staged'[e] = StagedFor(e)'
  BY <1>3, <1>7, StagedSame
<1>10. /\ \A x \in AllocationIds \ {a} : allocation'[x] = allocation[x]
       /\ allocation'[a].status \in {allocation[a].status, "Allocated", "Partially Picked", "Picked"}
  BY <1>3, <1>4, Zenon DEF Changes
<1>11. /\ \A e \in Deliveries : delivery'[e].docstatus = delivery[e].docstatus
       /\ \A e \in Deliveries \ {d} : staged'[e] = staged[e]
  BY <1>3, <1>5, Zenon DEF Changes
<1>12. delivery[d].docstatus # 2
  BY <1>3, LiveDelivery
<1>13. QED
  BY <1>3, <1>6, <1>9, <1>10, <1>11, <1>12, TaskStaging

LEMMA RaiseExceptionStaging ==
  ASSUME StagingInvariant, TypeInvariant', NEW t \in TaskIds, NEW revised, RaiseException(t, revised)
  PROVE  StagingInvariant'
<1>1. /\ Docstatus0(t)
      /\ task'[t].confirmed = task[t].confirmed
      /\ task'[t].reversed = task[t].reversed /\ task'[t].status = "Exception"
      /\ \A v \in TaskIds \ {t} : task'[v] = task[v]
      /\ UNCHANGED <<delivery, allocation, staged>>
  BY RaiseExceptionFields, Zenon DEF StagingInvariant
<1>2. task[t].status # "None" /\ task'[t].status # "None"
  BY <1>1, Zenon DEF OpenTask, Docstatus0
<1>3. \A v \in TaskIds : InStaging'[v] = InStaging[v]
  <2>1. \A v \in TaskIds : task'[v].confirmed = task[v].confirmed /\ task'[v].reversed = task[v].reversed
    BY <1>1, Zenon
  <2>2. QED
    BY <2>1 DEF InStaging
<1>4. \A e \in Deliveries : staged'[e] = StagedFor(e)'
  BY <1>1, <1>3, StagedSame
<1>5. delivery[DeliveryOf(AllocationOf(t))].docstatus # 2
  BY <1>1, LiveDelivery
<1>6. /\ \A x \in AllocationIds : allocation'[x] = allocation[x]
      /\ \A e \in Deliveries : delivery'[e].docstatus = delivery[e].docstatus /\ staged'[e] = staged[e]
      /\ allocation'[AllocationOf(t)].status = allocation[AllocationOf(t)].status
  BY <1>1, Zenon
<1>7. QED
  BY <1>1, <1>2, <1>4, <1>5, <1>6, TaskStaging

LEMMA ReverseStaging ==
  ASSUME StagingInvariant, TypeInvariant', NEW t \in TaskIds, Reverse(t)
  PROVE  StagingInvariant'
<1> DEFINE a == AllocationOf(t)
           d == DeliveryOf(a)
           qty == task[t].confirmed
           take == Lesser(qty, allocation[a].picked)
<1>2. /\ TypeInvariant /\ TypeOK /\ TypeOK' /\ a \in AllocationIds /\ d \in Deliveries
      /\ allocation[a] \in AllocationRow /\ delivery[d] \in DeliveryRow
  BY TaskIdParts, AllocationIdParts DEF StagingInvariant, TypeInvariant, TypeOK
<1>3. /\ task[t].status = "Confirmed" /\ ~task[t].reversed /\ qty > 0
      /\ take \in Nat /\ staged[d] >= qty
      /\ task'[t].confirmed = qty /\ task'[t].reversed /\ task'[t].status = "Confirmed"
      /\ \A v \in TaskIds \ {t} : task'[v] = task[v]
      /\ Changes(allocation, allocation', AllocationIds, a, UnwindPick(allocation[a], take))
      /\ Changes(delivery, delivery', Deliveries, d, UnwindLine(delivery[d], take))
      /\ Changes(staged, staged', Deliveries, d, staged[d] - qty)
  BY <1>2, ReverseFields, Zenon
<1> HIDE DEF take
<1>4. UnwindPick(allocation[a], take).status \in {allocation[a].status, "Allocated", "Partially Picked", "Picked"}
  BY <1>2, <1>3, UnwindStatus, Zenon
<1>5. UnwindLine(delivery[d], take).docstatus = delivery[d].docstatus
  BY <1>2, <1>3, LineFields, Zenon DEF LineIs
<1>6. qty \in Nat /\ staged[d] \in Nat
  BY <1>2, TaskFacts
<1>7. InStaging'[t] = InStaging[t] + (-qty)
  <2>1. InStaging'[t] = 0 /\ InStaging[t] = qty
    BY <1>3 DEF InStaging
  <2> HIDE DEF qty
  <2>2. QED
    BY <1>6, <2>1
<1>8. -qty \in Int /\ staged[d] - qty = staged[d] + (-qty) /\ staged[d] # 0
  BY <1>3, <1>6
<1>9. \A e \in Deliveries : staged'[e] = StagedFor(e)'
  <2>1. Changes(staged, staged', Deliveries, d, staged[d] + (-qty))
    BY <1>3, <1>8, Zenon
  <2> HIDE DEF qty
  <2>2. QED
    BY <1>2, <1>3, <1>7, <1>8, <2>1, StagedFollows
<1>10. /\ \A x \in AllocationIds \ {a} : allocation'[x] = allocation[x]
       /\ allocation'[a].status \in {allocation[a].status, "Allocated", "Partially Picked", "Picked"}
  BY <1>3, <1>4, Zenon DEF Changes
<1>11. /\ \A e \in Deliveries : delivery'[e].docstatus = delivery[e].docstatus
       /\ \A e \in Deliveries \ {d} : staged'[e] = staged[e]
  BY <1>3, <1>5, Zenon DEF Changes
<1>12. delivery[d].docstatus # 2
  BY <1>8, LiveDelivery
<1>13. QED
  BY <1>3, <1>9, <1>10, <1>11, <1>12, TaskStaging

\* An allocation run makes rows for a delivery that is not cancelled.
LEMMA AllocateStaging ==
  ASSUME StagingInvariant, TypeInvariant', NEW d \in Deliveries, Allocate(d)
  PROVE  StagingInvariant'
<1>1. TypeInvariant
  BY DEF StagingInvariant
<1>2. PICK k \in 1..MaxRows, take \in [Balances -> Nat], left \in Nat : Takes(d, k, take, left)
  BY <1>1, AllocateFields
<1>3. ASSUME NEW a \in AllocationIds
      PROVE  \/ allocation'[a] = allocation[a]
             \/ allocation'[a].status = "Allocated" /\ DeliveryOf(a) = d
  <2>1. \/ allocation'[a] = allocation[a]
        \/ /\ DeliveryOf(a) = d
           /\ allocation'[a] = [status |-> "Allocated", allocated |-> take[BalanceOf(a)], picked |-> 0]
    BY <1>2, Zenon DEF Takes
  <2>2. QED
    BY <2>1
<1>4. /\ delivery[d].docstatus = 1 /\ UNCHANGED <<task, staged>>
      /\ \A e \in Deliveries : delivery'[e].docstatus = delivery[e].docstatus
  BY <1>2, Zenon DEF Takes, LineIs
<1>5. \A e \in Deliveries : staged'[e] = StagedFor(e)'
  <2>1. \A v \in TaskIds : InStaging'[v] = InStaging[v]
    BY <1>4, Zenon DEF InStaging
  <2>2. QED
    BY <1>4, <2>1, StagedSame
<1>6. ASSUME NEW v \in TaskIds
      PROVE  /\ task'[v].status = "None" => task'[v].confirmed = 0
             /\ task'[v].status # "None" => allocation'[AllocationOf(v)].status # "None"
             /\ Docstatus0(v)' => allocation'[AllocationOf(v)].status # "Cancelled"
  <2>1. AllocationOf(v) \in AllocationIds /\ task'[v] = task[v] /\ Docstatus0(v)' = Docstatus0(v)
    BY <1>4, TaskIdParts, Zenon DEF Docstatus0, OpenTask
  <2>2. allocation'[AllocationOf(v)].status \in {allocation[AllocationOf(v)].status, "Allocated"}
    BY <1>3, <2>1, Zenon
  <2>3. QED
    BY <2>1, <2>2, Zenon DEF StagingInvariant
<1>7. \A a \in AllocationIds :
        allocation'[a].status = "Cancelled" => delivery'[DeliveryOf(a)].docstatus = 2
  BY <1>3, <1>4, AllocationIdParts, Zenon DEF StagingInvariant
<1>8. ASSUME NEW e \in Deliveries, delivery'[e].docstatus = 2
      PROVE  /\ staged'[e] = 0 /\ LiveAllocations(e)' = {}
             /\ \A v \in TaskIds : DeliveryOf(AllocationOf(v)) = e => ~Docstatus0(v)'
  <2>1. e # d /\ delivery[e].docstatus = 2
    BY <1>4, <1>8
  <2>2. /\ staged[e] = 0 /\ LiveAllocations(e) = {}
        /\ \A v \in TaskIds : DeliveryOf(AllocationOf(v)) = e => ~Docstatus0(v)
    BY <2>1, Zenon DEF StagingInvariant, CancelledHoldsNothing
  <2>3. \A x \in AllocationIds : DeliveryOf(x) = e => allocation'[x] = allocation[x]
    BY <1>3, <2>1, Zenon
  <2>4. LiveAllocations(e)' = {}
    BY <2>2, <2>3, Zenon DEF LiveAllocations
  <2>5. \A v \in TaskIds : Docstatus0(v)' = Docstatus0(v)
    BY <1>4, Zenon DEF Docstatus0, OpenTask
  <2>6. QED
    BY <1>4, <2>2, <2>4, <2>5, Zenon
<1>9. QED
  BY <1>5, <1>6, <1>7, <1>8, Zenon DEF StagingInvariant, StagedFor, CancelledHoldsNothing

\* A claim makes tasks for allocations that are reserved.
LEMMA ClaimStaging ==
  ASSUME StagingInvariant, ClaimInvariant, TypeInvariant', NEW u \in Users, ClaimAllocations(u)
  PROVE  StagingInvariant'
<1>1. /\ \A x \in Claimed(u) : x.name \in AllocationIds /\ allocation[x.name].status = "Allocated"
      /\ \A a \in AllocationIds :
           allocation'[a].status = IF \E x \in Claimed(u) : x.name = a
                                     THEN "Released" ELSE allocation[a].status
      /\ UNCHANGED <<delivery, staged>>
  <2>1. UNCHANGED <<delivery, staged>>
    BY Zenon DEF ClaimAllocations
  <2>2. \A x \in Claimed(u) : x.name \in AllocationIds /\ allocation[x.name].status = "Allocated"
    BY ClaimFields
  <2>3. \A a \in AllocationIds :
          allocation'[a].status = IF \E x \in Claimed(u) : x.name = a
                                    THEN "Released" ELSE allocation[a].status
    BY ClaimFields
  <2>4. QED
    BY <2>1, <2>2, <2>3
<1>2. ASSUME NEW t \in TaskIds
      PROVE  \/ task'[t] = task[t]
             \/ \E x \in Claimed(u) : /\ AllocationOf(t) = x.name /\ task[t].status = "None"
                                      /\ task'[t].status = "Open" /\ task'[t].confirmed = 0
  BY ClaimFields, SMTT(30)
<1>3. \A a \in AllocationIds : \/ allocation'[a].status = allocation[a].status
                               \/ allocation[a].status = "Allocated" /\ allocation'[a].status = "Released"
  BY <1>1, Zenon
<1>4. \A e \in Deliveries : staged'[e] = StagedFor(e)'
  <2>1. ASSUME NEW v \in TaskIds
        PROVE  InStaging'[v] = InStaging[v]
    <3>1. CASE task'[v] = task[v]
      BY <3>1, Zenon DEF InStaging
    <3>2. CASE task[v].status = "None" /\ task'[v].confirmed = 0
      <4>1. task[v].confirmed = 0
        BY <3>2, Zenon DEF StagingInvariant
      <4>2. QED
        BY <3>2, <4>1, Zenon DEF InStaging
    <3>3. QED
      BY <1>2, <3>1, <3>2, Zenon
  <2>2. QED
    BY <1>1, <2>1, StagedSame
<1>5. ASSUME NEW v \in TaskIds
      PROVE  /\ task'[v].status = "None" => task'[v].confirmed = 0
             /\ task'[v].status # "None" => allocation'[AllocationOf(v)].status # "None"
             /\ Docstatus0(v)' => allocation'[AllocationOf(v)].status # "Cancelled"
  <2>1. AllocationOf(v) \in AllocationIds
    BY TaskIdParts
  <2>2. CASE task'[v] = task[v]
    <3>1. Docstatus0(v)' = Docstatus0(v)
      BY <2>2, Zenon DEF Docstatus0, OpenTask
    <3>2. QED
      BY <1>3, <2>1, <2>2, <3>1, Zenon DEF StagingInvariant
  <2>3. CASE \E x \in Claimed(u) : /\ AllocationOf(v) = x.name
                                   /\ task'[v].status = "Open" /\ task'[v].confirmed = 0
    <3>1. allocation'[AllocationOf(v)].status = "Released"
      BY <1>1, <2>1, <2>3, Zenon
    <3>2. QED
      BY <2>3, <3>1
  <2>4. QED
    BY <1>2, <2>2, <2>3, Zenon
<1>6. \A a \in AllocationIds :
        allocation'[a].status = "Cancelled" => delivery'[DeliveryOf(a)].docstatus = 2
  BY <1>1, <1>3, ZenonT(40) DEF StagingInvariant
<1>7. ASSUME NEW e \in Deliveries, delivery'[e].docstatus = 2
      PROVE  /\ staged'[e] = 0 /\ LiveAllocations(e)' = {}
             /\ \A v \in TaskIds : DeliveryOf(AllocationOf(v)) = e => ~Docstatus0(v)'
  <2>2. /\ staged[e] = 0 /\ LiveAllocations(e) = {}
        /\ \A v \in TaskIds : DeliveryOf(AllocationOf(v)) = e => ~Docstatus0(v)
    BY <1>1, <1>7, Zenon DEF StagingInvariant, CancelledHoldsNothing
  <2>3. \A x \in AllocationIds : DeliveryOf(x) = e => allocation[x].status \in {"None", "Cancelled"}
    BY <2>2, Zenon DEF LiveAllocations
  <2>4. \A x \in AllocationIds : DeliveryOf(x) = e => allocation'[x].status = allocation[x].status
    BY <1>3, <2>3
  <2>5. LiveAllocations(e)' = {}
    BY <2>3, <2>4, Zenon DEF LiveAllocations
  <2>6. ASSUME NEW v \in TaskIds, DeliveryOf(AllocationOf(v)) = e
        PROVE  task'[v] = task[v]
    <3>1. allocation[AllocationOf(v)].status # "Allocated"
      BY <2>3, <2>6, TaskIdParts
    <3>2. ~\E x \in Claimed(u) : AllocationOf(v) = x.name
      BY <1>1, <3>1
    <3>3. QED
      BY <1>2, <3>2
  <2>7. \A v \in TaskIds : DeliveryOf(AllocationOf(v)) = e => ~Docstatus0(v)'
    BY <2>2, <2>6, Zenon DEF Docstatus0, OpenTask
  <2>8. QED
    BY <1>1, <2>2, <2>5, <2>7, Zenon
<1>8. QED
  BY <1>4, <1>5, <1>6, <1>7, Zenon DEF StagingInvariant, StagedFor, CancelledHoldsNothing

\* A delivery is cancelled when all its picks are reversed: nothing is staged.
LEMMA CancelStaging ==
  ASSUME StagingInvariant, TypeInvariant', NEW d \in Deliveries, CancelDelivery(d)
  PROVE  StagingInvariant'
<1>1. TypeInvariant
  BY DEF StagingInvariant
<1>2. /\ delivery[d].docstatus = 1 /\ UNCHANGED staged
      /\ \A t \in TaskIds :
           /\ AllocationOf(t) \in LiveAllocations(d) => ~BlocksCancel(t)
           /\ task'[t].confirmed = task[t].confirmed /\ task'[t].reversed = task[t].reversed
           /\ task'[t].status = IF AllocationOf(t) \in LiveAllocations(d) /\ Docstatus0(t)
                                  THEN "Cancelled" ELSE task[t].status
      /\ \A a \in AllocationIds :
           allocation'[a].status = IF a \in LiveAllocations(d) THEN "Cancelled" ELSE allocation[a].status
      /\ \A e \in Deliveries : delivery'[e].docstatus = IF e = d THEN 2 ELSE delivery[e].docstatus
  BY <1>1, CancelFields, ZenonT(40)
<1>3. \A a \in AllocationIds : allocation[a].status # "Cancelled" \/ DeliveryOf(a) # d
  BY <1>2 DEF StagingInvariant
<1>4. ASSUME NEW t \in TaskIds, DeliveryOf(AllocationOf(t)) = d
      PROVE  /\ InStaging[t] = 0
             /\ ~Docstatus0(t)'
  <2>1. AllocationOf(t) \in AllocationIds /\ allocation[AllocationOf(t)].status # "Cancelled"
    BY <1>3, <1>4, TaskIdParts
  <2>2. task[t].confirmed \in Nat
    BY <1>1, TaskFacts
  <2>3. CASE task[t].status = "None"
    <3>1. task[t].confirmed = 0 /\ task'[t].status = "None"
      BY <1>2, <2>3, Zenon DEF StagingInvariant, Docstatus0, OpenTask
    <3>2. QED
      BY <3>1, Zenon DEF InStaging, Docstatus0, OpenTask
  <2>4. CASE task[t].status # "None"
    <3>1. AllocationOf(t) \in LiveAllocations(d)
      BY <1>4, <2>1, <2>4, Zenon DEF StagingInvariant, LiveAllocations
    <3>2. task[t].confirmed = 0 \/ task[t].reversed
      <4>1. ~(task[t].confirmed > 0 /\ ~task[t].reversed)
        BY <1>2, <3>1, Zenon DEF BlocksCancel
      <4>2. QED
        BY <2>2, <4>1
    <3>3. task'[t].status = IF Docstatus0(t) THEN "Cancelled" ELSE task[t].status
      BY <1>2, <3>1, Zenon
    <3>4. ~Docstatus0(t)'
      BY <3>3 DEF Docstatus0, OpenTask
    <3>5. QED
      BY <3>2, <3>4, Zenon DEF InStaging
  <2>5. QED
    BY <2>3, <2>4
<1>5. staged[d] = 0
  <2>1. IsFiniteSet(TasksFor(d)) /\ \A t \in TasksFor(d) : InStaging[t] = 0
    BY <1>4, TasksOf DEF TasksFor
  <2>2. SumFunctionOnSet(InStaging, TasksFor(d)) = 0
    BY <2>1, SumZero
  <2>3. QED
    BY <2>2 DEF StagingInvariant
<1>6. \A e \in Deliveries : staged'[e] = StagedFor(e)'
  <2>1. \A v \in TaskIds : InStaging'[v] = InStaging[v]
    BY <1>2, Zenon DEF InStaging
  <2>2. QED
    BY <1>2, <2>1, StagedSame
<1>7. ASSUME NEW v \in TaskIds
      PROVE  /\ task'[v].status = "None" => task'[v].confirmed = 0
             /\ task'[v].status # "None" => allocation'[AllocationOf(v)].status # "None"
             /\ Docstatus0(v)' => allocation'[AllocationOf(v)].status # "Cancelled"
  <2>1. AllocationOf(v) \in AllocationIds
    BY TaskIdParts
  <2>2. /\ task[v].status = "None" => task[v].confirmed = 0
        /\ task[v].status # "None" => allocation[AllocationOf(v)].status # "None"
        /\ Docstatus0(v) => allocation[AllocationOf(v)].status # "Cancelled"
    BY Zenon DEF StagingInvariant
  <2>3. CASE AllocationOf(v) \in LiveAllocations(d)
    <3>1. allocation'[AllocationOf(v)].status = "Cancelled"
      BY <1>2, <2>1, <2>3, Zenon
    <3>2. ~Docstatus0(v)'
      BY <1>4, <2>3, Zenon DEF LiveAllocations
    <3>3. task'[v].status = "None" => task[v].status = "None"
      BY <1>2 DEF Docstatus0, OpenTask
    <3>4. QED
      BY <1>2, <2>2, <3>1, <3>2, <3>3
  <2>4. CASE AllocationOf(v) \notin LiveAllocations(d)
    <3>1. /\ allocation'[AllocationOf(v)].status = allocation[AllocationOf(v)].status
          /\ task'[v].status = task[v].status /\ task'[v].confirmed = task[v].confirmed
      BY <1>2, <2>1, <2>4, Zenon
    <3>2. Docstatus0(v)' => Docstatus0(v)
      BY <3>1, Zenon DEF Docstatus0, OpenTask
    <3>3. QED
      BY <2>2, <3>1, <3>2, Zenon
  <2>5. QED
    BY <2>3, <2>4
<1>8. \A a \in AllocationIds :
        allocation'[a].status = "Cancelled" => delivery'[DeliveryOf(a)].docstatus = 2
  BY <1>2, AllocationIdParts, Zenon DEF StagingInvariant, LiveAllocations
<1>9. ASSUME NEW e \in Deliveries, delivery'[e].docstatus = 2
      PROVE  /\ staged'[e] = 0 /\ LiveAllocations(e)' = {}
             /\ \A v \in TaskIds : DeliveryOf(AllocationOf(v)) = e => ~Docstatus0(v)'
  <2>1. CASE e = d
    <3>1. LiveAllocations(e)' = {}
      <4>1. \A a \in AllocationIds : DeliveryOf(a) = d => allocation'[a].status \in {"None", "Cancelled"}
        BY <1>2, Zenon DEF LiveAllocations
      <4>2. QED
        BY <2>1, <4>1, Zenon DEF LiveAllocations
    <3>2. QED
      BY <1>2, <1>4, <1>5, <2>1, <3>1, Zenon
  <2>2. CASE e # d
    <3>1. delivery[e].docstatus = 2
      BY <1>2, <1>9, <2>2, Zenon
    <3>2. /\ staged[e] = 0 /\ LiveAllocations(e) = {}
          /\ \A v \in TaskIds : DeliveryOf(AllocationOf(v)) = e => ~Docstatus0(v)
      BY <3>1, Zenon DEF StagingInvariant, CancelledHoldsNothing
    <3>3. \A x \in AllocationIds : DeliveryOf(x) = e => allocation'[x].status = allocation[x].status
      BY <1>2, <2>2, Zenon DEF LiveAllocations
    <3>4. LiveAllocations(e)' = {}
      BY <3>2, <3>3, Zenon DEF LiveAllocations
    <3>5. ASSUME NEW v \in TaskIds, DeliveryOf(AllocationOf(v)) = e
          PROVE  ~Docstatus0(v)'
      <4>1. task'[v].status = task[v].status
        BY <1>2, <2>2, <3>5, Zenon DEF LiveAllocations
      <4>2. QED
        BY <3>2, <3>5, <4>1, Zenon DEF Docstatus0, OpenTask
    <3>6. QED
      BY <1>2, <3>2, <3>4, <3>5
  <2>3. QED
    BY <2>1, <2>2
<1>10. QED
  BY <1>6, <1>7, <1>8, <1>9, Zenon DEF StagingInvariant, StagedFor, CancelledHoldsNothing

LEMMA StagingStep ==
  ASSUME StagingInvariant, ClaimInvariant, [Next]_vars
  PROVE  StagingInvariant'
<1>1. TypeInvariant /\ TypeInvariant'
  BY StepTypes DEF StagingInvariant
<1>2. ASSUME UNCHANGED <<delivery, allocation, task, staged>>
      PROVE  StagingInvariant'
  <2>1. /\ \A d \in Deliveries : LiveAllocations(d)' = LiveAllocations(d)
        /\ \A t \in TaskIds : Docstatus0(t)' = Docstatus0(t) /\ InStaging'[t] = InStaging[t]
    BY <1>2, Zenon DEF LiveAllocations, Docstatus0, OpenTask, InStaging
  <2>2. \A d \in Deliveries : staged'[d] = StagedFor(d)'
    BY <1>2, <2>1, StagedSame
  <2>3. CancelledHoldsNothing'
    BY <1>2, <2>1, Zenon DEF StagingInvariant, CancelledHoldsNothing
  <2>4. \A t \in TaskIds :
          /\ task'[t].status = "None" => task'[t].confirmed = 0
          /\ task'[t].status # "None" => allocation'[AllocationOf(t)].status # "None"
          /\ Docstatus0(t)' => allocation'[AllocationOf(t)].status # "Cancelled"
    BY <1>2, <2>1, Zenon DEF StagingInvariant
  <2>5. \A a \in AllocationIds :
          allocation'[a].status = "Cancelled" => delivery'[DeliveryOf(a)].docstatus = 2
    BY <1>2, Zenon DEF StagingInvariant
  <2>6. QED
    BY <1>1, <2>2, <2>3, <2>4, <2>5, Zenon DEF StagingInvariant, StagedFor
<1>3. ASSUME NEW d \in Deliveries, Allocate(d) \/ CancelDelivery(d)
      PROVE  StagingInvariant'
  BY <1>1, <1>3, AllocateStaging, CancelStaging
<1>4. ASSUME NEW u \in Users, ClaimAllocations(u)
      PROVE  StagingInvariant'
  BY <1>1, <1>4, ClaimStaging
<1>5. ASSUME NEW u \in Users, ClaimRefused(u) \/ \E d \in Deliveries : ReadAllocations(u, d)
      PROVE  StagingInvariant'
  BY <1>2, <1>5, RequestFrame, Zenon
<1>6. ASSUME NEW t \in TaskIds, Advance(t) \/ CloseShort(t) \/ Reverse(t)
      PROVE  StagingInvariant'
  BY <1>1, <1>6, AdvanceStaging, CloseShortStaging, ReverseStaging
<1>7. ASSUME NEW t \in TaskIds, NEW revised \in 1..MaxQuantity, RaiseException(t, revised)
      PROVE  StagingInvariant'
  BY <1>1, <1>7, RaiseExceptionStaging
<1>8. QED
  BY <1>1, <1>2, <1>3, <1>4, <1>5, <1>6, <1>7, StepCases, Zenon DEF vars

LEMMA StagingInit == Init => StagingInvariant
<1> SUFFICES ASSUME Init PROVE StagingInvariant
  OBVIOUS
<1>1. TypeInvariant
  BY InitTypes
<1>2. \A t \in TaskIds : /\ task[t].status = "None" /\ task[t].confirmed = 0 /\ ~task[t].reversed
                         /\ ~Docstatus0(t)
  BY DEF Init, NoTask, Docstatus0, OpenTask
<1>3. \A a \in AllocationIds : allocation[a].status = "None"
  BY DEF Init, NoAllocation
<1>4. \A d \in Deliveries : staged[d] = 0 /\ delivery[d].docstatus = 1
  BY DEF Init
<1>5. ASSUME NEW d \in Deliveries PROVE SumFunctionOnSet(InStaging, TasksFor(d)) = 0
  <2>1. \A t \in TasksFor(d) : InStaging[t] = 0
    BY <1>2, TasksOf DEF InStaging
  <2>2. QED
    BY <2>1, TasksOf, SumZero
<1>6. CancelledHoldsNothing
  BY <1>4 DEF CancelledHoldsNothing
<1>7. QED
  BY <1>1, <1>2, <1>3, <1>4, <1>5, <1>6 DEF StagingInvariant

LEMMA StagingHolds == Spec => []StagingInvariant
<1>1. Init => StagingInvariant
  BY StagingInit
<1>2. StagingInvariant /\ ClaimInvariant /\ [Next]_vars => StagingInvariant'
  BY StagingStep
<1>3. QED
  BY <1>1, <1>2, ClaimInvariantHolds, PTL DEF Spec

\* Whatever was picked, reversed or released before: once a delivery is
\* cancelled nothing is staged for it, none of its allocations is live and no
\* task of it can still be confirmed.
THEOREM CancellationIsComplete == Spec => []CancelledHoldsNothing
<1>1. StagingInvariant => CancelledHoldsNothing
  BY DEF StagingInvariant
<1>2. QED
  BY <1>1, StagingHolds, PTL

-----------------------------------------------------------------------------
(* What pickers have still to take.                                        *)

\* No reversal is undone, a task that has no row is not reversed, and one
\* that is cancelled has nothing in staging.
LEMMA ReversalsStay ==
  ASSUME ClaimInvariant,
         \A v \in TaskIds :
           /\ task[v].status = "None" => ~task[v].reversed
           /\ task[v].status = "Cancelled" => task[v].confirmed = 0 \/ task[v].reversed,
         [Next]_vars, NEW t \in TaskIds
  PROVE  /\ task[t].reversed => task'[t].reversed
         /\ task'[t].status = "None" => ~task'[t].reversed
         /\ task'[t].status = "Cancelled" => task'[t].confirmed = 0 \/ task'[t].reversed
<1> DEFINE Goal == /\ task[t].reversed => task'[t].reversed
                   /\ task'[t].status = "None" => ~task'[t].reversed
                   /\ task'[t].status = "Cancelled" => task'[t].confirmed = 0 \/ task'[t].reversed
<1>1. TypeInvariant
  BY DEF ClaimInvariant
<1>2. CASE UNCHANGED task
  BY <1>2, Zenon
<1>3. ASSUME NEW d \in Deliveries, Allocate(d)
      PROVE  Goal
  BY <1>1, <1>2, <1>3, AllocateFields, Zenon DEF Takes
<1>4. ASSUME NEW d \in Deliveries, CancelDelivery(d)
      PROVE  Goal
  <2>1. /\ task'[t].reversed = task[t].reversed /\ task'[t].confirmed = task[t].confirmed
        /\ AllocationOf(t) \in LiveAllocations(d) => ~BlocksCancel(t)
        /\ task'[t].status = IF AllocationOf(t) \in LiveAllocations(d) /\ Docstatus0(t)
                               THEN "Cancelled" ELSE task[t].status
    BY <1>1, <1>4, CancelFields, Zenon
  <2>2. AllocationOf(t) \in LiveAllocations(d) => task[t].confirmed = 0 \/ task[t].reversed
    <3>1. task[t].confirmed \in Nat
      BY <1>1, TaskFacts
    <3>2. QED
      BY <2>1, <3>1 DEF BlocksCancel
  <2>3. QED
    BY <2>1, <2>2
<1>5. ASSUME NEW u \in Users, ClaimAllocations(u)
      PROVE  Goal
  BY <1>5, ClaimEffect, Zenon
<1>6. ASSUME NEW u \in Users, ClaimRefused(u) \/ \E d \in Deliveries : ReadAllocations(u, d)
      PROVE  Goal
  BY <1>2, <1>6, RequestFrame, Zenon
<1>7. ASSUME NEW v \in TaskIds, Advance(v) \/ CloseShort(v) \/ Reverse(v)
      PROVE  Goal
  <2>1. /\ \A x \in TaskIds \ {v} : task'[x] = task[x]
        /\ task'[v].reversed \/ task'[v].reversed = task[v].reversed
        /\ task'[v].status \notin {"None", "Cancelled"}
    <3>1. CASE Advance(v)
      <4>1. PICK qty \in Nat, key \in LedgerKeys : Confirm(v, qty, key)
        BY <3>1 DEF Advance
      <4>2. /\ \A x \in TaskIds \ {v} : task'[x] = task[x]
            /\ task'[v].reversed = task[v].reversed
            /\ task'[v].status \in {"Confirmed", "Partially Confirmed"}
        BY <1>1, <4>1, ConfirmFields, Zenon
      <4>3. QED
        BY <4>2
    <3>2. CASE CloseShort(v) \/ Reverse(v)
      <4>1. /\ \A x \in TaskIds \ {v} : task'[x] = task[x]
            /\ task'[v].reversed \/ task'[v].reversed = task[v].reversed
            /\ task'[v].status = "Confirmed"
        BY <1>1, <3>2, CloseShortFields, ReverseFields, Zenon
      <4>2. QED
        BY <4>1
    <3>3. QED
      BY <1>7, <3>1, <3>2
  <2>2. QED
    BY <2>1, Zenon
<1>8. ASSUME NEW v \in TaskIds, NEW revised \in 1..MaxQuantity, RaiseException(v, revised)
      PROVE  Goal
  <2>1. /\ \A x \in TaskIds \ {v} : task'[x] = task[x]
        /\ task'[v].reversed = task[v].reversed /\ task'[v].status = "Exception"
    BY <1>1, <1>8, RaiseExceptionFields, Zenon
  <2>2. QED
    BY <2>1, Zenon
<1> HIDE DEF Goal
<1>9. Goal
  <2>1. UNCHANGED task => Goal
    BY <1>2, Zenon DEF Goal
  <2>2. QED
    BY <1>1, <1>3, <1>4, <1>5, <1>6, <1>7, <1>8, <2>1, StepCases, Zenon DEF vars
<1>10. QED
  BY <1>9 DEF Goal

\* A pick of a draft task within its plan is booked in full.
LEMMA PickIsBooked ==
  ASSUME ClaimInvariant, PicksAreLive, NEW t \in TaskIds, Docstatus0(t),
         NEW q \in Nat, q <= task[t].planned - task[t].confirmed
  PROVE  Chargeable(AllocationOf(t), q) = q /\ q <= Outstanding(AllocationOf(t))
<1> DEFINE a == AllocationOf(t)
<1>1. TypeInvariant /\ TypeOK /\ a \in AllocationIds
  BY TaskIdParts DEF ClaimInvariant, TypeInvariant
<1>2. task[t].planned - task[t].confirmed <= Outstanding(a)
  BY DEF PicksAreLive
<1>3. /\ task[t].planned - task[t].confirmed \in Nat
      /\ allocation[a].allocated \in Nat /\ allocation[a].picked \in Nat
  BY <1>1, TaskFacts
<1>4. q <= allocation[a].allocated - allocation[a].picked
  BY <1>2, <1>3 DEF Outstanding
<1>5. QED
  BY <1>1, <1>4, ChargeableBounds DEF Outstanding

\* The step of one live task leaves the picks of the others alone.
LEMMA PicksOneTask ==
  ASSUME ClaimInvariant, PicksAreLive, NEW t \in TaskIds, LiveTask(t), TypeInvariant',
         \A v \in TaskIds \ {t} : task'[v] = task[v],
         \A x \in AllocationIds \ {AllocationOf(t)} : allocation'[x] = allocation[x],
         LiveTask(t)' => allocation'[AllocationOf(t)].picked = task'[t].confirmed,
         LiveTask(t)' \/ allocation'[AllocationOf(t)].picked = 0,
         Docstatus0(t)' => task'[t].planned - task'[t].confirmed <= Outstanding(AllocationOf(t))'
  PROVE  PicksAreLive'
<1> DEFINE a == AllocationOf(t)
<1>1. \A v \in TaskIds \ {t} : /\ LiveTask(v)' = LiveTask(v)
                               /\ Docstatus0(v)' = Docstatus0(v)
  BY Zenon DEF LiveTask, Docstatus0, OpenTask
<1>2. \A v \in TaskIds \ {t} : LiveTask(v) => AllocationOf(v) # a
  BY Zenon DEF ClaimInvariant, OnePickTaskPerAllocation
<1>3. \A v \in TaskIds \ {t} : Docstatus0(v) => LiveTask(v)
  BY DraftIsLive DEF ClaimInvariant
<1>4. ASSUME NEW x \in AllocationIds, allocation'[x].picked # 0
      PROVE  \E v \in TaskIds : AllocationOf(v) = x /\ LiveTask(v)'
  <2>1. CASE x = a
    BY <1>4, <2>1, Zenon
  <2>2. CASE x # a
    <3>1. PICK v \in TaskIds : AllocationOf(v) = x /\ LiveTask(v)
      BY <1>4, <2>2, Zenon DEF PicksAreLive
    <3>2. QED
      BY <1>1, <2>2, <3>1, Zenon
  <2>3. QED
    BY <2>1, <2>2
<1>5. ASSUME NEW v \in TaskIds, LiveTask(v)'
      PROVE  allocation'[AllocationOf(v)].picked = task'[v].confirmed
  <2>1. CASE v = t
    BY <1>5, <2>1, Zenon
  <2>2. CASE v # t
    BY <1>1, <1>2, <1>5, <2>2, TaskIdParts, Zenon DEF PicksAreLive
  <2>3. QED
    BY <2>1, <2>2
<1>6. ASSUME NEW v \in TaskIds, Docstatus0(v)'
      PROVE  task'[v].planned - task'[v].confirmed <= Outstanding(AllocationOf(v))'
  <2>1. CASE v = t
    BY <1>6, <2>1, Zenon
  <2>2. CASE v # t
    <3>1. Docstatus0(v) /\ AllocationOf(v) # a /\ task'[v] = task[v]
      BY <1>1, <1>2, <1>3, <1>6, <2>2, Zenon
    <3>2. allocation'[AllocationOf(v)] = allocation[AllocationOf(v)]
      BY <3>1, TaskIdParts, Zenon
    <3>3. task[v].planned - task[v].confirmed <= Outstanding(AllocationOf(v))
      BY <3>1, Zenon DEF PicksAreLive
    <3>4. QED
      BY <3>1, <3>2, <3>3, Zenon DEF Outstanding
  <2>3. QED
    BY <2>1, <2>2
<1>7. QED
  BY <1>4, <1>5, <1>6, Zenon DEF PicksAreLive

LEMMA ReadParts ==
  ASSUME TypeOK, NEW u \in Users, NEW x \in snapshot[u]
  PROVE  x.name \in AllocationIds /\ x.row \in AllocationRow
<1>1. x \in ReadRow
  BY DEF TypeOK
<1>2. QED
  BY <1>1, Zenon DEF ReadRow

\* Nor does it touch an allocation that can still be claimed.
LEMMA ReadsOneTask ==
  ASSUME ClaimInvariant, ReadsAreFresh, NEW t \in TaskIds, LiveTask(t), UNCHANGED snapshot,
         \A x \in AllocationIds \ {AllocationOf(t)} : allocation'[x] = allocation[x],
         allocation'[AllocationOf(t)].status
           \in {allocation[AllocationOf(t)].status, "Picked", "Partially Picked"}
  PROVE  ReadsAreFresh'
<1> DEFINE a == AllocationOf(t)
<1>1. allocation[a].status \notin {"None", "Allocated"}
  BY DEF ClaimInvariant, ClaimSound
<1>2. allocation'[a].status \notin {"None", "Allocated"}
  BY <1>1
<1>3. ASSUME NEW u \in Users, NEW x \in snapshot[u]
      PROVE  /\ allocation'[x.name].status # "None"
             /\ allocation'[x.name].status = "Allocated" => x.row = allocation'[x.name]
  <2>1. x.name \in AllocationIds
    BY ReadParts DEF ClaimInvariant, TypeInvariant
  <2>2. CASE x.name = a
    BY <1>2, <2>2, Zenon
  <2>3. CASE x.name # a
    BY <2>1, <2>3, Zenon DEF ReadsAreFresh
  <2>4. QED
    BY <2>2, <2>3
<1>4. QED
  BY <1>3, Zenon DEF ReadsAreFresh

LEMMA AdvancePicks ==
  ASSUME ClaimInvariant, TypeInvariant', NEW t \in TaskIds, Advance(t)
  PROVE  /\ PicksAreLive => PicksAreLive'
         /\ ReadsAreFresh => ReadsAreFresh'
<1>1. PICK qty \in Nat, key \in LedgerKeys : Confirm(t, qty, key) /\ OpenTask(t)
  BY DEF Advance
<1> DEFINE a == AllocationOf(t)
           posted == ToPost(t, qty)
           take == Chargeable(a, posted)
           row == BookPick(allocation[a], take)
<1>2. /\ TypeInvariant /\ a \in AllocationIds /\ Docstatus0(t) /\ LiveTask(t)
      /\ allocation[a] \in AllocationRow /\ ~task[t].reversed
  <2>1. TypeInvariant /\ a \in AllocationIds /\ Docstatus0(t)
    BY <1>1, TaskIdParts DEF ClaimInvariant, Docstatus0
  <2>2. QED
    BY <2>1, DraftIsLive, TaskFacts, Zenon DEF LiveTask
<1>3. /\ posted \in Nat /\ take \in Nat /\ posted <= task[t].planned - task[t].confirmed
      /\ task'[t].planned = task[t].planned
      /\ task'[t].confirmed = task[t].confirmed + posted
      /\ \A v \in TaskIds \ {t} : task'[v] = task[v]
      /\ task'[t].reversed = task[t].reversed
      /\ task'[t].status \in {"Confirmed", "Partially Confirmed"}
      /\ Changes(allocation, allocation', AllocationIds, a, row)
      /\ UNCHANGED snapshot
  BY <1>1, <1>2, ConfirmFields, Zenon
<1>4. /\ allocation'[a] = row
      /\ \A x \in AllocationIds \ {a} : allocation'[x] = allocation[x]
  BY <1>3, Zenon DEF Changes
<1> HIDE DEF posted, take
<1>5. /\ row.allocated = allocation[a].allocated /\ row.picked = allocation[a].picked + take
      /\ row.status \in {allocation[a].status, "Picked", "Partially Picked"}
  BY <1>2, <1>3, BookPickFields, Zenon
<1> HIDE DEF row
<1>6. ReadsAreFresh => ReadsAreFresh'
  BY <1>2, <1>3, <1>4, <1>5, ReadsOneTask
<1>7. ASSUME PicksAreLive
      PROVE  PicksAreLive'
  <2>1. take = posted
    BY <1>2, <1>3, <1>7, PickIsBooked DEF take
  <2>2. allocation[a].picked = task[t].confirmed
    BY <1>2, <1>7, Zenon DEF PicksAreLive
  <2>3. allocation'[a].picked = task'[t].confirmed
    BY <1>3, <1>4, <1>5, <2>1, <2>2, Zenon
  <2>4. LiveTask(t)'
    BY <1>2, <1>3, Zenon DEF LiveTask
  <2>5. task'[t].planned - task'[t].confirmed <= Outstanding(a)'
    <3> DEFINE planned == task[t].planned
               confirmed == task[t].confirmed
               allocated == allocation[a].allocated
               picked == allocation[a].picked
    <3>1. planned \in Nat /\ confirmed \in Nat /\ allocated \in Nat /\ picked \in Nat
      BY <1>2, TaskFacts
    <3>2. planned - confirmed <= allocated - picked
      BY <1>2, <1>7, Zenon DEF PicksAreLive, Outstanding
    <3>3. /\ task'[t].planned - task'[t].confirmed = planned - (confirmed + posted)
          /\ Outstanding(a)' = allocated - (picked + posted)
      BY <1>3, <1>4, <1>5, <2>1, Zenon DEF Outstanding
    <3> HIDE DEF planned, confirmed, allocated, picked
    <3>4. planned - (confirmed + posted) <= allocated - (picked + posted)
      <4>1. posted \in Nat
        BY <1>3, Zenon
      <4>2. QED
        BY <3>1, <3>2, <4>1
    <3>5. QED
      BY <3>3, <3>4
  <2>6. QED
    BY <1>2, <1>3, <1>4, <1>7, <2>3, <2>4, <2>5, PicksOneTask
<1>8. QED
  BY <1>6, <1>7

LEMMA CloseShortPicks ==
  ASSUME ClaimInvariant, TypeInvariant', NEW t \in TaskIds, CloseShort(t)
  PROVE  /\ PicksAreLive => PicksAreLive'
         /\ ReadsAreFresh => ReadsAreFresh'
<1> DEFINE a == AllocationOf(t)
           shortfall == task[t].planned - task[t].confirmed
           take == Chargeable(a, shortfall)
           row == ShrinkAllocation(allocation[a], take)
<1>1. TypeInvariant /\ a \in AllocationIds /\ allocation[a] \in AllocationRow
  BY TaskIdParts, TaskFacts DEF ClaimInvariant
<1>2. /\ Docstatus0(t) /\ take \in Nat
      /\ task'[t].confirmed = task[t].confirmed
      /\ \A v \in TaskIds \ {t} : task'[v] = task[v]
      /\ task'[t].reversed = task[t].reversed /\ task'[t].status = "Confirmed"
      /\ Changes(allocation, allocation', AllocationIds, a, row)
      /\ UNCHANGED snapshot
  <2>1. UNCHANGED snapshot
    BY Zenon DEF CloseShort
  <2>2. QED
    BY <1>1, <2>1, CloseShortFields, Zenon
<1>3. LiveTask(t)
  BY <1>1, <1>2, DraftIsLive
<1>4. /\ allocation'[a] = row
      /\ \A x \in AllocationIds \ {a} : allocation'[x] = allocation[x]
  BY <1>2, Zenon DEF Changes
<1> HIDE DEF take
<1>5. row.picked = allocation[a].picked /\ row.status \in {allocation[a].status, "Picked"}
  BY <1>1, <1>2, ShrinkFields, Zenon
<1> HIDE DEF row
<1>6. ReadsAreFresh => ReadsAreFresh'
  BY <1>2, <1>3, <1>4, <1>5, ReadsOneTask
<1>7. ASSUME PicksAreLive
      PROVE  PicksAreLive'
  <2>1. allocation'[a].picked = task'[t].confirmed
    BY <1>2, <1>3, <1>4, <1>5, <1>7, Zenon DEF PicksAreLive
  <2>2. LiveTask(t)' /\ ~Docstatus0(t)'
    BY <1>2, <1>3, Zenon DEF LiveTask, Docstatus0, OpenTask
  <2>3. QED
    BY <1>2, <1>3, <1>4, <1>7, <2>1, <2>2, PicksOneTask
<1>8. QED
  BY <1>6, <1>7

LEMMA RaiseExceptionPicks ==
  ASSUME ClaimInvariant, TypeInvariant', NEW t \in TaskIds, NEW revised, RaiseException(t, revised)
  PROVE  /\ PicksAreLive => PicksAreLive'
         /\ ReadsAreFresh => ReadsAreFresh'
<1> DEFINE a == AllocationOf(t)
<1>1. TypeInvariant /\ a \in AllocationIds
  BY TaskIdParts DEF ClaimInvariant
<1>2. /\ Docstatus0(t) /\ revised \in Nat /\ revised <= task[t].planned
      /\ task'[t].planned = revised /\ task'[t].confirmed = task[t].confirmed
      /\ task'[t].reversed = task[t].reversed /\ task'[t].status = "Exception"
      /\ \A v \in TaskIds \ {t} : task'[v] = task[v]
      /\ UNCHANGED <<allocation, snapshot>>
  BY <1>1, RaiseExceptionFields, Zenon
<1>3. LiveTask(t) /\ LiveTask(t)'
  BY <1>1, <1>2, DraftIsLive, Zenon DEF LiveTask
<1>4. ReadsAreFresh => ReadsAreFresh'
  BY <1>2, Zenon DEF ReadsAreFresh
<1>5. ASSUME PicksAreLive
      PROVE  PicksAreLive'
  <2>1. allocation'[a].picked = task'[t].confirmed
    BY <1>2, <1>3, <1>5, Zenon DEF PicksAreLive
  <2>2. task'[t].planned - task'[t].confirmed <= Outstanding(a)'
    <3>1. task[t].planned - task[t].confirmed <= Outstanding(a)
      BY <1>2, <1>5, Zenon DEF PicksAreLive
    <3>2. /\ task[t].planned \in Nat /\ task[t].confirmed \in Nat
          /\ allocation[a].allocated \in Nat /\ allocation[a].picked \in Nat
      BY <1>1, TaskFacts
    <3>3. Outstanding(a)' = Outstanding(a) /\ Outstanding(a) \in Int
      BY <1>2, <3>2 DEF Outstanding
    <3>4. task'[t].planned - task'[t].confirmed = revised - task[t].confirmed
      BY <1>2, Zenon
    <3>5. revised - task[t].confirmed <= task[t].planned - task[t].confirmed
      BY <1>2, <3>2
    <3>6. QED
      BY <1>2, <3>1, <3>2, <3>3, <3>4, <3>5
  <2>3. \A x \in AllocationIds : allocation'[x] = allocation[x]
    BY <1>2, Zenon
  <2>4. QED
    BY <1>2, <1>3, <1>5, <2>1, <2>2, <2>3, PicksOneTask
<1>6. QED
  BY <1>4, <1>5

\* A reversal takes back all the picks of its allocation.
LEMMA ReversePicks ==
  ASSUME ClaimInvariant, TypeInvariant', NEW t \in TaskIds, Reverse(t)
  PROVE  PicksAreLive => PicksAreLive'
<1> SUFFICES ASSUME PicksAreLive PROVE PicksAreLive'
  OBVIOUS
<1> DEFINE a == AllocationOf(t)
           qty == task[t].confirmed
           take == Lesser(qty, allocation[a].picked)
           row == UnwindPick(allocation[a], take)
<1>1. TypeInvariant /\ a \in AllocationIds /\ allocation[a] \in AllocationRow
  BY TaskIdParts, TaskFacts DEF ClaimInvariant
<1>2. /\ task[t].status = "Confirmed" /\ ~task[t].reversed
      /\ take \in Nat /\ \A v \in TaskIds \ {t} : task'[v] = task[v]
      /\ task'[t].reversed /\ task'[t].status = "Confirmed"
      /\ Changes(allocation, allocation', AllocationIds, a, row)
  BY <1>1, ReverseFields, Zenon
<1>3. LiveTask(t) /\ ~LiveTask(t)' /\ ~Docstatus0(t)'
  BY <1>2, Zenon DEF LiveTask, Docstatus0, OpenTask
<1>4. /\ allocation'[a] = row
      /\ \A x \in AllocationIds \ {a} : allocation'[x] = allocation[x]
  BY <1>2, Zenon DEF Changes
<1>5. allocation[a].picked = qty /\ qty \in Nat
  BY <1>1, <1>3, TaskFacts, Zenon DEF PicksAreLive
<1>6. take = qty
  BY <1>5 DEF Lesser
<1>7. row.picked = allocation[a].picked - take
  <2> HIDE DEF take
  <2>1. take \in Nat
    BY <1>2, Zenon
  <2>2. QED
    BY <1>1, <2>1, UnwindFields, Zenon
<1> HIDE DEF row, take
<1>8. allocation'[a].picked = 0
  BY <1>4, <1>5, <1>6, <1>7
<1>9. QED
  BY <1>2, <1>3, <1>4, <1>8, PicksOneTask

\* An allocation run only touches rows that no task and no reader knows.
LEMMA AllocatePicks ==
  ASSUME ClaimInvariant, LineInvariant, TypeInvariant', NEW d \in Deliveries, Allocate(d)
  PROVE  /\ PicksAreLive => PicksAreLive'
         /\ ReadsAreFresh => ReadsAreFresh'
<1>1. TypeInvariant
  BY DEF ClaimInvariant
<1>2. PICK k \in 1..MaxRows, take \in [Balances -> Nat], left \in Nat : Takes(d, k, take, left)
  BY <1>1, AllocateFields
<1>3. UNCHANGED <<task, snapshot>>
  BY <1>2, Zenon DEF Takes
<1>4. ASSUME NEW a \in AllocationIds
      PROVE  /\ allocation[a].status # "None" => allocation'[a] = allocation[a]
             /\ allocation'[a].picked = allocation[a].picked
  <2>1. allocation[a].status # "None" => allocation'[a] = allocation[a]
    BY <1>2, Zenon DEF Takes
  <2>2. QED
    BY <1>2, <2>1, TakenRows
<1>5. \A t \in TaskIds : /\ task'[t] = task[t] /\ LiveTask(t)' = LiveTask(t)
                         /\ Docstatus0(t)' = Docstatus0(t)
  BY <1>3, Zenon DEF LiveTask, Docstatus0, OpenTask
<1>6. ASSUME NEW t \in TaskIds, LiveTask(t)
      PROVE  allocation'[AllocationOf(t)] = allocation[AllocationOf(t)]
  BY <1>4, <1>6, TaskIdParts, Zenon DEF ClaimInvariant, ClaimSound
<1>7. PicksAreLive => PicksAreLive'
  <2> SUFFICES ASSUME PicksAreLive PROVE PicksAreLive'
    OBVIOUS
  <2>1. \A a \in AllocationIds :
          allocation'[a].picked # 0 => \E t \in TaskIds : AllocationOf(t) = a /\ LiveTask(t)'
    BY <1>4, <1>5, Zenon DEF PicksAreLive
  <2>2. \A t \in TaskIds : LiveTask(t)' => allocation'[AllocationOf(t)].picked = task'[t].confirmed
    BY <1>5, <1>6, Zenon DEF PicksAreLive
  <2>3. ASSUME NEW t \in TaskIds, Docstatus0(t)'
        PROVE  task'[t].planned - task'[t].confirmed <= Outstanding(AllocationOf(t))'
    <3>1. Docstatus0(t) /\ LiveTask(t)
      BY <1>1, <1>5, <2>3, DraftIsLive
    <3>2. Outstanding(AllocationOf(t))' = Outstanding(AllocationOf(t))
      BY <1>6, <3>1, Zenon DEF Outstanding
    <3>3. QED
      BY <1>5, <3>1, <3>2, Zenon DEF PicksAreLive
  <2>4. QED
    BY <2>1, <2>2, <2>3, Zenon DEF PicksAreLive
<1>8. ReadsAreFresh => ReadsAreFresh'
  <2> SUFFICES ASSUME ReadsAreFresh, NEW u \in Users, NEW x \in snapshot[u]
               PROVE  /\ allocation'[x.name].status # "None"
                      /\ allocation'[x.name].status = "Allocated" => x.row = allocation'[x.name]
    BY <1>3, Zenon DEF ReadsAreFresh
  <2>1. x.name \in AllocationIds
    BY <1>1, ReadParts DEF TypeInvariant
  <2>2. allocation'[x.name] = allocation[x.name]
    BY <1>4, <2>1, Zenon DEF ReadsAreFresh
  <2>3. QED
    BY <2>2, Zenon DEF ReadsAreFresh
<1>9. QED
  BY <1>7, <1>8

\* A claimed allocation is not picked yet, and its task plans what it reserves.
LEMMA ClaimPicks ==
  ASSUME ClaimInvariant, TypeInvariant', NEW u \in Users, ClaimAllocations(u)
  PROVE  /\ (SnapshotIsolation \/ ReadsAreFresh) /\ PicksAreLive => PicksAreLive'
         /\ ReadsAreFresh => ReadsAreFresh'
<1>1. TypeInvariant /\ TypeOK
  BY DEF ClaimInvariant, TypeInvariant
<1>2. ASSUME NEW a \in AllocationIds
      PROVE  /\ allocation'[a].allocated = allocation[a].allocated
             /\ allocation'[a].picked = allocation[a].picked
             /\ Outstanding(a)' = Outstanding(a)
  BY ClaimFields, Zenon DEF Outstanding
<1>3. ASSUME NEW t \in TaskIds
      PROVE  \/ task'[t] = task[t]
             \/ \E x \in Claimed(u) :
                  /\ x \in snapshot[u] /\ allocation[x.name].status = "Allocated"
                  /\ SnapshotIsolation => allocation[x.name] = x.row
                  /\ AllocationOf(t) = x.name /\ task[t].status = "None"
                  /\ task'[t].status = "Open" /\ task'[t].confirmed = 0 /\ ~task'[t].reversed
                  /\ task'[t].planned = x.row.allocated
  <2>1. CASE task'[t] # task[t]
    <3>1. PICK x \in Claimed(u) :
            /\ AllocationOf(t) = x.name /\ task[t].status = "None"
            /\ task'[t].status = "Open" /\ task'[t].confirmed = 0 /\ ~task'[t].reversed
            /\ task'[t].planned = x.row.allocated
      BY <2>1, ClaimFields
    <3>2. /\ x \in snapshot[u] /\ allocation[x.name].status = "Allocated"
          /\ SnapshotIsolation => allocation[x.name] = x.row
      BY ClaimFields
    <3>3. QED
      BY <3>1, <3>2
  <2>2. QED
    BY <2>1
<1>4. ASSUME PicksAreLive, SnapshotIsolation \/ ReadsAreFresh
      PROVE  PicksAreLive'
  <2>1. \A t \in TaskIds : LiveTask(t) => LiveTask(t)'
    BY <1>3, Zenon DEF LiveTask
  <2>2. \A a \in AllocationIds :
          allocation'[a].picked # 0 => \E t \in TaskIds : AllocationOf(t) = a /\ LiveTask(t)'
    BY <1>2, <1>4, <2>1, Zenon DEF PicksAreLive
  <2>3. ASSUME NEW t \in TaskIds
        PROVE  /\ LiveTask(t)' => allocation'[AllocationOf(t)].picked = task'[t].confirmed
               /\ Docstatus0(t)' =>
                    task'[t].planned - task'[t].confirmed <= Outstanding(AllocationOf(t))'
    <3> DEFINE a == AllocationOf(t)
    <3>1. a \in AllocationIds /\ allocation[a].allocated \in Nat
      BY <1>1, TaskIdParts, TaskFacts
    <3>2. CASE task'[t] = task[t]
      <4>1. (LiveTask(t)' => LiveTask(t)) /\ (Docstatus0(t)' => Docstatus0(t))
        BY <3>2, Zenon DEF LiveTask, Docstatus0, OpenTask
      <4>2. QED
        BY <1>2, <1>4, <3>1, <3>2, <4>1, Zenon DEF PicksAreLive
    <3>3. CASE task'[t] # task[t]
      <4>1. PICK x \in Claimed(u) :
              /\ x \in snapshot[u] /\ allocation[x.name].status = "Allocated"
              /\ SnapshotIsolation => allocation[x.name] = x.row
              /\ a = x.name /\ task'[t].confirmed = 0 /\ task'[t].planned = x.row.allocated
        BY <1>3, <3>3, Zenon
      <4>2. \A v \in TaskIds : AllocationOf(v) = a => ~LiveTask(v)
        BY <4>1, Zenon DEF ClaimInvariant, ClaimSound
      <4>3. allocation[a].picked = 0
        BY <1>4, <3>1, <4>2, Zenon DEF PicksAreLive
      <4>4. allocation[a] = x.row
        BY <1>4, <4>1, Zenon DEF ReadsAreFresh
      <4>5. task'[t].planned - task'[t].confirmed = allocation[a].allocated - 0
        BY <4>1, <4>4, Zenon
      <4>6. Outstanding(a)' = allocation[a].allocated - 0
        BY <1>2, <3>1, <4>3, Zenon DEF Outstanding
      <4>7. allocation[a].allocated - 0 <= allocation[a].allocated - 0
        BY <3>1
      <4>8. QED
        BY <1>2, <3>1, <4>1, <4>3, <4>5, <4>6, <4>7, Zenon
    <3>4. QED
      BY <3>2, <3>3
  <2>4. QED
    BY <2>2, <2>3, Zenon DEF PicksAreLive
<1>5. ReadsAreFresh => ReadsAreFresh'
  <2> SUFFICES ASSUME ReadsAreFresh, NEW w \in Users, NEW x \in snapshot'[w]
               PROVE  /\ allocation'[x.name].status # "None"
                      /\ allocation'[x.name].status = "Allocated" => x.row = allocation'[x.name]
    BY Zenon DEF ReadsAreFresh
  <2>1. x \in snapshot[w]
    BY ClaimFields
  <2>2. x.name \in AllocationIds
    BY <1>1, <2>1, ReadParts
  <2>3. allocation'[x.name] = IF \E y \in Claimed(u) : y.name = x.name
                                THEN [allocation[x.name] EXCEPT !.status = "Released"]
                                ELSE allocation[x.name]
    BY <2>2, Zenon DEF ClaimAllocations
  <2>4. CASE \E y \in Claimed(u) : y.name = x.name
    <3>1. allocation'[x.name].status = "Released"
      BY <2>2, <2>4, ClaimFields
    <3>2. QED
      BY <3>1
  <2>5. CASE ~\E y \in Claimed(u) : y.name = x.name
    BY <2>1, <2>3, <2>5, Zenon DEF ReadsAreFresh
  <2>6. QED
    BY <2>4, <2>5
<1>6. QED
  BY <1>4, <1>5

\* Cancelling a delivery cancels no task that has picked anything.
LEMMA CancelPicks ==
  ASSUME ClaimInvariant, TypeInvariant', NEW d \in Deliveries, CancelDelivery(d)
  PROVE  /\ PicksAreLive => PicksAreLive'
         /\ ReadsAreFresh => ReadsAreFresh'
<1>1. TypeInvariant /\ TypeOK
  BY DEF ClaimInvariant, TypeInvariant
<1>2. /\ \A t \in TaskIds :
           /\ AllocationOf(t) \in LiveAllocations(d) => ~BlocksCancel(t)
           /\ task'[t].planned = task[t].planned /\ task'[t].confirmed = task[t].confirmed
           /\ task'[t].reversed = task[t].reversed
           /\ task'[t].status = IF AllocationOf(t) \in LiveAllocations(d) /\ Docstatus0(t)
                                  THEN "Cancelled" ELSE task[t].status
      /\ \A a \in AllocationIds :
           /\ allocation'[a].allocated = allocation[a].allocated
           /\ allocation'[a].picked = allocation[a].picked
           /\ allocation'[a].status = IF a \in LiveAllocations(d) THEN "Cancelled" ELSE allocation[a].status
  BY <1>1, CancelFields, Zenon
<1>3. \A a \in AllocationIds : Outstanding(a)' = Outstanding(a)
  BY <1>2, Zenon DEF Outstanding
<1>4. ASSUME NEW t \in TaskIds
      PROVE  /\ LiveTask(t)' => LiveTask(t)
             /\ Docstatus0(t)' => Docstatus0(t)
  BY <1>2, Zenon DEF LiveTask, Docstatus0, OpenTask
<1>5. ASSUME PicksAreLive
      PROVE  PicksAreLive'
  <2>1. ASSUME NEW a \in AllocationIds, allocation'[a].picked # 0
        PROVE  \E t \in TaskIds : AllocationOf(t) = a /\ LiveTask(t)'
    <3>1. PICK t \in TaskIds : AllocationOf(t) = a /\ LiveTask(t)
      BY <1>2, <1>5, <2>1, Zenon DEF PicksAreLive
    <3>2. task[t].confirmed # 0 /\ task[t].confirmed \in Nat
      BY <1>1, <1>2, <1>5, <2>1, <3>1, TaskFacts, Zenon DEF PicksAreLive
    <3>3. BlocksCancel(t)
      BY <3>1, <3>2 DEF BlocksCancel, LiveTask
    <3>4. task'[t].status = task[t].status
      BY <1>2, <3>3, Zenon
    <3>5. LiveTask(t)'
      BY <1>2, <3>1, <3>4, Zenon DEF LiveTask
    <3>6. QED
      BY <3>1, <3>5
  <2>2. \A t \in TaskIds : LiveTask(t)' => allocation'[AllocationOf(t)].picked = task'[t].confirmed
    BY <1>2, <1>4, <1>5, TaskIdParts, Zenon DEF PicksAreLive
  <2>3. \A t \in TaskIds : Docstatus0(t)' =>
          task'[t].planned - task'[t].confirmed <= Outstanding(AllocationOf(t))'
    BY <1>2, <1>3, <1>4, <1>5, TaskIdParts, Zenon DEF PicksAreLive
  <2>4. QED
    BY <2>1, <2>2, <2>3, Zenon DEF PicksAreLive
<1>6. ReadsAreFresh => ReadsAreFresh'
  <2> SUFFICES ASSUME ReadsAreFresh, NEW u \in Users, NEW x \in snapshot[u]
               PROVE  /\ allocation'[x.name].status # "None"
                      /\ allocation'[x.name].status = "Allocated" => x.row = allocation'[x.name]
    <3>1. UNCHANGED snapshot
      BY Zenon DEF CancelDelivery
    <3>2. QED
      BY <3>1, Zenon DEF ReadsAreFresh
  <2>1. x.name \in AllocationIds
    BY <1>1, ReadParts
  <2>2. CASE x.name \in LiveAllocations(d)
    <3>1. allocation'[x.name].status = "Cancelled"
      BY <1>2, <2>1, <2>2, Zenon
    <3>2. QED
      BY <3>1
  <2>3. CASE x.name \notin LiveAllocations(d)
    <3>1. allocation'[x.name] = allocation[x.name]
      BY <2>1, <2>3, Zenon DEF CancelDelivery
    <3>2. QED
      BY <3>1, Zenon DEF ReadsAreFresh
  <2>4. QED
    BY <2>2, <2>3
<1>7. QED
  BY <1>5, <1>6

LEMMA PickStep ==
  ASSUME PickInvariant, [Next]_vars
  PROVE  PickInvariant' /\ (NothingReversed' => NothingReversed)
<1>1. /\ ClaimInvariant /\ ClaimInvariant' /\ LineInvariant /\ LineInvariant'
      /\ TypeInvariant /\ TypeInvariant'
      /\ \A t \in TaskIds :
           /\ task[t].status = "None" => ~task[t].reversed
           /\ task[t].status = "Cancelled" => task[t].confirmed = 0 \/ task[t].reversed
  BY LineStep, StepTypes, StepClaims, Zenon DEF PickInvariant, ClaimInvariant
<1>2. \A t \in TaskIds : /\ task[t].reversed => task'[t].reversed
                         /\ task'[t].status = "None" => ~task'[t].reversed
                         /\ task'[t].status = "Cancelled" => task'[t].confirmed = 0 \/ task'[t].reversed
  BY <1>1, ReversalsStay
<1>3. NothingReversed' => NothingReversed
  BY <1>2, Zenon DEF NothingReversed
<1> DEFINE Live == (SnapshotIsolation \/ NothingReversed)' /\ PicksAreLive => PicksAreLive'
           Fresh == NothingReversed' /\ ReadsAreFresh => ReadsAreFresh'
<1>4. ASSUME UNCHANGED <<allocation, task, snapshot>>
      PROVE  Live /\ Fresh
  <2>1. \A t \in TaskIds : LiveTask(t)' = LiveTask(t) /\ Docstatus0(t)' = Docstatus0(t)
    BY <1>4, Zenon DEF LiveTask, Docstatus0, OpenTask
  <2>2. \A a \in AllocationIds : Outstanding(a)' = Outstanding(a)
    BY <1>4, Zenon DEF Outstanding
  <2>3. PicksAreLive => PicksAreLive'
    BY <1>4, <2>1, <2>2, TaskIdParts, Zenon DEF PicksAreLive
  <2>4. ReadsAreFresh => ReadsAreFresh'
    BY <1>4, Zenon DEF ReadsAreFresh
  <2>5. QED
    BY <2>3, <2>4
<1>5. ASSUME NEW d \in Deliveries, Allocate(d) \/ CancelDelivery(d)
      PROVE  Live /\ Fresh
  BY <1>1, <1>5, AllocatePicks, CancelPicks
<1>6. ASSUME NEW u \in Users, ClaimAllocations(u)
      PROVE  Live /\ Fresh
  BY <1>1, <1>3, <1>6, ClaimPicks DEF PickInvariant
<1>7. ASSUME NEW u \in Users, ClaimRefused(u) \/ \E d \in Deliveries : ReadAllocations(u, d)
      PROVE  Live /\ Fresh
  <2>1. UNCHANGED <<allocation, task>>
    BY <1>7, RequestFrame, Zenon
  <2>2. ASSUME NEW w \in Users, NEW x \in snapshot'[w]
        PROVE  \/ x \in snapshot[w]
               \/ x.row = allocation[x.name] /\ allocation[x.name].status = "Allocated"
    <3>1. CASE ClaimRefused(u)
      <4>1. snapshot' = [snapshot EXCEPT ![u] = {}] /\ snapshot \in [Users -> SUBSET ReadRow]
        BY <1>1, <3>1 DEF ClaimRefused, TypeInvariant, TypeOK
      <4>2. x \in snapshot[w]
        BY <2>2, <4>1
      <4>3. QED
        BY <4>2
    <3>2. CASE \E d \in Deliveries : ReadAllocations(u, d)
      <4>1. PICK d \in Deliveries : ReadAllocations(u, d)
        BY <3>2
      <4> DEFINE open == {a \in AllocationIds : DeliveryOf(a) = d /\ allocation[a].status = "Allocated"}
                 rows == {[name |-> a, row |-> allocation[a]] : a \in open}
      <4>2. snapshot' = [snapshot EXCEPT ![u] = rows]
        BY <4>1 DEF ReadAllocations
      <4>3. snapshot \in [Users -> SUBSET ReadRow]
        BY <1>1 DEF TypeInvariant, TypeOK
      <4>4. x \in snapshot[w] \/ x \in rows
        <5> HIDE DEF rows
        <5>1. QED
          BY <2>2, <4>2, <4>3, Zenon
      <4>5. ASSUME x \in rows
            PROVE  x.row = allocation[x.name] /\ allocation[x.name].status = "Allocated"
        <5>1. PICK a \in open : x = [name |-> a, row |-> allocation[a]]
          BY <4>5
        <5>2. x.name = a /\ x.row = allocation[a]
          BY <5>1
        <5>3. QED
          BY <5>1, <5>2
      <4> HIDE DEF rows
      <4>6. QED
        BY <4>4, <4>5
    <3>3. QED
      BY <1>7, <3>1, <3>2
  <2>3. ReadsAreFresh => ReadsAreFresh'
    <3> SUFFICES ASSUME ReadsAreFresh, NEW w \in Users, NEW x \in snapshot'[w]
                 PROVE  /\ allocation[x.name].status # "None"
                        /\ allocation[x.name].status = "Allocated" => x.row = allocation[x.name]
      BY <2>1, Zenon DEF ReadsAreFresh
    <3>1. CASE x \in snapshot[w]
      BY <3>1, Zenon DEF ReadsAreFresh
    <3>2. CASE x.row = allocation[x.name] /\ allocation[x.name].status = "Allocated"
      BY <3>2
    <3>3. QED
      BY <2>2, <3>1, <3>2
  <2>4. PicksAreLive => PicksAreLive'
    <3>1. \A t \in TaskIds : LiveTask(t)' = LiveTask(t) /\ Docstatus0(t)' = Docstatus0(t)
      BY <2>1, Zenon DEF LiveTask, Docstatus0, OpenTask
    <3>2. \A a \in AllocationIds : Outstanding(a)' = Outstanding(a)
      BY <2>1, Zenon DEF Outstanding
    <3>3. QED
      BY <2>1, <3>1, <3>2, TaskIdParts, Zenon DEF PicksAreLive
  <2>5. QED
    BY <2>3, <2>4
<1>8. ASSUME NEW t \in TaskIds, Advance(t) \/ CloseShort(t)
      PROVE  Live /\ Fresh
  BY <1>1, <1>8, AdvancePicks, CloseShortPicks
<1>9. ASSUME NEW t \in TaskIds, Reverse(t)
      PROVE  Live /\ Fresh
  <2>1. ~NothingReversed'
    BY <1>1, <1>9, ReverseFields, Zenon DEF NothingReversed
  <2>2. QED
    BY <1>1, <1>9, <2>1, ReversePicks
<1>10. ASSUME NEW t \in TaskIds, NEW revised \in 1..MaxQuantity, RaiseException(t, revised)
       PROVE  Live /\ Fresh
  BY <1>1, <1>10, RaiseExceptionPicks
<1> HIDE DEF Live, Fresh
<1>11. Live /\ Fresh
  <2>1. UNCHANGED vars => Live /\ Fresh
    <3>1. UNCHANGED vars => UNCHANGED <<allocation, task, snapshot>>
      BY DEF vars
    <3>2. QED
      BY <1>4, <3>1, Zenon
  <2>2. QED
    BY <1>1, <1>5, <1>6, <1>7, <1>8, <1>9, <1>10, <2>1, StepCases, Zenon
<1>12. QED
  BY <1>1, <1>2, <1>3, <1>11, Zenon DEF Live, Fresh, PickInvariant

-----------------------------------------------------------------------------
(* What is reserved.                                                       *)

LEMMA AllocationsOf ==
  ASSUME NEW b \in Balances
  PROVE  /\ AllocationsOn(b) \in SUBSET AllocationIds /\ IsFiniteSet(AllocationsOn(b))
         /\ AllocationsOn(b)' = AllocationsOn(b)
         /\ \A a \in AllocationIds : a \in AllocationsOn(b) <=> BalanceOf(a) = b
<1>1. /\ AllocationsOn(b) \in SUBSET AllocationIds /\ AllocationsOn(b)' = AllocationsOn(b)
      /\ \A a \in AllocationIds : a \in AllocationsOn(b) <=> BalanceOf(a) = b
  BY DEF AllocationsOn
<1>2. QED
  BY <1>1, FiniteNames, FS_Subset

\* What an allocation still reserves is what it has still to pick, unless it
\* is no more or not yet an open one.
LEMMA ReservedFacts ==
  ASSUME NEW alloc \in AllocationRow, alloc.picked <= alloc.allocated,
         alloc.status = "None" => alloc.allocated = 0,
         alloc.status = "Picked" => alloc.picked = alloc.allocated
  PROVE  LET reserved == IF alloc.status \in {"Allocated", "Partially Picked", "Released"}
                           THEN Floor0(alloc.allocated - alloc.picked) ELSE 0
         IN  /\ reserved \in Nat
             /\ alloc.status # "Cancelled" => reserved = alloc.allocated - alloc.picked
             /\ alloc.status = "Cancelled" => reserved = 0
<1>1. alloc.allocated \in Nat /\ alloc.picked \in Nat /\ alloc.status \in AllocationStatus
  BY AllocationFields
<1> DEFINE m == alloc.allocated
           n == alloc.picked
           s == alloc.status
<1>2. m \in Nat /\ n \in Nat /\ n <= m /\ s \in AllocationStatus
  BY <1>1
<1>3. /\ s = "None" => m = 0
      /\ s = "Picked" => n = m
  OBVIOUS
<1> HIDE DEF m, n, s
<1>4. Floor0(m - n) = m - n /\ m - n \in Nat
  BY <1>2 DEF Floor0
<1>5. s = "None" \/ s = "Picked" => m - n = 0
  BY <1>2, <1>3
<1>6. LET reserved == IF s \in {"Allocated", "Partially Picked", "Released"} THEN Floor0(m - n) ELSE 0
      IN  /\ reserved \in Nat
          /\ s # "Cancelled" => reserved = m - n
          /\ s = "Cancelled" => reserved = 0
  <2>1. CASE s \in {"Allocated", "Partially Picked", "Released"}
    BY <1>4, <2>1
  <2>2. CASE s \in {"None", "Picked"}
    BY <1>2, <1>5, <2>2
  <2>3. CASE s = "Cancelled"
    BY <2>3
  <2>4. QED
    BY <1>2, <2>1, <2>2, <2>3 DEF AllocationStatus
<1>7. QED
  BY <1>6 DEF m, n, s

LEMMA Reserved ==
  ASSUME LineInvariant, NEW a \in AllocationIds
  PROVE  /\ StillReserved[a] \in Nat
         /\ allocation[a].status # "Cancelled" => StillReserved[a] = allocation[a].allocated - allocation[a].picked
         /\ allocation[a].status = "Cancelled" => StillReserved[a] = 0
<1>1. /\ allocation[a] \in AllocationRow /\ allocation[a].picked <= allocation[a].allocated
      /\ allocation[a].status = "None" => allocation[a].allocated = 0
      /\ allocation[a].status = "Picked" => allocation[a].picked = allocation[a].allocated
  BY LineFacts DEF AllocationSound
<1>2. StillReserved[a] = IF allocation[a].status \in {"Allocated", "Partially Picked", "Released"}
                           THEN Floor0(allocation[a].allocated - allocation[a].picked) ELSE 0
  BY Zenon DEF StillReserved, OpenAllocation, Outstanding
<1>3. QED
  BY <1>1, <1>2, ReservedFacts, Zenon

LEMMA ReservedNext ==
  ASSUME LineInvariant', NEW a \in AllocationIds
  PROVE  /\ StillReserved'[a] \in Nat
         /\ allocation'[a].status # "Cancelled" =>
              StillReserved'[a] = allocation'[a].allocated - allocation'[a].picked
         /\ allocation'[a].status = "Cancelled" => StillReserved'[a] = 0
<1>1. /\ allocation'[a] \in AllocationRow /\ allocation'[a].picked <= allocation'[a].allocated
      /\ allocation'[a].status = "None" => allocation'[a].allocated = 0
      /\ allocation'[a].status = "Picked" => allocation'[a].picked = allocation'[a].allocated
  BY DEF LineInvariant, TypeInvariant, TypeOK, AllocationSound
<1>2. StillReserved'[a] = IF allocation'[a].status \in {"Allocated", "Partially Picked", "Released"}
                            THEN Floor0(allocation'[a].allocated - allocation'[a].picked) ELSE 0
  BY Zenon DEF StillReserved, OpenAllocation, Outstanding
<1>3. QED
  BY <1>1, <1>2, ReservedFacts, Zenon

\* What a balance row has reserved, by its allocations.
ReservedOn(b) == SumFunctionOnSet(StillReserved, AllocationsOn(b))

LEMMA ReservedOnNext ==
  ASSUME NEW b \in Balances
  PROVE  ReservedOn(b)' = SumFunctionOnSet(StillReserved', AllocationsOn(b))
BY AllocationsOf, Zenon DEF ReservedOn

\* One allocation gives back q of its reservation, and so does its row.
LEMMA ReservationFalls ==
  ASSUME LineInvariant, LineInvariant', NEW a \in AllocationIds, NEW q \in Nat,
         \A x \in AllocationIds \ {a} : allocation'[x] = allocation[x],
         StillReserved'[a] = StillReserved[a] - q,
         \A b \in Balances : stockBalance[b].allocated = ReservedOn(b),
         stockBalance'[BalanceOf(a)].allocated = Floor0(stockBalance[BalanceOf(a)].allocated - q),
         \A b \in Balances \ {BalanceOf(a)} : stockBalance'[b] = stockBalance[b]
  PROVE  \A b \in Balances : stockBalance'[b].allocated = ReservedOn(b)'
<1> SUFFICES ASSUME NEW b \in Balances PROVE stockBalance'[b].allocated = ReservedOn(b)'
  OBVIOUS
<1> DEFINE f == StillReserved
           g == StillReserved'
           S == AllocationsOn(b)
<1>1. S \in SUBSET AllocationIds /\ IsFiniteSet(S) /\ (a \in S <=> BalanceOf(a) = b)
  BY AllocationsOf
<1>2. \A x \in AllocationIds : f[x] \in Nat /\ g[x] \in Nat
  BY Reserved, ReservedNext
<1>3. \A x \in AllocationIds \ {a} : g[x] = f[x]
  BY Zenon DEF StillReserved, OpenAllocation, Outstanding
<1>4. stockBalance[b].allocated = SumFunctionOnSet(f, S) /\ ReservedOn(b)' = SumFunctionOnSet(g, S)
  BY ReservedOnNext DEF ReservedOn
<1>5. g[a] = f[a] - q
  OBVIOUS
<1> HIDE DEF f, g, S
<1>6. \A x \in S : f[x] \in Int /\ g[x] \in Int
  BY <1>1, <1>2
<1>7. SumFunctionOnSet(g, S) =
        IF a \in S THEN SumFunctionOnSet(f, S) + (g[a] - f[a]) ELSE SumFunctionOnSet(f, S)
  BY <1>1, <1>3, <1>6, SumOneChange
<1>8. SumFunctionOnSet(f, S) \in Nat /\ SumFunctionOnSet(g, S) \in Nat
  BY <1>1, <1>2, SumNat
<1>9. CASE b = BalanceOf(a)
  <2>1. SumFunctionOnSet(g, S) = SumFunctionOnSet(f, S) - q
    BY <1>1, <1>2, <1>5, <1>7, <1>8, <1>9
  <2>2. stockBalance'[b].allocated = Floor0(SumFunctionOnSet(f, S) - q)
    BY <1>4, <1>9, Zenon
  <2>3. Floor0(SumFunctionOnSet(f, S) - q) = SumFunctionOnSet(f, S) - q
    BY <1>8, <2>1 DEF Floor0
  <2>4. QED
    BY <1>4, <2>1, <2>2, <2>3, Zenon
<1>10. CASE b # BalanceOf(a)
  BY <1>1, <1>4, <1>7, <1>10, Zenon
<1>11. QED
  BY <1>9, <1>10

\* Nothing is reserved and nothing given back.
LEMMA ReservationSame ==
  ASSUME LineInvariant, LineInvariant',
         \A a \in AllocationIds : StillReserved'[a] = StillReserved[a],
         \A b \in Balances : stockBalance[b].allocated = ReservedOn(b),
         UNCHANGED stockBalance
  PROVE  \A b \in Balances : stockBalance'[b].allocated = ReservedOn(b)'
<1> SUFFICES ASSUME NEW b \in Balances PROVE stockBalance'[b].allocated = ReservedOn(b)'
  OBVIOUS
<1>1. SumFunctionOnSet(StillReserved', AllocationsOn(b)) = SumFunctionOnSet(StillReserved, AllocationsOn(b))
  BY AllocationsOf, SumEqual
<1>2. QED
  BY <1>1, ReservedOnNext, Zenon DEF ReservedOn

\* The invariants a step of a reservation starts from, nothing being reversed.
Reserving == /\ PickInvariant /\ StagingInvariant /\ NothingReversed
             /\ \A b \in Balances : stockBalance[b].allocated = ReservedOn(b)

LEMMA ReservingFacts ==
  ASSUME Reserving
  PROVE  /\ TypeInvariant /\ TypeOK /\ ClaimInvariant /\ LineInvariant /\ StagingInvariant
         /\ PicksAreLive /\ ReadsAreFresh
         /\ \A b \in Balances : stockBalance[b].allocated = ReservedOn(b)
         /\ \A t \in TaskIds : ~task[t].reversed
         /\ \A t \in TaskIds : Docstatus0(t) =>
              /\ allocation[AllocationOf(t)].status # "Cancelled"
              /\ StillReserved[AllocationOf(t)]
                   = allocation[AllocationOf(t)].allocated - allocation[AllocationOf(t)].picked
<1>1. /\ ClaimInvariant /\ LineInvariant /\ StagingInvariant /\ PicksAreLive /\ ReadsAreFresh
      /\ TypeInvariant /\ TypeOK
      /\ \A b \in Balances : stockBalance[b].allocated = ReservedOn(b)
      /\ \A t \in TaskIds : ~task[t].reversed
  BY Zenon DEF Reserving, PickInvariant, ClaimInvariant, TypeInvariant, NothingReversed
<1>2. ASSUME NEW t \in TaskIds, Docstatus0(t)
      PROVE  /\ allocation[AllocationOf(t)].status # "Cancelled"
             /\ StillReserved[AllocationOf(t)]
                  = allocation[AllocationOf(t)].allocated - allocation[AllocationOf(t)].picked
  <2>1. AllocationOf(t) \in AllocationIds /\ allocation[AllocationOf(t)].status # "Cancelled"
    BY <1>2, TaskIdParts, Zenon DEF Reserving, StagingInvariant
  <2>2. QED
    BY <1>1, <2>1, Reserved
<1>3. QED
  BY <1>1, <1>2

LEMMA BalanceFields ==
  ASSUME NEW row \in BalanceRow, NEW q
  PROVE  /\ PickFromBalance(row, q).allocated = Floor0(row.allocated - q)
         /\ ReleaseAllocation(row, q).allocated = Floor0(row.allocated - q)
BY DEF PickFromBalance, ReleaseAllocation

LEMMA AdvanceReservation ==
  ASSUME Reserving, LineInvariant', NEW t \in TaskIds, Advance(t)
  PROVE  \A b \in Balances : stockBalance'[b].allocated = ReservedOn(b)'
<1>1. PICK qty \in Nat, key \in LedgerKeys : Confirm(t, qty, key) /\ OpenTask(t)
  BY DEF Advance
<1> DEFINE a == AllocationOf(t)
           posted == ToPost(t, qty)
           take == Chargeable(a, posted)
           row == BookPick(allocation[a], take)
<1>2. /\ TypeInvariant /\ TypeOK /\ ClaimInvariant /\ LineInvariant /\ PicksAreLive
      /\ a \in AllocationIds /\ BalanceOf(a) \in Balances /\ Docstatus0(t)
      /\ allocation[a] \in AllocationRow /\ stockBalance[BalanceOf(a)] \in BalanceRow
      /\ allocation[a].status # "Cancelled"
      /\ StillReserved[a] = allocation[a].allocated - allocation[a].picked
      /\ \A b \in Balances : stockBalance[b].allocated = ReservedOn(b)
  <2>1. Docstatus0(t) /\ TypeInvariant /\ a \in AllocationIds
    BY <1>1, ReservingFacts, TaskIdParts DEF Docstatus0
  <2>2. QED
    BY <2>1, ReservingFacts, AllocationIdParts, TaskFacts, Zenon
<1>3. /\ posted \in Nat /\ take \in Nat /\ posted <= task[t].planned - task[t].confirmed
      /\ Changes(allocation, allocation', AllocationIds, a, row)
      /\ Changes(stockBalance, stockBalance', Balances, BalanceOf(a), PickFromBalance(stockBalance[BalanceOf(a)], posted))
  BY <1>1, <1>2, ConfirmFields, Zenon
<1> HIDE DEF posted, take
<1>4. take = posted
  BY <1>2, <1>3, PickIsBooked DEF take
<1>5. /\ row.allocated = allocation[a].allocated /\ row.picked = allocation[a].picked + take
      /\ row.status \in {allocation[a].status, "Picked", "Partially Picked"}
  BY <1>2, <1>3, BookPickFields, Zenon
<1> HIDE DEF row
<1>6. /\ allocation'[a] = row /\ \A x \in AllocationIds \ {a} : allocation'[x] = allocation[x]
      /\ stockBalance'[BalanceOf(a)] = PickFromBalance(stockBalance[BalanceOf(a)], posted)
      /\ \A b \in Balances \ {BalanceOf(a)} : stockBalance'[b] = stockBalance[b]
  BY <1>3, Zenon DEF Changes
<1>7. StillReserved'[a] = StillReserved[a] - posted
  <2>1. row.status # "Cancelled"
    BY <1>2, <1>5
  <2>2. StillReserved'[a] = allocation[a].allocated - (allocation[a].picked + posted)
    BY <1>2, <1>4, <1>5, <1>6, <2>1, ReservedNext, Zenon
  <2>3. allocation[a].allocated \in Nat /\ allocation[a].picked \in Nat /\ posted \in Nat
    BY <1>2, <1>3, AllocationFields, Zenon
  <2>4. allocation[a].allocated - (allocation[a].picked + posted)
          = (allocation[a].allocated - allocation[a].picked) - posted
    BY <2>3
  <2>5. QED
    BY <1>2, <2>2, <2>4, Zenon
<1>8. stockBalance'[BalanceOf(a)].allocated = Floor0(stockBalance[BalanceOf(a)].allocated - posted)
  <2>1. stockBalance[BalanceOf(a)] \in BalanceRow
    BY <1>2
  <2>2. stockBalance'[BalanceOf(a)] = PickFromBalance(stockBalance[BalanceOf(a)], posted)
    BY <1>6
  <2>3. QED
    BY <2>1, <2>2, BalanceFields, Zenon
<1>9. QED
  BY <1>2, <1>3, <1>6, <1>7, <1>8, ReservationFalls, Zenon

LEMMA CloseShortReservation ==
  ASSUME Reserving, LineInvariant', NEW t \in TaskIds, CloseShort(t)
  PROVE  \A b \in Balances : stockBalance'[b].allocated = ReservedOn(b)'
<1> DEFINE a == AllocationOf(t)
           shortfall == task[t].planned - task[t].confirmed
           take == Chargeable(a, shortfall)
           row == ShrinkAllocation(allocation[a], take)
<1>1. TypeInvariant /\ a \in AllocationIds
  BY ReservingFacts, TaskIdParts
<1>2. /\ Docstatus0(t) /\ shortfall \in Nat /\ take \in Nat
      /\ Changes(allocation, allocation', AllocationIds, a, row)
      /\ Changes(stockBalance, stockBalance', Balances, BalanceOf(a),
                 ReleaseAllocation(stockBalance[BalanceOf(a)], shortfall))
  BY <1>1, CloseShortFields, Zenon
<1>3. /\ TypeOK /\ ClaimInvariant /\ LineInvariant /\ PicksAreLive
      /\ BalanceOf(a) \in Balances
      /\ allocation[a] \in AllocationRow /\ stockBalance[BalanceOf(a)] \in BalanceRow
      /\ allocation[a].status # "Cancelled"
      /\ StillReserved[a] = allocation[a].allocated - allocation[a].picked
      /\ \A b \in Balances : stockBalance[b].allocated = ReservedOn(b)
  BY <1>1, <1>2, ReservingFacts, AllocationIdParts, TaskFacts, Zenon
<1>4. take = shortfall
  BY <1>2, <1>3, PickIsBooked
<1> HIDE DEF take, shortfall
<1>5. /\ row.allocated = allocation[a].allocated - take /\ row.picked = allocation[a].picked
      /\ row.status \in {allocation[a].status, "Picked"}
  BY <1>2, <1>3, ShrinkFields, Zenon
<1> HIDE DEF row
<1>6. /\ allocation'[a] = row /\ \A x \in AllocationIds \ {a} : allocation'[x] = allocation[x]
      /\ stockBalance'[BalanceOf(a)] = ReleaseAllocation(stockBalance[BalanceOf(a)], shortfall)
      /\ \A b \in Balances \ {BalanceOf(a)} : stockBalance'[b] = stockBalance[b]
  BY <1>2, Zenon DEF Changes
<1>7. StillReserved'[a] = StillReserved[a] - shortfall
  <2>1. row.status # "Cancelled"
    BY <1>3, <1>5
  <2>2. StillReserved'[a] = (allocation[a].allocated - shortfall) - allocation[a].picked
    BY <1>1, <1>4, <1>5, <1>6, <2>1, ReservedNext, Zenon
  <2>3. allocation[a].allocated \in Nat /\ allocation[a].picked \in Nat /\ shortfall \in Nat
    BY <1>2, <1>3, AllocationFields, Zenon
  <2>4. (allocation[a].allocated - shortfall) - allocation[a].picked
          = (allocation[a].allocated - allocation[a].picked) - shortfall
    BY <2>3
  <2>5. QED
    BY <1>3, <2>2, <2>4, Zenon
<1>8. stockBalance'[BalanceOf(a)].allocated = Floor0(stockBalance[BalanceOf(a)].allocated - shortfall)
  <2>1. stockBalance[BalanceOf(a)] \in BalanceRow
    BY <1>3
  <2>2. stockBalance'[BalanceOf(a)] = ReleaseAllocation(stockBalance[BalanceOf(a)], shortfall)
    BY <1>6
  <2>3. QED
    BY <2>1, <2>2, BalanceFields, Zenon
<1>9. QED
  BY <1>1, <1>2, <1>3, <1>6, <1>7, <1>8, ReservationFalls, Zenon

\* An allocation run reserves on each row what it takes from it.
LEMMA AllocateReservation ==
  ASSUME Reserving, LineInvariant', NEW d \in Deliveries, Allocate(d)
  PROVE  \A b \in Balances : stockBalance'[b].allocated = ReservedOn(b)'
<1>1. TypeInvariant /\ LineInvariant /\ \A b \in Balances : stockBalance[b].allocated = ReservedOn(b)
  BY ReservingFacts
<1>2. PICK k \in 1..MaxRows, take \in [Balances -> Nat], left \in Nat : Takes(d, k, take, left)
  BY <1>1, AllocateFields
<1> DEFINE taken == Taken(d, k, take)
           f == StillReserved
           g == StillReserved'
<1>3. ASSUME NEW a \in AllocationIds
      PROVE  f[a] \in Nat /\ taken[a] \in Nat /\ g[a] = f[a] + taken[a]
  <2>1. /\ taken[a] \in Nat
        /\ allocation'[a].allocated = allocation[a].allocated + taken[a]
        /\ allocation'[a].picked = allocation[a].picked
    BY <1>1, <1>2, TakenRows
  <2>2. allocation[a].allocated \in Nat /\ allocation[a].picked \in Nat /\ f[a] \in Nat
    BY <1>1, LineFacts, Reserved
  <2>3. \/ taken[a] = 0 /\ allocation'[a] = allocation[a]
        \/ /\ allocation[a].status = "None" /\ allocation'[a].status = "Allocated"
    <3> DEFINE new == DeliveryOf(a) = d /\ a[3] = k
               q == take[BalanceOf(a)]
    <3>1. /\ new => allocation[a].status = "None"
          /\ allocation'[a] = IF new /\ q > 0 THEN [status |-> "Allocated", allocated |-> q, picked |-> 0]
                              ELSE allocation[a]
      BY <1>2, Zenon DEF Takes
    <3>2. taken[a] = IF new THEN q ELSE 0
      BY DEF Taken
    <3>3. q \in Nat
      BY AllocationIdParts
    <3> HIDE DEF new, q, taken
    <3>4. CASE new /\ q > 0
      BY <3>1, <3>4
    <3>5. CASE ~(new /\ q > 0)
      BY <3>1, <3>2, <3>3, <3>5
    <3>6. QED
      BY <3>4, <3>5
  <2>4. CASE taken[a] = 0 /\ allocation'[a] = allocation[a]
    <3>1. g[a] = f[a]
      BY <2>4, Zenon DEF StillReserved, OpenAllocation, Outstanding
    <3> HIDE DEF taken, f, g
    <3>2. QED
      BY <2>2, <2>4, <3>1
  <2>5. CASE allocation[a].status = "None" /\ allocation'[a].status = "Allocated"
    <3>1. f[a] = allocation[a].allocated - allocation[a].picked
      BY <1>1, <2>5, Reserved
    <3>2. g[a] = allocation'[a].allocated - allocation'[a].picked
      BY <2>5, ReservedNext
    <3> HIDE DEF taken, f, g
    <3>3. g[a] = (allocation[a].allocated + taken[a]) - allocation[a].picked
      BY <2>1, <3>2, Zenon
    <3>4. QED
      BY <2>1, <2>2, <3>1, <3>3
  <2>6. QED
    BY <2>3, <2>4, <2>5
<1>4. ASSUME NEW b \in Balances
      PROVE  stockBalance'[b].allocated = ReservedOn(b)'
  <2> DEFINE S == AllocationsOn(b)
  <2>1. IsFiniteSet(S) /\ S \in SUBSET AllocationIds
    BY AllocationsOf
  <2>2. SumFunctionOnSet(taken, S) = take[b]
    BY TakenSums
  <2>3. stockBalance[b].allocated = SumFunctionOnSet(f, S) /\ ReservedOn(b)' = SumFunctionOnSet(g, S)
    BY <1>1, ReservedOnNext DEF ReservedOn
  <2>4. stockBalance'[b].allocated = stockBalance[b].allocated + take[b]
    BY <1>2 DEF Takes
  <2> HIDE DEF S, f, g, taken
  <2>5. \A a \in S : f[a] \in Int /\ taken[a] \in Int /\ g[a] = f[a] + taken[a]
    BY <1>3, <2>1
  <2>6. SumFunctionOnSet(g, S) = SumFunctionOnSet(f, S) + SumFunctionOnSet(taken, S)
    BY <2>1, <2>5, SumPlus
  <2>7. QED
    BY <2>2, <2>3, <2>4, <2>6, Zenon
<1>5. QED
  BY <1>4

\* A cancellation gives back what its allocations reserved, nothing of it picked.
LEMMA CancelReservation ==
  ASSUME Reserving, LineInvariant', NEW d \in Deliveries, CancelDelivery(d)
  PROVE  \A b \in Balances : stockBalance'[b].allocated = ReservedOn(b)'
<1>1. /\ TypeInvariant /\ TypeOK /\ LineInvariant /\ PicksAreLive
      /\ \A b \in Balances : stockBalance[b].allocated = ReservedOn(b)
      /\ \A t \in TaskIds : ~task[t].reversed
  BY ReservingFacts
<1> DEFINE live == LiveAllocations(d)
           f == StillReserved
           g == StillReserved'
           h == [a \in AllocationIds |-> IF a \in live THEN allocation[a].allocated ELSE 0]
           reserved == [a \in AllocationIds |-> allocation[a].allocated]
<1>2. /\ \A t \in TaskIds : AllocationOf(t) \in live => ~BlocksCancel(t)
      /\ \A a \in AllocationIds :
           /\ allocation'[a].allocated = allocation[a].allocated
           /\ allocation'[a].picked = allocation[a].picked
           /\ allocation'[a].status = IF a \in live THEN "Cancelled" ELSE allocation[a].status
      /\ \A b \in Balances : stockBalance'[b] =
           ReleaseAllocation(stockBalance[b], AllocatedOf({a \in live : BalanceOf(a) = b}))
  BY <1>1, CancelFields, Zenon
<1>3. ASSUME NEW a \in live
      PROVE  a \in AllocationIds /\ allocation[a].status # "Cancelled" /\ allocation[a].picked = 0
  <2>1. a \in AllocationIds /\ allocation[a].status # "Cancelled"
    BY DEF LiveAllocations
  <2>2. ASSUME allocation[a].picked # 0
        PROVE  FALSE
    <3>1. PICK t \in TaskIds : AllocationOf(t) = a /\ LiveTask(t)
      BY <1>1, <2>1, <2>2, Zenon DEF PicksAreLive
    <3>2. task[t].confirmed # 0 /\ task[t].confirmed \in Nat
      BY <1>1, <2>2, <3>1, TaskFacts, Zenon DEF PicksAreLive
    <3>3. BlocksCancel(t)
      BY <1>1, <3>2 DEF BlocksCancel
    <3>4. QED
      BY <1>2, <3>1, <3>3, Zenon
  <2>3. QED
    BY <2>1, <2>2
<1>4. ASSUME NEW a \in AllocationIds
      PROVE  f[a] \in Nat /\ g[a] \in Nat /\ h[a] \in Nat /\ f[a] = g[a] + h[a]
  <2>1. f[a] \in Nat /\ allocation[a].allocated \in Nat
    BY <1>1, Reserved, LineFacts
  <2>2. CASE a \in live
    <3>1. f[a] = allocation[a].allocated - 0
      BY <1>1, <1>3, <2>2, Reserved, Zenon
    <3>2. g[a] = 0
      BY <1>2, <2>2, ReservedNext, Zenon
    <3>3. h[a] = allocation[a].allocated
      BY <2>2
    <3> HIDE DEF f, g, h
    <3>4. QED
      BY <2>1, <3>1, <3>2, <3>3
  <2>3. CASE a \notin live
    <3>1. g[a] = f[a]
      BY <1>2, <2>3, Zenon DEF StillReserved, OpenAllocation, Outstanding
    <3>2. h[a] = 0
      BY <2>3
    <3> HIDE DEF f, g, h
    <3>3. QED
      BY <2>1, <3>1, <3>2
  <2>4. QED
    BY <2>2, <2>3
<1>5. ASSUME NEW b \in Balances
      PROVE  stockBalance'[b].allocated = ReservedOn(b)'
  <2> DEFINE S == AllocationsOn(b)
             L == {a \in live : BalanceOf(a) = b}
  <2>1. IsFiniteSet(S) /\ S \in SUBSET AllocationIds /\ L \in SUBSET S
    BY <1>3, AllocationsOf
  <2>2. stockBalance[b].allocated = SumFunctionOnSet(f, S) /\ ReservedOn(b)' = SumFunctionOnSet(g, S)
    BY <1>1, ReservedOnNext DEF ReservedOn
  <2>3. /\ \A a \in S \ L : h[a] = 0
        /\ \A a \in L : h[a] = reserved[a]
    <3>1. \A a \in S : a \in L <=> a \in live
      BY AllocationsOf
    <3>2. \A a \in S : a \in AllocationIds
      BY <2>1
    <3>3. QED
      BY <2>1, <3>1, <3>2
  <2>4. AllocatedOf(L) = SumFunctionOnSet(reserved, L)
    BY DEF AllocatedOf
  <2>5. stockBalance'[b].allocated = Floor0(stockBalance[b].allocated - AllocatedOf(L))
    <3>1. stockBalance[b] \in BalanceRow
      BY <1>1 DEF TypeOK
    <3>2. QED
      BY <1>2, <3>1, BalanceFields, Zenon
  <2> HIDE DEF S, L, f, g, h, reserved
  <2>6. \A a \in S : f[a] \in Nat /\ g[a] \in Nat /\ h[a] \in Nat /\ f[a] = g[a] + h[a]
    BY <1>4, <2>1
  <2>7. SumFunctionOnSet(f, S) = SumFunctionOnSet(g, S) + SumFunctionOnSet(h, S)
    BY <2>1, <2>6, SumPlus
  <2>8. SumFunctionOnSet(h, S) = SumFunctionOnSet(h, L)
    BY <2>1, <2>3, <2>6, SumRestricted
  <2>9. SumFunctionOnSet(h, L) = SumFunctionOnSet(reserved, L)
    <3>1. IsFiniteSet(L)
      BY <2>1, FS_Subset
    <3>2. QED
      BY <2>3, <3>1, SumEqual
  <2>10. SumFunctionOnSet(g, S) \in Nat /\ SumFunctionOnSet(h, S) \in Nat
    BY <2>1, <2>6, SumNat
  <2>11. stockBalance'[b].allocated
           = Floor0((SumFunctionOnSet(g, S) + SumFunctionOnSet(h, S)) - SumFunctionOnSet(h, S))
    BY <2>2, <2>4, <2>5, <2>7, <2>8, <2>9, Zenon
  <2>12. Floor0((SumFunctionOnSet(g, S) + SumFunctionOnSet(h, S)) - SumFunctionOnSet(h, S))
           = SumFunctionOnSet(g, S)
    BY <2>10 DEF Floor0
  <2>13. QED
    BY <2>2, <2>11, <2>12, Zenon
<1>6. QED
  BY <1>5

\* A claim moves statuses: what is reserved stays reserved.
LEMMA ClaimReservation ==
  ASSUME Reserving, LineInvariant', NEW u \in Users, ClaimAllocations(u)
  PROVE  \A b \in Balances : stockBalance'[b].allocated = ReservedOn(b)'
<1>1. ClaimInvariant /\ LineInvariant /\ \A b \in Balances : stockBalance[b].allocated = ReservedOn(b)
  BY ReservingFacts
<1>2. UNCHANGED stockBalance
  BY Zenon DEF ClaimAllocations
<1>3. ASSUME NEW a \in AllocationIds
      PROVE  StillReserved'[a] = StillReserved[a]
  <2>1. /\ allocation'[a].allocated = allocation[a].allocated
        /\ allocation'[a].picked = allocation[a].picked
        /\ allocation'[a].status = IF \E x \in Claimed(u) : x.name = a
                                     THEN "Released" ELSE allocation[a].status
    BY <1>1, ClaimFields
  <2>2. (\E x \in Claimed(u) : x.name = a) => allocation[a].status = "Allocated"
    BY <1>1, ClaimFields
  <2>3. CASE \E x \in Claimed(u) : x.name = a
    <3>1. allocation'[a].status # "Cancelled" /\ allocation[a].status # "Cancelled"
      BY <2>1, <2>2, <2>3
    <3>2. QED
      BY <1>1, <2>1, <3>1, Reserved, ReservedNext, Zenon
  <2>4. CASE ~\E x \in Claimed(u) : x.name = a
    <3>1. allocation'[a].status = allocation[a].status
      BY <2>1, <2>4, Zenon
    <3>2. QED
      BY <2>1, <3>1, Zenon DEF StillReserved, OpenAllocation, Outstanding
  <2>5. QED
    BY <2>3, <2>4
<1>4. QED
  BY <1>1, <1>2, <1>3, ReservationSame

LEMMA ReservationStep ==
  ASSUME ReservationInvariant, [Next]_vars
  PROVE  ReservationInvariant'
<1>1. /\ PickInvariant /\ PickInvariant' /\ StagingInvariant /\ StagingInvariant'
      /\ AllocationBounds' /\ TypeInvariant /\ LineInvariant'
      /\ NothingReversed' => NothingReversed
  <2>1. PickInvariant /\ StagingInvariant /\ AllocationBounds /\ ClaimInvariant /\ TypeInvariant
    BY Zenon DEF ReservationInvariant, PickInvariant, StagingInvariant
  <2>2. PickInvariant' /\ (NothingReversed' => NothingReversed)
    BY <2>1, PickStep
  <2>3. StagingInvariant' /\ AllocationBounds'
    BY <2>1, StagingStep, StepBounds
  <2>4. LineInvariant'
    BY <2>2 DEF PickInvariant
  <2>5. QED
    BY <2>1, <2>2, <2>3, <2>4
<1>2. ASSUME NothingReversed'
      PROVE  \A b \in Balances : stockBalance'[b].allocated = ReservedOn(b)'
  <2> DEFINE Goal == \A b \in Balances : stockBalance'[b].allocated = ReservedOn(b)'
  <2>1. Reserving
    BY <1>1, <1>2, Zenon DEF Reserving, ReservationInvariant, ReservationMatchesAllocations, ReservedOn
  <2>2. ASSUME UNCHANGED <<stockBalance, allocation>>
        PROVE  Goal
    <3>1. \A a \in AllocationIds : StillReserved'[a] = StillReserved[a]
      BY <2>2, Zenon DEF StillReserved, OpenAllocation, Outstanding
    <3>2. QED
      BY <1>1, <2>1, <2>2, <3>1, ReservingFacts, ReservationSame
  <2>3. ASSUME NEW d \in Deliveries, Allocate(d) \/ CancelDelivery(d)
        PROVE  Goal
    BY <1>1, <2>1, <2>3, AllocateReservation, CancelReservation
  <2>4. ASSUME NEW u \in Users, ClaimAllocations(u)
        PROVE  Goal
    BY <1>1, <2>1, <2>4, ClaimReservation
  <2>5. ASSUME NEW u \in Users, ClaimRefused(u) \/ \E d \in Deliveries : ReadAllocations(u, d)
        PROVE  Goal
    BY <2>2, <2>5, RequestFrame, Zenon
  <2>6. ASSUME NEW t \in TaskIds, Advance(t) \/ CloseShort(t)
        PROVE  Goal
    BY <1>1, <2>1, <2>6, AdvanceReservation, CloseShortReservation
  <2>7. ASSUME NEW t \in TaskIds, Reverse(t)
        PROVE  FALSE
    BY <1>1, <1>2, <2>7, ReverseFields, Zenon DEF NothingReversed
  <2>8. ASSUME NEW t \in TaskIds, NEW revised \in 1..MaxQuantity, RaiseException(t, revised)
        PROVE  Goal
    BY <1>1, <2>2, <2>8, RaiseExceptionFields, Zenon
  <2>9. UNCHANGED vars => Goal
    BY <2>2, Zenon DEF vars
  <2> HIDE DEF Goal
  <2>10. Goal
    BY <1>1, <2>3, <2>4, <2>5, <2>6, <2>7, <2>8, <2>9, StepCases, Zenon
  <2>11. QED
    BY <2>10 DEF Goal
<1>3. ReservationMatchesAllocations'
  BY <1>2, Zenon DEF ReservationMatchesAllocations, ReservedOn
<1>4. QED
  BY <1>1, <1>3 DEF ReservationInvariant

LEMMA ReservationInit == Init => ReservationInvariant
<1> SUFFICES ASSUME Init PROVE ReservationInvariant
  OBVIOUS
<1>1. LineInvariant /\ StagingInvariant /\ TypeInvariant
  BY LineInit, StagingInit, InitTypes
<1>2. /\ \A t \in TaskIds : /\ ~LiveTask(t) /\ ~Docstatus0(t) /\ ~task[t].reversed
                            /\ task[t].confirmed = 0
      /\ \A u \in Users : snapshot[u] = {}
      /\ \A a \in AllocationIds : allocation[a].picked = 0 /\ allocation[a].status = "None"
      /\ \A b \in Balances : stockBalance[b].allocated = 0 /\ stockBalance[b].quantity \in Nat
  BY DEF Init, NoTask, NoAllocation, LiveTask, Docstatus0, OpenTask
<1>3. ClaimInvariant
  BY <1>1, <1>2, Zenon DEF ClaimInvariant, ClaimSound, OnePickTaskPerAllocation
<1>4. PickInvariant
  BY <1>1, <1>2, <1>3, Zenon DEF PickInvariant, PicksAreLive, ReadsAreFresh
<1>5. AllocationBounds
  BY <1>2 DEF AllocationBounds
<1>6. ASSUME NEW b \in Balances PROVE SumFunctionOnSet(StillReserved, AllocationsOn(b)) = 0
  <2>1. \A a \in AllocationsOn(b) : StillReserved[a] = 0
    BY <1>2, AllocationsOf DEF StillReserved, OpenAllocation
  <2>2. QED
    BY <2>1, AllocationsOf, SumZero
<1>7. QED
  BY <1>1, <1>2, <1>4, <1>5, <1>6, Zenon DEF ReservationInvariant, ReservationMatchesAllocations

LEMMA ReservationHolds == Spec => []ReservationInvariant
<1>1. Init => ReservationInvariant
  BY ReservationInit
<1>2. ReservationInvariant /\ [Next]_vars => ReservationInvariant'
  BY ReservationStep
<1>3. QED
  BY <1>1, <1>2, PTL DEF Spec

\* Allocation runs, releases, partial picks, short picks and cancellations in
\* any order, of any number of deliveries: until a pick is reversed, what a
\* balance row has reserved is exactly what the allocations on it have still
\* to pick.
THEOREM ReservationsAddUp == Spec => []ReservationMatchesAllocations
<1>1. ReservationInvariant => ReservationMatchesAllocations
  BY DEF ReservationInvariant
<1>2. QED
  BY <1>1, ReservationHolds, PTL

-----------------------------------------------------------------------------
(* What pickers find.                                                      *)

LEMMA LeftWithinReserved ==
  ASSUME ReservationInvariant, NothingReversed, NEW b \in Balances
  PROVE  SumFunctionOnSet(LeftToPick, OpenTasksOn(b)) <= SumFunctionOnSet(StillReserved, AllocationsOn(b))
<1> DEFINE T == OpenTasksOn(b)
           S == AllocationsOn(b)
           name == [t \in TaskIds |-> AllocationOf(t)]
           f == StillReserved
           g == [t \in TaskIds |-> f[name[t]]]
           l == LeftToPick
<1>1. Reserving
  BY Zenon DEF Reserving, ReservationInvariant, ReservationMatchesAllocations, ReservedOn
<1>2. T \in SUBSET TaskIds /\ IsFiniteSet(T)
  BY FiniteNames, FS_Subset DEF OpenTasksOn
<1>3. ASSUME NEW t \in T
      PROVE  /\ name[t] \in S /\ l[t] \in Int /\ g[t] \in Int /\ l[t] <= g[t] /\ LiveTask(t)
             /\ f[name[t]] = g[t] /\ name[t] = AllocationOf(t)
  <2>1. t \in TaskIds /\ OpenTask(t) /\ Docstatus0(t) /\ BalanceOf(AllocationOf(t)) = b
    BY DEF OpenTasksOn, Docstatus0
  <2> DEFINE a == AllocationOf(t)
  <2>2. /\ a \in AllocationIds /\ name[t] = a /\ a \in S /\ g[t] = f[a] /\ LiveTask(t)
    BY <1>1, <2>1, ReservingFacts, TaskIdParts, AllocationsOf, DraftIsLive
  <2>3. /\ f[a] \in Nat /\ f[a] = allocation[a].allocated - allocation[a].picked
        /\ task[t].planned - task[t].confirmed <= allocation[a].allocated - allocation[a].picked
    BY <1>1, <2>1, <2>2, ReservingFacts, Reserved, Zenon DEF PicksAreLive, Outstanding
  <2>4. l[t] = task[t].planned - task[t].confirmed /\ l[t] \in Int
    BY <1>1, <2>1, ReservingFacts, TaskFacts DEF LeftToPick
  <2> HIDE DEF f, g, l, S, name
  <2>5. l[t] <= g[t] /\ g[t] \in Int
    <3>1. f[a] \in Int
      BY <2>3
    <3>2. l[t] <= f[a]
      BY <2>3, <2>4, Zenon
    <3>3. QED
      BY <2>2, <3>1, <3>2, Zenon
  <2>6. QED
    BY <2>2, <2>4, <2>5, Zenon
<1>4. \A t, v \in T : name[t] = name[v] => t = v
  <2>1. ASSUME NEW t \in T, NEW v \in T, name[t] = name[v]
        PROVE  t = v
    <3>1. /\ t \in TaskIds /\ v \in TaskIds /\ LiveTask(t) /\ LiveTask(v)
          /\ AllocationOf(t) = AllocationOf(v)
      BY <1>2, <1>3, <2>1
    <3>2. OnePickTaskPerAllocation
      BY <1>1, ReservingFacts DEF ClaimInvariant
    <3>3. QED
      BY <3>1, <3>2, Zenon DEF OnePickTaskPerAllocation
  <2>2. QED
    BY <2>1
<1>5. \A a \in S : f[a] \in Nat
  BY <1>1, ReservingFacts, Reserved, AllocationsOf
<1>6. IsFiniteSet(S)
  BY AllocationsOf
<1> HIDE DEF T, S, f, g, l, name
<1>7. SumFunctionOnSet(l, T) <= SumFunctionOnSet(g, T)
  BY <1>2, <1>3, SumAtMost
<1>8. SumFunctionOnSet(f, {name[t] : t \in T}) = SumFunctionOnSet(g, T)
  BY <1>2, <1>3, <1>4, SumRenamed
<1>9. {name[t] : t \in T} \in SUBSET S
  BY <1>3
<1>10. SumFunctionOnSet(f, {name[t] : t \in T}) <= SumFunctionOnSet(f, S)
  BY <1>5, <1>6, <1>9, SumSubset
<1>11. SumFunctionOnSet(l, T) \in Int /\ SumFunctionOnSet(g, T) \in Int /\ SumFunctionOnSet(f, S) \in Int
  <2>1. \A a \in S : f[a] \in Int
    BY <1>5
  <2>2. QED
    BY <1>2, <1>3, <1>6, <2>1, SumInt
<1>12. SumFunctionOnSet(l, T) <= SumFunctionOnSet(f, S)
  BY <1>7, <1>8, <1>10, <1>11
<1>13. QED
  BY <1>12 DEF l, T, f, S

\* No picker finds the stock gone: until a pick is reversed, what the open
\* pick tasks on a balance row have still to take is on the row, whatever was
\* released twice, picked short or cancelled meanwhile.
THEOREM StockIsThere == Spec => []PickableStock
<1>1. ReservationInvariant => PickableStock
  <2> SUFFICES ASSUME ReservationInvariant, NothingReversed, NEW b \in Balances
               PROVE  stockBalance[b].quantity >= SumFunctionOnSet(LeftToPick, OpenTasksOn(b))
    BY DEF PickableStock
  <2>1. SumFunctionOnSet(LeftToPick, OpenTasksOn(b)) <= SumFunctionOnSet(StillReserved, AllocationsOn(b))
    BY LeftWithinReserved
  <2>2. stockBalance[b].allocated = SumFunctionOnSet(StillReserved, AllocationsOn(b))
    BY DEF ReservationInvariant, ReservationMatchesAllocations
  <2>3. stockBalance[b].allocated <= stockBalance[b].quantity
    BY DEF ReservationInvariant, AllocationBounds
  <2>4. stockBalance[b].allocated \in Nat /\ stockBalance[b].quantity \in Nat
    BY DEF ReservationInvariant, StagingInvariant, TypeInvariant, TypeOK, BalanceRow
  <2>5. SumFunctionOnSet(LeftToPick, OpenTasksOn(b)) \in Int
    <3>1. OpenTasksOn(b) \in SUBSET TaskIds
      BY DEF OpenTasksOn
    <3>2. IsFiniteSet(OpenTasksOn(b))
      BY <3>1, FiniteNames, FS_Subset
    <3>3. \A t \in TaskIds : LeftToPick[t] \in Int
      BY TaskFacts DEF ReservationInvariant, StagingInvariant, LeftToPick
    <3>4. QED
      BY <3>1, <3>2, <3>3, SumInt
  <2>6. QED
    BY <2>1, <2>2, <2>3, <2>4, <2>5
<1>2. QED
  BY <1>1, ReservationHolds, PTL

\* Only live tasks have stock in staging: what their allocations are picked.
LEMMA StagedOfPicks ==
  ASSUME PickInvariant, PicksAreLive, StagingInvariant, NEW d \in Deliveries
  PROVE  SumFunctionOnSet(InStaging, TasksFor(d)) = PickedOf(AllocationsFor(d))
<1> DEFINE T == TasksFor(d)
           L == {t \in T : LiveTask(t)}
           S == AllocationsFor(d)
           name == [t \in TaskIds |-> AllocationOf(t)]
           p == [a \in AllocationIds |-> allocation[a].picked]
           f == InStaging
<1>1. TypeInvariant /\ TypeOK /\ LineInvariant /\ ClaimInvariant
  BY Zenon DEF PickInvariant, ClaimInvariant, TypeInvariant
<1>2. T \in SUBSET TaskIds /\ IsFiniteSet(T) /\ L \in SUBSET T /\ IsFiniteSet(L)
  BY TasksOf, FS_Subset
<1>3. S \in SUBSET AllocationIds /\ IsFiniteSet(S) /\ \A a \in AllocationIds : p[a] \in Nat
  BY <1>1, LineFacts, FiniteNames, FS_Subset DEF AllocationsFor
<1>4. \A t \in T : f[t] \in Int
  BY <1>1, <1>2, StagingType
<1>5. ASSUME NEW t \in T \ L
      PROVE  f[t] = 0
  <2>1. t \in TaskIds /\ ~LiveTask(t)
    BY <1>2
  <2>2. \/ task[t].reversed
        \/ task[t].status = "None"
        \/ task[t].status = "Cancelled"
    BY <2>1 DEF LiveTask
  <2>3. task[t].reversed \/ task[t].confirmed = 0
    BY <2>1, <2>2, Zenon DEF PickInvariant, StagingInvariant
  <2>4. QED
    BY <1>1, <2>1, <2>3, StagingType
<1>6. ASSUME NEW t \in L
      PROVE  t \in TaskIds /\ f[t] \in Int /\ name[t] \in S /\ p[name[t]] = f[t]
  <2>1. t \in TaskIds /\ LiveTask(t) /\ DeliveryOf(AllocationOf(t)) = d
    BY <1>2 DEF TasksFor
  <2>2. AllocationOf(t) \in S /\ AllocationOf(t) \in AllocationIds /\ name[t] = AllocationOf(t)
    BY <2>1, TaskIdParts DEF AllocationsFor
  <2>3. f[t] = task[t].confirmed
    BY <1>1, <2>1, StagingType DEF LiveTask
  <2>4. p[AllocationOf(t)] = task[t].confirmed
    BY <2>1, <2>2, Zenon DEF PicksAreLive
  <2>5. QED
    BY <1>2, <1>4, <2>1, <2>2, <2>3, <2>4, Zenon
<1>7. \A t, v \in L : name[t] = name[v] => t = v
  <2>1. ASSUME NEW t \in L, NEW v \in L, name[t] = name[v]
        PROVE  t = v
    <3>1. /\ t \in TaskIds /\ v \in TaskIds /\ LiveTask(t) /\ LiveTask(v)
          /\ AllocationOf(t) = AllocationOf(v)
      BY <1>2, <1>6, <2>1
    <3>2. QED
      BY <1>1, <3>1, Zenon DEF ClaimInvariant, OnePickTaskPerAllocation
  <2>2. QED
    BY <2>1
<1>8. {name[t] : t \in L} \in SUBSET S
  BY <1>6
<1>9. ASSUME NEW a \in S \ {name[t] : t \in L}
      PROVE  p[a] = 0
  <2>1. a \in AllocationIds /\ DeliveryOf(a) = d
    BY DEF AllocationsFor
  <2>2. ASSUME allocation[a].picked # 0
        PROVE  FALSE
    <3>1. PICK t \in TaskIds : AllocationOf(t) = a /\ LiveTask(t)
      BY <2>1, <2>2, Zenon DEF PicksAreLive
    <3>2. t \in L /\ name[t] = a
      BY <2>1, <3>1 DEF TasksFor
    <3>3. QED
      BY <3>2
  <2>3. QED
    BY <2>1, <2>2
<1> HIDE DEF T, S, p, f, name
<1>10. SumFunctionOnSet(f, T) = SumFunctionOnSet(f, L)
  <2> HIDE DEF L
  <2>1. QED
    BY <1>2, <1>4, <1>5, SumRestricted
<1> HIDE DEF L
<1>11. SumFunctionOnSet(p, {name[t] : t \in L}) = SumFunctionOnSet(f, L)
  BY <1>2, <1>6, <1>7, SumRenamed
<1>12. SumFunctionOnSet(p, S) = SumFunctionOnSet(p, {name[t] : t \in L})
  <2>1. \A a \in S : p[a] \in Int
    BY <1>3
  <2>2. QED
    BY <1>3, <1>8, <1>9, <2>1, SumRestricted
<1>13. QED
  BY <1>10, <1>11, <1>12 DEF f, T, p, S, PickedOf

\* What is staged for a delivery is what its line reports picked: with
\* snapshot isolation in every state, without it until a pick is reversed.
THEOREM StagedAsReported == Spec => []StagedIsPicked
<1>1. ReservationInvariant => StagedIsPicked
  <2> SUFFICES ASSUME ReservationInvariant, SnapshotIsolation \/ NothingReversed, NEW d \in Deliveries
               PROVE  staged[d] = delivery[d].picked
    BY DEF StagedIsPicked
  <2>1. PickInvariant /\ PicksAreLive /\ StagingInvariant /\ OutboundProgress
    BY Zenon DEF ReservationInvariant, PickInvariant, LineInvariant
  <2>2. staged[d] = SumFunctionOnSet(InStaging, TasksFor(d))
    BY <2>1 DEF StagingInvariant
  <2>3. delivery[d].picked = PickedOf(AllocationsFor(d))
    BY <2>1 DEF OutboundProgress
  <2>4. QED
    BY <2>1, <2>2, <2>3, StagedOfPicks
<1>2. QED
  BY <1>1, ReservationHolds, PTL
-----------------------------------------------------------------------------
\* A resent confirmation posts nothing twice and no reversal is lost: ledger,
\* tasks, staging and lines agree on what was picked.
THEOREM PickedIsConfirmedOnce == Spec => []ConfirmedOnce
BY PostedOnce, StagedAsReported, PTL DEF ConfirmedOnce

\* A line never says more or less than its allocations, whatever became of
\* them, and a cancelled delivery leaves nothing to pick or to put back.
THEOREM LinesFollowAllocations == Spec => []LineProgress
BY LinesAddUp, CancellationIsComplete, PTL DEF LineProgress

\* Until a pick is reversed stock is reserved for what the allocations need,
\* neither more nor less, and is there when the picker comes.
THEOREM StockIsReserved == Spec => []ReservedForPicks
BY ReservationsAddUp, StockIsThere, PTL DEF ReservedForPicks
=============================================================================
