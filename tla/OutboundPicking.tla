--------------------------- MODULE OutboundPicking ---------------------------
(***************************************************************************)
(* Reservation and picking of outbound deliveries: allocate_delivery       *)
(* reserves stock balance rows, create_pick_tasks turns the reservations   *)
(* into pick tasks, confirm_task, raise_exception and reverse_task execute *)
(* or undo them, and cancelling the delivery gives everything back.        *)
(*                                                                         *)
(* One request is one MariaDB transaction.  A handler whose reads are      *)
(* locking reads of the rows it writes is one action; create_pick_tasks    *)
(* reads its allocations from the transaction's snapshot and writes them   *)
(* later, and is two.  One product, one line per delivery, one pick task   *)
(* per allocation (the "Single Order" strategy).                           *)
(***************************************************************************)
EXTENDS Integers, FiniteSets, Functions

CONSTANTS
  Deliveries,         \* submitted outbound deliveries, one line each
  Balances,           \* stock balance rows that allocation may draw from
  Users,              \* sessions that release deliveries for picking
  RequestIds,         \* idempotency keys of the confirmations scanners send
  InitialStock,       \* [Balances -> Nat]: quantity on hand at the start
  Demand,             \* [Deliveries -> Nat]: quantity the line asks for
  ReturnRow,          \* [Balances -> Balances]: where a reversed pick lands
  SnapshotIsolation,  \* innodb_snapshot_isolation of the database
  MaxRows,            \* bound: allocations of a delivery per balance row, and
                      \* pick tasks per allocation
  MaxQuantity         \* bound: quantities a user may type in

ASSUME ConstantsAssumption ==
  /\ IsFiniteSet(Deliveries) /\ IsFiniteSet(Balances)
  /\ InitialStock \in [Balances -> Nat]
  /\ Demand \in [Deliveries -> Nat \ {0}]
  /\ ReturnRow \in [Balances -> Balances]
  /\ SnapshotIsolation \in BOOLEAN
  /\ MaxRows \in Nat /\ MaxQuantity \in Nat

\* A Stock Allocation is named by its delivery, its balance row and a number.
AllocationIds == Deliveries \X Balances \X (1..MaxRows)
DeliveryOf(a) == a[1]
BalanceOf(a)  == a[2]

\* A pick Warehouse Task is named by its allocation and a number.
TaskIds == AllocationIds \X (1..MaxRows)
AllocationOf(t) == t[1]

\* Warehouse Task.idempotency_key: "WT:<allocation>" when the task is made,
\* then the key of its latest confirmation.  A scanner names the key; without
\* one it is "<task key>:<quantity confirmed so far>".
TaskKeys   == AllocationIds \cup RequestIds
LedgerKeys == RequestIds \cup (TaskKeys \X Nat)

AllocationStatus == {"None", "Allocated", "Released", "Partially Picked",
                     "Picked", "Cancelled"}
TaskStatus == {"None", "Open", "Partially Confirmed", "Confirmed",
               "Exception", "Cancelled"}

\* The rows of the tables.
BalanceRow == [quantity : Nat, allocated : Nat]
DeliveryRow ==
  [docstatus : 1..2, requested : Int, allocated : Int, picked : Int,
   allocation_status : {"Not Allocated", "Partially Allocated", "Fully Allocated"},
   picking_status : {"Not Started", "Partially Picked", "Picked"}]
AllocationRow == [status : AllocationStatus, allocated : Nat, picked : Nat]
TaskRow == [status : TaskStatus, planned : Nat, confirmed : Nat,
            idempotency_key : TaskKeys \cup LedgerKeys, reversed : BOOLEAN]
LedgerEntry == [key : LedgerKeys, task : TaskIds, quantity : Nat]
ReadRow == [name : AllocationIds, row : AllocationRow]

VARIABLES
  stockBalance,    \* [Balances -> [quantity, allocated]]
  delivery,        \* [Deliveries -> the delivery and its line]
  allocation,      \* [AllocationIds -> Stock Allocation], "None" = no row
  task,            \* [TaskIds -> pick task], "None" = no row
  ledger,          \* entries posted by pick tasks, on the destination side
  staged,          \* [Deliveries -> quantity picked to the staging bin]
  differenceBin,   \* stock confirmed beyond the plan
  snapshot         \* [Users -> allocations a release request has read]

vars == <<stockBalance, delivery, allocation, task, ledger, staged,
          differenceBin, snapshot>>

NoAllocation == [status |-> "None", allocated |-> 0, picked |-> 0]
NoTask(a) == [status |-> "None", planned |-> 0, confirmed |-> 0,
              idempotency_key |-> a, reversed |-> FALSE]

Init ==
  /\ stockBalance = [b \in Balances |->
                       [quantity |-> InitialStock[b], allocated |-> 0]]
  /\ delivery = [d \in Deliveries |->
                   [docstatus |-> 1, requested |-> Demand[d], allocated |-> 0,
                    picked |-> 0, allocation_status |-> "Not Allocated",
                    picking_status |-> "Not Started"]]
  /\ allocation = [a \in AllocationIds |-> NoAllocation]
  /\ task = [t \in TaskIds |-> NoTask(AllocationOf(t))]
  /\ ledger = {}
  /\ staged = [d \in Deliveries |-> 0]
  /\ differenceBin = 0
  /\ snapshot = [u \in Users |-> {}]

-----------------------------------------------------------------------------
Floor0(n) == IF n > 0 THEN n ELSE 0
Lesser(m, n) == IF m < n THEN m ELSE n

\* Mutant: what is reserved for others counts as available.
OnHand(b) == stockBalance[b].quantity

\* available_quantity is rewritten as quantity - allocated_quantity by every
\* writer of a balance row, so it is not a variable of its own.
Available(b) == stockBalance[b].quantity - stockBalance[b].allocated

Outstanding(a) == allocation[a].allocated - allocation[a].picked

\* sum(allocated_quantity) of a set of allocations.
AllocatedOf(S) == SumFunctionOnSet([a \in AllocationIds |-> allocation[a].allocated], S)

\* allocation_status and picking_status as the services recompute them.
AllocationStatusOf(requested, allocated) ==
  IF allocated >= requested THEN "Fully Allocated"
  ELSE IF allocated > 0 THEN "Partially Allocated" ELSE "Not Allocated"

PickingStatusOf(requested, picked) ==
  IF picked >= requested THEN "Picked"
  ELSE IF picked > 0 THEN "Partially Picked" ELSE "Not Started"

\* _update_delivery_picking_status after the line became ln.
WithPickingStatus(ln) ==
  [ln EXCEPT !.picking_status = PickingStatusOf(ln.requested, ln.picked)]

\* release_allocation: never below zero, whatever is asked.
ReleaseAllocation(row, q) ==
  [quantity |-> row.quantity, allocated |-> Floor0(row.allocated - q)]

OpenTask(t) == task[t].status \in {"Open", "Partially Confirmed"}
Docstatus0(t) == OpenTask(t) \/ task[t].status = "Exception"
\* Mutant: the ledger is not asked whether the key was posted.
NeverPosted(key) == FALSE

Posted(key) == \E e \in ledger : e.key = key

-----------------------------------------------------------------------------
\* allocate_delivery.  The candidates are what the snapshot, the filters and
\* the removal rules leave of the rows; each is then read again under a lock,
\* so what is taken never exceeds what is available now.
Allocations(d, candidates, needed) ==
  {p \in [take : [Balances -> 0..needed], left : 0..needed] :
     /\ p.left + SumFunctionOnSet(p.take, Balances) = needed
     /\ \A b \in Balances : p.take[b] > 0 => b \in candidates /\ p.take[b] <= Available(b)
     /\ p.left > 0 => \A b \in candidates : Available(b) <= p.take[b]
     /\ \A b, c \in Balances :       \* rows are drained one after the other
          (p.take[b] \in 1..(Available(b) - 1) /\ p.take[c] \in 1..(Available(c) - 1)) => b = c}

\* What a row gives becomes a new Stock Allocation and is reserved on the row.
Reserve(d, k, p) ==
  LET allocated == delivery[d].requested - p.left IN
  /\ \A j \in 1..MaxRows : j < k <=> \E b \in Balances : allocation[<<d, b, j>>].status # "None"
  /\ allocation' = [a \in AllocationIds |->
       IF DeliveryOf(a) = d /\ a[3] = k /\ p.take[BalanceOf(a)] > 0
         THEN [status |-> "Allocated", allocated |-> p.take[BalanceOf(a)], picked |-> 0]
         ELSE allocation[a]]
  /\ stockBalance' = [b \in Balances |->
       [stockBalance[b] EXCEPT !.allocated = stockBalance[b].allocated + p.take[b]]]
  /\ delivery' = [delivery EXCEPT ![d] = [@ EXCEPT
       !.allocated = allocated,
       !.allocation_status = AllocationStatusOf(delivery[d].requested, allocated)]]
  /\ UNCHANGED <<task, ledger, staged, differenceBin, snapshot>>

Allocate(d) ==
  /\ delivery[d].docstatus = 1
  /\ \E candidates \in SUBSET Balances, k \in 1..MaxRows :
     \E p \in Allocations(d, candidates, delivery[d].requested - delivery[d].allocated) :
       Reserve(d, k, p)

-----------------------------------------------------------------------------
\* create_pick_tasks: the open allocations are a plain read of the snapshot...
ReadAllocations(u, d) ==
  LET open == {a \in AllocationIds :
                 DeliveryOf(a) = d /\ allocation[a].status = "Allocated"} IN
  /\ snapshot[u] = {}
  /\ delivery[d].docstatus = 1
  /\ open # {}
  /\ snapshot' = [snapshot EXCEPT ![u] =
       {[name |-> a, row |-> allocation[a]] : a \in open}]
  /\ UNCHANGED <<stockBalance, delivery, allocation, task, ledger, staged, differenceBin>>

\* ... and _claim_allocations moves each one from Allocated to Released with a
\* state-guarded UPDATE; the claimed ones get a pick task each, planned from
\* the row as it was read.  With innodb_snapshot_isolation the UPDATE of a row
\* changed since then fails and the request is rolled back.
\* Mutant: the UPDATE has no "and status = 'Allocated'".
ClaimedBlindly(u) == snapshot[u]

Claimed(u) == {x \in snapshot[u] : allocation[x.name].status = "Allocated"}

Unchanged(u) == \A x \in snapshot[u] : allocation[x.name] = x.row

ClaimAllocations(u) ==
  /\ snapshot[u] # {}
  /\ Claimed(u) # {}
  /\ SnapshotIsolation => Unchanged(u)
  /\ allocation' = [a \in AllocationIds |->
       IF \E x \in Claimed(u) : x.name = a
         THEN [allocation[a] EXCEPT !.status = "Released"] ELSE allocation[a]]
  /\ \E number \in [Claimed(u) -> 1..MaxRows] :
       /\ \A x \in Claimed(u), j \in 1..MaxRows :
            j < number[x] <=> task[<<x.name, j>>].status # "None"
       /\ task' = [t \in TaskIds |->
            IF \E x \in Claimed(u) : t = <<x.name, number[x]>>
              THEN [status |-> "Open", confirmed |-> 0, reversed |-> FALSE,
                    planned |-> (CHOOSE x \in Claimed(u) : x.name = t[1]).row.allocated,
                    idempotency_key |-> t[1]]
              ELSE task[t]]
  /\ snapshot' = [snapshot EXCEPT ![u] = {}]
  /\ UNCHANGED <<stockBalance, delivery, ledger, staged, differenceBin>>

\* Nothing left to claim, or a row changed under snapshot isolation.
ClaimRefused(u) ==
  /\ snapshot[u] # {}
  /\ Claimed(u) = {} \/ (SnapshotIsolation /\ ~Unchanged(u))
  /\ snapshot' = [snapshot EXCEPT ![u] = {}]
  /\ UNCHANGED <<stockBalance, delivery, allocation, task, ledger, staged, differenceBin>>

-----------------------------------------------------------------------------
\* Mutant: the pick leaves the reservation.
PickKeepsReservation(row, q) ==
  [quantity |-> row.quantity - q, allocated |-> row.allocated]

\* transfer_stock out of a row: the pick frees what was reserved for it.
PickFromBalance(row, q) ==
  [quantity |-> row.quantity - q, allocated |-> Floor0(row.allocated - q)]

\* _update_allocations and _release_short_pick_reservation charge to an
\* allocation no more than it still has to pick.
Chargeable(a, q) == IF Outstanding(a) > 0 THEN Lesser(q, Outstanding(a)) ELSE 0

BookPick(row, take) ==
  IF take = 0 THEN row ELSE
  [allocated |-> row.allocated, picked |-> row.picked + take,
   status |-> IF row.picked + take >= row.allocated THEN "Picked" ELSE "Partially Picked"]

BookPickOnLine(ln, take) ==
  IF take = 0 THEN ln ELSE WithPickingStatus([ln EXCEPT !.picked = @ + take])

\* confirm_task once its key turned out to be new: the stock moves to the
\* staging bin (what exceeds the plan is posted to the difference bin), the
\* task advances, and _update_allocations books the pick on the reservation,
\* the allocation and the delivery line.
Confirm(t, qty, key) ==
  LET a      == AllocationOf(t)
      b      == BalanceOf(a)
      d      == DeliveryOf(a)
      open   == task[t].planned - task[t].confirmed
      posted == Lesser(qty, open)
      take   == Chargeable(a, posted)
  IN
  /\ qty > 0
  /\ stockBalance[b].quantity >= posted
  /\ stockBalance' = [stockBalance EXCEPT ![b] = PickFromBalance(@, posted)]
  /\ staged' = [staged EXCEPT ![d] = @ + posted]
  /\ ledger' = ledger \cup {[key |-> key, task |-> t, quantity |-> posted]}
  /\ differenceBin' = differenceBin + (qty - posted)
  /\ task' = [task EXCEPT ![t] = [task[t] EXCEPT
       !.confirmed = task[t].confirmed + posted,
       !.status = IF posted = open THEN "Confirmed" ELSE "Partially Confirmed",
       !.idempotency_key = key]]
  /\ allocation' = [allocation EXCEPT ![a] = BookPick(@, take)]
  /\ delivery' = [delivery EXCEPT ![d] = BookPickOnLine(@, take)]
  /\ UNCHANGED snapshot

\* A ledger entry with this key exists: the request is answered as replayed.
ConfirmOrReplay(t, qty, key) ==
  /\ OpenTask(t)
  /\ IF Posted(key) THEN UNCHANGED vars ELSE Confirm(t, qty, key)

\* From a scanner, which sends a key of its own.  A resend repeats the key of
\* a confirmation of the same task.
ConfirmFromScanner(t, qty, r) ==
  /\ \A e \in ledger : e.key = r => e.task = t
  /\ ConfirmOrReplay(t, qty, r)

\* confirm_in_background: the open quantity, without a key.
DefaultKey(t) == <<task[t].idempotency_key, task[t].confirmed>>

ConfirmInBackground(t) ==
  ConfirmOrReplay(t, task[t].planned - task[t].confirmed, DefaultKey(t))

-----------------------------------------------------------------------------
\* raise_exception.  A revised quantity above what is confirmed lowers the
\* plan (none given: the plan stays) and leaves the task for somebody to look at.
RaiseException(t, revised) ==
  /\ Docstatus0(t)
  /\ revised \in (task[t].confirmed + 1)..task[t].planned
  /\ task' = [task EXCEPT ![t] = [@ EXCEPT !.status = "Exception", !.planned = revised]]
  /\ UNCHANGED <<stockBalance, delivery, allocation, ledger, staged, differenceBin, snapshot>>

\* A revised quantity equal to what is confirmed closes the task: a short pick.
\* _release_short_pick_reservation shrinks reservation, allocation and line.
ShrinkAllocation(row, take) ==
  IF take = 0 THEN row ELSE
  [allocated |-> row.allocated - take, picked |-> row.picked,
   status |-> IF row.picked >= row.allocated - take THEN "Picked" ELSE row.status]

\* Mutant: the line asks for less but still counts the shortfall as allocated.
ShrinkRequestOnly(ln, take) ==
  IF take = 0 THEN ln ELSE WithPickingStatus([ln EXCEPT !.requested = @ - take])

ShrinkLine(ln, take) ==
  LET short == [ln EXCEPT !.requested = @ - take, !.allocated = @ - take] IN
  IF take = 0 THEN ln ELSE
  [WithPickingStatus(short) EXCEPT
     !.allocation_status = AllocationStatusOf(short.requested, short.allocated)]

CloseShort(t) ==
  LET a         == AllocationOf(t)
      d         == DeliveryOf(a)
      shortfall == task[t].planned - task[t].confirmed
      take      == Chargeable(a, shortfall)
  IN
  /\ Docstatus0(t)
  /\ task' = [task EXCEPT ![t] = [@ EXCEPT !.status = "Confirmed", !.planned = task[t].confirmed]]
  /\ stockBalance' = [stockBalance EXCEPT ![BalanceOf(a)] = ReleaseAllocation(@, shortfall)]
  /\ allocation' = [allocation EXCEPT ![a] = ShrinkAllocation(@, take)]
  /\ delivery' = [delivery EXCEPT ![d] = ShrinkLine(@, take)]
  /\ UNCHANGED <<ledger, staged, differenceBin, snapshot>>

-----------------------------------------------------------------------------
\* reverse_task: a compensating task moves the confirmed quantity back, and
\* _unwind_pick_task_allocations takes the pick off the allocation and the
\* line.  The reservation on the balance row is not made again.
UnwindPick(row, take) ==
  IF take = 0 THEN row ELSE
  [allocated |-> row.allocated, picked |-> row.picked - take,
   status |-> IF row.picked = take THEN "Allocated"
              ELSE IF row.picked - take >= row.allocated THEN "Picked"
              ELSE "Partially Picked"]

UnwindLine(ln, take) ==
  IF take = 0 THEN ln ELSE WithPickingStatus([ln EXCEPT !.picked = Floor0(@ - take)])

Reverse(t) ==
  LET a    == AllocationOf(t)
      d    == DeliveryOf(a)
      qty  == task[t].confirmed
      take == Lesser(qty, allocation[a].picked)
  IN
  /\ task[t].status = "Confirmed" /\ ~task[t].reversed
  /\ qty > 0
  /\ staged[d] >= qty
  /\ staged' = [staged EXCEPT ![d] = @ - qty]
  /\ stockBalance' = [stockBalance EXCEPT ![ReturnRow[BalanceOf(a)]].quantity = @ + qty]
  /\ task' = [task EXCEPT ![t].reversed = TRUE]
  /\ allocation' = [allocation EXCEPT ![a] = UnwindPick(@, take)]
  /\ delivery' = [delivery EXCEPT ![d] = UnwindLine(@, take)]
  /\ UNCHANGED <<ledger, differenceBin, snapshot>>

-----------------------------------------------------------------------------

\* Cancelling the delivery.  before_cancel refuses while a confirmed pick is
\* not reversed; on_cancel cancels the open tasks, gives each reservation
\* back in full and cancels the allocations.  The delivery row is locked and
\* its timestamp checked first, and every pick and release writes that row,
\* so nothing of this delivery moves in between.
\* Mutant: only tasks confirmed in full are looked at.
BlocksWhenComplete(t) == task[t].status = "Confirmed" /\ ~task[t].reversed

BlocksCancel(t) == task[t].confirmed > 0 /\ ~task[t].reversed

LiveAllocations(d) ==
  {a \in AllocationIds : DeliveryOf(a) = d /\ allocation[a].status \notin {"None", "Cancelled"}}

CancelDelivery(d) ==
  LET live == LiveAllocations(d)
      reserved == [b \in Balances |-> AllocatedOf({a \in live : BalanceOf(a) = b})]
  IN
  /\ delivery[d].docstatus = 1
  /\ \A t \in TaskIds : AllocationOf(t) \in live => ~BlocksCancel(t)
  /\ task' = [t \in TaskIds |->
       IF AllocationOf(t) \in live /\ Docstatus0(t)
         THEN [task[t] EXCEPT !.status = "Cancelled"] ELSE task[t]]
  /\ stockBalance' = [b \in Balances |-> ReleaseAllocation(stockBalance[b], reserved[b])]
  /\ allocation' = [a \in AllocationIds |->
       IF a \in live THEN [allocation[a] EXCEPT !.status = "Cancelled"] ELSE allocation[a]]
  /\ delivery' = [delivery EXCEPT ![d].docstatus = 2]
  /\ UNCHANGED <<ledger, staged, differenceBin, snapshot>>

-----------------------------------------------------------------------------
\* Everything but the supervisor's reversal.
Forward ==
  \/ \E d \in Deliveries : Allocate(d) \/ CancelDelivery(d)
  \/ \E u \in Users : ClaimAllocations(u) \/ ClaimRefused(u)
  \/ \E u \in Users, d \in Deliveries : ReadAllocations(u, d)
  \/ \E t \in TaskIds :
       \/ ConfirmInBackground(t)
       \/ \E revised \in 1..MaxQuantity : RaiseException(t, revised)
       \/ CloseShort(t)
       \/ \E q \in 1..MaxQuantity, r \in RequestIds : ConfirmFromScanner(t, q, r)

Next == Forward \/ \E t \in TaskIds : Reverse(t)

Spec == Init /\ [][Next]_vars

-----------------------------------------------------------------------------
\* Every record holds what its columns may hold; quantities of balance rows,
\* allocations and tasks are never negative (stock.py refuses a negative
\* balance, allocated_quantity is floored at zero).
TypeOK ==
  /\ stockBalance \in [Balances -> BalanceRow]
  /\ delivery \in [Deliveries -> DeliveryRow]
  /\ allocation \in [AllocationIds -> AllocationRow]
  /\ task \in [TaskIds -> TaskRow]
  /\ ledger \in SUBSET LedgerEntry
  /\ staged \in [Deliveries -> Nat]
  /\ differenceBin \in Nat
  /\ snapshot \in [Users -> SUBSET ReadRow]

\* allocation_bounds: no row ever has more reserved on it than it holds,
\* whatever allocations, picks, short picks, reversals and cancellations
\* follow one another on it.
AllocationBounds ==
  \A b \in Balances : stockBalance[b].allocated <= stockBalance[b].quantity

\* Nobody has reversed a pick yet: reverse_task puts the stock back on the
\* row and the pick back on the allocation, but reserves nothing again.
NothingReversed == \A t \in TaskIds : ~task[t].reversed

\* allocation_vs_balance: until a pick is reversed, what a row has reserved is
\* exactly what the open allocations on it still have to pick.
OpenAllocation(a) == allocation[a].status \in {"Allocated", "Partially Picked", "Released"}
StillReserved == [a \in AllocationIds |->
                    IF OpenAllocation(a) THEN Floor0(Outstanding(a)) ELSE 0]
AllocationsOn(b) == {a \in AllocationIds : BalanceOf(a) = b}

ReservationMatchesAllocations ==
  NothingReversed =>
    \A b \in Balances :
      stockBalance[b].allocated = SumFunctionOnSet(StillReserved, AllocationsOn(b))

\* A double click, or a wave release racing a manual one, releases each
\* allocation once: there is never a second pick task for it, unless the
\* first was cancelled or reversed.
LiveTask(t) == task[t].status \notin {"None", "Cancelled"} /\ ~task[t].reversed

OnePickTaskPerAllocation ==
  \A t, u \in TaskIds :
    LiveTask(t) /\ LiveTask(u) /\ AllocationOf(t) = AllocationOf(u) => t = u

\* task_double_posting: the ledger holds, for each task, exactly the quantity
\* the task says it confirmed - however often a scanner resends a request.
PostedEqualsConfirmed ==
  \A t \in TaskIds : task[t].confirmed =
    SumFunctionOnSet([e \in ledger |-> e.quantity], {e \in ledger : e.task = t})

\* What is on the staging bin for a delivery is what its line reports picked,
\* if nobody reversed a pick or no request can claim what it did not read.
StagedIsPicked ==
  SnapshotIsolation \/ NothingReversed =>
    \A d \in Deliveries : staged[d] = delivery[d].picked

\* outbound_progress: a line is never picked beyond what it asks for, and it
\* adds up: its allocated and picked quantities are those of its allocations.
PickedOf(S) == SumFunctionOnSet([a \in AllocationIds |-> allocation[a].picked], S)
AllocationsFor(d) == {a \in AllocationIds : DeliveryOf(a) = d}

OutboundProgress ==
  \A d \in Deliveries :
    /\ 0 <= delivery[d].picked /\ delivery[d].picked <= delivery[d].allocated
    /\ delivery[d].allocated <= delivery[d].requested
    /\ delivery[d].allocated = AllocatedOf(AllocationsFor(d))
    /\ delivery[d].picked = PickedOf(AllocationsFor(d))

\* Stock promised to pickers is there: until a pick is reversed, what the pick
\* tasks on a row still have to take never exceeds what the row holds, so no
\* picker finds it gone.
LeftToPick == [t \in TaskIds |-> task[t].planned - task[t].confirmed]
OpenTasksOn(b) == {t \in TaskIds : BalanceOf(AllocationOf(t)) = b /\ OpenTask(t)}

PickableStock ==
  NothingReversed =>
    \A b \in Balances :
      stockBalance[b].quantity >= SumFunctionOnSet(LeftToPick, OpenTasksOn(b))

\* A cancelled delivery holds on to nothing: no stock staged for it, no live
\* allocation, no task that could still be confirmed.
CancelledHoldsNothing ==
  \A d \in Deliveries : delivery[d].docstatus = 2 =>
    /\ staged[d] = 0
    /\ LiveAllocations(d) = {}
    /\ \A t \in TaskIds : DeliveryOf(AllocationOf(t)) = d => ~Docstatus0(t)

\* Confirmed stock is posted once and stands where the line says: the ledger
\* agrees with the tasks, and staging with the line.
ConfirmedOnce == PostedEqualsConfirmed /\ StagedIsPicked

\* A line agrees with its allocations until its delivery is cancelled, and
\* then holds nothing.
LineProgress == OutboundProgress /\ CancelledHoldsNothing

\* A balance row reserves what its allocations have still to pick, and has on
\* hand what the tasks made from them have still to take.
ReservedForPicks == ReservationMatchesAllocations /\ PickableStock

-----------------------------------------------------------------------------
\* Why the above hold: the inductive invariants of the proofs.

\* A task never confirms beyond its plan; while it is open it is not reversed
\* and a default key derived from it is none that was derived already.
TaskSound(t) ==
  /\ task[t].confirmed <= task[t].planned
  /\ Docstatus0(t) => ~task[t].reversed /\ task[t].idempotency_key \in TaskKeys

\* An allocation that can still be claimed has no live task, and a request
\* read each allocation once.
ClaimSound ==
  /\ \A t \in TaskIds : LiveTask(t) =>
       allocation[AllocationOf(t)].status \notin {"None", "Allocated"}
  /\ \A u \in Users : \A x, y \in snapshot[u] : x.name = y.name => x = y

TypeInvariant == TypeOK /\ \A t \in TaskIds : TaskSound(t)

ClaimInvariant == TypeInvariant /\ ClaimSound /\ OnePickTaskPerAllocation

\* A row that does not exist holds nothing, no allocation is picked beyond
\* what it reserves, and a picked one is picked in full.
AllocationSound(a) ==
  /\ allocation[a].status = "None" => allocation[a].allocated = 0
  /\ allocation[a].picked <= allocation[a].allocated
  /\ allocation[a].status = "Picked" => allocation[a].picked = allocation[a].allocated

LineInvariant ==
  TypeInvariant /\ (\A a \in AllocationIds : AllocationSound(a)) /\ OutboundProgress

\* A task without a row confirmed nothing; the ledger is finite.
PostingInvariant ==
  /\ TypeInvariant
  /\ \A t \in TaskIds : task[t].status = "None" => task[t].confirmed = 0
  /\ IsFiniteSet(ledger)
  /\ PostedEqualsConfirmed

\* What stands in staging for a delivery is what its tasks confirmed and
\* nobody reversed; a task has an allocation, an open one no cancelled
\* allocation, and only a cancelled delivery has cancelled allocations.
InStaging == [t \in TaskIds |-> IF task[t].reversed THEN 0 ELSE task[t].confirmed]
TasksFor(d) == {t \in TaskIds : DeliveryOf(AllocationOf(t)) = d}

StagingInvariant ==
  /\ TypeInvariant
  /\ \A t \in TaskIds :
       /\ task[t].status = "None" => task[t].confirmed = 0
       /\ task[t].status # "None" => allocation[AllocationOf(t)].status # "None"
       /\ Docstatus0(t) => allocation[AllocationOf(t)].status # "Cancelled"
  /\ \A a \in AllocationIds :
       allocation[a].status = "Cancelled" => delivery[DeliveryOf(a)].docstatus = 2
  /\ \A d \in Deliveries : staged[d] = SumFunctionOnSet(InStaging, TasksFor(d))
  /\ CancelledHoldsNothing

\* With snapshot isolation, or until a pick is reversed: what a request read
\* of an allocation it can still claim is what the row holds; the picks of an
\* allocation are those of its live task; and while a task is open its
\* allocation still reserves all that the task may confirm.
PicksAreLive ==
  /\ \A a \in AllocationIds :
       allocation[a].picked # 0 => \E t \in TaskIds : AllocationOf(t) = a /\ LiveTask(t)
  /\ \A t \in TaskIds : LiveTask(t) =>
       allocation[AllocationOf(t)].picked = task[t].confirmed
  /\ \A t \in TaskIds : Docstatus0(t) =>
       task[t].planned - task[t].confirmed <= Outstanding(AllocationOf(t))

ReadsAreFresh ==
  \A u \in Users : \A x \in snapshot[u] :
    /\ allocation[x.name].status # "None"
    /\ allocation[x.name].status = "Allocated" => x.row = allocation[x.name]

PickInvariant ==
  /\ ClaimInvariant /\ LineInvariant
  /\ \A t \in TaskIds :
       /\ task[t].status = "None" => ~task[t].reversed
       /\ task[t].status = "Cancelled" => task[t].confirmed = 0 \/ task[t].reversed
  /\ SnapshotIsolation \/ NothingReversed => PicksAreLive
  /\ NothingReversed => ReadsAreFresh

ReservationInvariant ==
  PickInvariant /\ AllocationBounds /\ StagingInvariant /\ ReservationMatchesAllocations
=============================================================================
