# A TLA+ model of frappe_wms

frappe_wms is a warehouse management system on the Frappe framework: documents
are MariaDB rows, a user's action is one HTTP request and one transaction, and
background workers run jobs and a scheduler. This directory holds a model of the
parts of it whose correctness depends on the order of steps of several actors,
the instances TLC checks, and theorems TLAPS proves about them.

## 1. The system

All state is in MariaDB tables (and, for dialog locks and queued jobs, Redis).
Services under `src/frappe_wms/services/` implement the operations; `api/` wraps
them in whitelisted calls; `events/` hooks them to document submission and
cancellation; `hooks.py` lists the scheduled jobs.

| Component | State | Operations | Correct when |
|---|---|---|---|
| Allocation (`allocation.py`) | Stock Allocation, `allocated_quantity` of a WMS Stock Balance | `allocate_delivery`, `cancel_allocations_for_delivery` | what is reserved on a row is there, and is what its open allocations still have to pick |
| Picking (`task.py`, `events/deliveries.py`) | pick Warehouse Tasks, delivery line, ledger | `create_pick_tasks`, `confirm_task`, `raise_exception`, `reverse_task`, cancel | each allocation is picked once, a confirmation posts once, line, allocation, task and staging bin agree |
| Warehouse orders (`warehouse_order.py`) | Warehouse Order, `sequence`, `status` and resource of its tasks | `attach_task`, `release_next_in_sequence`, `sync_warehouse_order`, pull, claim, skip, block, resume | tasks start in sequence, none waits for nothing, the order's status follows its tasks, a pause stays |
| ERPNext queue (`erp_sync_queue.py`) | WMS ERP Sync Log, links to ERPNext documents | `dispatch`, `run`, `retry_due`, `retry_now` | each posting reaches ERPNext once, a cancelled document leaves nothing there |
| Stock ledger (`stock.py`) | WMS Stock Ledger Entry, WMS Stock Balance | `post_entries`, `transfer_stock`, `relocate_hu_balances`, `rebuild_balances` | balances are the sum of the ledger, never negative |
| Handling units (`handling_unit.py`) | Handling Unit tree, bin of each | nest, unnest, move with stock | a unit and everything in it are in one bin; no cycles |
| Inbound (`receipt.py`, `cross_dock.py`, `quality.py`) | Inbound Delivery, Goods Receipt, Warehouse Requests, Cross-Dock Plans, inspections | receive, prepare and submit, reverse, put away, plan and cancel cross-docks, decide | a line never receives more than expected, received stock moves once, what is promised to a customer has its source |
| Packing and shipping (`packing.py`, `packing_station.py`, `issue.py`, `shipping.py`) | units and their delivery stamp, Shipment and its stops, Goods Issue | pack, close, load, depart, issue, reverse | issued is what the posted issues took and at most picked; a unit leaves once, packing keeps stock findable |
| Orders from ERPNext (`erp_integration.py`, `delivery_split.py`) | links of orders, drafts and deliveries | replicate, change, reduce, split, withdraw, post back | the deliveries never commit to more than the order, started work is not taken away |
| Counts (`inventory_count.py`) | count rows, blocked bins, recounts, approvals | generate, snapshot, record, post, cancel | a count corrects the book by what is missing, a bin is blocked while it is counted |
| Production supply (`production_supply.py`, `layout_control.py`, `replenishment.py`) | Production Material Request, supply area, crate and kanban bins | stage, consume, return, refill, close | reserved, staged and consumed add up, a low bin is refilled |
| Kitting (`kitting.py`) | Kitting Order, its tasks, the work center bin | create, stage, complete, cancel, put away | components and kits balance |
| Yard (`yard.py`, `transport_unit.py`) | Dock Appointment, Transportation Unit, yard tasks | book, check in, dock, move, depart, no-show | one truck per door and slot, a unit is where its record says |
| Material flow and post-processing (`mfs.py`, `ppf.py`) | WMS MFS Telegram, PPF processing log | send, retry, receive, scheduled actions | every telegram is logged, every failed one retried |
| Waves (`wave.py`) | WMS Wave | add, release | a delivery is released once |
| Numbering (`numbering.py`) | number counters and pools | `next_number` | no number twice |
| Requests (`idempotency.py`, `locks.py`, `concurrency.py`) | cached results, Redis locks | `run_once`, lock, retry | a repeated request acts once |

Components call each other inside one transaction (a confirmation posts stock,
updates the allocation and the delivery, syncs the order), share rows (balance
rows, deliveries, orders) between transactions, and send work to background
jobs after commit (`confirm_in_background`, `erp_sync_queue.run`).

**Concurrency.** A transaction runs at REPEATABLE READ: plain reads see the
tables as they were at its first read, locking reads and UPDATEs see the latest
committed rows. With `innodb_snapshot_isolation=ON` (MariaDB 11.6 and later) a
locking read or an UPDATE of a row that changed since the first read fails, and
`retry_on_deadlock` runs the request again; `concurrency.py` says why this is
left on and where it is lifted. On an older server the stale read goes
unnoticed. The constant `SnapshotIsolation` of OutboundPicking, WarehouseOrder and
ErpSyncQueue is this setting; StockLedger (`Refuse`), Yard (`WritesWhatItSaw`) and the
staging of ProductionSupply (`LocksWhatItRead`) assume it.

A request is one action when everything it decides from is read with a lock, and two
(what it read, then all it locks and writes) when it decides from plain reads. Locked
rows stay as they are until the commit, so the second step loses nothing by being
atomic. Plain reads that decide something, and are modelled as such, are those of
`create_pick_tasks`, of the recompute of an order, of `dispatch` and `retry_now`, of
`relocate_hu_balances`, of everything the yard asks of other bookings and units
(`_clashes`, `_occupant`, the carrier's bookings of a day) and of `stage_items` for the
locations and tasks of other orders (`_free_location`, `_planned_out`).

Some operations decide from plain reads too and are single actions in the model, so its
properties speak of them in turns only: the Create button of an order (`CreateByHand`,
`services/sales.py`; nothing locks the order, so nothing is said of the button pressed
twice at once), the plan rows of
cross-docking, `create_shipment`, the automatic staging of the hourly job, and a snapshot
beside a task that is created at the same moment. Where a single action stands for a
request that does lock (`receipt.py:287`, `cross_dock.py:37`), the model shows that the
protocol is right under the lock, not that the lock is needed.

## 2. Modules

Every module but `StockAccount` is a translation of code; the comment of a
definition names the function it stands for where the name does not, and
`PROJECT.json` maps each definition to its lines. Requests are single actions unless
a paragraph says otherwise (section 1), and "work" bounds count operations.

### OutboundPicking (allocation.py, task.py, events/deliveries.py)
Two or more deliveries compete for balance rows. `Allocate` drains candidate rows
one after the other (which rows the filters and removal rules leave, and in which
order, is arbitrary: `candidates`). `ReadAllocations`/`ClaimAllocations` are the two
halves of `create_pick_tasks`: the plain read, and the state-guarded UPDATE of
`_claim_allocations` with the tasks it makes. `ConfirmFromScanner` and
`ConfirmInBackground` are `confirm_task` with a key of the scanner or the derived
one, `RaiseException` and `CloseShort` the two outcomes of `raise_exception`,
`Reverse` is `reverse_task`, `CancelDelivery` the cancel events. Cancelling is one
action: Frappe locks the delivery row before the cancel events and compares its
timestamp, and every pick and release of the delivery writes that row. The conjunct
`reserved \in [Balances -> Nat]` in `CancelDelivery` never restricts anything (a sum
of naturals); the proofs read the type of `reserved` from it. Quantities are integers
(the code's floats with a tolerance of 1e-6).

### WarehouseOrder (warehouse_order.py and its callers)
One order and its tasks. `Begin` is the first read of a request of a resource;
every other action of it uses `snapshot` for the plain reads and `order`, `task`
for the locking ones. `AttachTask`, `PullNext`, `SkipOrder`, `Confirm`, `StopTask`
(an exception that leaves the task), `CloseShort`, `SkipTask`, `SplitTask`,
`CancelPicks` and `CancelStaging`, `Block` and `Resume` are the callers of
`sync_warehouse_order` and `release_next_in_sequence`. Row freshness is decided
by comparing the row's values; a row changed and changed back passes, which adds
behaviours. `Next` is the union of what resources do with the work (`Executing`), taking
and giving back the order (`Dispatching`), and `Supervision` (skip a task, split it,
block, resume). `supervised` is a history variable, no column: it says whether there was
any supervision yet. Task statuses "Available" and "In Process" are left out: no service
writes them.

### ErpSyncQueue (erp_sync_queue.py, erpnext_sync.py)
`Post` is posting a document in the warehouse with `dispatch` in it (inline or
queued), `BeginCancel`/`Cancel` the cancellation with the reversal's dispatch,
`BeginRun`/`Run` one row executed by a worker (from the enqueued job or from
`retry_due`), `BeginRetryNow`/`Run` the supervisor's `retry_now`. `Lost` is a worker
that dies, a deadlock victim, or a row refused by snapshot isolation: the
transaction leaves nothing. ERPNext documents live in the same database, so a
posting and its outcome commit together. The four kinds of documents are the four
ways the operations guard themselves: receipts and issues look at `docstatus` and
at the link, adjustments (and kitting orders, over-differences and inspections,
which are never cancelled) at the link, posting changes at nothing, counts are
posted in passes. Backoff times are abstracted: a failed row may be due at any
moment, so every order of retries is covered.

### StockLedger and StockAccount (stock.py, handling_unit.py, stock_adjustment.py, posting_change.py, difference.py, task.py moves)
Balance rows per unit, bin and stock type; beside them the sum of their ledger
entries. `PostEntries` is what every posting goes through: rows below zero are
refused, the unit's weight and status follow. Postings (`PostReceipt`, `PostScrap`,
`PostChange`, `RecordOver`, `ClearOver`, `CancelDocument`) lock what they read and
are one action. A request about units (`BeginRequest`, then `Nest`, `Unnest`,
`RelocateUnit`, `Recycle`) reads units and the names of their rows from a snapshot
and writes later: two actions, refused (`Refuse`) when a row it locks has changed.
`Moves` are the warehouse tasks that carry stock into a unit, a bin, or a unit made for
it. `RebuildBalances` is the administrator's `rebuild_balances`; the history variable
`rebuilt` records that it happened. `UnitsHoldTheirStock` says of every state that a unit's
record shows what is booked on it, and of the states before a rebuild that no balance is
negative and a unit's stock is in one bin (a rebuild puts stock back where it was posted,
section 5).

`StockAccount` is the abstract specification: an account (holder and stock type)
changes by what a document books, and always as much as the books; a reservation is
made and released, never moved to another account. `KeepsAccounts` says that StockLedger
implements it, with `held`, `booked` and `reserved` as the sums over the bins: nesting,
relocating, splitting and recycling units are stutters of it.

### InboundDelivery (receipt.py, cross_dock.py, quality.py, inbound side of task.py)
Receipts from the scanner (`Receive`) or prepared on the desk (`DraftReceipt`,
`SubmitReceipt`), production receipts, reversal, returns and their mirror in ERPNext
(`CreateReturn`, `MirrorReturn`), putaway requests split into pallets, planned and
opportunistic cross-docking (`PlanCrossDock`, `FindDemand`; a receipt is `Routed` to planned
docks, found docks and putaway), completing an inbound or an outbound delivery short, and
inspections by samples or by decision.

### PackAndShip (packing.py, packing_station.py, shipping.py, issue.py)
Units are stamped with a delivery or are found by the picks into them (`DeliveryUnits`);
stock itself is not marked. The station's operations (`Pack`, `PackByInstruction`,
`PackHU`, `CloseHU`, ...) move quantities between units; `CreateShipment`,
`ConfirmLoaded`, `Depart`, `CompleteShipment` load them; goods issue is posted with one
tap, from a screen loaded earlier (`ShowReady`, `SubmitScreen`), or by the departure.

### OrderReplication (erp_integration.py, delivery_split.py)
A Sales Order and drafts become Outbound Deliveries: on submit, by hand, when a
draft is saved; `UpdateItems` increases, reduces and removes rows around the quantities
the warehouse has started on, `Split` divides a delivery (and its draft), goods issues
are posted back at once or through the queue (`PostQueued`), reversed, closed short.

### ProductionSupply (production_supply.py, layout_control.py, replenishment.py)
Staging of a Work Order's material to a supply area by five methods, over a location
of a deconsolidation work center (`LocationFor`, first and onward leg), consumption,
returns, refills of crate and kanban bins, the hourly job. `StageSingleOrder` and
`StageCrossOrder` are requests that nobody comes between; `BeginStaging`/`EndStaging` are
one that has read the locations, stock and tasks before others wrote: what it locks (the
items and the stock row) must still be as it read it, the rest need not. Two histories, no
columns, say what happened: `strays`, the orders whose location may be another one's
(staged so, or reopened by a cancelled consumption after their location was given away),
and `stranded`, what a leg closed short left at a location.

### Yard (yard.py, transport_unit.py)
Dock appointments (`CreateAppointment`, `PlanTruck`, recurring ones), check-in, doors,
check-out, no-shows; transportation units that follow the appointment or are moved by
yard tasks; the gate check of the documents on a truck. A request locks the booking, unit
or task it changes and reads the others plainly, so every operation takes the tables it
reads as a parameter `v`: those that stand (`Standing`), or those a desk read before others
wrote (`Look`). Rows that it writes must be as it read them. The history `missed`, no
column, has the pairs of bookings of which one was written by a request that had not seen
what became of the other.

### InventoryCount (inventory_count.py, count side of erpnext_sync.py)
Counts generated by procedure, requested, or opened by a pick that empties a bin;
snapshot with blocked bins, recording, found lines, posting in passes with tolerance,
recount and approval, cancellation; picks and ad hoc moves go on meanwhile. Nothing the
code allows is kept out: counts overlap, a cancelled count is counted again (`request_recount`
does not look at its status), a posted line is recorded again, a pick allocated before the
snapshot is released during it. `Remember` keeps, per bin, which of these happened:
`disturbed` (a task or another count came to a bin that is counted, or a line was found where
a task is open), `recalled` (a cancelled count of it was taken up again), `again` (a posted
line of it was recorded again), `overdrawn` (a move took reserved units). The properties name
the history that excuses a bin, and no other.

### Kitting (kitting.py)
Assembly and disassembly orders at one work center bin: staging tasks, completion,
putaway of the output, cancellation. Tasks reserve nothing, and orders share what
stands at the work center. Its specification is named `KittingSpec` (and that of the yard
`YardSpec`), so that a module may extend it beside another one.

### PostProcessing (idempotency.py, concurrency.py, mfs.py, ppf.py)
A request of the RF app runs once per key; its document's action sends a telegram from
within the transaction; the transaction may commit, meet a deadlock and run again, or
die, and the action alone may fail (`RunActionFails`): its savepoint is rolled back with the
log row, the document stands. Then the retry job, acknowledgements and the PLC's
confirmations. `PlcConfirms` has one confirmation of a request under way at a time; a second
frame is read after it.

### The MC modules
MC modules give TLC the model values, the symmetry of interchangeable users, requests,
deliveries (of picking), resources, receipts and shipments, and small instances. Where a run checks two or
three components that share no state, the MC module composes them: the variable `focus`
says, from the initial state on, which component the behaviour is about, and the others
stay as they were at first. The same variable separates behaviours that a property must
tell apart (picks are reversed or not; the order is reordered by a supervisor or not).
No liveness is checked under symmetry.

`Lapses` of ProductionSupply is the set of four things users do although the code lets
them go wrong (section 5 names them). The run leaves them out and so says what the code
guarantees a careful warehouse. Each of them breaks `StagingAddsUp` or, a reversed staging
task, `WorkCenterKeepsOrder`; `ReturnAgain` does in ten operations, beyond the bound of the
run.

## 3. Runs

Bounds were raised until every action and every branch fired and the hazard of
the run happened (each property's mutant, listed in `PROJECT.json`, is found
violated inside the same bounds).

| Run | Instance | Shows |
|---|---|---|
| picking | 2 deliveries of 2, 2 users, 2 keys, without snapshot isolation: one row of 2 with reversals, or two rows of 3 and 1 without | no row has more reserved than it holds, the claim keeps one live task per allocation, one posting per confirmation, lines add up, a cancelled delivery keeps nothing; until a pick is reversed, reservations are what open allocations still have to pick, pickers find their stock, and what is staged is what the line reports |
| warehouse_orders | 2 resources; 3 tasks in 2 sequences that are executed, or 2 tasks with pull, claim and skip as well, or 2 with a supervisor who pauses, resumes, skips and splits (1169350 states) | tasks are released in sequence, no task waits for nothing, the status follows the tasks, open work is with the owner of the order; an order is Completed only when all its tasks are done, a task that is done is never worked on again, no recompute clears a pause |
| erp_and_orders | queue: a receipt and a count of 2 passes, a worker, a clerk, 1 refusal, mode changes; orders: 1 order of 2 rows changed several ways, 2 drafts, 5 deliveries | what was posted is in ERPNext or in the queue, once and in order, what is settled stays so, a cancelled document leaves only what a queued reversal removes; deliveries never commit to more than the order, started work is kept, drafts and deliveries agree |
| queue_and_yard | an adjustment, a posting change, 2 workers, a clerk, 1 refusal of 2 attempts; 2 doors, a spot, 3 appointments and 2 units of a carrier with one truck a day, no-shows after one slot, 4 requests in turn, or 3 of which one read before the others (280700 states) | ERPNext ends up with what it should hold; two trucks are booked on one door and slot, or exceed the capacity, only where a request had not seen the other booking; units are where they are said to be, a plan ends |
| inbound_and_shipping | 3 inbound deliveries (purchase, return, production), 2 receipts, 2 customers, stock for less than they want; 2 deliveries in 3 units, 2 shipments, loose stock on the table | received, planned, reserved and moved quantities agree whatever is reversed, cancelled or redirected; issued is what posted issues took, units leave once, the station keeps stock findable |
| stock_accounts | 2 units in 2 bins, 2 stock types, one document, one clerk, 2 requests | a unit's stock is in one bin and is what its record says; StockLedger implements StockAccount, rebuilds included |
| counting_and_supply | 2 bins of 0 or 2, 2 counts, 2 procedures, with and without recount and approval, 8 operations; 2 production orders, one location, all methods and modes, 7 operations, or both orders open and 4 of which one staging read before the others (1537514 states) | reservations survive counts unless a move takes them, a bin stays blocked as long as the count runs that blocked it and no longer, posted variances of bins nobody reached meanwhile are what was missing, and mirrored once; staging, reservations and tasks add up, what is at a location is on its way but for what short legs left, a location is shared only after stagings at once or a reopened order, a low bin is refilled |
| kitting_and_requests | 2 kitting orders over 4 storage lines; 2 requests with telegrams, one resend each, one fault (558747 states) | components and kits balance; a request acts once, no log is without its document, a failed telegram is retried |
| counted_twice, reversal_overtakes, replicated_twice, stock_projection | as above, the composed ones with one focus | violations, section 5 |

`CHECK_DEADLOCK FALSE` everywhere: when everything is picked, confirmed or posted
the system really stops.

Two tasks per allocation and two allocations per row and delivery are what a
reversal followed by a new release needs; two users are enough for every race,
since each conflict is between one request that read and one that committed in
between; a third task of an order is what puts a held task behind two others.
Two units are what nesting and a merge need, two bins what "in one bin" needs; five
to eleven operations are the longest chains (receive, plan, allocate, confirm half, reverse;
or snapshot, pick, record, recount, record, approve) with one intruder. A second count is
what overlaps with the first. A second
shipment and a third unit are what a shared unit needs; three deliveries of an order what
a split and a rebuilt delivery leave open.

Each composite property names its parts, in the component's module or in the MC module,
and keeps them together because one question is asked of them: `ConfirmedOnce` is
`PostedEqualsConfirmed` and `StagedIsPicked`, `LineProgress` is `OutboundProgress` and
`CancelledHoldsNothing`, `ReservedForPicks` is `ReservationMatchesAllocations` and
`PickableStock`. The type invariants are proved, or are such a part. `IssuedIsPosted` and `PackingKeepsStock` say in their definitions where they
stop: stock taken from the table by hand is issued beyond what was picked, and a unit
that serves two deliveries is out of the station's reach.

`erp_and_orders`, `warehouse_orders` and `queue_and_yard` run with
`SnapshotIsolation = TRUE`: their properties need it (section 5). `picking` runs without
it, and so covers both settings: the setting only refuses steps. The one exception is
the first half of `StagedIsPicked`, which with the setting on holds after reversals as
well: that half is proved (section 6) and not exercised by the run.

`OrderFollowsItsTasks` and `OwnerOfOpenWork` end with the first supervision
because a supervisor breaks them: splitting a task in exception copies the resource of an
order that was skipped since (`task.py:409`), "Skip Task" leaves the status of the order
as it was, and a request that read the order as paused does not recompute it after a
resume.

## 4. Fairness

- ErpSyncQueue (`ERPNextCatchesUp`): for each row of the log, `retry_due` takes it up again
  and again as long as it is due, and not every one of these runs dies (both strong
  fairness). The first is the cron entry of `hooks.py` (every 10 minutes, rows in order
  of creation; the limit of 200 rows per pass is assumed not to be reached), the second
  is that workers do not crash for ever. Nothing is assumed of the enqueued job (it may
  be lost), of users, or of ERPNext, which refuses `MaxRefusals` times.
- ProductionSupply (`LowBinIsRefilled`): the hourly job of `hooks.py` runs again and
  again, unless there is nothing for it to do. Confirming the refill is work of people;
  the property promises the refill's task, not its arrival.
- Yard (`PlansEnd`): weak fairness of the clock and of the hourly job that marks no-shows.
  The warehouse has a time for no-shows (`NoShowAfter = 1`): where it is 0 the job passes the
  warehouse over (`yard.py:310-311`, and `Overdue`), and a booking may hold its door for good.
- PostProcessing (`FailedIsRetried`): weak fairness of the retry job. The job may be aborted
  and workers die, `MaxFaults` times in all; an endpoint whose every acknowledgement cannot be
  decoded aborts every run and is not covered.

The other components are driven by people who may stop at any time, so nothing is
promised about them eventually.

## 5. Where the code and its documentation differ

Four of the differences are runs that must end in a violation; the trace is the
scenario, and `PROJECT.json` quotes the line.

| Run | Property | Scenario |
|---|---|---|
| counted_twice | `CorrectsTheBook` | a delivery is allocated, its bin is counted, the pick is released and confirmed during the count: the count posts the picked unit as a loss as well |
| reversal_overtakes | `ReversalComesLast` | an adjustment is posted in queued mode, the mode becomes synchronous, the adjustment is cancelled (its reversal finds nothing to reverse), the queued posting runs: ERPNext keeps it, against "a reversal never overtakes its posting" |
| replicated_twice | `NeverOverCommitted` | a goods issue waits in the posting queue, the order is changed: the quantity issued goes on a second delivery |
| stock_projection | `BalancesAreProjection` | a unit is nested or relocated, then the balances are rebuilt: its stock is back in the old bin |

The models also have these sequences, which the code allows; no run states them as a
property, and they bound what the properties above can claim.

Picking and orders:
- a reversed pick reopens its allocation and reserves nothing (`task.py:997`; the load
  test's invariants, `tests/load/invariants.py:11`, expect the reservation): which is why
  `ReservationMatchesAllocations` and `PickableStock` speak of behaviours without reversals;
- after a reversal and a new release the new task derives the old key, and its first
  confirmation is answered as a replay (`task.py:636`);
- an exception that lowers the plan of a pick and a second one that closes the task
  release only the second shortfall (`CloseShort` after `RaiseException`);
- a task with a lower sequence joins an order whose later one is already open: two
  sequences are workable (`warehouse_order.py:219`);
- a task in exception keeps its resource when the order is skipped, so its tasks may
  belong to two resources (`OwnerOfOpenWork` speaks of open work only);
- `raise_exception` does not lock the order: beside a `resume_warehouse_order` the resumed
  order stays Open with its lead task in exception;
- without snapshot isolation, two requests can each leave a held task to the other, a
  recompute can overwrite a pause, and Retry now can set a row just done back to Failed
  and post it twice.

ERPNext:
- after `MAX_ATTEMPTS` refusals nothing retries a posting ("retried with backoff until
  it succeeds", `erp_sync_queue.py:9`), and the later rows of its document wait for it;
- a Stock Entry draft whose delivery was split no longer mirrors it (`DraftKind = "Stock
  Entry"`), and reducing an order subtracts a quantity both as free and as open
  (`_reduce`) when it is on several deliveries.

Stock and units:
- a difference cleared into a unit that stands elsewhere, or a document cancelled after
  its unit moved, puts a unit's stock into two bins (the exceptions in `OneBinPerUnit`); a
  rebuild after a relocation does, too, and makes a row negative when some of it was
  issued since;
- stock of units nested in a unit carried by a task follows only through the unit records
  (`_move_hu_and_descendants`), and an allocation keeps naming the row its stock left.

Inbound and shipping:
- a return whose ERPNext posting is queued can be returned a second time
  (`receipt.py:528`);
- a unit shared by two deliveries (packed together, or cross-docked into a picked unit) is
  issued whole with the first; the second can then not be issued (`issue.py:59`, beside
  `shipping.py:57-59`);
- a screen loaded before a goods issue can issue the quantity again when loose stock
  was packed meanwhile; a shipment completed after the reversal of its issue stays
  completed; a reused carton keeps the stamp of the delivery it was shipped with.

Production and yard:
- each member of `ProductionSupply.Lapses`: an order returned, consumed or closed while its
  return is under way (`ReturnAgain`), a return task closed short (`ShortReturn`), an exception
  on a task for several orders (`ShortMixed`), a staging task reversed (`ReverseStaging`);
- two stagings at once take one location, against "a free one (no stock, no open task, not
  another open order's)" (`production_supply.py:216`): `_free_location` reads plainly and only the
  order's own row is written (`EndStaging` after another staging; the history `strays`);
- a first leg confirmed in part and closed short is Confirmed and nothing continues it
  (`task.py:455-457` does not call `layout_control.advance`), against "when it is fully confirmed
  the second leg is created from what actually arrived" (`layout_control.py:6-7`): what it brought
  stays at the location (the history `stranded`);
- two requests at once book one door for one slot, or send two trucks there, against "two active
  appointments never overlap at one door" (`yard.py:9`): `_clashes` and `_occupant` read plainly
  and nothing locks the door (the history `missed`);
- a consumption cancelled after its order was closed opens the order again, whose location
  may have another order by then (the history `strays`);
- `confirm_yard_move` brings a unit that departed back into the yard, `to_door` does not look at
  bookings that overlap (hence "or one of them stands there" in `BookingsDisjoint`), a
  no-show leaves its units Planned, and the gate check passes for a unit moved back.

Counts, kitting, requests:
- two counts take up one bin and the one that blocked it is cancelled or posts: the bin is
  released while the other count runs (`inventory_count.py:83-85`, `123-126`), against "Block every
  bin this count touches" (`inventory_count.py:106`). `BlockedByItsCount` speaks of the count that
  blocked the bin, and a bin that two counts take up is `disturbed`;
- a pass recorded again after the review is mirrored twice (`again`), a recount of a count
  cancelled since counts bins that are not blocked (`recalled`), and an ad hoc move takes
  reserved stock (`task.py:111`, `overdrawn`);
- a line is found in a bin with an open task, which `snapshot_count` refuses to count and
  `add_found_line` does not (`inventory_count.py:133-157`): a unit is on its way to an empty
  bin where something is found; the found line is recorded, the unit arrives, the line is
  recorded again with what now stands there and posts the unit as too much (`disturbed`);
- a telegram leaves inside its transaction (`mfs.py:96`) and its log row may be rolled back,
  against "everything sent or received is logged" (`mfs.py:4-5`): by a deadlock or a dying worker,
  and the PLC gets the telegram again with the next attempt; or by an action that raises after
  sending (an acknowledgement that cannot be decoded, `mfs.py:68-70`), whose savepoint goes
  (`ppf.py:63-66`) while the document stands;
- `_close_staging` cancels the kitting order's tasks that are already half confirmed;
- an acknowledgement after the time limit counts as failed, so the telegram goes out
  twice; an acknowledgement that cannot be decoded aborts the retry job; a confirmation
  of the PLC that comes before the commit fails and is not read again (`FailedIsRetried`
  says nothing of it);
- the scheduled actions (not modelled) read 200 documents of their selection, those they are
  done with included (`ppf.py:143-148`): where an action leaves its documents in the selection the
  rest is never reached, against "runs for the documents its filters select" (`ppf.py:137`);
- `run_once` caches the result before the request commits: a worker that dies in between
  leaves an answer without a document (`idempotency.py:25`).

## 6. Proofs

Eight modules hold theorems. Each extends the module it is about and is laid out the same
way: lemmas about single rows, one lemma per action, a lemma for a step, and the theorem
by PTL. The inductive invariants of picking are in `OutboundPicking`, the others in the
proof modules. All theorems hold for any values of the constants that satisfy the named
assumption of their module; what a theorem needs beyond that is in its `ASSUME`.

`Sums` proves about `SumFunctionOnSet` of the community modules what all the others need:
the sum over the empty set, with an element more, less or changed, over a part of the set
outside of which there is only 0, of two functions, under a renaming. The library
defines it by recursion over subsets, and induction with an operator parameter is out of
the provers' reach; each lemma instead takes a smallest set for which it fails
(`LeastSubset`) and removes one element of it.

`OutboundPickingProofs` (any finite sets of deliveries and
rows, any users, stock and demand; with and without snapshot isolation):

- `TypeCorrect`: `Spec => []TypeOK`. It is not inductive alone: that a task never
  confirms more than its plan, and that an open task is not reversed and has an
  unused kind of key, is needed to keep quantities natural (`TypeInvariant`).
- `ReservationWithinStock`: `Spec => []AllocationBounds`. Every writer of a row either
  reserves at most what is available, or takes stock together with its
  reservation, or releases; the floor at zero of `release_allocation` is what makes
  releases harmless.
- `SinglePickTask`: `Spec => []OnePickTaskPerAllocation`, by `ClaimInvariant`: an
  allocation that can be claimed has no live task, and a request read each allocation
  once.
- `PostedOnce`: `Spec => []PostedEqualsConfirmed` (`PostingInvariant`: what has no row
  confirmed nothing, and the ledger is finite). A resent confirmation is answered or posts
  what it confirms.
- `LinesAddUp`: `Spec => []OutboundProgress` (`LineInvariant`: no allocation is picked
  beyond what it reserves, and a picked one is picked in full).
- `CancellationIsComplete`: `Spec => []CancelledHoldsNothing` (`StagingInvariant`: what
  stands in staging is what tasks confirmed and nobody reversed, so that cancelling the
  tasks clears it).
- `ReservationsAddUp`, `StockIsThere`, `StagedAsReported`: `ReservationMatchesAllocations`,
  `PickableStock` and `StagedIsPicked`, from `ReservationInvariant`. The heart is
  `PicksAreLive`: until a pick is reversed, the picks of an allocation are those of
  its live task, and an open task's allocation still reserves all the task may confirm.
  `ReadsAreFresh` says why the plain read of `create_pick_tasks` does no harm until then.
- `PickedIsConfirmedOnce`, `LinesFollowAllocations`, `StockIsReserved`: the six above in the
  three properties of the run `picking`.

`WarehouseOrderProofs` (any resources, tasks and sequence numbers):

- `TypeCorrect`: `Spec => []TypeOK`, whatever the setting of the database.
- With `SnapshotIsolation`, from `SafeRows` (types, and tasks numbered without gaps):
  `NotCompletedTooEarly` (`[]CompletedIsFinished`), `FinishedIsFinal` (`FinishedStays`),
  `ReleasedInOrder` (`ReleasedInSequence`) and `OnlyResumed` (`PauseIsDeliberate`). The last
  three are about steps: each writer decides on the rows it read, and may write only
  if they are still so.
- `OwnersWork` and `OrderFollows`: `[]OwnerOfOpenWork` and `[]OrderFollowsItsTasks`, that is,
  until a supervisor intervenes (section 3 says what he does to them). `OrderFollows` needs
  `CountInvariant`: the counters of the order are the numbers of its tasks, and what a
  request has read is an earlier state of them. As tasks are only added and finished,
  equal counters then mean that no task came or finished in between, so a status
  recomputed from the read is right for what is written.

The assumption is needed: TLC breaks each of these with `SnapshotIsolation = FALSE`,
`NotCompletedTooEarly` included.

`QueueAndYardProofs`, about ErpSyncQueue (any documents, workers, clerks and bounds):

- `TypeCorrect`: `Spec => []TypeOK`, inductive as it stands: the log only grows, so
  the rows a request has seen are still there, and rows are replaced by rows.
- `SettledStaysSettled`: with `SnapshotIsolation`, `Spec => SettledStays`. The
  strengthening is `RetryInv`: the row on which "Retry now" was pressed was pending
  in the snapshot. Every writer of a status decides on what it has read and writes
  only a row that is still so. Without the assumption TLC breaks the property.
- `PostingsReachErp`: with `SnapshotIsolation`, `Spec => []PostedOnceInOrder`, for both modes
  and changes between them. `PostingInv` adds to it, for each document, what its rows in the
  log, its rows in ERPNext and its link say of each other (`View`, `LinkOK`), that rows are
  posted in the order they were queued, and that what a session has seen is an earlier
  state (`SnapsOK`).
- `ReversalsReachErp`: `[]CancelledIsReversed` as long as the warehouse keeps its posting mode
  (`QueuedSpec`), and `ReceiptsReversedInBothModes`: the same of `Spec` when there are no
  adjustments. `ReversalInv` adds `OneMode` and `CancelOK`: a cancelled document has as many
  live entries in ERPNext as reversals queued. An adjustment cancelled after a change of mode
  breaks it (`reversal_overtakes`, section 5): this is where the proof first failed.

and about Yard (any finite numbers of appointments, units, doors and documents, any spots,
carriers, settings and bounds that satisfy `YardAssumption`):

- `YardKeepsItsInvariant`: `YardSpec => []YardInvariant`, which joins the properties with the
  types, those of what the documents are told and of what desks have read included (a
  shipment's door becomes a booking's). Every write of a booking is one of two kinds: it is
  saved after `Valid`, and then, at a door, only where the request saw no other truck
  (`SavedKeeps`), or it ends (`BookingsEnd`). `Valid` speaks of the bookings the request *saw*;
  those that stand differ from them only in bookings that become `missed` with this very
  step, and what has been missed before excuses no more than it did (`MoreMissed`).
  The two parts of a save need each other: `Clashes` keeps a plan off another one's
  slot, but not a truck from a door, which only `Occupied` does. Recurring bookings are saved
  one after the other, the second against what the first one left (`BookedFits`).
- `TrucksKeepTheirPlace` and `CarriersKeepTheirCapacity`: `TrucksHaveTheirPlace` and
  `WithinCarrierCapacity`, from it. With no request at once nothing is ever missed, and they
  say it of all bookings; without the exception TLC breaks the first (section 5).

`InventoryCountProofs` (finitely many bins, natural quantities, any stock, procedures,
rules and number of counts; no theorem assumes anything of what users do):

- `TypeCorrect`: `Spec => []TypeOK`. `TypeInvariant` adds that the counts are a sequence of
  counts, that a draft has no lines, that a posted count has only posted lines, and that
  a bin never has more open picks than allocations (a pick takes its reservation with it).
- `LossesKeepReservations`: `Spec => []ReservationsAreCovered`. Only postings and moves lower a
  bin's quantity without lowering its reservations; `_post_row` looks at them, the move
  does not, hence the exception of `overdrawn` bins.
- `BlocksAreKept`: `Spec => []BlockedByItsCount`. `BlockInvariant`: outside of recalled bins no
  two running counts hold the same bin, since a snapshot records as its own only the bins that
  were not blocked. Every operation is one of three (`CountsStep`): it adds drafts, lets one
  count go on with more bins, or ends one. What is *not* provable, that a counted
  bin is blocked, is in section 5: the second count of a bin does not hold it.
- `CountsAreRight`: `Spec => []CountsCorrectTheBook`. `LedgerInvariant`: a line has a ledger entry,
  of its variance, exactly when it is posted, and as long as nobody recorded a posted line again the
  mirrored quantity is the sum of all entries. `BookInvariant` speaks of the bins that are
  in no history: no two started counts have such a bin in common, it has no open task while
  it is counted, and a line of it that is not posted has the quantity on the books.
  The histories are weak exactly where the invariant needs it: a task at a bin *before*
  the snapshot refuses the snapshot, and only those that come during it count.

`StockLedgerProofs` (any finite numbers of units, bins and stock types, any documents,
clerks, opening stock and bounds):

- `StockInvariant`: `Spec => []IInv`. `TypeInv`: types; ledger and balances agree *per account*
  (`Agree`: row by row they do not, section 5); each unit record is weighed as booked
  (`Weighed`), now and in every snapshot an open request still holds. `Orderly`, until a
  rebuild: no balance is negative, and, unless a document was cancelled or cleared by hand, a
  unit's rows with stock are in one bin (`Together`), again now and in the snapshots. The
  snapshots are needed because a request carries the rows it *saw*: `NothingUnseen` shows that
  when no unit it carries has changed since, there is nothing on them it did not see, for a
  posting weighs the unit and a carry moves its record.
- `StockOfUnits`: `Spec => []UnitsHoldTheirStock`, from it.
- `StockKeepsAccounts`: `Spec => KeepsAccounts`, the refinement of `StockAccount` with sums over
  bins as the mapping. Every step is one of four: it posts entries (`BooksImplements`: a
  posting of one or two rows changes one or two accounts, or, between bins of one
  account, none), reserves or releases (`ReservationImplements`), carries rows to another
  bin or rebuilds (`QuietImplements`: no account changes, for what leaves the old rows is
  gathered in the new one, `GatheredSums`), or leaves the stock alone.

`InboundDeliveryProofs` (any deliveries, receipts and quantities that satisfy
`InboundAssumption`, any bounds). Sums over the requests and plan rows of a delivery are
written as totals over the whole sequence, where a row of another delivery counts 0
(`TotalOf`): appending, rewriting or joining rows then changes a total by what the rows weigh.

- `InboundInvariant`: `Spec => []IInv`, in three parts. `ReceiptInv`: received quantities, and
  what ERPNext was told of returns, are the sums over the receipts that say so. `DockInv`:
  what tasks carried away plus what still stands in the receiving bin is *at most* what the
  receipt brought (less: a decision's rejects may have moved). `CrossInv`: each open outbound
  line satisfies `Line`. `MovedWasReceived` and `ReservedHasSource` are not inductive alone: the
  first needs the stock left at the dock, because a reversal takes back what is there and a
  task fails when it is gone; the second needs that a cross-docked quantity is picked by
  exactly the confirmed tasks (`ArrivedIsPicked`), or `_apply_cross_dock_fulfillment` would
  raise the allocation past its sources, and that a closed delivery has no plan and no
  running request (`ClosedWantNothing`).
- `ReceivedIsPosted`: `Spec => []ReceiptProgress`, from `ReceiptInv`, which is inductive alone.
- `LeftWasReceived`: `Spec => []MovedWasReceived`, and `ReservedOnce`: `Spec => []CrossDocksAddUp`.
  Operations fall into few kinds: they append requests of known weight (`Grows`:
  `RoutingKeeps`), leave every total as it is (`Same`), give planned quantities back
  (`GivenBackLine`), or stop a delivery's requests and put the rest away (`RedirectIs`).

`KittingAndRequestsProofs` (any requests, limits and numbers of faults that satisfy
`PostProcessingAssumption`; any orders, finitely many components, and lines and stock that
satisfy `KittingAssumption`: every item has a storage line, which is where the putaway of
an output ends):

- `RunsOnce`: `Spec => []ExecutedOnce`, and `LogIsOfDocuments`: `Spec => []LogFollowsDocument`, from
  one invariant: of each request, where it stands between the cache, the transaction and the
  committed document, and what the transaction's, the database's and the retry job's copy
  of its telegram say of each other.
  A transaction whose action failed has a telegram that is `Undone`: it commits a document
  and no log. That everything sent is logged is false (section 5).
- `KitsStayBalanced`: `KittingSpec => []KitsBalance`, and `StagedAsAsked`:
  `KittingSpec => []StagedForAnOpenOrder`, from `KittingInvariant`, which joins them with the
  types (a task's item is its line's, and it has moved no more than planned). The step that
  matters is staging: `SharesOfTheBins` shows that bins emptied one after the other
  together give what is needed or less, by induction on the last bin, and `TasksType` that
  what is asked of the lines is what the order's tasks bring.

Only model-checked: PackAndShip, OrderReplication and ProductionSupply, and liveness
(`ERPNextCatchesUp`, `LowBinIsRefilled`, `PlansEnd`, `FailedIsRetried`), for the prover does
not handle ENABLED.

## 7. Hazards

`PROJECT.json` lists, at their lines, the places where the order of steps matters,
with the properties that watch them. The main ones: a delivery released twice; a
confirmation or a request resent; two deliveries on one row; exceptions, reversals and
cancellations that unwind only part of a chain of updates; a held task that nobody
releases; a pause overwritten by a recompute; a posting run by two workers, or after its
document was cancelled; a unit's stock left behind when the unit moves; the same goods
promised to two customers; a unit shipped twice; an order changed while it is picked; a
count posting what a pick has taken; a telegram sent for a document that is rolled back;
a job that never reaches its rows (listed without a property). Some that section 5 describes are not listed, because
no property of a run watches them: two clicks on the Create button at once, the cached answer of a request that was not
committed, and a found line in a bin something is on its way to.

## 8. Not modelled, and the plan

Of the modelled components:

- picking: cluster picking, splitting and rerouting of tasks, handling units, the choice
  of rows; orders: how the queue and the order of a task are chosen (`determine_queue`,
  creation rules, capacity), the predecessor hold (no service makes a successor before
  its predecessor is confirmed);
- stock: one product whose unit weighs 1, circular nesting by two requests at once;
- inbound: one line per delivery, one unit per receipt, the ranking of bins;
- shipping: one product, one line per delivery; cartonization;
- replication: one order, one warehouse, the outbound side, the Create button in turns;
- production: one supply area, one material; two hourly jobs at once; yard: seals,
  checkpoints, payload;
- post-processing: scheduled actions, printing;
- counts: one product and one line per bin, who counts, the ABC ranking, putaway-driven
  counts; kitting: one work center.

Not modelled as components, with the reasons in `PROJECT.json`: numbering pools, dialog
locks, waves (each calls the release of OutboundPicking), value-added services,
determination rules, the whitelisted API, clients, installation.

Next:

1. proofs: `StagingAddsUp` of ProductionSupply;
2. **Numbering** (`next_number` under concurrent requests, pools) and **Waves**;
3. a composition of OutboundPicking with PackAndShip: the picked quantity of the one is
   an input of the other today;
4. the inbound side of OrderReplication.

Left out for good: reports, KPIs, billing, layout, rendering of labels and
screens, installation and patches, and rankings over master data (bin choice,
removal rules, cartonization, UoM and GS1 parsing), which have no protocol.
