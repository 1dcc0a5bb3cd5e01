---------------------------- MODULE WarehouseOrder ----------------------------
(***************************************************************************)
(* One Warehouse Order and its tasks: attach_task adds tasks and gates     *)
(* them by sequence, resources pull, claim and skip the order, confirming, *)
(* closing and cancelling tasks lets the next ones start, and              *)
(* sync_warehouse_order recomputes the status of the order.                *)
(*                                                                         *)
(* A request is a transaction at REPEATABLE READ.  Its plain reads see the *)
(* tables as they were when it began (Begin), plus the rows it has written *)
(* itself; its locking reads and its UPDATEs see the latest rows.  With    *)
(* innodb_snapshot_isolation a locking read or an UPDATE of a row that     *)
(* changed since Begin fails, and the request starts again.                *)
(***************************************************************************)
EXTENDS Integers, FiniteSets

CONSTANTS
  Resources,          \* WMS Resources, each with its own user
  NoResource,         \* a blank assigned_resource
  SnapshotIsolation,  \* innodb_snapshot_isolation of the database
  MaxTasks,           \* bound: tasks of the order
  MaxSequence         \* bound: sequence numbers of tasks

ASSUME ConstantsAssumption ==
  /\ NoResource \notin Resources
  /\ SnapshotIsolation \in BOOLEAN
  /\ MaxTasks \in Nat \ {0} /\ MaxSequence \in Nat

\* Tasks are numbered as their naming series numbers them.
TaskSlots == 1..MaxTasks
Owner == Resources \cup {NoResource}

\* NON_TERMINAL_STATUSES without "Available" and "In Process", which no service
\* gives to a task.
Workable    == {"Open", "Assigned", "Partially Confirmed"}
NonTerminal == Workable \cup {"On Hold", "Exception"}
OPEN_WO_STATUSES == {"Open", "Assigned", "In Process"}

TaskRow == [status : NonTerminal \cup {"None", "Confirmed", "Cancelled"},
            sequence : Nat, assigned_resource : Owner]
OrderRow ==
  [status : OPEN_WO_STATUSES \cup {"Blocked", "On Hold", "Completed"},
   assigned_resource : Owner, skipped_by : SUBSET Resources,
   task_count : Nat, confirmed_count : Nat, started : BOOLEAN]

VARIABLES
  order,      \* the Warehouse Order; started: started_at is set
  task,       \* [TaskSlots -> Warehouse Task], "None" = no row
  snapshot,   \* [Resources -> what the request in flight read when it began]
  supervised  \* history: a supervisor reordered the tasks or paused the order

orderVars == <<order, task, snapshot>>
vars == <<order, task, snapshot, supervised>>

NoTask == [status |-> "None", sequence |-> 0, assigned_resource |-> NoResource]

\* get_or_create_warehouse_order makes the order, attach_task counts its task.
NewOrder == [status |-> "Open", assigned_resource |-> NoResource, skipped_by |-> {},
             task_count |-> 1, confirmed_count |-> 0, started |-> FALSE]

\* A resource without a request in flight has read nothing, not even a task.
NoRequest == [order |-> NewOrder, task |-> [t \in TaskSlots |-> NoTask]]

\* The order is created by the attach_task of its first task.
Init ==
  /\ order = NewOrder
  /\ \E seq \in 0..MaxSequence :
       task = [t \in TaskSlots |->
                 IF t = 1 THEN [NoTask EXCEPT !.status = "Open", !.sequence = seq]
                          ELSE NoTask]
  /\ snapshot = [r \in Resources |-> NoRequest]
  /\ supervised = FALSE

-----------------------------------------------------------------------------
Exists(rows)   == {t \in TaskSlots : rows[t].status # "None"}
Finished(rows) == {t \in TaskSlots : rows[t].status \in {"Confirmed", "Cancelled"}}
Unfinished(rows) == {t \in TaskSlots : rows[t].status \in NonTerminal}

\* The lowest-sequence task that is not finished; the older one of two.
Lead(rows) ==
  CHOOSE t \in Unfinished(rows) : \A s \in Unfinished(rows) :
    \/ rows[t].sequence < rows[s].sequence
    \/ rows[t].sequence = rows[s].sequence /\ t <= s

\* The tasks that nothing stands behind.
LastTasks(rows) ==
  {t \in Exists(rows) : \A s \in Exists(rows) : rows[s].sequence <= rows[t].sequence}

\* Mutant: tasks that share a sequence wait for each other.
ReleasedIfAlone(rows) ==
  {t \in TaskSlots : /\ rows[t].status = "On Hold"
                     /\ \A s \in Unfinished(rows) \ {t} : rows[s].sequence > rows[t].sequence}
\* Mutant: a task in exception does not hold back the ones behind it.
ReleasedPastException(rows) ==
  {t \in TaskSlots : /\ rows[t].status = "On Hold"
                     /\ \A s \in Unfinished(rows) : rows[s].status # "Exception"
                          => rows[s].sequence >= rows[t].sequence}

\* release_next_in_sequence: the held tasks whose turn it is in the rows read.
ReleasedTasks(rows) ==
  {t \in TaskSlots : /\ rows[t].status = "On Hold"
                     /\ \A s \in Unfinished(rows) : rows[s].sequence >= rows[t].sequence}

\* Their rows become Assigned or Open; the others stay as they are.
ReleaseNext(rows, read, resource) ==
  [t \in TaskSlots |->
     IF t \in ReleasedTasks(read)
     THEN [rows[t] EXCEPT !.status = IF resource = NoResource THEN "Open" ELSE "Assigned"]
     ELSE rows[t]]

\* The status sync_warehouse_order gives to an order that reads as wo, whose
\* task rows (a locking read) are rows.
SyncedStatus(rows, wo) ==
  LET inProcess == \E t \in TaskSlots : rows[t].status \in {"Partially Confirmed", "Confirmed"}
  IN  IF Finished(rows) = Exists(rows) THEN "Completed"
      ELSE IF rows[Lead(rows)].status = "Exception" THEN "Blocked"
      ELSE IF inProcess THEN "In Process"
      ELSE IF wo.status = "Blocked" THEN IF wo.started THEN "In Process" ELSE "Open"
      ELSE "unchanged"

\* Mutant: the pause of a supervisor is recomputed like any status.
SyncedDespiteHold(row, rows, wo) ==
  LET status == SyncedStatus(rows, wo) IN
  [row EXCEPT !.confirmed_count = Cardinality(Finished(rows)),
              !.status = IF status = "unchanged" THEN @ ELSE status]

\* The row of the order after sync_warehouse_order: a held order is left alone.
Synced(row, rows, wo) ==
  LET status == SyncedStatus(rows, wo)
      starts == \/ status = "Completed"
                \/ status = "In Process" /\ wo.status \in {"Open", "Assigned"}
  IN  IF wo.status = "On Hold" THEN row
      ELSE [row EXCEPT !.confirmed_count = Cardinality(Finished(rows)),
                       !.status = IF status = "unchanged" THEN @ ELSE status,
                       !.started = @ \/ starts]

\* What the plain reads of a request return after it has written some rows.
Seen(r, rows, written) ==
  [t \in TaskSlots |-> IF t \in written THEN rows[t] ELSE snapshot[r].task[t]]

\* The tasks sync_warehouse_order reads: under a lock, so always the latest.
TasksForSync(r, rows, written) == rows

-----------------------------------------------------------------------------
\* A request begins, or begins again after the database refused it.
Begin(r) ==
  /\ snapshot[r] # [order |-> order, task |-> task]
  /\ snapshot' = [snapshot EXCEPT ![r] = [order |-> order, task |-> task]]
  /\ UNCHANGED <<order, task>>

InFlight(r) == snapshot[r] # NoRequest
Ends(r) == snapshot' = [snapshot EXCEPT ![r] = NoRequest]

\* Mutant: locks see what changed since the request began (the setting is off).
NeverStale(r) == TRUE

\* The rows a request locks or writes are as they were when it began: the
\* database lets it pass.  Rows that changed and changed back pass too.
FreshOrder(r) == SnapshotIsolation => order = snapshot[r].order
FreshTasks(r) == SnapshotIsolation => task = snapshot[r].task
FreshTask(r, t) == SnapshotIsolation => task[t] = snapshot[r].task[t]

\* sync_warehouse_order locks every task of the order; it writes the order
\* unless it read it as held.
FreshForSync(r) ==
  FreshTasks(r) /\ (snapshot[r].order.status # "On Hold" => FreshOrder(r))

FreeSlot == Cardinality(Exists(task)) + 1

\* attach_task.  sequence is the caller's or, without one, the task count.  The
\* cached copy of the order may miss a claim, which is a raw UPDATE.
AttachTask(r, seq, cached) ==
  LET read == snapshot[r]
      held == \E s \in Unfinished(read.task) : read.task[s].sequence < seq
      status == IF held THEN "On Hold" ELSE IF cached = NoResource THEN "Open" ELSE "Assigned"
  IN
  /\ InFlight(r) /\ FreshOrder(r)
  /\ read.order.status \in OPEN_WO_STATUSES
  /\ cached \in {read.order.assigned_resource, NoResource}
  /\ FreeSlot \in TaskSlots
  /\ task' = [task EXCEPT ![FreeSlot] =
                [status |-> status, sequence |-> seq, assigned_resource |-> cached]]
  /\ order' = [order EXCEPT !.task_count = read.order.task_count + 1]
  /\ Ends(r)

\* pull_next_warehouse_order: the state-guarded UPDATE, then all its tasks.
PullNext(r) ==
  LET read == snapshot[r].order IN
  /\ InFlight(r) /\ FreshOrder(r) /\ FreshTasks(r)
  /\ read.status = "Open" /\ read.assigned_resource = NoResource /\ r \notin read.skipped_by
  /\ order.status = "Open" /\ order.assigned_resource = NoResource
  /\ order' = [order EXCEPT !.assigned_resource = r, !.status = "Assigned"]
  /\ task' = [t \in TaskSlots |-> IF t \in Exists(task)
                                  THEN [task[t] EXCEPT !.assigned_resource = r] ELSE task[t]]
  /\ Ends(r)

\* Mutant: held tasks stay with the resource too.
HeldStayBehind == {"On Hold", "Confirmed", "Cancelled", "Exception", "None"}

\* Tasks that skip_warehouse_order leaves with the resource that had them.
NotHandedBack == {"Confirmed", "Cancelled", "Exception", "None"}

\* skip_warehouse_order: under a lock on the order from the first read on.
SkipOrder(r) ==
  LET resource == IF order.assigned_resource = NoResource THEN r ELSE order.assigned_resource IN
  /\ order.status \in {"Open", "Assigned"} /\ order.confirmed_count = 0
  /\ order' = [order EXCEPT !.status = "Open", !.assigned_resource = NoResource,
                            !.skipped_by = @ \cup {resource}]
  /\ task' = [t \in TaskSlots |-> IF task[t].status \in NotHandedBack THEN task[t]
                                  ELSE [task[t] EXCEPT !.assigned_resource = NoResource]]
  /\ UNCHANGED snapshot

\* _claim_warehouse_order_if_unassigned: whoever confirms first owns the order
\* and its unassigned tasks.
ClaimedOrder(r) ==
  IF order.assigned_resource # NoResource THEN order
  ELSE [order EXCEPT !.assigned_resource = r, !.status = IF @ = "Open" THEN "Assigned" ELSE @]
ClaimedTasks(r) ==
  IF order.assigned_resource # NoResource THEN {}
  ELSE {t \in Exists(task) : task[t].assigned_resource = NoResource}

\* confirm_task, of a part or of all that is left: claim, confirm, sync the
\* order and release the next tasks.
Confirm(r, t, full) ==
  LET claims == ClaimedTasks(r)
      row    == ClaimedOrder(r)
      rows   == [s \in TaskSlots |->
                   [task[s] EXCEPT !.assigned_resource = IF s \in claims THEN r ELSE @,
                                   !.status = IF s # t THEN @ ELSE IF full THEN "Confirmed"
                                              ELSE "Partially Confirmed"]]
      wo     == IF row # order THEN row ELSE snapshot[r].order
      synced == Synced(row, TasksForSync(r, rows, claims \cup {t}), wo)
      owner  == IF wo.status # "On Hold" THEN synced.assigned_resource ELSE wo.assigned_resource
  IN
  /\ InFlight(r) /\ FreshOrder(r) /\ FreshTasks(r)
  /\ task[t].status \in Workable
  /\ order' = synced
  /\ task' = IF full THEN ReleaseNext(rows, Seen(r, rows, claims \cup {t}), owner) ELSE rows
  /\ Ends(r)

WithStatus(t, status) == [task EXCEPT ![t].status = status]

\* raise_exception without an action: the task stops, its order is synced.
StopTask(r, t) ==
  /\ InFlight(r) /\ FreshForSync(r)
  /\ task[t].status \in NonTerminal
  /\ task' = WithStatus(t, "Exception")
  /\ order' = Synced(order, TasksForSync(r, task', {t}), snapshot[r].order)
  /\ Ends(r)

\* raise_exception with a revised quantity that is already confirmed: the task
\* closes as Confirmed and the next ones are released.
CloseShort(r, t) ==
  LET rows   == WithStatus(t, "Confirmed")
      synced == Synced(order, TasksForSync(r, rows, {t}), snapshot[r].order)
      owner  == IF snapshot[r].order.status # "On Hold" THEN synced.assigned_resource
                ELSE snapshot[r].order.assigned_resource
  IN
  /\ InFlight(r) /\ FreshForSync(r)
  /\ task[t].status \in NonTerminal
  /\ task' = ReleaseNext(rows, Seen(r, rows, {t}), owner)
  /\ order' = synced
  /\ Ends(r)

\* "Skip Task": behind every task of the order, and nothing else.
SkipTask(r, t) ==
  /\ InFlight(r) /\ FreshTask(r, t)
  /\ task[t].status \in NonTerminal
  /\ \E last \in LastTasks(snapshot[r].task) :
       /\ snapshot[r].task[last].sequence < MaxSequence
       /\ task' = [task EXCEPT ![t].sequence = snapshot[r].task[last].sequence + 1]
  /\ UNCHANGED order
  /\ Ends(r)

\* "Split Task": the new task stands where the old one stands.
SplitTask(t) ==
  /\ task[t].status \in NonTerminal
  /\ FreeSlot \in TaskSlots
  /\ task' = [task EXCEPT ![FreeSlot] =
                [task[t] EXCEPT !.status = IF @ \in {"Open", "Assigned", "On Hold"} THEN @ ELSE "Open"]]
  /\ order' = [order EXCEPT !.task_count = @ + 1]
  /\ UNCHANGED snapshot

\* Cancelling what the tasks are for: the tasks first, then the next are
\* released, then the order is synced.
CancelTasks(r, cancelled) ==
  LET rows == [t \in TaskSlots |->
                 IF t \in cancelled THEN [task[t] EXCEPT !.status = "Cancelled"] ELSE task[t]]
      seen == Seen(r, rows, cancelled)
      next == ReleaseNext(rows, seen, snapshot[r].order.assigned_resource)
  IN
  /\ InFlight(r) /\ FreshForSync(r)
  /\ task' = next
  /\ order' = Synced(order, TasksForSync(r, next, cancelled \cup ReleasedTasks(seen)), snapshot[r].order)
  /\ Ends(r)

\* cancel_allocations_for_delivery reads each task again under a lock;
\* _close_staging and the cancellation of a cross-dock delivery do not.
CancelPicks(r) ==
  \E cancelled \in (SUBSET Unfinished(task)) \ {{}} : CancelTasks(r, cancelled)
CancelStaging(r) ==
  /\ InFlight(r)
  /\ \E cancelled \in (SUBSET Unfinished(snapshot[r].task)) \ {{}} : CancelTasks(r, cancelled)

\* block_warehouse_order and resume_warehouse_order, by a supervisor.
Block ==
  /\ order' = [order EXCEPT !.status = "On Hold"]
  /\ UNCHANGED <<task, snapshot>>

Resume ==
  LET row == [order EXCEPT !.status = "Open"] IN
  /\ order' = Synced(row, task, row)
  /\ UNCHANGED <<task, snapshot>>

-----------------------------------------------------------------------------
Attach(r)  == \E seq \in (0..MaxSequence), cached \in Owner : AttachTask(r, seq, cached)
Working(r) == \E t \in TaskSlots, full \in BOOLEAN : Confirm(r, t, full)
Excepts(r) == \E t \in TaskSlots : StopTask(r, t) \/ CloseShort(r, t)
Cancels(r) == CancelPicks(r) \/ CancelStaging(r)
Reorders(r) == \E t \in TaskSlots : SkipTask(r, t) \/ SplitTask(t)

\* The tasks of the order come and go ...
Executing(r) == Begin(r) \/ Attach(r) \/ Working(r) \/ Excepts(r) \/ Cancels(r)

\* ... while resources take the order and give it back ...
Dispatching(r) == PullNext(r) \/ SkipOrder(r)
Execution == \E r \in Resources : Executing(r) \/ Dispatching(r)

\* ... and supervisors reorder its tasks and pause it.
Supervision == Block \/ Resume \/ \E r \in Resources : Reorders(r)

Next ==
  \/ Execution /\ UNCHANGED supervised
  \/ Supervision /\ supervised' = TRUE

Spec == Init /\ [][Next]_vars

-----------------------------------------------------------------------------
TypeOK ==
  /\ order \in OrderRow
  /\ task \in [TaskSlots -> TaskRow]
  /\ snapshot \in [Resources -> [order : OrderRow, task : [TaskSlots -> TaskRow]]]
  /\ supervised \in BOOLEAN

OpenWorkIsOwned ==
  \A t \in TaskSlots : task[t].status \in Workable \cup {"On Hold"} =>
    task[t].assigned_resource \in {NoResource, order.assigned_resource}

\* Work that is still to be done never belongs to somebody who does not own
\* the order: whoever gives an order back or takes it over does so for all the
\* tasks that can still be worked on.  Until a supervisor splits tasks: one in
\* exception stays with the resource that gave its order back, and so do its
\* splits.
OwnerOfOpenWork == ~supervised => OpenWorkIsOwned

\* An order is Completed only when all its tasks are confirmed or cancelled.
CompletedIsFinished == order.status = "Completed" => Finished(task) = Exists(task)

\* When its last task is confirmed or cancelled an order is Completed, however
\* the requests that finish its tasks interleave.
FinishedIsCompleted == Finished(task) = Exists(task) => order.status = "Completed"

\* An order is Blocked exactly while its lead task is in exception.
BlockedReflectsLead ==
  order.status = "Blocked"
    <=> (Unfinished(task) # {} /\ task[Lead(task)].status = "Exception")

\* A task is held back only by an unfinished one before it: otherwise nothing
\* would ever release it.
HeldTasksWaitForSomething ==
  \A t \in TaskSlots : task[t].status = "On Hold" =>
    \E s \in Unfinished(task) : task[s].sequence < task[t].sequence

FollowsItsTasks ==
  /\ CompletedIsFinished /\ FinishedIsCompleted
  /\ BlockedReflectsLead /\ HeldTasksWaitForSomething

\* The order follows its tasks until a supervisor reorders them or pauses it:
\* Skip Task leaves the order unsynced, and a request that read the order as
\* paused does not sync it although it was resumed since.
OrderFollowsItsTasks == ~supervised => FollowsItsTasks

\* A held task is let go only when no unfinished task stands before it.
ReleasedInSequence ==
  [][\A t \in TaskSlots :
       task[t].status = "On Hold" /\ task'[t].status \in Workable =>
         \A s \in Unfinished(task') : task'[s].sequence >= task'[t].sequence]_vars

\* What is confirmed stays confirmed and what is cancelled stays cancelled.
FinishedStays ==
  [][\A t \in Finished(task) : task'[t].status = task[t].status]_vars

\* Only a supervisor who resumes it ends the pause of an order: no recompute
\* of its status clears it.
PauseIsDeliberate ==
  [][order.status = "On Hold" /\ order'.status # "On Hold" => Resume]_vars
=============================================================================
