------------------------- MODULE WarehouseOrderProofs -------------------------
(***************************************************************************)
(* Theorems about WarehouseOrder, for any number of resources, tasks and   *)
(* sequence numbers.                                                       *)
(***************************************************************************)
EXTENDS WarehouseOrder, Sums

USE ConstantsAssumption DEF ConstantsAssumption

LEMMA NextNatural == \A n \in Nat : n + 1 \in Nat
OBVIOUS

LEMMA SequenceNumber == \A n \in 0..MaxSequence : n \in Nat
OBVIOUS

TaskStatus  == NonTerminal \cup {"None", "Confirmed", "Cancelled"}
OrderStatus == OPEN_WO_STATUSES \cup {"Blocked", "On Hold", "Completed"}
Tasks       == [TaskSlots -> TaskRow]
ReadRow     == [order : OrderRow, task : Tasks]

-----------------------------------------------------------------------------
\* Rows: their columns, and what an UPDATE of a column makes of them.
LEMMA TaskColumns ==
  ASSUME NEW row \in TaskRow
  PROVE  row.status \in TaskStatus /\ row.sequence \in Nat /\ row.assigned_resource \in Owner
BY DEF TaskRow, TaskStatus

LEMMA StatusUpdate ==
  ASSUME NEW row \in TaskRow, NEW st \in TaskStatus
  PROVE  /\ [row EXCEPT !.status = st] \in TaskRow
         /\ [row EXCEPT !.status = st].status = st
         /\ [row EXCEPT !.status = st].sequence = row.sequence
         /\ [row EXCEPT !.status = st].assigned_resource = row.assigned_resource
BY DEF TaskRow, TaskStatus

LEMMA ResourceUpdate ==
  ASSUME NEW row \in TaskRow, NEW r \in Owner
  PROVE  /\ [row EXCEPT !.assigned_resource = r] \in TaskRow
         /\ [row EXCEPT !.assigned_resource = r].status = row.status
         /\ [row EXCEPT !.assigned_resource = r].sequence = row.sequence
         /\ [row EXCEPT !.assigned_resource = r].assigned_resource = r
BY DEF TaskRow

LEMMA SequenceUpdate ==
  ASSUME NEW row \in TaskRow, NEW n \in Nat
  PROVE  /\ [row EXCEPT !.sequence = n] \in TaskRow
         /\ [row EXCEPT !.sequence = n].status = row.status
BY DEF TaskRow

Claimed(row, r, st) == [row EXCEPT !.assigned_resource = r, !.status = st]

LEMMA ClaimUpdate ==
  ASSUME NEW row \in TaskRow, NEW r \in Owner, NEW st \in TaskStatus
  PROVE  /\ Claimed(row, r, st) \in TaskRow
         /\ Claimed(row, r, st).status = st
         /\ Claimed(row, r, st).sequence = row.sequence
         /\ Claimed(row, r, st).assigned_resource = r
BY DEF TaskRow, TaskStatus, Claimed

LEMMA OrderColumns ==
  ASSUME NEW row \in OrderRow
  PROVE  /\ row.status \in OrderStatus /\ row.assigned_resource \in Owner
         /\ row.skipped_by \in SUBSET Resources
         /\ row.task_count \in Nat /\ row.confirmed_count \in Nat /\ row.started \in BOOLEAN
BY DEF OrderRow, OrderStatus

\* The sets of tasks of one reading of the table.
LEMMA TaskSets ==
  ASSUME NEW rows \in Tasks
  PROVE  /\ \A t \in TaskSlots : rows[t] \in TaskRow
         /\ \A t \in TaskSlots : /\ t \in Exists(rows) <=> rows[t].status # "None"
                                 /\ t \in Unfinished(rows) <=> rows[t].status \in NonTerminal
                                 /\ t \in Finished(rows) <=> rows[t].status \in {"Confirmed", "Cancelled"}
                                 /\ rows[t].status \in TaskStatus /\ rows[t].sequence \in Nat
         /\ Exists(rows) = Unfinished(rows) \cup Finished(rows)
         /\ Unfinished(rows) \cap Finished(rows) = {}
         /\ Exists(rows) \subseteq TaskSlots
         /\ IsFiniteSet(Exists(rows)) /\ IsFiniteSet(Finished(rows))
         /\ Cardinality(Exists(rows)) \in Nat /\ Cardinality(Finished(rows)) \in Nat
<1>1. \A t \in TaskSlots : rows[t] \in TaskRow /\ rows[t].status \in TaskStatus /\ rows[t].sequence \in Nat
  BY TaskColumns DEF Tasks
<1>2. /\ Exists(rows) = Unfinished(rows) \cup Finished(rows)
      /\ Unfinished(rows) \cap Finished(rows) = {}
      /\ Exists(rows) \subseteq TaskSlots /\ Finished(rows) \subseteq TaskSlots
  BY <1>1 DEF Exists, Unfinished, Finished, TaskStatus, NonTerminal, Workable
<1>3. IsFiniteSet(TaskSlots)
  BY FS_Interval DEF TaskSlots
<1>4. /\ IsFiniteSet(Exists(rows)) /\ IsFiniteSet(Finished(rows))
      /\ Cardinality(Exists(rows)) \in Nat /\ Cardinality(Finished(rows)) \in Nat
  BY <1>2, <1>3, FS_Subset, FS_CardinalityType
<1>5. QED
  BY <1>1, <1>2, <1>4 DEF Exists, Unfinished, Finished

\* There is a lead task as long as a task is unfinished, and only one.
Leads(rows, t) ==
  /\ t \in Unfinished(rows)
  /\ \A s \in Unfinished(rows) :
       \/ rows[t].sequence < rows[s].sequence
       \/ rows[t].sequence = rows[s].sequence /\ t <= s

LEMMA LeadExists ==
  ASSUME NEW rows \in Tasks, Unfinished(rows) # {}
  PROVE  Leads(rows, Lead(rows))
<1> DEFINE Sequences == {rows[s].sequence : s \in Unfinished(rows)}
<1>1. \A s \in Unfinished(rows) : s \in Nat /\ rows[s].sequence \in Nat
  BY TaskSets DEF TaskSlots, Unfinished
<1>2. PICK n \in Sequences : \A m \in Sequences : n <= m
  <2>1. Sequences \in SUBSET Nat /\ Sequences # {}
    BY <1>1
  <2>2. QED
    BY <2>1, SmallestOf, Zenon
<1> DEFINE First == {s \in Unfinished(rows) : rows[s].sequence = n}
<1>3. First \in SUBSET Nat /\ First # {}
  BY <1>1
<1>4. PICK t \in First : \A s \in First : t <= s
  BY <1>3, SmallestOf
<1>5. Leads(rows, t)
  <2>1. t \in Unfinished(rows) /\ rows[t].sequence = n
    BY <1>4
  <2>2. ASSUME NEW s \in Unfinished(rows)
        PROVE  \/ rows[t].sequence < rows[s].sequence
               \/ rows[t].sequence = rows[s].sequence /\ t <= s
    <3>1. n <= rows[s].sequence
      BY <1>2
    <3>2. CASE rows[s].sequence = n
      BY <1>4, <2>1, <3>2
    <3>3. CASE rows[s].sequence # n
      BY <1>1, <2>1, <3>1, <3>3
    <3>4. QED
      BY <3>2, <3>3
  <2>3. QED
    BY <2>1, <2>2, Zenon DEF Leads
<1>6. QED
  BY <1>5, Zenon DEF Leads, Lead

LEMMA LeadIsUnique ==
  ASSUME NEW rows \in Tasks, NEW t, NEW s, Leads(rows, t), Leads(rows, s)
  PROVE  t = s
<1>1. /\ t \in Nat /\ s \in Nat /\ rows[t].sequence \in Nat /\ rows[s].sequence \in Nat
      /\ t \in Unfinished(rows) /\ s \in Unfinished(rows)
  BY TaskSets DEF TaskSlots, Unfinished, Leads
<1>2. QED
  BY <1>1 DEF Leads

\* Tables with the same tasks missing, finished and in exception, in the same
\* sequence, have the same lead.
Alike(rows, old) ==
  \A t \in TaskSlots :
    /\ rows[t].sequence = old[t].sequence
    /\ \A st \in {"None", "Exception"} : rows[t].status = st <=> old[t].status = st
    /\ rows[t].status \in {"Confirmed", "Cancelled"} <=> old[t].status \in {"Confirmed", "Cancelled"}

LEMMA AlikeSets ==
  ASSUME NEW rows \in Tasks, NEW old \in Tasks, Alike(rows, old)
  PROVE  /\ Exists(rows) = Exists(old)
         /\ Finished(rows) = Finished(old)
         /\ Unfinished(rows) = Unfinished(old)
         /\ Unfinished(old) # {} => Lead(rows) = Lead(old)
         /\ (Unfinished(rows) # {} /\ rows[Lead(rows)].status = "Exception")
              <=> (Unfinished(old) # {} /\ old[Lead(old)].status = "Exception")
<1>1. Exists(rows) = Exists(old) /\ Finished(rows) = Finished(old)
  BY Zenon DEF Alike, Exists, Finished
<1>2. Unfinished(rows) = Unfinished(old)
  <2>1. Unfinished(rows) = Exists(rows) \ Finished(rows)
    BY TaskSets
  <2>2. Unfinished(old) = Exists(old) \ Finished(old)
    BY TaskSets
  <2>3. QED
    BY <1>1, <2>1, <2>2, Zenon
<1>3. ASSUME Unfinished(old) # {}
      PROVE  Lead(rows) = Lead(old) /\ Lead(old) \in TaskSlots
  <2>1. Leads(rows, Lead(rows)) /\ Leads(old, Lead(old))
    BY <1>2, <1>3, LeadExists, Zenon
  <2>2. Leads(rows, Lead(old))
    BY <1>2, <2>1, Zenon DEF Alike, Leads, Unfinished
  <2>3. Lead(old) \in TaskSlots
    BY <2>1, Zenon DEF Leads, Unfinished
  <2>4. QED
    BY <2>1, <2>2, <2>3, LeadIsUnique, Zenon
<1>4. ASSUME Unfinished(old) # {}
      PROVE  rows[Lead(rows)].status = "Exception" <=> old[Lead(old)].status = "Exception"
  <2>1. \A t \in TaskSlots : rows[t].status = "Exception" <=> old[t].status = "Exception"
    BY DEF Alike
  <2>2. QED
    BY <1>3, <1>4, <2>1, Zenon
<1>5. QED
  BY <1>1, <1>2, <1>3, <1>4, Zenon

\* release_next_in_sequence turns held tasks into workable ones; what it leaves
\* held has an unfinished task before it.
LEMMA Released ==
  ASSUME NEW rows \in Tasks, NEW read \in Tasks, NEW resource \in Owner
  PROVE  /\ ReleaseNext(rows, read, resource) \in Tasks
         /\ \A t \in TaskSlots :
              /\ ReleaseNext(rows, read, resource)[t].sequence = rows[t].sequence
              /\ ReleaseNext(rows, read, resource)[t].assigned_resource = rows[t].assigned_resource
              /\ t \in ReleasedTasks(read) =>
                   ReleaseNext(rows, read, resource)[t].status \in {"Open", "Assigned"}
              /\ t \notin ReleasedTasks(read) =>
                   ReleaseNext(rows, read, resource)[t].status = rows[t].status
<1>1. \A t \in TaskSlots : rows[t] \in TaskRow
  BY TaskSets
<1> DEFINE status == IF resource = NoResource THEN "Open" ELSE "Assigned"
<1>2. status \in {"Open", "Assigned"} /\ status \in TaskStatus
  BY DEF TaskStatus, NonTerminal, Workable
<1> HIDE DEF status
<1>3. ASSUME NEW t \in TaskSlots
      PROVE  /\ [rows[t] EXCEPT !.status = status] \in TaskRow
             /\ [rows[t] EXCEPT !.status = status].status = status
             /\ [rows[t] EXCEPT !.status = status].sequence = rows[t].sequence
             /\ [rows[t] EXCEPT !.status = status].assigned_resource = rows[t].assigned_resource
  BY <1>1, <1>2, StatusUpdate, Zenon
<1>4. QED
  BY <1>1, <1>2, <1>3, Zenon DEF ReleaseNext, Tasks, status

ReleasedFrom(next, rows) ==
  /\ next \in Tasks
  /\ \A t \in TaskSlots :
       /\ next[t].sequence = rows[t].sequence
       /\ next[t].assigned_resource = rows[t].assigned_resource
       /\ t \in ReleasedTasks(rows) =>
            rows[t].status = "On Hold" /\ next[t].status \in {"Open", "Assigned"}
       /\ t \notin ReleasedTasks(rows) => next[t].status = rows[t].status

LEMMA ReleasedRows ==
  ASSUME NEW rows \in Tasks, NEW resource \in Owner
  PROVE  ReleasedFrom(ReleaseNext(rows, rows, resource), rows)
<1>1. \A t \in ReleasedTasks(rows) : rows[t].status = "On Hold"
  BY Zenon DEF ReleasedTasks
<1> DEFINE next == ReleaseNext(rows, rows, resource)
<1>2. next \in Tasks
  BY Released, Zenon
<1>3. \A t \in TaskSlots :
        /\ next[t].sequence = rows[t].sequence
        /\ next[t].assigned_resource = rows[t].assigned_resource
        /\ t \in ReleasedTasks(rows) => next[t].status \in {"Open", "Assigned"}
        /\ t \notin ReleasedTasks(rows) => next[t].status = rows[t].status
  BY Released, Zenon
<1> HIDE DEF next
<1>4. ReleasedFrom(next, rows)
  BY <1>1, <1>2, <1>3, Zenon DEF ReleasedFrom
<1>5. QED
  BY <1>4 DEF next

LEMMA ReleasedAlike ==
  ASSUME NEW rows \in Tasks, NEW next, ReleasedFrom(next, rows)
  PROVE  /\ Alike(next, rows)
         /\ \A t \in TaskSlots : next[t].status = "On Hold" =>
              \E s \in Unfinished(rows) : rows[s].sequence < rows[t].sequence
<1>1. \A t \in TaskSlots :
        /\ next[t].sequence = rows[t].sequence
        /\ t \in ReleasedTasks(rows) =>
             rows[t].status = "On Hold" /\ next[t].status \in {"Open", "Assigned"}
        /\ t \notin ReleasedTasks(rows) => next[t].status = rows[t].status
  BY Zenon DEF ReleasedFrom
<1>2. Alike(next, rows)
  BY <1>1 DEF Alike
<1>3. ASSUME NEW t \in TaskSlots, next[t].status = "On Hold"
      PROVE  \E s \in Unfinished(rows) : rows[s].sequence < rows[t].sequence
  <2>1. t \notin ReleasedTasks(rows) /\ rows[t].status = "On Hold"
    BY <1>1, <1>3
  <2>2. PICK s \in Unfinished(rows) : ~(rows[s].sequence >= rows[t].sequence)
    BY <2>1, Zenon DEF ReleasedTasks
  <2>3. rows[s].sequence \in Nat /\ rows[t].sequence \in Nat
    BY TaskSets DEF Unfinished
  <2>4. rows[s].sequence < rows[t].sequence
    BY <2>2, <2>3
  <2>5. QED
    BY <2>4
<1>4. QED
  BY <1>2, <1>3, Zenon
-----------------------------------------------------------------------------
\* sync_warehouse_order.
LEMMA SyncedStatusIs ==
  ASSUME NEW rows, NEW wo
  PROVE  /\ SyncedStatus(rows, wo) \in {"Completed", "Blocked", "In Process", "Open", "unchanged"}
         /\ SyncedStatus(rows, wo) = "Completed" <=> Finished(rows) = Exists(rows)
         /\ SyncedStatus(rows, wo) = "Blocked"
              <=> (Finished(rows) # Exists(rows) /\ rows[Lead(rows)].status = "Exception")
         /\ SyncedStatus(rows, wo) = "unchanged" => wo.status # "Blocked"
BY DEF SyncedStatus

LEMMA SyncedFields ==
  ASSUME NEW row \in OrderRow, NEW rows \in Tasks, NEW wo
  PROVE  /\ Synced(row, rows, wo) \in OrderRow
         /\ Synced(row, rows, wo).assigned_resource = row.assigned_resource
         /\ Synced(row, rows, wo).task_count = row.task_count
         /\ wo.status = "On Hold" => Synced(row, rows, wo) = row
         /\ wo.status # "On Hold" =>
              /\ Synced(row, rows, wo).confirmed_count = Cardinality(Finished(rows))
              /\ Synced(row, rows, wo).status
                   = IF SyncedStatus(rows, wo) = "unchanged" THEN row.status ELSE SyncedStatus(rows, wo)
<1> DEFINE status == SyncedStatus(rows, wo)
           st == IF status = "unchanged" THEN row.status ELSE status
           starts == \/ status = "Completed"
                     \/ status = "In Process" /\ wo.status \in {"Open", "Assigned"}
           started == row.started \/ starts
           count == Cardinality(Finished(rows))
<1>1. CASE wo.status = "On Hold"
  BY <1>1, Zenon DEF Synced
<1>2. CASE wo.status # "On Hold"
  <2>1. status \in {"Completed", "Blocked", "In Process", "Open", "unchanged"}
    BY SyncedStatusIs
  <2>2. count \in Nat
    BY TaskSets
  <2>3. st \in OrderStatus
    BY <2>1, OrderColumns DEF OrderStatus, OPEN_WO_STATUSES
  <2>4. started \in BOOLEAN
    BY OrderColumns
  <2>5. Synced(row, rows, wo) = [row EXCEPT !.confirmed_count = count, !.status = st, !.started = started]
    BY <1>2, Zenon DEF Synced
  <2> HIDE DEF st, started, count, starts, status
  <2>6. /\ [row EXCEPT !.confirmed_count = count, !.status = st, !.started = started] \in OrderRow
        /\ [row EXCEPT !.confirmed_count = count, !.status = st, !.started = started].status = st
        /\ [row EXCEPT !.confirmed_count = count, !.status = st, !.started = started].confirmed_count = count
        /\ [row EXCEPT !.confirmed_count = count, !.status = st, !.started = started].assigned_resource = row.assigned_resource
        /\ [row EXCEPT !.confirmed_count = count, !.status = st, !.started = started].task_count = row.task_count
    BY <2>2, <2>3, <2>4 DEF OrderRow, OrderStatus
  <2>7. QED
    BY <1>2, <2>5, <2>6 DEF count, st, status
<1>3. QED
  BY <1>1, <1>2

LEMMA SyncedKeeps ==
  ASSUME NEW row \in OrderRow, NEW rows \in Tasks, NEW wo
  PROVE  /\ Synced(row, rows, wo) \in OrderRow
         /\ Synced(row, rows, wo).assigned_resource = row.assigned_resource
         /\ Synced(row, rows, wo).task_count = row.task_count
         /\ wo.status = "On Hold" => Synced(row, rows, wo) = row
BY SyncedFields

\* Synced from what is there, an order that is not paused follows the tasks.
LEMMA SyncedFollows ==
  ASSUME NEW row \in OrderRow, NEW rows \in Tasks, row.status \notin {"On Hold", "Completed"}
  PROVE  /\ Synced(row, rows, row).confirmed_count = Cardinality(Finished(rows))
         /\ Synced(row, rows, row).status # "On Hold"
         /\ Synced(row, rows, row).status = "Completed" <=> Finished(rows) = Exists(rows)
         /\ Synced(row, rows, row).status = "Blocked"
              <=> (Unfinished(rows) # {} /\ rows[Lead(rows)].status = "Exception")
<1>1. Unfinished(rows) # {} <=> Finished(rows) # Exists(rows)
  BY TaskSets
<1> DEFINE synced == Synced(row, rows, row)
           status == SyncedStatus(rows, row)
<1>2. /\ synced.confirmed_count = Cardinality(Finished(rows))
      /\ synced.status = IF status = "unchanged" THEN row.status ELSE status
  BY SyncedFields
<1>3. /\ status \in {"Completed", "Blocked", "In Process", "Open", "unchanged"}
      /\ status = "Completed" <=> Finished(rows) = Exists(rows)
      /\ status = "Blocked" <=> (Finished(rows) # Exists(rows) /\ rows[Lead(rows)].status = "Exception")
      /\ status = "unchanged" => row.status # "Blocked"
  BY SyncedStatusIs
<1> HIDE DEF synced, status
<1>4. synced.status # "On Hold" /\ (synced.status = "Completed" <=> Finished(rows) = Exists(rows))
  BY <1>2, <1>3
<1>5. synced.status = "Blocked" <=> (Finished(rows) # Exists(rows) /\ rows[Lead(rows)].status = "Exception")
  BY <1>2, <1>3
<1>6. QED
  BY <1>1, <1>2, <1>4, <1>5 DEF synced
-----------------------------------------------------------------------------
(* Every row keeps its type, under every setting of the database. *)

Kinds == order \in OrderRow /\ task \in Tasks /\ snapshot \in [Resources -> ReadRow]

LEMMA KindsAreTypes == TypeOK <=> Kinds /\ supervised \in BOOLEAN
BY DEF TypeOK, Kinds, ReadRow, Tasks

LEMMA NoTaskType == NoTask \in TaskRow
BY DEF NoTask, TaskRow, Owner

LEMMA NewOrderType == NewOrder \in OrderRow
BY DEF NewOrder, OrderRow, OPEN_WO_STATUSES, Owner

LEMMA NoRequestType == NoRequest \in ReadRow
BY NoTaskType, NewOrderType, Zenon DEF NoRequest, ReadRow, Tasks

LEMMA ReadType ==
  ASSUME Kinds, NEW r \in Resources
  PROVE  snapshot[r].order \in OrderRow /\ snapshot[r].task \in Tasks
BY DEF Kinds, ReadRow

LEMMA SeenType ==
  ASSUME Kinds, NEW r \in Resources, NEW rows \in Tasks, NEW written
  PROVE  Seen(r, rows, written) \in Tasks
BY ReadType, Zenon DEF Seen, Tasks

LEMMA EndsType ==
  ASSUME Kinds, NEW r \in Resources, Ends(r)
  PROVE  snapshot' \in [Resources -> ReadRow]
BY NoRequestType, Zenon DEF Kinds, Ends

LEMMA WithStatusType ==
  ASSUME Kinds, NEW t \in TaskSlots, NEW status \in TaskStatus
  PROVE  WithStatus(t, status) \in Tasks
<1>1. [task[t] EXCEPT !.status = status] \in TaskRow
  <2>1. task[t] \in TaskRow
    BY TaskSets DEF Kinds
  <2>2. QED
    BY <2>1, StatusUpdate, Zenon
<1>2. QED
  BY <1>1, Zenon DEF Kinds, Tasks, WithStatus

LEMMA InitKinds == Init => Kinds
<1> SUFFICES ASSUME Init PROVE Kinds
  OBVIOUS
<1>1. order \in OrderRow
  BY NewOrderType, Zenon DEF Init
<1>2. snapshot \in [Resources -> ReadRow]
  BY NoRequestType, Zenon DEF Init
<1>3. PICK seq \in 0..MaxSequence :
        task = [t \in TaskSlots |->
                  IF t = 1 THEN [NoTask EXCEPT !.status = "Open", !.sequence = seq] ELSE NoTask]
  BY Zenon DEF Init
<1>4. [NoTask EXCEPT !.status = "Open", !.sequence = seq] \in TaskRow
  <2>1. seq \in Nat
    BY SequenceNumber, Zenon
  <2>2. "Open" \in NonTerminal \cup {"None", "Confirmed", "Cancelled"}
    BY DEF NonTerminal, Workable
  <2>3. QED
    BY <2>1, <2>2, NoTaskType, Zenon DEF TaskRow
<1>5. task \in Tasks
  BY <1>3, <1>4, NoTaskType, Zenon DEF Tasks
<1>6. QED
  BY <1>1, <1>2, <1>5, Zenon DEF Kinds

LEMMA AttachKinds ==
  ASSUME Kinds, NEW r \in Resources, Attach(r)
  PROVE  Kinds'
<1>1. PICK seq \in (0..MaxSequence), cached \in Owner : AttachTask(r, seq, cached)
  BY Zenon DEF Attach
<1>2. PICK status \in {"On Hold", "Open", "Assigned"} :
        task' = [task EXCEPT ![FreeSlot] =
                   [status |-> status, sequence |-> seq, assigned_resource |-> cached]]
  <2> DEFINE held == \E s \in Unfinished(snapshot[r].task) : snapshot[r].task[s].sequence < seq
             st == IF held THEN "On Hold" ELSE IF cached = NoResource THEN "Open" ELSE "Assigned"
  <2>1. st \in {"On Hold", "Open", "Assigned"}
    OBVIOUS
  <2>2. task' = [task EXCEPT ![FreeSlot] =
                   [status |-> st, sequence |-> seq, assigned_resource |-> cached]]
    BY <1>1, Zenon DEF AttachTask
  <2>3. QED
    BY <2>1, <2>2, Zenon
<1>3. [status |-> status, sequence |-> seq, assigned_resource |-> cached] \in TaskRow
  <2>1. seq \in Nat
    BY SequenceNumber, Zenon
  <2>2. status \in NonTerminal \cup {"None", "Confirmed", "Cancelled"}
    BY <1>2 DEF NonTerminal, Workable
  <2>3. QED
    BY <1>1, <2>1, <2>2, Zenon DEF TaskRow
<1>4. task' \in Tasks
  BY <1>2, <1>3, Zenon DEF Kinds, Tasks
<1>5. snapshot[r].order.task_count + 1 \in Nat
  <2>1. snapshot[r].order.task_count \in Nat
    BY ReadType, OrderColumns, Zenon
  <2>2. QED
    BY <2>1, NextNatural, Zenon
<1>6. order' = [order EXCEPT !.task_count = snapshot[r].order.task_count + 1] /\ Ends(r)
  BY <1>1, Zenon DEF AttachTask
<1>7. order' \in OrderRow
  BY <1>5, <1>6, Zenon DEF Kinds, OrderRow
<1>8. QED
  BY <1>4, <1>6, <1>7, EndsType, Zenon DEF Kinds

LEMMA DispatchKinds ==
  ASSUME Kinds, NEW r \in Resources, Dispatching(r)
  PROVE  Kinds'
<1>1. \A t \in TaskSlots, o \in Owner : [task[t] EXCEPT !.assigned_resource = o] \in TaskRow
  <2>1. \A t \in TaskSlots : task[t] \in TaskRow
    BY TaskSets DEF Kinds
  <2>2. QED
    BY <2>1, ResourceUpdate, Zenon
<1>2. \A t \in TaskSlots : task[t] \in TaskRow
  BY TaskSets DEF Kinds
<1>3. r \in Owner /\ NoResource \in Owner
  BY DEF Owner
<1>4. CASE PullNext(r)
  <2>1. task' \in Tasks
    BY <1>1, <1>2, <1>3, <1>4, Zenon DEF PullNext, Tasks
  <2>2. order' = [order EXCEPT !.assigned_resource = r, !.status = "Assigned"] /\ Ends(r)
    BY <1>4, Zenon DEF PullNext
  <2>3. order' \in OrderRow
    BY <1>3, <2>2 DEF Kinds, OrderRow, OPEN_WO_STATUSES
  <2>4. QED
    BY <2>1, <2>2, <2>3, EndsType, Zenon DEF Kinds
<1>5. CASE SkipOrder(r)
  <2>1. task' \in Tasks
    BY <1>1, <1>2, <1>3, <1>5, Zenon DEF SkipOrder, Tasks
  <2>2. PICK resource \in Resources :
          order' = [order EXCEPT !.status = "Open", !.assigned_resource = NoResource,
                                 !.skipped_by = @ \cup {resource}]
    <3>1. order.assigned_resource \in Owner
      BY OrderColumns DEF Kinds
    <3>2. (IF order.assigned_resource = NoResource THEN r ELSE order.assigned_resource) \in Resources
      BY <3>1 DEF Owner
    <3>3. QED
      BY <1>5, <3>2, Zenon DEF SkipOrder
  <2>3. order.skipped_by \cup {resource} \in SUBSET Resources
    BY OrderColumns DEF Kinds
  <2>4. order' \in OrderRow
    BY <1>3, <2>2, <2>3 DEF Kinds, OrderRow, OPEN_WO_STATUSES
  <2>5. QED
    BY <1>5, <2>1, <2>4, Zenon DEF Kinds, SkipOrder
<1>6. QED
  BY <1>4, <1>5, Zenon DEF Dispatching
\* A request confirms, stops, closes or cancels tasks: what it makes of them,
\* before and after the release.
ConfirmedRows(r, t, full) ==
  [s \in TaskSlots |->
     [task[s] EXCEPT !.assigned_resource = IF s \in ClaimedTasks(r) THEN r ELSE @,
                     !.status = IF s # t THEN @ ELSE IF full THEN "Confirmed" ELSE "Partially Confirmed"]]

\* The status and the resource of task s once t is confirmed.
StatusAfter(s, t, full) ==
  IF s # t THEN task[s].status ELSE IF full THEN "Confirmed" ELSE "Partially Confirmed"
ResourceAfter(s, r) == IF s \in ClaimedTasks(r) THEN r ELSE task[s].assigned_resource

LEMMA ConfirmedRow ==
  ASSUME Kinds, NEW r \in Resources, NEW t \in TaskSlots, NEW full \in BOOLEAN, NEW s \in TaskSlots
  PROVE  /\ ConfirmedRows(r, t, full)[s] \in TaskRow
         /\ ConfirmedRows(r, t, full)[s].sequence = task[s].sequence
         /\ ConfirmedRows(r, t, full)[s].assigned_resource = ResourceAfter(s, r)
         /\ ConfirmedRows(r, t, full)[s].status = StatusAfter(s, t, full)
<1>1. task[s] \in TaskRow
  BY TaskSets DEF Kinds
<1>2. task[s].status \in TaskStatus /\ task[s].assigned_resource \in Owner
  BY <1>1, TaskColumns
<1>3. ResourceAfter(s, r) \in Owner
  BY <1>2 DEF ResourceAfter, Owner
<1>4. StatusAfter(s, t, full) \in TaskStatus
  BY <1>2 DEF StatusAfter, TaskStatus, NonTerminal, Workable
<1>5. ConfirmedRows(r, t, full)[s] = Claimed(task[s], ResourceAfter(s, r), StatusAfter(s, t, full))
  BY Zenon DEF ConfirmedRows, Claimed, ResourceAfter, StatusAfter
<1>6. QED
  BY <1>1, <1>3, <1>4, <1>5, ClaimUpdate

LEMMA ConfirmedRowsAre ==
  ASSUME Kinds, NEW r \in Resources, NEW t \in TaskSlots, NEW full \in BOOLEAN
  PROVE  /\ ConfirmedRows(r, t, full) \in Tasks
         /\ \A s \in TaskSlots :
              /\ ConfirmedRows(r, t, full)[s].sequence = task[s].sequence
              /\ ConfirmedRows(r, t, full)[s].assigned_resource = ResourceAfter(s, r)
              /\ ConfirmedRows(r, t, full)[s].status = StatusAfter(s, t, full)
<1>1. \A s \in TaskSlots : ConfirmedRows(r, t, full)[s] \in TaskRow
  BY ConfirmedRow, Zenon
<1>2. ConfirmedRows(r, t, full) \in Tasks
  BY <1>1, Zenon DEF Tasks, ConfirmedRows
<1> DEFINE rows == ConfirmedRows(r, t, full)
<1>3. \A s \in TaskSlots : rows[s].sequence = task[s].sequence
  BY ConfirmedRow, Zenon
<1>4. \A s \in TaskSlots : rows[s].assigned_resource = ResourceAfter(s, r)
  BY ConfirmedRow, Zenon
<1>5. \A s \in TaskSlots : rows[s].status = StatusAfter(s, t, full)
  BY ConfirmedRow, Zenon
<1> HIDE DEF rows
<1>6. QED
  BY <1>2, <1>3, <1>4, <1>5, Zenon DEF rows

LEMMA ClaimedOrderIs ==
  ASSUME Kinds, NEW r \in Resources
  PROVE  /\ ClaimedOrder(r) \in OrderRow
         /\ ClaimedOrder(r).task_count = order.task_count
         /\ \/ ClaimedOrder(r).status = order.status
            \/ order.status = "Open" /\ ClaimedOrder(r).status = "Assigned"
         /\ IF order.assigned_resource = NoResource
            THEN ClaimedOrder(r).assigned_resource = r
            ELSE ClaimedOrder(r).assigned_resource = order.assigned_resource
<1>1. order \in OrderRow
  BY DEF Kinds
<1>2. CASE order.assigned_resource # NoResource
  BY <1>1, <1>2, Zenon DEF ClaimedOrder
<1>3. CASE order.assigned_resource = NoResource
  <2> DEFINE status == IF order.status = "Open" THEN "Assigned" ELSE order.status
  <2>1. status \in OrderStatus
    BY <1>1, OrderColumns DEF OrderStatus, OPEN_WO_STATUSES
  <2>2. ClaimedOrder(r) = [order EXCEPT !.assigned_resource = r, !.status = status]
    BY <1>3, Zenon DEF ClaimedOrder
  <2>3. /\ ClaimedOrder(r) \in OrderRow
        /\ ClaimedOrder(r).task_count = order.task_count
        /\ ClaimedOrder(r).status = status
        /\ ClaimedOrder(r).assigned_resource = r
    <3> HIDE DEF status
    <3>1. QED
      BY <1>1, <2>1, <2>2 DEF OrderRow, OrderStatus, Owner
  <2>4. QED
    BY <1>3, <2>3
<1>4. QED
  BY <1>2, <1>3

CancelledRows(cancelled) ==
  [t \in TaskSlots |-> IF t \in cancelled THEN [task[t] EXCEPT !.status = "Cancelled"] ELSE task[t]]

LEMMA CancelledRowsAre ==
  ASSUME Kinds, NEW cancelled
  PROVE  /\ CancelledRows(cancelled) \in Tasks
         /\ \A s \in TaskSlots :
              /\ CancelledRows(cancelled)[s].sequence = task[s].sequence
              /\ CancelledRows(cancelled)[s].assigned_resource = task[s].assigned_resource
              /\ CancelledRows(cancelled)[s].status =
                   IF s \in cancelled THEN "Cancelled" ELSE task[s].status
<1>1. "Cancelled" \in TaskStatus
  BY DEF TaskStatus
<1>2. ASSUME NEW s \in TaskSlots
      PROVE  /\ CancelledRows(cancelled)[s] \in TaskRow
             /\ CancelledRows(cancelled)[s].sequence = task[s].sequence
             /\ CancelledRows(cancelled)[s].assigned_resource = task[s].assigned_resource
             /\ CancelledRows(cancelled)[s].status =
                   IF s \in cancelled THEN "Cancelled" ELSE task[s].status
  <2>1. task[s] \in TaskRow
    BY TaskSets DEF Kinds
  <2>2. CancelledRows(cancelled)[s] =
          IF s \in cancelled THEN [task[s] EXCEPT !.status = "Cancelled"] ELSE task[s]
    BY Zenon DEF CancelledRows
  <2>3. CASE s \in cancelled
    <3>1. /\ [task[s] EXCEPT !.status = "Cancelled"] \in TaskRow
          /\ [task[s] EXCEPT !.status = "Cancelled"].status = "Cancelled"
          /\ [task[s] EXCEPT !.status = "Cancelled"].sequence = task[s].sequence
          /\ [task[s] EXCEPT !.status = "Cancelled"].assigned_resource = task[s].assigned_resource
      BY <1>1, <2>1, StatusUpdate
    <3>2. CancelledRows(cancelled)[s] = [task[s] EXCEPT !.status = "Cancelled"]
      BY <2>2, <2>3, Zenon
    <3>3. QED
      BY <2>3, <3>1, <3>2, Zenon
  <2>4. CASE s \notin cancelled
    BY <2>1, <2>2, <2>4, Zenon
  <2>5. QED
    BY <2>3, <2>4, Zenon
<1>3. QED
  BY <1>2, Zenon DEF CancelledRows, Tasks

LEMMA WithStatusIs ==
  ASSUME Kinds, NEW t \in TaskSlots, NEW status \in TaskStatus
  PROVE  /\ WithStatus(t, status) \in Tasks
         /\ \A s \in TaskSlots :
              /\ WithStatus(t, status)[s].sequence = task[s].sequence
              /\ WithStatus(t, status)[s].assigned_resource = task[s].assigned_resource
              /\ WithStatus(t, status)[s].status = IF s = t THEN status ELSE task[s].status
<1>1. task[t] \in TaskRow
  BY TaskSets DEF Kinds
<1>2. \A s \in TaskSlots :
        WithStatus(t, status)[s] = IF s = t THEN [task[t] EXCEPT !.status = status] ELSE task[s]
  BY Zenon DEF WithStatus, Kinds, Tasks
<1>3. ASSUME NEW s \in TaskSlots
      PROVE  /\ WithStatus(t, status)[s].sequence = task[s].sequence
             /\ WithStatus(t, status)[s].assigned_resource = task[s].assigned_resource
             /\ WithStatus(t, status)[s].status = IF s = t THEN status ELSE task[s].status
  <2>1. CASE s = t
    <3>1. /\ [task[t] EXCEPT !.status = status].status = status
          /\ [task[t] EXCEPT !.status = status].sequence = task[t].sequence
          /\ [task[t] EXCEPT !.status = status].assigned_resource = task[t].assigned_resource
      BY <1>1, StatusUpdate
    <3>2. WithStatus(t, status)[s] = [task[t] EXCEPT !.status = status]
      BY <1>2, <2>1, Zenon
    <3>3. QED
      BY <2>1, <3>1, <3>2, Zenon
  <2>2. CASE s # t
    BY <1>2, <2>2, Zenon
  <2>3. QED
    BY <2>1, <2>2
<1>4. QED
  BY <1>3, WithStatusType, Zenon
LEMMA ConfirmIs ==
  ASSUME Kinds, NEW r \in Resources, NEW t \in TaskSlots, NEW full \in BOOLEAN, Confirm(r, t, full)
  PROVE  /\ InFlight(r) /\ FreshOrder(r) /\ FreshTasks(r) /\ task[t].status \in Workable /\ Ends(r)
         /\ \E wo \in {ClaimedOrder(r), snapshot[r].order} :
              /\ wo # ClaimedOrder(r) => ClaimedOrder(r) = order
              /\ order' = Synced(ClaimedOrder(r), ConfirmedRows(r, t, full), wo)
         /\ ~full => task' = ConfirmedRows(r, t, full)
         /\ full => \E owner \in Owner :
              task' = ReleaseNext(ConfirmedRows(r, t, full),
                        Seen(r, ConfirmedRows(r, t, full), ClaimedTasks(r) \cup {t}), owner)
<1> DEFINE claims == ClaimedTasks(r)
           row    == ClaimedOrder(r)
           rows   == ConfirmedRows(r, t, full)
           wo     == IF row # order THEN row ELSE snapshot[r].order
           synced == Synced(row, TasksForSync(r, rows, claims \cup {t}), wo)
           owner  == IF wo.status # "On Hold" THEN synced.assigned_resource ELSE wo.assigned_resource
<1>1. /\ InFlight(r) /\ FreshOrder(r) /\ FreshTasks(r) /\ task[t].status \in Workable /\ Ends(r)
      /\ order' = synced
      /\ task' = IF full THEN ReleaseNext(rows, Seen(r, rows, claims \cup {t}), owner) ELSE rows
  BY Zenon DEF Confirm, ConfirmedRows
<1>2. synced = Synced(row, rows, wo)
  BY Zenon DEF TasksForSync
<1>3. wo \in {row, snapshot[r].order} /\ (wo # row => row = order)
  BY Zenon
<1>4. owner \in Owner
  <2>1. row \in OrderRow /\ snapshot[r].order \in OrderRow /\ rows \in Tasks
    BY ClaimedOrderIs, ReadType, ConfirmedRowsAre
  <2>2. wo \in OrderRow
    BY <1>3, <2>1
  <2>3. synced \in OrderRow
    BY <1>2, <2>1, SyncedKeeps, Zenon
  <2>4. QED
    BY <2>2, <2>3, OrderColumns
<1> HIDE DEF synced, owner, wo, row, claims, rows
<1>5. order' = Synced(row, rows, wo)
  BY <1>1, <1>2
<1>6. /\ ~full => task' = rows
      /\ full => \E o \in Owner : task' = ReleaseNext(rows, Seen(r, rows, claims \cup {t}), o)
  BY <1>1, <1>4, Zenon
<1>7. QED
  BY <1>1, <1>3, <1>5, <1>6, Zenon DEF row, rows, claims

LEMMA ConfirmKinds ==
  ASSUME Kinds, NEW r \in Resources, Working(r)
  PROVE  Kinds'
<1>1. PICK t \in TaskSlots, full \in BOOLEAN : Confirm(r, t, full)
  BY Zenon DEF Working
<1> DEFINE rows == ConfirmedRows(r, t, full)
<1>2. rows \in Tasks /\ ClaimedOrder(r) \in OrderRow
  BY ConfirmedRowsAre, ClaimedOrderIs
<1>3. order' \in OrderRow /\ snapshot' \in [Resources -> ReadRow]
  <2>1. PICK wo : order' = Synced(ClaimedOrder(r), rows, wo)
    BY <1>1, ConfirmIs, Zenon
  <2>2. Ends(r)
    BY <1>1, ConfirmIs, Zenon
  <2>3. order' \in OrderRow
    BY <1>2, <2>1, SyncedKeeps, Zenon
  <2>4. QED
    BY <2>2, <2>3, EndsType, Zenon
<1>4. CASE full
  <2>1. PICK owner \in Owner :
          task' = ReleaseNext(rows, Seen(r, rows, ClaimedTasks(r) \cup {t}), owner)
    BY <1>1, <1>4, ConfirmIs, Zenon
  <2>2. Seen(r, rows, ClaimedTasks(r) \cup {t}) \in Tasks
    BY <1>2, SeenType, Zenon
  <2>3. task' \in Tasks
    BY <1>2, <2>1, <2>2, Released, Zenon
  <2>4. QED
    BY <1>3, <2>3 DEF Kinds
<1>5. CASE ~full
  <2>1. task' = rows
    BY <1>1, <1>5, ConfirmIs, Zenon
  <2>2. QED
    BY <1>2, <1>3, <2>1 DEF Kinds
<1>6. QED
  BY <1>4, <1>5
LEMMA StopKinds ==
  ASSUME Kinds, NEW r \in Resources, NEW t \in TaskSlots, StopTask(r, t)
  PROVE  Kinds'
<1>1. task' = WithStatus(t, "Exception") /\ Ends(r)
  BY Zenon DEF StopTask
<1>2. "Exception" \in TaskStatus
  BY DEF TaskStatus, NonTerminal
<1>3. task' \in Tasks
  BY <1>1, <1>2, WithStatusIs, Zenon
<1>4. order' = Synced(order, task', snapshot[r].order)
  BY Zenon DEF StopTask, TasksForSync
<1>5. order' \in OrderRow
  <2>1. order \in OrderRow
    BY DEF Kinds
  <2>2. QED
    BY <1>3, <1>4, <2>1, SyncedKeeps, Zenon
<1>6. QED
  BY <1>1, <1>3, <1>5, EndsType, Zenon DEF Kinds

LEMMA CloseShortIs ==
  ASSUME Kinds, NEW r \in Resources, NEW t \in TaskSlots, CloseShort(r, t)
  PROVE  /\ InFlight(r) /\ FreshForSync(r) /\ task[t].status \in NonTerminal /\ Ends(r)
         /\ WithStatus(t, "Confirmed") \in Tasks
         /\ order' = Synced(order, WithStatus(t, "Confirmed"), snapshot[r].order)
         /\ \E owner \in Owner :
              task' = ReleaseNext(WithStatus(t, "Confirmed"), Seen(r, WithStatus(t, "Confirmed"), {t}), owner)
<1> DEFINE rows == WithStatus(t, "Confirmed")
           synced == Synced(order, rows, snapshot[r].order)
           owner == IF snapshot[r].order.status # "On Hold" THEN synced.assigned_resource
                    ELSE snapshot[r].order.assigned_resource
<1>1. "Confirmed" \in TaskStatus
  BY DEF TaskStatus
<1>2. rows \in Tasks
  BY <1>1, WithStatusIs, Zenon
<1>3. owner \in Owner
  <2>1. order \in OrderRow /\ snapshot[r].order \in OrderRow
    BY ReadType DEF Kinds
  <2>2. synced \in OrderRow
    BY <1>2, <2>1, SyncedKeeps, Zenon
  <2>3. QED
    BY <2>1, <2>2, OrderColumns
<1>4. /\ InFlight(r) /\ FreshForSync(r) /\ task[t].status \in NonTerminal /\ Ends(r)
      /\ order' = synced /\ task' = ReleaseNext(rows, Seen(r, rows, {t}), owner)
  BY Zenon DEF CloseShort, TasksForSync
<1> HIDE DEF owner
<1>5. QED
  BY <1>2, <1>3, <1>4, Zenon

LEMMA CloseShortKinds ==
  ASSUME Kinds, NEW r \in Resources, NEW t \in TaskSlots, CloseShort(r, t)
  PROVE  Kinds'
<1> DEFINE rows == WithStatus(t, "Confirmed")
<1>1. rows \in Tasks /\ Ends(r) /\ order' = Synced(order, rows, snapshot[r].order) /\ order \in OrderRow
  BY CloseShortIs, Zenon DEF Kinds
<1>2. PICK owner \in Owner : task' = ReleaseNext(rows, Seen(r, rows, {t}), owner)
  BY CloseShortIs, Zenon
<1>3. Seen(r, rows, {t}) \in Tasks
  BY <1>1, SeenType, Zenon
<1>4. task' \in Tasks
  BY <1>1, <1>2, <1>3, Released, Zenon
<1>5. order' \in OrderRow
  BY <1>1, SyncedKeeps, Zenon
<1>6. QED
  BY <1>1, <1>4, <1>5, EndsType, Zenon DEF Kinds

LEMMA CancelTasksIs ==
  ASSUME Kinds, NEW r \in Resources, NEW cancelled, CancelTasks(r, cancelled)
  PROVE  /\ InFlight(r) /\ FreshForSync(r) /\ Ends(r)
         /\ order' = Synced(order, task', snapshot[r].order)
         /\ \E owner \in Owner :
              task' = ReleaseNext(CancelledRows(cancelled), Seen(r, CancelledRows(cancelled), cancelled), owner)
<1>1. snapshot[r].order.assigned_resource \in Owner
  BY ReadType, OrderColumns
<1>2. /\ InFlight(r) /\ FreshForSync(r) /\ Ends(r)
      /\ order' = Synced(order, task', snapshot[r].order)
      /\ task' = ReleaseNext(CancelledRows(cancelled), Seen(r, CancelledRows(cancelled), cancelled),
                             snapshot[r].order.assigned_resource)
  BY Zenon DEF CancelTasks, TasksForSync, CancelledRows
<1>3. QED
  BY <1>1, <1>2, Zenon

LEMMA CancelledSome ==
  ASSUME NEW r \in Resources, Cancels(r)
  PROVE  \E cancelled \in (SUBSET Unfinished(task)) \cup (SUBSET Unfinished(snapshot[r].task)) :
           cancelled # {} /\ CancelTasks(r, cancelled)
BY Zenon DEF Cancels, CancelPicks, CancelStaging

LEMMA CancelKinds ==
  ASSUME Kinds, NEW r \in Resources, Cancels(r)
  PROVE  Kinds'
<1>1. PICK cancelled : CancelTasks(r, cancelled)
  BY CancelledSome, Zenon
<1> DEFINE rows == CancelledRows(cancelled)
<1>2. rows \in Tasks
  BY CancelledRowsAre, Zenon
<1>3. PICK owner \in Owner : task' = ReleaseNext(rows, Seen(r, rows, cancelled), owner)
  BY <1>1, CancelTasksIs, Zenon
<1>4. Seen(r, rows, cancelled) \in Tasks
  BY <1>2, SeenType, Zenon
<1>5. task' \in Tasks
  BY <1>2, <1>3, <1>4, Released, Zenon
<1>6. Ends(r) /\ order' = Synced(order, task', snapshot[r].order) /\ order \in OrderRow
  BY <1>1, CancelTasksIs, Zenon DEF Kinds
<1>7. order' \in OrderRow
  BY <1>5, <1>6, SyncedKeeps, Zenon
<1>8. QED
  BY <1>5, <1>6, <1>7, EndsType, Zenon DEF Kinds
LEMMA SkipTaskIs ==
  ASSUME Kinds, NEW r \in Resources, NEW t \in TaskSlots, SkipTask(r, t)
  PROVE  /\ UNCHANGED order /\ Ends(r)
         /\ task' \in Tasks
         /\ \A s \in TaskSlots : task'[s].status = task[s].status
<1>1. PICK last \in LastTasks(snapshot[r].task) :
        task' = [task EXCEPT ![t].sequence = snapshot[r].task[last].sequence + 1]
  BY Zenon DEF SkipTask
<1>2. last \in TaskSlots
  BY Zenon DEF LastTasks, Exists
<1>3. snapshot[r].task[last].sequence \in Nat
  BY <1>2, ReadType, TaskSets
<1>4. PICK n \in Nat : task' = [task EXCEPT ![t].sequence = n]
  BY <1>1, <1>3, NextNatural, Zenon
<1>5. task[t] \in TaskRow
  BY TaskSets DEF Kinds
<1>6. [task[t] EXCEPT !.sequence = n] \in TaskRow /\ [task[t] EXCEPT !.sequence = n].status = task[t].status
  BY <1>5, SequenceUpdate
<1>7. \A s \in TaskSlots : task'[s] = IF s = t THEN [task[t] EXCEPT !.sequence = n] ELSE task[s]
  BY <1>4, Zenon DEF Kinds, Tasks
<1>8. task' \in Tasks
  BY <1>4, <1>6, Zenon DEF Kinds, Tasks
<1>9. \A s \in TaskSlots : task'[s].status = task[s].status
  BY <1>6, <1>7, Zenon
<1>10. UNCHANGED order /\ Ends(r)
  BY Zenon DEF SkipTask
<1>11. QED
  BY <1>8, <1>9, <1>10, Zenon

\* The new task of attach_task or of a split; the other rows stay.
Added(rows, row) ==
  /\ FreeSlot \in TaskSlots /\ row \in TaskRow
  /\ rows = [task EXCEPT ![FreeSlot] = row]

LEMMA SplitTaskIs ==
  ASSUME Kinds, NEW t \in TaskSlots, SplitTask(t)
  PROVE  /\ UNCHANGED snapshot /\ task[t].status \in NonTerminal
         /\ order' \in OrderRow /\ order'.status = order.status
         /\ \E row : Added(task', row) /\ row.status \in {"Open", "Assigned", "On Hold"}
<1> DEFINE status == IF task[t].status \in {"Open", "Assigned", "On Hold"} THEN task[t].status ELSE "Open"
           row == [task[t] EXCEPT !.status = status]
<1>1. status \in {"Open", "Assigned", "On Hold"} /\ status \in TaskStatus
  BY DEF TaskStatus, NonTerminal, Workable
<1>2. task[t] \in TaskRow
  BY TaskSets DEF Kinds
<1>3. /\ UNCHANGED snapshot /\ task[t].status \in NonTerminal /\ FreeSlot \in TaskSlots
      /\ task' = [task EXCEPT ![FreeSlot] = row]
      /\ order' = [order EXCEPT !.task_count = order.task_count + 1]
  BY Zenon DEF SplitTask
<1>4. row \in TaskRow /\ row.status = status
  <2> HIDE DEF status
  <2>1. QED
    BY <1>1, <1>2, StatusUpdate
<1>5. order.task_count + 1 \in Nat
  <2>1. order.task_count \in Nat
    BY OrderColumns, Zenon DEF Kinds
  <2>2. QED
    BY <2>1, NextNatural, Zenon
<1>6. order' \in OrderRow /\ order'.status = order.status
  BY <1>3, <1>5, Zenon DEF Kinds, OrderRow
<1> HIDE DEF row, status
<1>7. Added(task', row)
  BY <1>3, <1>4, Zenon DEF Added
<1>8. QED
  BY <1>1, <1>3, <1>4, <1>6, <1>7, Zenon

LEMMA AddedType ==
  ASSUME Kinds, NEW rows, NEW row, Added(rows, row)
  PROVE  /\ rows \in Tasks /\ rows[FreeSlot] = row
         /\ \A s \in TaskSlots \ {FreeSlot} : rows[s] = task[s]
BY Zenon DEF Added, Kinds, Tasks

LEMMA OrderStatusUpdate ==
  ASSUME NEW row \in OrderRow, NEW st \in OrderStatus
  PROVE  [row EXCEPT !.status = st] \in OrderRow /\ [row EXCEPT !.status = st].status = st
BY DEF OrderRow, OrderStatus

LEMMA BlockIs ==
  ASSUME Kinds, Block
  PROVE  UNCHANGED <<task, snapshot>> /\ order' \in OrderRow /\ order'.status = "On Hold"
<1>1. "On Hold" \in OrderStatus /\ order \in OrderRow
  BY DEF OrderStatus, Kinds
<1>2. order' = [order EXCEPT !.status = "On Hold"] /\ UNCHANGED <<task, snapshot>>
  BY Zenon DEF Block
<1>3. QED
  BY <1>1, <1>2, OrderStatusUpdate

LEMMA ResumeIs ==
  ASSUME Kinds, Resume
  PROVE  /\ UNCHANGED <<task, snapshot>> /\ order' \in OrderRow
         /\ \E row \in OrderRow : row.status = "Open" /\ order' = Synced(row, task, row)
<1>1. "Open" \in OrderStatus /\ order \in OrderRow /\ task \in Tasks
  BY DEF OrderStatus, OPEN_WO_STATUSES, Kinds
<1>2. PICK row : row = [order EXCEPT !.status = "Open"]
  OBVIOUS
<1>3. row \in OrderRow /\ row.status = "Open"
  BY <1>1, <1>2, OrderStatusUpdate
<1>4. order' = Synced(row, task, row) /\ UNCHANGED <<task, snapshot>>
  BY <1>2, Zenon DEF Resume
<1>5. order' \in OrderRow
  BY <1>1, <1>3, <1>4, SyncedKeeps, Zenon
<1>6. QED
  BY <1>3, <1>4, <1>5, Zenon

LEMMA BeginIs ==
  ASSUME Kinds, NEW r \in Resources, Begin(r)
  PROVE  /\ UNCHANGED <<order, task>>
         /\ \A w \in Resources :
              snapshot'[w] = IF w = r THEN [order |-> order, task |-> task] ELSE snapshot[w]
         /\ snapshot' \in [Resources -> ReadRow]
BY Zenon DEF Begin, Kinds, ReadRow

LEMMA NextKinds == Kinds /\ [Next]_vars => Kinds'
<1> SUFFICES ASSUME Kinds, [Next]_vars PROVE Kinds'
  OBVIOUS
<1>1. CASE UNCHANGED vars
  BY <1>1, Zenon DEF vars, Kinds
<1>2. ASSUME NEW r \in Resources, Executing(r)
      PROVE  Kinds'
  <2>1. CASE Begin(r)
    <3>1. UNCHANGED <<order, task>> /\ snapshot' \in [Resources -> ReadRow]
      BY <2>1, BeginIs, Zenon
    <3>2. QED
      BY <3>1, Zenon DEF Kinds
  <2>2. CASE Attach(r)
    BY <2>2, AttachKinds, Zenon
  <2>3. CASE Working(r)
    BY <2>3, ConfirmKinds, Zenon
  <2>4. CASE Excepts(r)
    BY <2>4, StopKinds, CloseShortKinds, Zenon DEF Excepts
  <2>5. CASE Cancels(r)
    BY <2>5, CancelKinds, Zenon
  <2>6. QED
    BY <1>2, <2>1, <2>2, <2>3, <2>4, <2>5, Zenon DEF Executing
<1>3. ASSUME NEW r \in Resources, Reorders(r)
      PROVE  Kinds'
  <2>1. PICK t \in TaskSlots : SkipTask(r, t) \/ SplitTask(t)
    BY <1>3, Zenon DEF Reorders
  <2>2. CASE SkipTask(r, t)
    <3>1. UNCHANGED order /\ Ends(r) /\ task' \in Tasks
      BY <2>2, SkipTaskIs, Zenon
    <3>2. QED
      BY <3>1, EndsType, Zenon DEF Kinds
  <2>3. CASE SplitTask(t)
    <3>1. PICK row : Added(task', row)
      BY <2>3, SplitTaskIs, Zenon
    <3>2. UNCHANGED snapshot /\ order' \in OrderRow
      BY <2>3, SplitTaskIs, Zenon
    <3>3. task' \in Tasks
      BY <3>1, AddedType, Zenon
    <3>4. QED
      BY <3>2, <3>3, Zenon DEF Kinds
  <2>4. QED
    BY <2>1, <2>2, <2>3, Zenon
<1>4. ASSUME Block PROVE Kinds'
  BY <1>4, BlockIs, Zenon DEF Kinds
<1>5. ASSUME Resume PROVE Kinds'
  BY <1>5, ResumeIs, Zenon DEF Kinds
<1>6. ASSUME NEW r \in Resources, Dispatching(r) PROVE Kinds'
  BY <1>6, DispatchKinds, Zenon
<1>7. QED
  BY <1>1, <1>2, <1>3, <1>4, <1>5, <1>6, Zenon DEF Next, Execution, Supervision

\* Until a supervisor intervenes every step is one of the execution.
LEMMA SupervisedStep ==
  ASSUME supervised \in BOOLEAN, [Next]_vars
  PROVE  /\ supervised' \in BOOLEAN
         /\ ~supervised' => ~supervised /\ (Execution \/ UNCHANGED orderVars)
BY DEF Next, vars, orderVars

\* The order and its tasks always hold what their columns may hold: counters
\* never go below zero and owners are resources, whatever setting the database
\* has.
THEOREM TypeCorrect == Spec => []TypeOK
<1> DEFINE Inv == Kinds /\ supervised \in BOOLEAN
<1>1. Init => Inv
  BY InitKinds DEF Init
<1>2. Inv /\ [Next]_vars => Inv'
  BY NextKinds, SupervisedStep
<1>3. Inv => TypeOK
  BY KindsAreTypes
<1>4. QED
  BY <1>1, <1>2, <1>3, PTL DEF Spec
-----------------------------------------------------------------------------
(* What the steps of a request have in common under snapshot isolation.    *)

\* From task to rows some tasks were confirmed, stopped or cancelled, and the
\* resource of the order claimed some: nothing else changed.
Worked(rows, resource) ==
  \A t \in TaskSlots :
    /\ rows[t].sequence = task[t].sequence
    /\ rows[t].assigned_resource \in {task[t].assigned_resource, resource}
    /\ rows[t].status = "None" <=> task[t].status = "None"
    /\ t \in Finished(task) => rows[t].status = task[t].status
    /\ rows[t].status = "On Hold" => task[t].status = "On Hold"
    /\ rows[t].status \in Workable => task[t].status \in Workable

\* A request that works on tasks claims the order if it has no owner, and syncs
\* it unless it is, or was read as, paused.
ClaimedRow(row) ==
  /\ row \in OrderRow /\ row.task_count = order.task_count
  /\ row.status = order.status \/ (order.status = "Open" /\ row.status = "Assigned")
  /\ order.assigned_resource \in {NoResource, row.assigned_resource}

WorkStep(r) ==
  /\ Unfinished(task) # {}
  /\ InFlight(r) /\ Ends(r)
  /\ \E row, rows :
       /\ ClaimedRow(row) /\ rows \in Tasks /\ Worked(rows, row.assigned_resource)
       /\ \/ task' = rows /\ Unfinished(rows) = Unfinished(task)
          \/ \E owner \in Owner : task' = ReleaseNext(rows, rows, owner)
       /\ \/ order' = row /\ snapshot[r].order.status = "On Hold"
          \/ order' = Synced(row, rows, row)
          \/ order' = Synced(row, task', row)

LEMMA SeenFresh ==
  ASSUME Kinds, NEW r \in Resources, NEW rows \in Tasks, NEW written, task = snapshot[r].task,
         \A s \in TaskSlots \ written : rows[s] = task[s]
  PROVE  Seen(r, rows, written) = rows
BY Zenon DEF Seen, Tasks

LEMMA ConfirmedElsewhere ==
  ASSUME Kinds, NEW r \in Resources, NEW t \in TaskSlots, NEW full \in BOOLEAN,
         NEW s \in TaskSlots, s \notin ClaimedTasks(r) \cup {t}
  PROVE  ConfirmedRows(r, t, full)[s] = task[s]
<1>1. task[s] \in TaskRow
  BY TaskSets DEF Kinds
<1>2. ConfirmedRows(r, t, full)[s] \in TaskRow
  BY ConfirmedRowsAre, TaskSets
<1>3. /\ ConfirmedRows(r, t, full)[s].sequence = task[s].sequence
      /\ ConfirmedRows(r, t, full)[s].assigned_resource = ResourceAfter(s, r)
      /\ ConfirmedRows(r, t, full)[s].status = StatusAfter(s, t, full)
  BY ConfirmedRow
<1>4. ResourceAfter(s, r) = task[s].assigned_resource /\ StatusAfter(s, t, full) = task[s].status
  BY DEF ResourceAfter, StatusAfter
<1>5. QED
  BY <1>1, <1>2, <1>3, <1>4 DEF TaskRow

LEMMA SyncedFrom ==
  ASSUME Kinds, SnapshotIsolation, NEW r \in Resources, NEW rows \in Tasks,
         snapshot[r].order.status # "On Hold" => FreshOrder(r),
         order' = Synced(order, rows, snapshot[r].order)
  PROVE  \/ order' = order /\ snapshot[r].order.status = "On Hold"
         \/ order' = Synced(order, rows, order)
<1>1. CASE snapshot[r].order.status = "On Hold"
  <2>1. order \in OrderRow
    BY DEF Kinds
  <2>2. Synced(order, rows, snapshot[r].order) = order
    BY <1>1, <2>1, SyncedKeeps, Zenon
  <2>3. QED
    BY <1>1, <2>2, Zenon
<1>2. CASE snapshot[r].order.status # "On Hold"
  BY <1>2, Zenon DEF FreshOrder
<1>3. QED
  BY <1>1, <1>2

LEMMA OwnRow == ASSUME Kinds PROVE ClaimedRow(order)
BY DEF Kinds, ClaimedRow

LEMMA StopWorks ==
  ASSUME Kinds, SnapshotIsolation, NEW r \in Resources, NEW t \in TaskSlots, StopTask(r, t)
  PROVE  WorkStep(r)
<1> DEFINE rows == WithStatus(t, "Exception")
<1>1. "Exception" \in TaskStatus /\ "Exception" \in NonTerminal
  BY DEF TaskStatus, NonTerminal
<1>2. /\ InFlight(r) /\ FreshForSync(r) /\ task[t].status \in NonTerminal /\ Ends(r) /\ task' = rows
      /\ order' = Synced(order, rows, snapshot[r].order)
  BY Zenon DEF StopTask, TasksForSync
<1>3. /\ rows \in Tasks
      /\ \A s \in TaskSlots :
           /\ rows[s].sequence = task[s].sequence
           /\ rows[s].assigned_resource = task[s].assigned_resource
           /\ rows[s].status = IF s = t THEN "Exception" ELSE task[s].status
  BY <1>1, WithStatusIs, Zenon
<1> HIDE DEF rows
<1>4. Unfinished(rows) = Unfinished(task) /\ Unfinished(task) # {}
  BY <1>1, <1>2, <1>3 DEF Unfinished
<1>5. Worked(rows, order.assigned_resource)
  BY <1>2, <1>3 DEF Worked, Finished, NonTerminal, Workable
<1>6. \/ order' = order /\ snapshot[r].order.status = "On Hold"
      \/ order' = Synced(order, rows, order)
  BY <1>2, <1>3, SyncedFrom, Zenon DEF FreshForSync
<1>7. QED
  BY <1>2, <1>3, <1>4, <1>5, <1>6, OwnRow, Zenon DEF WorkStep

LEMMA CloseShortWorks ==
  ASSUME Kinds, SnapshotIsolation, NEW r \in Resources, NEW t \in TaskSlots, CloseShort(r, t)
  PROVE  WorkStep(r)
<1> DEFINE rows == WithStatus(t, "Confirmed")
<1>1. "Confirmed" \in TaskStatus
  BY DEF TaskStatus
<1>2. /\ InFlight(r) /\ FreshForSync(r) /\ task[t].status \in NonTerminal /\ Ends(r)
      /\ rows \in Tasks
      /\ order' = Synced(order, rows, snapshot[r].order)
      /\ \E owner \in Owner : task' = ReleaseNext(rows, Seen(r, rows, {t}), owner)
  BY CloseShortIs, Zenon
<1>3. \A s \in TaskSlots :
        /\ rows[s].sequence = task[s].sequence
        /\ rows[s].assigned_resource = task[s].assigned_resource
        /\ rows[s].status = IF s = t THEN "Confirmed" ELSE task[s].status
  BY <1>1, WithStatusIs, Zenon
<1>4. Seen(r, rows, {t}) = rows
  <2>1. task = snapshot[r].task
    BY <1>2, Zenon DEF FreshForSync, FreshTasks
  <2>2. \A s \in TaskSlots \ {t} : rows[s] = task[s]
    BY Zenon DEF WithStatus, Kinds, Tasks
  <2>3. QED
    BY <1>2, <2>1, <2>2, SeenFresh, Zenon
<1> HIDE DEF rows
<1>5. Unfinished(task) # {}
  BY <1>2, Zenon DEF Unfinished
<1>6. Worked(rows, order.assigned_resource)
  BY <1>2, <1>3 DEF Worked, Finished, NonTerminal, Workable
<1>7. \/ order' = order /\ snapshot[r].order.status = "On Hold"
      \/ order' = Synced(order, rows, order)
  BY <1>2, SyncedFrom, Zenon DEF FreshForSync
<1>8. QED
  BY <1>2, <1>4, <1>5, <1>6, <1>7, OwnRow, Zenon DEF WorkStep
LEMMA ConfirmWorks ==
  ASSUME Kinds, SnapshotIsolation, NEW r \in Resources, Working(r)
  PROVE  WorkStep(r)
<1>1. PICK t \in TaskSlots, full \in BOOLEAN : Confirm(r, t, full)
  BY Zenon DEF Working
<1> DEFINE rows == ConfirmedRows(r, t, full)
           row == ClaimedOrder(r)
<1>2. InFlight(r) /\ FreshOrder(r) /\ FreshTasks(r) /\ task[t].status \in Workable /\ Ends(r)
  BY <1>1, ConfirmIs, Zenon
<1>3. order = snapshot[r].order /\ task = snapshot[r].task
  BY <1>2, Zenon DEF FreshOrder, FreshTasks
<1>4. order' = Synced(row, rows, row)
  <2>1. PICK wo \in {row, snapshot[r].order} :
          (wo # row => row = order) /\ order' = Synced(row, rows, wo)
    BY <1>1, ConfirmIs, Zenon
  <2>2. wo = row
    BY <1>3, <2>1
  <2>3. QED
    BY <2>1, <2>2
<1>5. /\ rows \in Tasks
      /\ \A s \in TaskSlots :
           /\ rows[s].sequence = task[s].sequence
           /\ rows[s].assigned_resource = ResourceAfter(s, r)
           /\ rows[s].status = StatusAfter(s, t, full)
  BY ConfirmedRowsAre, Zenon
<1>6. Seen(r, rows, ClaimedTasks(r) \cup {t}) = rows
  <2>1. \A s \in TaskSlots \ (ClaimedTasks(r) \cup {t}) : rows[s] = task[s]
    BY ConfirmedElsewhere
  <2>2. QED
    BY <1>3, <1>5, <2>1, SeenFresh, ZenonT(40)
<1>7. ClaimedRow(row) /\ (\A s \in ClaimedTasks(r) : row.assigned_resource = r)
  <2>1. ClaimedRow(row)
    BY ClaimedOrderIs DEF ClaimedRow
  <2>2. ASSUME NEW s \in ClaimedTasks(r) PROVE row.assigned_resource = r
    <3>1. order.assigned_resource = NoResource
      BY DEF ClaimedTasks
    <3>2. QED
      BY <3>1, ClaimedOrderIs
  <2>3. QED
    BY <2>1, <2>2, Zenon
<1>8. /\ ~full => task' = rows
      /\ full => \E owner \in Owner : task' = ReleaseNext(rows, rows, owner)
  BY <1>1, <1>6, ConfirmIs, Zenon
<1>9. Unfinished(task) # {}
  BY <1>2 DEF Unfinished, NonTerminal
<1> HIDE DEF rows, row
<1>10. Worked(rows, row.assigned_resource)
  <2>1. \A s \in TaskSlots : rows[s].assigned_resource \in {task[s].assigned_resource, row.assigned_resource}
    BY <1>5, <1>7 DEF ResourceAfter
  <2>2. ASSUME NEW s \in TaskSlots
        PROVE  /\ rows[s].status = "None" <=> task[s].status = "None"
               /\ s \in Finished(task) => rows[s].status = task[s].status
               /\ rows[s].status = "On Hold" => task[s].status = "On Hold"
               /\ rows[s].status \in Workable => task[s].status \in Workable
    <3>1. CASE s = t
      BY <1>2, <1>5, <3>1 DEF StatusAfter, Finished, Workable
    <3>2. CASE s # t
      BY <1>5, <3>2 DEF StatusAfter
    <3>3. QED
      BY <3>1, <3>2
  <2>3. QED
    BY <1>5, <2>1, <2>2, Zenon DEF Worked
<1>11. ~full => Unfinished(rows) = Unfinished(task)
  BY <1>2, <1>5 DEF StatusAfter, Unfinished, NonTerminal, Workable
<1>12. \/ task' = rows /\ Unfinished(rows) = Unfinished(task)
       \/ \E owner \in Owner : task' = ReleaseNext(rows, rows, owner)
  BY <1>8, <1>11, Zenon
<1>13. QED
  BY <1>2, <1>4, <1>5, <1>7, <1>9, <1>10, <1>12, Zenon DEF WorkStep

LEMMA CancelWorks ==
  ASSUME Kinds, SnapshotIsolation, NEW r \in Resources, Cancels(r)
  PROVE  WorkStep(r)
<1>1. PICK cancelled \in (SUBSET Unfinished(task)) \cup (SUBSET Unfinished(snapshot[r].task)) :
        cancelled # {} /\ CancelTasks(r, cancelled)
  BY CancelledSome, Zenon
<1> DEFINE rows == CancelledRows(cancelled)
<1>2. /\ InFlight(r) /\ FreshForSync(r) /\ Ends(r)
      /\ order' = Synced(order, task', snapshot[r].order)
      /\ \E owner \in Owner : task' = ReleaseNext(rows, Seen(r, rows, cancelled), owner)
  BY <1>1, CancelTasksIs, Zenon
<1>3. task = snapshot[r].task
  BY <1>2, Zenon DEF FreshForSync, FreshTasks
<1>4. cancelled \subseteq Unfinished(task) /\ Unfinished(task) # {}
  BY <1>1, <1>3
<1>5. /\ rows \in Tasks
      /\ \A s \in TaskSlots :
           /\ rows[s].sequence = task[s].sequence
           /\ rows[s].assigned_resource = task[s].assigned_resource
           /\ rows[s].status = IF s \in cancelled THEN "Cancelled" ELSE task[s].status
  BY CancelledRowsAre, Zenon
<1>6. Seen(r, rows, cancelled) = rows
  <2>1. \A s \in TaskSlots :
          rows[s] = IF s \in cancelled THEN [task[s] EXCEPT !.status = "Cancelled"] ELSE task[s]
    BY Zenon DEF CancelledRows
  <2> HIDE DEF rows
  <2>2. \A s \in TaskSlots \ cancelled : rows[s] = task[s]
    BY <2>1, Zenon
  <2>3. rows \in Tasks
    BY <1>5
  <2>4. QED
    BY <1>3, <2>2, <2>3, SeenFresh, Zenon
<1> HIDE DEF rows
<1>7. \A s \in cancelled : task[s].status \in NonTerminal
  BY <1>4 DEF Unfinished
<1>8. Worked(rows, order.assigned_resource)
  <2>1. ASSUME NEW s \in TaskSlots
        PROVE  /\ rows[s].status = "None" <=> task[s].status = "None"
               /\ s \in Finished(task) => rows[s].status = task[s].status
               /\ rows[s].status = "On Hold" => task[s].status = "On Hold"
               /\ rows[s].status \in Workable => task[s].status \in Workable
    <3>1. CASE s \in cancelled
      BY <1>5, <1>7, <3>1 DEF Finished, NonTerminal, Workable
    <3>2. CASE s \notin cancelled
      BY <1>5, <3>2
    <3>3. QED
      BY <3>1, <3>2
  <2>2. QED
    BY <1>5, <2>1 DEF Worked
<1>9. task' \in Tasks
  <2>1. PICK owner \in Owner : task' = ReleaseNext(rows, rows, owner)
    BY <1>2, <1>6, Zenon
  <2>2. QED
    BY <1>5, <2>1, Released, Zenon
<1>10. \/ order' = order /\ snapshot[r].order.status = "On Hold"
       \/ order' = Synced(order, task', order)
  BY <1>2, <1>9, SyncedFrom, Zenon DEF FreshForSync
<1>11. QED
  BY <1>2, <1>4, <1>5, <1>6, <1>8, <1>10, OwnRow, Zenon DEF WorkStep

LEMMA Works ==
  ASSUME Kinds, SnapshotIsolation, NEW r \in Resources, Working(r) \/ Excepts(r) \/ Cancels(r)
  PROVE  WorkStep(r)
BY ConfirmWorks, CancelWorks, StopWorks, CloseShortWorks, Zenon DEF Excepts
-----------------------------------------------------------------------------
(* What a step can do to the tasks: work on them, add one, or leave their  *)
(* statuses as they are.                                                   *)

TaskAdded ==
  /\ \E row : Added(task', row) /\ row.status \in {"Open", "Assigned", "On Hold"}
  /\ order'.status = order.status
  /\ order.status \in OPEN_WO_STATUSES \/ Unfinished(task) # {}

SameStatuses == task' \in Tasks /\ \A t \in TaskSlots : task'[t].status = task[t].status

Reassigned ==
  /\ SameStatuses
  /\ \/ UNCHANGED order
     \/ order.status \in {"Open", "Assigned"} /\ order'.status \in {"Open", "Assigned"}

\* The row attach_task makes of what its request has read.
Held(r, seq) == \E s \in Unfinished(snapshot[r].task) : snapshot[r].task[s].sequence < seq
FirstStatus(r, seq, cached) ==
  IF Held(r, seq) THEN "On Hold" ELSE IF cached = NoResource THEN "Open" ELSE "Assigned"
NewTask(r, seq, cached) ==
  [status |-> FirstStatus(r, seq, cached), sequence |-> seq, assigned_resource |-> cached]

AttachedAs(row, r, seq, cached) ==
  /\ Added(task', row)
  /\ row.status \in {"Open", "Assigned", "On Hold"} /\ (row.status = "On Hold" => Held(r, seq))
  /\ row.sequence = seq /\ row.assigned_resource = cached

LEMMA AttachTaskIs ==
  ASSUME Kinds, NEW r \in Resources, NEW seq \in (0..MaxSequence), NEW cached \in Owner,
         AttachTask(r, seq, cached)
  PROVE  /\ \E row : AttachedAs(row, r, seq, cached)
         /\ order'.task_count = snapshot[r].order.task_count + 1
         /\ order'.status = order.status /\ order'.assigned_resource = order.assigned_resource
         /\ order'.confirmed_count = order.confirmed_count
         /\ InFlight(r) /\ FreshOrder(r) /\ Ends(r)
         /\ snapshot[r].order.status \in OPEN_WO_STATUSES
         /\ cached \in {snapshot[r].order.assigned_resource, NoResource}
<1> DEFINE row == NewTask(r, seq, cached)
<1>1. /\ FirstStatus(r, seq, cached) \in {"Open", "Assigned", "On Hold"}
      /\ FirstStatus(r, seq, cached) = "On Hold" => Held(r, seq)
  BY DEF FirstStatus
<1>2. /\ InFlight(r) /\ FreshOrder(r) /\ Ends(r)
      /\ snapshot[r].order.status \in OPEN_WO_STATUSES
      /\ cached \in {snapshot[r].order.assigned_resource, NoResource}
      /\ FreeSlot \in TaskSlots
      /\ task' = [task EXCEPT ![FreeSlot] = row]
      /\ order' = [order EXCEPT !.task_count = snapshot[r].order.task_count + 1]
  BY Zenon DEF AttachTask, NewTask, FirstStatus, Held
<1>3. row \in TaskRow
  <2>1. seq \in Nat
    BY SequenceNumber, Zenon
  <2>2. FirstStatus(r, seq, cached) \in NonTerminal \cup {"None", "Confirmed", "Cancelled"}
    BY <1>1 DEF NonTerminal, Workable
  <2>3. QED
    BY <2>1, <2>2, Zenon DEF TaskRow, NewTask
<1>4. row.status = FirstStatus(r, seq, cached) /\ row.sequence = seq /\ row.assigned_resource = cached
  BY Zenon DEF NewTask
<1>5. /\ order'.status = order.status /\ order'.assigned_resource = order.assigned_resource
      /\ order'.confirmed_count = order.confirmed_count
      /\ order'.task_count = snapshot[r].order.task_count + 1
  BY <1>2 DEF Kinds, OrderRow
<1> HIDE DEF row
<1>6. Added(task', row)
  BY <1>2, <1>3, Zenon DEF Added
<1>7. AttachedAs(row, r, seq, cached)
  BY <1>1, <1>4, <1>6, Zenon DEF AttachedAs
<1>8. QED
  BY <1>2, <1>5, <1>7, Zenon

LEMMA AttachAdds ==
  ASSUME Kinds, SnapshotIsolation, NEW r \in Resources, Attach(r)
  PROVE  TaskAdded
<1>1. PICK seq \in (0..MaxSequence), cached \in Owner : AttachTask(r, seq, cached)
  BY Zenon DEF Attach
<1>2. \E row : Added(task', row) /\ row.status \in {"Open", "Assigned", "On Hold"}
  <2>1. PICK row : AttachedAs(row, r, seq, cached)
    BY <1>1, AttachTaskIs, Zenon
  <2>2. QED
    BY <2>1, Zenon DEF AttachedAs
<1>3. order'.status = order.status /\ FreshOrder(r) /\ snapshot[r].order.status \in OPEN_WO_STATUSES
  BY <1>1, AttachTaskIs, Zenon
<1>4. order.status \in OPEN_WO_STATUSES
  BY <1>3, Zenon DEF FreshOrder
<1>5. QED
  BY <1>2, <1>3, <1>4, Zenon DEF TaskAdded

LEMMA ReassignedTask ==
  ASSUME Kinds, NEW t \in TaskSlots, NEW o \in Owner
  PROVE  [task[t] EXCEPT !.assigned_resource = o].status = task[t].status
<1>1. task[t] \in TaskRow
  BY TaskSets DEF Kinds
<1>2. QED
  BY <1>1, ResourceUpdate

LEMMA DispatchReassigns ==
  ASSUME Kinds, NEW r \in Resources, Dispatching(r)
  PROVE  Reassigned
<1>1. r \in Owner /\ NoResource \in Owner
  BY DEF Owner
<1>2. order \in OrderRow
  BY DEF Kinds
<1>3. task' \in Tasks
  BY DispatchKinds, Zenon DEF Kinds
<1>4. CASE PullNext(r)
  <2>1. \A t \in TaskSlots : task'[t].status = task[t].status
    BY <1>1, <1>4, ReassignedTask, Zenon DEF PullNext
  <2>2. order.status = "Open" /\ order' = [order EXCEPT !.assigned_resource = r, !.status = "Assigned"]
    BY <1>4, Zenon DEF PullNext
  <2>3. order'.status = "Assigned"
    BY <1>2, <2>2 DEF OrderRow
  <2>4. QED
    BY <1>3, <2>1, <2>2, <2>3, Zenon DEF Reassigned, SameStatuses
<1>5. CASE SkipOrder(r)
  <2>1. \A t \in TaskSlots : task'[t].status = task[t].status
    BY <1>1, <1>5, ReassignedTask, Zenon DEF SkipOrder
  <2>2. PICK skipped :
          order' = [order EXCEPT !.status = "Open", !.assigned_resource = NoResource, !.skipped_by = skipped]
    BY <1>5, Zenon DEF SkipOrder
  <2>3. order'.status = "Open" /\ order.status \in {"Open", "Assigned"}
    BY <1>2, <1>5, <2>2 DEF OrderRow, SkipOrder
  <2>4. QED
    BY <1>3, <2>1, <2>3, Zenon DEF Reassigned, SameStatuses
<1>6. QED
  BY <1>4, <1>5, Zenon DEF Dispatching

LEMMA StepIs ==
  ASSUME Kinds, SnapshotIsolation, [Next]_vars
  PROVE  \/ \E r \in Resources : WorkStep(r)
         \/ TaskAdded
         \/ Reassigned
         \/ Block
         \/ Resume
<1>1. ASSUME UNCHANGED <<order, task>> PROVE Reassigned
  BY <1>1, Zenon DEF Reassigned, SameStatuses, Kinds
<1>2. CASE UNCHANGED vars
  BY <1>1, <1>2, Zenon DEF vars
<1>3. ASSUME NEW r \in Resources, Executing(r)
      PROVE  WorkStep(r) \/ TaskAdded \/ Reassigned
  <2>1. CASE Begin(r)
    BY <1>1, <2>1, BeginIs, Zenon
  <2>2. CASE Attach(r)
    BY <2>2, AttachAdds, Zenon
  <2>3. CASE Working(r) \/ Excepts(r) \/ Cancels(r)
    BY <2>3, Works, Zenon
  <2>4. QED
    BY <1>3, <2>1, <2>2, <2>3, Zenon DEF Executing
<1>4. ASSUME NEW r \in Resources, Dispatching(r) PROVE Reassigned
  BY <1>4, DispatchReassigns, Zenon
<1>5. ASSUME NEW r \in Resources, Reorders(r)
      PROVE  TaskAdded \/ Reassigned
  <2>1. PICK t \in TaskSlots : SkipTask(r, t) \/ SplitTask(t)
    BY <1>5, Zenon DEF Reorders
  <2>2. CASE SkipTask(r, t)
    BY <2>2, SkipTaskIs, Zenon DEF Reassigned, SameStatuses
  <2>3. CASE SplitTask(t)
    <3>1. Unfinished(task) # {}
      BY <2>3, SplitTaskIs, Zenon DEF Unfinished
    <3>2. QED
      BY <2>3, <3>1, SplitTaskIs, Zenon DEF TaskAdded
  <2>4. QED
    BY <2>1, <2>2, <2>3, Zenon
<1>6. QED
  BY <1>2, <1>3, <1>4, <1>5, Zenon DEF Next, Execution, Supervision
-----------------------------------------------------------------------------
\* What work leaves of the tasks.
LEMMA WorkLeaves ==
  ASSUME Kinds, NEW rows \in Tasks, NEW resource, Worked(rows, resource),
         \/ task' = rows
         \/ \E owner \in Owner : task' = ReleaseNext(rows, rows, owner)
  PROVE  /\ task' \in Tasks /\ Alike(task', rows)
         /\ \A t \in TaskSlots :
              /\ task'[t].sequence = rows[t].sequence
              /\ task'[t].assigned_resource = rows[t].assigned_resource
              /\ \/ task'[t].status = rows[t].status
                 \/ /\ rows[t].status = "On Hold" /\ t \in ReleasedTasks(rows)
                    /\ task'[t].status \in {"Open", "Assigned"}
<1>1. CASE task' = rows
  BY <1>1, Zenon DEF Alike
<1>2. ASSUME NEW owner \in Owner, task' = ReleaseNext(rows, rows, owner)
      PROVE  ReleasedFrom(task', rows)
  BY <1>2, ReleasedRows, Zenon
<1>3. ASSUME ReleasedFrom(task', rows)
      PROVE  /\ task' \in Tasks /\ Alike(task', rows)
             /\ \A t \in TaskSlots :
                  /\ task'[t].sequence = rows[t].sequence
                  /\ task'[t].assigned_resource = rows[t].assigned_resource
                  /\ \/ task'[t].status = rows[t].status
                     \/ /\ rows[t].status = "On Hold" /\ t \in ReleasedTasks(rows)
                        /\ task'[t].status \in {"Open", "Assigned"}
  <2>1. Alike(task', rows)
    BY <1>3, ReleasedAlike, Zenon
  <2>2. QED
    BY <1>3, <2>1, Zenon DEF ReleasedFrom
<1>4. QED
  BY <1>1, <1>2, <1>3, Zenon

LEMMA AddedSets ==
  ASSUME Kinds, NEW rows, NEW row, Added(rows, row), row.status \in {"Open", "Assigned", "On Hold"},
         FreeSlot \notin Exists(task)
  PROVE  /\ Exists(rows) = Exists(task) \cup {FreeSlot}
         /\ Finished(rows) = Finished(task)
         /\ Unfinished(rows) = Unfinished(task) \cup {FreeSlot}
<1>1. /\ rows \in Tasks /\ rows[FreeSlot] = row /\ FreeSlot \in TaskSlots
      /\ \A s \in TaskSlots \ {FreeSlot} : rows[s] = task[s]
  BY AddedType, Zenon DEF Added
<1>2. FreeSlot \notin Finished(task)
  <2>1. task \in Tasks
    BY DEF Kinds
  <2>2. Finished(task) \subseteq Exists(task)
    BY <2>1, TaskSets
  <2>3. QED
    BY <2>2
<1> DEFINE free == FreeSlot
<1> HIDE DEF free
<1>3. /\ rows[free].status \in {"Open", "Assigned", "On Hold"} /\ free \in TaskSlots
      /\ free \notin Exists(task) /\ free \notin Finished(task)
      /\ \A s \in TaskSlots \ {free} : rows[s] = task[s]
  BY <1>1, <1>2, Zenon DEF free
<1>4. Exists(rows) = Exists(task) \cup {free}
  BY <1>3 DEF Exists
<1>5. Finished(rows) = Finished(task)
  BY <1>3 DEF Finished
<1>6. Unfinished(rows) = Unfinished(task) \cup {free}
  BY <1>3 DEF Unfinished, NonTerminal, Workable
<1>7. QED
  BY <1>4, <1>5, <1>6 DEF free

LEMMA SameSets ==
  ASSUME SameStatuses
  PROVE  Exists(task') = Exists(task) /\ Finished(task') = Finished(task) /\ Unfinished(task') = Unfinished(task)
BY Zenon DEF SameStatuses, Exists, Finished, Unfinished

-----------------------------------------------------------------------------
\* Tasks are numbered without gaps, so that a new one takes nobody's number.
Contiguous == \E n \in 0..MaxTasks : Exists(task) = 1..n

LEMMA FreeIsFree ==
  ASSUME Contiguous
  PROVE  \E n \in Nat : FreeSlot = n + 1 /\ Exists(task) = 1..n /\ FreeSlot \notin Exists(task)
<1>1. PICK n \in 0..MaxTasks : Exists(task) = 1..n
  BY DEF Contiguous
<1>2. Cardinality(Exists(task)) = n
  <2>1. n \in Int /\ n >= 0
    BY <1>1
  <2>2. Cardinality(1..n) = IF 1 > n THEN 0 ELSE n - 1 + 1
    BY <2>1, FS_Interval
  <2>3. QED
    BY <1>1, <2>1, <2>2
<1>3. QED
  BY <1>1, <1>2 DEF FreeSlot

LEMMA ContiguousAfter ==
  ASSUME Kinds, Contiguous, SnapshotIsolation, [Next]_vars
  PROVE  Contiguous'
<1>1. ASSUME NEW r \in Resources, WorkStep(r)
      PROVE  Exists(task') = Exists(task)
  <2>1. PICK row, rows :
          /\ rows \in Tasks /\ Worked(rows, row.assigned_resource)
          /\ task' = rows \/ \E owner \in Owner : task' = ReleaseNext(rows, rows, owner)
    BY <1>1, Zenon DEF WorkStep
  <2>2. task' \in Tasks /\ Alike(task', rows)
    BY <2>1, WorkLeaves
  <2>3. Exists(task') = Exists(rows)
    BY <2>1, <2>2, AlikeSets
  <2>4. Exists(rows) = Exists(task)
    BY <2>1, Zenon DEF Worked, Exists
  <2>5. QED
    BY <2>3, <2>4
<1>2. ASSUME TaskAdded PROVE Contiguous'
  <2>1. PICK row : Added(task', row) /\ row.status \in {"Open", "Assigned", "On Hold"}
    BY <1>2, Zenon DEF TaskAdded
  <2>2. PICK n \in Nat : FreeSlot = n + 1 /\ Exists(task) = 1..n /\ FreeSlot \notin Exists(task)
    BY FreeIsFree
  <2>3. Exists(task') = Exists(task) \cup {FreeSlot}
    BY <2>1, <2>2, AddedSets, Zenon
  <2>4. n + 1 \in 0..MaxTasks
    <3>1. FreeSlot \in TaskSlots
      BY <2>1, Zenon DEF Added
    <3>2. QED
      BY <2>2, <3>1 DEF TaskSlots
  <2>5. Exists(task') = 1..(n + 1)
    BY <2>2, <2>3
  <2>6. QED
    BY <2>4, <2>5 DEF Contiguous
<1>3. ASSUME Reassigned PROVE Exists(task') = Exists(task)
  BY <1>3, SameSets, Zenon DEF Reassigned
<1>4. ASSUME Block \/ Resume PROVE Exists(task') = Exists(task)
  BY <1>4, BlockIs, ResumeIs, Zenon
<1>5. ASSUME Exists(task') = Exists(task) PROVE Contiguous'
  BY <1>5, Zenon DEF Contiguous
<1>6. QED
  BY <1>1, <1>2, <1>3, <1>4, <1>5, StepIs, Zenon

LEMMA InitStatuses ==
  ASSUME Init
  PROVE  /\ \A t \in TaskSlots : task[t].status = IF t = 1 THEN "Open" ELSE "None"
         /\ Exists(task) = {1} /\ Unfinished(task) = {1} /\ Finished(task) = {}
<1>1. PICK seq :
        task = [t \in TaskSlots |->
                  IF t = 1 THEN [NoTask EXCEPT !.status = "Open", !.sequence = seq] ELSE NoTask]
  BY Zenon DEF Init
<1>2. [NoTask EXCEPT !.status = "Open", !.sequence = seq].status = "Open" /\ NoTask.status = "None"
  BY DEF NoTask
<1>3. \A t \in TaskSlots : task[t].status = IF t = 1 THEN "Open" ELSE "None"
  BY <1>1, <1>2, Zenon
<1>4. 1 \in TaskSlots
  BY DEF TaskSlots
<1>5. Exists(task) = {1} /\ Unfinished(task) = {1} /\ Finished(task) = {}
  BY <1>3, <1>4 DEF Exists, Unfinished, Finished, NonTerminal, Workable
<1>6. QED
  BY <1>3, <1>5

LEMMA InitContiguous == Init => Contiguous
<1> SUFFICES ASSUME Init PROVE Contiguous
  OBVIOUS
<1>1. Exists(task) = {1}
  BY InitStatuses
<1>2. {1} = 1..1 /\ 1 \in 0..MaxTasks
  OBVIOUS
<1>3. QED
  BY <1>1, <1>2, Zenon DEF Contiguous
-----------------------------------------------------------------------------
(* Under a database that refuses stale writes, whatever resources and      *)
(* supervisors do.                                                         *)

\* Its sync leaves the number of tasks and the owner alone.
LEMMA WorkKeeps ==
  ASSUME Kinds, NEW row, ClaimedRow(row), NEW rows \in Tasks, task' \in Tasks,
         order' = row \/ order' = Synced(row, rows, row) \/ order' = Synced(row, task', row)
  PROVE  order'.task_count = order.task_count /\ order'.assigned_resource = row.assigned_resource
<1>1. row \in OrderRow /\ row.task_count = order.task_count
  BY DEF ClaimedRow
<1>2. ASSUME NEW read \in Tasks
      PROVE  /\ Synced(row, read, row).task_count = row.task_count
             /\ Synced(row, read, row).assigned_resource = row.assigned_resource
  BY <1>1, SyncedKeeps, Zenon
<1>3. QED
  BY <1>1, <1>2, Zenon

\* Where the order stands after work on its tasks.
LEMMA WorkSyncs ==
  ASSUME Kinds, NEW r \in Resources, WorkStep(r), order.status # "Completed"
  PROVE  /\ order.status = "On Hold" => order'.status = "On Hold"
         /\ order.status # "On Hold" => order'.status # "On Hold"
         /\ CompletedIsFinished'
         /\ order'.task_count = order.task_count
         /\ order.status # "On Hold" /\ snapshot[r].order.status # "On Hold" =>
              /\ order'.confirmed_count = Cardinality(Finished(task'))
              /\ FinishedIsCompleted'
              /\ BlockedReflectsLead'
<1>1. PICK row, rows :
        /\ ClaimedRow(row) /\ rows \in Tasks /\ Worked(rows, row.assigned_resource)
        /\ task' = rows \/ \E owner \in Owner : task' = ReleaseNext(rows, rows, owner)
        /\ \/ order' = row /\ snapshot[r].order.status = "On Hold"
           \/ order' = Synced(row, rows, row)
           \/ order' = Synced(row, task', row)
  BY Zenon DEF WorkStep
<1>2. task' \in Tasks /\ Alike(task', rows)
  BY <1>1, WorkLeaves
<1>3. /\ Exists(task') = Exists(rows) /\ Finished(task') = Finished(rows)
      /\ (Unfinished(task') # {} /\ task'[Lead(task')].status = "Exception")
           <=> (Unfinished(rows) # {} /\ rows[Lead(rows)].status = "Exception")
  BY <1>1, <1>2, AlikeSets
<1>4. /\ row \in OrderRow
      /\ row.status = order.status \/ (order.status = "Open" /\ row.status = "Assigned")
  BY <1>1, Zenon DEF ClaimedRow
<1>5. /\ row.status # "Completed"
      /\ row.status = "On Hold" <=> order.status = "On Hold"
  BY <1>4
<1>6. order'.task_count = order.task_count
  BY <1>1, <1>2, WorkKeeps, Zenon
<1>7. CASE order' = row /\ snapshot[r].order.status = "On Hold"
  BY <1>5, <1>6, <1>7, Zenon DEF CompletedIsFinished
<1>8. CASE row.status = "On Hold"
  <2>1. Synced(row, rows, row) = row /\ Synced(row, task', row) = row
    BY <1>1, <1>2, <1>4, <1>8, SyncedKeeps, Zenon
  <2>2. order' = row
    BY <1>1, <2>1, Zenon
  <2>3. order'.status = "On Hold" /\ order'.status # "Completed"
    BY <1>5, <1>8, <2>2, Zenon
  <2>4. QED
    BY <1>5, <1>6, <1>8, <2>3, Zenon DEF CompletedIsFinished
<1>9. CASE row.status # "On Hold" /\ (order' = Synced(row, rows, row) \/ order' = Synced(row, task', row))
  <2>1. PICK read \in {rows, task'} : order' = Synced(row, read, row)
    BY <1>9, Zenon
  <2>2. /\ read \in Tasks
        /\ Exists(task') = Exists(read) /\ Finished(task') = Finished(read)
        /\ (Unfinished(task') # {} /\ task'[Lead(task')].status = "Exception")
             <=> (Unfinished(read) # {} /\ read[Lead(read)].status = "Exception")
    <3>1. CASE read = rows
      BY <1>1, <1>3, <3>1, Zenon
    <3>2. CASE read = task'
      BY <1>2, <3>2, Zenon
    <3>3. QED
      BY <2>1, <3>1, <3>2, Zenon
  <2>3. row.status \notin {"On Hold", "Completed"}
    BY <1>5, <1>9
  <2>4. /\ order'.confirmed_count = Cardinality(Finished(read))
        /\ order'.status # "On Hold"
        /\ order'.status = "Completed" <=> Finished(read) = Exists(read)
        /\ order'.status = "Blocked"
             <=> (Unfinished(read) # {} /\ read[Lead(read)].status = "Exception")
    BY <1>4, <2>1, <2>2, <2>3, SyncedFollows, Zenon
  <2>5. order'.confirmed_count = Cardinality(Finished(task'))
    BY <2>2, <2>4, Zenon
  <2>6. order.status # "On Hold" /\ order'.status # "On Hold"
    BY <1>5, <1>9, <2>4, Zenon
  <2>7. order'.status = "Completed" <=> Finished(task') = Exists(task')
    BY <2>2, <2>4, Zenon
  <2>8. BlockedReflectsLead'
    BY <2>2, <2>4, Zenon DEF BlockedReflectsLead
  <2>9. QED
    BY <1>6, <2>5, <2>6, <2>7, <2>8, Zenon DEF CompletedIsFinished, FinishedIsCompleted
<1>10. QED
  BY <1>1, <1>7, <1>8, <1>9, Zenon

LEMMA ResumeSyncs ==
  ASSUME Kinds, Resume
  PROVE  CompletedIsFinished'
<1>1. PICK row \in OrderRow : row.status = "Open" /\ order' = Synced(row, task, row) /\ task' = task
  BY ResumeIs, Zenon
<1>2. row.status \notin {"On Hold", "Completed"} /\ task \in Tasks
  BY <1>1 DEF Kinds
<1>3. Synced(row, task, row).status = "Completed" <=> Finished(task) = Exists(task)
  BY <1>2, SyncedFollows
<1>4. QED
  BY <1>1, <1>3, Zenon DEF CompletedIsFinished

LEMMA InitNotCompleted == Init => order.status = "Open" /\ order.assigned_resource = NoResource
BY DEF Init, NewOrder

\* An order says it is Completed only when every task is confirmed or
\* cancelled, also when its tasks are split, reordered, put in exception or
\* cancelled and the order is paused and resumed meanwhile.
THEOREM NotCompletedTooEarly ==
  ASSUME SnapshotIsolation
  PROVE  Spec => []CompletedIsFinished
<1> DEFINE Inv == Kinds /\ CompletedIsFinished
<1>1. Init => Inv
  <2>1. Init => CompletedIsFinished
    BY InitNotCompleted DEF CompletedIsFinished
  <2>2. QED
    BY <2>1, InitKinds
<1>2. Inv /\ [Next]_vars => Inv'
  <2> SUFFICES ASSUME Inv, [Next]_vars PROVE Inv'
    OBVIOUS
  <2>1. Kinds'
    BY NextKinds
  <2>2. ASSUME NEW r \in Resources, WorkStep(r)
        PROVE  CompletedIsFinished'
    <3>1. Unfinished(task) # {}
      BY <2>2, Zenon DEF WorkStep
    <3>2. Finished(task) # Exists(task)
      <4>1. task \in Tasks
        BY DEF Kinds
      <4>2. Exists(task) = Unfinished(task) \cup Finished(task) /\ Unfinished(task) \cap Finished(task) = {}
        BY <4>1, TaskSets
      <4>3. QED
        BY <3>1, <4>2
    <3>3. order.status # "Completed"
      BY <3>2 DEF CompletedIsFinished
    <3>4. QED
      BY <2>2, <3>3, WorkSyncs, Zenon
  <2>3. ASSUME TaskAdded PROVE CompletedIsFinished'
    <3>1. order'.status = order.status /\ (order.status \in OPEN_WO_STATUSES \/ Unfinished(task) # {})
      BY <2>3, Zenon DEF TaskAdded
    <3>2. Unfinished(task) # {} => Finished(task) # Exists(task)
      <4>1. task \in Tasks
        BY DEF Kinds
      <4>2. Exists(task) = Unfinished(task) \cup Finished(task) /\ Unfinished(task) \cap Finished(task) = {}
        BY <4>1, TaskSets
      <4>3. QED
        BY <4>2
    <3>3. order'.status # "Completed"
      BY <3>1, <3>2 DEF CompletedIsFinished, OPEN_WO_STATUSES
    <3>4. QED
      BY <3>3, Zenon DEF CompletedIsFinished
  <2>4. ASSUME Reassigned PROVE CompletedIsFinished'
    <3>1. Exists(task') = Exists(task) /\ Finished(task') = Finished(task)
      BY <2>4, SameSets, Zenon DEF Reassigned
    <3>2. order'.status = "Completed" => order.status = "Completed"
      BY <2>4 DEF Reassigned
    <3>3. QED
      BY <3>1, <3>2, Zenon DEF CompletedIsFinished
  <2>5. ASSUME Block PROVE CompletedIsFinished'
    BY <2>5, BlockIs DEF CompletedIsFinished
  <2>6. ASSUME Resume PROVE CompletedIsFinished'
    BY <2>6, ResumeSyncs, Zenon
  <2>7. QED
    BY <2>1, <2>2, <2>3, <2>4, <2>5, <2>6, StepIs, Zenon
<1>3. QED
  BY <1>1, <1>2, PTL DEF Spec

\* Every row keeps its type and tasks are numbered without gaps.
SafeRows == Kinds /\ Contiguous

LEMMA SafeRowsHold ==
  ASSUME SnapshotIsolation
  PROVE  Spec => []SafeRows
<1>1. Init => SafeRows
  BY InitKinds, InitContiguous DEF SafeRows
<1>2. SafeRows /\ [Next]_vars => SafeRows'
  BY NextKinds, ContiguousAfter, Zenon DEF SafeRows
<1>3. QED
  BY <1>1, <1>2, PTL DEF Spec

FinishedStaysStep == \A t \in Finished(task) : task'[t].status = task[t].status

LEMMA FinishedStaysNext ==
  ASSUME SnapshotIsolation, SafeRows, [Next]_vars
  PROVE  FinishedStaysStep
<1>1. Kinds /\ Contiguous
  BY DEF SafeRows
<1>2. Finished(task) \subseteq TaskSlots
  BY DEF Finished
<1>3. ASSUME NEW r \in Resources, WorkStep(r)
      PROVE  FinishedStaysStep
  <2>1. PICK row, rows :
          /\ rows \in Tasks /\ Worked(rows, row.assigned_resource)
          /\ task' = rows \/ \E owner \in Owner : task' = ReleaseNext(rows, rows, owner)
    BY <1>3, Zenon DEF WorkStep
  <2>2. \A t \in TaskSlots : task'[t].status = rows[t].status \/ rows[t].status = "On Hold"
    BY <1>1, <2>1, WorkLeaves
  <2>3. \A t \in Finished(task) : rows[t].status = task[t].status
    BY <1>2, <2>1, Zenon DEF Worked
  <2>4. \A t \in Finished(task) : task[t].status # "On Hold"
    BY DEF Finished
  <2>5. QED
    BY <1>2, <2>2, <2>3, <2>4 DEF FinishedStaysStep
<1>4. ASSUME TaskAdded PROVE FinishedStaysStep
  <2>1. PICK row : Added(task', row)
    BY <1>4, Zenon DEF TaskAdded
  <2>2. FreeSlot \notin Finished(task)
    <3>1. FreeSlot \notin Exists(task) /\ task \in Tasks
      BY <1>1, FreeIsFree DEF Kinds
    <3>2. Finished(task) \subseteq Exists(task)
      BY <3>1, TaskSets
    <3>3. QED
      BY <3>1, <3>2
  <2>3. \A s \in TaskSlots \ {FreeSlot} : task'[s] = task[s]
    BY <1>1, <2>1, AddedType, Zenon
  <2>4. QED
    BY <1>2, <2>2, <2>3, Zenon DEF FinishedStaysStep
<1>5. ASSUME Reassigned PROVE FinishedStaysStep
  BY <1>2, <1>5, Zenon DEF Reassigned, SameStatuses, FinishedStaysStep
<1>6. ASSUME Block \/ Resume PROVE FinishedStaysStep
  BY <1>1, <1>6, BlockIs, ResumeIs, Zenon DEF FinishedStaysStep
<1>7. QED
  BY <1>1, <1>3, <1>4, <1>5, <1>6, StepIs, Zenon

\* A task that was confirmed or cancelled is never confirmed, cancelled or put
\* in exception again, whoever still had it open when it began.
THEOREM FinishedIsFinal ==
  ASSUME SnapshotIsolation
  PROVE  Spec => FinishedStays
<1>1. SafeRows /\ [Next]_vars => [FinishedStaysStep]_vars
  BY FinishedStaysNext
<1>2. Spec => [][FinishedStaysStep]_vars
  BY <1>1, SafeRowsHold, PTL DEF Spec
<1>3. QED
  BY <1>2 DEF FinishedStays, FinishedStaysStep

ReleasedStep ==
  \A t \in TaskSlots :
    task[t].status = "On Hold" /\ task'[t].status \in Workable =>
      \A s \in Unfinished(task') : task'[s].sequence >= task'[t].sequence

LEMMA ReleasedNext ==
  ASSUME SnapshotIsolation, SafeRows, [Next]_vars
  PROVE  ReleasedStep
<1>1. Kinds /\ Contiguous
  BY DEF SafeRows
<1>2. ASSUME \A t \in TaskSlots : task[t].status = "On Hold" => task'[t].status = "On Hold"
      PROVE  ReleasedStep
  BY <1>2 DEF ReleasedStep, Workable
<1>3. ASSUME NEW r \in Resources, WorkStep(r)
      PROVE  ReleasedStep
  <2>1. PICK row, rows :
          /\ rows \in Tasks /\ Worked(rows, row.assigned_resource)
          /\ task' = rows \/ \E owner \in Owner : task' = ReleaseNext(rows, rows, owner)
    BY <1>3, Zenon DEF WorkStep
  <2>2. /\ task' \in Tasks /\ Alike(task', rows)
        /\ \A t \in TaskSlots :
             /\ task'[t].sequence = rows[t].sequence
             /\ task'[t].status = rows[t].status \/ t \in ReleasedTasks(rows)
    BY <1>1, <2>1, WorkLeaves
  <2>3. Unfinished(task') = Unfinished(rows)
    BY <2>1, <2>2, AlikeSets
  <2>4. ASSUME NEW t \in TaskSlots, task[t].status = "On Hold", task'[t].status \in Workable
        PROVE  \A s \in Unfinished(task') : task'[s].sequence >= task'[t].sequence
    <3>1. "On Hold" \notin Workable
      BY DEF Workable
    <3>2. rows[t].status \notin Workable
      BY <2>1, <2>4, <3>1, Zenon DEF Worked
    <3>3. t \in ReleasedTasks(rows)
      BY <2>2, <2>4, <3>2, Zenon
    <3>4. \A s \in Unfinished(rows) : rows[s].sequence >= rows[t].sequence
      BY <3>3, Zenon DEF ReleasedTasks
    <3>5. Unfinished(rows) \subseteq TaskSlots
      BY DEF Unfinished
    <3>6. QED
      BY <2>2, <2>3, <3>4, <3>5, Zenon
  <2>5. QED
    BY <2>4, Zenon DEF ReleasedStep
<1>4. ASSUME TaskAdded PROVE ReleasedStep
  <2>1. PICK row : Added(task', row)
    BY <1>4, Zenon DEF TaskAdded
  <2>2. FreeSlot \notin Exists(task) /\ \A s \in TaskSlots \ {FreeSlot} : task'[s] = task[s]
    BY <1>1, <2>1, AddedType, FreeIsFree, Zenon
  <2>3. ASSUME NEW t \in TaskSlots, task[t].status = "On Hold"
        PROVE  task'[t].status = "On Hold"
    <3>1. t \in Exists(task)
      BY <2>3 DEF Exists
    <3>2. QED
      BY <2>2, <2>3, <3>1, Zenon
  <2>4. QED
    BY <1>2, <2>3, Zenon
<1>5. ASSUME Reassigned PROVE ReleasedStep
  BY <1>2, <1>5, Zenon DEF Reassigned, SameStatuses
<1>6. ASSUME Block \/ Resume PROVE ReleasedStep
  BY <1>1, <1>2, <1>6, BlockIs, ResumeIs, Zenon
<1>7. QED
  BY <1>1, <1>3, <1>4, <1>5, <1>6, StepIs, Zenon

\* A held task is let go only when nothing unfinished stands before it, though
\* who releases it decides from what it read before it wrote.
THEOREM ReleasedInOrder ==
  ASSUME SnapshotIsolation
  PROVE  Spec => ReleasedInSequence
<1>1. SafeRows /\ [Next]_vars => [ReleasedStep]_vars
  BY ReleasedNext
<1>2. Spec => [][ReleasedStep]_vars
  BY <1>1, SafeRowsHold, PTL DEF Spec
<1>3. QED
  BY <1>2 DEF ReleasedInSequence, ReleasedStep

PauseStep == order.status = "On Hold" /\ order'.status # "On Hold" => Resume

LEMMA PauseNext ==
  ASSUME SnapshotIsolation, SafeRows, [Next]_vars
  PROVE  PauseStep
<1>1. Kinds
  BY DEF SafeRows
<1>2. ASSUME NEW r \in Resources, WorkStep(r)
      PROVE  PauseStep
  <2>1. order.status = "On Hold" => order.status # "Completed"
    OBVIOUS
  <2>2. QED
    BY <1>1, <1>2, <2>1, WorkSyncs, Zenon DEF PauseStep
<1>3. ASSUME TaskAdded PROVE PauseStep
  BY <1>3, Zenon DEF TaskAdded, PauseStep
<1>4. ASSUME Reassigned PROVE PauseStep
  BY <1>4 DEF Reassigned, PauseStep
<1>5. ASSUME Block PROVE PauseStep
  BY <1>1, <1>5, BlockIs, Zenon DEF PauseStep
<1>6. QED
  BY <1>1, <1>2, <1>3, <1>4, <1>5, StepIs, Zenon DEF PauseStep

\* No request that recomputes the status of an order ends the pause a
\* supervisor gave it, even one that read the order before the pause.
THEOREM OnlyResumed ==
  ASSUME SnapshotIsolation
  PROVE  Spec => PauseIsDeliberate
<1>1. SafeRows /\ [Next]_vars => [PauseStep]_vars
  BY PauseNext
<1>2. Spec => [][PauseStep]_vars
  BY <1>1, SafeRowsHold, PTL DEF Spec
<1>3. QED
  BY <1>2 DEF PauseIsDeliberate, PauseStep
-----------------------------------------------------------------------------
(* As long as the order is executed and dispatched, and nobody reorders or *)
(* pauses it.                                                              *)

ToDo == Workable \cup {"On Hold"}

LEMMA OwnerInit == Init => OpenWorkIsOwned
<1> SUFFICES ASSUME Init PROVE OpenWorkIsOwned
  OBVIOUS
<1>1. PICK seq :
        task = [t \in TaskSlots |->
                  IF t = 1 THEN [NoTask EXCEPT !.status = "Open", !.sequence = seq] ELSE NoTask]
  BY Zenon DEF Init
<1>2. /\ [NoTask EXCEPT !.status = "Open", !.sequence = seq].assigned_resource = NoResource
      /\ NoTask.assigned_resource = NoResource
  BY DEF NoTask
<1>3. \A t \in TaskSlots : task[t].assigned_resource = NoResource
  BY <1>1, <1>2, Zenon
<1>4. QED
  BY <1>3 DEF OpenWorkIsOwned

LEMMA OwnerAfterWork ==
  ASSUME Kinds, OpenWorkIsOwned, NEW r \in Resources, WorkStep(r)
  PROVE  OpenWorkIsOwned'
<1>1. PICK row, rows :
        /\ ClaimedRow(row) /\ rows \in Tasks /\ Worked(rows, row.assigned_resource)
        /\ task' = rows \/ \E owner \in Owner : task' = ReleaseNext(rows, rows, owner)
        /\ order' = row \/ order' = Synced(row, rows, row) \/ order' = Synced(row, task', row)
  BY Zenon DEF WorkStep
<1>2. /\ task' \in Tasks
      /\ \A t \in TaskSlots :
           /\ task'[t].assigned_resource = rows[t].assigned_resource
           /\ task'[t].status = rows[t].status \/ rows[t].status = "On Hold"
  BY <1>1, WorkLeaves
<1>3. /\ order'.assigned_resource = row.assigned_resource
      /\ order.assigned_resource \in {NoResource, row.assigned_resource}
  BY <1>1, <1>2, WorkKeeps, Zenon DEF ClaimedRow
<1>4. ASSUME NEW t \in TaskSlots, task'[t].status \in ToDo
      PROVE  task'[t].assigned_resource \in {NoResource, order'.assigned_resource}
  <2>1. rows[t].status \in ToDo
    BY <1>2, <1>4 DEF ToDo
  <2>2. task[t].status \in ToDo
    BY <1>1, <2>1, Zenon DEF Worked, ToDo
  <2>3. task[t].assigned_resource \in {NoResource, order.assigned_resource}
    BY <2>2 DEF ToDo, OpenWorkIsOwned
  <2>4. rows[t].assigned_resource \in {task[t].assigned_resource, row.assigned_resource}
    BY <1>1, Zenon DEF Worked
  <2>5. QED
    BY <1>2, <1>3, <2>3, <2>4
<1>5. QED
  BY <1>4 DEF OpenWorkIsOwned, ToDo

LEMMA OwnerAfterAttach ==
  ASSUME Kinds, SnapshotIsolation, OpenWorkIsOwned, NEW r \in Resources, Attach(r)
  PROVE  OpenWorkIsOwned'
<1>1. PICK seq \in (0..MaxSequence), cached \in Owner : AttachTask(r, seq, cached)
  BY Zenon DEF Attach
<1>2. PICK row : AttachedAs(row, r, seq, cached)
  BY <1>1, AttachTaskIs, Zenon
<1>3. Added(task', row) /\ row.assigned_resource = cached
  BY <1>2, Zenon DEF AttachedAs
<1>4. /\ order'.assigned_resource = order.assigned_resource /\ FreshOrder(r)
      /\ cached \in {snapshot[r].order.assigned_resource, NoResource}
  BY <1>1, AttachTaskIs, Zenon
<1>5. cached \in {order'.assigned_resource, NoResource}
  BY <1>4, Zenon DEF FreshOrder
<1>6. task'[FreeSlot] = row /\ \A s \in TaskSlots \ {FreeSlot} : task'[s] = task[s]
  BY <1>3, AddedType, Zenon
<1>7. ASSUME NEW t \in TaskSlots, task'[t].status \in ToDo
      PROVE  task'[t].assigned_resource \in {NoResource, order'.assigned_resource}
  <2>1. CASE t = FreeSlot
    BY <1>3, <1>5, <1>6, <2>1, Zenon
  <2>2. CASE t # FreeSlot
    <3>1. task'[t] = task[t]
      BY <1>6, <2>2, Zenon
    <3>2. QED
      BY <1>4, <1>7, <3>1 DEF ToDo, OpenWorkIsOwned
  <2>3. QED
    BY <2>1, <2>2
<1>8. QED
  BY <1>7 DEF OpenWorkIsOwned, ToDo

LEMMA ReassignedTo ==
  ASSUME Kinds, NEW t \in TaskSlots, NEW o \in Owner
  PROVE  /\ [task[t] EXCEPT !.assigned_resource = o].assigned_resource = o
         /\ [task[t] EXCEPT !.assigned_resource = o].sequence = task[t].sequence
<1>1. task[t] \in TaskRow
  BY TaskSets DEF Kinds
<1>2. QED
  BY <1>1, ResourceUpdate

LEMMA OwnerAfterDispatch ==
  ASSUME Kinds, OpenWorkIsOwned, NEW r \in Resources, Dispatching(r)
  PROVE  OpenWorkIsOwned'
<1>1. r \in Owner /\ NoResource \in Owner
  BY DEF Owner
<1>2. order \in OrderRow
  BY DEF Kinds
<1>3. \A t \in TaskSlots : task'[t].status = task[t].status
  BY DispatchReassigns, Zenon DEF Reassigned, SameStatuses
<1>4. CASE PullNext(r)
  <2>1. order' = [order EXCEPT !.assigned_resource = r, !.status = "Assigned"]
    BY <1>4, Zenon DEF PullNext
  <2>2. order'.assigned_resource = r
    BY <1>2, <2>1 DEF OrderRow
  <2>3. \A t \in Exists(task) : task'[t].assigned_resource = r
    <3>1. Exists(task) \subseteq TaskSlots
      BY DEF Exists
    <3>2. \A t \in Exists(task) : task'[t] = [task[t] EXCEPT !.assigned_resource = r]
      BY <1>4, <3>1, Zenon DEF PullNext
    <3>3. \A t \in TaskSlots : [task[t] EXCEPT !.assigned_resource = r].assigned_resource = r
      BY <1>1, ReassignedTo
    <3>4. QED
      BY <3>1, <3>2, <3>3, Zenon
  <2>4. \A t \in TaskSlots : task'[t].status \in ToDo => t \in Exists(task)
    BY <1>3 DEF ToDo, Workable, Exists
  <2>5. QED
    BY <2>2, <2>3, <2>4 DEF OpenWorkIsOwned, ToDo
<1>5. CASE SkipOrder(r)
  <2>1. \A t \in TaskSlots : task[t].status \in ToDo => task'[t].assigned_resource = NoResource
    <3>1. \A st \in ToDo : st \notin NotHandedBack
      BY DEF ToDo, Workable, NotHandedBack
    <3>2. \A t \in TaskSlots : task[t].status \notin NotHandedBack =>
            task'[t] = [task[t] EXCEPT !.assigned_resource = NoResource]
      BY <1>5, Zenon DEF SkipOrder
    <3>3. \A t \in TaskSlots :
            [task[t] EXCEPT !.assigned_resource = NoResource].assigned_resource = NoResource
      BY <1>1, ReassignedTo
    <3>4. QED
      BY <3>1, <3>2, <3>3, Zenon
  <2>2. QED
    BY <1>3, <2>1 DEF OpenWorkIsOwned, ToDo
<1>6. QED
  BY <1>4, <1>5, Zenon DEF Dispatching

\* Work that is still to be done belongs to nobody or to the owner of the
\* order, however pulls, skips and the claims of those who confirm interleave.
THEOREM OwnersWork ==
  ASSUME SnapshotIsolation
  PROVE  Spec => []OwnerOfOpenWork
<1> DEFINE Inv == Kinds /\ supervised \in BOOLEAN /\ OwnerOfOpenWork
<1>1. Init => Inv
  BY InitKinds, OwnerInit DEF OwnerOfOpenWork, Init
<1>2. Inv /\ [Next]_vars => Inv'
  <2> SUFFICES ASSUME Inv, [Next]_vars PROVE Inv'
    OBVIOUS
  <2>1. Kinds' /\ supervised' \in BOOLEAN
    BY NextKinds, SupervisedStep
  <2>2. ASSUME ~supervised' PROVE OpenWorkIsOwned'
    <3>1. ~supervised /\ (Execution \/ UNCHANGED orderVars)
      BY <2>2, SupervisedStep
    <3>2. OpenWorkIsOwned
      BY <3>1 DEF OwnerOfOpenWork
    <3>3. ASSUME UNCHANGED <<order, task>> PROVE OpenWorkIsOwned'
      BY <3>2, <3>3, Zenon DEF OpenWorkIsOwned
    <3>4. ASSUME NEW r \in Resources, Executing(r)
          PROVE  OpenWorkIsOwned'
      <4>1. CASE Begin(r)
        BY <3>3, <4>1, BeginIs, Zenon
      <4>2. CASE Attach(r)
        BY <3>2, <4>2, OwnerAfterAttach, Zenon
      <4>3. CASE Working(r) \/ Excepts(r) \/ Cancels(r)
        BY <3>2, <4>3, Works, OwnerAfterWork, Zenon
      <4>4. QED
        BY <3>4, <4>1, <4>2, <4>3, Zenon DEF Executing
    <3>5. ASSUME NEW r \in Resources, Dispatching(r)
          PROVE  OpenWorkIsOwned'
      BY <3>2, <3>5, OwnerAfterDispatch, Zenon
    <3>6. QED
      BY <3>1, <3>3, <3>4, <3>5, Zenon DEF Execution, orderVars
  <2>3. QED
    BY <2>1, <2>2 DEF OwnerOfOpenWork
<1>3. QED
  BY <1>1, <1>2, PTL DEF Spec
-----------------------------------------------------------------------------
\* The counters of an order count the rows of its tasks.
Counted(o, rows) ==
  o.task_count = Cardinality(Exists(rows)) /\ o.confirmed_count = Cardinality(Finished(rows))

\* What a request read is an earlier state: tasks come and finish, and never
\* move; the counters tell whether some did.
Earlier(read) ==
  /\ read.order.status # "On Hold" /\ Counted(read.order, read.task)
  /\ Exists(read.task) \subseteq Exists(task) /\ Finished(read.task) \subseteq Finished(task)
  /\ \A t \in Exists(read.task) : read.task[t].sequence = task[t].sequence

AllEarlier == \A r \in Resources : InFlight(r) => Earlier(snapshot[r])

CountInvariant ==
  /\ Kinds /\ Contiguous /\ order.status # "On Hold" /\ Counted(order, task)
  /\ AllEarlier

\* From one table to the next tasks are added and finished.
Grows(old, rows) ==
  /\ Exists(old) \subseteq Exists(rows) /\ Finished(old) \subseteq Finished(rows)
  /\ \A t \in Exists(old) : rows[t].sequence = old[t].sequence

LEMMA EarlierAfter ==
  ASSUME Kinds, AllEarlier, NEW r \in Resources, Ends(r) \/ UNCHANGED snapshot, Grows(task, task')
  PROVE  AllEarlier'
<1>1. ASSUME NEW w \in Resources, InFlight(w)'
      PROVE  snapshot'[w] = snapshot[w]
  <2>1. CASE UNCHANGED snapshot
    BY <2>1, Zenon
  <2>2. CASE Ends(r)
    <3>1. w # r
      BY <1>1, <2>2, Zenon DEF Ends, InFlight, Kinds
    <3>2. QED
      BY <2>2, <3>1, Zenon DEF Ends, Kinds
  <2>3. QED
    BY <2>1, <2>2, Zenon
<1>2. ASSUME NEW w \in Resources, InFlight(w)'
      PROVE  Earlier(snapshot[w])'
  <2> DEFINE read == snapshot[w]
  <2>1. InFlight(w)
    BY <1>1, <1>2, Zenon DEF InFlight
  <2>2. Earlier(read)
    BY <2>1, Zenon DEF AllEarlier
  <2>3. /\ Exists(read.task) \subseteq Exists(task') /\ Finished(read.task) \subseteq Finished(task')
        /\ \A t \in Exists(read.task) : read.task[t].sequence = task'[t].sequence
    BY <2>2, Zenon DEF Earlier, Grows
  <2>4. snapshot'[w] = read
    BY <1>1, <1>2
  <2> HIDE DEF read
  <2>5. read.order.status # "On Hold" /\ Counted(read.order, read.task)
    BY <2>2, Zenon DEF Earlier
  <2>6. QED
    BY <2>3, <2>4, <2>5, Zenon DEF Earlier
<1>3. QED
  BY <1>2, Zenon DEF AllEarlier

LEMMA NotFinished ==
  ASSUME NEW rows \in Tasks, Unfinished(rows) # {}
  PROVE  Finished(rows) # Exists(rows)
<1>1. Exists(rows) = Unfinished(rows) \cup Finished(rows) /\ Unfinished(rows) \cap Finished(rows) = {}
  BY TaskSets
<1>2. QED
  BY <1>1

FollowInvariant == CountInvariant /\ FollowsItsTasks

LEMMA FollowInit == Init => FollowInvariant
<1> SUFFICES ASSUME Init PROVE FollowInvariant
  OBVIOUS
<1>1. Kinds /\ Contiguous
  BY InitKinds, InitContiguous
<1>2. /\ \A t \in TaskSlots : task[t].status = IF t = 1 THEN "Open" ELSE "None"
      /\ Exists(task) = {1} /\ Unfinished(task) = {1} /\ Finished(task) = {}
  BY InitStatuses
<1>3. order.status = "Open" /\ order.task_count = 1 /\ order.confirmed_count = 0
  BY DEF Init, NewOrder
<1>4. Counted(order, task)
  <2>1. Cardinality({1}) = 1 /\ Cardinality({}) = 0
    BY FS_EmptySet, FS_Singleton
  <2>2. QED
    BY <1>2, <1>3, <2>1, Zenon DEF Counted
<1>5. AllEarlier
  BY Zenon DEF AllEarlier, InFlight, Init
<1>6. CompletedIsFinished /\ FinishedIsCompleted
  BY <1>2, <1>3 DEF CompletedIsFinished, FinishedIsCompleted
<1>7. BlockedReflectsLead
  <2>1. Lead(task) \in Unfinished(task)
    BY <1>1, <1>2, LeadExists DEF Kinds, Leads
  <2>2. task[Lead(task)].status = "Open"
    <3>1. Lead(task) = 1 /\ 1 \in TaskSlots
      BY <1>2, <2>1 DEF TaskSlots
    <3>2. QED
      BY <1>2, <3>1
  <2>3. QED
    BY <1>3, <2>2 DEF BlockedReflectsLead
<1>8. HeldTasksWaitForSomething
  BY <1>2 DEF HeldTasksWaitForSomething
<1>9. QED
  BY <1>1, <1>3, <1>4, <1>5, <1>6, <1>7, <1>8 DEF FollowInvariant, CountInvariant, FollowsItsTasks

LEMMA FollowWork ==
  ASSUME FollowInvariant, NEW r \in Resources, WorkStep(r), Kinds', Contiguous'
  PROVE  FollowInvariant'
<1>1. /\ Kinds /\ order.status # "On Hold" /\ Counted(order, task) /\ AllEarlier
      /\ CompletedIsFinished /\ HeldTasksWaitForSomething
  BY DEF FollowInvariant, CountInvariant, FollowsItsTasks
<1>2. /\ Unfinished(task) # {} /\ InFlight(r) /\ Ends(r)
  BY Zenon DEF WorkStep
<1>3. PICK row, rows :
        /\ rows \in Tasks /\ Worked(rows, row.assigned_resource)
        /\ \/ task' = rows /\ Unfinished(rows) = Unfinished(task)
           \/ \E owner \in Owner : task' = ReleaseNext(rows, rows, owner)
  BY Zenon DEF WorkStep
<1>4. task \in Tasks
  BY <1>1 DEF Kinds
<1>5. order.status # "Completed"
  BY <1>1, <1>2, <1>4, NotFinished DEF CompletedIsFinished
<1>6. snapshot[r].order.status # "On Hold"
  BY <1>1, <1>2, Zenon DEF AllEarlier, Earlier
<1>7. /\ order'.status # "On Hold" /\ CompletedIsFinished'
      /\ order'.task_count = order.task_count
      /\ order'.confirmed_count = Cardinality(Finished(task'))
      /\ FinishedIsCompleted' /\ BlockedReflectsLead'
  BY <1>1, <1>5, <1>6, WorkSyncs
<1>8. /\ task' \in Tasks /\ Alike(task', rows)
      /\ \A t \in TaskSlots : task'[t].sequence = rows[t].sequence
  BY <1>1, <1>3, WorkLeaves
<1>9. /\ Exists(task') = Exists(rows) /\ Finished(task') = Finished(rows)
      /\ Unfinished(task') = Unfinished(rows)
  BY <1>3, <1>8, AlikeSets
<1>10. Grows(task, task') /\ Exists(task') = Exists(task)
  <2>1. Exists(rows) = Exists(task)
    BY <1>3, Zenon DEF Worked, Exists
  <2>2. \A t \in Finished(task) : rows[t].status = task[t].status
    BY <1>3, Zenon DEF Worked, Finished
  <2>3. Finished(task) \subseteq Finished(rows)
    BY <2>2, Zenon DEF Finished
  <2>4. \A t \in Exists(task) : task'[t].sequence = task[t].sequence
    BY <1>3, <1>8, Zenon DEF Worked, Exists
  <2>5. QED
    BY <1>9, <2>1, <2>3, <2>4, Zenon DEF Grows
<1>11. AllEarlier'
  BY <1>1, <1>2, <1>10, EarlierAfter, Zenon
<1>12. Counted(order, task)'
  BY <1>1, <1>7, <1>10, Zenon DEF Counted
<1>13. HeldTasksWaitForSomething'
  <2> SUFFICES ASSUME NEW t \in TaskSlots, task'[t].status = "On Hold"
               PROVE  \E s \in Unfinished(task') : task'[s].sequence < task'[t].sequence
    BY Zenon DEF HeldTasksWaitForSomething
  <2>1. CASE task' = rows /\ Unfinished(rows) = Unfinished(task)
    <3>1. task[t].status = "On Hold"
      BY <1>3, <2>1, Zenon DEF Worked
    <3>2. PICK s \in Unfinished(task) : task[s].sequence < task[t].sequence
      BY <1>1, <3>1 DEF HeldTasksWaitForSomething
    <3>3. s \in TaskSlots
      BY Zenon DEF Unfinished
    <3>4. rows[s].sequence = task[s].sequence /\ rows[t].sequence = task[t].sequence
      BY <1>3, <3>3, Zenon DEF Worked
    <3>5. QED
      BY <2>1, <3>2, <3>4, Zenon
  <2>2. CASE \E owner \in Owner : task' = ReleaseNext(rows, rows, owner)
    <3>1. PICK owner \in Owner : task' = ReleaseNext(rows, rows, owner)
      BY <2>2
    <3>2. PICK s \in Unfinished(rows) : rows[s].sequence < rows[t].sequence
      <4>1. ReleasedFrom(task', rows)
        BY <1>3, <3>1, ReleasedRows, Zenon
      <4>2. QED
        BY <1>3, <4>1, ReleasedAlike, Zenon
    <3>3. s \in TaskSlots
      BY Zenon DEF Unfinished
    <3>4. QED
      BY <1>8, <1>9, <3>2, <3>3, Zenon
  <2>3. QED
    BY <1>3, <2>1, <2>2, Zenon
<1>14. QED
  BY <1>7, <1>11, <1>12, <1>13, Zenon DEF FollowInvariant, CountInvariant, FollowsItsTasks

LEMMA FollowBegin ==
  ASSUME FollowInvariant, NEW r \in Resources, Begin(r), Kinds', Contiguous'
  PROVE  FollowInvariant'
<1>1. /\ Kinds /\ order.status # "On Hold" /\ Counted(order, task) /\ AllEarlier
      /\ FollowsItsTasks
  BY DEF FollowInvariant, CountInvariant
<1>2. /\ order' = order /\ task' = task
      /\ \A w \in Resources :
           snapshot'[w] = IF w = r THEN [order |-> order, task |-> task] ELSE snapshot[w]
  BY <1>1, BeginIs, Zenon
<1> DEFINE now == [order |-> order, task |-> task]
<1>3. Earlier(now)
  <2>1. now.order = order /\ now.task = task
    OBVIOUS
  <2> HIDE DEF now
  <2>2. QED
    BY <1>1, <2>1, Zenon DEF Earlier
<1>4. \A w \in Resources : InFlight(w)' => Earlier(snapshot[w])'
  <2> SUFFICES ASSUME NEW w \in Resources, InFlight(w)' PROVE Earlier(snapshot[w])'
    BY Zenon
  <2> HIDE DEF now
  <2>1. CASE w = r
    <3>1. snapshot'[w] = now
      BY <1>2, <2>1, Zenon DEF now
    <3>2. QED
      BY <1>2, <1>3, <3>1, Zenon DEF Earlier
  <2>2. CASE w # r
    <3>1. snapshot'[w] = snapshot[w]
      BY <1>2, <2>2, Zenon
    <3>2. InFlight(w)
      BY <3>1, Zenon DEF InFlight
    <3>3. Earlier(snapshot[w])
      BY <1>1, <3>2, Zenon DEF AllEarlier
    <3>4. QED
      BY <1>2, <3>1, <3>3, Zenon DEF Earlier
  <2>3. QED
    BY <2>1, <2>2
<1>5. AllEarlier'
  BY <1>4, Zenon DEF AllEarlier
<1>6. FollowsItsTasks'
  BY <1>1, <1>2, Zenon DEF FollowsItsTasks, CompletedIsFinished, FinishedIsCompleted,
                            BlockedReflectsLead, HeldTasksWaitForSomething
<1>7. Counted(order, task)' /\ order'.status # "On Hold"
  BY <1>1, <1>2, Zenon DEF Counted
<1>8. QED
  BY <1>5, <1>6, <1>7, Zenon DEF FollowInvariant, CountInvariant

\* PullNext and SkipOrder leave statuses, sequences and counters alone.
LEMMA DispatchKeeps ==
  ASSUME Kinds, NEW r \in Resources, Dispatching(r)
  PROVE  /\ \A t \in TaskSlots : task'[t].sequence = task[t].sequence
         /\ order'.task_count = order.task_count /\ order'.confirmed_count = order.confirmed_count
         /\ order.status \in {"Open", "Assigned"} /\ order'.status \in {"Open", "Assigned"}
         /\ Ends(r) \/ UNCHANGED snapshot
<1>1. /\ \A t \in TaskSlots : [task[t] EXCEPT !.assigned_resource = r].sequence = task[t].sequence
      /\ \A t \in TaskSlots : [task[t] EXCEPT !.assigned_resource = NoResource].sequence = task[t].sequence
  BY ReassignedTo DEF Owner
<1>2. order \in OrderRow
  BY DEF Kinds
<1>3. CASE PullNext(r)
  <2>1. \A t \in TaskSlots : task'[t].sequence = task[t].sequence
    BY <1>1, <1>3, Zenon DEF PullNext
  <2>2. /\ order.status = "Open" /\ Ends(r)
        /\ order' = [order EXCEPT !.assigned_resource = r, !.status = "Assigned"]
    BY <1>3, Zenon DEF PullNext
  <2>3. /\ order'.task_count = order.task_count /\ order'.confirmed_count = order.confirmed_count
        /\ order'.status = "Assigned"
    BY <1>2, <2>2 DEF OrderRow
  <2>4. QED
    BY <2>1, <2>2, <2>3, Zenon
<1>4. CASE SkipOrder(r)
  <2>1. \A t \in TaskSlots : task'[t].sequence = task[t].sequence
    BY <1>1, <1>4, Zenon DEF SkipOrder
  <2>2. PICK skipped :
          order' = [order EXCEPT !.status = "Open", !.assigned_resource = NoResource, !.skipped_by = skipped]
    BY <1>4, Zenon DEF SkipOrder
  <2>3. /\ order'.task_count = order.task_count /\ order'.confirmed_count = order.confirmed_count
        /\ order'.status = "Open"
    BY <1>2, <2>2 DEF OrderRow
  <2>4. order.status \in {"Open", "Assigned"} /\ UNCHANGED snapshot
    BY <1>4, Zenon DEF SkipOrder
  <2>5. QED
    BY <2>1, <2>3, <2>4, Zenon
<1>5. QED
  BY <1>3, <1>4, Zenon DEF Dispatching

LEMMA FollowDispatch ==
  ASSUME FollowInvariant, NEW r \in Resources, Dispatching(r), Kinds', Contiguous'
  PROVE  FollowInvariant'
<1>1. /\ Kinds /\ Counted(order, task) /\ AllEarlier
      /\ CompletedIsFinished /\ FinishedIsCompleted /\ BlockedReflectsLead /\ HeldTasksWaitForSomething
  BY DEF FollowInvariant, CountInvariant, FollowsItsTasks
<1>2. /\ \A t \in TaskSlots : task'[t].sequence = task[t].sequence
      /\ order'.task_count = order.task_count /\ order'.confirmed_count = order.confirmed_count
      /\ order.status \in {"Open", "Assigned"} /\ order'.status \in {"Open", "Assigned"}
      /\ Ends(r) \/ UNCHANGED snapshot
  BY <1>1, DispatchKeeps, Zenon
<1>3. SameStatuses /\ task \in Tasks /\ task' \in Tasks
  BY <1>1, DispatchReassigns, Zenon DEF Reassigned, SameStatuses, Kinds
<1>4. Alike(task', task)
  BY <1>2, <1>3, Zenon DEF Alike, SameStatuses
<1>5. /\ Exists(task') = Exists(task) /\ Finished(task') = Finished(task)
      /\ Unfinished(task') = Unfinished(task)
      /\ (Unfinished(task') # {} /\ task'[Lead(task')].status = "Exception")
           <=> (Unfinished(task) # {} /\ task[Lead(task)].status = "Exception")
  BY <1>3, <1>4, AlikeSets
<1>6. order'.status \notin {"On Hold", "Completed", "Blocked"} /\ order.status \notin {"Completed", "Blocked"}
  BY <1>2
<1>7. CompletedIsFinished' /\ FinishedIsCompleted'
  BY <1>1, <1>5, <1>6, Zenon DEF CompletedIsFinished, FinishedIsCompleted
<1>8. BlockedReflectsLead'
  BY <1>1, <1>5, <1>6, Zenon DEF BlockedReflectsLead
<1>9. HeldTasksWaitForSomething'
  <2>1. Unfinished(task) \subseteq TaskSlots
    BY DEF Unfinished
  <2>2. QED
    BY <1>1, <1>2, <1>3, <1>5, <2>1, Zenon DEF HeldTasksWaitForSomething, SameStatuses
<1>10. AllEarlier'
  <2>1. Grows(task, task')
    BY <1>2, <1>5, Zenon DEF Grows, Exists
  <2>2. QED
    BY <1>1, <1>2, <2>1, EarlierAfter, Zenon
<1>11. Counted(order, task)'
  BY <1>1, <1>2, <1>5, Zenon DEF Counted
<1>12. QED
  BY <1>6, <1>7, <1>8, <1>9, <1>10, <1>11, Zenon DEF FollowInvariant, CountInvariant, FollowsItsTasks

\* A request that attaches a task has read all its predecessors as they are:
\* had one come or finished since, a counter of the order would have changed.
LEMMA ReadAsItIs ==
  ASSUME CountInvariant, SnapshotIsolation, NEW r \in Resources, InFlight(r), FreshOrder(r)
  PROVE  /\ Unfinished(snapshot[r].task) = Unfinished(task)
         /\ \A t \in Unfinished(task) : snapshot[r].task[t].sequence = task[t].sequence
<1> DEFINE read == snapshot[r]
<1>1. /\ Kinds /\ Counted(order, task) /\ Earlier(read)
  BY Zenon DEF CountInvariant, AllEarlier
<1>2. task \in Tasks /\ read.task \in Tasks
  BY <1>1, ReadType, Zenon DEF Kinds
<1>3. read.order = order
  BY Zenon DEF FreshOrder
<1>4. /\ Cardinality(Exists(read.task)) = Cardinality(Exists(task))
      /\ Cardinality(Finished(read.task)) = Cardinality(Finished(task))
      /\ Exists(read.task) \subseteq Exists(task) /\ Finished(read.task) \subseteq Finished(task)
      /\ \A t \in Exists(read.task) : read.task[t].sequence = task[t].sequence
  BY <1>1, <1>3, Zenon DEF Earlier, Counted
<1>5. /\ IsFiniteSet(Exists(task)) /\ IsFiniteSet(Finished(task))
      /\ Unfinished(task) = Exists(task) \ Finished(task) /\ Unfinished(task) \subseteq Exists(task)
  BY <1>2, TaskSets
<1>6. Unfinished(read.task) = Exists(read.task) \ Finished(read.task)
  BY <1>2, TaskSets
<1> HIDE DEF read
<1>7. Exists(read.task) = Exists(task) /\ Finished(read.task) = Finished(task)
  BY <1>4, <1>5, FS_Subset
<1>8. QED
  BY <1>4, <1>5, <1>6, <1>7, Zenon DEF read

LEMMA FollowAttach ==
  ASSUME FollowInvariant, SnapshotIsolation, NEW r \in Resources, Attach(r), Kinds', Contiguous'
  PROVE  FollowInvariant'
<1>1. /\ CountInvariant /\ Kinds /\ Contiguous /\ order.status # "On Hold" /\ Counted(order, task)
      /\ AllEarlier /\ BlockedReflectsLead /\ HeldTasksWaitForSomething
  BY DEF FollowInvariant, CountInvariant, FollowsItsTasks
<1>2. PICK seq \in (0..MaxSequence), cached \in Owner : AttachTask(r, seq, cached)
  BY Zenon DEF Attach
<1>3. /\ order'.task_count = snapshot[r].order.task_count + 1
      /\ order'.status = order.status /\ order'.confirmed_count = order.confirmed_count
      /\ InFlight(r) /\ FreshOrder(r) /\ Ends(r)
      /\ snapshot[r].order.status \in OPEN_WO_STATUSES
  BY <1>1, <1>2, AttachTaskIs, Zenon
<1>4. PICK row : AttachedAs(row, r, seq, cached)
  BY <1>1, <1>2, AttachTaskIs, Zenon
<1>5. /\ Added(task', row) /\ row.sequence = seq
      /\ row.status \in {"Open", "Assigned", "On Hold"} /\ (row.status = "On Hold" => Held(r, seq))
  BY <1>4, Zenon DEF AttachedAs
<1>6. order = snapshot[r].order /\ order.status \in OPEN_WO_STATUSES
  BY <1>3, Zenon DEF FreshOrder
<1> DEFINE free == FreeSlot
<1>7. /\ free \in TaskSlots /\ free \notin Exists(task)
      /\ task' \in Tasks /\ task \in Tasks /\ task'[free] = row
      /\ \A s \in TaskSlots \ {free} : task'[s] = task[s]
  BY <1>1, <1>5, AddedType, FreeIsFree, Zenon DEF Added, Kinds
<1>8. /\ Exists(task') = Exists(task) \cup {free} /\ Finished(task') = Finished(task)
      /\ Unfinished(task') = Unfinished(task) \cup {free}
  BY <1>1, <1>5, <1>7, AddedSets, Zenon
<1> HIDE DEF free
<1>9. /\ Exists(task) \subseteq TaskSlots /\ IsFiniteSet(Exists(task))
      /\ Cardinality(Exists(task)) \in Nat /\ Unfinished(task) \subseteq Exists(task)
  BY <1>7, TaskSets
<1>10. Counted(order, task)'
  <2>1. Cardinality(Exists(task')) = Cardinality(Exists(task)) + 1
    <3>1. free \notin Exists(task) /\ IsFiniteSet(Exists(task))
      BY <1>7, <1>9, Zenon
    <3>2. Cardinality(Exists(task) \cup {free}) = Cardinality(Exists(task)) + 1
      BY <3>1, FS_AddElement
    <3>3. QED
      BY <1>8, <3>2, Zenon
  <2>2. order'.task_count = Cardinality(Exists(task)) + 1
    BY <1>1, <1>3, <1>6, Zenon DEF Counted
  <2>3. QED
    BY <1>1, <1>3, <1>8, <2>1, <2>2, Zenon DEF Counted
<1>11. AllEarlier'
  <2>1. Grows(task, task')
    BY <1>7, <1>8, <1>9, Zenon DEF Grows
  <2>2. QED
    BY <1>1, <1>3, <2>1, EarlierAfter, Zenon
<1>12. order'.status \notin {"Completed", "On Hold", "Blocked"} /\ order.status # "Blocked"
  BY <1>3, <1>6 DEF OPEN_WO_STATUSES
<1>13. CompletedIsFinished' /\ FinishedIsCompleted'
  <2>1. Unfinished(task') # {}
    BY <1>8
  <2>2. Finished(task') # Exists(task')
    BY <1>7, <2>1, NotFinished
  <2>3. QED
    BY <1>12, <2>2, Zenon DEF CompletedIsFinished, FinishedIsCompleted
<1>14. BlockedReflectsLead'
  <2>1. Leads(task', Lead(task'))
    <3>1. Unfinished(task') # {}
      BY <1>8
    <3>2. QED
      BY <1>7, <3>1, LeadExists
  <2> DEFINE lead == Lead(task')
  <2>2. lead \in Unfinished(task')
    BY <2>1, Zenon DEF Leads
  <2> HIDE DEF lead
  <2>3. task'[lead].status # "Exception"
    <3>1. CASE lead = free
      BY <1>5, <1>7, <3>1
    <3>2. CASE lead # free
      <4>1. lead \in Unfinished(task) /\ lead \in TaskSlots
        BY <1>8, <1>9, <2>2, <3>2
      <4>2. \A s \in Unfinished(task) : task'[s] = task[s] /\ s \in Unfinished(task')
        BY <1>7, <1>8, <1>9, Zenon
      <4>3. Leads(task, lead)
        BY <2>1, <4>1, <4>2, Zenon DEF Leads, lead
      <4>4. Leads(task, Lead(task)) /\ Unfinished(task) # {}
        BY <1>7, <4>1, LeadExists, Zenon
      <4>5. lead = Lead(task)
        BY <1>7, <4>3, <4>4, LeadIsUnique, Zenon
      <4>6. task[Lead(task)].status # "Exception"
        BY <1>1, <1>12, <4>4, Zenon DEF BlockedReflectsLead
      <4>7. QED
        BY <4>1, <4>2, <4>5, <4>6, Zenon
    <3>3. QED
      BY <3>1, <3>2
  <2>4. QED
    BY <1>12, <2>3, Zenon DEF BlockedReflectsLead, lead
<1>15. HeldTasksWaitForSomething'
  <2> SUFFICES ASSUME NEW t \in TaskSlots, task'[t].status = "On Hold"
               PROVE  \E s \in Unfinished(task') : task'[s].sequence < task'[t].sequence
    BY Zenon DEF HeldTasksWaitForSomething
  <2>1. \A s \in Unfinished(task) : task'[s] = task[s] /\ s \in Unfinished(task')
    BY <1>7, <1>8, <1>9, Zenon
  <2>2. CASE t = free
    <3>1. PICK s \in Unfinished(snapshot[r].task) : snapshot[r].task[s].sequence < seq
      BY <1>5, <1>7, <2>2, Zenon DEF Held
    <3>2. s \in Unfinished(task) /\ snapshot[r].task[s].sequence = task[s].sequence
      BY <1>1, <1>3, <3>1, ReadAsItIs, Zenon
    <3>3. task'[s].sequence < task'[t].sequence
      BY <1>5, <1>7, <2>1, <2>2, <3>1, <3>2, Zenon
    <3>4. QED
      BY <2>1, <3>2, <3>3, Zenon
  <2>3. CASE t # free
    <3>1. task'[t] = task[t]
      BY <1>7, <2>3, Zenon
    <3>2. PICK s \in Unfinished(task) : task[s].sequence < task[t].sequence
      BY <1>1, <3>1, Zenon DEF HeldTasksWaitForSomething
    <3>3. QED
      BY <2>1, <3>1, <3>2, Zenon
  <2>4. QED
    BY <2>2, <2>3
<1>16. QED
  BY <1>10, <1>11, <1>12, <1>13, <1>14, <1>15, Zenon
     DEF FollowInvariant, CountInvariant, FollowsItsTasks

\* The status of the order follows its tasks: Completed exactly when all are
\* confirmed or cancelled, Blocked exactly while the lead task is in exception,
\* and whatever is held waits for an unfinished task before it, for any number
\* of resources that attach, confirm, stop and cancel tasks at the same time.
THEOREM OrderFollows ==
  ASSUME SnapshotIsolation
  PROVE  Spec => []OrderFollowsItsTasks
<1> DEFINE Inv == supervised \in BOOLEAN /\ SafeRows /\ (~supervised => FollowInvariant)
<1>1. Init => Inv
  BY InitKinds, InitContiguous, FollowInit DEF Init, SafeRows
<1>2. Inv /\ [Next]_vars => Inv'
  <2> SUFFICES ASSUME Inv, [Next]_vars PROVE Inv'
    OBVIOUS
  <2>1. Kinds /\ Contiguous
    BY DEF SafeRows
  <2>2. Kinds' /\ Contiguous' /\ supervised' \in BOOLEAN
    BY <2>1, NextKinds, ContiguousAfter, SupervisedStep
  <2>3. ASSUME ~supervised' PROVE FollowInvariant'
    <3>1. ~supervised /\ (Execution \/ UNCHANGED orderVars)
      BY <2>3, SupervisedStep
    <3>2. FollowInvariant
      BY <3>1
    <3>3. ASSUME NEW r \in Resources, Executing(r)
          PROVE  FollowInvariant'
      <4>1. CASE Begin(r)
        BY <2>2, <3>2, <4>1, FollowBegin, Zenon
      <4>2. CASE Attach(r)
        BY <2>2, <3>2, <4>2, FollowAttach, Zenon
      <4>3. CASE Working(r) \/ Excepts(r) \/ Cancels(r)
        BY <2>1, <2>2, <3>2, <4>3, Works, FollowWork, Zenon
      <4>4. QED
        BY <3>3, <4>1, <4>2, <4>3, Zenon DEF Executing
    <3>4. ASSUME NEW r \in Resources, Dispatching(r)
          PROVE  FollowInvariant'
      BY <2>2, <3>2, <3>4, FollowDispatch, Zenon
    <3>5. ASSUME UNCHANGED orderVars PROVE FollowInvariant'
      <4>1. order' = order /\ task' = task /\ snapshot' = snapshot
        BY <3>5, Zenon DEF orderVars
      <4>2. AllEarlier'
        <5>1. AllEarlier
          BY <3>2 DEF FollowInvariant, CountInvariant
        <5>2. QED
          BY <4>1, <5>1, Zenon DEF AllEarlier, Earlier, InFlight
      <4>3. FollowsItsTasks'
        BY <3>2, <4>1, Zenon DEF FollowInvariant, FollowsItsTasks, CompletedIsFinished,
                               FinishedIsCompleted, BlockedReflectsLead, HeldTasksWaitForSomething
      <4>4. QED
        BY <2>2, <3>2, <4>1, <4>2, <4>3, Zenon DEF FollowInvariant, CountInvariant, Counted
    <3>6. QED
      BY <3>1, <3>3, <3>4, <3>5, Zenon DEF Execution
  <2>4. QED
    BY <2>2, <2>3 DEF SafeRows
<1>3. Inv => OrderFollowsItsTasks
  BY DEF FollowInvariant, OrderFollowsItsTasks
<1>4. QED
  BY <1>1, <1>2, <1>3, PTL DEF Spec
=============================================================================
