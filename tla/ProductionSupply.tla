--------------------------- MODULE ProductionSupply ---------------------------
(***************************************************************************)
(* Production supply: one Production Supply Area (PSA), one material, one  *)
(* item per Production Material Request (PMR).  Staging tasks carry the    *)
(* material from storage to the PSA, directly or over an order's location  *)
(* in a deconsolidation work center; ERPNext's consumption entries book it *)
(* out; what is left goes back.  The PSA's bins count together, storage is *)
(* one stock line, and a task stands for its Warehouse Request as well.    *)
(*                                                                         *)
(* Staging locks the items and the stock line, but reads other orders'     *)
(* locations, tasks and the plan of the line without a lock: a request may *)
(* decide from what stood when it began, looked.                           *)
(***************************************************************************)
EXTENDS Integers, SequencesExt, FiniteSetsExt

CONSTANTS
  Orders,              \* 1..n: Work Orders, by planned date
  Locations,           \* locations of the deconsolidation work center; {}: none
  Methods,             \* staging methods the control cycle may have
  Modes,               \* of TRUE (Automatic) and FALSE (Manual)
  RequiredQuantities, OpeningStock,
  Minimum, Maximum,    \* of the control cycle
  Lapses,              \* of "ReturnAgain", "ShortReturn", "ShortMixed",
                       \* "ReverseStaging"
  None,
  MaxWork              \* bound on the operations of a behaviour

ProductionSupplyAssumption ==
  /\ Orders = 1..Cardinality(Orders)
  /\ Methods \subseteq {"Pick Parts", "Release Order Parts", "Crate Parts", "Kanban", "Direct Consumption"}
  /\ Modes \subseteq BOOLEAN
  /\ None \notin Locations
  /\ Minimum \in Nat /\ Maximum \in Nat /\ Minimum < Maximum

VARIABLES
  method, automatic,   \* the control cycle, the PSA's staging mode
  pmr,                 \* [Orders -> Production Material Request with its item]
  tasks,               \* Warehouse Tasks, in order of creation
  stock,               \* [Places -> quantity]
  entry,               \* [Orders -> consumption entries booked, in order]
  looked,              \* what a staging request under way has read, or None
  strays,              \* history: orders that took their location on such a
                       \* reading, or took it up again
  stranded,            \* history: [Locations -> what a leg closed short left]
  work

history == <<looked, strays, stranded>>
vars == <<method, automatic, pmr, tasks, stock, entry, looked, strays, stranded, work>>

Places == {"Storage", "Supply"} \cup Locations
Unstaged == {"Crate Parts", "Kanban", "Direct Consumption"}
OpenStatuses == {"Open", "Partially Staged", "Staged", "Partially Consumed"}
Smaller(a, b) == IF a < b THEN a ELSE b
AtLeastZero(n) == IF n > 0 THEN n ELSE 0

NoPmr == [status |-> "None", required |-> 0, tasked |-> 0, staged |-> 0, consumed |-> 0, place |-> None]

Init ==
  /\ method \in Methods /\ automatic \in Modes
  /\ pmr = [o \in Orders |-> NoPmr]
  /\ tasks = <<>>
  /\ stock = [p \in Places |-> IF p = "Storage" THEN OpeningStock ELSE 0]
  /\ entry = [o \in Orders |-> <<>>]
  /\ looked = None /\ strays = {} /\ stranded = [l \in Locations |-> 0]
  /\ work = 0

-----------------------------------------------------------------------------
(* A handler is a chain of changes to s = [pmr, tasks, stock]. *)

Now == [pmr |-> pmr, tasks |-> tasks, stock |-> stock]
Becomes(next) == \E s \in {next} : pmr' = s.pmr /\ tasks' = s.tasks /\ stock' = s.stock

OpenTasks(s) == {i \in DOMAIN s.tasks : s.tasks[i].status = "Open"}
Left(t) == t.planned - t.done
LeftOf(s, I) == MapThenSumSet(LAMBDA i : Left(s.tasks[i]), I)
PlannedOut(s) == LeftOf(s, {i \in OpenTasks(s) : s.tasks[i].from = "Storage"})
Coming(s) == LeftOf(s, {i \in OpenTasks(s) : s.tasks[i].to = "Supply"})
Available(s) == s.stock["Storage"] - PlannedOut(s)

IsOpen(r) == r.status \in OpenStatuses
OpenQuantity(r) == r.required - r.tasked
Own(r) == AtLeastZero(r.staged - r.consumed)
ReservedOutstanding(s) == MapThenSumSet(LAMBDA o : Own(s.pmr[o]), {o \in Orders : IsOpen(s.pmr[o])})
(* Mutant: the reservations of the orders are forgotten. *)
AllOfIt(s) == s.stock["Supply"]
Pool(s) == AtLeastZero(s.stock["Supply"] - ReservedOutstanding(s))

Refreshed(r) ==
  [r EXCEPT !.status =
     CASE r.status \in {"Closed", "Cancelled"} -> r.status
       [] r.consumed >= r.required -> "Consumed"
       [] r.consumed \in 1..(r.required - 1) -> "Partially Consumed"
       [] r.consumed = 0 /\ r.tasked >= r.required -> "Staged"
       [] r.consumed = 0 /\ r.tasked \in 1..(r.required - 1) -> "Partially Staged"
       [] OTHER -> "Open"]

-----------------------------------------------------------------------------
(* Staging. *)

WithTask(s, kind, o, quantity, from, to, final) ==
  [s EXCEPT !.tasks = Append(@, [kind |-> kind, order |-> o, planned |-> quantity, done |-> 0,
                                 from |-> from, to |-> to, final |-> final, status |-> "Open", after |-> 0])]

FreeLocations(s) ==
  {l \in Locations : /\ \A o \in Orders : ~(IsOpen(s.pmr[o]) /\ s.pmr[o].place = l)
                     /\ s.stock[l] = 0
                     /\ \A i \in OpenTasks(s) : s.tasks[i].to # l}

(* A PSA without a work center needs no location; an order keeps its own. *)
HasLocation(s, o) == Locations = {} \/ s.pmr[o].place # None \/ FreeLocations(s) # {}
LocationFor(s, o) == IF s.pmr[o].place # None THEN s.pmr[o].place ELSE CHOOSE l \in FreeLocations(s) : TRUE

(* v: what the request reads of the other orders, tasks and locations. *)
ViaDeconsolidation(s, v, o, quantity) ==
  IF Locations = {} THEN WithTask(s, "Single", o, quantity, "Storage", "Supply", None)
  ELSE LET l == LocationFor(v, o)
       IN  WithTask([s EXCEPT !.pmr[o].place = l], "Single", o, quantity, "Storage", l, "Supply")

Tasked(s, os, quantity) ==
  LET step(acc, o) ==
        LET take == Smaller(acc.left, OpenQuantity(acc.s.pmr[o]))
        IN  [left |-> acc.left - take,
             s |-> [acc.s EXCEPT !.pmr[o] = Refreshed([@ EXCEPT !.tasked = @ + take])]]
  IN  FoldLeft(step, [left |-> quantity, s |-> s], os).s

CanStage(s, single, os, quantity) ==
  /\ quantity > 0 /\ quantity <= Available(s)
  /\ \A n \in DOMAIN os : IsOpen(s.pmr[os[n]])
  /\ quantity <= FoldLeft(LAMBDA sum, o : sum + OpenQuantity(s.pmr[o]), 0, os)
  /\ single => HasLocation(s, os[1])

(* stage_items(): one line; Single Order for os[1], Cross Order for all of os. *)
Staged(s, v, single, os, quantity) ==
  Tasked(IF single THEN ViaDeconsolidation(s, v, os[1], quantity)
         ELSE WithTask(s, "Cross", None, quantity, "Storage", "Supply", None), os, quantity)

InOrder(O) == SetToSortSeq(O, LAMBDA a, b : a < b)
ToStage(s) == {o \in Orders : IsOpen(s.pmr[o]) /\ OpenQuantity(s.pmr[o]) > 0}

StagedIfPossible(s, single, os) ==
  LET wanted == FoldLeft(LAMBDA sum, o : sum + OpenQuantity(s.pmr[o]), 0, os)
      quantity == Smaller(wanted, Available(s))
  IN  IF CanStage(s, single, os, quantity) THEN Staged(s, s, single, os, quantity) ELSE s

AutoStaged(s) ==
  LET os == InOrder(ToStage(s))
  IN  IF os = <<>> THEN s
      ELSE IF method = "Release Order Parts" THEN StagedIfPossible(s, FALSE, os)
      ELSE FoldLeft(LAMBDA acc, o : StagedIfPossible(acc, TRUE, <<o>>), s, os)

CrateChecked(s) ==
  LET held == s.stock["Supply"] + Coming(s)
      quantity == Smaller(Maximum - held, Available(s))
  IN  IF method = "Crate Parts" /\ held < Minimum /\ quantity > 0
      THEN WithTask(s, "Crate", None, quantity, "Storage", "Supply", None) ELSE s

(* _replenish_for_rule(): the source is what lies there, tasked or not. *)
(* Mutant: a refill that is done counts as well. *)
RefillKnown(s) == \E i \in DOMAIN s.tasks : s.tasks[i].kind = "Kanban"
RefillPending(s) == \E i \in OpenTasks(s) : s.tasks[i].kind = "Kanban"
Refill(s, quantity) == WithTask(s, "Kanban", None, quantity, "Storage", "Supply", None)
KanbanChecked(s) ==
  LET quantity == Smaller(Maximum - s.stock["Supply"], s.stock["Storage"])
  IN  IF method = "Kanban" /\ s.stock["Supply"] <= Minimum /\ ~RefillPending(s) /\ quantity > 0
      THEN Refill(s, quantity) ELSE s

BinsChecked(s) == KanbanChecked(CrateChecked(s))

-----------------------------------------------------------------------------
(* Orders and the staging application. *)

SubmitWorkOrder(o, quantity) ==
  /\ pmr[o].status = "None"
  /\ LET new == [NoPmr EXCEPT !.status = "Open", !.required = quantity,
                              !.tasked = IF method \in Unstaged THEN quantity ELSE 0]
         checked == KanbanChecked([Now EXCEPT !.pmr[o] = new])
     IN  Becomes(IF automatic THEN AutoStaged(checked) ELSE checked)
  /\ UNCHANGED <<entry, history>>

ReturnPending(o) ==
  \E i \in OpenTasks(Now) : tasks[i].kind = "Return" /\ tasks[i].order = o
MayMoveOn(o) == "ReturnAgain" \in Lapses \/ ~ReturnPending(o)

(* ERPNext cancels no Work Order with submitted entries (external). *)
CancelWorkOrder(o) ==
  /\ pmr[o].status \notin {"None", "Cancelled"} /\ MayMoveOn(o)
  /\ \A n \in DOMAIN entry[o] : entry[o][n].cancelled
  /\ pmr' = [pmr EXCEPT ![o].status = "Cancelled"]
  /\ UNCHANGED <<tasks, stock, entry, history>>

ClosePmr(o) ==
  /\ pmr[o].status # "None" /\ MayMoveOn(o)
  /\ pmr' = [pmr EXCEPT ![o].status = "Closed"]
  /\ UNCHANGED <<tasks, stock, entry, history>>

(* Snapshot isolation: the rows the request locks are the ones it read.    *)
LocksWhatItRead(v, O) == stock["Storage"] = v.stock["Storage"] /\ \A o \in O : pmr[o] = v.pmr[o]

Stage(v, single, O, quantity) ==
  /\ LocksWhatItRead(v, O)
  /\ CanStage(v, single, InOrder(O), quantity)
  /\ Becomes(Staged(Now, v, single, InOrder(O), quantity))
  /\ UNCHANGED <<entry, stranded>>
StageSingleOrder(o, quantity) == Stage(Now, TRUE, {o}, quantity) /\ UNCHANGED <<looked, strays>>
StageCrossOrder(O, quantity) == Stage(Now, FALSE, O, quantity) /\ UNCHANGED <<looked, strays>>

BeginStaging ==
  /\ looked = None
  /\ looked' = Now
  /\ UNCHANGED <<method, automatic, pmr, tasks, stock, entry, strays, stranded, work>>
EndStaging(single, O, quantity) ==
  /\ looked # None
  /\ Stage(looked, single, O, quantity)
  /\ looked' = None
  /\ strays' = strays \cup O

KanbanSignal ==
  /\ method = "Kanban" /\ ~RefillPending(Now)
  /\ LET quantity == Smaller(Maximum - stock["Supply"] - Coming(Now), stock["Storage"])
     IN  quantity > 0 /\ Becomes(Refill(Now, quantity))
  /\ UNCHANGED <<entry, history>>

(* Hourly. *)
AfterHour == BinsChecked(IF automatic THEN AutoStaged(Now) ELSE Now)
RunAutoStaging ==
  /\ \E s \in {AfterHour} : s # Now /\ Becomes(s)
  /\ UNCHANGED <<entry, history>>

(* It asks neither whether the PMR is open nor whether tasks already return it. *)
ReturnUnused(o) ==
  /\ pmr[o].staged > pmr[o].consumed /\ stock["Supply"] > 0
  /\ "ReturnAgain" \in Lapses \/ (IsOpen(pmr[o]) /\ ~ReturnPending(o))
  /\ Becomes(WithTask(Now, "Return", o, Smaller(pmr[o].staged - pmr[o].consumed, stock["Supply"]),
                      "Supply", "Storage", None))
  /\ UNCHANGED <<entry, history>>

-----------------------------------------------------------------------------
(* Tasks. *)

OnConfirmed(s, t, quantity) ==
  CASE t.kind = "Return" -> [s EXCEPT !.pmr[t.order].staged = AtLeastZero(@ - quantity)]
    [] t.kind = "Single" /\ t.to = "Supply" -> [s EXCEPT !.pmr[t.order].staged = @ + quantity]
    [] OTHER -> s

(* Mutant: nothing continues for an order that is no longer open. *)
OnwardIfOpen(s, i) ==
  LET t == s.tasks[i]
  IN  IF t.final = None \/ ~IsOpen(s.pmr[t.order]) THEN s
      ELSE [WithTask(s, t.kind, t.order, t.done, t.to, t.final, None) EXCEPT !.tasks[Len(s.tasks) + 1].after = i]
OnwardLeg(s, i) ==
  LET t == s.tasks[i]
  IN  IF t.final = None THEN s
      ELSE [WithTask(s, t.kind, t.order, t.done, t.to, t.final, None) EXCEPT !.tasks[Len(s.tasks) + 1].after = i]

ConfirmTask(i, quantity) ==
  /\ i \in OpenTasks(Now)
  /\ LET t == tasks[i]
         full == t.done + quantity = t.planned
         moved == [Now EXCEPT !.stock[t.from] = @ - quantity, !.stock[t.to] = @ + quantity,
                              !.tasks[i].done = @ + quantity,
                              !.tasks[i].status = IF full THEN "Confirmed" ELSE @]
     IN  /\ quantity <= Left(t) /\ quantity <= stock[t.from]
         /\ Becomes(OnConfirmed(IF full THEN OnwardLeg(moved, i) ELSE moved, t, quantity))
  /\ UNCHANGED <<entry, history>>

(* on_staging_short(): O are the items with something tasked and not       *)
(* staged, of whatever PMR, in the order the database returns them.        *)
ItemsOnTheWay == {o \in Orders : pmr[o].tasked > pmr[o].staged}
OnShort(s, t, shortfall, os) ==
  LET step(acc, o) ==
        LET take == Smaller(acc.left, acc.s.pmr[o].tasked - acc.s.pmr[o].staged)
        IN  [left |-> acc.left - take,
             s |-> [acc.s EXCEPT !.pmr[o] = Refreshed([@ EXCEPT !.tasked = @ - take])]]
      reopened(r) == Refreshed([r EXCEPT !.tasked = AtLeastZero(@ - shortfall)])
  IN  CASE t.order # None -> [s EXCEPT !.pmr[t.order] = reopened(@)]
        [] t.kind = "Cross" -> FoldLeft(step, [left |-> shortfall, s |-> s], os).s
        [] OTHER -> s

(* What a leg closed short leaves at l with no task for it: what the first *)
(* leg has brought, or what the second one does not take.                  *)
LeftBehind(t, revised, l) ==
  IF t.to = l /\ t.done >= revised THEN t.done
  ELSE IF t.from = l THEN t.planned - revised ELSE 0

(* raise_exception() with a smaller quantity; a task that has moved that   *)
(* much already is confirmed, and nothing continues it.                    *)
ShortTask(i, revised, os) ==
  /\ i \in OpenTasks(Now)
  /\ LET t == tasks[i]
         short == [Now EXCEPT !.tasks[i].planned = revised,
                              !.tasks[i].status = IF t.done >= revised THEN "Confirmed" ELSE @]
     IN  /\ revised >= t.done /\ revised < t.planned
         /\ t.kind = "Return" => "ShortReturn" \in Lapses
         /\ (t.kind = "Cross" /\ \E j \in DOMAIN tasks : tasks[j].kind = "Single") => "ShortMixed" \in Lapses
         /\ Becomes(OnShort(short, t, t.planned - revised, os))
         /\ stranded' = [l \in Locations |-> stranded[l] + LeftBehind(t, revised, l)]
  /\ UNCHANGED <<entry, looked, strays>>

(* reverse_task(): the compensating task belongs to no request. *)
ReverseStaging(i) ==
  /\ tasks[i].kind \in {"Crate", "Kanban"} \/ "ReverseStaging" \in Lapses
  /\ tasks[i].status = "Confirmed" /\ tasks[i].done > 0 /\ tasks[i].done <= stock[tasks[i].to]
  /\ stock' = [stock EXCEPT ![tasks[i].from] = @ + tasks[i].done, ![tasks[i].to] = @ - tasks[i].done]
  /\ tasks' = [tasks EXCEPT ![i].status = "Reversed"]
  /\ UNCHANGED <<pmr, entry, history>>

-----------------------------------------------------------------------------
(* Consumption entries of ERPNext. *)

SourcePlace == IF method = "Direct Consumption" THEN "Storage" ELSE "Supply"
MayConsume(o, quantity) == quantity <= Own(pmr[o]) + Pool(Now)

Consume(o, quantity) ==
  /\ IsOpen(pmr[o]) /\ MayMoveOn(o)
  /\ method # "Direct Consumption" => MayConsume(o, quantity)
  /\ quantity <= stock[SourcePlace]
  /\ Becomes(BinsChecked([Now EXCEPT !.stock[SourcePlace] = @ - quantity,
                                     !.pmr[o] = Refreshed([@ EXCEPT !.consumed = @ + quantity])]))
  /\ entry' = [entry EXCEPT ![o] = Append(@, [quantity |-> quantity, cancelled |-> FALSE])]
  /\ UNCHANGED history

CancelConsumption(o, n) ==
  /\ n \in DOMAIN entry[o] /\ ~entry[o][n].cancelled
  /\ LET quantity == entry[o][n].quantity
     IN  Becomes([Now EXCEPT !.stock[SourcePlace] = @ + quantity,
                             !.pmr[o] = Refreshed([@ EXCEPT !.consumed = AtLeastZero(@ - quantity)])])
  /\ entry' = [entry EXCEPT ![o][n].cancelled = TRUE]
  /\ strays' = IF pmr[o].place # None /\ ~IsOpen(pmr[o]) THEN strays \cup {o} ELSE strays
  /\ UNCHANGED <<looked, stranded>>

-----------------------------------------------------------------------------
Amounts == 1..Maximum
Operation ==
  \/ \E o \in Orders, q \in RequiredQuantities : SubmitWorkOrder(o, q)
  \/ \E o \in Orders : CancelWorkOrder(o)
  \/ \E o \in Orders : ClosePmr(o)
  \/ \E o \in Orders, q \in Amounts : StageSingleOrder(o, q)
  \/ \E O \in SUBSET Orders, q \in Amounts : O # {} /\ StageCrossOrder(O, q)
  \/ \E O \in SUBSET Orders, q \in Amounts :
       \/ Cardinality(O) = 1 /\ EndStaging(TRUE, O, q)
       \/ O # {} /\ EndStaging(FALSE, O, q)
  \/ KanbanSignal
  \/ \E o \in Orders : ReturnUnused(o)
  \/ \E i \in DOMAIN tasks, q \in Amounts : ConfirmTask(i, q)
  \/ \E i \in DOMAIN tasks, q \in 0..Maximum :
       \E os \in {InOrder(ItemsOnTheWay), Reverse(InOrder(ItemsOnTheWay))} : ShortTask(i, q, os)
  \/ \E i \in DOMAIN tasks : ReverseStaging(i)
  \/ \E o \in Orders, q \in Amounts : Consume(o, q)
  \/ \E o \in Orders : \E n \in DOMAIN entry[o] : CancelConsumption(o, n)

HourlyJob == RunAutoStaging /\ UNCHANGED <<method, automatic, work>>
Next ==
  \/ work < MaxWork /\ work' = work + 1 /\ UNCHANGED <<method, automatic>> /\ Operation
  \/ work < MaxWork /\ BeginStaging
  \/ HourlyJob

(* Weak fairness of the hourly job; AfterHour # Now says that it is enabled. *)
Fairness == []<>(AfterHour = Now) \/ []<><<HourlyJob>>_vars

Spec == Init /\ [][Next]_vars /\ Fairness

-----------------------------------------------------------------------------
(* Properties. *)

TypeOK ==
  /\ method \in Methods /\ automatic \in Modes /\ work \in 0..MaxWork /\ strays \subseteq Orders
  /\ \A o \in Orders :
       /\ pmr[o].status \in OpenStatuses \cup {"None", "Consumed", "Closed", "Cancelled"}
       /\ pmr[o].place \in Locations \cup {None}
       /\ 0 <= pmr[o].tasked /\ pmr[o].tasked <= pmr[o].required
       /\ pmr[o].staged >= 0 /\ pmr[o].consumed >= 0
  /\ \A p \in Places : stock[p] \in Nat
  /\ \A i \in DOMAIN tasks : tasks[i].done \in 0..tasks[i].planned

(* What was staged for the open orders and not consumed lies in the PSA:   *)
(* no consumption, return or refill of one order uses another's material.  *)
ReservedIsThere ==
  stock["Supply"] >= MapThenSumSet(LAMBDA o : IF pmr[o].staged > pmr[o].consumed THEN pmr[o].staged - pmr[o].consumed ELSE 0,
                                   {o \in Orders : pmr[o].status \in OpenStatuses})

(* Every quantity that counts as tasked is carried by a staging task, and  *)
(* what tasks carry counts as tasked: a task closed short makes exactly    *)
(* its shortfall open again.  A leg that was continued is not counted.     *)
Continued(i) == \E j \in DOMAIN tasks : tasks[j].after = i
TaskedHasItsTask ==
  method \notin Unstaged =>
    MapThenSumSet(LAMBDA o : pmr[o].tasked, Orders)
      = MapThenSumSet(LAMBDA i : tasks[i].planned,
                      {i \in DOMAIN tasks : tasks[i].kind \in {"Single", "Cross"} /\ ~Continued(i)})

ShareALocation(t, u) ==
  /\ t.status = "Open" /\ u.status = "Open" /\ t.order # u.order
  /\ {t.from, t.to} \cap {u.from, u.to} \cap Locations # {}

(* An order's location in the work center is "a free one" (production_     *)
(* supply.py:216): two orders have tasks to or from one location at the    *)
(* same time only when one of them staged from old reads or was reopened   *)
(* (production_supply.py:215-225, 546-558).                                *)
OnlyStraysShare ==
  \A i, j \in DOMAIN tasks :
    ShareALocation(tasks[i], tasks[j]) => {tasks[i].order, tasks[j].order} \cap strays # {}

(* What lies at a location of the work center is on its way: a first leg   *)
(* that is not finished brought it or an onward leg will take it, but for  *)
(* what legs closed short left there (task.py:440-475, 683-685).           *)
LocationsAreEmptied ==
  \A l \in Locations :
    stock[l] = LeftOf(Now, {i \in OpenTasks(Now) : tasks[i].from = l}) + stranded[l]
                 + MapThenSumSet(LAMBDA i : tasks[i].done, {i \in OpenTasks(Now) : tasks[i].to = l})

(* No more is ever tasked for an order, or staged for it, than it needs.   *)
StagedWithinRequired ==
  \A o \in Orders : pmr[o].staged <= pmr[o].required

(* A kanban or crate bin below its minimum does not stay so while storage  *)
(* has stock: the hourly job raises a refill.                              *)
LowBin == method \in {"Crate Parts", "Kanban"} /\ stock["Supply"] + Coming(Now) < Minimum
LowBinIsRefilled ==
  LowBin /\ Available(Now) > 0 ~> ~LowBin \/ Available(Now) <= 0

(* Staging adds up: what is tasked, staged, reserved and needed agree,      *)
(* however tasks are closed short, returned and consumed in between.        *)
StagingAddsUp == TypeOK /\ TaskedHasItsTask /\ StagedWithinRequired /\ ReservedIsThere

(* What goes through the deconsolidation work center leaves it again for    *)
(* its order's sake, open or not, and its locations are not mixed up        *)
(* between orders but by requests at once or an order that is reopened.     *)
WorkCenterKeepsOrder == LocationsAreEmptied /\ OnlyStraysShare
=============================================================================
