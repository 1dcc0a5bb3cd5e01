-------------------------------- MODULE Kitting --------------------------------
(***************************************************************************)
(* Kitting Orders at one work center bin: a kit of one unit of each        *)
(* component is assembled or taken apart.  Inputs are staged from storage  *)
(* by warehouse tasks, consumed at the work center, and the output may be  *)
(* put away.  All orders share the work center's stock, and their tasks    *)
(* the stock of the storage bins: a task reserves nothing.                 *)
(***************************************************************************)
EXTENDS Integers, SequencesExt, FiniteSetsExt

CONSTANTS
  Orders,
  Components,
  Lines,               \* storage bins 1..n, in removal order
  LineItem,            \* [Lines -> what is stored there]
  OpeningStock,        \* [Lines -> Nat]
  OrderQuantities,
  Kit,
  MaxWork              \* bound on the operations of a behaviour

Items == Components \cup {Kit}
KittingAssumption ==
  /\ IsFiniteSet(Components) /\ Kit \notin Components /\ OrderQuantities \subseteq Nat \ {0}
  /\ IsFiniteSet(Lines) /\ Lines = 1..Cardinality(Lines)
  /\ LineItem \in [Lines -> Items] /\ OpeningStock \in [Lines -> Nat]
  /\ \A x \in Items : \E l \in Lines : LineItem[l] = x   \* what is put away finds a bin

VARIABLES
  order,               \* [Orders -> Kitting Order]
  tasks,               \* Warehouse Tasks with their requests, in order of creation
  store,               \* [Lines -> Nat]
  center,              \* [Items -> Nat]: what stands at the work center
  work

kittingVars == <<order, tasks, store, center, work>>

NoOrder == [status |-> "None", assemble |-> TRUE, quantity |-> 0, putaway |-> FALSE]
IsOpen(o) == order[o].status = "Open"
Inputs(o) == IF order[o].assemble THEN Components ELSE {Kit}
Outputs(o) == IF order[o].assemble THEN {Kit} ELSE Components
AtLeastZero(n) == IF n > 0 THEN n ELSE 0
Smaller(a, b) == IF a < b THEN a ELSE b
SumOf(f, S) == SumFunctionOnSet(f, S)

KittingInit ==
  /\ order = [o \in Orders |-> NoOrder]
  /\ tasks = <<>>
  /\ store = OpeningStock /\ center = [x \in Items |-> 0]
  /\ work = 0

-----------------------------------------------------------------------------
(* Staging. *)

OpenTasks == {i \in DOMAIN tasks : tasks[i].status = "Open"}
StagingOf(o) == {i \in OpenTasks : tasks[i].order = o /\ tasks[i].staging}
Left == [i \in DOMAIN tasks |-> tasks[i].planned - tasks[i].done]
InTransit(o, x) == SumOf(Left, {i \in StagingOf(o) : LineItem[tasks[i].line] = x})
Need(o, x) == order[o].quantity - center[x] - InTransit(o, x)

(* What is taken from a storage bin, the earlier ones being emptied first. *)
LinesOf(x) == {l \in Lines : LineItem[l] = x}
Earlier(l) == SumOf(store, {k \in LinesOf(LineItem[l]) : k < l})
Taken(o, l) == AtLeastZero(Smaller(store[l], Need(o, LineItem[l]) - Earlier(l)))
StagingTask(o, l) ==
  [order |-> o, staging |-> TRUE, line |-> l, item |-> LineItem[l], planned |-> Taken(o, l), done |-> 0, status |-> "Open"]
LinesTaken(o) == {l \in Lines : LineItem[l] \in Inputs(o) /\ Taken(o, l) > 0}
StagingTasks(o) ==
  [n \in 1..Cardinality(LinesTaken(o)) |-> StagingTask(o, SetToSeq(LinesTaken(o))[n])]

CreateKittingOrder(o, assemble, quantity, putaway) ==
  /\ order[o].status = "None"
  /\ order' = [order EXCEPT ![o] = [status |-> "Open", assemble |-> assemble, quantity |-> quantity, putaway |-> putaway]]
  /\ UNCHANGED <<tasks, store, center>>

StageKittingComponents(o) ==
  /\ IsOpen(o)
  /\ \E created \in {StagingTasks(o)} : created # <<>> /\ tasks' = tasks \o created
  /\ UNCHANGED <<order, store, center>>

-----------------------------------------------------------------------------
(* Completing and cancelling. *)

(* Mutant: the tasks under way are left open. *)
StagingKept(o) == [i \in DOMAIN tasks |-> IF i \in StagingOf(o) /\ tasks[i].done = 0
                                          THEN [tasks[i] EXCEPT !.status = "Cancelled"] ELSE tasks[i]]
StagingClosed(o) == [i \in DOMAIN tasks |-> IF i \in StagingOf(o) THEN [tasks[i] EXCEPT !.status = "Cancelled"] ELSE tasks[i]]

(* The last storage bin of the item is the destination the rules find. *)
PutawayTask(o, x) ==
  [order |-> o, staging |-> FALSE, line |-> CHOOSE l \in Lines : LineItem[l] = x /\ \A k \in Lines : LineItem[k] = x => k <= l,
   item |-> x, planned |-> order[o].quantity, done |-> 0, status |-> "Open"]
PutawayTasks(o) ==
  [n \in 1..Cardinality(Outputs(o)) |-> PutawayTask(o, SetToSeq(Outputs(o))[n])]

(* Mutant: one of the inputs is enough to start. *)
AnInputIsThere(o) == \E x \in Inputs(o) : center[x] >= order[o].quantity
InputsAreThere(o) == \A x \in Inputs(o) : center[x] >= order[o].quantity
Consumed(o) ==
  [x \in Items |-> CASE x \in Inputs(o) -> AtLeastZero(center[x] - order[o].quantity)
                     [] x \in Outputs(o) -> center[x] + order[o].quantity
                     [] OTHER -> center[x]]

CompleteKittingOrder(o) ==
  /\ IsOpen(o) /\ InputsAreThere(o)
  /\ center' = Consumed(o)
  /\ order' = [order EXCEPT ![o].status = "Completed"]
  /\ tasks' = StagingClosed(o) \o (IF order[o].putaway THEN PutawayTasks(o) ELSE <<>>)
  /\ UNCHANGED store

CancelKittingOrder(o) ==
  /\ IsOpen(o)
  /\ tasks' = StagingClosed(o)
  /\ order' = [order EXCEPT ![o].status = "Cancelled"]
  /\ UNCHANGED <<store, center>>

-----------------------------------------------------------------------------
(* The tasks on the floor. *)

Confirmed(t, q) ==
  [t EXCEPT !.done = t.done + q, !.status = IF t.done + q = t.planned THEN "Confirmed" ELSE "Open"]

ConfirmStaging(i, q) ==
  /\ tasks[i].staging /\ q <= tasks[i].planned - tasks[i].done /\ q <= store[tasks[i].line]
  /\ tasks' = [tasks EXCEPT ![i] = Confirmed(@, q)]
  /\ store' = [store EXCEPT ![tasks[i].line] = @ - q]
  /\ center' = [center EXCEPT ![tasks[i].item] = @ + q]
  /\ UNCHANGED order

ConfirmPutaway(i, q) ==
  /\ ~tasks[i].staging /\ q <= tasks[i].planned - tasks[i].done /\ q <= center[tasks[i].item]
  /\ tasks' = [tasks EXCEPT ![i] = Confirmed(@, q)]
  /\ store' = [store EXCEPT ![tasks[i].line] = @ + q]
  /\ center' = [center EXCEPT ![tasks[i].item] = @ - q]
  /\ UNCHANGED order

(* The rest is not there: the task ends with what it moved. *)
Ended(t) == [t EXCEPT !.planned = t.done, !.status = "Confirmed"]
RaiseException(i) ==
  /\ tasks' = [tasks EXCEPT ![i] = Ended(@)]
  /\ UNCHANGED <<order, store, center>>

KittingOperation ==
  \E o \in Orders :
    \/ \E assemble, putaway \in BOOLEAN, q \in OrderQuantities : CreateKittingOrder(o, assemble, q, putaway)
    \/ StageKittingComponents(o)
    \/ CompleteKittingOrder(o)
    \/ CancelKittingOrder(o)
TaskOperation ==
  \E i \in OpenTasks :
    \/ \E q \in 1..(tasks[i].planned - tasks[i].done) : ConfirmStaging(i, q) \/ ConfirmPutaway(i, q)
    \/ RaiseException(i)

KittingNext ==
  /\ work < MaxWork /\ work' = work + 1
  /\ KittingOperation \/ TaskOperation

KittingSpec == KittingInit /\ [][KittingNext]_kittingVars

-----------------------------------------------------------------------------
(* Properties. *)

(* Nothing is lost or made up: for every component, the units in stock,     *)
(* loose or in kits, stay as many as at first, through partial staging,     *)
(* consumption by whichever order comes first, and taking kits apart.       *)
InStock(x) == center[x] + SumOf(store, LinesOf(x))
AtFirst(x) == SumOf(OpeningStock, LinesOf(x))
KitsBalance == \A x \in Components : InStock(x) + InStock(Kit) = AtFirst(x) + AtFirst(Kit)

(* No task goes on bringing material to the work center for an order that   *)
(* is completed or cancelled, and never more than its order asks for.       *)
StagedForAnOpenOrder ==
  \A o \in Orders : \A x \in Items :
    SumOf(Left, {i \in StagingOf(o) : tasks[i].item = x})
      <= (IF IsOpen(o) THEN order[o].quantity ELSE 0)
=============================================================================
