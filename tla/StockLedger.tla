----------------------------- MODULE StockLedger ------------------------------
(***************************************************************************)
(* The stock of a warehouse: balance rows per handling unit, bin and stock *)
(* type, the ledger post_entries writes beside them, the documents that    *)
(* book on them, and the handling units that carry stock from bin to bin,  *)
(* nested in each other, without a ledger entry (relocate_hu_balances).    *)
(*                                                                         *)
(* A posting locks its rows and reads them under the lock: one action (the *)
(* database refuses to lock a row that changed since a free quantity was   *)
(* read from it).  A request about a handling unit reads units, tasks and  *)
(* row names from its snapshot and writes later: two actions.  One product *)
(* and one warehouse; a stock type stands for the whole identity a posting *)
(* change may alter.                                                       *)
(***************************************************************************)
EXTENDS Integers, Sequences, FiniteSetsExt

CONSTANTS
  Units,        \* handling unit numbers, 1..n; some are not in use
  Bins,
  InitialBin,   \* [subset of Units -> Bins]: the units in use at the start
  InitialStock, \* [subset of Rows -> quantity]: what is there at the start
  Types,        \* stock types (and owners)
  Loose,        \* stock outside any unit
  Documents,    \* loads, adjustments, posting changes, differences
  Clerks,       \* sessions that handle units
  Nothing,
  MaxPayload,   \* max_payload_weight of every unit
  MaxQuantity,  \* bound: quantity of a document
  MaxWork       \* bound: requests about units, reservations, moves, rebuilds

\* A balance row is named by its dimensions (_balance_name).
Rows == (Units \cup {Loose}) \X Bins \X Types
Holder(r) == r[1]
BinOf(r) == r[2]
TypeOf(r) == r[3]

\* At the start the stock of a unit is in the bin the unit is in.
ASSUME StockAssumption ==
  /\ Units = 1..Cardinality(Units) /\ IsFiniteSet(Bins) /\ IsFiniteSet(Types)
  /\ Loose \notin Units /\ Nothing \notin Units \cup {Loose}
  /\ DOMAIN InitialBin \subseteq Units /\ InitialBin \in [DOMAIN InitialBin -> Bins]
  /\ DOMAIN InitialStock \subseteq Rows /\ InitialStock \in [DOMAIN InitialStock -> Nat]
  /\ \A r \in DOMAIN InitialStock :
       Holder(r) # Loose => Holder(r) \in DOMAIN InitialBin /\ BinOf(r) = InitialBin[Holder(r)]
  /\ MaxPayload \in Nat /\ MaxQuantity \in Nat /\ MaxWork \in Nat

VARIABLES
  balance,   \* [Rows -> [quantity, allocated]]; both 0: no such row
  ledger,    \* [Rows -> Int]: sum of the row's WMS Stock Ledger Entries
  unit,      \* [Units -> Handling Unit]
  pool,      \* WMS HU Number Pool, oldest first
  counter,   \* current_number of the range
  document,  \* [Documents -> its posting]
  task,      \* open move tasks
  request,   \* [Clerks -> what the session's request has read]
  work,
  rebuilt    \* history: an administrator rebuilt the balances

vars == <<balance, ledger, unit, pool, counter, document, task, request, work, rebuilt>>

NoUnit == [status |-> "None", bin |-> Nothing, parent |-> Nothing, content |-> 0]
NoRow == [quantity |-> 0, allocated |-> 0]
NoDocument == [kind |-> "None", status |-> "Draft", from |-> Nothing,
               to |-> Nothing, quantity |-> 0]

RowsOf(u) == {u} \X Bins \X Types
SumOver(f, S) == SumFunctionOnSet(f, S)
Quantity(b) == [r \in Rows |-> b[r].quantity]
Allocated(b) == [r \in Rows |-> b[r].allocated]
OpeningStock == [r \in Rows |-> IF r \in DOMAIN InitialStock THEN InitialStock[r] ELSE 0]

Init ==
  /\ ledger = OpeningStock
  /\ balance = [r \in Rows |-> [quantity |-> ledger[r], allocated |-> 0]]
  /\ unit = [u \in Units |->
       IF u \in DOMAIN InitialBin
       THEN [status |-> "Created", bin |-> InitialBin[u], parent |-> Nothing,
             content |-> SumOver(OpeningStock, RowsOf(u))]
       ELSE NoUnit]
  /\ pool = <<>>
  /\ counter = 0
  /\ document = [d \in Documents |-> NoDocument]
  /\ task = {}
  /\ request = [c \in Clerks |-> Nothing]
  /\ work = 0
  /\ rebuilt = FALSE

Quantities == 1..MaxQuantity
Exists(u) == u \in Units /\ unit[u].status # "None"
Free(r) == balance[r].quantity - balance[r].allocated
Works == work < MaxWork /\ work' = work + 1

-----------------------------------------------------------------------------
(* post_entries: every row the entries name is locked, then each entry     *)
(* changes its row and is written to the ledger; the units concerned are   *)
(* weighed again (a product weighs 1).                                     *)

Booked(entry) ==
  [r \in Rows |->
     [balance[r] EXCEPT !.quantity =
        @ + (IF r \in DOMAIN entry THEN entry[r] ELSE 0)]]

Entered(entry) ==
  [r \in Rows |-> ledger[r] + (IF r \in DOMAIN entry THEN entry[r] ELSE 0)]

\* The unit a row names is there, and can carry what is booked on it.
Accepts(entry, us) ==
  /\ \A r \in DOMAIN entry : Booked(entry)[r].quantity >= 0
  /\ \A u \in {Holder(r) : r \in DOMAIN entry} \ {Loose} :
        /\ us[u].status # "None"
        /\ SumOver(Quantity(Booked(entry)), RowsOf(u)) <= MaxPayload

Measured(us, entry) ==
  [u \in Units |->
     IF \E r \in DOMAIN entry : Holder(r) = u
     THEN [us[u] EXCEPT !.content = SumOver(Quantity(Booked(entry)), RowsOf(u))]
     ELSE us[u]]

PostEntries(entry, us) ==
  /\ Accepts(entry, us)
  /\ balance' = Booked(entry)
  /\ ledger' = Entered(entry)
  /\ unit' = Measured(us, entry)

One(r, q) == [x \in {r} |-> q]
Transfer(from, to, q) == [x \in {from, to} |-> IF x = from THEN -q ELSE q]

-----------------------------------------------------------------------------
(* Handling units.                                                         *)

Created(b, p) == [status |-> "Created", bin |-> b, parent |-> p, content |-> 0]

\* get_or_create_handling_unit: the units after a receipt into `h` at `b`.
Receivable ==
  {Loose} \cup {u \in Units : Exists(u) => unit[u].status # "Blocked" /\ unit[u].content = 0}
WithUnit(h, b) ==
  IF h = Loose \/ Exists(h) THEN unit ELSE [unit EXCEPT ![h] = Created(b, Nothing)]

\* next_number: a recycled number first, else the counter past used numbers.
NextNumber(n) ==
  IF pool # <<>>
  THEN n = Head(pool) /\ pool' = Tail(pool) /\ UNCHANGED counter
  ELSE /\ n = Min({k \in Units : k > counter /\ ~Exists(k)} \cup {Cardinality(Units) + 1})
       /\ n \in Units
       /\ counter' = n
       /\ UNCHANGED pool

CreateUnit(u, internal, b, p) ==
  /\ Works
  /\ IF internal THEN NextNumber(u) ELSE UNCHANGED <<pool, counter>>
  /\ ~Exists(u)
  /\ p # Nothing => Exists(p) /\ unit[p].bin = b
  /\ unit' = [unit EXCEPT ![u] = Created(b, p)]
  /\ UNCHANGED <<balance, ledger, document, task, request>>

SetBlocked(u) ==
  /\ Works
  /\ Exists(u)
  /\ unit' = [unit EXCEPT ![u].status = IF @ = "Blocked" THEN "Open" ELSE "Blocked"]
  /\ UNCHANGED <<balance, ledger, pool, counter, document, task, request>>

\* Everything nested inside u, at any depth.
Below(us, u) ==
  LET level[n \in Nat] ==
        IF n = 0 THEN {}
        ELSE {c \in Units : us[c].parent \in level[n - 1] \cup {u}}
  IN level[Cardinality(Units)]

\* relocate_hu_balances for rows named in `rows`: each is re-read under its
\* lock, added to the row at the new bin and deleted.
Incoming(rows, r) == {x \in rows : Holder(x) = Holder(r) /\ TypeOf(x) = TypeOf(r)}

\* Mutant: the row at the new bin is overwritten instead of added to.
Overwritten(rows, b) ==
  [r \in Rows |->
     IF r \in rows THEN NoRow
     ELSE IF BinOf(r) = b /\ Incoming(rows, r) # {}
          THEN balance[CHOOSE x \in Incoming(rows, r) : TRUE]
          ELSE balance[r]]

Relocated(rows, b) ==
  [r \in Rows |->
     IF r \in rows THEN NoRow
     ELSE IF BinOf(r) = b
          THEN [quantity |-> balance[r].quantity
                    + SumOver(Quantity(balance), Incoming(rows, r)),
                allocated |-> balance[r].allocated
                    + SumOver(Allocated(balance), Incoming(rows, r))]
          ELSE balance[r]]

\* A request about unit u reads the units, the tasks and the rows.
BeginRequest(c, u) ==
  /\ Works
  /\ request[c] = Nothing
  /\ Exists(u)
  /\ request' = [request EXCEPT ![c] =
       [unit |-> u, units |-> unit, tasks |-> task, balance |-> balance]]
  /\ UNCHANGED <<balance, ledger, unit, pool, counter, document, task>>

\* hu.save refuses a row changed since it was read, and the database refuses
\* to lock any other such row.
Unchanged(c, u) == unit[u] = request[c].units[u]

MayLock(c, us, rows) ==
  /\ \A u \in us : Unchanged(c, u)
  /\ \A r \in rows : balance[r] = request[c].balance[r]

\* u goes to bin b under parent p, with what the snapshot shows inside it.
Carry(c, u, b, p) ==
  LET seen == request[c]
      moved == seen.units[u].bin # b
      inside == IF moved THEN Below(seen.units, u) ELSE {}
      rows == {r \in Rows : /\ moved /\ Holder(r) \in inside \cup {u}
                            /\ BinOf(r) # b /\ seen.balance[r] # NoRow}
  IN /\ u \notin inside
     /\ MayLock(c, inside, rows \cup {r \in Rows : BinOf(r) = b /\ Incoming(rows, r) # {}})
     /\ unit' = [x \in Units |->
          IF x = u THEN [unit[x] EXCEPT !.bin = b, !.parent = p]
          ELSE IF x \in inside /\ Exists(x) THEN [unit[x] EXCEPT !.bin = b]
          ELSE unit[x]]
     /\ balance' = Relocated(rows, b)

Nest(c, p) ==
  LET u == request[c].unit IN
  /\ p # u
  /\ Unchanged(c, u)
  /\ request[c].units[u].parent = Nothing
  /\ request[c].units[p].status # "None"
  /\ p \notin Below(request[c].units, u)
  /\ Carry(c, u, request[c].units[p].bin, p)
  /\ UNCHANGED <<pool>>

Unnest(c) ==
  LET u == request[c].unit IN
  /\ Unchanged(c, u)
  /\ unit[u].parent # Nothing
  /\ unit' = [unit EXCEPT ![u].parent = Nothing]
  /\ UNCHANGED <<balance, pool>>

RelocateUnit(c, b) ==
  LET u == request[c].unit IN
  /\ Unchanged(c, u)
  /\ unit[u].bin # b \/ unit[u].parent # Nothing
  /\ unit[u].bin = b \/ \A t \in request[c].tasks : Holder(t.from) # u
  /\ Carry(c, u, b, Nothing)
  /\ UNCHANGED <<pool>>

\* The record is deleted without another look, then its number is freed.
Recycle(c) ==
  LET u == request[c].unit IN
  /\ request[c].units[u].content = 0
  /\ request[c].units[u].parent = Nothing
  /\ \A x \in Units : request[c].units[x].parent # u
  /\ Exists(u) /\ MayLock(c, {u}, {})
  /\ unit' = [unit EXCEPT ![u] = NoUnit]
  /\ pool' = Append(pool, u)
  /\ UNCHANGED balance

Refuse(c) == UNCHANGED <<balance, unit, pool>>

HandleUnit(c) ==
  /\ request[c] # Nothing
  /\ \/ \E p \in Units : Nest(c, p)
     \/ Unnest(c)
     \/ \E b \in Bins : RelocateUnit(c, b)
     \/ Recycle(c)
     \/ Refuse(c)
  /\ request' = [request EXCEPT ![c] = Nothing]
  /\ UNCHANGED <<ledger, counter, document, task, work>>

-----------------------------------------------------------------------------
(* Documents.  Each is locked for update; only a draft is posted, only a   *)
(* posted one is cancelled.                                                *)

Posted(d, kind, from, to, q) ==
  /\ document[d].status = "Draft"
  /\ document' = [document EXCEPT ![d] =
       [kind |-> kind, status |-> "Posted", from |-> from, to |-> to, quantity |-> q]]
  /\ UNCHANGED <<pool, counter, task, request, work>>

\* Opening stock and unplanned receipts.
PostReceipt(d, r, q) ==
  /\ Holder(r) \in Receivable
  /\ PostEntries(One(r, q), WithUnit(Holder(r), BinOf(r)))
  /\ Posted(d, "Receipt", Nothing, r, q)

PostScrap(d, r, q) ==
  /\ Free(r) >= q
  /\ PostEntries(One(r, -q), unit)
  /\ Posted(d, "Scrap", r, Nothing, q)

PostChange(d, r, t, q) ==
  LET to == <<Holder(r), BinOf(r), t>> IN
  /\ to # r
  /\ Free(r) >= q
  /\ PostEntries(Transfer(r, to, q), unit)
  /\ Posted(d, "Change", r, to, q)

\* What is found beyond a task's plan is booked on the difference bin.
RecordOver(d, r, q) ==
  /\ Holder(r) = Loose
  /\ PostEntries(One(r, q), unit)
  /\ Posted(d, "Over", Nothing, r, q)

ClearOver(d, to) ==
  LET x == document[d] IN
  /\ x.kind = "Over" /\ x.status = "Posted"
  /\ to # x.to /\ TypeOf(to) = TypeOf(x.to)
  /\ Holder(to) \in {Loose} \cup {u \in Units : Exists(u)}
  /\ PostEntries(Transfer(x.to, to, x.quantity), unit)
  /\ document' = [document EXCEPT ![d] = [NoDocument EXCEPT !.status = "Cleared"]]
  /\ UNCHANGED <<pool, counter, task, request, work>>

\* What a document booked, as one set of entries.
EntriesOf(x) ==
  CASE x.kind \in {"Receipt", "Over"} -> One(x.to, x.quantity)
    [] x.kind = "Scrap" -> One(x.from, -x.quantity)
    [] x.kind = "Change" -> Transfer(x.from, x.to, x.quantity)
    [] OTHER -> [r \in {} |-> 0]

Opposite(entry) == [r \in DOMAIN entry |-> -entry[r]]

\* The opposite postings, at the bin the document names.
CancelDocument(d) ==
  LET x == document[d] IN
  /\ x.kind \in {"Receipt", "Scrap", "Change"} /\ x.status = "Posted"
  /\ PostEntries(Opposite(EntriesOf(x)), unit)
  /\ document' = [document EXCEPT ![d] = [NoDocument EXCEPT !.status = "Cancelled"]]
  /\ UNCHANGED <<pool, counter, task, request, work>>

\* Allocation reserves a row (OutboundPicking); release_allocation gives back.
Reserve(r) ==
  /\ Works
  /\ Free(r) > 0
  /\ balance' = [balance EXCEPT ![r].allocated = @ + 1]
  /\ UNCHANGED <<ledger, unit, pool, counter, document, task, request>>

ReleaseAllocation(r) ==
  /\ Works
  /\ balance[r].allocated > 0
  /\ balance' = [balance EXCEPT ![r].allocated = @ - 1]
  /\ UNCHANGED <<ledger, unit, pool, counter, document, task, request>>

-----------------------------------------------------------------------------
(* Move tasks.  `into` is the destination unit, Loose for "unpack", or      *)
(* Nothing: the operator has named none.                                   *)

MoveTask(r, b, into, q) == [from |-> r, bin |-> b, into |-> into, quantity |-> q]

Plans(ts) ==
  /\ Works
  /\ task' = task \cup ts
  /\ UNCHANGED <<balance, ledger, unit, pool, counter, document, request>>

\* The ad hoc worklists: a unit without open tasks; a line of a unit takes all
\* the row holds, a stock line what is free of it.
AdhocMove(r, b, into, q) ==
  /\ q = balance[r].quantity \/ q <= Free(r)
  /\ Holder(r) # Loose /\ b # BinOf(r)
  /\ \A t \in task : Holder(t.from) # Holder(r)
  /\ Plans({MoveTask(r, b, into, q)})

\* Part of a unit goes to another unit or, loose, to a bin.
Deconsolidate(r, b, into, q) ==
  /\ Exists(Holder(r)) /\ BinOf(r) = unit[Holder(r)].bin
  /\ q <= SumOver(Quantity(balance), {x \in RowsOf(Holder(r)) : TypeOf(x) = TypeOf(r)})
  /\ b # BinOf(r) /\ into # Nothing
  /\ Plans({MoveTask(r, b, into, q)})

\* close_movement: the unit goes to its next bin, a task for each of its rows.
CloseMovement(u, b) ==
  LET rows == {r \in RowsOf(u) : balance[r].quantity > 0}
      here(r) == <<u, unit[u].bin, TypeOf(r)>>
  IN
  /\ Exists(u) /\ unit[u].bin # b /\ rows # {}
  /\ Plans({MoveTask(here(r), b, Nothing, balance[r].quantity) : r \in rows})

\* Mutant: the part of a unit's stock that moves stays in the unit.
KeepsItsUnit(t, u) == u = Holder(t.from)

\* The unit the stock goes to: the whole content moves with its unit, a part
\* gets a unit created for it (_resolve_partial_hu_move).
GoesTo(t, u) ==
  IF t.into \notin {Nothing, Holder(t.from)} THEN u = t.into
  ELSE IF SumOver(Quantity(balance), {r \in RowsOf(Holder(t.from)) :
                                        BinOf(r) = BinOf(t.from)}) <= t.quantity
       THEN u = Holder(t.from)
       ELSE u \in Units /\ ~Exists(u)

\* _move_hu_and_descendants: the records follow, the rows of nested units do not.
WithUnitAt(us, u, b) ==
  IF u = Loose THEN us
  ELSE [x \in Units |->
          IF x = u
          THEN IF us[x].bin = b /\ us[x].parent = Nothing THEN us[x]
               ELSE [us[x] EXCEPT !.bin = b, !.parent = Nothing]
          ELSE IF x \in Below(us, u) /\ us[u].bin # b
               THEN [us[x] EXCEPT !.bin = b] ELSE us[x]]

Moved(t, u) ==
  LET made == IF u # Loose /\ ~Exists(u)
              THEN [unit EXCEPT ![u] = Created(t.bin, Nothing)] ELSE unit
  IN /\ GoesTo(t, u)
     /\ u # Holder(t.from) => \A r \in RowsOf(u) : BinOf(r) # t.bin => balance[r].quantity = 0
     /\ u = Loose \/ u \notin Below(made, u)
     /\ PostEntries(Transfer(t.from, <<u, t.bin, TypeOf(t.from)>>, t.quantity),
                    WithUnitAt(made, u, t.bin))
     /\ UNCHANGED <<pool, counter, document, request>>

ConfirmMove(t, u) ==
  /\ Moved(t, u)
  /\ task' = task \ {t}
  /\ UNCHANGED work

\* create_and_confirm_move: an operator moves stock at once, reserved or not.
MoveAtOnce(r, b, into, q, u) ==
  /\ Works
  /\ Holder(r) # Loose /\ b # BinOf(r)
  /\ Moved(MoveTask(r, b, into, q), u)
  /\ UNCHANGED task

CancelMove(t) ==
  /\ task' = task \ {t}
  /\ UNCHANGED <<balance, ledger, unit, pool, counter, document, request, work>>

\* rebuild_balances: the rows become what the ledger says, reservations stay.
RebuildBalances ==
  /\ Works
  /\ balance' = [r \in Rows |-> [quantity |-> ledger[r], allocated |-> balance[r].allocated]]
  /\ UNCHANGED <<ledger, unit, pool, counter, document, task, request>>

-----------------------------------------------------------------------------
HandlingUnits ==
  \/ \E u \in Units, b \in Bins, p \in Units \cup {Nothing}, i \in BOOLEAN :
        CreateUnit(u, i, b, p)
  \/ \E u \in Units : SetBlocked(u)
  \/ \E c \in Clerks : HandleUnit(c) \/ \E u \in Units : BeginRequest(c, u)

Postings ==
  \E d \in Documents :
    \/ \E r \in Rows, q \in Quantities :
          \/ PostReceipt(d, r, q)
          \/ PostScrap(d, r, q)
          \/ RecordOver(d, r, q)
          \/ \E t \in Types : PostChange(d, r, t, q)
    \/ \E r \in Rows : ClearOver(d, r)
    \/ CancelDocument(d)

Destinations == {Loose, Nothing} \cup {u \in Units : Exists(u)}
Moves ==
  \/ \E r \in Rows, b \in Bins, q \in 1..MaxPayload, into \in Destinations :
        \/ AdhocMove(r, b, into, q)
        \/ Deconsolidate(r, b, into, q)
        \/ \E u \in Units \cup {Loose} : MoveAtOnce(r, b, into, q, u)
  \/ \E u \in Units, b \in Bins : CloseMovement(u, b)
  \/ \E t \in task : CancelMove(t) \/ \E u \in Units \cup {Loose} : ConfirmMove(t, u)

Operations ==
  \/ HandlingUnits
  \/ Postings
  \/ Moves
  \/ \E r \in Rows : Reserve(r) \/ ReleaseAllocation(r)

Next ==
  \/ Operations /\ UNCHANGED rebuilt
  \/ RebuildBalances /\ rebuilt' = TRUE

Spec == Init /\ [][Next]_vars

-----------------------------------------------------------------------------
\* No row goes below zero, and units, tasks and numbers stay what they are.
TypeOK ==
  /\ \A r \in Rows : balance[r].quantity \in Nat /\ balance[r].allocated \in Nat
  /\ \A u \in Units : Exists(u) => unit[u].bin \in Bins /\ unit[u].parent \in Units \cup {Nothing}
  /\ \A t \in task : t.from \in Rows /\ t.bin \in Bins /\ t.quantity > 0
  /\ \A i \in DOMAIN pool : pool[i] \in Units

\* Balances are a projection of the ledger: rebuilding them changes nothing
\* ("balances are a derived, rebuildable projection of it", stock.py:245-246).
BalancesAreProjection == \A r \in Rows : balance[r].quantity = ledger[r]

\* Whatever is received, nested, split and carried around, the stock of one
\* unit stays in one bin (task.py:732-735), unless something was booked on a
\* bin named earlier or by hand: a document cancelled, a difference cleared.
OneBinPerUnit ==
  \/ \E d \in Documents : document[d].status \in {"Cancelled", "Cleared"}
  \/ \A r, s \in Rows :
        /\ Holder(r) = Holder(s) /\ Holder(r) # Loose
        /\ balance[r].quantity > 0 /\ balance[s].quantity > 0
        => BinOf(r) = BinOf(s)

\* What a unit's record says it carries (weight, stock_status) is what is
\* booked on it, wherever it was carried: a unit is never recycled or received
\* into while it holds stock.
MeasuredIsBooked ==
  \A u \in Units :
    SumOver(Quantity(balance), RowsOf(u)) = IF Exists(u) THEN unit[u].content ELSE 0

\* A unit carries what its record says, also after a rebuild; and as long as no
\* balance is rebuilt, no balance is negative and a unit is in one bin.
UnitsHoldTheirStock == MeasuredIsBooked /\ (rebuilt \/ (TypeOK /\ OneBinPerUnit))

\* The warehouse keeps its accounts: whatever units are nested, carried and
\* split, a holder has of a stock type what the ledger says, nothing but a
\* posting changes it, and no container move or stale read changes or loses a
\* reservation (stock.py:245).
Accounts == (Units \cup {Loose}) \X Types
RowsOn(a) == {a[1]} \X Bins \X {a[2]}
PerAccount(f) == [a \in Accounts |-> SumOver(f, RowsOn(a))]
Abstract == INSTANCE StockAccount WITH
  Opening <- PerAccount(OpeningStock),
  held <- PerAccount(Quantity(balance)),
  booked <- PerAccount(ledger),
  reserved <- PerAccount(Allocated(balance))
KeepsAccounts == Abstract!Spec
=============================================================================
