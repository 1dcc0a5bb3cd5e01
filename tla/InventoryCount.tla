---------------------------- MODULE InventoryCount ----------------------------
(***************************************************************************)
(* Physical inventory: counts generated, requested or created by hand,     *)
(* their snapshot of the book quantities with the bins blocked for         *)
(* removal, recording, posting in passes (tolerance, recount, approval)    *)
(* and the mirror of each pass to ERPNext, while picks and moves go on and *)
(* several counts run.  One product, one stock line per bin; a request is  *)
(* one step, for it locks the count document.                              *)
(***************************************************************************)
EXTENDS Integers, SequencesExt, FiniteSetsExt

CONSTANTS
  Bins,
  Quantities,          \* what may stand in a bin at first
  CountedQuantities,   \* what a counter may report
  Procedures,          \* procedure types the active Cycle Count Rule may have
  Minimum,             \* of the Replenishment Rules
  Rules,               \* Count Tolerance Groups: sets of "recount", "approval"
  Tolerance,           \* a variance up to this quantity is within tolerance
  ZeroCheck,           \* WMS Settings.zero_stock_check_on_pick
  None,
  MaxCounts, MaxWork   \* bounds on the counts and on the operations

ASSUME InventoryCountAssumption ==
  /\ Quantities \subseteq Nat /\ CountedQuantities \subseteq Nat /\ Tolerance \in Nat
  /\ Rules \subseteq SUBSET {"recount", "approval"}
  /\ Procedures \subseteq {"Low Stock", "Zero Stock", "Bin Check", "Annual"}
  /\ ZeroCheck \in BOOLEAN /\ None \notin Bins /\ IsFiniteSet(Bins)

VARIABLES
  procedure, rule,     \* the active Cycle Count Rule, the tolerance group
  counts,              \* WMS Physical Inventory Counts, in order of creation
  book, allocated,     \* [Bins -> Nat]: the stock balances
  picks,               \* [Bins -> Nat]: open Pick tasks, of one unit each
  move,                \* the open Internal Move, or None
  blocked,             \* bins with removal_blocked
  mirrored,            \* sum of the Stock Entries booked for counts
  work,
  \* History, of what users did although the code does not cope with it:
  disturbed,           \* bins somebody reached while they were counted
  recalled,            \* bins of cancelled counts that were counted again
  again,               \* bins a posted line of which was recorded once more
  overdrawn            \* bins a move took reserved units from

history == <<disturbed, recalled, again, overdrawn>>
vars == <<procedure, rule, counts, book, allocated, picks, move, blocked, mirrored, work, history>>
stock == <<book, allocated, picks, move>>

Everywhere == "Warehouse"
ScopeBins(count) == IF count.scope = Everywhere THEN Bins ELSE {count.scope}
NoRows == [b \in {} |-> 0]
DraftCount(scope) == [status |-> "Draft", scope |-> scope, rows |-> NoRows, blocks |-> {}]
Started(count) == count.status \in {"Counting", "Counted", "Under Review"}
RowBins(count) == DOMAIN count.rows
AnyRow(rows, statuses) == \E b \in DOMAIN rows : rows[b].status \in statuses
BeingCounted(b) == \E c \in DOMAIN counts : Started(counts[c]) /\ b \in RowBins(counts[c])

Init ==
  /\ procedure \in Procedures /\ rule \in Rules
  /\ counts = <<>>
  /\ book \in [Bins -> Quantities]
  /\ allocated = [b \in Bins |-> 0] /\ picks = [b \in Bins |-> 0]
  /\ move = None /\ blocked = {} /\ mirrored = 0 /\ work = 0
  /\ disturbed = {} /\ recalled = {} /\ again = {} /\ overdrawn = {}

-----------------------------------------------------------------------------
(* Where counts come from.  Every bin has a balance row.  A behaviour lies within one frequency window of *)
(* the rule, so any count of the same scope, cancelled ones too, covers it. *)

LowStockBins == {b \in Bins : book[b] < Minimum}
ZeroStockBins == {b \in Bins : book[b] = 0}
DueScopes ==
  CASE procedure = "Low Stock" -> LowStockBins
    [] procedure = "Zero Stock" -> ZeroStockBins
    [] procedure = "Bin Check" -> Bins
    [] procedure = "Annual" -> {Everywhere}
ScopeRecentlyCovered(scope) == \E c \in DOMAIN counts : counts[c].scope = scope
GenerateScheduledCounts ==
  /\ \E scopes \in {{s \in DueScopes : ~ScopeRecentlyCovered(s)}} :
       /\ scopes # {} /\ Len(counts) + Cardinality(scopes) <= MaxCounts
       /\ counts' = counts \o [i \in 1..Cardinality(scopes) |-> DraftCount(SetToSeq(scopes)[i])]
  /\ UNCHANGED <<stock, blocked, mirrored>>

(* An inventory controller creates a count on the desk. *)
CreateCount(scope) ==
  /\ Len(counts) < MaxCounts
  /\ counts' = Append(counts, DraftCount(scope))
  /\ UNCHANGED <<stock, blocked, mirrored>>

WithZeroStockCheck(b) ==
  IF \E c \in DOMAIN counts : counts[c].scope = b /\ (counts[c].status = "Draft" \/ Started(counts[c]))
  THEN counts ELSE Append(counts, DraftCount(b))

-----------------------------------------------------------------------------
(* Counting. *)

(* A line; atCount records what was on the books when it was counted. *)
OpenRow(b) == [book |-> book[b], counted |-> 0, atCount |-> 0, variance |-> 0,
               recounts |-> 0, status |-> "Open", ledger |-> 0]
FoundRow(b, q) == [OpenRow(b) EXCEPT !.book = 0, !.counted = q, !.variance = q, !.status = "Counted"]
CountedRow(row, b, q) ==
  [row EXCEPT !.counted = q, !.atCount = book[b], !.variance = q - row.book, !.status = "Counted"]
(* Mutant: the open tasks of the bins are not looked for. *)
NoTaskAt(b) == FALSE
OpenTaskAt(b) == picks[b] > 0 \/ (move # None /\ b \in {move.from, move.to})

(* A bin another count has blocked is counted too, but is not this one's to *)
(* release. *)
Snapshot(c) ==
  \E bins \in {{b \in ScopeBins(counts[c]) : book[b] > 0}} :
    /\ counts[c].status = "Draft" /\ bins # {}
    /\ \A b \in bins : ~OpenTaskAt(b)
    /\ counts' = [counts EXCEPT ![c] =
         [@ EXCEPT !.status = "Counting", !.blocks = bins \ blocked,
                   !.rows = [b \in bins |-> OpenRow(b)]]]
    /\ blocked' = blocked \cup bins
    /\ UNCHANGED <<stock, mirrored>>

AddFoundLine(c, b, q) ==
  /\ counts[c].status \in {"Counting", "Counted"}
  /\ q > 0 /\ book[b] = 0 /\ b \notin RowBins(counts[c])
  /\ counts' = [counts EXCEPT ![c].rows = [x \in DOMAIN @ \cup {b} |-> IF x = b THEN FoundRow(b, q) ELSE @[x]],
                              ![c].blocks = @ \cup ({b} \ blocked)]
  /\ blocked' = blocked \cup {b}
  /\ UNCHANGED <<stock, mirrored>>

(* Not looking at the line's status: a posted one is recorded again. *)
RecordCounts(c, b, q) ==
  /\ counts[c].status \in {"Counting", "Counted"}
  /\ \E rows \in {[counts[c].rows EXCEPT ![b] = CountedRow(@, b, q)]} :
       counts' = [counts EXCEPT ![c] =
         [@ EXCEPT !.rows = rows, !.status = IF AnyRow(rows, {"Open"}) THEN "Counting" ELSE "Counted"]]
  /\ UNCHANGED <<stock, blocked, mirrored>>

(* Mutant: the bins stay blocked. *)
StillBlocked(count) == blocked
Released(count) == blocked \ count.blocks
CancelCount(c) ==
  /\ counts[c].status \notin {"Posted", "Cancelled"}
  /\ blocked' = Released(counts[c])
  /\ counts' = [counts EXCEPT ![c].status = "Cancelled"]
  /\ UNCHANGED <<stock, mirrored>>

Reopened(rows) ==
  [b \in DOMAIN rows |->
     IF rows[b].status # "Pending Recount" THEN rows[b]
     ELSE [rows[b] EXCEPT !.recounts = @ + 1, !.counted = 0, !.atCount = 0, !.variance = 0, !.status = "Open"]]
(* Not looking at the count's status: a cancelled one is counted again. *)
RequestRecount(c) ==
  /\ AnyRow(counts[c].rows, {"Open", "Pending Recount"})
  /\ counts' = [counts EXCEPT ![c] = [@ EXCEPT !.status = "Counting", !.rows = Reopened(counts[c].rows)]]
  /\ UNCHANGED <<stock, blocked, mirrored>>

-----------------------------------------------------------------------------
(* Posting.  A line posts under its own ledger key: a second time posts     *)
(* nothing, but is mirrored. *)

Size(v) == IF v < 0 THEN -v ELSE v
WithinTolerance(row) == Size(row.variance) <= Tolerance
Outcome(row) ==
  CASE row.status \in {"Posted", "Pending Approval"} -> row.status
    [] OTHER -> IF row.variance = 0 \/ WithinTolerance(row) THEN "Posted"
                ELSE IF "recount" \in rule /\ row.recounts = 0 THEN "Pending Recount"
                ELSE IF "approval" \in rule THEN "Pending Approval" ELSE "Posted"

(* Mutant: a loss takes the units reserved for picks. *)
LossKeepsNothing(row, b) == TRUE
LossKeepsReservations(row, b) == row.variance >= 0 \/ book[b] + row.variance >= allocated[b]

PicStatus(after, status) ==
  LET statuses == {after[b] : b \in DOMAIN after} IN
  IF statuses \subseteq {"Posted"} THEN "Posted"
  ELSE IF statuses \cap {"Pending Recount", "Pending Approval"} # {} THEN "Under Review" ELSE status

(* The Stock Entry of a pass: the variances of the rows it posts. *)
Mirrored(rows, post) == mirrored + SumFunctionOnSet([b \in DOMAIN rows |-> rows[b].variance], post)

(* The rows of the bins in post are posted, the row of bin b ends as after[b]. *)
PostRows(c, post, after) ==
  LET rows == counts[c].rows
      fresh == {b \in post : rows[b].ledger = 0} IN
  /\ \A b \in post : LossKeepsReservations(rows[b], b)
  /\ \A b \in fresh : book[b] + rows[b].variance >= 0
  /\ book' = [b \in Bins |-> IF b \in fresh THEN book[b] + rows[b].variance ELSE book[b]]
  /\ mirrored' = Mirrored(rows, post)
  /\ \E status \in {PicStatus(after, counts[c].status)} :
       /\ counts' = [counts EXCEPT ![c] =
            [@ EXCEPT !.status = status,
                      !.rows = [b \in DOMAIN rows |->
                         [rows[b] EXCEPT !.status = after[b],
                                         !.ledger = IF b \in fresh THEN rows[b].variance ELSE rows[b].ledger]]]]
       /\ blocked' = IF status = "Posted" THEN Released(counts[c]) ELSE blocked
  /\ UNCHANGED <<allocated, picks, move>>

PostCount(c) ==
  LET rows == counts[c].rows IN
  /\ counts[c].status = "Counted"
  /\ \E after \in {[b \in DOMAIN rows |-> Outcome(rows[b])]} :
       PostRows(c, {b \in DOMAIN rows : after[b] = "Posted" /\ rows[b].status # "Posted" /\ rows[b].variance # 0},
                after)

ApproveVariance(c) ==
  LET rows == counts[c].rows IN
  /\ counts[c].status = "Under Review" /\ AnyRow(rows, {"Pending Approval"})
  /\ PostRows(c, {b \in DOMAIN rows : rows[b].status = "Pending Approval"},
              [b \in DOMAIN rows |-> IF rows[b].status = "Pending Approval" THEN "Posted" ELSE rows[b].status])

-----------------------------------------------------------------------------
(* The warehouse goes on.  Only new reservations look at removal_blocked. *)

Allocate(b) ==
  /\ b \notin blocked /\ book[b] > allocated[b]
  /\ allocated' = [allocated EXCEPT ![b] = @ + 1]
  /\ UNCHANGED <<counts, book, picks, move, blocked, mirrored>>
ReleasePick(b) ==
  /\ picks[b] < allocated[b]
  /\ picks' = [picks EXCEPT ![b] = @ + 1]
  /\ UNCHANGED <<counts, book, allocated, move, blocked, mirrored>>

ConfirmPick(b) ==
  /\ picks[b] > 0 /\ book[b] > 0
  /\ picks' = [picks EXCEPT ![b] = @ - 1]
  /\ allocated' = [allocated EXCEPT ![b] = @ - 1]
  /\ book' = [book EXCEPT ![b] = @ - 1]
  /\ counts' = IF ZeroCheck /\ book[b] = 1 /\ Len(counts) < MaxCounts THEN WithZeroStockCheck(b) ELSE counts
  /\ UNCHANGED <<move, blocked, mirrored>>

CreateAdhocMove(a, b) ==
  /\ move = None /\ a # b /\ book[a] > allocated[a]
  /\ move' = [from |-> a, to |-> b]
  /\ UNCHANGED <<counts, book, allocated, picks, blocked, mirrored>>

(* The posting only asks for the quantity in the bin, not for what is free. *)
ConfirmMove ==
  /\ move # None /\ book[move.from] > 0
  /\ book' = [book EXCEPT ![move.from] = @ - 1, ![move.to] = @ + 1]
  /\ move' = None
  /\ UNCHANGED <<counts, allocated, picks, blocked, mirrored>>

CountOperation ==
  \/ GenerateScheduledCounts
  \/ \E scope \in Bins \cup {Everywhere} : CreateCount(scope)
  \/ \E c \in DOMAIN counts :
       \/ Snapshot(c)
       \/ \E b \in Bins, q \in CountedQuantities : AddFoundLine(c, b, q)
       \/ \E b \in RowBins(counts[c]), q \in CountedQuantities : RecordCounts(c, b, q)
       \/ PostCount(c)
       \/ ApproveVariance(c)
       \/ RequestRecount(c)
       \/ CancelCount(c)
StockOperation ==
  \/ \E b \in Bins : Allocate(b) \/ ReleasePick(b) \/ ConfirmPick(b)
  \/ \E a, b \in Bins : CreateAdhocMove(a, b)
  \/ ConfirmMove

-----------------------------------------------------------------------------
(* History. *)

TaskArrives(b) == picks'[b] > picks[b] \/ (move' \notin {None, move} /\ b \in {move'.from, move'.to})
TakesUp(c, b) == b \in RowBins(counts'[c]) \ RowBins(counts[c])
(* A bin that is being counted gets a task or another count, or a line is   *)
(* found in a bin that has a task.                                          *)
Disturbs(b) ==
  \/ BeingCounted(b) /\ (TaskArrives(b) \/ \E c \in DOMAIN counts : TakesUp(c, b))
  \/ OpenTaskAt(b) /\ \E c \in DOMAIN counts : Started(counts[c]) /\ TakesUp(c, b)
Recalls(c) == counts[c].status = "Cancelled" /\ counts'[c].status # "Cancelled"
RecordsAgain(c, b) == counts[c].rows[b].status = "Posted" /\ counts'[c].rows[b].status # "Posted"
Overdraws(b) == move # None /\ move' = None /\ b = move.from /\ book[b] <= allocated[b]
Remember ==
  /\ disturbed' = disturbed \cup {b \in Bins : Disturbs(b)}
  /\ recalled' = recalled \cup {b \in Bins : \E c \in DOMAIN counts : b \in RowBins(counts[c]) /\ Recalls(c)}
  /\ again' = again \cup {b \in Bins : \E c \in DOMAIN counts : b \in RowBins(counts[c]) /\ RecordsAgain(c, b)}
  /\ overdrawn' = overdrawn \cup {b \in Bins : Overdraws(b)}

Next ==
  /\ work < MaxWork /\ work' = work + 1
  /\ UNCHANGED <<procedure, rule>>
  /\ CountOperation \/ StockOperation
  /\ Remember

Spec == Init /\ [][Next]_vars

-----------------------------------------------------------------------------
(* Properties. *)

(* A count and its lines; no quantity on the books is negative, and only     *)
(* bins are counted and blocked.                                            *)
RowStatus == {"Open", "Counted", "Posted", "Pending Recount", "Pending Approval"}
CountRow == [book : Int, counted : Int, atCount : Int, variance : Int,
             recounts : Int, status : RowStatus, ledger : Int]
CountStatus == {"Draft", "Counting", "Counted", "Under Review", "Posted", "Cancelled"}
TypeOK ==
  /\ \A c \in DOMAIN counts :
       /\ counts[c].status \in CountStatus /\ counts[c].scope \in Bins \cup {Everywhere}
       /\ RowBins(counts[c]) \subseteq Bins /\ counts[c].blocks \subseteq Bins
       /\ \A b \in RowBins(counts[c]) : counts[c].rows[b] \in CountRow
  /\ book \in [Bins -> Nat] /\ allocated \in [Bins -> Nat] /\ picks \in [Bins -> Nat]
  /\ move \in [from : Bins, to : Bins] \cup {None}
  /\ blocked \subseteq Bins

(* No loss posted by a count takes stock that is reserved for a delivery:   *)
(* in every bin at least the allocated quantity is on the books, whatever   *)
(* was counted, approved, picked or moved meanwhile, unless a move took     *)
(* reserved units from it.                                                  *)
ReservationsAreCovered ==
  \A b \in Bins : picks[b] <= allocated[b] /\ (b \notin overdrawn => allocated[b] <= book[b])

(* A posted line has corrected the book by what was missing, or too much,  *)
(* when its bin was counted: a unit that was picked, moved or posted by     *)
(* another count between the snapshot and the counting is not taken off the *)
(* books a second time as a loss.                                           *)
Corrects(row) == row.status = "Posted" => row.ledger = row.counted - row.atCount
CorrectsTheBook == \A c \in DOMAIN counts : \A b \in RowBins(counts[c]) : Corrects(counts[c].rows[b])

(* The count that blocked a bin keeps it blocked as long as it runs,        *)
(* whatever other counts of the bin begin and end meanwhile, unless a       *)
(* cancelled one was counted again; and a blocked bin is one that a running *)
(* count will release, so none is left behind that nothing is ever picked   *)
(* from again.                                                              *)
Holds(count, b) == Started(count) /\ b \in count.blocks
BlockedByItsCount ==
  \A b \in Bins :
    /\ b \in blocked => \E c \in DOMAIN counts : Holds(counts[c], b)
    /\ b \notin recalled /\ (\E c \in DOMAIN counts : Holds(counts[c], b)) => b \in blocked

(* What the Stock Entries for counts add up to is what the counts posted to *)
(* the ledger: a line that posts in a later pass is not mirrored twice.     *)
PostedBy(count) == SumFunction([b \in RowBins(count) |-> count.rows[b].ledger])
MirroredIsPosted == mirrored = SumFunction([c \in DOMAIN counts |-> PostedBy(counts[c])])

(* Wherever nobody reached a bin while it was counted, a posted line has    *)
(* corrected the book by what was missing, in whatever order counts are     *)
(* taken, posted in passes, counted again, approved and cancelled beside    *)
(* picks and moves; and ERPNext is told of each correction once, unless a   *)
(* posted line was recorded once more.                                      *)
CountsCorrectTheBook ==
  /\ TypeOK
  /\ \A c \in DOMAIN counts : \A b \in RowBins(counts[c]) \ (disturbed \cup recalled \cup again) :
       Corrects(counts[c].rows[b])
  /\ again = {} => MirroredIsPosted
=============================================================================
