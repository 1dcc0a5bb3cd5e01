------------------------- MODULE InventoryCountProofs -------------------------
(***************************************************************************)
(* Theorems about InventoryCount, for any bins, stock, procedures, count   *)
(* tolerance groups and number of counts.                                  *)
(***************************************************************************)
EXTENDS InventoryCount, SequenceTheorems, Sums

-----------------------------------------------------------------------------
(* Counts as a set, for the sequence of them. *)
CountRows == UNION {[B -> CountRow] : B \in SUBSET Bins}
Count == [status : CountStatus, scope : Bins \cup {Everywhere}, rows : CountRows, blocks : SUBSET Bins]

LEMMA RowsOfBins ==
  ASSUME NEW f
  PROVE  f \in CountRows <=> DOMAIN f \subseteq Bins /\ f \in [DOMAIN f -> CountRow]
<1>1. ASSUME f \in CountRows PROVE DOMAIN f \subseteq Bins /\ f \in [DOMAIN f -> CountRow]
  <2>1. f \in UNION {[B -> CountRow] : B \in SUBSET Bins}
    BY <1>1 DEF CountRows
  <2>2. PICK T \in {[B -> CountRow] : B \in SUBSET Bins} : f \in T
    BY <2>1, Zenon
  <2>3. PICK B \in SUBSET Bins : T = [B -> CountRow]
    BY <2>2, Zenon
  <2>4. f \in [B -> CountRow] /\ DOMAIN f = B
    BY <2>2, <2>3, Zenon
  <2>5. QED
    BY <2>3, <2>4, Zenon
<1>2. ASSUME DOMAIN f \subseteq Bins, f \in [DOMAIN f -> CountRow] PROVE f \in CountRows
  BY <1>2, Zenon DEF CountRows
<1>3. QED
  BY <1>1, <1>2, Zenon

\* The fields of a count, and what replaces them.
LEMMA CountFields ==
  ASSUME NEW x \in Count
  PROVE  /\ x.status \in CountStatus /\ x.scope \in Bins \cup {Everywhere}
         /\ x.blocks \subseteq Bins /\ x.rows \in CountRows
         /\ RowBins(x) \subseteq Bins
         /\ \A b \in RowBins(x) : x.rows[b] \in CountRow
<1>1. x.status \in CountStatus /\ x.scope \in Bins \cup {Everywhere} /\ x.blocks \subseteq Bins /\ x.rows \in CountRows
  BY Zenon DEF Count
<1>2. DOMAIN x.rows \subseteq Bins /\ x.rows \in [DOMAIN x.rows -> CountRow]
  BY <1>1, RowsOfBins, Zenon
<1>3. QED
  BY <1>1, <1>2, Zenon DEF RowBins

LEMMA CountUpdates ==
  ASSUME NEW x \in Count, NEW st \in CountStatus, NEW rows \in CountRows, NEW blocks \in SUBSET Bins
  PROVE  /\ [x EXCEPT !.status = st] \in Count
         /\ [x EXCEPT !.status = st, !.rows = rows] \in Count
         /\ [x EXCEPT !.rows = rows, !.blocks = blocks] \in Count
         /\ [x EXCEPT !.status = st, !.blocks = blocks, !.rows = rows] \in Count
BY DEF Count

LEMMA DraftIsCount ==
  ASSUME NEW scope \in Bins \cup {Everywhere}
  PROVE  /\ DraftCount(scope) \in Count /\ DraftCount(scope).status = "Draft"
         /\ RowBins(DraftCount(scope)) = {} /\ DraftCount(scope).blocks = {}
<1>1. DOMAIN NoRows = {} /\ NoRows \in [{} -> CountRow]
  BY DEF NoRows
<1>2. NoRows \in CountRows
  BY <1>1, RowsOfBins
<1>3. QED
  BY <1>1, <1>2 DEF DraftCount, Count, CountStatus, RowBins

-----------------------------------------------------------------------------
(* The sequence of counts. *)
LEMMA CountsUpdates ==
  ASSUME NEW cs \in Seq(Count)
  PROVE  /\ DOMAIN cs = 1..Len(cs) /\ Len(cs) \in Nat
         /\ \A c \in DOMAIN cs : cs[c] \in Count
         /\ \A c \in DOMAIN cs, x \in Count :
              /\ [cs EXCEPT ![c] = x] \in Seq(Count)
              /\ DOMAIN [cs EXCEPT ![c] = x] = DOMAIN cs
<1>1. DOMAIN cs = 1..Len(cs) /\ Len(cs) \in Nat
  BY LenProperties
<1>2. \A c \in DOMAIN cs : cs[c] \in Count
  BY <1>1, ElementOfSeq
<1>3. \A c \in DOMAIN cs, x \in Count : [cs EXCEPT ![c] = x] \in Seq(Count)
  BY <1>1, ExceptSeq
<1>4. QED
  BY <1>1, <1>2, <1>3

(* What the stock needs to keep its types. *)
StockType ==
  /\ book \in [Bins -> Nat] /\ allocated \in [Bins -> Nat] /\ picks \in [Bins -> Nat]
  /\ move \in [from : Bins, to : Bins] \cup {None}
  /\ \A b \in Bins : picks[b] <= allocated[b]

(* Drafts have no lines, and a posted count has only posted lines. *)
AllPosted(x) == \A b \in RowBins(x) : x.rows[b].status = "Posted"
CountsSound ==
  \A c \in DOMAIN counts :
    /\ counts[c].status = "Draft" => RowBins(counts[c]) = {} /\ counts[c].blocks = {}
    /\ counts[c].status = "Posted" => AllPosted(counts[c])

TypeInvariant ==
  /\ procedure \in Procedures /\ counts \in Seq(Count) /\ StockType /\ blocked \subseteq Bins
  /\ CountsSound

LEMMA TypeInvariantImpliesTypeOK == TypeInvariant => TypeOK
<1> SUFFICES ASSUME TypeInvariant PROVE TypeOK
  OBVIOUS
<1>1. \A c \in DOMAIN counts : counts[c] \in Count
  BY CountsUpdates DEF TypeInvariant
<1>2. QED
  BY <1>1, CountFields, Zenon DEF TypeInvariant, StockType, TypeOK

-----------------------------------------------------------------------------
(* What a step does to the counts.  Drafts are added; one count gets the     *)
(* bins of B as well, which are blocked; or one count ends and gives its     *)
(* bins back.                                                                *)
AddsDrafts ==
  /\ counts' \in Seq(Count) /\ DOMAIN counts \subseteq DOMAIN counts'
  /\ \A c \in DOMAIN counts : counts'[c] = counts[c]
  /\ \A c \in DOMAIN counts' \ DOMAIN counts :
       counts'[c].status = "Draft" /\ RowBins(counts'[c]) = {} /\ counts'[c].blocks = {}
  /\ blocked' = blocked

Grows(c, x, B) ==
  /\ c \in DOMAIN counts /\ x \in Count /\ counts' = [counts EXCEPT ![c] = x]
  /\ counts[c].status \in {"Draft", "Cancelled"} \/ Started(counts[c])
  /\ Started(x) /\ RowBins(x) = RowBins(counts[c]) \cup B
  /\ x.blocks = counts[c].blocks \cup (B \ blocked)
  /\ B \subseteq Bins /\ blocked' = blocked \cup B

Ends(c, x) ==
  /\ c \in DOMAIN counts /\ x \in Count /\ counts' = [counts EXCEPT ![c] = x]
  /\ counts[c].status = "Draft" \/ Started(counts[c])
  /\ x.status \in {"Posted", "Cancelled"} /\ RowBins(x) = RowBins(counts[c])
  /\ x.blocks = counts[c].blocks
  /\ x.status = "Posted" => AllPosted(x)
  /\ blocked' = blocked \ counts[c].blocks

CountsStep ==
  \/ AddsDrafts
  \/ \E c, x, B : Grows(c, x, B)
  \/ \E c, x : Ends(c, x)

LEMMA CountsStepType ==
  ASSUME TypeInvariant, CountsStep
  PROVE  counts' \in Seq(Count) /\ blocked' \subseteq Bins /\ CountsSound'
<1> USE DEF TypeInvariant
<1>1. CASE AddsDrafts
  <2>1. DOMAIN counts' = DOMAIN counts \cup (DOMAIN counts' \ DOMAIN counts)
    BY <1>1, Zenon DEF AddsDrafts
  <2>2. \A c \in DOMAIN counts : counts'[c] = counts[c]
    BY <1>1, Zenon DEF AddsDrafts
  <2>3. \A c \in DOMAIN counts' \ DOMAIN counts :
          counts'[c].status = "Draft" /\ RowBins(counts'[c]) = {} /\ counts'[c].blocks = {}
    BY <1>1, Zenon DEF AddsDrafts
  <2>4. CountsSound'
    BY <2>1, <2>2, <2>3 DEF CountsSound, AllPosted, RowBins
  <2>5. QED
    BY <1>1, <2>4 DEF AddsDrafts
<1>2. ASSUME NEW c, NEW x, c \in DOMAIN counts, x \in Count, counts' = [counts EXCEPT ![c] = x],
             x.status # "Draft", x.status = "Posted" => AllPosted(x)
      PROVE  counts' \in Seq(Count) /\ CountsSound'
  <2>1. counts' \in Seq(Count) /\ DOMAIN counts' = DOMAIN counts
    BY <1>2, CountsUpdates
  <2>2. counts'[c] = x /\ \A d \in DOMAIN counts \ {c} : counts'[d] = counts[d]
    BY <1>2, CountsUpdates
  <2>3. CountsSound'
    <3>1. \A d \in DOMAIN counts \ {c} :
            /\ counts'[d].status = "Draft" => RowBins(counts'[d]) = {} /\ counts'[d].blocks = {}
            /\ counts'[d].status = "Posted" => AllPosted(counts'[d])
      BY <2>2, Zenon DEF CountsSound
    <3>2. /\ counts'[c].status # "Draft"
          /\ counts'[c].status = "Posted" => AllPosted(counts'[c])
      BY <1>2, <2>2, Zenon
    <3>3. QED
      BY <2>1, <3>1, <3>2, Zenon DEF CountsSound, AllPosted, RowBins
  <2>4. QED
    BY <2>1, <2>3
<1>3. CASE \E c, x, B : Grows(c, x, B)
  <2>1. PICK c, x, B : Grows(c, x, B)
    BY <1>3
  <2>2. x.status # "Draft" /\ x.status # "Posted"
    BY <2>1 DEF Grows, Started
  <2>3. QED
    BY <1>2, <2>1, <2>2 DEF Grows
<1>4. CASE \E c, x : Ends(c, x)
  <2>1. PICK c, x : Ends(c, x)
    BY <1>4
  <2>2. QED
    BY <1>2, <2>1 DEF Ends
<1>5. QED
  BY <1>1, <1>3, <1>4 DEF CountsStep

-----------------------------------------------------------------------------
(* Where drafts come from. *)

LEMMA ScopesListed ==
  ASSUME NEW S, IsFiniteSet(S)
  PROVE  Cardinality(S) \in Nat /\ SetToSeq(S) \in [1..Cardinality(S) -> S]
<1>1. Cardinality(S) \in Nat /\ ExistsBijection(1..Cardinality(S), S)
  BY FS_CardinalityType
<1>2. PICK f \in Bijection(1..Cardinality(S), S) : TRUE
  BY <1>1, Zenon DEF ExistsBijection
<1>3. f \in [1..Cardinality(S) -> S] /\ IsInjective(f)
  BY <1>2, Zenon DEF Bijection, Injection, IsInjective
<1>4. QED
  BY <1>1, <1>3, Zenon DEF SetToSeq

IsEmptyDraft(count) == count.status = "Draft" /\ RowBins(count) = {} /\ count.blocks = {}

LEMMA CountsAppended ==
  ASSUME NEW cs \in Seq(Count), NEW n \in Nat, NEW more \in [1..n -> Count],
         NEW all, all = cs \o more, \A i \in 1..n : IsEmptyDraft(more[i])
  PROVE  /\ all \in Seq(Count) /\ DOMAIN cs \subseteq DOMAIN all
         /\ \A c \in DOMAIN cs : all[c] = cs[c]
         /\ \A c \in DOMAIN all \ DOMAIN cs : IsEmptyDraft(all[c])
<1>1. more \in Seq(Count) /\ Len(more) = n
  <2>1. more \in Seq(Count)
    BY SeqDef
  <2>2. Len(more) \in Nat /\ 1..Len(more) = 1..n
    BY <2>1, LenProperties
  <2>3. QED
    BY <2>1, <2>2
<1>2. DOMAIN cs = 1..Len(cs) /\ Len(cs) \in Nat
  BY LenProperties
<1>3. /\ all \in Seq(Count) /\ Len(all) = Len(cs) + n
      /\ \A i \in 1..(Len(cs) + n) : all[i] = IF i <= Len(cs) THEN cs[i] ELSE more[i - Len(cs)]
  BY <1>1, ConcatProperties
<1>4. DOMAIN all = 1..(Len(cs) + n)
  BY <1>3, LenProperties
<1> HIDE DEF Count
<1>5. \A c \in DOMAIN cs : all[c] = cs[c]
  BY <1>2, <1>3
<1>6. ASSUME NEW c \in DOMAIN all \ DOMAIN cs
      PROVE  IsEmptyDraft(all[c])
  <2>1. c \in 1..(Len(cs) + n) /\ ~(c <= Len(cs)) /\ c - Len(cs) \in 1..n
    BY <1>2, <1>4
  <2>2. all[c] = more[c - Len(cs)]
    BY <1>3, <2>1
  <2>3. QED
    BY <2>1, <2>2
<1>7. DOMAIN cs \subseteq DOMAIN all
  BY <1>2, <1>4
<1>8. QED
  BY <1>3, <1>5, <1>6, <1>7

LEMMA DraftsAppended ==
  ASSUME counts \in Seq(Count), NEW n \in Nat, NEW drafts \in [1..n -> Count],
         \A i \in 1..n : IsEmptyDraft(drafts[i]),
         counts' = counts \o drafts, blocked' = blocked
  PROVE  AddsDrafts
<1> DEFINE all == counts'
<1>1. all = counts \o drafts
  OBVIOUS
<1> HIDE DEF all
<1>2. /\ all \in Seq(Count) /\ DOMAIN counts \subseteq DOMAIN all
      /\ \A c \in DOMAIN counts : all[c] = counts[c]
      /\ \A c \in DOMAIN all \ DOMAIN counts : IsEmptyDraft(all[c])
  BY <1>1, CountsAppended
<1>3. QED
  BY <1>2, Zenon DEF AddsDrafts, IsEmptyDraft, all

LEMMA GenerateStep ==
  ASSUME TypeInvariant, GenerateScheduledCounts
  PROVE  AddsDrafts
<1> USE DEF TypeInvariant
<1>1. PICK scopes \in SUBSET DueScopes :
        counts' = counts \o [i \in 1..Cardinality(scopes) |-> DraftCount(SetToSeq(scopes)[i])]
  BY DEF GenerateScheduledCounts
<1>2. DueScopes \subseteq Bins \cup {Everywhere}
  BY InventoryCountAssumption DEF DueScopes, LowStockBins, ZeroStockBins
<1>3. IsFiniteSet(Bins \cup {Everywhere})
  BY InventoryCountAssumption, FS_Singleton, FS_Union
<1>4. IsFiniteSet(scopes) /\ scopes \subseteq Bins \cup {Everywhere}
  BY <1>1, <1>2, <1>3, FS_Subset
<1> DEFINE n == Cardinality(scopes)
           new == [i \in 1..n |-> DraftCount(SetToSeq(scopes)[i])]
<1>5. n \in Nat /\ \A i \in 1..n : SetToSeq(scopes)[i] \in Bins \cup {Everywhere}
  BY <1>4, ScopesListed
<1>6. \A i \in 1..n : new[i] \in Count /\ IsEmptyDraft(new[i])
  BY <1>5, DraftIsCount DEF IsEmptyDraft
<1>7. new \in [1..n -> Count]
  BY <1>6
<1> HIDE DEF n, new
<1>8. counts' = counts \o new
  BY <1>1 DEF n, new
<1>9. blocked' = blocked
  BY Zenon DEF GenerateScheduledCounts
<1>10. QED
  BY <1>5, <1>6, <1>7, <1>8, <1>9, DraftsAppended, Zenon

LEMMA DraftAppended ==
  ASSUME TypeInvariant, NEW scope \in Bins \cup {Everywhere},
         counts' = Append(counts, DraftCount(scope)), blocked' = blocked
  PROVE  AddsDrafts
<1> USE DEF TypeInvariant
<1>1. /\ DraftCount(scope) \in Count /\ DraftCount(scope).status = "Draft"
      /\ RowBins(DraftCount(scope)) = {} /\ DraftCount(scope).blocks = {}
  BY DraftIsCount
<1>2. counts' = counts \o <<DraftCount(scope)>> /\ <<DraftCount(scope)>> \in [1..1 -> Count]
  BY <1>1, AppendIsConcat
<1>3. \A i \in 1..1 : IsEmptyDraft(<<DraftCount(scope)>>[i])
  BY <1>1 DEF IsEmptyDraft
<1>4. QED
  BY <1>2, <1>3, DraftsAppended

LEMMA ZeroCheckStep ==
  ASSUME TypeInvariant, NEW b \in Bins, counts' = WithZeroStockCheck(b), blocked' = blocked
  PROVE  AddsDrafts
<1>1. CASE counts' = counts
  BY <1>1 DEF AddsDrafts, TypeInvariant
<1>2. CASE counts' = Append(counts, DraftCount(b))
  BY <1>2, DraftAppended
<1>3. QED
  BY <1>1, <1>2 DEF WithZeroStockCheck

-----------------------------------------------------------------------------
(* Counting. *)

LEMMA NewRows ==
  ASSUME StockType, NEW b \in Bins
  PROVE  /\ OpenRow(b) \in CountRow
         /\ \A q \in CountedQuantities : FoundRow(b, q) \in CountRow
         /\ \A q \in CountedQuantities, row \in CountRow : CountedRow(row, b, q) \in CountRow
<1>1. book[b] \in Int
  BY DEF StockType
<1>2. OpenRow(b) \in CountRow
  BY <1>1 DEF OpenRow, CountRow, RowStatus
<1>3. ASSUME NEW q \in CountedQuantities PROVE FoundRow(b, q) \in CountRow
  <2>1. q \in Nat
    BY InventoryCountAssumption, Zenon
  <2>2. \A n \in Int : [OpenRow(b) EXCEPT !.book = n, !.counted = q, !.variance = q, !.status = "Counted"] \in CountRow
    <3>1. q \in Int
      BY <2>1
    <3>2. QED
      BY <1>2, <3>1, Zenon DEF CountRow, RowStatus
  <2>3. 0 \in Int
    OBVIOUS
  <2>4. QED
    BY <2>2, <2>3, Zenon DEF FoundRow
<1>4. ASSUME NEW q \in CountedQuantities, NEW row \in CountRow PROVE CountedRow(row, b, q) \in CountRow
  <2>0. q \in Nat
    BY InventoryCountAssumption, Zenon
  <2>1. q \in Int /\ q - row.book \in Int
    BY <2>0 DEF CountRow
  <2>2. \A v \in Int : [row EXCEPT !.counted = q, !.atCount = book[b], !.variance = v, !.status = "Counted"] \in CountRow
    BY <1>1, <2>1, Zenon DEF CountRow, RowStatus
  <2>3. QED
    BY <2>1, <2>2, Zenon DEF CountedRow
<1>5. QED
  BY <1>2, <1>3, <1>4

LEMMA SnapshotStep ==
  ASSUME TypeInvariant, NEW c \in DOMAIN counts, Snapshot(c)
  PROVE  CountsStep
<1>1. counts[c] \in Count
  BY CountsUpdates DEF TypeInvariant
<1>2. PICK bins \in SUBSET ScopeBins(counts[c]) :
        /\ counts[c].status = "Draft"
        /\ counts' = [counts EXCEPT ![c] =
             [@ EXCEPT !.status = "Counting", !.blocks = bins \ blocked, !.rows = [b \in bins |-> OpenRow(b)]]]
        /\ blocked' = blocked \cup bins
  BY Zenon DEF Snapshot
<1>3. ScopeBins(counts[c]) \subseteq Bins
  BY <1>1, CountFields DEF ScopeBins
<1> DEFINE rows == [b \in bins |-> OpenRow(b)]
           x == [counts[c] EXCEPT !.status = "Counting", !.blocks = bins \ blocked, !.rows = rows]
<1>4. \A b \in bins : OpenRow(b) \in CountRow
  BY <1>2, <1>3, NewRows DEF TypeInvariant
<1>5. rows \in CountRows /\ DOMAIN rows = bins /\ bins \ blocked \in SUBSET Bins
  BY <1>2, <1>3, <1>4, RowsOfBins, Zenon
<1> HIDE DEF rows
<1>6. x \in Count
  BY <1>1, <1>5, CountUpdates, Zenon DEF CountStatus
<1>7. x.status = "Counting" /\ x.blocks = bins \ blocked /\ x.rows = rows
  BY <1>1 DEF Count
<1>8. RowBins(counts[c]) = {} /\ counts[c].blocks = {}
  BY <1>2 DEF TypeInvariant, CountsSound
<1>9. counts' = [counts EXCEPT ![c] = x]
  BY <1>2 DEF x, rows
<1> HIDE DEF x
<1>10. Grows(c, x, bins)
  BY <1>2, <1>3, <1>5, <1>6, <1>7, <1>8, <1>9 DEF Grows, Started, RowBins
<1>11. QED
  BY <1>10 DEF CountsStep

LEMMA AddFoundLineStep ==
  ASSUME TypeInvariant, NEW c \in DOMAIN counts, NEW b \in Bins, NEW q \in CountedQuantities, AddFoundLine(c, b, q)
  PROVE  CountsStep
<1>1. counts[c] \in Count
  BY CountsUpdates DEF TypeInvariant
<1> DEFINE old == counts[c].rows
           rows == [y \in DOMAIN old \cup {b} |-> IF y = b THEN FoundRow(b, q) ELSE old[y]]
           x == [counts[c] EXCEPT !.rows = rows, !.blocks = @ \cup ({b} \ blocked)]
<1>2. /\ counts[c].status \in {"Counting", "Counted"}
      /\ counts' = [counts EXCEPT ![c].rows = rows, ![c].blocks = @ \cup ({b} \ blocked)]
      /\ blocked' = blocked \cup {b}
  BY DEF AddFoundLine
<1>3. counts' = [counts EXCEPT ![c] = x]
  BY <1>2 DEF x
<1>4. FoundRow(b, q) \in CountRow
  BY NewRows DEF TypeInvariant
<1>5. DOMAIN old \subseteq Bins /\ \A y \in DOMAIN old : old[y] \in CountRow
  BY <1>1, CountFields DEF RowBins
<1>6. rows \in CountRows /\ DOMAIN rows = DOMAIN old \cup {b}
  BY <1>4, <1>5, RowsOfBins, Zenon
<1>7. counts[c].status \in CountStatus /\ counts[c].blocks \cup ({b} \ blocked) \in SUBSET Bins
  BY <1>1, CountFields
<1> HIDE DEF rows
<1>8. x \in Count
  BY <1>1, <1>6, <1>7, CountUpdates, Zenon
<1>9. /\ x.status = counts[c].status /\ x.rows = rows
      /\ x.blocks = counts[c].blocks \cup ({b} \ blocked)
  BY <1>1 DEF Count
<1> HIDE DEF x
<1>10. Grows(c, x, {b})
  BY <1>2, <1>3, <1>6, <1>8, <1>9 DEF Grows, Started, RowBins
<1>11. QED
  BY <1>10 DEF CountsStep

\* A count whose lines change and no others: it goes on, or ends.
LEMMA SameBins ==
  ASSUME TypeInvariant, NEW c \in DOMAIN counts, NEW rows \in CountRows, NEW st \in CountStatus,
         DOMAIN rows = RowBins(counts[c]),
         counts' = [counts EXCEPT ![c] = [@ EXCEPT !.status = st, !.rows = rows]]
  PROVE  /\ /\ blocked' = blocked /\ st \in {"Counting", "Counted", "Under Review"}
            /\ counts[c].status = "Cancelled" \/ Started(counts[c])
            => CountsStep
         /\ /\ blocked' = blocked \ counts[c].blocks /\ st = "Posted"
            /\ Started(counts[c]) /\ \A b \in DOMAIN rows : rows[b].status = "Posted"
            => CountsStep
<1>1. counts[c] \in Count
  BY CountsUpdates DEF TypeInvariant
<1> DEFINE x == [counts[c] EXCEPT !.status = st, !.rows = rows]
<1>2. x \in Count
  BY <1>1, CountUpdates, Zenon
<1>3. x.status = st /\ x.rows = rows /\ x.blocks = counts[c].blocks
  BY <1>1 DEF Count
<1>4. counts' = [counts EXCEPT ![c] = x]
  BY DEF x
<1> HIDE DEF x
<1>5. ASSUME blocked' = blocked, st \in {"Counting", "Counted", "Under Review"},
             counts[c].status = "Cancelled" \/ Started(counts[c])
      PROVE  CountsStep
  <2>1. Grows(c, x, {})
    BY <1>2, <1>3, <1>4, <1>5 DEF Grows, Started, RowBins
  <2>2. QED
    BY <2>1 DEF CountsStep
<1>6. ASSUME blocked' = blocked \ counts[c].blocks, st = "Posted", Started(counts[c]),
             \A b \in DOMAIN rows : rows[b].status = "Posted"
      PROVE  CountsStep
  <2>1. Ends(c, x)
    BY <1>2, <1>3, <1>4, <1>6 DEF Ends, RowBins, AllPosted
  <2>2. QED
    BY <2>1 DEF CountsStep
<1>7. QED
  BY <1>5, <1>6

LEMMA RecordCountsStep ==
  ASSUME TypeInvariant, NEW c \in DOMAIN counts, NEW b \in RowBins(counts[c]), NEW q \in CountedQuantities,
         RecordCounts(c, b, q)
  PROVE  CountsStep
<1>1. counts[c] \in Count
  BY CountsUpdates DEF TypeInvariant
<1>2. RowBins(counts[c]) \subseteq Bins /\ \A y \in RowBins(counts[c]) : counts[c].rows[y] \in CountRow
  BY <1>1, CountFields
<1> DEFINE rows == [counts[c].rows EXCEPT ![b] = CountedRow(@, b, q)]
           st == IF AnyRow(rows, {"Open"}) THEN "Counting" ELSE "Counted"
<1>3. /\ counts[c].status \in {"Counting", "Counted"}
      /\ counts' = [counts EXCEPT ![c] = [@ EXCEPT !.status = st, !.rows = rows]]
      /\ blocked' = blocked
  <2>1. counts' = [counts EXCEPT ![c] = [@ EXCEPT !.rows = rows, !.status = st]]
    BY DEF RecordCounts
  <2>2. [counts[c] EXCEPT !.rows = rows, !.status = st] = [counts[c] EXCEPT !.status = st, !.rows = rows]
    BY <1>1 DEF Count
  <2>3. QED
    BY <2>1, <2>2 DEF RecordCounts
<1>4. CountedRow(counts[c].rows[b], b, q) \in CountRow
  BY <1>2, NewRows DEF TypeInvariant
<1>5. rows \in CountRows /\ DOMAIN rows = RowBins(counts[c])
  BY <1>2, <1>4, RowsOfBins DEF RowBins
<1>6. st \in {"Counting", "Counted"}
  OBVIOUS
<1> HIDE DEF rows, st
<1>7. QED
  BY <1>3, <1>5, <1>6, SameBins DEF Started, CountStatus

LEMMA RequestRecountStep ==
  ASSUME TypeInvariant, NEW c \in DOMAIN counts, RequestRecount(c)
  PROVE  CountsStep
<1>1. counts[c] \in Count
  BY CountsUpdates DEF TypeInvariant
<1>2. RowBins(counts[c]) \subseteq Bins /\ \A y \in RowBins(counts[c]) : counts[c].rows[y] \in CountRow
  BY <1>1, CountFields
<1> DEFINE old == counts[c].rows
           once(row) == [row EXCEPT !.recounts = @ + 1, !.counted = 0, !.atCount = 0, !.variance = 0, !.status = "Open"]
           rows == Reopened(old)
<1>3. /\ counts' = [counts EXCEPT ![c] = [@ EXCEPT !.status = "Counting", !.rows = rows]]
      /\ blocked' = blocked
  BY DEF RequestRecount
<1>4. \A row \in CountRow : once(row) \in CountRow
  <2> SUFFICES ASSUME NEW row \in CountRow PROVE once(row) \in CountRow
    OBVIOUS
  <2>1. row.recounts + 1 \in Int
    BY DEF CountRow
  <2>0. 0 \in Int
    OBVIOUS
  <2>2. \A n \in Int : [row EXCEPT !.recounts = n, !.counted = 0, !.atCount = 0, !.variance = 0, !.status = "Open"] \in CountRow
    BY <2>0, Zenon DEF CountRow, RowStatus
  <2>3. QED
    BY <2>1, <2>2, Zenon
<1>5. rows \in CountRows /\ DOMAIN rows = RowBins(counts[c])
  BY <1>2, <1>4, RowsOfBins, Zenon DEF RowBins, Reopened
<1>6. counts[c].status = "Cancelled" \/ Started(counts[c])
  <2>1. PICK b \in RowBins(counts[c]) : counts[c].rows[b].status # "Posted"
    BY DEF RequestRecount, AnyRow, RowBins
  <2>2. counts[c].status # "Draft" /\ counts[c].status # "Posted"
    BY <2>1 DEF TypeInvariant, CountsSound, AllPosted
  <2>3. counts[c].status \in CountStatus
    BY <1>1, CountFields
  <2>4. QED
    BY <2>2, <2>3 DEF RequestRecount, Started, CountStatus
<1> HIDE DEF rows
<1>7. QED
  BY <1>3, <1>5, <1>6, SameBins DEF CountStatus

LEMMA CancelCountStep ==
  ASSUME TypeInvariant, NEW c \in DOMAIN counts, CancelCount(c)
  PROVE  CountsStep
<1>1. counts[c] \in Count
  BY CountsUpdates DEF TypeInvariant
<1> DEFINE x == [counts[c] EXCEPT !.status = "Cancelled"]
<1>2. x \in Count
  BY <1>1 DEF Count, CountStatus
<1>3. x.status = "Cancelled" /\ x.rows = counts[c].rows /\ x.blocks = counts[c].blocks
  BY <1>1 DEF Count
<1>4. counts' = [counts EXCEPT ![c] = x] /\ blocked' = blocked \ counts[c].blocks
  BY DEF CancelCount, Released
<1>5. counts[c].status = "Draft" \/ Started(counts[c])
  <2>1. counts[c].status \in CountStatus
    BY <1>1, CountFields
  <2>2. QED
    BY <2>1 DEF CancelCount, CountStatus, Started
<1> HIDE DEF x
<1>6. Ends(c, x)
  BY <1>2, <1>3, <1>4, <1>5 DEF Ends, RowBins
<1>7. QED
  BY <1>6 DEF CountsStep

-----------------------------------------------------------------------------
(* What is remembered of a step: histories grow, and a bin that is in none   *)
(* of them afterwards was not treated so in the step.                        *)
Grown == /\ disturbed \subseteq disturbed' /\ recalled \subseteq recalled'
         /\ again \subseteq again' /\ overdrawn \subseteq overdrawn'

LEMMA Remembered ==
  ASSUME Remember
  PROVE  /\ Grown
         /\ \A b \in Bins : b \notin disturbed' => ~Disturbs(b)
         /\ \A b \in Bins : b \notin overdrawn' => ~Overdraws(b)
         /\ \A b \in Bins, c \in DOMAIN counts : b \in RowBins(counts[c]) =>
              /\ b \notin recalled' => ~Recalls(c)
              /\ b \notin again' => ~RecordsAgain(c, b)
<1>1. /\ disturbed' = disturbed \cup {b \in Bins : Disturbs(b)}
      /\ recalled' = recalled \cup {b \in Bins : \E c \in DOMAIN counts : b \in RowBins(counts[c]) /\ Recalls(c)}
      /\ again' = again \cup {b \in Bins : \E c \in DOMAIN counts : b \in RowBins(counts[c]) /\ RecordsAgain(c, b)}
      /\ overdrawn' = overdrawn \cup {b \in Bins : Overdraws(b)}
  BY Zenon DEF Remember
<1> HIDE DEF Disturbs, Recalls, RecordsAgain, Overdraws
<1>2. QED
  BY <1>1, Zenon DEF Grown

-----------------------------------------------------------------------------
(* Posting. *)

\* The status of a count after a pass.
LEMMA PassStatus ==
  ASSUME NEW after, NEW status \in {"Counted", "Under Review"}
  PROVE  /\ PicStatus(after, status) \in {"Posted", "Counted", "Under Review"}
         /\ PicStatus(after, status) = "Posted" => \A b \in DOMAIN after : after[b] = "Posted"
<1> DEFINE statuses == {after[b] : b \in DOMAIN after}
<1>1. CASE statuses \subseteq {"Posted"}
  <2>1. \A b \in DOMAIN after : after[b] = "Posted"
    BY <1>1
  <2>2. PicStatus(after, status) = "Posted"
    BY <1>1 DEF PicStatus
  <2>3. QED
    BY <2>1, <2>2
<1>2. CASE ~(statuses \subseteq {"Posted"})
  <2>1. PicStatus(after, status) \in {"Under Review", status}
    BY <1>2 DEF PicStatus
  <2>2. QED
    BY <2>1
<1>3. QED
  BY <1>1, <1>2

LEMMA PassedRowType ==
  \A row \in CountRow, st \in RowStatus, n \in Int :
    /\ [row EXCEPT !.status = st, !.ledger = n] \in CountRow
    /\ [row EXCEPT !.status = st, !.ledger = n].status = st
BY DEF CountRow

LEMMA GainsAndLosses ==
  \A x, a \in Nat, v \in Int :
    /\ x + v >= 0 => x + v \in Nat
    /\ a <= x /\ (v >= 0 \/ x + v >= a) => a <= x + v
OBVIOUS

LEMMA PostRowsStep ==
  ASSUME TypeInvariant, NEW c \in DOMAIN counts, counts[c].status \in {"Counted", "Under Review"},
         NEW post \in SUBSET RowBins(counts[c]), NEW after \in [RowBins(counts[c]) -> RowStatus],
         PostRows(c, post, after)
  PROVE  CountsStep /\ StockType' /\ (Grown /\ ReservationsAreCovered => ReservationsAreCovered')
<1>1. counts[c] \in Count
  BY CountsUpdates DEF TypeInvariant
<1>2. RowBins(counts[c]) \subseteq Bins /\ \A y \in RowBins(counts[c]) : counts[c].rows[y] \in CountRow
  BY <1>1, CountFields
<1> DEFINE old == counts[c].rows
           fresh == {b \in post : old[b].ledger = 0}
           ledger(b) == IF b \in fresh THEN old[b].variance ELSE old[b].ledger
           rows == [b \in DOMAIN old |-> [old[b] EXCEPT !.status = after[b], !.ledger = ledger(b)]]
           st == PicStatus(after, counts[c].status)
<1>3. /\ \A b \in post : LossKeepsReservations(old[b], b)
      /\ \A b \in fresh : book[b] + old[b].variance >= 0
      /\ book' = [b \in Bins |-> IF b \in fresh THEN book[b] + old[b].variance ELSE book[b]]
      /\ counts' = [counts EXCEPT ![c] = [@ EXCEPT !.status = st, !.rows = rows]]
      /\ blocked' = IF st = "Posted" THEN Released(counts[c]) ELSE blocked
      /\ UNCHANGED <<allocated, picks, move>>
  BY DEF PostRows
<1>4. CountsStep
  <2>1. \A b \in RowBins(counts[c]) : rows[b] \in CountRow /\ rows[b].status = after[b]
    <3> SUFFICES ASSUME NEW b \in RowBins(counts[c]) PROVE rows[b] \in CountRow /\ rows[b].status = after[b]
      OBVIOUS
    <3>1. old[b] \in CountRow /\ after[b] \in RowStatus
      BY <1>2, Zenon
    <3>2. ledger(b) \in Int
      BY <3>1 DEF CountRow
    <3>3. rows[b] = [old[b] EXCEPT !.status = after[b], !.ledger = ledger(b)]
      BY DEF RowBins
    <3> HIDE DEF rows, ledger, old
    <3>4. \A n \in Int : /\ [old[b] EXCEPT !.status = after[b], !.ledger = n] \in CountRow
                         /\ [old[b] EXCEPT !.status = after[b], !.ledger = n].status = after[b]
      BY <3>1, PassedRowType
    <3>5. QED
      BY <3>2, <3>3, <3>4, Zenon
  <2>2. DOMAIN rows = RowBins(counts[c])
    BY DEF RowBins
  <2> HIDE DEF rows
  <2>3. rows \in CountRows
    <3>1. rows \in [RowBins(counts[c]) -> CountRow]
      BY <2>1 DEF RowBins, rows
    <3>2. QED
      BY <1>2, <2>2, <3>1, RowsOfBins, Zenon
  <2>4. /\ st \in {"Posted", "Counted", "Under Review"}
        /\ st = "Posted" => \A b \in RowBins(counts[c]) : after[b] = "Posted"
    BY PassStatus
  <2> HIDE DEF st
  <2>5. CASE st = "Posted"
    BY <1>3, <2>1, <2>2, <2>3, <2>4, <2>5, SameBins DEF Started, CountStatus, Released
  <2>6. CASE st # "Posted"
    BY <1>3, <2>2, <2>3, <2>4, <2>6, SameBins DEF Started, CountStatus
  <2>7. QED
    BY <2>5, <2>6
<1> HIDE DEF rows, st
<1>5. \A b \in fresh : b \in Bins /\ old[b].variance \in Int
  BY <1>2 DEF CountRow
<1>6. \A b \in Bins : book[b] \in Nat /\ allocated[b] \in Nat
  BY DEF TypeInvariant, StockType
<1>7. StockType'
  <2> HIDE DEF fresh
  <2>0. \A b \in fresh : book[b] + old[b].variance >= 0
    BY <1>3
  <2>1. ASSUME NEW b \in Bins PROVE (IF b \in fresh THEN book[b] + old[b].variance ELSE book[b]) \in Nat
    <3> HIDE DEF old
    <3>1. CASE b \in fresh
      <4>1. PICK v \in Int : v = old[b].variance
        BY <1>5, <3>1, Zenon
      <4>2. book[b] \in Nat /\ book[b] + v >= 0
        BY <1>6, <2>0, <3>1, <4>1, Zenon
      <4>3. book[b] + v \in Nat
        BY <4>2, GainsAndLosses, Zenon
      <4>4. QED
        BY <3>1, <4>1, <4>3, Zenon
    <3>2. CASE b \notin fresh
      BY <1>6, <3>2, Zenon
    <3>3. QED
      BY <3>1, <3>2, Zenon
  <2>2. book' \in [Bins -> Nat]
    BY <1>3, <2>1, Zenon
  <2>3. QED
    BY <1>3, <2>2 DEF TypeInvariant, StockType
<1>8. ASSUME Grown, ReservationsAreCovered PROVE ReservationsAreCovered'
  <2>1. \A b \in Bins : allocated[b] <= book[b] =>
                         allocated[b] <= (IF b \in fresh THEN book[b] + old[b].variance ELSE book[b])
    <3> SUFFICES ASSUME NEW b \in Bins, allocated[b] <= book[b]
                 PROVE  allocated[b] <= IF b \in fresh THEN book[b] + old[b].variance ELSE book[b]
      OBVIOUS
    <3>2. ASSUME b \in fresh PROVE old[b].variance >= 0 \/ book[b] + old[b].variance >= allocated[b]
      BY <1>3, <3>2 DEF LossKeepsReservations
    <3>3. allocated[b] \in Nat /\ book[b] \in Nat
      BY <1>6
    <3>4. ASSUME b \in fresh PROVE old[b].variance \in Int
      BY <1>5, <3>4
    <3> HIDE DEF fresh
    <3> HIDE DEF old
    <3>5. CASE b \in fresh
      <4>1. PICK v \in Int : v = old[b].variance
        BY <3>4, <3>5, Zenon
      <4>2. v >= 0 \/ book[b] + v >= allocated[b]
        BY <3>2, <3>5, <4>1, Zenon
      <4>3. allocated[b] <= book[b] + v
        BY <3>3, <4>2, GainsAndLosses, Zenon
      <4>4. QED
        BY <3>5, <4>1, <4>3, Zenon
    <3>6. CASE b \notin fresh
      BY <3>6
    <3>7. QED
      BY <3>5, <3>6
  <2> HIDE DEF fresh
  <2> HIDE DEF old
  <2>2. /\ book' = [b \in Bins |-> IF b \in fresh THEN book[b] + old[b].variance ELSE book[b]]
        /\ allocated' = allocated /\ picks' = picks
    BY <1>3
  <2>3. \A b \in Bins : book'[b] = IF b \in fresh THEN book[b] + old[b].variance ELSE book[b]
    BY <2>2, Zenon
  <2>4. ASSUME NEW b \in Bins PROVE picks[b] <= allocated[b] /\ (b \notin overdrawn' => allocated[b] <= book[b])
    BY <1>8 DEF ReservationsAreCovered, Grown
  <2>5. ASSUME NEW b \in Bins, b \notin overdrawn' PROVE allocated[b] <= book'[b]
    <3> DEFINE left == IF b \in fresh THEN book[b] + old[b].variance ELSE book[b]
    <3>0. b \in Bins /\ b \notin overdrawn'
      BY <2>5
    <3>1. allocated[b] <= book[b]
      BY ONLY <2>4, <3>0
    <3>2. allocated[b] <= left
      BY ONLY <2>1, <3>0, <3>1
    <3>3. book'[b] = left
      BY ONLY <2>3, <3>0
    <3> HIDE DEF left
    <3>4. QED
      BY ONLY <3>2, <3>3
  <2>6. ASSUME NEW b \in Bins PROVE picks'[b] <= allocated'[b] /\ (b \notin overdrawn' => allocated'[b] <= book'[b])
    <3>1. picks'[b] = picks[b] /\ allocated'[b] = allocated[b]
      BY <2>2, Zenon
    <3>2. picks[b] <= allocated[b]
      BY ONLY <2>4, b \in Bins
    <3>3. b \notin overdrawn' => allocated[b] <= book'[b]
      BY <2>5, Zenon
    <3>4. QED
      BY ONLY <3>1, <3>2, <3>3
  <2>7. QED
    BY <2>6, Zenon DEF ReservationsAreCovered
<1>9. QED
  BY <1>4, <1>7, <1>8

LEMMA PostCountStep ==
  ASSUME TypeInvariant, NEW c \in DOMAIN counts, PostCount(c) \/ ApproveVariance(c)
  PROVE  CountsStep /\ StockType' /\ (Grown /\ ReservationsAreCovered => ReservationsAreCovered')
<1>1. counts[c] \in Count
  BY CountsUpdates DEF TypeInvariant
<1> DEFINE old == counts[c].rows
<1>2. \A b \in DOMAIN old : old[b].status \in RowStatus
  BY <1>1, CountFields DEF RowBins, CountRow
<1>3. CASE PostCount(c)
  <2> DEFINE after == [b \in DOMAIN old |-> Outcome(old[b])]
             post == {b \in DOMAIN old : after[b] = "Posted" /\ old[b].status # "Posted" /\ old[b].variance # 0}
  <2>1. counts[c].status = "Counted" /\ PostRows(c, post, after)
    BY <1>3 DEF PostCount
  <2>2. \A b \in DOMAIN old : Outcome(old[b]) \in RowStatus
    BY <1>2 DEF Outcome, RowStatus
  <2>3. after \in [RowBins(counts[c]) -> RowStatus] /\ post \in SUBSET RowBins(counts[c])
    BY <2>2 DEF RowBins
  <2> HIDE DEF after, post
  <2>4. QED
    BY <2>1, <2>3, PostRowsStep
<1>4. CASE ApproveVariance(c)
  <2> DEFINE after == [b \in DOMAIN old |-> IF old[b].status = "Pending Approval" THEN "Posted" ELSE old[b].status]
             post == {b \in DOMAIN old : old[b].status = "Pending Approval"}
  <2>1. counts[c].status = "Under Review" /\ PostRows(c, post, after)
    BY <1>4 DEF ApproveVariance
  <2>2. after \in [RowBins(counts[c]) -> RowStatus] /\ post \in SUBSET RowBins(counts[c])
    BY <1>2 DEF RowBins, RowStatus
  <2> HIDE DEF after, post
  <2>3. QED
    BY <2>1, <2>2, PostRowsStep
<1>5. QED
  BY <1>3, <1>4

-----------------------------------------------------------------------------
(* The warehouse goes on. *)

LEMMA CountsStay ==
  ASSUME TypeInvariant, counts' = counts, blocked' = blocked
  PROVE  CountsStep
BY DEF TypeInvariant, CountsStep, AddsDrafts

\* One unit more or less in one bin.
LEMMA UnitSteps ==
  ASSUME NEW f \in [Bins -> Nat], NEW b \in Bins
  PROVE  /\ [f EXCEPT ![b] = @ + 1] \in [Bins -> Nat]
         /\ f[b] > 0 => [f EXCEPT ![b] = @ - 1] \in [Bins -> Nat]
OBVIOUS

LEMMA StockOperationStep ==
  ASSUME TypeInvariant, StockOperation, Grown, \A b \in Bins : b \notin overdrawn' => ~Overdraws(b)
  PROVE  /\ CountsStep /\ StockType'
         /\ ReservationsAreCovered => ReservationsAreCovered'
<1> USE DEF StockType
<1>0. \A b \in Bins : b \notin overdrawn' => b \notin overdrawn
  BY DEF Grown
<1>1. /\ book \in [Bins -> Nat] /\ allocated \in [Bins -> Nat] /\ picks \in [Bins -> Nat]
      /\ move \in [from : Bins, to : Bins] \cup {None}
      /\ \A b \in Bins : picks[b] <= allocated[b]
  BY DEF TypeInvariant
<1>2. ASSUME NEW b \in Bins, Allocate(b)
      PROVE  CountsStep /\ StockType' /\ (ReservationsAreCovered => ReservationsAreCovered')
  <2>1. /\ allocated' = [allocated EXCEPT ![b] = @ + 1] /\ book[b] > allocated[b]
        /\ UNCHANGED <<counts, book, picks, move, blocked>>
    BY <1>2 DEF Allocate
  <2>2. CountsStep
    BY <2>1, CountsStay
  <2>3. StockType'
    BY <1>1, <2>1
  <2>4. ReservationsAreCovered => ReservationsAreCovered'
    BY <1>0, <1>1, <2>1 DEF ReservationsAreCovered
  <2>5. QED
    BY <2>2, <2>3, <2>4
<1>3. ASSUME NEW b \in Bins, ReleasePick(b)
      PROVE  CountsStep /\ StockType' /\ (ReservationsAreCovered => ReservationsAreCovered')
  <2>1. /\ picks' = [picks EXCEPT ![b] = @ + 1] /\ picks[b] < allocated[b]
        /\ UNCHANGED <<counts, book, allocated, move, blocked>>
    BY <1>3 DEF ReleasePick
  <2>2. CountsStep
    BY <2>1, CountsStay
  <2>3. StockType'
    BY <1>1, <2>1
  <2>4. ReservationsAreCovered => ReservationsAreCovered'
    BY <1>0, <1>1, <2>1 DEF ReservationsAreCovered
  <2>5. QED
    BY <2>2, <2>3, <2>4
<1>4. ASSUME NEW b \in Bins, ConfirmPick(b)
      PROVE  CountsStep /\ StockType' /\ (ReservationsAreCovered => ReservationsAreCovered')
  <2>1. /\ picks[b] > 0 /\ book[b] > 0
        /\ picks' = [picks EXCEPT ![b] = @ - 1] /\ allocated' = [allocated EXCEPT ![b] = @ - 1]
        /\ book' = [book EXCEPT ![b] = @ - 1]
        /\ counts' = WithZeroStockCheck(b) \/ counts' = counts
        /\ UNCHANGED <<move, blocked>>
    BY <1>4 DEF ConfirmPick
  <2>2. CountsStep
    BY <2>1, CountsStay, ZeroCheckStep DEF CountsStep
  <2>3. StockType'
    BY <1>1, <2>1
  <2>4. ReservationsAreCovered => ReservationsAreCovered'
    BY <1>0, <1>1, <2>1 DEF ReservationsAreCovered
  <2>5. QED
    BY <2>2, <2>3, <2>4
<1>5. ASSUME NEW a \in Bins, NEW b \in Bins, CreateAdhocMove(a, b)
      PROVE  CountsStep /\ StockType' /\ (ReservationsAreCovered => ReservationsAreCovered')
  <2>1. move' = [from |-> a, to |-> b] /\ UNCHANGED <<counts, book, allocated, picks, blocked>>
    BY <1>5 DEF CreateAdhocMove
  <2>2. CountsStep
    BY <2>1, CountsStay
  <2>3. QED
    BY <1>0, <1>1, <2>1, <2>2 DEF ReservationsAreCovered
<1>6. ASSUME ConfirmMove
      PROVE  /\ CountsStep /\ StockType'
             /\ ReservationsAreCovered => ReservationsAreCovered'
  <2>1. /\ move # None /\ book[move.from] > 0
        /\ book' = [book EXCEPT ![move.from] = @ - 1, ![move.to] = @ + 1] /\ move' = None
        /\ UNCHANGED <<counts, allocated, picks, blocked>>
    BY <1>6 DEF ConfirmMove
  <2>2. move.from \in Bins /\ move.to \in Bins
    BY <1>1, <2>1
  <2>3. PICK a \in Bins, b \in Bins : a = move.from /\ b = move.to
    BY <2>2
  <2>4. /\ book[a] > 0 /\ (a \notin overdrawn' => ~(book[a] <= allocated[a]))
        /\ book' = [book EXCEPT ![a] = @ - 1, ![b] = @ + 1]
    BY <2>1, <2>3 DEF Overdraws
  <2>5. CountsStep
    BY <2>1, CountsStay
  <2>6. book' \in [Bins -> Nat]
    BY <1>1, <2>4
  <2>7. StockType'
    BY <1>1, <2>1, <2>6
  <2>8. ReservationsAreCovered => ReservationsAreCovered'
    BY <1>0, <1>1, <2>1, <2>4 DEF ReservationsAreCovered
  <2>9. QED
    BY <2>5, <2>7, <2>8
<1>7. QED
  BY <1>2, <1>3, <1>4, <1>5, <1>6 DEF StockOperation

-----------------------------------------------------------------------------
(* Types. *)

LEMMA InitTypes == Init => TypeInvariant
<1> SUFFICES ASSUME Init PROVE TypeInvariant
  OBVIOUS
<1>1. counts = <<>> /\ counts \in Seq(Count) /\ DOMAIN counts = {}
  BY EmptySeq DEF Init
<1>2. Quantities \subseteq Nat
  BY InventoryCountAssumption
<1>3. StockType
  <2>1. book \in [Bins -> Nat]
    BY <1>2 DEF Init
  <2>2. /\ allocated = [b \in Bins |-> 0] /\ picks = [b \in Bins |-> 0] /\ move = None
    BY DEF Init
  <2>3. allocated \in [Bins -> Nat] /\ picks \in [Bins -> Nat] /\ \A b \in Bins : picks[b] <= allocated[b]
    BY <2>2
  <2>4. QED
    BY <2>1, <2>2, <2>3, Zenon DEF StockType
<1>4. CountsSound
  BY <1>1 DEF CountsSound
<1>5. QED
  BY <1>1, <1>3, <1>4 DEF Init, TypeInvariant

LEMMA NextStep ==
  ASSUME TypeInvariant, Next
  PROVE  /\ CountsStep /\ TypeInvariant'
         /\ ReservationsAreCovered => ReservationsAreCovered'
<1> DEFINE Covers == ReservationsAreCovered => ReservationsAreCovered'
<1>0. Grown /\ \A b \in Bins : b \notin overdrawn' => ~Overdraws(b)
  BY Remembered, Zenon DEF Next
<1>1. ASSUME UNCHANGED stock PROVE StockType' /\ Covers
  BY <1>0, <1>1 DEF stock, TypeInvariant, StockType, ReservationsAreCovered, Grown
<1>2. ASSUME GenerateScheduledCounts PROVE CountsStep /\ StockType' /\ Covers
  <2>1. UNCHANGED stock
    BY <1>2, Zenon DEF GenerateScheduledCounts
  <2>2. QED
    BY <1>1, <1>2, <2>1, GenerateStep DEF CountsStep
<1>14. ASSUME NEW scope \in Bins \cup {Everywhere}, CreateCount(scope) PROVE CountsStep /\ StockType' /\ Covers
  <2>1. UNCHANGED stock /\ counts' = Append(counts, DraftCount(scope)) /\ blocked' = blocked
    BY <1>14, Zenon DEF CreateCount
  <2>2. QED
    BY <1>1, <2>1, DraftAppended DEF CountsStep
<1>3. ASSUME NEW c \in DOMAIN counts, Snapshot(c) PROVE CountsStep /\ StockType' /\ Covers
  <2>1. UNCHANGED stock
    BY <1>3, Zenon DEF Snapshot
  <2>2. QED
    BY <1>1, <1>3, <2>1, SnapshotStep
<1>4. ASSUME NEW c \in DOMAIN counts, NEW b \in Bins, NEW q \in CountedQuantities, AddFoundLine(c, b, q)
      PROVE  CountsStep /\ StockType' /\ Covers
  <2>1. UNCHANGED stock
    BY <1>4, Zenon DEF AddFoundLine
  <2>2. QED
    BY <1>1, <1>4, <2>1, AddFoundLineStep
<1>5. ASSUME NEW c \in DOMAIN counts, NEW b \in RowBins(counts[c]), NEW q \in CountedQuantities,
             RecordCounts(c, b, q)
      PROVE  CountsStep /\ StockType' /\ Covers
  <2>1. UNCHANGED stock
    BY <1>5, Zenon DEF RecordCounts
  <2>2. QED
    BY <1>1, <1>5, <2>1, RecordCountsStep
<1>6. ASSUME NEW c \in DOMAIN counts, PostCount(c) \/ ApproveVariance(c) PROVE CountsStep /\ StockType' /\ Covers
  BY <1>0, <1>6, PostCountStep
<1>7. ASSUME NEW c \in DOMAIN counts, RequestRecount(c) PROVE CountsStep /\ StockType' /\ Covers
  <2>1. UNCHANGED stock
    BY <1>7, Zenon DEF RequestRecount
  <2>2. QED
    BY <1>1, <1>7, <2>1, RequestRecountStep
<1>8. ASSUME NEW c \in DOMAIN counts, CancelCount(c) PROVE CountsStep /\ StockType' /\ Covers
  <2>1. UNCHANGED stock
    BY <1>8, Zenon DEF CancelCount
  <2>2. QED
    BY <1>1, <1>8, <2>1, CancelCountStep
<1>9. ASSUME StockOperation PROVE CountsStep /\ StockType' /\ Covers
  BY <1>0, <1>9, StockOperationStep
<1> HIDE DEF Covers
<1>10. CountsStep /\ StockType' /\ Covers
  <2>1. CASE CountOperation
    BY <2>1, <1>2, <1>14, <1>3, <1>4, <1>5, <1>6, <1>7, <1>8, Zenon DEF CountOperation
  <2>2. CASE StockOperation
    BY <2>2, <1>9
  <2>3. QED
    BY <2>1, <2>2 DEF Next
<1>11. procedure' \in Procedures
  BY DEF Next, TypeInvariant
<1>12. TypeInvariant'
  BY <1>10, <1>11, CountsStepType DEF TypeInvariant
<1>13. QED
  BY <1>10, <1>12 DEF Covers

LEMMA TypesKept == TypeInvariant /\ [Next]_vars => TypeInvariant'
<1>1. ASSUME TypeInvariant, UNCHANGED vars PROVE TypeInvariant'
  BY <1>1 DEF vars, TypeInvariant, StockType, CountsSound
<1>2. QED
  BY <1>1, NextStep

(* A count's lines stand in known bins with known statuses, and no balance,  *)
(* allocation or number of open picks is ever negative.                     *)
THEOREM TypeCorrect == Spec => []TypeOK
BY InitTypes, TypesKept, TypeInvariantImpliesTypeOK, PTL DEF Spec

-----------------------------------------------------------------------------
(* Reservations. *)

(* No posting of a count, in whatever order with picks, moves and other      *)
(* counts, takes a bin's book quantity below what is reserved in it (before  *)
(* a loss is posted, PostCount and ApproveVariance look at the reservations  *)
(* of its bin): unless a move took reserved units, they are on the books.    *)
THEOREM LossesKeepReservations == Spec => []ReservationsAreCovered
<1>1. Init => TypeInvariant /\ ReservationsAreCovered
  <2> SUFFICES ASSUME Init PROVE ReservationsAreCovered
    BY InitTypes
  <2>1. \A b \in Bins : book[b] \in Nat
    BY InitTypes DEF TypeInvariant, StockType
  <2>2. QED
    BY <2>1 DEF Init, ReservationsAreCovered
<1>2. TypeInvariant /\ ReservationsAreCovered /\ [Next]_vars => TypeInvariant' /\ ReservationsAreCovered'
  <2> SUFFICES ASSUME TypeInvariant, ReservationsAreCovered, [Next]_vars
               PROVE  TypeInvariant' /\ ReservationsAreCovered'
    OBVIOUS
  <2>1. CASE Next
    BY <2>1, NextStep
  <2>2. CASE UNCHANGED vars
    BY <2>2, TypesKept DEF vars, history, ReservationsAreCovered
  <2>3. QED
    BY <2>1, <2>2
<1>3. QED
  BY <1>1, <1>2, PTL DEF Spec

-----------------------------------------------------------------------------
(* Blocked bins. *)

\* A count holds only bins it has lines in, and no two hold the same bin.
HoldsItsBins(count) == count.blocks \subseteq RowBins(count)
HeldOnce(one, other) == \A b \in Bins \ recalled : ~(Holds(one, b) /\ Holds(other, b))
BlockInvariant ==
  /\ \A c \in DOMAIN counts : HoldsItsBins(counts[c])
  /\ \A c, d \in DOMAIN counts : c # d => HeldOnce(counts[c], counts[d])
  /\ BlockedByItsCount

\* The invariant with everything spelt out that a step may change.
LEMMA BlocksAre ==
  BlockInvariant <=>
    /\ \A c \in DOMAIN counts : counts[c].blocks \subseteq RowBins(counts[c])
    /\ \A c, d \in DOMAIN counts, b \in Bins :
         c # d /\ b \notin recalled /\ Holds(counts[c], b) => ~Holds(counts[d], b)
    /\ \A b \in Bins : b \in blocked => \E c \in DOMAIN counts : Holds(counts[c], b)
    /\ \A c \in DOMAIN counts, b \in Bins : b \notin recalled /\ Holds(counts[c], b) => b \in blocked
<1> HIDE DEF Holds
<1>1. QED
  BY Zenon DEF BlockInvariant, HoldsItsBins, HeldOnce, BlockedByItsCount

LEMMA BlocksAfter ==
  ASSUME \A c \in DOMAIN counts' : counts'[c].blocks \subseteq RowBins(counts'[c]),
         \A c, d \in DOMAIN counts', b \in Bins :
           c # d /\ b \notin recalled' /\ Holds(counts'[c], b) => ~Holds(counts'[d], b),
         \A b \in Bins : b \in blocked' => \E c \in DOMAIN counts' : Holds(counts'[c], b),
         \A c \in DOMAIN counts', b \in Bins : b \notin recalled' /\ Holds(counts'[c], b) => b \in blocked'
  PROVE  BlockInvariant'
BY Zenon DEF BlockInvariant, HoldsItsBins, HeldOnce, BlockedByItsCount, Holds, Started, RowBins

LEMMA DraftsKeepBlocks ==
  ASSUME TypeInvariant, BlockInvariant, AddsDrafts, Grown
  PROVE  BlockInvariant'
<1>1. /\ DOMAIN counts \subseteq DOMAIN counts'
      /\ \A c \in DOMAIN counts : counts'[c] = counts[c]
      /\ blocked' = blocked
      /\ \A b : b \notin recalled' => b \notin recalled
  BY Zenon DEF AddsDrafts, Grown
<1>2. \A c \in DOMAIN counts' \ DOMAIN counts :
        counts'[c].blocks = {} /\ RowBins(counts'[c]) = {} /\ \A b : ~Holds(counts'[c], b)
  BY DEF AddsDrafts, Holds
<1>3. \A c \in DOMAIN counts', b \in Bins :
        Holds(counts'[c], b) => c \in DOMAIN counts /\ counts'[c] = counts[c] /\ Holds(counts[c], b)
  BY <1>1, <1>2, Zenon
<1>4. \A c \in DOMAIN counts' : counts'[c].blocks \subseteq RowBins(counts'[c])
  BY <1>1, <1>2, BlocksAre, Zenon
<1>5. \A c, d \in DOMAIN counts', b \in Bins :
        c # d /\ b \notin recalled' /\ Holds(counts'[c], b) => ~Holds(counts'[d], b)
  BY <1>1, <1>3, BlocksAre, Zenon
<1>6. \A b \in Bins : b \in blocked' => \E c \in DOMAIN counts' : Holds(counts'[c], b)
  BY <1>1, BlocksAre, Zenon
<1>7. \A c \in DOMAIN counts', b \in Bins : b \notin recalled' /\ Holds(counts'[c], b) => b \in blocked'
  BY <1>1, <1>3, BlocksAre, Zenon
<1>8. QED
  BY ONLY <1>4, <1>5, <1>6, <1>7, BlocksAfter

LEMMA GrowthKeepsBlocks ==
  ASSUME TypeInvariant, BlockInvariant, Remember, NEW c, NEW x, NEW B, Grows(c, x, B)
  PROVE  BlockInvariant'
<1>1. /\ c \in DOMAIN counts /\ x \in Count /\ counts' = [counts EXCEPT ![c] = x]
      /\ counts[c].status \in {"Draft", "Cancelled"} \/ Started(counts[c])
      /\ Started(x) /\ RowBins(x) = RowBins(counts[c]) \cup B
      /\ x.blocks = counts[c].blocks \cup (B \ blocked)
      /\ B \subseteq Bins /\ blocked' = blocked \cup B
  BY DEF Grows
<1>2. DOMAIN counts' = DOMAIN counts /\ counts'[c] = x /\ \A d \in DOMAIN counts \ {c} : counts'[d] = counts[d]
  BY <1>1, CountsUpdates DEF TypeInvariant
<1>3. \A b : b \notin recalled' => b \notin recalled
  BY Remembered, Zenon DEF Grown
<1>4. /\ counts[c].blocks \subseteq RowBins(counts[c]) /\ counts[c].blocks \subseteq Bins
      /\ counts[c].status = "Draft" => counts[c].blocks = {}
  <2>1. counts[c] \in Count
    BY <1>1, CountsUpdates DEF TypeInvariant
  <2>2. QED
    BY <1>1, <2>1, BlocksAre, CountFields, Zenon DEF TypeInvariant, CountsSound
\* What the count held before, unless it was cancelled.
<1>5. ASSUME NEW b \in Bins, b \notin recalled', b \in counts[c].blocks
      PROVE  Holds(counts[c], b)
  <2>1. b \in RowBins(counts[c]) /\ counts[c].status # "Draft"
    BY <1>4, <1>5
  <2>2. ~Recalls(c)
    BY <1>1, <1>5, <2>1, Remembered, Zenon
  <2>3. counts[c].status # "Cancelled"
    BY <1>1, <1>2, <2>2 DEF Recalls, Started
  <2>4. QED
    BY <1>1, <1>5, <2>1, <2>3 DEF Holds
<1>6. \A b : Holds(x, b) <=> b \in counts[c].blocks \/ b \in B \ blocked
  BY <1>1 DEF Holds
<1>7. \A b : Holds(counts[c], b) => Holds(x, b)
  BY <1>6 DEF Holds
<1>8. \A d \in DOMAIN counts' : counts'[d].blocks \subseteq RowBins(counts'[d])
  <2>1. x.blocks \subseteq RowBins(x)
    BY <1>1, <1>4
  <2>2. \A d \in DOMAIN counts : counts[d].blocks \subseteq RowBins(counts[d])
    BY BlocksAre
  <2>3. ASSUME NEW d \in DOMAIN counts PROVE counts'[d].blocks \subseteq RowBins(counts'[d])
    <3>1. CASE d = c
      BY <1>2, <2>1, <3>1
    <3>2. CASE d # c
      <4>1. counts'[d] = counts[d]
        BY <1>2, <3>2
      <4>2. QED
        BY <2>2, <4>1
    <3>3. QED
      BY <3>1, <3>2
  <2>4. QED
    BY <1>2, <2>3
<1>9. ASSUME NEW d \in DOMAIN counts \ {c}, NEW b \in Bins, b \notin recalled', Holds(x, b)
      PROVE  ~Holds(counts[d], b)
  <2>1. CASE b \in counts[c].blocks
    BY <1>1, <1>3, <1>5, <1>9, <2>1, BlocksAre, Zenon
  <2>2. CASE b \in B \ blocked
    <3>1. b \notin recalled /\ b \notin blocked
      BY <1>3, <1>9, <2>2
    <3>2. QED
      BY <1>9, <3>1, BlocksAre, Zenon
  <2>3. QED
    BY <1>6, <1>9, <2>1, <2>2
<1>10. \A d, e \in DOMAIN counts', b \in Bins :
         d # e /\ b \notin recalled' /\ Holds(counts'[d], b) => ~Holds(counts'[e], b)
  <2> SUFFICES ASSUME NEW d \in DOMAIN counts, NEW e \in DOMAIN counts, NEW b \in Bins, d # e, b \notin recalled',
                      Holds(counts'[d], b), Holds(counts'[e], b)
               PROVE  FALSE
    BY <1>2, Zenon
  <2>1. CASE d = c
    BY <1>2, <1>9, <2>1, Zenon
  <2>2. CASE e = c
    BY <1>2, <1>9, <2>2, Zenon
  <2>3. CASE d # c /\ e # c
    BY <1>2, <1>3, <2>3, BlocksAre, Zenon
  <2>4. QED
    BY <2>1, <2>2, <2>3
<1>11. ASSUME NEW b \in Bins, b \in blocked' PROVE \E d \in DOMAIN counts' : Holds(counts'[d], b)
  <2>1. CASE b \in blocked
    <3>1. PICK d \in DOMAIN counts : Holds(counts[d], b)
      BY <2>1, BlocksAre, Zenon
    <3>2. Holds(counts'[d], b)
      BY <1>2, <1>7, <3>1, Zenon
    <3>3. QED
      BY <1>2, <3>2, Zenon
  <2>2. CASE b \notin blocked
    BY <1>1, <1>2, <1>6, <1>11, <2>2
  <2>3. QED
    BY <2>1, <2>2
<1>12. ASSUME NEW d \in DOMAIN counts', NEW b \in Bins, b \notin recalled', Holds(counts'[d], b)
       PROVE  b \in blocked'
  <2>1. CASE d = c /\ b \in B \ blocked
    BY <1>1, <2>1
  <2>2. CASE d = c /\ b \in counts[c].blocks
    <3>1. Holds(counts[c], b)
      BY <1>5, <1>12, <2>2, Zenon
    <3>2. b \in blocked
      BY <1>1, <1>3, <1>12, <3>1, BlocksAre, Zenon
    <3>3. QED
      BY <1>1, <3>2
  <2>3. CASE d # c
    <3>1. b \in blocked
      BY <1>2, <1>3, <1>12, <2>3, BlocksAre, Zenon
    <3>2. QED
      BY <1>1, <3>1
  <2>4. QED
    BY <1>2, <1>6, <1>12, <2>1, <2>2, <2>3, Zenon
<1>13. QED
  BY <1>8, <1>10, <1>11, <1>12, BlocksAfter, Zenon

LEMMA EndKeepsBlocks ==
  ASSUME TypeInvariant, BlockInvariant, Grown, NEW c, NEW x, Ends(c, x)
  PROVE  BlockInvariant'
<1>1. /\ c \in DOMAIN counts /\ x \in Count /\ counts' = [counts EXCEPT ![c] = x]
      /\ counts[c].status = "Draft" \/ Started(counts[c])
      /\ ~Started(x) /\ x.blocks = counts[c].blocks /\ RowBins(x) = RowBins(counts[c])
      /\ blocked' = blocked \ counts[c].blocks
  BY DEF Ends, Started
<1>2. DOMAIN counts' = DOMAIN counts /\ counts'[c] = x /\ \A d \in DOMAIN counts \ {c} : counts'[d] = counts[d]
  BY <1>1, CountsUpdates DEF TypeInvariant
<1>3. \A b : b \notin recalled' => b \notin recalled
  BY Zenon DEF Grown
<1>4. \A b : b \in counts[c].blocks => Holds(counts[c], b)
  BY <1>1 DEF Holds, TypeInvariant, CountsSound
<1>5. \A b : ~Holds(x, b)
  BY <1>1 DEF Holds
<1>6. \A d \in DOMAIN counts', b \in Bins : Holds(counts'[d], b) => d \in DOMAIN counts \ {c} /\ Holds(counts[d], b)
  BY <1>2, <1>5, Zenon
<1>7. \A d \in DOMAIN counts' : counts'[d].blocks \subseteq RowBins(counts'[d])
  BY <1>1, <1>2, BlocksAre, Zenon
<1>8. \A d, e \in DOMAIN counts', b \in Bins :
        d # e /\ b \notin recalled' /\ Holds(counts'[d], b) => ~Holds(counts'[e], b)
  BY <1>3, <1>6, BlocksAre, Zenon
<1>9. ASSUME NEW b \in Bins, b \in blocked' PROVE \E d \in DOMAIN counts' : Holds(counts'[d], b)
  <2>1. b \in blocked /\ ~Holds(counts[c], b)
    BY <1>1, <1>9 DEF Holds
  <2>2. PICK d \in DOMAIN counts : Holds(counts[d], b)
    BY <2>1, BlocksAre, Zenon
  <2>3. QED
    BY <1>2, <2>1, <2>2, Zenon
<1>10. ASSUME NEW d \in DOMAIN counts', NEW b \in Bins, b \notin recalled', Holds(counts'[d], b)
       PROVE  b \in blocked'
  <2>1. d \in DOMAIN counts \ {c} /\ Holds(counts[d], b) /\ b \notin recalled
    BY <1>3, <1>6, <1>10, Zenon
  <2>2. b \in blocked /\ ~Holds(counts[c], b)
    BY <1>1, <2>1, BlocksAre, Zenon
  <2>3. QED
    BY <1>1, <1>4, <2>2
<1>11. QED
  BY <1>7, <1>8, <1>9, <1>10, BlocksAfter, Zenon

LEMMA InitBlocks == Init => BlockInvariant
<1> SUFFICES ASSUME Init PROVE BlockInvariant
  OBVIOUS
<1>1. DOMAIN counts = {} /\ blocked = {}
  BY DEF Init
<1>2. QED
  BY <1>1, BlocksAre, Zenon

LEMMA NextBlocks ==
  ASSUME TypeInvariant, BlockInvariant, [Next]_vars
  PROVE  BlockInvariant'
<1>1. CASE Next
  <2>1. CountsStep /\ Remember
    BY <1>1, NextStep DEF Next
  <2>2. Grown
    BY <2>1, Remembered
  <2>3. QED
    BY <2>1, <2>2, DraftsKeepBlocks, GrowthKeepsBlocks, EndKeepsBlocks, Zenon DEF CountsStep
<1>2. CASE UNCHANGED vars
  <2>1. AddsDrafts /\ Grown
    BY <1>2 DEF vars, history, AddsDrafts, TypeInvariant, Grown
  <2>2. QED
    BY <2>1, DraftsKeepBlocks
<1>3. QED
  BY <1>1, <1>2

(* Whatever counts take up a bin, begin and end in whatever order, a bin that *)
(* a running count has blocked stays blocked until that count posts or is     *)
(* cancelled, and no bin is left blocked that no running count will release:  *)
(* Snapshot and AddFoundLine take to a count's blocks only bins that were not *)
(* blocked, and its last posting or its cancellation releases these alone.    *)
THEOREM BlocksAreKept == Spec => []BlockedByItsCount
<1>1. TypeInvariant /\ BlockInvariant /\ [Next]_vars => BlockInvariant'
  BY NextBlocks
<1>2. BlockInvariant => BlockedByItsCount
  BY DEF BlockInvariant
<1>3. QED
  BY InitTypes, InitBlocks, TypesKept, <1>1, <1>2, PTL DEF Spec

-----------------------------------------------------------------------------
(* What counts post, and what they are mirrored with. *)

\* A line has a ledger entry once it is posted, of its variance; the variance
\* is what was counted beyond the books of that moment.
Ledgered(row) == row.ledger = IF row.status = "Posted" THEN row.variance ELSE 0
Varies(row)   == row.variance = row.counted - row.atCount

LinesLedgered == \A c \in DOMAIN counts : \A b \in RowBins(counts[c]) \ again : Ledgered(counts[c].rows[b])
LedgerInvariant == LinesLedgered /\ (again = {} => MirroredIsPosted)

\* A started count is about stock that stands still: a line that is not posted
\* has the quantity on the books, and nobody is on the way to its bin; and no
\* two started counts have a bin in common.  It holds of the bins that nobody
\* touched in a way the code does not cope with.
Touched == disturbed \cup recalled \cup again
Still(row, b) == (row.status # "Posted" => row.book = book[b]) /\ ~OpenTaskAt(b)
BookInvariant ==
  /\ \A c \in DOMAIN counts : \A b \in RowBins(counts[c]) \ Touched : Varies(counts[c].rows[b])
  /\ \A c \in DOMAIN counts : Started(counts[c]) =>
       \A b \in RowBins(counts[c]) \ Touched : Still(counts[c].rows[b], b)
  /\ \A c, d \in DOMAIN counts : c # d /\ Started(counts[c]) /\ Started(counts[d]) =>
       RowBins(counts[c]) \cap RowBins(counts[d]) \subseteq Touched

LEMMA TouchedGrows ==
  ASSUME Grown
  PROVE  Touched \subseteq Touched' /\ again \subseteq again' /\ again \subseteq Touched
         /\ \A b : b \notin Touched' => b \notin disturbed' /\ b \notin recalled' /\ b \notin again'
BY DEF Grown, Touched

\* Count c is the only one that changes.
Relines(c) ==
  /\ c \in DOMAIN counts /\ DOMAIN counts' = DOMAIN counts /\ counts'[c] \in Count
  /\ \A d \in DOMAIN counts \ {c} : counts'[d] = counts[d]

LEMMA OnlyOneCount ==
  ASSUME TypeInvariant, TypeInvariant', NEW c \in DOMAIN counts, NEW x, counts' = [counts EXCEPT ![c] = x]
  PROVE  Relines(c) /\ counts'[c] = x
<1>1. counts \in Seq(Count) /\ counts' \in Seq(Count)
  BY DEF TypeInvariant
<1>2. DOMAIN counts' = DOMAIN counts /\ counts'[c] = x /\ \A d \in DOMAIN counts \ {c} : counts'[d] = counts[d]
  <2>1. DOMAIN [counts EXCEPT ![c] = x] = DOMAIN counts /\ [counts EXCEPT ![c] = x][c] = x
        /\ \A d \in DOMAIN counts \ {c} : [counts EXCEPT ![c] = x][d] = counts[d]
    OBVIOUS
  <2>2. QED
    BY <2>1
<1>3. \A d \in DOMAIN counts' : counts'[d] \in Count
  BY <1>1, CountsUpdates
<1>4. QED
  BY <1>2, <1>3 DEF Relines

LEMMA LedgersOf ==
  ASSUME NEW x \in Count
  PROVE  /\ IsFiniteSet(RowBins(x)) /\ \A b \in RowBins(x) : x.rows[b].ledger \in Int /\ x.rows[b].variance \in Int
         /\ PostedBy(x) = SumFunctionOnSet([b \in RowBins(x) |-> x.rows[b].ledger], RowBins(x))
         /\ PostedBy(x) \in Int
<1>1. RowBins(x) \subseteq Bins /\ \A b \in RowBins(x) : x.rows[b] \in CountRow
  BY CountFields
<1>2. IsFiniteSet(RowBins(x))
  BY <1>1, InventoryCountAssumption, FS_Subset
<1>3. \A b \in RowBins(x) : x.rows[b].ledger \in Int /\ x.rows[b].variance \in Int
  BY <1>1 DEF CountRow
<1> DEFINE f == [b \in RowBins(x) |-> x.rows[b].ledger]
<1>4. PostedBy(x) = SumFunctionOnSet(f, RowBins(x))
  BY DEF PostedBy, SumFunction
<1>5. \A b \in RowBins(x) : f[b] \in Int
  BY <1>3
<1> HIDE DEF f
<1>6. SumFunctionOnSet(f, RowBins(x)) \in Int
  BY <1>2, <1>5, SumInt
<1>7. QED
  BY <1>2, <1>3, <1>4, <1>6 DEF f

\* Lines whose ledger entries are kept, and lines without any, add nothing.
LEMMA SameLedgers ==
  ASSUME NEW x \in Count, NEW y \in Count, RowBins(x) \subseteq RowBins(y),
         \A b \in RowBins(y) : y.rows[b].ledger = IF b \in RowBins(x) THEN x.rows[b].ledger ELSE 0
  PROVE  PostedBy(y) = PostedBy(x)
<1> DEFINE f == [b \in RowBins(x) |-> x.rows[b].ledger]
           g == [b \in RowBins(y) |-> y.rows[b].ledger]
<1>1. /\ IsFiniteSet(RowBins(y)) /\ IsFiniteSet(RowBins(x))
      /\ \A b \in RowBins(y) : g[b] \in Int
      /\ \A b \in RowBins(y) \ RowBins(x) : g[b] = 0
      /\ \A b \in RowBins(x) : g[b] = f[b]
  BY LedgersOf
<1>2. PostedBy(x) = SumFunctionOnSet(f, RowBins(x)) /\ PostedBy(y) = SumFunctionOnSet(g, RowBins(y))
  BY LedgersOf
<1> HIDE DEF f, g
<1>3. SumFunctionOnSet(g, RowBins(y)) = SumFunctionOnSet(g, RowBins(x))
  BY <1>1, SumRestricted
<1>4. SumFunctionOnSet(g, RowBins(x)) = SumFunctionOnSet(f, RowBins(x))
  BY <1>1, SumEqual
<1>5. QED
  BY <1>2, <1>3, <1>4

\* Posting the lines of post adds their variances.
LEMMA PostedLedgers ==
  ASSUME NEW x \in Count, NEW y \in Count, RowBins(x) = RowBins(y), NEW post \in SUBSET RowBins(x),
         \A b \in RowBins(x) : y.rows[b].ledger = IF b \in post THEN x.rows[b].variance ELSE x.rows[b].ledger,
         \A b \in post : x.rows[b].ledger = 0
  PROVE  PostedBy(y) = PostedBy(x) + SumFunctionOnSet([b \in RowBins(x) |-> x.rows[b].variance], post)
<1> DEFINE S == RowBins(x)
           f == [b \in S |-> x.rows[b].ledger]
           h == [b \in S |-> y.rows[b].ledger]
           v == [b \in S |-> x.rows[b].variance]
           g == [b \in S |-> IF b \in post THEN x.rows[b].variance ELSE 0]
<1>1. /\ IsFiniteSet(S) /\ IsFiniteSet(post) /\ post \in SUBSET S
      /\ \A b \in S : x.rows[b].ledger \in Int /\ x.rows[b].variance \in Int
  BY LedgersOf, FS_Subset
<1>2. PostedBy(x) = SumFunctionOnSet(f, S) /\ PostedBy(y) = SumFunctionOnSet(h, S)
  BY LedgersOf
<1>3. \A b \in S : f[b] \in Int /\ g[b] \in Int /\ h[b] = f[b] + g[b]
  BY <1>1
<1>4. /\ \A b \in S : g[b] \in Int
      /\ \A b \in S \ post : g[b] = 0
      /\ \A b \in post : g[b] = v[b]
  BY <1>1
<1> HIDE DEF f, g, h, v, S
<1>5. SumFunctionOnSet(h, S) = SumFunctionOnSet(f, S) + SumFunctionOnSet(g, S)
  BY <1>1, <1>3, SumPlus
<1>6. SumFunctionOnSet(g, S) = SumFunctionOnSet(g, post)
  BY <1>1, <1>4, SumRestricted
<1>7. SumFunctionOnSet(g, post) = SumFunctionOnSet(v, post)
  BY <1>1, <1>4, SumEqual
<1>8. PostedBy(y) = PostedBy(x) + SumFunctionOnSet(v, post)
  BY <1>2, <1>5, <1>6, <1>7
<1>9. QED
  BY <1>8 DEF v, S

LEMMA PostedByCounts ==
  ASSUME TypeInvariant
  PROVE  /\ IsFiniteSet(DOMAIN counts) /\ \A c \in DOMAIN counts : PostedBy(counts[c]) \in Int
         /\ MirroredIsPosted <=>
              mirrored = SumFunctionOnSet([c \in DOMAIN counts |-> PostedBy(counts[c])], DOMAIN counts)
         /\ MirroredIsPosted => mirrored \in Int
<1>1. DOMAIN counts = 1..Len(counts) /\ Len(counts) \in Nat /\ \A c \in DOMAIN counts : counts[c] \in Count
  BY CountsUpdates DEF TypeInvariant
<1>2. IsFiniteSet(DOMAIN counts)
  BY <1>1, FS_Interval
<1>3. \A c \in DOMAIN counts : PostedBy(counts[c]) \in Int
  BY <1>1, LedgersOf
<1> DEFINE f == [c \in DOMAIN counts |-> PostedBy(counts[c])]
<1>4. MirroredIsPosted <=> mirrored = SumFunctionOnSet(f, DOMAIN counts)
  BY DEF MirroredIsPosted, SumFunction
<1>5. SumFunctionOnSet(f, DOMAIN counts) \in Int
  <2>1. \A c \in DOMAIN counts : f[c] \in Int
    BY <1>3
  <2> HIDE DEF f
  <2>2. QED
    BY <1>2, <2>1, SumInt
<1>6. QED
  BY <1>2, <1>3, <1>4, <1>5

-----------------------------------------------------------------------------
(* What each operation makes of the lines of its count. *)

LedgersKept(c) ==
  /\ Relines(c) /\ \A b \in RowBins(counts'[c]) \ again' : Ledgered(counts'[c].rows[b])
  /\ again' = {} => mirrored' = mirrored + (PostedBy(counts'[c]) - PostedBy(counts[c]))

BooksKept(c) ==
  /\ \A b \in RowBins(counts'[c]) \ Touched' : Varies(counts'[c].rows[b])
  /\ Started(counts'[c]) => \A b \in RowBins(counts'[c]) \ Touched' :
       (counts'[c].rows[b].status # "Posted" => counts'[c].rows[b].book = book'[b]) /\ ~OpenTaskAt(b)'
  /\ Started(counts'[c]) => counts[c].status # "Posted"
  /\ \A b \in Bins : /\ book'[b] = book[b] \/ (Started(counts[c]) /\ b \in RowBins(counts[c]))
                     /\ OpenTaskAt(b)' => OpenTaskAt(b)

\* What is known before each step of a count.
Before == TypeInvariant /\ TypeInvariant' /\ LedgerInvariant /\ Remember

LEMMA BeforeKnown ==
  ASSUME Before
  PROVE  /\ TypeInvariant /\ TypeInvariant' /\ Grown
         /\ again' = {} => again = {} /\ mirrored \in Int
         /\ \A b : b \notin again' => b \notin again
         /\ \A b : b \notin Touched' =>
              b \notin Touched /\ b \notin disturbed' /\ b \notin recalled' /\ b \notin again'
<1>1. TypeInvariant /\ TypeInvariant' /\ Grown
  BY Remembered DEF Before
<1>2. again' = {} => again = {} /\ mirrored \in Int
  <2>1. again' = {} => again = {}
    BY <1>1 DEF Grown
  <2>2. again = {} => mirrored \in Int
    BY <1>1, PostedByCounts DEF Before, LedgerInvariant
  <2>3. QED
    BY <2>1, <2>2
<1>3. QED
  BY <1>1, <1>2 DEF Grown, Touched

LEMMA LineKnown ==
  ASSUME Before, NEW c \in DOMAIN counts, NEW b \in RowBins(counts[c])
  PROVE  /\ b \notin again' => Ledgered(counts[c].rows[b])
         /\ BookInvariant /\ b \notin Touched' =>
              Varies(counts[c].rows[b]) /\ (Started(counts[c]) => Still(counts[c].rows[b], b))
<1>1. b \notin again' => Ledgered(counts[c].rows[b])
  BY BeforeKnown, Zenon DEF Before, LedgerInvariant, LinesLedgered
<1>2. b \notin Touched' => b \notin Touched
  BY BeforeKnown
<1>3. QED
  BY <1>1, <1>2, Zenon DEF BookInvariant

\* Stock stays as it is, and lines keep their ledger entries.
LEMMA LinesChange ==
  ASSUME NEW c, counts[c] \in Count, Relines(c), UNCHANGED <<stock, mirrored>>, Before,
         RowBins(counts[c]) \subseteq RowBins(counts'[c]),
         Started(counts'[c]) => counts[c].status # "Posted",
         \A b \in RowBins(counts'[c]) :
           /\ b \notin again' => Ledgered(counts'[c].rows[b])
           /\ counts'[c].rows[b].ledger = IF b \in RowBins(counts[c]) THEN counts[c].rows[b].ledger ELSE 0
  PROVE  /\ LedgersKept(c)
         /\ (\A b \in RowBins(counts'[c]) : b \notin Touched' =>
               /\ Varies(counts'[c].rows[b])
               /\ Started(counts'[c]) => Still(counts'[c].rows[b], b)) => BooksKept(c)
<1>1. counts'[c] \in Count
  BY DEF Relines
<1>2. PostedBy(counts'[c]) = PostedBy(counts[c]) /\ PostedBy(counts[c]) \in Int
  BY <1>1, SameLedgers, LedgersOf
<1>3. again' = {} => mirrored' = mirrored + (PostedBy(counts'[c]) - PostedBy(counts[c]))
  BY <1>2, BeforeKnown
<1>4. LedgersKept(c)
  BY <1>3 DEF LedgersKept
<1>5. /\ book' = book /\ \A b : OpenTaskAt(b)' <=> OpenTaskAt(b)
  BY DEF stock, OpenTaskAt
<1>6. QED
  BY <1>4, <1>5, Zenon DEF BooksKept, Still

LEMMA OpenFields ==
  ASSUME NEW b
  PROVE  /\ OpenRow(b).book = book[b] /\ OpenRow(b).status = "Open" /\ OpenRow(b).ledger = 0
         /\ OpenRow(b).variance = 0 /\ OpenRow(b).counted = 0 /\ OpenRow(b).atCount = 0
BY DEF OpenRow

LEMMA FoundFields ==
  ASSUME NEW b, NEW q
  PROVE  /\ FoundRow(b, q).book = 0 /\ FoundRow(b, q).status = "Counted" /\ FoundRow(b, q).ledger = 0
         /\ FoundRow(b, q).variance = q /\ FoundRow(b, q).counted = q /\ FoundRow(b, q).atCount = 0
BY DEF OpenRow, FoundRow

LEMMA CountedFields ==
  ASSUME NEW b, NEW q, NEW row \in CountRow
  PROVE  /\ CountedRow(row, b, q).book = row.book /\ CountedRow(row, b, q).status = "Counted"
         /\ CountedRow(row, b, q).ledger = row.ledger /\ CountedRow(row, b, q).variance = q - row.book
         /\ CountedRow(row, b, q).counted = q /\ CountedRow(row, b, q).atCount = book[b]
BY DEF CountedRow, CountRow

\* What is known of the count a line belongs to.
LEMMA CountKnown ==
  ASSUME TypeInvariant, NEW c \in DOMAIN counts
  PROVE  /\ counts[c] \in Count /\ RowBins(counts[c]) = DOMAIN counts[c].rows /\ RowBins(counts[c]) \subseteq Bins
         /\ \A b \in RowBins(counts[c]) : counts[c].rows[b] \in CountRow
         /\ counts[c].status = "Draft" => RowBins(counts[c]) = {}
         /\ counts[c].status = "Posted" => AllPosted(counts[c])
<1>1. counts[c] \in Count
  BY CountsUpdates DEF TypeInvariant
<1>2. QED
  BY <1>1, CountFields DEF TypeInvariant, CountsSound, RowBins

LEMMA SnapshotLines ==
  ASSUME Before, NEW c \in DOMAIN counts, Snapshot(c)
  PROVE  LedgersKept(c) /\ BooksKept(c)
<1>0. TypeInvariant /\ TypeInvariant'
  BY BeforeKnown
<1>1. counts[c] \in Count /\ counts[c].status = "Draft" /\ RowBins(counts[c]) = {}
  BY <1>0, CountKnown, Zenon DEF Snapshot
<1>2. PICK bins :
        /\ \A b \in bins : ~OpenTaskAt(b)
        /\ counts' = [counts EXCEPT ![c] =
             [@ EXCEPT !.status = "Counting", !.blocks = bins \ blocked, !.rows = [b \in bins |-> OpenRow(b)]]]
        /\ UNCHANGED <<stock, mirrored>>
  BY Zenon DEF Snapshot
<1> DEFINE rows == [b \in bins |-> OpenRow(b)]
           x == [counts[c] EXCEPT !.status = "Counting", !.blocks = bins \ blocked, !.rows = rows]
<1>3. x.rows = rows
  BY <1>1 DEF Count
<1>4. counts' = [counts EXCEPT ![c] = x]
  BY <1>2
<1> HIDE DEF x
<1>5. Relines(c) /\ counts'[c] = x
  BY <1>0, <1>4, OnlyOneCount
<1>6. RowBins(x) = bins /\ \A b \in bins : x.rows[b] = OpenRow(b)
  BY <1>3 DEF RowBins
<1>7. \A b \in bins : Ledgered(OpenRow(b)) /\ Varies(OpenRow(b)) /\ Still(OpenRow(b), b) /\ OpenRow(b).ledger = 0
  BY <1>2, OpenFields DEF Ledgered, Varies, Still
<1> HIDE DEF rows
<1>8. \A b \in RowBins(counts'[c]) :
        /\ Ledgered(counts'[c].rows[b]) /\ counts'[c].rows[b].ledger = 0
        /\ Varies(counts'[c].rows[b]) /\ Still(counts'[c].rows[b], b)
  BY <1>5, <1>6, <1>7
<1>9. QED
  BY <1>1, <1>2, <1>5, <1>8, LinesChange

LEMMA AddFoundLineLines ==
  ASSUME Before, NEW c \in DOMAIN counts, NEW b \in Bins,
         NEW q \in CountedQuantities, AddFoundLine(c, b, q)
  PROVE  LedgersKept(c) /\ (BookInvariant => BooksKept(c))
<1>0. TypeInvariant /\ TypeInvariant'
  BY BeforeKnown
<1>1. /\ counts[c] \in Count /\ RowBins(counts[c]) = DOMAIN counts[c].rows
      /\ Started(counts[c]) /\ q \in Nat
  BY <1>0, CountKnown, InventoryCountAssumption, Zenon DEF AddFoundLine, Started
<1> DEFINE old == counts[c].rows
           rows == [y \in DOMAIN old \cup {b} |-> IF y = b THEN FoundRow(b, q) ELSE old[y]]
           x == [counts[c] EXCEPT !.rows = rows, !.blocks = @ \cup ({b} \ blocked)]
<1>2. /\ counts' = [counts EXCEPT ![c] = x] /\ book[b] = 0 /\ b \notin RowBins(counts[c])
  BY DEF AddFoundLine
<1>3. UNCHANGED <<stock, mirrored>>
  BY Zenon DEF AddFoundLine
<1>4. x.rows = rows
  BY <1>1 DEF Count
<1> HIDE DEF x
<1>5. Relines(c) /\ counts'[c] = x
  BY <1>0, <1>2, OnlyOneCount
<1>6. /\ RowBins(x) = RowBins(counts[c]) \cup {b} /\ x.rows[b] = FoundRow(b, q)
      /\ \A y \in RowBins(counts[c]) : x.rows[y] = old[y]
  BY <1>1, <1>2, <1>4 DEF RowBins
<1> HIDE DEF rows
<1>7. b \notin Touched' => ~OpenTaskAt(b)
  <2>1. TakesUp(c, b)
    BY <1>2, <1>5, <1>6 DEF TakesUp
  <2>2. b \notin Touched' => ~Disturbs(b)
    BY BeforeKnown, Remembered DEF Before
  <2>3. QED
    BY <1>1, <2>1, <2>2 DEF Disturbs
<1>8. /\ Ledgered(FoundRow(b, q)) /\ Varies(FoundRow(b, q)) /\ FoundRow(b, q).ledger = 0
      /\ b \notin Touched' => Still(FoundRow(b, q), b)
  BY <1>1, <1>2, <1>7, FoundFields DEF Ledgered, Varies, Still
<1>9. \A y \in RowBins(counts[c]) :
        /\ y \notin again' => Ledgered(old[y])
        /\ BookInvariant /\ y \notin Touched' => Varies(old[y]) /\ Still(old[y], y)
  BY <1>1, LineKnown
<1> HIDE DEF old
<1>10. \A y \in RowBins(x) :
         /\ y \notin again' => Ledgered(x.rows[y])
         /\ BookInvariant /\ y \notin Touched' => Varies(x.rows[y]) /\ Still(x.rows[y], y)
  BY <1>6, <1>8, <1>9
<1>11. \A y \in RowBins(x) : x.rows[y].ledger = IF y \in RowBins(counts[c]) THEN counts[c].rows[y].ledger ELSE 0
  BY <1>2, <1>6, <1>8 DEF old
<1>12. QED
  BY <1>1, <1>3, <1>5, <1>6, <1>10, <1>11, LinesChange DEF Started

LEMMA RecordCountsLines ==
  ASSUME Before, NEW c \in DOMAIN counts, NEW b \in RowBins(counts[c]), NEW q \in CountedQuantities,
         RecordCounts(c, b, q)
  PROVE  LedgersKept(c) /\ (BookInvariant => BooksKept(c))
<1>0. TypeInvariant /\ TypeInvariant'
  BY BeforeKnown
<1>1. /\ counts[c] \in Count /\ RowBins(counts[c]) = DOMAIN counts[c].rows /\ b \in Bins
      /\ \A y \in RowBins(counts[c]) : counts[c].rows[y] \in CountRow
  BY <1>0, CountKnown
<1>2. Started(counts[c]) /\ UNCHANGED <<stock, mirrored>>
  BY DEF RecordCounts, Started
<1> DEFINE old == counts[c].rows
           rows == [old EXCEPT ![b] = CountedRow(@, b, q)]
           st == IF AnyRow(rows, {"Open"}) THEN "Counting" ELSE "Counted"
           x == [counts[c] EXCEPT !.rows = rows, !.status = st]
<1>3. counts' = [counts EXCEPT ![c] = x]
  BY DEF RecordCounts
<1>4. x.rows = rows
  BY <1>1 DEF Count
<1> HIDE DEF x
<1>5. Relines(c) /\ counts'[c] = x
  BY <1>0, <1>3, OnlyOneCount
<1>6. /\ RowBins(x) = RowBins(counts[c]) /\ x.rows[b] = CountedRow(old[b], b, q)
      /\ \A y \in RowBins(counts[c]) \ {b} : x.rows[y] = old[y]
  BY <1>1, <1>4 DEF RowBins
<1> HIDE DEF rows
<1>7. \A y \in RowBins(counts[c]) :
        /\ y \notin again' => Ledgered(old[y])
        /\ BookInvariant /\ y \notin Touched' => Varies(old[y]) /\ Still(old[y], y)
  BY <1>2, LineKnown
<1>8. /\ b \notin again' => Ledgered(x.rows[b])
      /\ x.rows[b].ledger = old[b].ledger
      /\ BookInvariant /\ b \notin Touched' => Varies(x.rows[b]) /\ Still(x.rows[b], b)
  <2>1. old[b] \in CountRow
    BY <1>1
  <2>2. /\ x.rows[b].book = old[b].book /\ x.rows[b].status = "Counted" /\ x.rows[b].ledger = old[b].ledger
        /\ x.rows[b].variance = q - old[b].book /\ x.rows[b].counted = q /\ x.rows[b].atCount = book[b]
    BY <1>6, <2>1, CountedFields
  <2>3. /\ b \notin again' => Ledgered(old[b])
        /\ BookInvariant /\ b \notin Touched' => Still(old[b], b)
    BY <1>7
  <2>4. b \notin again' => old[b].status # "Posted"
    <3>1. b \notin again' => ~RecordsAgain(c, b)
      BY <1>1, Remembered DEF Before
    <3>2. QED
      BY <1>5, <2>2, <3>1 DEF RecordsAgain
  <2>5. b \notin Touched' => b \notin again'
    BY BeforeKnown
  <2> HIDE DEF old
  <2>6. b \notin again' => Ledgered(x.rows[b])
    BY <2>2, <2>3, <2>4 DEF Ledgered
  <2>7. BookInvariant /\ b \notin Touched' => Varies(x.rows[b]) /\ Still(x.rows[b], b)
    BY <2>2, <2>3, <2>4, <2>5 DEF Varies, Still
  <2>8. QED
    BY <2>2, <2>6, <2>7
<1>9. \A y \in RowBins(x) :
        /\ y \notin again' => Ledgered(x.rows[y])
        /\ x.rows[y].ledger = IF y \in RowBins(counts[c]) THEN counts[c].rows[y].ledger ELSE 0
  BY <1>6, <1>7, <1>8
<1>10. \A y \in RowBins(x) : BookInvariant /\ y \notin Touched' => Varies(x.rows[y]) /\ Still(x.rows[y], y)
  BY <1>6, <1>7, <1>8
<1>11. QED
  BY <1>1, <1>2, <1>5, <1>6, <1>9, <1>10, LinesChange DEF Started

LEMMA ReopenedFields ==
  ASSUME NEW rows, NEW b \in DOMAIN rows, rows[b] \in CountRow
  PROVE  /\ Reopened(rows)[b].book = rows[b].book /\ Reopened(rows)[b].ledger = rows[b].ledger
         /\ rows[b].status # "Pending Recount" => Reopened(rows)[b] = rows[b]
         /\ rows[b].status = "Pending Recount" =>
              /\ Reopened(rows)[b].status = "Open" /\ Reopened(rows)[b].variance = 0
              /\ Reopened(rows)[b].counted = 0 /\ Reopened(rows)[b].atCount = 0
<1>1. CASE rows[b].status # "Pending Recount"
  BY <1>1 DEF Reopened
<1>2. CASE rows[b].status = "Pending Recount"
  <2>1. PICK n : Reopened(rows)[b] = [rows[b] EXCEPT !.recounts = n, !.counted = 0, !.atCount = 0,
                                                     !.variance = 0, !.status = "Open"]
    BY <1>2 DEF Reopened
  <2>2. QED
    BY <1>2, <2>1 DEF CountRow
<1>3. QED
  BY <1>1, <1>2

LEMMA RequestRecountLines ==
  ASSUME Before, NEW c \in DOMAIN counts, RequestRecount(c)
  PROVE  LedgersKept(c) /\ (BookInvariant => BooksKept(c))
<1>0. TypeInvariant /\ TypeInvariant'
  BY BeforeKnown
<1>1. /\ counts[c] \in Count /\ RowBins(counts[c]) = DOMAIN counts[c].rows
      /\ \A y \in RowBins(counts[c]) : counts[c].rows[y] \in CountRow
      /\ counts[c].status = "Draft" => RowBins(counts[c]) = {}
      /\ counts[c].status = "Posted" => AllPosted(counts[c])
      /\ counts[c].status \in CountStatus
  BY <1>0, CountKnown, CountFields
<1>2. counts[c].status = "Cancelled" \/ Started(counts[c])
  <2>1. PICK b \in RowBins(counts[c]) : counts[c].rows[b].status # "Posted"
    BY DEF RequestRecount, AnyRow, RowBins
  <2>2. counts[c].status # "Draft" /\ counts[c].status # "Posted"
    BY <1>1, <2>1 DEF AllPosted
  <2>3. QED
    BY <1>1, <2>2 DEF RequestRecount, Started, CountStatus
<1> DEFINE old == counts[c].rows
           rows == Reopened(old)
           x == [counts[c] EXCEPT !.status = "Counting", !.rows = rows]
<1>3. counts' = [counts EXCEPT ![c] = x] /\ UNCHANGED <<stock, mirrored>>
  BY DEF RequestRecount
<1>4. x.rows = rows /\ x.status = "Counting"
  BY <1>1 DEF Count
<1> HIDE DEF x
<1>5. Relines(c) /\ counts'[c] = x
  BY <1>0, <1>3, OnlyOneCount
<1>6. RowBins(x) = RowBins(counts[c])
  BY <1>1, <1>4 DEF RowBins, Reopened
<1>7. ASSUME NEW y \in RowBins(counts[c])
      PROVE  /\ (y \notin again' => Ledgered(x.rows[y])) /\ x.rows[y].ledger = counts[c].rows[y].ledger
             /\ BookInvariant /\ y \notin Touched' => Varies(x.rows[y]) /\ Still(x.rows[y], y)
  <2>0. y \notin Touched' => Started(counts[c])
    <3>1. y \notin Touched' => ~Recalls(c)
      BY <1>0, <1>1, BeforeKnown, CountKnown, Remembered, Zenon DEF Before
    <3>2. counts'[c].status # "Cancelled"
      BY <1>4, <1>5
    <3>3. QED
      BY <1>2, <3>1, <3>2 DEF Recalls
  <2>1. /\ y \notin again' => Ledgered(old[y])
        /\ BookInvariant /\ y \notin Touched' => Varies(old[y]) /\ Still(old[y], y)
    BY <2>0, LineKnown
  <2>2. /\ x.rows[y].book = old[y].book /\ x.rows[y].ledger = old[y].ledger
        /\ old[y].status # "Pending Recount" => x.rows[y] = old[y]
        /\ old[y].status = "Pending Recount" =>
             /\ x.rows[y].status = "Open" /\ x.rows[y].variance = 0
             /\ x.rows[y].counted = 0 /\ x.rows[y].atCount = 0
    <3>1. y \in DOMAIN old /\ old[y] \in CountRow /\ x.rows = Reopened(old)
      BY <1>1, <1>4
    <3> HIDE DEF old, rows
    <3> DEFINE new == Reopened(old)
    <3>2. /\ new[y].book = old[y].book /\ new[y].ledger = old[y].ledger
          /\ old[y].status # "Pending Recount" => new[y] = old[y]
          /\ old[y].status = "Pending Recount" =>
               /\ new[y].status = "Open" /\ new[y].variance = 0
               /\ new[y].counted = 0 /\ new[y].atCount = 0
      BY <3>1, ReopenedFields
    <3> HIDE DEF new
    <3>3. x.rows = new
      BY <3>1 DEF new
    <3>4. QED
      BY <3>2, <3>3
  <2> HIDE DEF old, rows
  <2>3. CASE old[y].status # "Pending Recount"
    BY <2>1, <2>2, <2>3 DEF old
  <2>4. CASE old[y].status = "Pending Recount"
    <3>0. /\ x.rows[y].status = "Open" /\ x.rows[y].variance = 0 /\ x.rows[y].counted = 0
          /\ x.rows[y].atCount = 0 /\ (y \notin again' => x.rows[y].ledger = 0)
      BY <2>1, <2>2, <2>4 DEF Ledgered
    <3>1. (y \notin again' => Ledgered(x.rows[y])) /\ Varies(x.rows[y])
      BY <3>0 DEF Ledgered, Varies
    <3>2. BookInvariant /\ y \notin Touched' => Still(x.rows[y], y)
      BY <2>1, <2>2, <2>4 DEF Still
    <3>3. QED
      BY <2>2, <3>1, <3>2 DEF old
  <2>5. QED
    BY <2>3, <2>4
<1>8. QED
  BY <1>1, <1>2, <1>3, <1>5, <1>6, <1>7, LinesChange DEF Started

LEMMA CancelCountLines ==
  ASSUME Before, NEW c \in DOMAIN counts, CancelCount(c)
  PROVE  LedgersKept(c) /\ (BookInvariant => BooksKept(c))
<1>0. TypeInvariant /\ TypeInvariant'
  BY BeforeKnown
<1>1. counts[c] \in Count
  BY <1>0, CountKnown
<1> DEFINE x == [counts[c] EXCEPT !.status = "Cancelled"]
<1>2. x.rows = counts[c].rows /\ x.status = "Cancelled"
  BY <1>1 DEF Count
<1>3. counts' = [counts EXCEPT ![c] = x] /\ UNCHANGED <<stock, mirrored>>
  BY DEF CancelCount
<1> HIDE DEF x
<1>4. Relines(c) /\ counts'[c] = x
  BY <1>0, <1>3, OnlyOneCount
<1>5. RowBins(x) = RowBins(counts[c]) /\ ~Started(x)
  BY <1>2 DEF RowBins, Started
<1>6. \A b \in RowBins(counts[c]) :
        /\ (b \notin again' => Ledgered(x.rows[b])) /\ x.rows[b].ledger = counts[c].rows[b].ledger
        /\ BookInvariant /\ b \notin Touched' => Varies(x.rows[b])
  BY <1>2, LineKnown
<1>7. QED
  BY <1>1, <1>3, <1>4, <1>5, <1>6, LinesChange

\* A pass: the lines of post were not posted and are now; of the other ones only
\* those without a variance become posted.
Passes(rows, post, after) ==
  /\ post \subseteq DOMAIN rows
  /\ \A b \in post : rows[b].status # "Posted" /\ after[b] = "Posted"
  /\ \A b \in DOMAIN rows \ post : after[b] = "Posted" => rows[b].status = "Posted" \/ rows[b].variance = 0
  /\ \A b \in DOMAIN rows : rows[b].status = "Posted" => after[b] = "Posted"

LEMMA PassedFields ==
  ASSUME NEW row \in CountRow, NEW st, NEW n
  PROVE  /\ [row EXCEPT !.status = st, !.ledger = n].status = st /\ [row EXCEPT !.status = st, !.ledger = n].ledger = n
         /\ [row EXCEPT !.status = st, !.ledger = n].book = row.book
         /\ [row EXCEPT !.status = st, !.ledger = n].variance = row.variance
         /\ [row EXCEPT !.status = st, !.ledger = n].counted = row.counted
         /\ [row EXCEPT !.status = st, !.ledger = n].atCount = row.atCount
BY DEF CountRow

LEMMA PostRowsLines ==
  ASSUME Before, NEW c \in DOMAIN counts, Started(counts[c]),
         NEW post, NEW after, Passes(counts[c].rows, post, after), PostRows(c, post, after)
  PROVE  LedgersKept(c) /\ (BookInvariant => BooksKept(c))
<1>0. TypeInvariant /\ TypeInvariant'
  BY BeforeKnown
<1>1. /\ counts[c] \in Count /\ RowBins(counts[c]) = DOMAIN counts[c].rows /\ RowBins(counts[c]) \subseteq Bins
      /\ \A b \in RowBins(counts[c]) : counts[c].rows[b] \in CountRow
  BY <1>0, CountKnown
<1> DEFINE old == counts[c].rows
           fresh == {b \in post : old[b].ledger = 0}
           rows == [b \in DOMAIN old |->
                      [old[b] EXCEPT !.status = after[b],
                                     !.ledger = IF b \in fresh THEN old[b].variance ELSE old[b].ledger]]
           st == PicStatus(after, counts[c].status)
           x == [counts[c] EXCEPT !.status = st, !.rows = rows]
<1>2. /\ counts' = [counts EXCEPT ![c] = x]
      /\ book' = [b \in Bins |-> IF b \in fresh THEN book[b] + old[b].variance ELSE book[b]]
      /\ mirrored' = Mirrored(old, post)
      /\ UNCHANGED <<allocated, picks, move>>
  BY DEF PostRows
<1>3. x.rows = rows
  BY <1>1 DEF Count
<1> HIDE DEF x, st
<1>4. Relines(c) /\ counts'[c] = x
  BY <1>0, <1>2, OnlyOneCount
<1>5. /\ \A b \in RowBins(counts[c]) : b \notin again' => Ledgered(old[b])
      /\ \A b \in post : b \in RowBins(counts[c]) /\ old[b].status # "Posted"
  BY <1>1, LineKnown DEF Passes
<1>6. /\ fresh \subseteq post
      /\ \A b \in post : b \notin again' => b \in fresh /\ old[b].ledger = 0
  BY <1>5 DEF Ledgered
<1>7. \A b \in RowBins(counts[c]) :
        /\ x.rows[b].status = after[b] /\ x.rows[b].book = old[b].book /\ x.rows[b].variance = old[b].variance
        /\ x.rows[b].counted = old[b].counted /\ x.rows[b].atCount = old[b].atCount
        /\ x.rows[b].ledger = IF b \in fresh THEN old[b].variance ELSE old[b].ledger
  <2> SUFFICES ASSUME NEW b \in RowBins(counts[c])
               PROVE  /\ x.rows[b].status = after[b] /\ x.rows[b].book = old[b].book
                      /\ x.rows[b].variance = old[b].variance
                      /\ x.rows[b].counted = old[b].counted /\ x.rows[b].atCount = old[b].atCount
                      /\ x.rows[b].ledger = IF b \in fresh THEN old[b].variance ELSE old[b].ledger
    BY Zenon
  <2>1. old[b] \in CountRow
    BY <1>1
  <2>2. x.rows[b] = [old[b] EXCEPT !.status = after[b], !.ledger = IF b \in fresh THEN old[b].variance ELSE old[b].ledger]
    BY <1>1, <1>3
  <2> HIDE DEF old, fresh, rows
  <2>3. QED
    BY <2>1, <2>2, PassedFields
<1>8. RowBins(x) = RowBins(counts[c])
  BY <1>1, <1>3 DEF RowBins
<1> HIDE DEF rows, fresh
<1>9. \A b \in RowBins(x) : b \notin again' => Ledgered(x.rows[b])
  <2> SUFFICES ASSUME NEW b \in RowBins(counts[c]), b \notin again' PROVE Ledgered(x.rows[b])
    BY <1>8
  <2>1. /\ b \in post => after[b] = "Posted"
        /\ b \notin post /\ after[b] = "Posted" => old[b].status = "Posted" \/ old[b].variance = 0
        /\ old[b].status = "Posted" => after[b] = "Posted"
    BY <1>1 DEF Passes
  <2>2. Ledgered(old[b]) /\ (b \in fresh <=> b \in post)
    BY <1>5, <1>6
  <2> HIDE DEF old
  <2>3. QED
    BY <1>7, <2>1, <2>2 DEF Ledgered
<1>10. ASSUME again' = {}
       PROVE  PostedBy(x) = PostedBy(counts[c]) + SumFunctionOnSet([b \in RowBins(counts[c]) |-> old[b].variance], post)
  <2>1. x \in Count
    BY <1>4 DEF Relines
  <2>2. post \in SUBSET RowBins(counts[c])
    BY <1>5
  <2>3. fresh = post
    BY <1>6, <1>10
  <2>4. \A b \in RowBins(counts[c]) :
          x.rows[b].ledger = IF b \in post THEN counts[c].rows[b].variance ELSE counts[c].rows[b].ledger
    BY <1>7, <2>3
  <2>5. \A b \in post : counts[c].rows[b].ledger = 0
    BY <1>6, <1>10
  <2>6. QED
    BY <1>1, <1>8, <2>1, <2>2, <2>4, <2>5, PostedLedgers
<1>11. ASSUME again' = {} PROVE mirrored' = mirrored + (PostedBy(x) - PostedBy(counts[c]))
  <2> DEFINE sum == SumFunctionOnSet([b \in RowBins(counts[c]) |-> old[b].variance], post)
  <2>1. mirrored' = mirrored + sum /\ mirrored \in Int
    BY <1>1, <1>2, <1>11, BeforeKnown DEF Mirrored
  <2>2. PostedBy(x) \in Int /\ PostedBy(counts[c]) \in Int
    BY <1>1, <1>4, LedgersOf DEF Relines
  <2>3. sum \in Int
    <3>1. \A b \in post : [y \in RowBins(counts[c]) |-> old[y].variance][b] \in Int
      BY <1>1, <1>5 DEF CountRow
    <3>2. IsFiniteSet(post)
      BY <1>1, <1>5, LedgersOf, FS_Subset
    <3>3. QED
      BY <3>1, <3>2, SumInt
  <2> HIDE DEF sum
  <2>4. PostedBy(x) = PostedBy(counts[c]) + sum
    BY <1>10, <1>11 DEF sum
  <2>5. QED
    BY <2>1, <2>2, <2>3, <2>4
<1>12. LedgersKept(c)
  BY <1>4, <1>9, <1>11 DEF LedgersKept
<1>13. ASSUME BookInvariant PROVE BooksKept(c)
  <2>1. \A b \in RowBins(counts[c]) : b \notin Touched' => Varies(old[b]) /\ Still(old[b], b)
    BY <1>13, LineKnown
  <2>2. \A b \in Bins : b \notin post => book'[b] = book[b]
    BY <1>2, <1>6
  <2>3. \A b : OpenTaskAt(b)' <=> OpenTaskAt(b)
    BY <1>2 DEF OpenTaskAt
  <2>4. \A b \in RowBins(x) : b \notin Touched' => Varies(x.rows[b])
    BY <1>7, <1>8, <2>1 DEF Varies
  <2>5. \A b \in RowBins(x) : b \notin Touched' /\ x.rows[b].status # "Posted" => x.rows[b].book = book'[b]
    <3> SUFFICES ASSUME NEW b \in RowBins(counts[c]), b \notin Touched', x.rows[b].status # "Posted"
                 PROVE  x.rows[b].book = book'[b]
      BY <1>8
    <3>1. b \notin post /\ old[b].status # "Posted"
      BY <1>1, <1>7 DEF Passes
    <3>2. QED
      BY <1>1, <1>7, <2>1, <2>2, <3>1 DEF Still
  <2>6. \A b \in RowBins(x) : b \notin Touched' => ~OpenTaskAt(b)'
    BY <1>8, <2>1, <2>3 DEF Still
  <2>7. counts[c].status # "Posted"
    BY DEF Started
  <2> HIDE DEF old
  <2>8. QED
    BY <1>4, <1>5, <2>2, <2>3, <2>4, <2>5, <2>6, <2>7, Zenon DEF BooksKept
<1>14. QED
  BY <1>12, <1>13

LEMMA PassLines ==
  ASSUME Before, NEW c \in DOMAIN counts,
         PostCount(c) \/ ApproveVariance(c)
  PROVE  LedgersKept(c) /\ (BookInvariant => BooksKept(c))
<1> DEFINE old == counts[c].rows
<1>1. CASE PostCount(c)
  <2> DEFINE after == [b \in DOMAIN old |-> Outcome(old[b])]
             post == {b \in DOMAIN old : after[b] = "Posted" /\ old[b].status # "Posted" /\ old[b].variance # 0}
  <2>1. Started(counts[c]) /\ PostRows(c, post, after)
    BY <1>1 DEF PostCount, Started
  <2>2. Passes(old, post, after)
    BY DEF Passes, Outcome
  <2> HIDE DEF after, post
  <2>3. QED
    BY <2>1, <2>2, PostRowsLines
<1>2. CASE ApproveVariance(c)
  <2> DEFINE after == [b \in DOMAIN old |-> IF old[b].status = "Pending Approval" THEN "Posted" ELSE old[b].status]
             post == {b \in DOMAIN old : old[b].status = "Pending Approval"}
  <2>1. Started(counts[c]) /\ PostRows(c, post, after)
    BY <1>2 DEF ApproveVariance, Started
  <2>2. Passes(old, post, after)
    BY DEF Passes
  <2> HIDE DEF after, post
  <2>3. QED
    BY <2>1, <2>2, PostRowsLines
<1>3. QED
  BY <1>1, <1>2
-----------------------------------------------------------------------------
(* The sum over the counts, and the lines of the other ones. *)

LEMMA RelinesKeepLedgers ==
  ASSUME Before, NEW c, LedgersKept(c)
  PROVE  LedgerInvariant'
<1>1. /\ c \in DOMAIN counts /\ DOMAIN counts' = DOMAIN counts /\ counts'[c] \in Count
      /\ \A d \in DOMAIN counts \ {c} : counts'[d] = counts[d]
      /\ \A b \in RowBins(counts'[c]) \ again' : Ledgered(counts'[c].rows[b])
      /\ again' = {} => mirrored' = mirrored + (PostedBy(counts'[c]) - PostedBy(counts[c]))
  BY Zenon DEF LedgersKept, Relines
<1>2. TypeInvariant /\ TypeInvariant' /\ (again' = {} => again = {} /\ mirrored \in Int)
  BY BeforeKnown
<1>3. LinesLedgered'
  <2>0. \A d \in DOMAIN counts : \A b \in RowBins(counts[d]) \ again' : Ledgered(counts[d].rows[b])
    BY LineKnown, Zenon
  <2>1. \A d \in DOMAIN counts' : \A b \in RowBins(counts'[d]) \ again' : Ledgered(counts'[d].rows[b])
    BY <1>1, <2>0, Zenon
  <2>2. QED
    BY <2>1, Zenon DEF LinesLedgered, RowBins, Ledgered
<1>4. ASSUME again' = {} PROVE MirroredIsPosted'
  <2> DEFINE S == DOMAIN counts
             f == [d \in S |-> PostedBy(counts[d])]
             g == [d \in S |-> PostedBy(counts'[d])]
  <2>1. IsFiniteSet(S) /\ c \in S /\ \A d \in S : PostedBy(counts[d]) \in Int
    BY <1>1, <1>2, PostedByCounts
  <2>2. PostedBy(counts'[c]) \in Int
    BY <1>1, LedgersOf
  <2>3. /\ \A d \in S : f[d] \in Int
        /\ g[c] \in Int /\ g[c] = PostedBy(counts'[c]) /\ f[c] = PostedBy(counts[c])
        /\ \A d \in S \ {c} : g[d] = f[d]
    BY <1>1, <2>1, <2>2
  <2>4. mirrored = SumFunctionOnSet(f, S)
    BY <1>2, <1>4, PostedByCounts DEF Before, LedgerInvariant
  <2> HIDE DEF f, g, S
  <2>5. SumFunctionOnSet(g, S) = SumFunctionOnSet(f, S) + (g[c] - f[c])
    BY <2>1, <2>3, SumChange
  <2>6. mirrored' = SumFunctionOnSet(g, S)
    BY <1>1, <1>4, <2>3, <2>4, <2>5
  <2>7. mirrored' = SumFunctionOnSet([d \in DOMAIN counts' |-> PostedBy(counts'[d])], DOMAIN counts')
    BY <1>1, <2>6 DEF g, S
  <2>8. QED
    BY <2>7, Zenon DEF MirroredIsPosted, SumFunction, PostedBy, RowBins
<1>5. QED
  BY <1>3, <1>4 DEF LedgerInvariant

LEMMA DraftsKeepLedgers ==
  ASSUME TypeInvariant, TypeInvariant', LedgerInvariant, Grown, AddsDrafts, mirrored' = mirrored
  PROVE  LedgerInvariant'
<1>1. /\ DOMAIN counts \subseteq DOMAIN counts' /\ \A c \in DOMAIN counts : counts'[c] = counts[c]
      /\ \A c \in DOMAIN counts' \ DOMAIN counts : RowBins(counts'[c]) = {}
  BY DEF AddsDrafts
<1>2. LinesLedgered'
  <2>0. \A b : b \notin again' => b \notin again
    BY DEF Grown
  <2>1. \A d \in DOMAIN counts' : \A b \in RowBins(counts'[d]) \ again' : Ledgered(counts'[d].rows[b])
    BY <1>1, <2>0 DEF LedgerInvariant, LinesLedgered
  <2>2. QED
    BY <2>1, Zenon DEF LinesLedgered, RowBins, Ledgered
<1> DEFINE S == DOMAIN counts
           T == DOMAIN counts'
           f == [d \in S |-> PostedBy(counts[d])]
           g == [d \in T |-> PostedBy(counts'[d])]
<1>3. IsFiniteSet(S) /\ IsFiniteSet(T) /\ S \in SUBSET T
  <2>1. IsFiniteSet(DOMAIN counts)
    BY PostedByCounts
  <2>2. counts' \in Seq(Count)
    BY DEF TypeInvariant
  <2>3. DOMAIN counts' = 1..Len(counts') /\ Len(counts') \in Nat
    BY <2>2, CountsUpdates
  <2>4. IsFiniteSet(DOMAIN counts')
    BY <2>3, FS_Interval
  <2>5. QED
    BY <1>1, <2>1, <2>4
<1>4. \A c \in T \ S : PostedBy(counts'[c]) = 0
  <2> SUFFICES ASSUME NEW c \in T \ S PROVE PostedBy(counts'[c]) = 0
    OBVIOUS
  <2> DEFINE h == [b \in RowBins(counts'[c]) |-> counts'[c].rows[b].ledger]
  <2>1. RowBins(counts'[c]) = {}
    BY <1>1
  <2>2. PostedBy(counts'[c]) = SumFunctionOnSet(h, {})
    BY <2>1 DEF PostedBy, SumFunction
  <2> HIDE DEF h
  <2>3. QED
    BY <2>2, SumEmpty
<1>5. \A c \in S : f[c] \in Int /\ g[c] = f[c]
  BY <1>1, PostedByCounts
<1>6. \A c \in T \ S : g[c] = 0
  BY <1>4
<1>7. ASSUME NEW c \in T PROVE g[c] \in Int
  <2>1. CASE c \in S
    <3> HIDE DEF f, g, S, T
    <3>1. QED
      BY <1>5, <2>1
  <2>2. CASE c \notin S
    <3> HIDE DEF f, g, S, T
    <3>1. QED
      BY <1>6, <2>2
  <2>3. QED
    BY <2>1, <2>2
<1>8. again' = {} => mirrored = SumFunctionOnSet(f, S)
  <2>1. again' = {} => again = {}
    BY DEF Grown
  <2>2. QED
    BY <2>1, PostedByCounts DEF LedgerInvariant
<1> HIDE DEF f, g, S, T
<1>9. SumFunctionOnSet(g, T) = SumFunctionOnSet(g, S) /\ SumFunctionOnSet(g, S) = SumFunctionOnSet(f, S)
  <2>1. SumFunctionOnSet(g, T) = SumFunctionOnSet(g, S)
    BY <1>3, <1>7, <1>6, SumRestricted
  <2>2. SumFunctionOnSet(g, S) = SumFunctionOnSet(f, S)
    BY <1>3, <1>5, SumEqual
  <2>3. QED
    BY <2>1, <2>2
<1>10. ASSUME again' = {} PROVE MirroredIsPosted'
  <2>1. mirrored' = SumFunctionOnSet([d \in DOMAIN counts' |-> PostedBy(counts'[d])], DOMAIN counts')
    BY <1>8, <1>9, <1>10 DEF g, T
  <2>2. QED
    BY <2>1, Zenon DEF MirroredIsPosted, SumFunction, PostedBy, RowBins
<1>11. QED
  BY <1>2, <1>10 DEF LedgerInvariant

LEMMA BooksAfter ==
  ASSUME \A c \in DOMAIN counts' : \A b \in RowBins(counts'[c]) \ Touched' : Varies(counts'[c].rows[b]),
         \A c \in DOMAIN counts' : Started(counts'[c]) => \A b \in RowBins(counts'[c]) \ Touched' :
           (counts'[c].rows[b].status # "Posted" => counts'[c].rows[b].book = book'[b]) /\ ~OpenTaskAt(b)',
         \A c, d \in DOMAIN counts' : c # d /\ Started(counts'[c]) /\ Started(counts'[d]) =>
           RowBins(counts'[c]) \cap RowBins(counts'[d]) \subseteq Touched'
  PROVE  BookInvariant'
BY Zenon DEF BookInvariant, Still, Started, RowBins, Varies

LEMMA RelinesKeepBooks ==
  ASSUME Before, BookInvariant, NEW c, Relines(c), BooksKept(c)
  PROVE  BookInvariant'
<1>1. /\ c \in DOMAIN counts /\ DOMAIN counts' = DOMAIN counts
      /\ \A d \in DOMAIN counts \ {c} : counts'[d] = counts[d]
  BY DEF Relines
<1>2. /\ TypeInvariant
      /\ \A b : b \notin Touched' => b \notin Touched /\ b \notin disturbed' /\ b \notin recalled'
  BY BeforeKnown
<1>3. \A d \in DOMAIN counts : RowBins(counts[d]) \subseteq Bins
  BY <1>2, CountKnown
<1>4. \A b \in Bins : /\ book'[b] = book[b] \/ (Started(counts[c]) /\ b \in RowBins(counts[c]))
                      /\ OpenTaskAt(b)' => OpenTaskAt(b)
  BY Zenon DEF BooksKept
\* A started count shares no bin with the one that changes.
<1>5. ASSUME NEW d \in DOMAIN counts \ {c}, Started(counts[d]), NEW b \in RowBins(counts[d]), b \notin Touched'
      PROVE  /\ ~(Started(counts[c]) /\ b \in RowBins(counts[c]))
             /\ ~(Started(counts'[c]) /\ b \in RowBins(counts'[c]))
  <2>1. ~(Started(counts[c]) /\ b \in RowBins(counts[c]))
    BY <1>1, <1>2, <1>5 DEF BookInvariant
  <2>2. ASSUME Started(counts'[c]), b \in RowBins(counts'[c]) PROVE FALSE
    <3>1. b \in Bins /\ b \notin disturbed' /\ b \notin recalled'
      BY <1>2, <1>3, <1>5
    <3>2. CASE b \in RowBins(counts[c])
      <4>1. counts[c] \in Count /\ counts[c].status \notin {"Draft", "Posted"}
        BY <1>1, <1>2, <2>2, <3>2, CountKnown DEF BooksKept
      <4>2. ~Recalls(c)
        BY <1>1, <3>1, <3>2, Remembered, Zenon DEF Before
      <4>3. counts[c].status # "Cancelled"
        BY <2>2, <4>2 DEF Recalls, Started
      <4>4. counts[c].status \in CountStatus
        BY <4>1, CountFields
      <4>5. Started(counts[c])
        BY <4>1, <4>3, <4>4 DEF Started, CountStatus
      <4>6. QED
        BY <2>1, <3>2, <4>5
    <3>3. CASE b \notin RowBins(counts[c])
      <4>1. TakesUp(c, b) /\ BeingCounted(b)
        BY <1>5, <2>2, <3>3 DEF TakesUp, BeingCounted
      <4>2. Disturbs(b)
        BY <1>1, <4>1, Zenon DEF Disturbs
      <4>3. QED
        BY <3>1, <4>2, Remembered, Zenon DEF Before
    <3>4. QED
      BY <3>2, <3>3
  <2>3. QED
    BY <2>1, <2>2
<1>6. \A d \in DOMAIN counts' : \A b \in RowBins(counts'[d]) \ Touched' : Varies(counts'[d].rows[b])
  <2>1. \A b \in RowBins(counts'[c]) \ Touched' : Varies(counts'[c].rows[b])
    BY Zenon DEF BooksKept
  <2>2. \A d \in DOMAIN counts \ {c} : \A b \in RowBins(counts[d]) \ Touched' : Varies(counts[d].rows[b])
    BY <1>2, Zenon DEF BookInvariant
  <2>3. QED
    BY <1>1, <2>1, <2>2, Zenon
<1>7. ASSUME NEW d \in DOMAIN counts', Started(counts'[d]), NEW b \in RowBins(counts'[d]) \ Touched'
      PROVE  (counts'[d].rows[b].status # "Posted" => counts'[d].rows[b].book = book'[b]) /\ ~OpenTaskAt(b)'
  <2>1. CASE d = c
    BY <1>7, <2>1, Zenon DEF BooksKept
  <2>2. CASE d # c
    <3>1. counts'[d] = counts[d] /\ d \in DOMAIN counts /\ b \in Bins /\ b \notin Touched
      BY <1>1, <1>2, <1>3, <1>7, <2>2
    <3>2. Still(counts[d].rows[b], b)
      BY <1>7, <3>1, Zenon DEF BookInvariant
    <3>3. ~(Started(counts[c]) /\ b \in RowBins(counts[c]))
      BY <1>5, <1>7, <2>2, <3>1
    <3>4. book'[b] = book[b] /\ (OpenTaskAt(b)' => OpenTaskAt(b))
      BY <1>4, <3>1, <3>3, Zenon
    <3>5. (counts[d].rows[b].status # "Posted" => counts[d].rows[b].book = book[b]) /\ ~OpenTaskAt(b)
      BY <3>2, Zenon DEF Still
    <3>6. QED
      BY <3>1, <3>4, <3>5, Zenon
  <2>3. QED
    BY <2>1, <2>2
<1>8. ASSUME NEW d \in DOMAIN counts', NEW e \in DOMAIN counts', d # e, Started(counts'[d]), Started(counts'[e]),
             NEW b \in RowBins(counts'[d]) \cap RowBins(counts'[e]), b \notin Touched'
      PROVE  FALSE
  <2>1. CASE d = c
    BY <1>1, <1>5, <1>8, <2>1
  <2>2. CASE e = c
    BY <1>1, <1>5, <1>8, <2>2
  <2>3. CASE d # c /\ e # c
    <3>1. counts'[d] = counts[d] /\ counts'[e] = counts[e] /\ b \notin Touched
      BY <1>1, <1>2, <1>8, <2>3
    <3>2. QED
      BY <1>1, <1>8, <3>1 DEF BookInvariant
  <2>4. QED
    BY <2>1, <2>2, <2>3
<1>9. \A d, e \in DOMAIN counts' : d # e /\ Started(counts'[d]) /\ Started(counts'[e]) =>
        RowBins(counts'[d]) \cap RowBins(counts'[e]) \subseteq Touched'
  BY <1>8
<1>10. QED
  BY <1>6, <1>7, <1>9, BooksAfter, Zenon

\* The warehouse goes on beside the counts.
Beside == \A b \in Bins : BeingCounted(b) /\ b \notin Touched' => book'[b] = book[b] /\ ~OpenTaskAt(b)'

LEMMA DraftsKeepBooks ==
  ASSUME TypeInvariant, BookInvariant, Grown, AddsDrafts, Beside
  PROVE  BookInvariant'
<1>1. /\ \A c \in DOMAIN counts : counts'[c] = counts[c]
      /\ \A c \in DOMAIN counts' \ DOMAIN counts : ~Started(counts'[c]) /\ RowBins(counts'[c]) = {}
  BY DEF AddsDrafts, Started
<1>2. \A b : b \notin Touched' => b \notin Touched
  BY TouchedGrows
<1>3. \A d \in DOMAIN counts : RowBins(counts[d]) \subseteq Bins
  BY CountKnown
<1>4. \A c \in DOMAIN counts' : \A b \in RowBins(counts'[c]) \ Touched' : Varies(counts'[c].rows[b])
  <2>1. \A c \in DOMAIN counts : \A b \in RowBins(counts[c]) \ Touched' : Varies(counts[c].rows[b])
    BY <1>2, Zenon DEF BookInvariant
  <2>2. ASSUME NEW c \in DOMAIN counts', NEW b \in RowBins(counts'[c]) \ Touched' PROVE Varies(counts'[c].rows[b])
    <3>1. c \in DOMAIN counts /\ counts'[c] = counts[c]
      BY <1>1, <2>2
    <3>2. QED
      BY <2>1, <2>2, <3>1
  <2>3. QED
    BY <2>2
<1>5. ASSUME NEW d \in DOMAIN counts', Started(counts'[d]), NEW b \in RowBins(counts'[d]) \ Touched'
      PROVE  (counts'[d].rows[b].status # "Posted" => counts'[d].rows[b].book = book'[b]) /\ ~OpenTaskAt(b)'
  <2>1. d \in DOMAIN counts /\ counts'[d] = counts[d] /\ b \in Bins /\ b \notin Touched
    BY <1>1, <1>2, <1>3, <1>5
  <2>2. Still(counts[d].rows[b], b) /\ BeingCounted(b)
    BY <1>5, <2>1, Zenon DEF BookInvariant, BeingCounted
  <2>3. book'[b] = book[b] /\ ~OpenTaskAt(b)'
    BY <1>5, <2>1, <2>2, Zenon DEF Beside
  <2>4. counts[d].rows[b].status # "Posted" => counts[d].rows[b].book = book[b]
    BY <2>2, Zenon DEF Still
  <2>5. QED
    BY <2>1, <2>3, <2>4, Zenon
<1>6. \A c, d \in DOMAIN counts' : c # d /\ Started(counts'[c]) /\ Started(counts'[d]) =>
        RowBins(counts'[c]) \cap RowBins(counts'[d]) \subseteq Touched'
  <2> SUFFICES ASSUME NEW c \in DOMAIN counts', NEW d \in DOMAIN counts', c # d, Started(counts'[c]), Started(counts'[d])
               PROVE  RowBins(counts'[c]) \cap RowBins(counts'[d]) \subseteq Touched'
    OBVIOUS
  <2>1. c \in DOMAIN counts /\ d \in DOMAIN counts /\ counts'[c] = counts[c] /\ counts'[d] = counts[d]
    BY <1>1
  <2>2. RowBins(counts[c]) \cap RowBins(counts[d]) \subseteq Touched
    BY <2>1 DEF BookInvariant
  <2>3. QED
    BY <1>2, <2>1, <2>2
<1>7. QED
  BY <1>4, <1>5, <1>6, BooksAfter, Zenon

-----------------------------------------------------------------------------
(* Every step. *)

LEMMA StockOperationDrafts ==
  ASSUME TypeInvariant, StockOperation
  PROVE  AddsDrafts /\ mirrored' = mirrored
<1>1. ASSUME counts' = counts, blocked' = blocked PROVE AddsDrafts
  BY <1>1 DEF TypeInvariant, AddsDrafts
<1>2. ASSUME NEW b \in Bins, Allocate(b) PROVE AddsDrafts /\ mirrored' = mirrored
  BY <1>1, <1>2, Zenon DEF Allocate
<1>3. ASSUME NEW b \in Bins, ReleasePick(b) PROVE AddsDrafts /\ mirrored' = mirrored
  BY <1>1, <1>3, Zenon DEF ReleasePick
<1>4. ASSUME NEW b \in Bins, ConfirmPick(b) PROVE AddsDrafts /\ mirrored' = mirrored
  <2>1. (counts' = WithZeroStockCheck(b) \/ counts' = counts) /\ blocked' = blocked /\ mirrored' = mirrored
    BY <1>4 DEF ConfirmPick
  <2>2. QED
    BY <1>1, <2>1, ZeroCheckStep
<1>5. ASSUME NEW a \in Bins, NEW b \in Bins, CreateAdhocMove(a, b) PROVE AddsDrafts /\ mirrored' = mirrored
  BY <1>1, <1>5, Zenon DEF CreateAdhocMove
<1>6. ASSUME ConfirmMove PROVE AddsDrafts /\ mirrored' = mirrored
  BY <1>1, <1>6, Zenon DEF ConfirmMove
<1>7. QED
  BY <1>2, <1>3, <1>4, <1>5, <1>6, Zenon DEF StockOperation

\* No operation on the stock reaches a bin that is being counted.
LEMMA StockOperationBeside ==
  ASSUME TypeInvariant, BookInvariant, StockOperation, Remember
  PROVE  Beside
<1>1. /\ book \in [Bins -> Nat] /\ allocated \in [Bins -> Nat] /\ picks \in [Bins -> Nat]
      /\ move \in [from : Bins, to : Bins] \cup {None}
  BY DEF TypeInvariant, StockType
<1> DEFINE Alone(b) == BeingCounted(b) /\ b \notin Touched'
<1>2. ASSUME NEW b \in Bins, Alone(b)
      PROVE  ~(picks[b] > 0) /\ (move = None \/ b \notin {move.from, move.to})
  <2>1. b \notin Touched
    BY <1>2, TouchedGrows, Remembered
  <2>2. ~OpenTaskAt(b)
    BY <1>2, <2>1 DEF BookInvariant, BeingCounted, Still
  <2>3. QED
    BY <2>2 DEF OpenTaskAt
\* A task that gets to a bin that is being counted disturbs it.
<1>10. ASSUME NEW b \in Bins, Alone(b) PROVE ~TaskArrives(b)
  <2>1. ~Disturbs(b)
    BY <1>10, TouchedGrows, Remembered
  <2>2. QED
    BY <1>10, <2>1, Zenon DEF Disturbs
<1> DEFINE Keeps(b) == Alone(b) => book'[b] = book[b] /\ ~(picks'[b] > 0)
                                          /\ (move' = None \/ b \notin {move'.from, move'.to})
<1> HIDE DEF BeingCounted, Alone
<1>3. ASSUME NEW a \in Bins, Allocate(a), NEW b \in Bins PROVE Keeps(b)
  <2>1. UNCHANGED <<book, picks, move>>
    BY <1>3 DEF Allocate
  <2>2. QED
    BY <1>2, <2>1
<1>4. ASSUME NEW a \in Bins, ReleasePick(a), NEW b \in Bins PROVE Keeps(b)
  <2>1. picks' = [picks EXCEPT ![a] = @ + 1] /\ UNCHANGED <<book, move>>
    BY <1>4, Zenon DEF ReleasePick
  <2>2. ASSUME Alone(b) PROVE picks'[b] = picks[b]
    <3>1. CASE a = b
      <4>1. picks'[b] > picks[b]
        BY <1>1, <2>1, <3>1
      <4>2. QED
        BY <1>10, <2>2, <4>1 DEF TaskArrives
    <3>2. CASE a # b
      BY <1>1, <2>1, <3>2
    <3>3. QED
      BY <3>1, <3>2
  <2>3. QED
    BY <1>2, <2>1, <2>2
<1>5. ASSUME NEW a \in Bins, ConfirmPick(a), NEW b \in Bins PROVE Keeps(b)
  <2>1. /\ picks[a] > 0 /\ picks' = [picks EXCEPT ![a] = @ - 1] /\ book' = [book EXCEPT ![a] = @ - 1]
        /\ move' = move
    BY <1>5, Zenon DEF ConfirmPick
  <2>2. ASSUME Alone(b) PROVE b # a
    BY <1>2, <2>1, <2>2
  <2>3. ASSUME b # a PROVE picks'[b] = picks[b] /\ book'[b] = book[b]
    BY <1>1, <2>1, <2>3
  <2>4. QED
    BY <1>2, <2>1, <2>2, <2>3
<1>6. ASSUME NEW x \in Bins, NEW y \in Bins, CreateAdhocMove(x, y), NEW b \in Bins PROVE Keeps(b)
  <2>1. move = None /\ move' = [from |-> x, to |-> y] /\ UNCHANGED <<book, picks>>
    BY <1>6, Zenon DEF CreateAdhocMove
  <2>2. ASSUME Alone(b) PROVE move' = None \/ b \notin {move'.from, move'.to}
    BY <1>10, <2>1, <2>2 DEF TaskArrives
  <2>3. QED
    BY <1>2, <2>1, <2>2
<1>7. ASSUME ConfirmMove, NEW b \in Bins PROVE Keeps(b)
  <2>1. /\ move # None /\ book' = [book EXCEPT ![move.from] = @ - 1, ![move.to] = @ + 1]
        /\ move' = None /\ picks' = picks
    BY <1>7, Zenon DEF ConfirmMove
  <2>2. move.from \in Bins /\ move.to \in Bins
    BY <1>1, <2>1
  <2>3. ASSUME b # move.from, b # move.to PROVE book'[b] = book[b]
    BY <1>1, <2>1, <2>2, <2>3
  <2>4. QED
    BY <1>2, <2>1, <2>3
<1>8. \A b \in Bins : Keeps(b)
  <2> HIDE DEF Keeps
  <2>1. QED
    BY <1>3, <1>4, <1>5, <1>6, <1>7, Zenon DEF StockOperation
<1>9. QED
  BY <1>8 DEF Beside, OpenTaskAt, Alone

LEMMA NextLedgers ==
  ASSUME TypeInvariant, LedgerInvariant, Next
  PROVE  LedgerInvariant'
<1>1. Before /\ TypeInvariant' /\ Grown
  BY TypesKept, Remembered DEF Before, Next
<1>2. ASSUME NEW c, LedgersKept(c) PROVE LedgerInvariant'
  BY <1>1, <1>2, RelinesKeepLedgers
<1>3. ASSUME AddsDrafts, mirrored' = mirrored PROVE LedgerInvariant'
  BY <1>1, <1>3, DraftsKeepLedgers
<1>4. ASSUME GenerateScheduledCounts PROVE LedgerInvariant'
  <2>1. mirrored' = mirrored
    BY <1>4, Zenon DEF GenerateScheduledCounts
  <2>2. QED
    BY <1>3, <1>4, <2>1, GenerateStep
<1>5. ASSUME NEW c \in DOMAIN counts, Snapshot(c) PROVE LedgerInvariant'
  BY <1>1, <1>2, <1>5, SnapshotLines
<1>6. ASSUME NEW c \in DOMAIN counts, NEW b \in Bins, NEW q \in CountedQuantities, AddFoundLine(c, b, q)
      PROVE  LedgerInvariant'
  BY <1>1, <1>2, <1>6, AddFoundLineLines
<1>7. ASSUME NEW c \in DOMAIN counts, NEW b \in RowBins(counts[c]), NEW q \in CountedQuantities,
             RecordCounts(c, b, q)
      PROVE  LedgerInvariant'
  BY <1>1, <1>2, <1>7, RecordCountsLines
<1>8. ASSUME NEW c \in DOMAIN counts, PostCount(c) \/ ApproveVariance(c) PROVE LedgerInvariant'
  BY <1>1, <1>2, <1>8, PassLines
<1>9. ASSUME NEW c \in DOMAIN counts, RequestRecount(c) PROVE LedgerInvariant'
  BY <1>1, <1>2, <1>9, RequestRecountLines
<1>10. ASSUME NEW c \in DOMAIN counts, CancelCount(c) PROVE LedgerInvariant'
  BY <1>1, <1>2, <1>10, CancelCountLines
<1>11. ASSUME StockOperation PROVE LedgerInvariant'
  BY <1>3, <1>11, StockOperationDrafts
<1>12. ASSUME NEW scope \in Bins \cup {Everywhere}, CreateCount(scope) PROVE LedgerInvariant'
  <2>1. counts' = Append(counts, DraftCount(scope)) /\ blocked' = blocked /\ mirrored' = mirrored
    BY <1>12, Zenon DEF CreateCount
  <2>2. QED
    BY <1>3, <2>1, DraftAppended
<1>13. CASE CountOperation
  BY <1>13, <1>4, <1>5, <1>6, <1>7, <1>8, <1>9, <1>10, <1>12, Zenon DEF CountOperation
<1>14. QED
  BY <1>11, <1>13, Zenon DEF Next

LEMMA NextBooks ==
  ASSUME TypeInvariant, LedgerInvariant, BookInvariant, Next
  PROVE  BookInvariant'
<1>1. Before /\ TypeInvariant' /\ Grown /\ Remember
  BY TypesKept, Remembered DEF Before, Next
<1>2. ASSUME NEW c, LedgersKept(c), BooksKept(c) PROVE BookInvariant'
  BY <1>1, <1>2, RelinesKeepBooks DEF LedgersKept
<1>3. ASSUME UNCHANGED stock PROVE Beside
  <2>1. UNCHANGED <<book, picks, move>>
    BY <1>3 DEF stock
  <2>2. \A b \in Bins : BeingCounted(b) /\ b \notin Touched' => ~OpenTaskAt(b)
    BY <1>1, TouchedGrows DEF BookInvariant, BeingCounted, Still
  <2>3. QED
    BY <2>1, <2>2 DEF Beside, OpenTaskAt
<1>4. ASSUME GenerateScheduledCounts PROVE BookInvariant'
  <2>1. UNCHANGED stock
    BY <1>4, Zenon DEF GenerateScheduledCounts
  <2>2. QED
    BY <1>1, <1>3, <1>4, <2>1, GenerateStep, DraftsKeepBooks
<1>5. ASSUME NEW c \in DOMAIN counts, Snapshot(c) PROVE BookInvariant'
  BY <1>1, <1>2, <1>5, SnapshotLines
<1>6. ASSUME NEW c \in DOMAIN counts, NEW b \in Bins, NEW q \in CountedQuantities, AddFoundLine(c, b, q)
      PROVE  BookInvariant'
  BY <1>1, <1>2, <1>6, AddFoundLineLines
<1>7. ASSUME NEW c \in DOMAIN counts, NEW b \in RowBins(counts[c]), NEW q \in CountedQuantities,
             RecordCounts(c, b, q)
      PROVE  BookInvariant'
  BY <1>1, <1>2, <1>7, RecordCountsLines
<1>8. ASSUME NEW c \in DOMAIN counts, PostCount(c) \/ ApproveVariance(c) PROVE BookInvariant'
  BY <1>1, <1>2, <1>8, PassLines
<1>9. ASSUME NEW c \in DOMAIN counts, RequestRecount(c) PROVE BookInvariant'
  BY <1>1, <1>2, <1>9, RequestRecountLines
<1>10. ASSUME NEW c \in DOMAIN counts, CancelCount(c) PROVE BookInvariant'
  BY <1>1, <1>2, <1>10, CancelCountLines
<1>11. ASSUME StockOperation PROVE BookInvariant'
  BY <1>1, <1>11, StockOperationDrafts, StockOperationBeside, DraftsKeepBooks
<1>12. ASSUME NEW scope \in Bins \cup {Everywhere}, CreateCount(scope) PROVE BookInvariant'
  <2>1. counts' = Append(counts, DraftCount(scope)) /\ blocked' = blocked /\ UNCHANGED stock
    BY <1>12, Zenon DEF CreateCount
  <2>2. QED
    BY <1>1, <1>3, <2>1, DraftAppended, DraftsKeepBooks
<1>13. CASE CountOperation
  BY <1>13, <1>4, <1>5, <1>6, <1>7, <1>8, <1>9, <1>10, <1>12, Zenon DEF CountOperation
<1>14. QED
  BY <1>11, <1>13, Zenon DEF Next

LEMMA InitBooks == Init => LedgerInvariant /\ BookInvariant
<1> SUFFICES ASSUME Init PROVE LedgerInvariant /\ BookInvariant
  OBVIOUS
<1>1. counts = <<>> /\ DOMAIN counts = {} /\ mirrored = 0
  BY DEF Init
<1> DEFINE f == [c \in DOMAIN counts |-> PostedBy(counts[c])]
<1>2. DOMAIN f = {} /\ SumFunction(f) = SumFunctionOnSet(f, DOMAIN f)
  BY <1>1 DEF SumFunction
<1>3. MirroredIsPosted <=> mirrored = SumFunction(f)
  BY DEF MirroredIsPosted
<1> HIDE DEF f
<1>4. MirroredIsPosted
  BY <1>1, <1>2, <1>3, SumEmpty
<1>5. QED
  BY <1>1, <1>4 DEF LedgerInvariant, LinesLedgered, BookInvariant

LEMMA IdleKeepsAll ==
  ASSUME TypeInvariant, LedgerInvariant, BookInvariant, UNCHANGED vars
  PROVE  LedgerInvariant' /\ BookInvariant'
<1>1. AddsDrafts /\ Grown /\ mirrored' = mirrored /\ UNCHANGED <<book, picks, move>>
  BY DEF vars, history, AddsDrafts, TypeInvariant, Grown
<1>2. TypeInvariant'
  BY TypesKept
<1>3. \A b \in Bins : BeingCounted(b) /\ b \notin Touched' => ~OpenTaskAt(b)
  BY <1>1, TouchedGrows DEF BookInvariant, BeingCounted, Still
<1>4. Beside
  BY <1>1, <1>3 DEF Beside, OpenTaskAt
<1>5. QED
  BY <1>1, <1>2, <1>4, DraftsKeepLedgers, DraftsKeepBooks

(* Wherever nobody reached a bin while it was counted, every posted line has *)
(* corrected the books by what was missing, or too much, at the moment it    *)
(* was counted: between a line's snapshot and its posting the stock in its   *)
(* bin stands still, whatever picks, moves and other counts do elsewhere.    *)
(* And ERPNext is told of each correction once, for any number of counts and *)
(* passes, unless a posted line was recorded once more: each pass mirrors    *)
(* the lines it posts and no others.                                         *)
THEOREM CountsAreRight == Spec => []CountsCorrectTheBook
<1> DEFINE IInv == LedgerInvariant /\ BookInvariant
<1>1. Init => IInv
  BY InitBooks
<1>2. TypeInvariant /\ IInv /\ [Next]_vars => IInv'
  BY NextLedgers, NextBooks, IdleKeepsAll
<1>3. TypeInvariant /\ IInv => CountsCorrectTheBook
  <2> SUFFICES ASSUME TypeInvariant, IInv PROVE CountsCorrectTheBook
    OBVIOUS
  <2>1. ASSUME NEW c \in DOMAIN counts, NEW b \in RowBins(counts[c]) \ (disturbed \cup recalled \cup again)
        PROVE  Corrects(counts[c].rows[b])
    <3>1. Ledgered(counts[c].rows[b]) /\ Varies(counts[c].rows[b])
      BY DEF LedgerInvariant, LinesLedgered, BookInvariant, Touched
    <3>2. QED
      BY <3>1 DEF Ledgered, Varies, Corrects
  <2>2. QED
    BY <2>1, TypeInvariantImpliesTypeOK DEF CountsCorrectTheBook, LedgerInvariant
<1> HIDE DEF IInv
<1>4. QED
  BY InitTypes, TypesKept, <1>1, <1>2, <1>3, PTL DEF Spec
=============================================================================
