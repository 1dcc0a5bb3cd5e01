-------------------------- MODULE StockLedgerProofs --------------------------
(***************************************************************************)
(* What is proved of StockLedger, for any units, bins, stock types,        *)
(* documents and clerks: a unit carries what its record says, its stock    *)
(* stays in one bin, and StockLedger implements StockAccount.  The steps   *)
(* are first sorted by what they do to the stock: post entries, carry rows *)
(* to another bin, reserve or release, rebuild, or nothing.                *)
(***************************************************************************)
EXTENDS StockLedger, Sums, SequenceTheorems

-----------------------------------------------------------------------------
(* Rows. *)

Holders == Units \cup {Loose}

\* The rows of a holder with some of the stock types: RowsOf and RowsOn are such.
Block(h, T) == {h} \X Bins \X T

LEMMA RowParts ==
  /\ \A r \in Rows : /\ Holder(r) \in Holders /\ BinOf(r) \in Bins /\ TypeOf(r) \in Types
                     /\ r = <<Holder(r), BinOf(r), TypeOf(r)>>
  /\ \A h \in Holders, b \in Bins, t \in Types :
       /\ <<h, b, t>> \in Rows
       /\ Holder(<<h, b, t>>) = h /\ BinOf(<<h, b, t>>) = b /\ TypeOf(<<h, b, t>>) = t
  /\ \A r, s \in Rows :
       Holder(r) = Holder(s) /\ BinOf(r) = BinOf(s) /\ TypeOf(r) = TypeOf(s) => r = s
BY DEF Rows, Holder, BinOf, TypeOf, Holders

LEMMA BlockRows ==
  ASSUME NEW h \in Holders, NEW T \in SUBSET Types
  PROVE  /\ IsFiniteSet(Block(h, T)) /\ Block(h, T) \subseteq Rows
         /\ \A r \in Rows : r \in Block(h, T) <=> Holder(r) = h /\ TypeOf(r) \in T
<1> DEFINE pairs == Bins \X T
           name == [x \in pairs |-> <<h, x[1], x[2]>>]
<1>1. IsFiniteSet(Bins) /\ IsFiniteSet(T)
  BY StockAssumption, FS_Subset
<1>2. IsFiniteSet(pairs)
  BY <1>1, FS_Product
<1>3. {name[x] : x \in pairs} = Block(h, T)
  <2>1. ASSUME NEW x \in pairs
        PROVE  name[x] \in Block(h, T)
    <3>1. name[x] = <<h, x[1], x[2]>> /\ x[1] \in Bins /\ x[2] \in T
      OBVIOUS
    <3>2. QED
      BY <3>1 DEF Block
  <2>2. ASSUME NEW r \in Block(h, T)
        PROVE  \E x \in pairs : r = name[x]
    <3>1. PICK b \in Bins, t \in T : r = <<h, b, t>>
      BY DEF Block
    <3>2. <<b, t>> \in pairs /\ r = name[<<b, t>>]
      BY <3>1
    <3>3. QED
      BY <3>2
  <2> HIDE DEF pairs, name
  <2>3. QED
    BY <2>1, <2>2
<1> HIDE DEF pairs, name
<1>4. IsFiniteSet(Block(h, T))
  BY <1>2, <1>3, FiniteImage
<1>5. Block(h, T) \subseteq Rows
  BY DEF Block, Rows, Holders
<1>6. ASSUME NEW r \in Rows
      PROVE  r \in Block(h, T) <=> Holder(r) = h /\ TypeOf(r) \in T
  BY RowParts DEF Block, Holder, TypeOf, BinOf
<1>7. QED
  BY <1>4, <1>5, <1>6

LEMMA RowsOfIsBlock ==
  /\ \A u : RowsOf(u) = Block(u, Types)
  /\ \A a \in Accounts : RowsOn(a) = Block(a[1], {a[2]}) /\ a[1] \in Holders /\ {a[2]} \in SUBSET Types
BY DEF RowsOf, RowsOn, Block, Accounts, Holders

-----------------------------------------------------------------------------
(* What entries add to the rows. *)

Change(entry) == [r \in Rows |-> IF r \in DOMAIN entry THEN entry[r] ELSE 0]

LEMMA SumOfOne ==
  ASSUME NEW S \in SUBSET Rows, IsFiniteSet(S), NEW r \in Rows, NEW q \in Int
  PROVE  SumOver(Change(One(r, q)), S) = IF r \in S THEN q ELSE 0
<1> DEFINE zero == [x \in Rows |-> 0]
           one == Change(One(r, q))
<1>1. /\ \A x \in Rows : one[x] = IF x = r THEN q ELSE 0
      /\ \A x \in Rows : zero[x] = 0
  BY DEF Change, One
<1> HIDE DEF zero, one
<1>2. SumFunctionOnSet(zero, S) = 0
  BY <1>1, SumZero
<1>3. SumFunctionOnSet(one, S) =
        IF r \in S THEN SumFunctionOnSet(zero, S) + (one[r] - zero[r]) ELSE SumFunctionOnSet(zero, S)
  <2>1. \A x \in S : zero[x] \in Int /\ one[x] \in Int
    BY <1>1
  <2>2. \A x \in S \ {r} : one[x] = zero[x]
    BY <1>1
  <2>3. QED
    BY <2>1, <2>2, SumOneChange
<1>4. QED
  BY <1>1, <1>2, <1>3 DEF SumOver, one

LEMMA SumOfTransfer ==
  ASSUME NEW S \in SUBSET Rows, IsFiniteSet(S), NEW x \in Rows, NEW y \in Rows, x # y, NEW q \in Int
  PROVE  SumOver(Change(Transfer(x, y, q)), S) =
           (IF x \in S THEN -q ELSE 0) + (IF y \in S THEN q ELSE 0)
<1> DEFINE out == Change(One(x, -q))
           in == Change(One(y, q))
           both == Change(Transfer(x, y, q))
<1>1. \A r \in S : out[r] \in Int /\ in[r] \in Int /\ both[r] = out[r] + in[r]
  BY DEF Change, One, Transfer
<1> HIDE DEF out, in, both
<1>2. SumFunctionOnSet(both, S) = SumFunctionOnSet(out, S) + SumFunctionOnSet(in, S)
  BY <1>1, SumPlus
<1>3. SumFunctionOnSet(out, S) = (IF x \in S THEN -q ELSE 0)
  BY SumOfOne DEF SumOver, out
<1>4. SumFunctionOnSet(in, S) = (IF y \in S THEN q ELSE 0)
  BY SumOfOne DEF SumOver, in
<1>5. QED
  BY <1>2, <1>3, <1>4 DEF SumOver, both

-----------------------------------------------------------------------------
(* What stays when rows are carried to another bin. *)

\* Two distributions of stock that agree on each stock type of a holder agree
\* on any of its types together.
LEMMA TypesAddUp ==
  ASSUME NEW f \in [Rows -> Int], NEW g \in [Rows -> Int], NEW h \in Holders,
         \A t \in Types : SumOver(f, Block(h, {t})) = SumOver(g, Block(h, {t})),
         NEW T \in SUBSET Types
  PROVE  SumOver(f, Block(h, T)) = SumOver(g, Block(h, T))
<1> DEFINE Same(s) == SumOver(f, Block(h, s)) = SumOver(g, Block(h, s))
           Bad == {s \in SUBSET T : ~Same(s)}
<1> SUFFICES ASSUME Bad # {} PROVE FALSE
  OBVIOUS
<1>0. IsFiniteSet(T)
  BY StockAssumption, FS_Subset
<1>1. PICK s \in Bad : \A t \in s : s \ {t} \notin Bad
  BY <1>0, LeastSubset
<1>2. s # {}
  <2>1. Block(h, {}) = {}
    BY DEF Block
  <2>2. SumOver(f, {}) = 0 /\ SumOver(g, {}) = 0
    BY SumEmpty DEF SumOver
  <2>3. Same({})
    BY <2>1, <2>2, Zenon
  <2>4. QED
    BY <1>1, <2>3
<1>3. PICK t \in s : TRUE
  BY <1>2
<1>4. Same(s \ {t}) /\ Same({t})
  BY <1>1, <1>3
<1> DEFINE S == Block(h, s \ {t})
           O == Block(h, {t})
<1>5. IsFiniteSet(S) /\ IsFiniteSet(O) /\ S \subseteq Rows /\ O \subseteq Rows
  BY <1>1, <1>3, BlockRows
<1>6. S \cap O = {} /\ S \cup O = Block(h, s)
  BY <1>3 DEF Block
<1>7. \A x \in S \cup O : f[x] \in Int /\ g[x] \in Int
  BY <1>5
<1> HIDE DEF S, O
<1>8. SumOver(f, S \cup O) = SumOver(f, S) + SumOver(f, O)
  BY <1>5, <1>6, <1>7, SumDisjoint DEF SumOver
<1>9. SumOver(g, S \cup O) = SumOver(g, S) + SumOver(g, O)
  BY <1>5, <1>6, <1>7, SumDisjoint DEF SumOver
<1>10. Same(s)
  BY <1>4, <1>6, <1>8, <1>9, Zenon DEF S, O
<1>11. QED
  BY <1>1, <1>10

\* What comes to one bin: the rows carried there are emptied, and what they
\* had is added to the row of the same holder and type.
Gathered(f, rows, b) ==
  [r \in Rows |-> IF r \in rows THEN 0
                  ELSE IF BinOf(r) = b THEN f[r] + SumOver(f, Incoming(rows, r)) ELSE f[r]]

LEMMA GatheredType ==
  ASSUME NEW f \in [Rows -> Int], NEW rows \in SUBSET Rows, NEW b \in Bins
  PROVE  /\ Gathered(f, rows, b) \in [Rows -> Int]
         /\ \A r \in Rows : IsFiniteSet(Incoming(rows, r)) /\ SumOver(f, Incoming(rows, r)) \in Int
<1>1. ASSUME NEW r \in Rows
      PROVE  IsFiniteSet(Incoming(rows, r)) /\ SumOver(f, Incoming(rows, r)) \in Int
  <2>1. Holder(r) \in Holders /\ {TypeOf(r)} \in SUBSET Types
    BY RowParts
  <2>2. /\ IsFiniteSet(Block(Holder(r), {TypeOf(r)}))
        /\ \A x \in Rows : x \in Block(Holder(r), {TypeOf(r)}) <=>
                             Holder(x) = Holder(r) /\ TypeOf(x) \in {TypeOf(r)}
    BY <2>1, BlockRows
  <2>3. Incoming(rows, r) \subseteq Block(Holder(r), {TypeOf(r)})
    BY <2>2 DEF Incoming
  <2>4. IsFiniteSet(Incoming(rows, r))
    BY <2>2, <2>3, FS_Subset
  <2>5. \A x \in Incoming(rows, r) : f[x] \in Int
    BY DEF Incoming
  <2>6. QED
    BY <2>4, <2>5, SumInt DEF SumOver
<1>2. QED
  BY <1>1 DEF Gathered

LEMMA GatheredSums ==
  ASSUME NEW f \in [Rows -> Int], NEW rows \in SUBSET Rows, NEW b \in Bins,
         \A r \in rows : BinOf(r) # b,
         NEW h \in Holders, NEW t \in Types
  PROVE  SumOver(Gathered(f, rows, b), Block(h, {t})) = SumOver(f, Block(h, {t}))
<1> DEFINE g == Gathered(f, rows, b)
           S == Block(h, {t})
           x == <<h, b, t>>
           coming == Incoming(rows, x)
<1>1. x \in Rows /\ Holder(x) = h /\ BinOf(x) = b /\ TypeOf(x) = t
  BY RowParts
<1>2. /\ IsFiniteSet(S) /\ S \subseteq Rows
      /\ \A r \in Rows : r \in S <=> Holder(r) = h /\ TypeOf(r) \in {t}
  BY BlockRows, {t} \in SUBSET Types
<1>3. x \in S /\ coming \subseteq S \ {x} /\ IsFiniteSet(S \ {x})
  BY <1>1, <1>2, FS_RemoveElement DEF Incoming
<1>4. /\ g \in [Rows -> Int]
      /\ IsFiniteSet(coming) /\ SumOver(f, coming) \in Int
  BY <1>1, GatheredType
<1>5. g[x] = f[x] + SumOver(f, coming)
  BY <1>1 DEF Gathered
<1>6. ASSUME NEW r \in S \ {x}
      PROVE  /\ r \in rows <=> r \in coming
             /\ g[r] = IF r \in coming THEN 0 ELSE f[r]
  <2>1. r \in Rows /\ Holder(r) = h /\ TypeOf(r) = t
    BY <1>2
  <2>2. BinOf(r) # b
    BY <1>1, <2>1, RowParts
  <2>3. r \in rows <=> r \in coming
    BY <1>1, <2>1 DEF Incoming
  <2>4. QED
    BY <2>1, <2>2, <2>3 DEF Gathered
<1> DEFINE out == [r \in S \ {x} |-> IF r \in coming THEN f[r] ELSE 0]
           rest == S \ {x}
<1>7. /\ \A r \in rest : g[r] \in Int /\ out[r] \in Int /\ f[r] = g[r] + out[r]
      /\ \A r \in rest \ coming : out[r] = 0
      /\ \A r \in coming : out[r] = f[r]
      /\ \A r \in S : f[r] \in Int /\ g[r] \in Int
  <2>1. \A r \in S : f[r] \in Int /\ g[r] \in Int
    BY <1>2, <1>4
  <2>2. ASSUME NEW r \in rest
        PROVE  /\ out[r] = IF r \in coming THEN f[r] ELSE 0
               /\ g[r] = IF r \in coming THEN 0 ELSE f[r]
               /\ f[r] \in Int
    BY <1>6, <2>1
  <2>3. coming \subseteq rest
    BY <1>3
  <2> HIDE DEF g, S, x, coming, out, rest
  <2>4. \A r \in rest : g[r] \in Int /\ out[r] \in Int /\ f[r] = g[r] + out[r]
    BY <2>2
  <2>5. (\A r \in rest \ coming : out[r] = 0) /\ (\A r \in coming : out[r] = f[r])
    BY <2>2, <2>3
  <2>6. QED
    BY <2>1, <2>4, <2>5
<1> HIDE DEF g, S, x, coming, out, rest
<1>8. SumOver(f, rest) = SumOver(g, rest) + SumOver(out, rest)
  BY <1>3, <1>7, SumPlus DEF SumOver, rest
<1>9. SumOver(out, rest) = SumOver(out, coming)
  BY <1>3, <1>7, SumRestricted DEF SumOver, rest
<1>10. SumOver(out, coming) = SumOver(f, coming)
  BY <1>4, <1>7, SumEqual DEF SumOver
<1>11. SumOver(f, S) = f[x] + SumOver(f, rest)
  BY <1>2, <1>3, <1>7, SumRemove DEF SumOver, rest
<1>12. SumOver(g, S) = g[x] + SumOver(g, rest)
  BY <1>2, <1>3, <1>7, SumRemove DEF SumOver, rest
<1>13. SumOver(g, rest) \in Int
  BY <1>3, <1>7, SumInt DEF SumOver, rest
<1>14. f[x] \in Int
  BY <1>1
<1>15. SumOver(g, S) = SumOver(f, S)
  BY <1>4, <1>5, <1>8, <1>9, <1>10, <1>11, <1>12, <1>13, <1>14
<1>16. QED
  BY <1>15 DEF g, S

-----------------------------------------------------------------------------
(* The invariant.  Its first half holds after a rebuild, too.              *)

Statuses == {"None", "Created", "Open", "Blocked"}
UnitRecord == [status : Statuses, bin : Bins \cup {Nothing},
               parent : Units \cup {Nothing}, content : Int]

BalanceType(b) == b \in [Rows -> [quantity : Int, allocated : Nat]]
LedgerType(l) == l \in [Rows -> Int]

\* Each account has in the balances what it has in the ledger.
Agree(b, l) == \A a \in Accounts : PerAccount(Quantity(b))[a] = PerAccount(l)[a]

UnitsType(us) ==
  /\ us \in [Units -> UnitRecord]
  /\ \A u \in Units : us[u].status # "None" => us[u].bin \in Bins

\* What a unit's record says it carries is what is booked on it.
Carries(us, u) == IF us[u].status # "None" THEN us[u].content ELSE 0
Weighed(b, us) == \A u \in Units : SumOver(Quantity(b), RowsOf(u)) = Carries(us, u)

MoveType(t) == t.from \in Rows /\ t.bin \in Bins /\ t.bin # BinOf(t.from) /\ t.quantity \in Nat \ {0}

DocumentType(x) ==
  /\ x.kind \in {"Receipt", "Over"} => x.to \in Rows /\ x.quantity \in Nat \ {0}
  /\ x.kind = "Scrap" => x.from \in Rows /\ x.quantity \in Nat \ {0}
  /\ x.kind = "Change" => x.from \in Rows /\ x.to \in Rows /\ x.from # x.to /\ x.quantity \in Nat \ {0}

\* What a request has read was true when it read it.
SnapshotType(q) == q.unit \in Units /\ BalanceType(q.balance) /\ UnitsType(q.units) /\ Weighed(q.balance, q.units)

Stocked == BalanceType(balance) /\ LedgerType(ledger) /\ Agree(balance, ledger)
Packed == UnitsType(unit) /\ Weighed(balance, unit)
Planned ==
  /\ pool \in Seq(Units)
  /\ \A t \in task : MoveType(t)
  /\ document = [d \in Documents |-> document[d]] /\ \A d \in Documents : DocumentType(document[d])
  /\ request = [c \in Clerks |-> request[c]]
  /\ \A c \in Clerks : request[c] # Nothing => SnapshotType(request[c])

\* Its second half: no balance is negative and, unless something was booked by
\* hand, the stock of a unit is in one bin - now, and in what a request has read.
Whole(b) == \A r \in Rows : b[r].quantity >= 0
Together(b) ==
  \A r, s \in Rows :
    /\ Holder(r) = Holder(s) /\ Holder(r) # Loose
    /\ b[r].quantity > 0 /\ b[s].quantity > 0
    => BinOf(r) = BinOf(s)
ByHand == \E d \in Documents : document[d].status \in {"Cancelled", "Cleared"}
WholeSeen == \A c \in Clerks : request[c] # Nothing => Whole(request[c].balance)
TogetherSeen == \A c \in Clerks : request[c] # Nothing => Together(request[c].balance)
Orderly == Whole(balance) /\ WholeSeen /\ (ByHand \/ (Together(balance) /\ TogetherSeen))

TypeInv == Stocked /\ Packed /\ Planned /\ rebuilt \in BOOLEAN
IInv == TypeInv /\ (rebuilt \/ Orderly)

-----------------------------------------------------------------------------
(* Accounts and units as sums over blocks of rows. *)

LEMMA QuantityType ==
  ASSUME NEW b, BalanceType(b)
  PROVE  /\ Quantity(b) \in [Rows -> Int] /\ Allocated(b) \in [Rows -> Nat] /\ Allocated(b) \in [Rows -> Int]
         /\ \A r \in Rows : /\ Quantity(b)[r] = b[r].quantity /\ b[r].quantity \in Int
                            /\ Allocated(b)[r] = b[r].allocated /\ b[r].allocated \in Nat
BY DEF BalanceType, Quantity, Allocated

LEMMA BlocksFinite ==
  /\ \A u \in Units : IsFiniteSet(RowsOf(u)) /\ RowsOf(u) \subseteq Rows
  /\ \A u \in Units, r \in Rows : r \in RowsOf(u) <=> Holder(r) = u
  /\ \A a \in Accounts : IsFiniteSet(RowsOn(a)) /\ RowsOn(a) \subseteq Rows
  /\ \A a \in Accounts, r \in Rows : r \in RowsOn(a) <=> Holder(r) = a[1] /\ TypeOf(r) = a[2]
<1>1. ASSUME NEW u \in Units
      PROVE  /\ IsFiniteSet(RowsOf(u)) /\ RowsOf(u) \subseteq Rows
             /\ \A r \in Rows : r \in RowsOf(u) <=> Holder(r) = u
  <2>1. u \in Holders /\ Types \in SUBSET Types /\ RowsOf(u) = Block(u, Types)
    BY RowsOfIsBlock DEF Holders
  <2>2. /\ IsFiniteSet(Block(u, Types)) /\ Block(u, Types) \subseteq Rows
        /\ \A r \in Rows : r \in Block(u, Types) <=> Holder(r) = u /\ TypeOf(r) \in Types
    BY <2>1, BlockRows
  <2>3. QED
    BY <2>1, <2>2, RowParts
<1>2. ASSUME NEW a \in Accounts
      PROVE  /\ IsFiniteSet(RowsOn(a)) /\ RowsOn(a) \subseteq Rows
             /\ \A r \in Rows : r \in RowsOn(a) <=> Holder(r) = a[1] /\ TypeOf(r) = a[2]
  <2>1. a[1] \in Holders /\ {a[2]} \in SUBSET Types /\ RowsOn(a) = Block(a[1], {a[2]})
    BY RowsOfIsBlock
  <2>2. /\ IsFiniteSet(Block(a[1], {a[2]})) /\ Block(a[1], {a[2]}) \subseteq Rows
        /\ \A r \in Rows : r \in Block(a[1], {a[2]}) <=> Holder(r) = a[1] /\ TypeOf(r) \in {a[2]}
    BY <2>1, BlockRows
  <2>3. QED
    BY <2>1, <2>2
<1>3. QED
  BY <1>1, <1>2

LEMMA PerAccountIs ==
  ASSUME NEW f, NEW a \in Accounts
  PROVE  PerAccount(f)[a] = SumOver(f, RowsOn(a))
BY DEF PerAccount

\* Distributions that agree on every account agree on every unit.
LEMMA AccountsAddUp ==
  ASSUME NEW f \in [Rows -> Int], NEW g \in [Rows -> Int],
         \A a \in Accounts : SumOver(f, RowsOn(a)) = SumOver(g, RowsOn(a)),
         NEW u \in Units
  PROVE  SumOver(f, RowsOf(u)) = SumOver(g, RowsOf(u))
<1>1. u \in Holders
  BY DEF Holders
<1>2. ASSUME NEW t \in Types
      PROVE  SumOver(f, Block(u, {t})) = SumOver(g, Block(u, {t}))
  <2>1. <<u, t>> \in Accounts /\ <<u, t>>[1] = u /\ <<u, t>>[2] = t
    BY <1>1 DEF Accounts, Holders
  <2>2. RowsOn(<<u, t>>) = Block(u, {t})
    BY <2>1, RowsOfIsBlock, Zenon
  <2>3. QED
    BY <2>1, <2>2, Zenon
<1>3. SumOver(f, Block(u, Types)) = SumOver(g, Block(u, Types))
  <2>1. Types \in SUBSET Types
    OBVIOUS
  <2>2. QED
    BY <1>1, <1>2, <2>1, TypesAddUp, Zenon
<1>4. QED
  BY <1>3, RowsOfIsBlock

-----------------------------------------------------------------------------
(* A posting. *)

EntryType(e) == DOMAIN e \subseteq Rows /\ \A r \in DOMAIN e : e[r] \in Int

LEMMA PostingRows ==
  ASSUME BalanceType(balance), LedgerType(ledger), NEW e, EntryType(e)
  PROVE  /\ Change(e) \in [Rows -> Int]
         /\ BalanceType(Booked(e)) /\ LedgerType(Entered(e))
         /\ \A r \in Rows : /\ Booked(e)[r].quantity = balance[r].quantity + Change(e)[r]
                            /\ Booked(e)[r].allocated = balance[r].allocated
                            /\ Entered(e)[r] = ledger[r] + Change(e)[r]
<1>1. Change(e) \in [Rows -> Int]
  BY DEF Change, EntryType
<1>2. ASSUME NEW r \in Rows
      PROVE  /\ Booked(e)[r] \in [quantity : Int, allocated : Nat]
             /\ Booked(e)[r].quantity = balance[r].quantity + Change(e)[r]
             /\ Booked(e)[r].allocated = balance[r].allocated
             /\ Entered(e)[r] = ledger[r] + Change(e)[r]
  BY <1>1 DEF Booked, Entered, Change, BalanceType
<1>3. BalanceType(Booked(e))
  <2>1. Booked(e) = [r \in Rows |-> Booked(e)[r]]
    BY DEF Booked
  <2>2. QED
    BY <1>2, <2>1 DEF BalanceType
<1>4. LedgerType(Entered(e))
  BY <1>1, <1>2 DEF Entered, LedgerType, EntryType
<1>5. QED
  BY <1>1, <1>2, <1>3, <1>4

LEMMA PostingSums ==
  ASSUME BalanceType(balance), LedgerType(ledger), NEW e, EntryType(e),
         NEW S \in SUBSET Rows, IsFiniteSet(S)
  PROVE  /\ SumOver(Quantity(Booked(e)), S) = SumOver(Quantity(balance), S) + SumOver(Change(e), S)
         /\ SumOver(Entered(e), S) = SumOver(ledger, S) + SumOver(Change(e), S)
         /\ SumOver(Allocated(Booked(e)), S) = SumOver(Allocated(balance), S)
<1>1. /\ Change(e) \in [Rows -> Int]
      /\ BalanceType(Booked(e))
      /\ \A r \in Rows : /\ Booked(e)[r].quantity = balance[r].quantity + Change(e)[r]
                         /\ Booked(e)[r].allocated = balance[r].allocated
                         /\ Entered(e)[r] = ledger[r] + Change(e)[r]
  BY PostingRows
<1>2. /\ \A r \in S : Change(e)[r] \in Int /\ Quantity(balance)[r] \in Int /\ ledger[r] \in Int
      /\ \A r \in S : Quantity(Booked(e))[r] = Quantity(balance)[r] + Change(e)[r]
      /\ \A r \in S : Allocated(Booked(e))[r] = Allocated(balance)[r]
  BY <1>1, QuantityType DEF LedgerType
<1>3. SumOver(Quantity(Booked(e)), S) = SumOver(Quantity(balance), S) + SumOver(Change(e), S)
  BY <1>2, SumPlus DEF SumOver
<1>4. SumOver(Entered(e), S) = SumOver(ledger, S) + SumOver(Change(e), S)
  BY <1>1, <1>2, SumPlus DEF SumOver
<1>5. SumOver(Allocated(Booked(e)), S) = SumOver(Allocated(balance), S)
  BY <1>2, SumEqual DEF SumOver
<1>6. QED
  BY <1>3, <1>4, <1>5

\* The two kinds of postings: on one row, or from a row to another.
Entries ==
  {One(r, q) : r \in Rows, q \in Int \ {0}}
    \cup {Transfer(x[1], x[2], q) : x \in {x \in Rows \X Rows : x[1] # x[2]}, q \in Int \ {0}}

LEMMA EntriesType ==
  ASSUME NEW e \in Entries
  PROVE  EntryType(e)
<1>1. CASE \E r \in Rows, q \in Int \ {0} : e = One(r, q)
  BY <1>1 DEF One, EntryType
<1>2. CASE \E x \in {x \in Rows \X Rows : x[1] # x[2]}, q \in Int \ {0} : e = Transfer(x[1], x[2], q)
  <2>1. PICK x \in Rows \X Rows, q \in Int \ {0} : e = Transfer(x[1], x[2], q)
    BY <1>2
  <2>2. x[1] \in Rows /\ x[2] \in Rows
    BY <2>1
  <2>3. QED
    BY <2>1, <2>2 DEF Transfer, EntryType
<1>3. QED
  BY <1>1, <1>2 DEF Entries

LEMMA PostingKeepsStocked ==
  ASSUME Stocked, NEW e, EntryType(e), balance' = Booked(e), ledger' = Entered(e)
  PROVE  Stocked'
<1>1. BalanceType(balance') /\ LedgerType(ledger')
  BY PostingRows DEF Stocked
<1>2. ASSUME NEW a \in Accounts
      PROVE  PerAccount(Quantity(balance'))[a] = PerAccount(ledger')[a]
  <2>1. IsFiniteSet(RowsOn(a)) /\ RowsOn(a) \in SUBSET Rows
    BY BlocksFinite
  <2>2. /\ SumOver(Quantity(Booked(e)), RowsOn(a)) = SumOver(Quantity(balance), RowsOn(a)) + SumOver(Change(e), RowsOn(a))
        /\ SumOver(Entered(e), RowsOn(a)) = SumOver(ledger, RowsOn(a)) + SumOver(Change(e), RowsOn(a))
    BY <2>1, PostingSums DEF Stocked
  <2>3. SumOver(Quantity(balance), RowsOn(a)) = SumOver(ledger, RowsOn(a))
    BY PerAccountIs DEF Stocked, Agree
  <2>4. SumOver(Quantity(balance'), RowsOn(a)) = SumOver(ledger', RowsOn(a))
    BY <2>2, <2>3, Zenon
  <2>5. QED
    BY <2>4, PerAccountIs
<1>3. QED
  BY <1>1, <1>2 DEF Stocked, Agree

LEMMA PostingKeepsPacked ==
  ASSUME Stocked, NEW e, EntryType(e), NEW us, UnitsType(us), Weighed(balance, us), PostEntries(e, us)
  PROVE  Packed'
<1>1. /\ balance' = Booked(e) /\ unit' = Measured(us, e) /\ Accepts(e, us)
      /\ BalanceType(balance) /\ LedgerType(ledger)
  BY DEF PostEntries, Stocked
<1>2. BalanceType(balance')
  BY <1>1, PostingRows
<1>3. ASSUME NEW u \in Units
      PROVE  /\ unit'[u] \in UnitRecord
             /\ unit'[u].status = us[u].status /\ unit'[u].bin = us[u].bin
             /\ SumOver(Quantity(balance'), RowsOf(u)) = Carries(unit', u)
  <2> DEFINE sum == SumOver(Quantity(balance'), RowsOf(u))
  <2>1. us[u] \in UnitRecord
    BY DEF UnitsType
  <2>2. sum \in Int
    BY <1>2, BlocksFinite, QuantityType, SumInt DEF SumOver
  <2>3. CASE \E r \in DOMAIN e : Holder(r) = u
    <3>1. unit'[u] = [us[u] EXCEPT !.content = sum]
      BY <1>1, <2>3 DEF Measured
    <3>2. us[u].status # "None"
      BY <1>1, <2>3, StockAssumption DEF Accepts
    <3> HIDE DEF sum
    <3>3. QED
      BY <2>1, <2>2, <3>1, <3>2 DEF UnitRecord, Carries, sum
  <2>4. CASE ~\E r \in DOMAIN e : Holder(r) = u
    <3>1. unit'[u] = us[u]
      BY <1>1, <2>4 DEF Measured
    <3>2. \A r \in RowsOf(u) : Change(e)[r] = 0
      BY <2>4, BlocksFinite DEF Change
    <3>3. SumOver(Change(e), RowsOf(u)) = 0
      BY <3>2, BlocksFinite, SumZero DEF SumOver
    <3>4. sum = SumOver(Quantity(balance), RowsOf(u)) + SumOver(Change(e), RowsOf(u))
      BY <1>1, BlocksFinite, PostingSums
    <3>5. SumOver(Quantity(balance), RowsOf(u)) \in Int
      BY <1>1, BlocksFinite, QuantityType, SumInt DEF SumOver
    <3>6. sum = SumOver(Quantity(balance), RowsOf(u))
      BY <3>3, <3>4, <3>5
    <3>7. QED
      BY <2>1, <3>1, <3>6 DEF Weighed, Carries
  <2>5. QED
    BY <2>3, <2>4
<1>4. UnitsType(unit')
  <2>1. unit' = [u \in Units |-> unit'[u]]
    BY <1>1 DEF Measured
  <2>2. QED
    BY <1>3, <2>1 DEF UnitsType
<1>5. QED
  BY <1>3, <1>4 DEF Packed, Weighed

-----------------------------------------------------------------------------
(* Rows carried to another bin. *)

LEMMA RelocatedRows ==
  ASSUME NEW b \in Bins, NEW rows \in SUBSET Rows, BalanceType(balance)
  PROVE  /\ BalanceType(Relocated(rows, b))
         /\ Quantity(Relocated(rows, b)) = Gathered(Quantity(balance), rows, b)
         /\ Allocated(Relocated(rows, b)) = Gathered(Allocated(balance), rows, b)
<1>1. Quantity(balance) \in [Rows -> Int] /\ Allocated(balance) \in [Rows -> Int] /\ Allocated(balance) \in [Rows -> Nat]
  BY QuantityType
<1>2. ASSUME NEW r \in Rows
      PROVE  /\ Relocated(rows, b)[r] \in [quantity : Int, allocated : Nat]
             /\ Relocated(rows, b)[r].quantity = Gathered(Quantity(balance), rows, b)[r]
             /\ Relocated(rows, b)[r].allocated = Gathered(Allocated(balance), rows, b)[r]
  <2> DEFINE more == SumOver(Quantity(balance), Incoming(rows, r))
             reserved == SumOver(Allocated(balance), Incoming(rows, r))
  <2>1. more \in Int /\ IsFiniteSet(Incoming(rows, r))
    BY <1>1, GatheredType
  <2>2. reserved \in Nat
    BY <1>1, <2>1, SumNat DEF SumOver, Incoming
  <2>3. balance[r] = [quantity |-> Quantity(balance)[r], allocated |-> Allocated(balance)[r]]
    BY DEF BalanceType, Quantity, Allocated
  <2>4. Relocated(rows, b)[r] =
          IF r \in rows THEN NoRow
          ELSE IF BinOf(r) = b
               THEN [quantity |-> Quantity(balance)[r] + more, allocated |-> Allocated(balance)[r] + reserved]
               ELSE balance[r]
    BY <2>3 DEF Relocated
  <2> HIDE DEF more, reserved
  <2>5. /\ Gathered(Quantity(balance), rows, b)[r] =
             IF r \in rows THEN 0 ELSE IF BinOf(r) = b THEN Quantity(balance)[r] + more ELSE Quantity(balance)[r]
        /\ Gathered(Allocated(balance), rows, b)[r] =
             IF r \in rows THEN 0 ELSE IF BinOf(r) = b THEN Allocated(balance)[r] + reserved ELSE Allocated(balance)[r]
    BY DEF Gathered, more, reserved
  <2>6. Quantity(balance)[r] \in Int /\ Allocated(balance)[r] \in Nat
    BY <1>1
  <2>7. CASE r \in rows
    BY <2>4, <2>5, <2>7 DEF NoRow
  <2>8. CASE r \notin rows /\ BinOf(r) = b
    BY <2>1, <2>2, <2>4, <2>5, <2>6, <2>8
  <2>9. CASE r \notin rows /\ BinOf(r) # b
    BY <2>3, <2>4, <2>5, <2>6, <2>9
  <2>10. QED
    BY <2>7, <2>8, <2>9
<1> HIDE DEF Relocated
<1>3. BalanceType(Relocated(rows, b))
  <2>1. Relocated(rows, b) = [r \in Rows |-> Relocated(rows, b)[r]]
    BY DEF Relocated
  <2>2. QED
    BY <1>2, <2>1 DEF BalanceType
<1>4. Quantity(Relocated(rows, b)) = Gathered(Quantity(balance), rows, b)
  BY <1>2 DEF Quantity, Gathered
<1>5. Allocated(Relocated(rows, b)) = Gathered(Allocated(balance), rows, b)
  BY <1>2 DEF Allocated, Gathered
<1>6. QED
  BY <1>3, <1>4, <1>5

\* Whatever rows are carried, no account changes and no reservation is lost.
LEMMA CarryingAccounts ==
  ASSUME NEW b \in Bins, NEW rows \in SUBSET Rows, \A r \in rows : BinOf(r) # b,
         BalanceType(balance), NEW a \in Accounts
  PROVE  /\ SumOver(Quantity(Relocated(rows, b)), RowsOn(a)) = SumOver(Quantity(balance), RowsOn(a))
         /\ SumOver(Allocated(Relocated(rows, b)), RowsOn(a)) = SumOver(Allocated(balance), RowsOn(a))
<1>1. a[1] \in Holders /\ a[2] \in Types /\ RowsOn(a) = Block(a[1], {a[2]})
  BY RowsOfIsBlock DEF Accounts
<1>2. Quantity(balance) \in [Rows -> Int] /\ Allocated(balance) \in [Rows -> Int]
  BY QuantityType
<1>3. SumOver(Gathered(Quantity(balance), rows, b), Block(a[1], {a[2]})) = SumOver(Quantity(balance), Block(a[1], {a[2]}))
  BY <1>1, <1>2, GatheredSums
<1>4. SumOver(Gathered(Allocated(balance), rows, b), Block(a[1], {a[2]})) = SumOver(Allocated(balance), Block(a[1], {a[2]}))
  BY <1>1, <1>2, GatheredSums
<1>5. QED
  BY <1>1, <1>3, <1>4, RelocatedRows, Zenon

-----------------------------------------------------------------------------
(* A step that books nothing: no account changes. *)

Quiet ==
  /\ BalanceType(balance') /\ ledger' = ledger
  /\ \A a \in Accounts : SumOver(Quantity(balance'), RowsOn(a)) = SumOver(Quantity(balance), RowsOn(a))

LEMMA QuietKeepsStocked ==
  ASSUME Stocked, Quiet
  PROVE  Stocked'
<1>1. ASSUME NEW a \in Accounts
      PROVE  PerAccount(Quantity(balance'))[a] = PerAccount(ledger')[a]
  <2>1. SumOver(Quantity(balance), RowsOn(a)) = SumOver(ledger, RowsOn(a))
    BY PerAccountIs DEF Stocked, Agree
  <2>2. SumOver(Quantity(balance'), RowsOn(a)) = SumOver(ledger', RowsOn(a))
    BY <2>1, Zenon DEF Quiet
  <2>3. QED
    BY <2>2, PerAccountIs
<1>2. QED
  BY <1>1 DEF Stocked, Agree, Quiet

LEMMA QuietKeepsPacked ==
  ASSUME Stocked, Packed, Quiet, UnitsType(unit'),
         \A u \in Units : Carries(unit', u) = Carries(unit, u)
  PROVE  Packed'
<1>1. Quantity(balance) \in [Rows -> Int] /\ Quantity(balance') \in [Rows -> Int]
  BY QuantityType DEF Stocked, Quiet
<1>2. ASSUME NEW u \in Units
      PROVE  SumOver(Quantity(balance'), RowsOf(u)) = SumOver(Quantity(balance), RowsOf(u))
  BY <1>1, AccountsAddUp DEF Quiet
<1>3. QED
  BY <1>2 DEF Packed, Weighed

LEMMA CarryingIsQuiet ==
  ASSUME NEW b \in Bins, NEW rows \in SUBSET Rows, \A r \in rows : BinOf(r) # b,
         Stocked, balance' = Relocated(rows, b), ledger' = ledger
  PROVE  Quiet
BY RelocatedRows, CarryingAccounts DEF Stocked, Quiet

Reserved(r, n) == [balance EXCEPT ![r].allocated = @ + n]

LEMMA ReservingIsQuiet ==
  ASSUME NEW r \in Rows, NEW n \in Int, balance[r].allocated + n \in Nat,
         Stocked, balance' = Reserved(r, n), ledger' = ledger
  PROVE  Quiet /\ Quantity(balance') = Quantity(balance)
<1>1. BalanceType(balance) /\ BalanceType(balance')
  BY DEF Stocked, BalanceType, Reserved
<1>2. \A x \in Rows : balance'[x].quantity = balance[x].quantity
  BY <1>1 DEF BalanceType, Reserved
<1>3. Quantity(balance') = Quantity(balance)
  BY <1>2 DEF Quantity
<1>4. QED
  BY <1>1, <1>3 DEF Quiet

LEMMA RebuildingIsQuiet ==
  ASSUME Stocked, RebuildBalances
  PROVE  Quiet /\ Allocated(balance') = Allocated(balance)
<1>1. /\ balance' = [r \in Rows |-> [quantity |-> ledger[r], allocated |-> balance[r].allocated]]
      /\ ledger' = ledger
  BY DEF RebuildBalances
<1>2. BalanceType(balance')
  BY <1>1 DEF Stocked, BalanceType, LedgerType
<1>3. Quantity(balance') = ledger
  BY <1>1 DEF Quantity, Stocked, LedgerType
<1>4. Allocated(balance') = Allocated(balance)
  BY <1>1 DEF Allocated
<1>5. ASSUME NEW a \in Accounts
      PROVE  SumOver(Quantity(balance'), RowsOn(a)) = SumOver(Quantity(balance), RowsOn(a))
  BY <1>3, PerAccountIs DEF Stocked, Agree
<1>6. QED
  BY <1>1, <1>2, <1>4, <1>5 DEF Quiet

LEMMA StillIsQuiet ==
  ASSUME Stocked, UNCHANGED <<balance, ledger>>
  PROVE  Quiet
BY DEF Stocked, Quiet

-----------------------------------------------------------------------------
(* The records of the units. *)

\* What is measured depends on nothing but the content of the records in use.
LEMMA SameLoad ==
  ASSUME NEW b, NEW us, NEW vs, Weighed(b, us), \A u \in Units : Carries(vs, u) = Carries(us, u)
  PROVE  Weighed(b, vs)
BY DEF Weighed

LEMMA NewUnit ==
  ASSUME NEW us, UnitsType(us), NEW u \in Units, us[u].status = "None",
         NEW b \in Bins, NEW p \in Units \cup {Nothing},
         NEW vs, vs = [x \in Units |-> IF x = u THEN Created(b, p) ELSE us[x]]
  PROVE  UnitsType(vs) /\ \A x \in Units : Carries(vs, x) = Carries(us, x)
<1>1. \A x \in Units : IF x = u THEN vs[x] = Created(b, p) ELSE vs[x] = us[x]
  OBVIOUS
<1>2. Created(b, p) \in UnitRecord /\ \A x \in Units : us[x] \in UnitRecord
  BY DEF UnitsType, Created, UnitRecord, Statuses
<1>3. vs \in [Units -> UnitRecord]
  BY <1>1, <1>2
<1>4. \A x \in Units : vs[x].status # "None" => vs[x].bin \in Bins
  BY <1>1 DEF UnitsType, Created
<1>5. \A x \in Units : Carries(vs, x) = Carries(us, x)
  BY <1>1 DEF Carries, Created
<1>6. QED
  BY <1>3, <1>4, <1>5 DEF UnitsType

\* A unit in use changes its bin, its parent or its status, or nothing.
LEMMA SameUnits ==
  ASSUME NEW us, UnitsType(us), NEW vs,
         vs = [u \in Units |-> vs[u]],
         \A u \in Units :
           /\ vs[u] \in UnitRecord
           /\ vs[u].content = us[u].content
           /\ vs[u].status # "None" <=> us[u].status # "None"
           /\ vs[u].bin = us[u].bin \/ vs[u].bin \in Bins
  PROVE  UnitsType(vs) /\ \A u \in Units : Carries(vs, u) = Carries(us, u)
<1>1. vs \in [Units -> UnitRecord]
  OBVIOUS
<1>2. QED
  BY <1>1 DEF UnitsType, Carries

LEMMA UnitsWithUnitAt ==
  ASSUME NEW us, UnitsType(us), NEW u \in Units \cup {Loose}, NEW b \in Bins
  PROVE  /\ UnitsType(WithUnitAt(us, u, b))
         /\ \A x \in Units : Carries(WithUnitAt(us, u, b), x) = Carries(us, x)
<1> DEFINE vs == WithUnitAt(us, u, b)
<1>1. CASE u = Loose
  BY <1>1 DEF WithUnitAt
<1>2. CASE u # Loose
  <2>1. ASSUME NEW x \in Units
        PROVE  \/ vs[x] = us[x]
               \/ vs[x] = [us[x] EXCEPT !.bin = b]
               \/ vs[x] = [us[x] EXCEPT !.bin = b, !.parent = Nothing]
    BY <1>2 DEF WithUnitAt
  <2>2. vs = [x \in Units |-> vs[x]]
    BY <1>2 DEF WithUnitAt
  <2> HIDE DEF vs
  <2>3. ASSUME NEW x \in Units
        PROVE  /\ vs[x] \in UnitRecord
               /\ vs[x].content = us[x].content
               /\ vs[x].status # "None" <=> us[x].status # "None"
               /\ vs[x].bin = us[x].bin \/ vs[x].bin \in Bins
    <3>1. us[x] \in UnitRecord
      BY DEF UnitsType
    <3>2. QED
      BY <2>1, <3>1 DEF UnitRecord
  <2>4. UnitsType(vs) /\ \A x \in Units : Carries(vs, x) = Carries(us, x)
    BY <2>2, <2>3, SameUnits
  <2>5. QED
    BY <2>4 DEF vs
<1>3. QED
  BY <1>1, <1>2

-----------------------------------------------------------------------------
(* The first half is kept, operation by operation. *)

LEMMA PlannedStays ==
  ASSUME Planned, UNCHANGED <<pool, task, document, request>>
  PROVE  Planned'
BY DEF Planned

LEMMA SameBooks ==
  ASSUME Stocked, Packed, UNCHANGED <<balance, ledger, unit>>
  PROVE  Stocked' /\ Packed'
BY DEF Stocked, Packed

LEMMA RequestsStay ==
  ASSUME Planned, NEW c \in Clerks, NEW q, q # Nothing => SnapshotType(q),
         request' = [request EXCEPT ![c] = q], UNCHANGED <<pool, task, document>>
  PROVE  Planned'
BY DEF Planned

LEMMA CreateUnitKeeps ==
  ASSUME Stocked, Packed, Planned, NEW u \in Units, NEW b \in Bins,
         NEW p \in Units \cup {Nothing}, NEW i \in BOOLEAN, CreateUnit(u, i, b, p)
  PROVE  Stocked' /\ Packed' /\ Planned'
<1>1. /\ UNCHANGED <<balance, ledger, document, task, request>>
      /\ unit' = [unit EXCEPT ![u] = Created(b, p)] /\ unit[u].status = "None"
  BY DEF CreateUnit, Exists
<1>2. UnitsType(unit') /\ \A x \in Units : Carries(unit', x) = Carries(unit, x)
  <2>1. UnitsType(unit)
    BY DEF Packed
  <2> DEFINE vs == unit'
  <2>2. vs = [x \in Units |-> IF x = u THEN Created(b, p) ELSE unit[x]]
    BY <1>1, <2>1 DEF UnitsType
  <2> HIDE DEF vs
  <2>3. UnitsType(vs) /\ \A x \in Units : Carries(vs, x) = Carries(unit, x)
    BY <1>1, <2>1, <2>2, NewUnit
  <2>4. QED
    BY <2>3 DEF vs
<1>3. Quiet
  BY <1>1, StillIsQuiet
<1>4. pool' \in Seq(Units)
  <2>1. pool' = pool \/ (pool # <<>> /\ pool' = Tail(pool))
    BY Zenon DEF CreateUnit, NextNumber
  <2>2. pool \in Seq(Units)
    BY DEF Planned
  <2>3. QED
    BY <2>1, <2>2
<1>5. Planned'
  BY <1>1, <1>4 DEF Planned
<1>6. QED
  BY <1>2, <1>3, <1>5, QuietKeepsStocked, QuietKeepsPacked

LEMMA SetBlockedKeeps ==
  ASSUME Stocked, Packed, Planned, NEW u \in Units, SetBlocked(u)
  PROVE  Stocked' /\ Packed' /\ Planned'
<1>1. /\ UNCHANGED <<balance, ledger, pool, document, task, request>>
      /\ unit' = [unit EXCEPT ![u].status = IF unit[u].status = "Blocked" THEN "Open" ELSE "Blocked"]
      /\ unit[u].status # "None" /\ unit \in [Units -> UnitRecord]
  BY DEF SetBlocked, Exists, Packed, UnitsType
<1>2. \A x \in Units : \/ unit'[x] = unit[x]
                       \/ x = u /\ \E s \in {"Open", "Blocked"} : unit'[x] = [unit[x] EXCEPT !.status = s]
  BY <1>1
<1>3. unit' = [x \in Units |-> unit'[x]]
  BY <1>1
<1>4. ASSUME NEW x \in Units
      PROVE  /\ unit'[x] \in UnitRecord
             /\ unit'[x].content = unit[x].content
             /\ unit'[x].status # "None" <=> unit[x].status # "None"
             /\ unit'[x].bin = unit[x].bin
  <2>1. unit[x] \in UnitRecord
    BY <1>1
  <2>2. QED
    BY <1>1, <1>2, <2>1 DEF UnitRecord, Statuses
<1>5. UnitsType(unit') /\ \A x \in Units : Carries(unit', x) = Carries(unit, x)
  BY <1>3, <1>4, SameUnits DEF Packed
<1>6. Quiet
  BY <1>1, StillIsQuiet
<1>7. QED
  BY <1>1, <1>5, <1>6, PlannedStays, QuietKeepsStocked, QuietKeepsPacked

LEMMA BeginRequestKeeps ==
  ASSUME Stocked, Packed, Planned, NEW c \in Clerks, NEW u \in Units, BeginRequest(c, u)
  PROVE  Stocked' /\ Packed' /\ Planned'
<1> DEFINE q == [unit |-> u, units |-> unit, tasks |-> task, balance |-> balance]
<1>1. /\ UNCHANGED <<balance, ledger, unit, pool, document, task>>
      /\ request' = [request EXCEPT ![c] = q]
  BY DEF BeginRequest
<1>2. SnapshotType(q)
  BY DEF SnapshotType, Stocked, Packed
<1>3. QED
  BY <1>1, <1>2, RequestsStay, SameBooks

\* What a request about u carries to bin b: the rows its snapshot shows.
Inside(c, u, b) == IF request[c].units[u].bin # b THEN Below(request[c].units, u) ELSE {}
CarriedRows(c, u, b) ==
  {r \in Rows : /\ request[c].units[u].bin # b /\ Holder(r) \in Inside(c, u, b) \cup {u}
                /\ BinOf(r) # b /\ request[c].balance[r] # NoRow}
CarriedUnits(c, u, b, p) ==
  [x \in Units |->
     IF x = u THEN [unit[x] EXCEPT !.bin = b, !.parent = p]
     ELSE IF x \in Inside(c, u, b) /\ Exists(x) THEN [unit[x] EXCEPT !.bin = b]
     ELSE unit[x]]

LEMMA CarryIs ==
  ASSUME NEW c, NEW u, NEW b, NEW p, Carry(c, u, b, p)
  PROVE  /\ balance' = Relocated(CarriedRows(c, u, b), b)
         /\ unit' = CarriedUnits(c, u, b, p)
         /\ CarriedRows(c, u, b) \in SUBSET Rows
         /\ \A r \in CarriedRows(c, u, b) : BinOf(r) # b /\ balance[r] = request[c].balance[r]
         /\ \A x \in Inside(c, u, b) : unit[x] = request[c].units[x]
<1> DEFINE rows == CarriedRows(c, u, b)
           inside == Inside(c, u, b)
<1>1. balance' = Relocated(rows, b)
  BY Zenon DEF Carry, CarriedRows, Inside
<1>2. unit' = CarriedUnits(c, u, b, p)
  BY Zenon DEF Carry, CarriedUnits, Inside
<1>3. MayLock(c, inside, rows \cup {r \in Rows : BinOf(r) = b /\ Incoming(rows, r) # {}})
  BY Zenon DEF Carry, CarriedRows, Inside
<1>4. rows \in SUBSET Rows /\ \A r \in rows : BinOf(r) # b
  BY DEF CarriedRows
<1> HIDE DEF rows, inside
<1>5. (\A r \in rows : balance[r] = request[c].balance[r]) /\ (\A x \in inside : unit[x] = request[c].units[x])
  BY <1>3 DEF MayLock, Unchanged
<1>6. QED
  BY <1>1, <1>2, <1>4, <1>5, Zenon DEF rows, inside

LEMMA CarryKeeps ==
  ASSUME Stocked, Packed, NEW c \in Clerks, NEW u \in Units, NEW b \in Bins,
         NEW p \in Units \cup {Nothing}, Carry(c, u, b, p), ledger' = ledger
  PROVE  Stocked' /\ Packed' /\ Quiet
<1>1. /\ balance' = Relocated(CarriedRows(c, u, b), b)
      /\ unit' = CarriedUnits(c, u, b, p)
      /\ CarriedRows(c, u, b) \in SUBSET Rows
      /\ \A r \in CarriedRows(c, u, b) : BinOf(r) # b
  BY CarryIs, Zenon
<1>2. Quiet
  BY <1>1, CarryingIsQuiet
<1>3. unit' = [x \in Units |-> unit'[x]]
  BY <1>1 DEF CarriedUnits
<1>4. ASSUME NEW x \in Units
      PROVE  /\ unit'[x] \in UnitRecord
             /\ unit'[x].content = unit[x].content
             /\ unit'[x].status # "None" <=> unit[x].status # "None"
             /\ unit'[x].bin = unit[x].bin \/ unit'[x].bin \in Bins
  <2>1. unit[x] \in UnitRecord
    BY DEF Packed, UnitsType
  <2>2. \/ unit'[x] = unit[x]
        \/ unit'[x] = [unit[x] EXCEPT !.bin = b]
        \/ unit'[x] = [unit[x] EXCEPT !.bin = b, !.parent = p]
    BY <1>1 DEF CarriedUnits
  <2>3. QED
    BY <2>1, <2>2 DEF UnitRecord
<1>5. UnitsType(unit') /\ \A x \in Units : Carries(unit', x) = Carries(unit, x)
  BY <1>3, <1>4, SameUnits DEF Packed
<1>6. QED
  BY <1>2, <1>5, QuietKeepsStocked, QuietKeepsPacked

LEMMA NestIs ==
  ASSUME Planned, NEW c \in Clerks, request[c] # Nothing, NEW p \in Units, Nest(c, p)
  PROVE  /\ request[c].unit \in Units /\ request[c].units[p].bin \in Bins
         /\ Carry(c, request[c].unit, request[c].units[p].bin, p)
         /\ Unchanged(c, request[c].unit) /\ pool' = pool
BY DEF Nest, Planned, SnapshotType, UnitsType

LEMMA RelocateUnitIs ==
  ASSUME Planned, NEW c \in Clerks, request[c] # Nothing, NEW b \in Bins, RelocateUnit(c, b)
  PROVE  /\ request[c].unit \in Units
         /\ Carry(c, request[c].unit, b, Nothing)
         /\ Unchanged(c, request[c].unit) /\ pool' = pool
BY DEF RelocateUnit, Planned, SnapshotType

LEMMA HandleUnitKeeps ==
  ASSUME Stocked, Packed, Planned, NEW c \in Clerks, HandleUnit(c)
  PROVE  Stocked' /\ Packed' /\ Planned'
<1>1. /\ request[c] # Nothing /\ request' = [request EXCEPT ![c] = Nothing]
      /\ UNCHANGED <<ledger, counter, document, task, work>>
  BY DEF HandleUnit
<1> DEFINE u == request[c].unit
<1>2. u \in Units
  BY <1>1 DEF Planned, SnapshotType
<1>3. ASSUME pool' = pool
      PROVE  Planned'
  BY <1>1, <1>3, RequestsStay
<1>4. ASSUME NEW p \in Units, Nest(c, p)
      PROVE  Stocked' /\ Packed' /\ Planned'
  <2>1. /\ u \in Units /\ request[c].units[p].bin \in Bins /\ pool' = pool
        /\ Carry(c, u, request[c].units[p].bin, p)
    BY <1>1, <1>4, NestIs
  <2>2. QED
    BY <1>1, <1>3, <2>1, CarryKeeps
<1>5. CASE Unnest(c)
  <2>1. unit' = [unit EXCEPT ![u].parent = Nothing] /\ UNCHANGED <<balance, pool>>
    BY <1>5 DEF Unnest
  <2>2. unit \in [Units -> UnitRecord]
    BY DEF Packed, UnitsType
  <2>3. unit' = [x \in Units |-> unit'[x]]
    BY <2>1, <2>2
  <2>4. ASSUME NEW x \in Units
        PROVE  /\ unit'[x] \in UnitRecord
               /\ unit'[x].content = unit[x].content
               /\ unit'[x].status # "None" <=> unit[x].status # "None"
               /\ unit'[x].bin = unit[x].bin
    <3>1. unit[x] \in UnitRecord /\ (unit'[x] = unit[x] \/ unit'[x] = [unit[x] EXCEPT !.parent = Nothing])
      BY <1>2, <2>1, <2>2
    <3>2. QED
      BY <3>1 DEF UnitRecord
  <2>5. UnitsType(unit') /\ \A x \in Units : Carries(unit', x) = Carries(unit, x)
    BY <2>3, <2>4, SameUnits DEF Packed
  <2>6. Quiet
    BY <1>1, <2>1, StillIsQuiet
  <2>7. QED
    BY <1>3, <2>1, <2>5, <2>6, QuietKeepsStocked, QuietKeepsPacked
<1>6. ASSUME NEW b \in Bins, RelocateUnit(c, b)
      PROVE  Stocked' /\ Packed' /\ Planned'
  <2>1. u \in Units /\ pool' = pool /\ Carry(c, u, b, Nothing)
    BY <1>1, <1>6, RelocateUnitIs
  <2>2. QED
    BY <1>1, <1>3, <2>1, CarryKeeps
<1>7. CASE Recycle(c)
  <2>1. /\ unit' = [unit EXCEPT ![u] = NoUnit] /\ pool' = Append(pool, u) /\ UNCHANGED balance
        /\ unit[u].content = 0
    BY <1>7 DEF Recycle, MayLock, Unchanged
  <2>2. unit \in [Units -> UnitRecord] /\ NoUnit \in UnitRecord
    BY DEF Packed, UnitsType, NoUnit, UnitRecord, Statuses
  <2>3. /\ unit' \in [Units -> UnitRecord]
        /\ \A x \in Units : unit'[x] = IF x = u THEN NoUnit ELSE unit[x]
    BY <1>2, <2>1, <2>2
  <2>4. UnitsType(unit')
    BY <2>3 DEF UnitsType, Packed, NoUnit
  <2>5. \A x \in Units : Carries(unit', x) = Carries(unit, x)
    BY <2>1, <2>3 DEF Carries, NoUnit
  <2>6. Quiet
    BY <1>1, <2>1, StillIsQuiet
  <2>7. Planned'
    BY <1>1, <1>2, <2>1 DEF Planned
  <2>8. QED
    BY <2>4, <2>5, <2>6, <2>7, QuietKeepsStocked, QuietKeepsPacked
<1>8. CASE Refuse(c)
  BY <1>1, <1>3, <1>8, SameBooks DEF Refuse
<1>9. QED
  BY <1>4, <1>5, <1>6, <1>7, <1>8 DEF HandleUnit

\* A posting of one of the two kinds, with the units it concerns.
Books(e, us) == e \in Entries /\ UnitsType(us) /\ Weighed(balance, us) /\ PostEntries(e, us)

LEMMA BooksKeeps ==
  ASSUME Stocked, NEW e, NEW us, Books(e, us)
  PROVE  Stocked' /\ Packed'
<1>1. EntryType(e)
  BY EntriesType DEF Books
<1>2. balance' = Booked(e) /\ ledger' = Entered(e)
  BY DEF Books, PostEntries
<1>3. QED
  BY <1>1, <1>2, PostingKeepsStocked, PostingKeepsPacked DEF Books

LEMMA InEntries ==
  /\ \A r \in Rows, q \in Int \ {0} : One(r, q) \in Entries
  /\ \A x, y \in Rows, q \in Int \ {0} : x # y => Transfer(x, y, q) \in Entries
<1>1. ASSUME NEW r \in Rows, NEW q \in Int \ {0}
      PROVE  One(r, q) \in Entries
  BY DEF Entries
<1>2. ASSUME NEW x \in Rows, NEW y \in Rows, NEW q \in Int \ {0}, x # y
      PROVE  Transfer(x, y, q) \in Entries
  <2> DEFINE z == <<x, y>>
  <2>1. z \in {w \in Rows \X Rows : w[1] # w[2]} /\ z[1] = x /\ z[2] = y
    BY <1>2
  <2> HIDE DEF z
  <2>2. Transfer(z[1], z[2], q) \in Entries
    BY <2>1 DEF Entries
  <2>3. QED
    BY <2>1, <2>2
<1>3. QED
  BY <1>1, <1>2

LEMMA OppositeIs ==
  /\ \A r \in Rows, q \in Int : Opposite(One(r, q)) = One(r, -q)
  /\ \A x, y \in Rows, q \in Int : Opposite(Transfer(x, y, q)) = Transfer(x, y, -q)
BY DEF Opposite, One, Transfer

LEMMA UnitsWithUnit ==
  ASSUME Packed, NEW h \in Units \cup {Loose}, NEW b \in Bins
  PROVE  UnitsType(WithUnit(h, b)) /\ Weighed(balance, WithUnit(h, b))
<1>1. UnitsType(unit) /\ Weighed(balance, unit)
  BY DEF Packed
<1> DEFINE vs == WithUnit(h, b)
<1>2. CASE h = Loose \/ Exists(h)
  BY <1>1, <1>2 DEF WithUnit
<1>3. CASE ~(h = Loose \/ Exists(h))
  <2>1. h \in Units /\ unit[h].status = "None"
    BY <1>3 DEF Exists
  <2>2. vs = [x \in Units |-> IF x = h THEN Created(b, Nothing) ELSE unit[x]]
    BY <1>1, <1>3, <2>1 DEF WithUnit, UnitsType
  <2> HIDE DEF vs
  <2>3. UnitsType(vs) /\ \A x \in Units : Carries(vs, x) = Carries(unit, x)
    BY <1>1, <2>1, <2>2, NewUnit
  <2>4. Weighed(balance, vs)
    BY <1>1, <2>3, SameLoad
  <2>5. QED
    BY <2>3, <2>4 DEF vs
<1>4. QED
  BY <1>2, <1>3

LEMMA DocumentsStay ==
  ASSUME Planned, NEW d \in Documents, NEW x, DocumentType(x),
         document' = [document EXCEPT ![d] = x], UNCHANGED <<pool, task, request>>
  PROVE  Planned'
BY DEF Planned

LEMMA PostedKeeps ==
  ASSUME Planned, NEW d \in Documents, NEW kind, NEW from, NEW to, NEW q \in Nat \ {0},
         kind \in {"Receipt", "Over"} => to \in Rows,
         kind = "Scrap" => from \in Rows,
         kind = "Change" => from \in Rows /\ to \in Rows /\ from # to,
         Posted(d, kind, from, to, q)
  PROVE  Planned'
<1> DEFINE x == [kind |-> kind, status |-> "Posted", from |-> from, to |-> to, quantity |-> q]
<1>1. document' = [document EXCEPT ![d] = x] /\ UNCHANGED <<pool, task, request>>
  BY DEF Posted
<1>2. DocumentType(x)
  BY DEF DocumentType
<1> HIDE DEF x
<1>3. QED
  BY <1>1, <1>2, DocumentsStay

LEMMA ReceiptBooks ==
  ASSUME Stocked, Packed, Planned, NEW d \in Documents, NEW r \in Rows, NEW q \in Nat \ {0},
         PostReceipt(d, r, q)
  PROVE  Books(One(r, q), WithUnit(Holder(r), BinOf(r))) /\ Planned'
<1>1. PostEntries(One(r, q), WithUnit(Holder(r), BinOf(r))) /\ Posted(d, "Receipt", Nothing, r, q)
  BY DEF PostReceipt
<1>2. Planned'
  BY <1>1, PostedKeeps
<1>3. Holder(r) \in Units \cup {Loose} /\ BinOf(r) \in Bins
  BY RowParts DEF Holders
<1>4. QED
  BY <1>1, <1>2, <1>3, UnitsWithUnit, InEntries DEF Books

LEMMA ScrapBooks ==
  ASSUME Stocked, Packed, Planned, NEW d \in Documents, NEW r \in Rows, NEW q \in Nat \ {0},
         PostScrap(d, r, q)
  PROVE  Books(One(r, -q), unit) /\ Planned'
<1>1. PostEntries(One(r, -q), unit) /\ Posted(d, "Scrap", r, Nothing, q)
  BY DEF PostScrap
<1>2. Planned'
  BY <1>1, PostedKeeps
<1>3. -q \in Int \ {0}
  OBVIOUS
<1>4. QED
  BY <1>1, <1>2, <1>3, InEntries DEF Books, Packed

LEMMA OverBooks ==
  ASSUME Stocked, Packed, Planned, NEW d \in Documents, NEW r \in Rows, NEW q \in Nat \ {0},
         RecordOver(d, r, q)
  PROVE  Books(One(r, q), unit) /\ Planned' /\ Holder(r) = Loose
<1>1. PostEntries(One(r, q), unit) /\ Posted(d, "Over", Nothing, r, q) /\ Holder(r) = Loose
  BY DEF RecordOver
<1>2. Planned'
  BY <1>1, PostedKeeps
<1>3. QED
  BY <1>1, <1>2, InEntries DEF Books, Packed

LEMMA ChangeBooks ==
  ASSUME Stocked, Packed, Planned, NEW d \in Documents, NEW r \in Rows, NEW q \in Nat \ {0},
         NEW t \in Types, PostChange(d, r, t, q)
  PROVE  \E to \in Rows :
           /\ to # r /\ Holder(to) = Holder(r) /\ BinOf(to) = BinOf(r)
           /\ Free(r) >= q
           /\ Books(Transfer(r, to, q), unit) /\ Planned'
<1> DEFINE to == <<Holder(r), BinOf(r), t>>
<1>1. to \in Rows /\ Holder(to) = Holder(r) /\ BinOf(to) = BinOf(r)
  BY RowParts
<1>2. /\ PostEntries(Transfer(r, to, q), unit) /\ Posted(d, "Change", r, to, q)
      /\ to # r /\ Free(r) >= q
  BY DEF PostChange
<1> HIDE DEF to
<1>3. Planned'
  BY <1>1, <1>2, PostedKeeps
<1>4. Books(Transfer(r, to, q), unit)
  BY <1>1, <1>2, InEntries DEF Books, Packed
<1>5. QED
  BY <1>1, <1>2, <1>3, <1>4

LEMMA ClearingBooks ==
  ASSUME Stocked, Packed, Planned, NEW d \in Documents, NEW to \in Rows, ClearOver(d, to)
  PROVE  (\E e, us : Books(e, us)) /\ Planned' /\ ByHand'
<1> DEFINE x == document[d]
           y == [NoDocument EXCEPT !.status = "Cleared"]
<1>1. /\ x.kind = "Over" /\ to # x.to
      /\ PostEntries(Transfer(x.to, to, x.quantity), unit)
      /\ document' = [document EXCEPT ![d] = y]
      /\ UNCHANGED <<pool, task, request>>
  BY DEF ClearOver
<1>2. x.to \in Rows /\ x.quantity \in Nat \ {0}
  BY <1>1 DEF Planned, DocumentType
<1>3. DocumentType(y) /\ y.status = "Cleared"
  BY DEF DocumentType, NoDocument
<1> HIDE DEF x, y
<1>4. Planned'
  BY <1>1, <1>3, DocumentsStay
<1>5. Books(Transfer(x.to, to, x.quantity), unit)
  BY <1>1, <1>2, InEntries DEF Books, Packed
<1>6. document'[d] = y
  BY <1>1 DEF Planned
<1>7. ByHand'
  BY <1>3, <1>6 DEF ByHand
<1>8. QED
  BY <1>4, <1>5, <1>7

LEMMA CancellingBooks ==
  ASSUME Stocked, Packed, Planned, NEW d \in Documents, CancelDocument(d)
  PROVE  (\E e, us : Books(e, us)) /\ Planned' /\ ByHand'
<1> DEFINE x == document[d]
           y == [NoDocument EXCEPT !.status = "Cancelled"]
<1>1. /\ x.kind \in {"Receipt", "Scrap", "Change"}
      /\ PostEntries(Opposite(EntriesOf(x)), unit)
      /\ document' = [document EXCEPT ![d] = y]
      /\ UNCHANGED <<pool, task, request>>
  BY DEF CancelDocument
<1>2. DocumentType(x)
  BY DEF Planned
<1>3. DocumentType(y) /\ y.status = "Cancelled"
  BY DEF DocumentType, NoDocument
<1> HIDE DEF x, y
<1>4. Planned'
  BY <1>1, <1>3, DocumentsStay
<1>5. Opposite(EntriesOf(x)) \in Entries
  <2>1. CASE x.kind = "Receipt"
    <3>1. x.to \in Rows /\ x.quantity \in Int /\ -x.quantity \in Int \ {0} /\ EntriesOf(x) = One(x.to, x.quantity)
      BY <1>2, <2>1 DEF DocumentType, EntriesOf
    <3>2. QED
      BY <3>1, OppositeIs, InEntries
  <2>2. CASE x.kind = "Scrap"
    <3>1. x.from \in Rows /\ -x.quantity \in Int /\ -(-x.quantity) \in Int \ {0} /\ EntriesOf(x) = One(x.from, -x.quantity)
      BY <1>2, <2>2 DEF DocumentType, EntriesOf
    <3>2. QED
      BY <3>1, OppositeIs, InEntries
  <2>3. CASE x.kind = "Change"
    <3>1. /\ x.from \in Rows /\ x.to \in Rows /\ x.from # x.to /\ x.quantity \in Int /\ -x.quantity \in Int \ {0}
          /\ EntriesOf(x) = Transfer(x.from, x.to, x.quantity)
      BY <1>2, <2>3 DEF DocumentType, EntriesOf
    <3>2. QED
      BY <3>1, OppositeIs, InEntries
  <2>4. QED
    BY <1>1, <2>1, <2>2, <2>3
<1>6. Books(Opposite(EntriesOf(x)), unit)
  BY <1>1, <1>5 DEF Books, Packed
<1>7. document'[d] = y
  BY <1>1 DEF Planned
<1>8. ByHand'
  BY <1>3, <1>7 DEF ByHand
<1>9. QED
  BY <1>4, <1>6, <1>8

\* The units as a move finds them, the one it creates included.
Made(t, u) == IF u # Loose /\ ~Exists(u) THEN [unit EXCEPT ![u] = Created(t.bin, Nothing)] ELSE unit
Goal(t, u) == <<u, t.bin, TypeOf(t.from)>>

LEMMA UnitsMade ==
  ASSUME Packed, NEW t, t.bin \in Bins, NEW u \in Units \cup {Loose}
  PROVE  UnitsType(Made(t, u)) /\ Weighed(balance, Made(t, u))
<1>1. UnitsType(unit) /\ Weighed(balance, unit)
  BY DEF Packed
<1> DEFINE vs == Made(t, u)
<1>2. CASE u = Loose \/ Exists(u)
  BY <1>1, <1>2 DEF Made
<1>3. CASE ~(u = Loose \/ Exists(u))
  <2>1. u \in Units /\ unit[u].status = "None"
    BY <1>3 DEF Exists
  <2>2. vs = [x \in Units |-> IF x = u THEN Created(t.bin, Nothing) ELSE unit[x]]
    BY <1>1, <1>3, <2>1 DEF Made, UnitsType
  <2> HIDE DEF vs
  <2>3. UnitsType(vs) /\ \A x \in Units : Carries(vs, x) = Carries(unit, x)
    BY <1>1, <2>1, <2>2, NewUnit
  <2>4. Weighed(balance, vs)
    BY <1>1, <2>3, SameLoad
  <2>5. QED
    BY <2>3, <2>4 DEF vs
<1>4. QED
  BY <1>2, <1>3

LEMMA MovedIs ==
  ASSUME NEW t, NEW u, Moved(t, u)
  PROVE  /\ GoesTo(t, u)
         /\ u # Holder(t.from) => \A r \in RowsOf(u) : BinOf(r) # t.bin => balance[r].quantity = 0
         /\ PostEntries(Transfer(t.from, Goal(t, u), t.quantity), WithUnitAt(Made(t, u), u, t.bin))
         /\ UNCHANGED <<pool, document, request>>
BY Zenon DEF Moved, Made, Goal

LEMMA MovedBooks ==
  ASSUME Stocked, Packed, NEW t, MoveType(t), NEW u \in Units \cup {Loose}, Moved(t, u)
  PROVE  /\ Goal(t, u) \in Rows /\ Goal(t, u) # t.from
         /\ Holder(Goal(t, u)) = u /\ BinOf(Goal(t, u)) = t.bin /\ TypeOf(Goal(t, u)) = TypeOf(t.from)
         /\ Books(Transfer(t.from, Goal(t, u), t.quantity), WithUnitAt(Made(t, u), u, t.bin))
<1>1. t.from \in Rows /\ t.bin \in Bins /\ t.bin # BinOf(t.from) /\ t.quantity \in Int \ {0}
  BY DEF MoveType
<1>2. /\ Goal(t, u) \in Rows /\ Holder(Goal(t, u)) = u /\ BinOf(Goal(t, u)) = t.bin
      /\ TypeOf(Goal(t, u)) = TypeOf(t.from)
  BY <1>1, RowParts DEF Goal, Holders
<1>3. Transfer(t.from, Goal(t, u), t.quantity) \in Entries
  BY <1>1, <1>2, InEntries
<1>4. UnitsType(Made(t, u)) /\ Weighed(balance, Made(t, u))
  BY <1>1, UnitsMade
<1>5. /\ UnitsType(WithUnitAt(Made(t, u), u, t.bin))
      /\ \A x \in Units : Carries(WithUnitAt(Made(t, u), u, t.bin), x) = Carries(Made(t, u), x)
  BY <1>1, <1>4, UnitsWithUnitAt
<1>6. Weighed(balance, WithUnitAt(Made(t, u), u, t.bin))
  BY <1>4, <1>5, SameLoad
<1>7. PostEntries(Transfer(t.from, Goal(t, u), t.quantity), WithUnitAt(Made(t, u), u, t.bin))
  BY MovedIs
<1>8. QED
  BY <1>1, <1>2, <1>3, <1>5, <1>6, <1>7 DEF Books

LEMMA TasksStay ==
  ASSUME Planned, NEW ts, \A t \in ts : MoveType(t), task' \in SUBSET (task \cup ts),
         UNCHANGED <<pool, document, request>>
  PROVE  Planned'
BY DEF Planned

LEMMA TasksGo ==
  ASSUME Planned, task' \in SUBSET task, UNCHANGED <<pool, document, request>>
  PROVE  Planned'
BY DEF Planned

\* A move planned or done at once: its bin is not the bin the stock is in.
LEMMA MoveTaskType ==
  ASSUME NEW r \in Rows, NEW b \in Bins, b # BinOf(r), NEW into, NEW q \in Nat \ {0}
  PROVE  MoveType(MoveTask(r, b, into, q))
BY DEF MoveType, MoveTask

LEMMA PlansKeeps ==
  ASSUME Stocked, Packed, Planned, NEW ts, \A t \in ts : MoveType(t), Plans(ts)
  PROVE  Stocked' /\ Packed' /\ Planned' /\ UNCHANGED <<balance, document, request>>
<1>1. task' = task \cup ts /\ UNCHANGED <<balance, ledger, unit, pool, document, request>>
  BY DEF Plans
<1>2. Planned'
  BY <1>1, TasksStay
<1>3. QED
  BY <1>1, <1>2, SameBooks

LEMMA PlanningKeeps ==
  ASSUME Stocked, Packed, Planned,
         \/ \E r \in Rows, b \in Bins, q \in 1..MaxPayload, into \in Destinations :
              AdhocMove(r, b, into, q) \/ Deconsolidate(r, b, into, q)
         \/ \E u \in Units, b \in Bins : CloseMovement(u, b)
         \/ \E t \in task : CancelMove(t)
  PROVE  Stocked' /\ Packed' /\ Planned' /\ UNCHANGED <<balance, document, request>>
<1>1. ASSUME NEW r \in Rows, NEW b \in Bins, NEW q \in 1..MaxPayload, NEW into,
             AdhocMove(r, b, into, q) \/ Deconsolidate(r, b, into, q)
      PROVE  Stocked' /\ Packed' /\ Planned' /\ UNCHANGED <<balance, document, request>>
  <2>1. b # BinOf(r) /\ Plans({MoveTask(r, b, into, q)})
    BY <1>1 DEF AdhocMove, Deconsolidate
  <2>2. q \in Nat \ {0}
    BY StockAssumption
  <2>3. \A t \in {MoveTask(r, b, into, q)} : MoveType(t)
    BY <2>1, <2>2, MoveTaskType
  <2> HIDE DEF MoveTask
  <2>4. QED
    BY <2>1, <2>3, PlansKeeps
<1>2. ASSUME NEW u \in Units, NEW b \in Bins, CloseMovement(u, b)
      PROVE  Stocked' /\ Packed' /\ Planned' /\ UNCHANGED <<balance, document, request>>
  <2> DEFINE rows == {r \in RowsOf(u) : balance[r].quantity > 0}
             here(r) == <<u, unit[u].bin, TypeOf(r)>>
             ts == {MoveTask(here(r), b, Nothing, balance[r].quantity) : r \in rows}
  <2>1. Exists(u) /\ unit[u].bin # b /\ Plans(ts)
    BY <1>2, Zenon DEF CloseMovement
  <2>2. unit[u].bin \in Bins
    BY <2>1 DEF Packed, UnitsType, Exists
  <2>3. ASSUME NEW r \in rows
        PROVE  MoveType(MoveTask(here(r), b, Nothing, balance[r].quantity))
    <3>1. r \in Rows
      BY BlocksFinite
    <3>2. balance[r].quantity \in Nat \ {0}
      BY <3>1, QuantityType DEF Stocked
    <3>3. here(r) \in Rows /\ BinOf(here(r)) = unit[u].bin
      BY <2>2, <3>1, RowParts DEF Holders
    <3> HIDE DEF here
    <3>4. QED
      BY <2>1, <3>2, <3>3, MoveTaskType
  <2>4. \A t \in ts : MoveType(t)
    BY <2>3
  <2> HIDE DEF ts
  <2>5. QED
    BY <2>1, <2>4, PlansKeeps
<1>3. ASSUME NEW t \in task, CancelMove(t)
      PROVE  Stocked' /\ Packed' /\ Planned' /\ UNCHANGED <<balance, document, request>>
  <2>1. /\ task' \in SUBSET task
        /\ UNCHANGED <<balance, ledger, unit, pool, document, request>>
    BY <1>3 DEF CancelMove
  <2>2. Planned'
    BY <2>1, TasksGo
  <2>3. QED
    BY <2>1, <2>2, SameBooks
<1>4. QED
  BY <1>1, <1>2, <1>3

\* A move that is carried out.
LEMMA MovingIs ==
  ASSUME Planned,
         \/ \E r \in Rows, b \in Bins, q \in 1..MaxPayload, into \in Destinations, u \in Units \cup {Loose} :
              MoveAtOnce(r, b, into, q, u)
         \/ \E t \in task, u \in Units \cup {Loose} : ConfirmMove(t, u)
  PROVE  \E t : \E u \in Units \cup {Loose} : MoveType(t) /\ Moved(t, u) /\ Planned'
<1>1. ASSUME NEW r \in Rows, NEW b \in Bins, NEW q \in 1..MaxPayload, NEW into,
             NEW u \in Units \cup {Loose}, MoveAtOnce(r, b, into, q, u)
      PROVE  \E t : MoveType(t) /\ Moved(t, u) /\ Planned'
  <2> DEFINE t == MoveTask(r, b, into, q)
  <2>1. b # BinOf(r) /\ Moved(t, u) /\ task' = task
    BY <1>1 DEF MoveAtOnce
  <2>2. q \in Nat \ {0}
    BY StockAssumption
  <2>3. MoveType(t)
    BY <2>1, <2>2, MoveTaskType
  <2> HIDE DEF t
  <2>4. UNCHANGED <<pool, document, request, task>>
    BY <2>1, MovedIs
  <2>5. Planned'
    BY <2>4, PlannedStays
  <2>6. QED
    BY <2>1, <2>3, <2>5
<1>2. ASSUME NEW t \in task, NEW u \in Units \cup {Loose}, ConfirmMove(t, u)
      PROVE  MoveType(t) /\ Moved(t, u) /\ Planned'
  <2>1. Moved(t, u) /\ task' \in SUBSET task
    BY <1>2 DEF ConfirmMove
  <2>2. UNCHANGED <<pool, document, request>>
    BY <2>1, MovedIs
  <2>3. Planned'
    BY <2>1, <2>2, TasksGo
  <2>4. QED
    BY <2>1, <2>3 DEF Planned
<1>3. QED
  BY <1>1, <1>2

-----------------------------------------------------------------------------
(* The second half, kept as long as no balance is rebuilt. *)

\* The database commits or refuses a whole step: what a request has read stays
\* what it was, or is dropped.
LEMMA OrderlyKept ==
  ASSUME Planned, Orderly, Whole(balance'), ByHand => ByHand',
         Together(balance) /\ TogetherSeen => Together(balance') \/ ByHand',
         request' = request \/ \E c \in Clerks : request' = [request EXCEPT ![c] = Nothing]
  PROVE  Orderly'
<1>1. \A c \in Clerks : request'[c] # Nothing => request[c] # Nothing /\ request'[c] = request[c]
  BY DEF Planned
<1>2. WholeSeen' /\ (TogetherSeen => TogetherSeen')
  BY <1>1 DEF Orderly, WholeSeen, TogetherSeen
<1>3. QED
  BY <1>2 DEF Orderly

\* A step that leaves the balances and the documents as they are.
LEMMA OrderlyStays ==
  ASSUME Planned, Orderly, UNCHANGED <<balance, document>>,
         request' = request \/ \E c \in Clerks : request' = [request EXCEPT ![c] = Nothing]
  PROVE  Orderly'
<1>1. Whole(balance') /\ (Together(balance) => Together(balance')) /\ (ByHand => ByHand')
  BY DEF Orderly, Whole, Together, ByHand
<1>2. QED
  BY <1>1, OrderlyKept

\* An empty unit, or a number not in use, has no stock.
LEMMA EmptyUnit ==
  ASSUME Stocked, Packed, Whole(balance), NEW u \in Units, Carries(unit, u) = 0
  PROVE  \A r \in Rows : Holder(r) = u => balance[r].quantity = 0
<1> DEFINE f == Quantity(balance)
           S == RowsOf(u)
<1>1. \A r \in Rows : f[r] = balance[r].quantity /\ f[r] \in Int /\ f[r] >= 0
  BY QuantityType DEF Stocked, Whole
<1>2. IsFiniteSet(S) /\ S \subseteq Rows /\ \A r \in Rows : r \in S <=> Holder(r) = u
  BY BlocksFinite
<1>3. SumFunctionOnSet(f, S) = 0
  BY DEF Packed, Weighed, SumOver
<1> HIDE DEF f, S
<1>4. \A r \in S : f[r] \in Nat
  BY <1>1, <1>2
<1>5. \A r \in S : f[r] <= 0
  BY <1>2, <1>3, <1>4, SumElement
<1>6. QED
  BY <1>1, <1>2, <1>5

LEMMA BooksWhole ==
  ASSUME Stocked, Whole(balance), NEW e, NEW us, Books(e, us)
  PROVE  Whole(balance')
<1>1. /\ \A r \in DOMAIN e : Booked(e)[r].quantity >= 0
      /\ balance' = Booked(e) /\ EntryType(e)
  BY EntriesType DEF Books, PostEntries, Accepts
<1>2. \A r \in Rows : balance'[r].quantity = balance[r].quantity + Change(e)[r]
  BY <1>1, PostingRows DEF Stocked
<1>3. \A r \in Rows : balance[r].quantity \in Int /\ balance[r].quantity >= 0
  BY QuantityType DEF Stocked, Whole
<1>4. ASSUME NEW r \in Rows
      PROVE  balance'[r].quantity >= 0
  <2>1. CASE r \in DOMAIN e
    BY <1>1, <2>1
  <2>2. CASE r \notin DOMAIN e
    <3>1. Change(e)[r] = 0
      BY <2>2 DEF Change
    <3>2. QED
      BY <1>2, <1>3, <3>1
  <2>3. QED
    BY <2>1, <2>2
<1>5. QED
  BY <1>4 DEF Whole

LEMMA OneRows ==
  ASSUME Stocked, NEW r \in Rows, NEW q \in Int, NEW us, Books(One(r, q), us)
  PROVE  \A x \in Rows : balance'[x].quantity = IF x = r THEN balance[x].quantity + q ELSE balance[x].quantity
<1>1. EntryType(One(r, q)) /\ balance' = Booked(One(r, q))
  BY EntriesType DEF Books, PostEntries
<1>2. \A x \in Rows : balance'[x].quantity = balance[x].quantity + Change(One(r, q))[x]
  BY <1>1, PostingRows DEF Stocked
<1>3. \A x \in Rows : balance[x].quantity \in Int /\ Change(One(r, q))[x] = IF x = r THEN q ELSE 0
  BY QuantityType DEF Stocked, Change, One
<1>4. QED
  BY <1>2, <1>3

LEMMA TransferRows ==
  ASSUME Stocked, NEW x \in Rows, NEW y \in Rows, x # y, NEW q \in Int, NEW us, Books(Transfer(x, y, q), us)
  PROVE  \A r \in Rows : balance'[r].quantity = IF r = x THEN balance[r].quantity - q
                                                ELSE IF r = y THEN balance[r].quantity + q
                                                ELSE balance[r].quantity
<1>1. EntryType(Transfer(x, y, q)) /\ balance' = Booked(Transfer(x, y, q))
  BY EntriesType DEF Books, PostEntries
<1>2. \A r \in Rows : balance'[r].quantity = balance[r].quantity + Change(Transfer(x, y, q))[r]
  BY <1>1, PostingRows DEF Stocked
<1>3. \A r \in Rows : /\ balance[r].quantity \in Int
                      /\ Change(Transfer(x, y, q))[r] = IF r = x THEN -q ELSE IF r = y THEN q ELSE 0
  BY QuantityType DEF Stocked, Change, Transfer
<1>4. QED
  BY <1>2, <1>3

\* Stock comes to one row only, and the holder of that row has none elsewhere.
LEMMA TogetherKept ==
  ASSUME Together(balance), NEW y \in Rows,
         \A r \in Rows : r # y /\ balance'[r].quantity > 0 => balance[r].quantity > 0,
         Holder(y) = Loose \/ \A r \in Rows : Holder(r) = Holder(y) /\ balance'[r].quantity > 0 => BinOf(r) = BinOf(y)
  PROVE  Together(balance')
<1>1. ASSUME NEW r \in Rows, NEW s \in Rows, Holder(r) = Holder(s), Holder(r) # Loose,
             balance'[r].quantity > 0, balance'[s].quantity > 0
      PROVE  BinOf(r) = BinOf(s)
  <2>1. CASE Holder(r) = Holder(y)
    BY <1>1, <2>1
  <2>2. CASE Holder(r) # Holder(y)
    BY <1>1, <2>2 DEF Together
  <2>3. QED
    BY <2>1, <2>2
<1>2. QED
  BY <1>1 DEF Together

LEMMA PostedKeepsHand ==
  ASSUME Planned, NEW d \in Documents, NEW kind, NEW from, NEW to, NEW q, Posted(d, kind, from, to, q)
  PROVE  ByHand => ByHand'
<1>1. document[d].status = "Draft" /\ \A x \in Documents \ {d} : document'[x] = document[x]
  BY DEF Posted, Planned
<1>2. QED
  BY <1>1 DEF ByHand

LEMMA ReceiptOrderly ==
  ASSUME Stocked, Packed, Planned, Orderly, NEW d \in Documents, NEW r \in Rows, NEW q \in Nat \ {0},
         PostReceipt(d, r, q)
  PROVE  Orderly'
<1>1. /\ Holder(r) \in Receivable /\ Posted(d, "Receipt", Nothing, r, q) /\ request' = request
      /\ Books(One(r, q), WithUnit(Holder(r), BinOf(r)))
  BY ReceiptBooks DEF PostReceipt, Posted
<1>2. Whole(balance) /\ Whole(balance')
  BY <1>1, BooksWhole DEF Orderly
<1>3. \A x \in Rows : balance'[x].quantity = IF x = r THEN balance[x].quantity + q ELSE balance[x].quantity
  BY <1>1, OneRows
<1>4. ASSUME Holder(r) # Loose, NEW x \in Rows, Holder(x) = Holder(r), balance'[x].quantity > 0
      PROVE  BinOf(x) = BinOf(r)
  <2>1. Holder(r) \in Units /\ Carries(unit, Holder(r)) = 0
    BY <1>1, <1>4 DEF Receivable, Carries, Exists
  <2>2. balance[x].quantity = 0
    BY <1>2, <1>4, <2>1, EmptyUnit
  <2>3. x = r
    BY <1>3, <1>4, <2>2
  <2>4. QED
    BY <2>3
<1>5. Together(balance) => Together(balance')
  BY <1>3, <1>4, TogetherKept
<1>6. ByHand => ByHand'
  BY <1>1, PostedKeepsHand
<1>7. QED
  BY <1>1, <1>2, <1>5, <1>6, OrderlyKept

LEMMA ScrapOrderly ==
  ASSUME Stocked, Packed, Planned, Orderly, NEW d \in Documents, NEW r \in Rows, NEW q \in Nat \ {0},
         PostScrap(d, r, q)
  PROVE  Orderly'
<1>1. /\ Posted(d, "Scrap", r, Nothing, q) /\ request' = request
      /\ Books(One(r, -q), unit)
  BY ScrapBooks DEF PostScrap, Posted
<1>2. Whole(balance) /\ Whole(balance')
  BY <1>1, BooksWhole DEF Orderly
<1>3. \A x \in Rows : balance'[x].quantity = IF x = r THEN balance[x].quantity + (-q) ELSE balance[x].quantity
  BY <1>1, OneRows
<1>4. \A x \in Rows : balance'[x].quantity > 0 => balance[x].quantity > 0
  BY <1>3, QuantityType DEF Stocked
<1>5. Together(balance) => Together(balance')
  BY <1>4 DEF Together
<1>6. ByHand => ByHand'
  BY <1>1, PostedKeepsHand
<1>7. QED
  BY <1>1, <1>2, <1>5, <1>6, OrderlyKept

LEMMA OverOrderly ==
  ASSUME Stocked, Packed, Planned, Orderly, NEW d \in Documents, NEW r \in Rows, NEW q \in Nat \ {0},
         RecordOver(d, r, q)
  PROVE  Orderly'
<1>1. /\ Posted(d, "Over", Nothing, r, q) /\ request' = request
      /\ Books(One(r, q), unit) /\ Holder(r) = Loose
  BY OverBooks DEF RecordOver, Posted
<1>2. Whole(balance) /\ Whole(balance')
  BY <1>1, BooksWhole DEF Orderly
<1>3. \A x \in Rows : balance'[x].quantity = IF x = r THEN balance[x].quantity + q ELSE balance[x].quantity
  BY <1>1, OneRows
<1>4. Together(balance) => Together(balance')
  BY <1>1, <1>3, TogetherKept
<1>5. ByHand => ByHand'
  BY <1>1, PostedKeepsHand
<1>6. QED
  BY <1>1, <1>2, <1>4, <1>5, OrderlyKept

LEMMA ChangeOrderly ==
  ASSUME Stocked, Packed, Planned, Orderly, NEW d \in Documents, NEW r \in Rows, NEW q \in Nat \ {0},
         NEW t \in Types, PostChange(d, r, t, q)
  PROVE  Orderly'
<1>1. PICK to \in Rows :
           /\ to # r /\ Holder(to) = Holder(r) /\ BinOf(to) = BinOf(r)
           /\ Free(r) >= q
           /\ Books(Transfer(r, to, q), unit)
  BY ChangeBooks
<1>2. request' = request /\ (ByHand => ByHand')
  BY PostedKeepsHand DEF PostChange, Posted
<1>3. Whole(balance) /\ Whole(balance')
  BY <1>1, BooksWhole DEF Orderly
<1>4. balance[r].quantity > 0
  BY <1>1, QuantityType DEF Stocked, Free
<1>5. \A x \in Rows : balance'[x].quantity = IF x = r THEN balance[x].quantity - q
                                              ELSE IF x = to THEN balance[x].quantity + q
                                              ELSE balance[x].quantity
  BY <1>1, TransferRows
<1>6. \A x \in Rows : x # to /\ balance'[x].quantity > 0 => balance[x].quantity > 0
  BY <1>4, <1>5
<1>7. ASSUME Together(balance), Holder(to) # Loose, NEW x \in Rows, Holder(x) = Holder(to), balance'[x].quantity > 0
      PROVE  BinOf(x) = BinOf(to)
  BY <1>1, <1>4, <1>6, <1>7 DEF Together
<1>8. Together(balance) => Together(balance')
  BY <1>6, <1>7, TogetherKept
<1>9. QED
  BY <1>2, <1>3, <1>8, OrderlyKept

\* What is booked by hand may put the stock of a unit into two bins.
LEMMA ByHandOrderly ==
  ASSUME Stocked, Packed, Planned, Orderly, NEW d \in Documents,
         CancelDocument(d) \/ \E to \in Rows : ClearOver(d, to)
  PROVE  Orderly'
<1>1. (\E e, us : Books(e, us)) /\ ByHand' /\ request' = request
  <2>1. CASE CancelDocument(d)
    BY <2>1, CancellingBooks DEF CancelDocument
  <2>2. ASSUME NEW to \in Rows, ClearOver(d, to)
        PROVE  (\E e, us : Books(e, us)) /\ ByHand' /\ request' = request
    BY <2>2, ClearingBooks DEF ClearOver
  <2>3. QED
    BY <2>1, <2>2
<1>2. Whole(balance')
  BY <1>1, BooksWhole DEF Orderly
<1>3. QED
  BY <1>1, <1>2, OrderlyKept

\* When the whole content of a bin moves with its unit, nothing stays behind.
LEMMA NothingStays ==
  ASSUME Stocked, Whole(balance), NEW r \in Rows, NEW q \in Int,
         SumOver(Quantity(balance), {x \in RowsOf(Holder(r)) : BinOf(x) = BinOf(r)}) <= q,
         q <= balance[r].quantity, Holder(r) \in Units
  PROVE  /\ balance[r].quantity = q
         /\ \A x \in Rows : Holder(x) = Holder(r) /\ BinOf(x) = BinOf(r) /\ x # r => balance[x].quantity = 0
<1> DEFINE f == Quantity(balance)
           S == {x \in RowsOf(Holder(r)) : BinOf(x) = BinOf(r)}
<1>1. \A x \in Rows : f[x] = balance[x].quantity /\ f[x] \in Int /\ f[x] >= 0
  BY QuantityType DEF Stocked, Whole
<1>2. /\ IsFiniteSet(RowsOf(Holder(r))) /\ RowsOf(Holder(r)) \subseteq Rows
      /\ \A x \in Rows : x \in RowsOf(Holder(r)) <=> Holder(x) = Holder(r)
  BY BlocksFinite
<1>3. IsFiniteSet(S) /\ r \in S /\ S \subseteq Rows
  BY <1>2, FS_Subset
<1>4. \A x \in Rows : x \in S <=> Holder(x) = Holder(r) /\ BinOf(x) = BinOf(r)
  BY <1>2
<1>5. SumFunctionOnSet(f, S) <= q
  BY DEF SumOver
<1> HIDE DEF f, S
<1>6. \A x \in S : f[x] \in Nat
  BY <1>1, <1>3
<1>7. SumFunctionOnSet(f, S) = f[r] + SumFunctionOnSet(f, S \ {r})
  BY <1>3, <1>6, SumRemove
<1>8. IsFiniteSet(S \ {r}) /\ SumFunctionOnSet(f, S \ {r}) \in Nat
  BY <1>3, <1>6, FS_RemoveElement, SumNat
<1>9. f[r] = q /\ SumFunctionOnSet(f, S \ {r}) = 0
  <2>1. f[r] \in Nat /\ q <= f[r]
    BY <1>1
  <2>2. QED
    BY <1>5, <1>7, <1>8, <2>1
<1>10. \A x \in S \ {r} : f[x] <= 0
  BY <1>6, <1>8, <1>9, SumElement
<1>11. \A x \in S \ {r} : f[x] = 0
  BY <1>6, <1>10
<1>12. QED
  BY <1>1, <1>4, <1>9, <1>11

LEMMA MovedTogether ==
  ASSUME Stocked, Packed, Whole(balance), Together(balance), NEW t, MoveType(t),
         NEW u \in Units \cup {Loose}, Moved(t, u)
  PROVE  Together(balance')
<1> DEFINE x == t.from
           y == Goal(t, u)
           q == t.quantity
<1>1. /\ x \in Rows /\ y \in Rows /\ x # y /\ q \in Nat \ {0} /\ t.bin # BinOf(x)
      /\ Holder(y) = u /\ BinOf(y) = t.bin
      /\ Books(Transfer(x, y, q), WithUnitAt(Made(t, u), u, t.bin))
  BY MovedBooks DEF MoveType
<1>2. /\ GoesTo(t, u)
      /\ u # Holder(x) => \A r \in RowsOf(u) : BinOf(r) # t.bin => balance[r].quantity = 0
  BY MovedIs
<1> HIDE DEF x, y, q
<1>3. Whole(balance')
  BY <1>1, BooksWhole
<1>4. \A r \in Rows : balance'[r].quantity = IF r = x THEN balance[r].quantity - q
                                              ELSE IF r = y THEN balance[r].quantity + q
                                              ELSE balance[r].quantity
  BY <1>1, TransferRows
<1>5. \A r \in Rows : balance[r].quantity \in Int
  BY QuantityType DEF Stocked
<1>6. \A r \in Rows : r # y /\ balance'[r].quantity > 0 => balance[r].quantity > 0
  BY <1>1, <1>4, <1>5
<1>7. ASSUME u # Loose, NEW r \in Rows, Holder(r) = u, balance'[r].quantity > 0, BinOf(r) # t.bin
      PROVE  FALSE
  <2>0. u \in Units /\ r # y /\ balance[r].quantity > 0
    BY <1>1, <1>6, <1>7
  <2>1. r \in RowsOf(u)
    BY <1>7, <2>0, BlocksFinite
  <2>2. u = Holder(x)
    BY <1>2, <1>5, <1>7, <2>0, <2>1
  <2>3. CASE ~Exists(u)
    <3>1. Carries(unit, u) = 0
      BY <2>0, <2>3 DEF Carries, Exists
    <3>2. balance[r].quantity = 0
      BY <1>7, <2>0, <3>1, EmptyUnit
    <3>3. QED
      BY <2>0, <3>2
  <2>4. CASE Exists(u)
    <3>1. SumOver(Quantity(balance), {s \in RowsOf(Holder(x)) : BinOf(s) = BinOf(x)}) <= q
      BY <1>2, <2>2, <2>4, Zenon DEF GoesTo, x, q
    <3>2. q <= balance[x].quantity
      BY <1>1, <1>3, <1>4, <1>5 DEF Whole
    <3>3. /\ balance[x].quantity = q
          /\ \A s \in Rows : Holder(s) = Holder(x) /\ BinOf(s) = BinOf(x) /\ s # x => balance[s].quantity = 0
      BY <1>1, <2>0, <2>2, <3>1, <3>2, NothingStays
    <3>4. BinOf(r) = BinOf(x)
      BY <1>1, <1>7, <2>0, <2>2, <3>3 DEF Together
    <3>5. r = x
      BY <1>7, <2>0, <2>2, <3>3, <3>4
    <3>6. balance'[x].quantity = 0
      BY <1>1, <1>4, <3>3
    <3>7. QED
      BY <1>7, <3>5, <3>6
  <2>5. QED
    BY <2>3, <2>4
<1>8. QED
  BY <1>1, <1>6, <1>7, TogetherKept

LEMMA MovedOrderly ==
  ASSUME Stocked, Packed, Planned, Orderly, NEW t, MoveType(t), NEW u \in Units \cup {Loose}, Moved(t, u)
  PROVE  Orderly'
<1>1. /\ Books(Transfer(t.from, Goal(t, u), t.quantity), WithUnitAt(Made(t, u), u, t.bin))
      /\ UNCHANGED <<document, request>>
  BY MovedBooks, MovedIs
<1>2. Whole(balance) /\ Whole(balance')
  BY <1>1, BooksWhole DEF Orderly
<1>3. Together(balance) => Together(balance')
  BY <1>2, MovedTogether
<1>4. ByHand => ByHand'
  BY <1>1 DEF ByHand
<1>5. QED
  BY <1>1, <1>2, <1>3, <1>4, OrderlyKept

-----------------------------------------------------------------------------
(* Carrying what a request has read: the unit's record did not change since, *)
(* so what the snapshot does not show is not there.                          *)

LEMMA NothingUnseen ==
  ASSUME Stocked, Packed, Planned, Whole(balance),
         NEW c \in Clerks, request[c] # Nothing, Whole(request[c].balance), Together(request[c].balance),
         NEW u, NEW b \in Bins,
         NEW h \in Units, h \in Inside(c, u, b) \cup {u}, unit[h] = request[c].units[h],
         \A r \in CarriedRows(c, u, b) : balance[r] = request[c].balance[r],
         NEW x \in CarriedRows(c, u, b), Holder(x) = h, balance[x].quantity # 0
  PROVE  \A r \in Rows : Holder(r) = h /\ r \notin CarriedRows(c, u, b) => balance[r].quantity = 0
<1> DEFINE seen == request[c].balance
           f == Quantity(seen)
           g == Quantity(balance)
           S == RowsOf(h)
           T == CarriedRows(c, u, b) \cap S
<1>1. /\ BalanceType(seen) /\ BalanceType(balance)
      /\ Weighed(seen, request[c].units) /\ Weighed(balance, unit)
  BY DEF Planned, SnapshotType, Stocked, Packed
<1>2. \A r \in Rows : /\ f[r] = seen[r].quantity /\ f[r] \in Nat
                      /\ g[r] = balance[r].quantity /\ g[r] \in Nat
  BY <1>1, QuantityType DEF Whole
<1>3. IsFiniteSet(S) /\ S \subseteq Rows /\ \A r \in Rows : r \in S <=> Holder(r) = h
  BY BlocksFinite
<1>4. T \in SUBSET S /\ IsFiniteSet(T) /\ IsFiniteSet(S \ T) /\ T \cap (S \ T) = {} /\ S = T \cup (S \ T)
  BY <1>3, FS_Subset
<1>5. \A r \in T : g[r] = f[r]
  BY <1>2, <1>3
<1>6. x \in Rows /\ BinOf(x) # b /\ request[c].units[u].bin # b /\ seen[x].quantity > 0
  <2>1. x \in Rows /\ BinOf(x) # b /\ request[c].units[u].bin # b /\ balance[x] = seen[x]
    BY DEF CarriedRows
  <2>2. QED
    BY <1>2, <2>1
<1>7. ASSUME NEW r \in S, f[r] # 0
      PROVE  r \in T
  <2>1. r \in Rows /\ Holder(r) = h /\ seen[r].quantity > 0
    BY <1>2, <1>3, <1>7
  <2>2. h # Loose
    BY StockAssumption
  <2>3. BinOf(r) = BinOf(x)
    BY <1>6, <2>1, <2>2 DEF Together
  <2>4. seen[r] # NoRow
    BY <2>1 DEF NoRow
  <2>5. r \in CarriedRows(c, u, b)
    BY <1>6, <2>1, <2>3, <2>4 DEF CarriedRows
  <2>6. QED
    BY <2>5
<1>8. SumFunctionOnSet(f, S) = SumFunctionOnSet(g, S)
  BY <1>1 DEF Weighed, Carries, SumOver
<1> HIDE DEF f, g, S, T, seen
<1>9. \A r \in S : f[r] \in Nat /\ g[r] \in Nat
  BY <1>2, <1>3
<1>10. SumFunctionOnSet(f, S) = SumFunctionOnSet(f, T)
  BY <1>3, <1>4, <1>7, <1>9, SumRestricted
<1>11. SumFunctionOnSet(g, T) = SumFunctionOnSet(f, T)
  BY <1>4, <1>5, SumEqual
<1>12. SumFunctionOnSet(g, T \cup (S \ T)) = SumFunctionOnSet(g, T) + SumFunctionOnSet(g, S \ T)
  BY <1>4, <1>9, SumDisjoint
<1>13. SumFunctionOnSet(g, T) \in Nat /\ SumFunctionOnSet(g, S \ T) \in Nat
  BY <1>4, <1>9, SumNat
<1>14. SumFunctionOnSet(g, S \ T) = 0
  <2>1. SumFunctionOnSet(g, S) = SumFunctionOnSet(g, T) + SumFunctionOnSet(g, S \ T)
    BY <1>4, <1>12, Zenon
  <2>2. SumFunctionOnSet(g, S) = SumFunctionOnSet(g, T)
    BY <1>8, <1>10, <1>11, Zenon
  <2>3. QED
    BY <1>13, <2>1, <2>2
<1>15. \A r \in S \ T : g[r] <= 0
  BY <1>4, <1>9, <1>14, SumElement
<1>16. ASSUME NEW r \in Rows, Holder(r) = h, r \notin CarriedRows(c, u, b)
       PROVE  balance[r].quantity = 0
  <2>1. r \in S \ T
    BY <1>3, <1>16 DEF T
  <2>2. QED
    BY <1>2, <1>15, <2>1
<1>17. QED
  BY <1>16

LEMMA GatheredNat ==
  ASSUME NEW f \in [Rows -> Int], \A r \in Rows : f[r] >= 0, NEW rows \in SUBSET Rows, NEW b \in Bins
  PROVE  \A r \in Rows : Gathered(f, rows, b)[r] >= 0
<1>1. ASSUME NEW r \in Rows
      PROVE  Gathered(f, rows, b)[r] >= 0
  <2>0. IsFiniteSet(Incoming(rows, r))
    BY GatheredType
  <2>1. \A x \in Incoming(rows, r) : f[x] \in Nat
    BY DEF Incoming
  <2> DEFINE more == SumOver(f, Incoming(rows, r))
  <2>2. more \in Nat
    BY <2>0, <2>1, SumNat DEF SumOver
  <2> HIDE DEF more
  <2>3. Gathered(f, rows, b)[r] = IF r \in rows THEN 0 ELSE IF BinOf(r) = b THEN f[r] + more ELSE f[r]
    BY DEF Gathered, more
  <2>4. QED
    BY <2>2, <2>3
<1>2. QED
  BY <1>1

\* A holder of whom nothing is carried has what it had.
LEMMA NothingCarried ==
  ASSUME NEW f \in [Rows -> Int], NEW rows \in SUBSET Rows, NEW b \in Bins,
         NEW r \in Rows, \A x \in rows : Holder(x) = Holder(r) => f[x] = 0
  PROVE  Gathered(f, rows, b)[r] = f[r]
<1> DEFINE more == SumOver(f, Incoming(rows, r))
<1>1. IsFiniteSet(Incoming(rows, r)) /\ \A x \in Incoming(rows, r) : f[x] = 0
  BY GatheredType DEF Incoming
<1>2. more = 0
  BY <1>1, SumZero DEF SumOver
<1> HIDE DEF more
<1>3. Gathered(f, rows, b)[r] = IF r \in rows THEN 0 ELSE IF BinOf(r) = b THEN f[r] + more ELSE f[r]
  BY DEF Gathered, more
<1>4. f[r] \in Int
  OBVIOUS
<1>5. QED
  BY <1>2, <1>3, <1>4

LEMMA CarryTogether ==
  ASSUME Stocked, Packed, Planned, Whole(balance), Together(balance),
         NEW c \in Clerks, request[c] # Nothing, Whole(request[c].balance), Together(request[c].balance),
         NEW u \in Units, unit[u] = request[c].units[u], NEW b \in Bins, NEW p, Carry(c, u, b, p)
  PROVE  Together(balance')
<1> DEFINE rows == CarriedRows(c, u, b)
           f == Quantity(balance)
<1>1. /\ balance' = Relocated(rows, b)
      /\ rows \in SUBSET Rows
      /\ \A r \in rows : BinOf(r) # b /\ balance[r] = request[c].balance[r]
      /\ \A x \in Inside(c, u, b) : unit[x] = request[c].units[x]
  BY CarryIs
<1>2. BalanceType(balance) /\ f \in [Rows -> Int] /\ \A r \in Rows : f[r] = balance[r].quantity
  BY QuantityType DEF Stocked
<1>3. ASSUME NEW r \in Rows
      PROVE  balance'[r].quantity = Gathered(f, rows, b)[r]
  <2>1. BalanceType(balance') /\ Quantity(balance') = Gathered(f, rows, b)
    BY <1>1, <1>2, RelocatedRows
  <2>2. QED
    BY <2>1, QuantityType
<1>4. ASSUME NEW h \in Units,
             NEW x \in rows, Holder(x) = h, balance[x].quantity # 0,
             NEW r \in Rows, Holder(r) = h, balance'[r].quantity > 0
      PROVE  BinOf(r) = b
  <2>1. h \in Inside(c, u, b) \cup {u}
    BY <1>4 DEF CarriedRows
  <2>2. unit[h] = request[c].units[h]
    BY <1>1, <2>1
  <2>3. \A s \in Rows : Holder(s) = h /\ s \notin rows => balance[s].quantity = 0
    BY <1>1, <1>4, <2>1, <2>2, NothingUnseen
  <2>4. CASE r \in rows
    <3>1. Gathered(f, rows, b)[r] = 0
      BY <2>4 DEF Gathered
    <3>2. QED
      BY <1>3, <1>4, <3>1
  <2>5. CASE r \notin rows /\ BinOf(r) # b
    <3>1. Gathered(f, rows, b)[r] = f[r]
      BY <2>5 DEF Gathered
    <3>2. QED
      BY <1>2, <1>3, <1>4, <2>3, <2>5, <3>1
  <2>6. QED
    BY <2>4, <2>5
<1> HIDE DEF rows, f
<1>5. ASSUME NEW r \in Rows, NEW s \in Rows, Holder(r) = Holder(s), Holder(r) # Loose,
             balance'[r].quantity > 0, balance'[s].quantity > 0
      PROVE  BinOf(r) = BinOf(s)
  <2>1. Holder(r) \in Units
    BY <1>5, RowParts DEF Holders
  <2>2. CASE \E x \in rows : Holder(x) = Holder(r) /\ balance[x].quantity # 0
    BY <1>4, <1>5, <2>1, <2>2
  <2>3. CASE ~\E x \in rows : Holder(x) = Holder(r) /\ balance[x].quantity # 0
    <3>1. \A x \in rows : Holder(x) = Holder(r) => f[x] = 0
      BY <1>1, <1>2, <2>3
    <3>2. Gathered(f, rows, b)[r] = f[r]
      BY <1>1, <1>2, <3>1, NothingCarried
    <3>3. Gathered(f, rows, b)[s] = f[s]
      BY <1>1, <1>2, <1>5, <3>1, NothingCarried
    <3>4. balance[r].quantity > 0 /\ balance[s].quantity > 0
      BY <1>2, <1>3, <1>5, <3>2, <3>3
    <3>5. QED
      BY <1>5, <3>4 DEF Together
  <2>4. QED
    BY <2>2, <2>3
<1>6. QED
  BY <1>5 DEF Together

LEMMA CarryWhole ==
  ASSUME Stocked, Whole(balance), NEW c, NEW u, NEW b \in Bins, NEW p, Carry(c, u, b, p)
  PROVE  Whole(balance')
<1> DEFINE rows == CarriedRows(c, u, b)
           f == Quantity(balance)
<1>1. balance' = Relocated(rows, b) /\ rows \in SUBSET Rows
  BY CarryIs
<1>2. BalanceType(balance) /\ f \in [Rows -> Int] /\ \A r \in Rows : f[r] >= 0
  BY QuantityType DEF Stocked, Whole
<1> HIDE DEF rows, f
<1>3. BalanceType(balance') /\ Quantity(balance') = Gathered(f, rows, b)
  BY <1>1, <1>2, RelocatedRows DEF f
<1>4. \A r \in Rows : Gathered(f, rows, b)[r] >= 0
  BY <1>1, <1>2, GatheredNat
<1>5. \A r \in Rows : Quantity(balance')[r] = balance'[r].quantity
  BY <1>3, QuantityType
<1>6. QED
  BY <1>3, <1>4, <1>5 DEF Whole

LEMMA CarryOrderly ==
  ASSUME Stocked, Packed, Planned, Orderly, NEW c \in Clerks, request[c] # Nothing,
         NEW u \in Units, Unchanged(c, u), NEW b \in Bins, NEW p, Carry(c, u, b, p),
         document' = document, request' = [request EXCEPT ![c] = Nothing]
  PROVE  Orderly'
<1>1. Whole(balance) /\ Whole(request[c].balance) /\ unit[u] = request[c].units[u]
  BY DEF Orderly, WholeSeen, Unchanged
<1>2. Whole(balance')
  BY <1>1, CarryWhole
<1>3. Together(balance) /\ TogetherSeen => Together(balance')
  <2> SUFFICES ASSUME Together(balance), TogetherSeen PROVE Together(balance')
    OBVIOUS
  <2>1. Together(request[c].balance)
    BY DEF TogetherSeen
  <2>2. QED
    BY <1>1, <2>1, CarryTogether
<1>4. ByHand => ByHand'
  BY DEF ByHand
<1>5. QED
  BY <1>2, <1>3, <1>4, OrderlyKept

LEMMA HandleUnitOrderly ==
  ASSUME Stocked, Packed, Planned, Orderly, NEW c \in Clerks, HandleUnit(c)
  PROVE  Orderly'
<1>1. request[c] # Nothing /\ request' = [request EXCEPT ![c] = Nothing] /\ document' = document
  BY DEF HandleUnit
<1>2. ASSUME NEW p \in Units, Nest(c, p)
      PROVE  Orderly'
  <2>1. /\ request[c].unit \in Units /\ request[c].units[p].bin \in Bins /\ Unchanged(c, request[c].unit)
        /\ Carry(c, request[c].unit, request[c].units[p].bin, p)
    BY <1>1, <1>2, NestIs
  <2>2. QED
    BY <1>1, <2>1, CarryOrderly
<1>3. ASSUME NEW b \in Bins, RelocateUnit(c, b)
      PROVE  Orderly'
  <2>1. /\ request[c].unit \in Units /\ Unchanged(c, request[c].unit)
        /\ Carry(c, request[c].unit, b, Nothing)
    BY <1>1, <1>3, RelocateUnitIs
  <2>2. QED
    BY <1>1, <2>1, CarryOrderly
<1>4. CASE Unnest(c) \/ Recycle(c) \/ Refuse(c)
  <2>1. balance' = balance
    BY <1>4 DEF Unnest, Recycle, Refuse
  <2>2. QED
    BY <1>1, <2>1, OrderlyStays
<1>5. QED
  BY <1>2, <1>3, <1>4 DEF HandleUnit

LEMMA BeginRequestOrderly ==
  ASSUME Planned, Orderly, NEW c \in Clerks, NEW u \in Units, BeginRequest(c, u)
  PROVE  Orderly'
<1> DEFINE q == [unit |-> u, units |-> unit, tasks |-> task, balance |-> balance]
<1>1. request' = [request EXCEPT ![c] = q] /\ UNCHANGED <<balance, document>>
  BY DEF BeginRequest
<1>2. q.balance = balance
  OBVIOUS
<1> HIDE DEF q
<1>3. \A x \in Clerks : request'[x] = IF x = c THEN q ELSE request[x]
  BY <1>1 DEF Planned
<1>4. Whole(balance') /\ WholeSeen'
  BY <1>1, <1>2, <1>3 DEF Orderly, WholeSeen, Whole
<1>5. ByHand => ByHand'
  BY <1>1 DEF ByHand
<1>6. Together(balance) /\ TogetherSeen => Together(balance') /\ TogetherSeen'
  BY <1>1, <1>2, <1>3 DEF TogetherSeen, Together
<1>7. QED
  BY <1>4, <1>5, <1>6 DEF Orderly

LEMMA ReservationIs ==
  ASSUME Stocked, NEW r \in Rows, Reserve(r) \/ ReleaseAllocation(r)
  PROVE  /\ \E n \in {1, -1} : balance[r].allocated + n \in Nat
                               /\ balance' = Reserved(r, n)
         /\ UNCHANGED <<ledger, unit, pool, document, task, request>>
<1>1. balance[r].allocated \in Nat
  BY QuantityType DEF Stocked
<1>2. CASE Reserve(r)
  <2>1. /\ balance' = [balance EXCEPT ![r].allocated = @ + 1]
        /\ UNCHANGED <<ledger, unit, pool, document, task, request>>
    BY <1>2 DEF Reserve
  <2>2. QED
    BY <1>1, <2>1 DEF Reserved
<1>3. CASE ReleaseAllocation(r)
  <2>1. /\ balance' = [balance EXCEPT ![r].allocated = @ + (-1)] /\ balance[r].allocated > 0
        /\ UNCHANGED <<ledger, unit, pool, document, task, request>>
    <3>1. balance[r].allocated - 1 = balance[r].allocated + (-1)
      BY <1>1
    <3>2. balance' = [balance EXCEPT ![r].allocated = balance[r].allocated - 1]
      BY <1>3 DEF ReleaseAllocation, Stocked, BalanceType
    <3>3. QED
      BY <1>3, <3>1, <3>2 DEF ReleaseAllocation, Stocked, BalanceType
  <2>2. QED
    BY <1>1, <2>1 DEF Reserved
<1>4. QED
  BY <1>2, <1>3

LEMMA ReservationKeeps ==
  ASSUME Stocked, Packed, Planned, NEW r \in Rows, Reserve(r) \/ ReleaseAllocation(r)
  PROVE  Stocked' /\ Packed' /\ Planned' /\ (Orderly => Orderly')
<1>1. PICK n \in {1, -1} : balance[r].allocated + n \in Nat
                           /\ balance' = Reserved(r, n)
  BY ReservationIs
<1>2. UNCHANGED <<ledger, unit, pool, document, task, request>>
  BY ReservationIs
<1>3. Quiet /\ Quantity(balance') = Quantity(balance)
  BY <1>1, <1>2, n \in Int, ReservingIsQuiet
<1>4. UnitsType(unit') /\ \A u \in Units : Carries(unit', u) = Carries(unit, u)
  BY <1>2 DEF Packed
<1>5. Stocked' /\ Packed' /\ Planned'
  BY <1>2, <1>3, <1>4, QuietKeepsStocked, QuietKeepsPacked, PlannedStays
<1>6. \A x \in Rows : balance'[x].quantity = balance[x].quantity
  <2>1. BalanceType(balance) /\ BalanceType(balance')
    BY <1>3 DEF Stocked, Quiet
  <2>2. \A x \in Rows : Quantity(balance')[x] = balance'[x].quantity /\ Quantity(balance)[x] = balance[x].quantity
    BY <2>1, QuantityType
  <2>3. QED
    BY <1>3, <2>2
<1>7. ASSUME Orderly
      PROVE  Orderly'
  <2>1. Whole(balance') /\ (Together(balance) => Together(balance'))
    BY <1>6, <1>7 DEF Orderly, Whole, Together
  <2>2. ByHand => ByHand'
    BY <1>2 DEF ByHand
  <2>3. QED
    BY <1>2, <1>7, <2>1, <2>2, OrderlyKept
<1>8. QED
  BY <1>5, <1>7

-----------------------------------------------------------------------------
(* Every operation keeps both halves. *)

LEMMA MovesKeep ==
  ASSUME Stocked, Packed, Planned, Moves
  PROVE  Stocked' /\ Packed' /\ Planned' /\ (Orderly => Orderly')
<1>1. CASE \/ \E r \in Rows, b \in Bins, q \in 1..MaxPayload, into \in Destinations :
                AdhocMove(r, b, into, q) \/ Deconsolidate(r, b, into, q)
           \/ \E u \in Units, b \in Bins : CloseMovement(u, b)
           \/ \E t \in task : CancelMove(t)
  BY <1>1, PlanningKeeps, OrderlyStays
<1>2. CASE \/ \E r \in Rows, b \in Bins, q \in 1..MaxPayload, into \in Destinations, u \in Units \cup {Loose} :
                MoveAtOnce(r, b, into, q, u)
           \/ \E t \in task, u \in Units \cup {Loose} : ConfirmMove(t, u)
  <2>1. PICK t : \E u \in Units \cup {Loose} : MoveType(t) /\ Moved(t, u) /\ Planned'
    BY <1>2, MovingIs
  <2>2. PICK u \in Units \cup {Loose} : MoveType(t) /\ Moved(t, u) /\ Planned'
    BY <2>1
  <2>3. Books(Transfer(t.from, Goal(t, u), t.quantity), WithUnitAt(Made(t, u), u, t.bin))
    BY <2>2, MovedBooks
  <2>4. QED
    BY <2>2, <2>3, BooksKeeps, MovedOrderly
<1>3. QED
  BY <1>1, <1>2, Zenon DEF Moves

LEMMA PostingsKeep ==
  ASSUME Stocked, Packed, Planned, Postings
  PROVE  Stocked' /\ Packed' /\ Planned' /\ (Orderly => Orderly') /\ \E e, us : Books(e, us)
<1>0. \A q \in Quantities : q \in Nat \ {0}
  BY StockAssumption DEF Quantities
<1>1. PICK d \in Documents :
        \/ \E r \in Rows, q \in Quantities :
             \/ PostReceipt(d, r, q)
             \/ PostScrap(d, r, q)
             \/ RecordOver(d, r, q)
             \/ \E t \in Types : PostChange(d, r, t, q)
        \/ \E r \in Rows : ClearOver(d, r)
        \/ CancelDocument(d)
  BY Zenon DEF Postings
<1>2. ASSUME NEW r \in Rows, NEW q \in Nat \ {0},
             PostReceipt(d, r, q) \/ PostScrap(d, r, q) \/ RecordOver(d, r, q)
               \/ \E t \in Types : PostChange(d, r, t, q)
      PROVE  Planned' /\ (Orderly => Orderly') /\ \E e, us : Books(e, us)
  <2>1. CASE PostReceipt(d, r, q)
    BY <2>1, ReceiptBooks, ReceiptOrderly
  <2>2. CASE PostScrap(d, r, q)
    BY <2>2, ScrapBooks, ScrapOrderly
  <2>3. CASE RecordOver(d, r, q)
    BY <2>3, OverBooks, OverOrderly
  <2>4. ASSUME NEW t \in Types, PostChange(d, r, t, q)
        PROVE  Planned' /\ (Orderly => Orderly') /\ \E e, us : Books(e, us)
    BY <2>4, ChangeBooks, ChangeOrderly
  <2>5. QED
    BY <1>2, <2>1, <2>2, <2>3, <2>4
<1>3. CASE CancelDocument(d)
  BY <1>3, CancellingBooks, ByHandOrderly, BooksKeeps
<1>4. ASSUME NEW r \in Rows, ClearOver(d, r)
      PROVE  Planned' /\ (Orderly => Orderly') /\ \E e, us : Books(e, us)
  BY <1>4, ClearingBooks, ByHandOrderly
<1>5. Planned' /\ (Orderly => Orderly') /\ \E e, us : Books(e, us)
  <2>1. CASE \E r \in Rows, q \in Quantities :
             \/ PostReceipt(d, r, q)
             \/ PostScrap(d, r, q)
             \/ RecordOver(d, r, q)
             \/ \E t \in Types : PostChange(d, r, t, q)
    BY <1>0, <1>2, <2>1
  <2>2. QED
    BY <1>1, <1>3, <1>4, <2>1, CancellingBooks, ByHandOrderly
<1>6. QED
  BY <1>5, BooksKeeps

LEMMA HandlingKeeps ==
  ASSUME Stocked, Packed, Planned, HandlingUnits
  PROVE  Stocked' /\ Packed' /\ Planned' /\ (Orderly => Orderly')
<1>1. ASSUME NEW u \in Units, NEW b \in Bins, NEW p \in Units \cup {Nothing}, NEW i \in BOOLEAN,
             CreateUnit(u, i, b, p)
      PROVE  Stocked' /\ Packed' /\ Planned' /\ (Orderly => Orderly')
  <2>1. UNCHANGED <<balance, document, request>>
    BY <1>1 DEF CreateUnit
  <2>2. QED
    BY <1>1, <2>1, CreateUnitKeeps, OrderlyStays
<1>2. ASSUME NEW u \in Units, SetBlocked(u)
      PROVE  Stocked' /\ Packed' /\ Planned' /\ (Orderly => Orderly')
  <2>1. UNCHANGED <<balance, document, request>>
    BY <1>2 DEF SetBlocked
  <2>2. QED
    BY <1>2, <2>1, SetBlockedKeeps, OrderlyStays
<1>3. ASSUME NEW c \in Clerks, HandleUnit(c)
      PROVE  Stocked' /\ Packed' /\ Planned' /\ (Orderly => Orderly')
  BY <1>3, HandleUnitKeeps, HandleUnitOrderly
<1>4. ASSUME NEW c \in Clerks, NEW u \in Units, BeginRequest(c, u)
      PROVE  Stocked' /\ Packed' /\ Planned' /\ (Orderly => Orderly')
  BY <1>4, BeginRequestKeeps, BeginRequestOrderly
<1>5. QED
  BY <1>1, <1>2, <1>3, <1>4, Zenon DEF HandlingUnits

LEMMA NextKeeps ==
  ASSUME IInv, [Next]_vars
  PROVE  IInv'
<1> USE DEF IInv, TypeInv
<1>1. CASE Operations /\ UNCHANGED rebuilt
  <2>1. Stocked' /\ Packed' /\ Planned' /\ (Orderly => Orderly')
    <3>1. CASE HandlingUnits
      BY <3>1, HandlingKeeps
    <3>2. CASE Postings
      BY <3>2, PostingsKeep
    <3>3. CASE Moves
      BY <3>3, MovesKeep
    <3>4. CASE \E r \in Rows : Reserve(r) \/ ReleaseAllocation(r)
      BY <3>4, ReservationKeeps
    <3>5. QED
      BY <1>1, <3>1, <3>2, <3>3, <3>4 DEF Operations
  <2>2. QED
    BY <1>1, <2>1
<1>2. CASE RebuildBalances /\ rebuilt' = TRUE
  <2>1. UNCHANGED <<unit, pool, task, document, request>>
    BY <1>2 DEF RebuildBalances
  <2>2. Quiet
    BY <1>2, RebuildingIsQuiet
  <2>3. UnitsType(unit') /\ \A u \in Units : Carries(unit', u) = Carries(unit, u)
    BY <2>1 DEF Packed
  <2>4. QED
    BY <1>2, <2>1, <2>2, <2>3, QuietKeepsStocked, QuietKeepsPacked, PlannedStays
<1>3. CASE UNCHANGED vars
  <2>1. UNCHANGED <<balance, ledger, unit, pool, document, task, request, rebuilt>>
    BY <1>3 DEF vars
  <2>2. QED
    BY <2>1, SameBooks, PlannedStays, OrderlyStays
<1>4. QED
  BY <1>1, <1>2, <1>3 DEF Next

-----------------------------------------------------------------------------
(* The beginning, and the invariant. *)

LEMMA OpeningType ==
  /\ OpeningStock \in [Rows -> Nat] /\ OpeningStock \in [Rows -> Int]
  /\ \A r \in Rows : Holder(r) # Loose /\ OpeningStock[r] # 0 =>
                       Holder(r) \in DOMAIN InitialBin /\ BinOf(r) = InitialBin[Holder(r)]
<1>1. ASSUME NEW r \in Rows
      PROVE  /\ OpeningStock[r] \in Nat
             /\ Holder(r) # Loose /\ OpeningStock[r] # 0 =>
                  Holder(r) \in DOMAIN InitialBin /\ BinOf(r) = InitialBin[Holder(r)]
  BY StockAssumption DEF OpeningStock
<1>2. OpeningStock = [r \in Rows |-> OpeningStock[r]]
  BY DEF OpeningStock
<1>3. OpeningStock \in [Rows -> Nat] /\ OpeningStock \in [Rows -> Int]
  BY <1>1, <1>2
<1>4. QED
  BY <1>1, <1>3

LEMMA InitBalances ==
  ASSUME Init
  PROVE  /\ BalanceType(balance) /\ ledger = OpeningStock
         /\ Quantity(balance) = OpeningStock /\ \A r \in Rows : balance[r].allocated = 0
<1>1. balance = [r \in Rows |-> [quantity |-> ledger[r], allocated |-> 0]] /\ ledger = OpeningStock
  BY DEF Init
<1>2. \A r \in Rows : OpeningStock[r] \in Int
  BY OpeningType
<1>3. BalanceType(balance)
  BY <1>1, <1>2 DEF BalanceType
<1>4. Quantity(balance) = OpeningStock
  BY <1>1 DEF Quantity, OpeningStock
<1>5. QED
  BY <1>1, <1>3, <1>4

LEMMA InitPacked ==
  ASSUME Init
  PROVE  Packed
<1>1. Quantity(balance) = OpeningStock
  BY InitBalances
<1>2. unit = [u \in Units |->
       IF u \in DOMAIN InitialBin
       THEN [status |-> "Created", bin |-> InitialBin[u], parent |-> Nothing,
             content |-> SumOver(OpeningStock, RowsOf(u))]
       ELSE NoUnit]
  BY DEF Init
<1>3. ASSUME NEW u \in Units
      PROVE  /\ unit[u] \in UnitRecord
             /\ unit[u].status # "None" => unit[u].bin \in Bins
             /\ SumOver(OpeningStock, RowsOf(u)) = Carries(unit, u)
  <2> DEFINE sum == SumOver(OpeningStock, RowsOf(u))
  <2>1. sum \in Int
    BY OpeningType, BlocksFinite, SumInt DEF SumOver
  <2>2. CASE u \in DOMAIN InitialBin
    <3>1. InitialBin[u] \in Bins
      BY <2>2, StockAssumption
    <3>2. unit[u] = [status |-> "Created", bin |-> InitialBin[u], parent |-> Nothing, content |-> sum]
      BY <1>2, <2>2
    <3> HIDE DEF sum
    <3>3. QED
      BY <2>1, <3>1, <3>2 DEF UnitRecord, Statuses, Carries, sum
  <2>3. CASE u \notin DOMAIN InitialBin
    <3>1. unit[u] = NoUnit
      BY <1>2, <2>3
    <3>2. \A r \in RowsOf(u) : OpeningStock[r] = 0
      BY <2>3, OpeningType, BlocksFinite, StockAssumption
    <3>3. sum = 0
      BY <3>2, BlocksFinite, SumZero DEF SumOver
    <3>4. QED
      BY <3>1, <3>3 DEF UnitRecord, Statuses, Carries, NoUnit
  <2>4. QED
    BY <2>2, <2>3
<1>4. unit = [u \in Units |-> unit[u]]
  BY <1>2
<1>5. UnitsType(unit)
  BY <1>3, <1>4 DEF UnitsType
<1>6. QED
  BY <1>1, <1>3, <1>5 DEF Packed, Weighed

LEMMA InitHolds ==
  ASSUME Init
  PROVE  IInv
<1>1. Stocked
  <2>1. BalanceType(balance) /\ ledger = OpeningStock /\ Quantity(balance) = OpeningStock
    BY InitBalances
  <2>2. QED
    BY <2>1, OpeningType DEF Stocked, LedgerType, Agree
<1>2. Planned
  <2>1. /\ pool = <<>> /\ task = {}
        /\ document = [d \in Documents |-> NoDocument]
        /\ request = [c \in Clerks |-> Nothing]
    BY DEF Init
  <2>2. DocumentType(NoDocument)
    BY DEF DocumentType, NoDocument
  <2>3. QED
    BY <2>1, <2>2 DEF Planned
<1>3. \A r \in Rows : balance[r].quantity = OpeningStock[r]
  BY InitBalances, QuantityType
<1>4. Whole(balance)
  BY <1>3, OpeningType DEF Whole
<1>5. Together(balance)
  <2>1. \A r \in Rows : Holder(r) # Loose /\ balance[r].quantity > 0 => BinOf(r) = InitialBin[Holder(r)]
    BY <1>3, OpeningType
  <2>2. QED
    BY <2>1 DEF Together
<1>6. WholeSeen /\ TogetherSeen
  BY DEF Init, WholeSeen, TogetherSeen
<1>7. rebuilt \in BOOLEAN
  BY DEF Init
<1>8. QED
  BY <1>1, <1>2, <1>4, <1>5, <1>6, <1>7, InitPacked DEF IInv, TypeInv, Orderly

\* The inductive invariant: what the records of units, tasks, documents and
\* requests look like, that the ledger and the unit records agree with the
\* balances, and that what a request has read was as orderly as what is there.
THEOREM StockInvariant == Spec => []IInv
<1>1. Init => IInv
  BY InitHolds
<1>2. IInv /\ [Next]_vars => IInv'
  BY NextKeeps
<1>3. QED
  BY <1>1, <1>2, PTL DEF Spec

\* A unit carries what its record says it carries (also after a rebuild), so
\* that none is recycled or received into while it holds stock; and as long as
\* no balance is rebuilt, none is negative and the stock of a unit is in one bin.
THEOREM StockOfUnits == Spec => []UnitsHoldTheirStock
<1>1. ASSUME IInv
      PROVE  UnitsHoldTheirStock
  <2>1. MeasuredIsBooked
    BY <1>1 DEF IInv, TypeInv, Packed, Weighed, Carries, MeasuredIsBooked, Exists
  <2>2. ASSUME Orderly
        PROVE  TypeOK
    <3>1. \A r \in Rows : balance[r].quantity \in Nat /\ balance[r].allocated \in Nat
      BY <1>1, <2>2, QuantityType DEF IInv, TypeInv, Stocked, Orderly, Whole
    <3>2. \A u \in Units : Exists(u) => unit[u].bin \in Bins /\ unit[u].parent \in Units \cup {Nothing}
      BY <1>1 DEF IInv, TypeInv, Packed, UnitsType, UnitRecord, Exists
    <3>3. \A t \in task : t.from \in Rows /\ t.bin \in Bins /\ t.quantity > 0
      BY <1>1 DEF IInv, TypeInv, Planned, MoveType
    <3>4. \A i \in DOMAIN pool : pool[i] \in Units
      BY <1>1 DEF IInv, TypeInv, Planned
    <3>5. QED
      BY <3>1, <3>2, <3>3, <3>4 DEF TypeOK
  <2>3. Orderly => OneBinPerUnit
    BY DEF Orderly, ByHand, Together, OneBinPerUnit
  <2>4. QED
    BY <1>1, <2>1, <2>2, <2>3 DEF IInv, TypeInv, UnitsHoldTheirStock
<1>2. QED
  BY <1>1, StockInvariant, PTL

-----------------------------------------------------------------------------
(* StockLedger implements StockAccount. *)

AccountOf(r) == <<Holder(r), TypeOf(r)>>

LEMMA OfAccount ==
  /\ \A r \in Rows : AccountOf(r) \in Accounts
  /\ \A r \in Rows, a \in Accounts : r \in RowsOn(a) <=> AccountOf(r) = a
<1>1. ASSUME NEW r \in Rows
      PROVE  AccountOf(r) \in Accounts
  BY RowParts DEF AccountOf, Accounts, Holders
<1>2. ASSUME NEW r \in Rows, NEW a \in Accounts
      PROVE  r \in RowsOn(a) <=> AccountOf(r) = a
  <2>1. r \in RowsOn(a) <=> Holder(r) = a[1] /\ TypeOf(r) = a[2]
    BY BlocksFinite
  <2>2. a = <<a[1], a[2]>>
    BY DEF Accounts
  <2>3. QED
    BY <2>1, <2>2 DEF AccountOf
<1>3. QED
  BY <1>1, <1>2

\* Functions on the accounts are equal when they agree on each.
LEMMA SamePerAccount ==
  ASSUME NEW f, NEW g, \A a \in Accounts : SumOver(f, RowsOn(a)) = SumOver(g, RowsOn(a))
  PROVE  PerAccount(f) = PerAccount(g)
BY DEF PerAccount

LEMMA AgreeIs ==
  ASSUME NEW b, NEW l, Agree(b, l)
  PROVE  PerAccount(Quantity(b)) = PerAccount(l)
BY DEF Agree, PerAccount

\* What entries add to the accounts.
LEMMA BooksAccounts ==
  ASSUME Stocked, NEW e, NEW us, Books(e, us)
  PROVE  /\ \A a \in Accounts :
              PerAccount(Quantity(balance'))[a] = PerAccount(Quantity(balance))[a] + SumOver(Change(e), RowsOn(a))
         /\ \A a \in Accounts : PerAccount(Quantity(balance))[a] \in Int
         /\ PerAccount(Allocated(balance')) = PerAccount(Allocated(balance))
<1>1. /\ EntryType(e) /\ balance' = Booked(e) /\ BalanceType(balance) /\ LedgerType(ledger)
  BY EntriesType DEF Books, PostEntries, Stocked
<1>2. ASSUME NEW a \in Accounts
      PROVE  /\ SumOver(Quantity(balance'), RowsOn(a)) = SumOver(Quantity(balance), RowsOn(a)) + SumOver(Change(e), RowsOn(a))
             /\ SumOver(Allocated(balance'), RowsOn(a)) = SumOver(Allocated(balance), RowsOn(a))
             /\ SumOver(Quantity(balance), RowsOn(a)) \in Int
  <2>1. IsFiniteSet(RowsOn(a)) /\ RowsOn(a) \in SUBSET Rows
    BY BlocksFinite
  <2>2. SumOver(Quantity(balance), RowsOn(a)) \in Int
    BY <1>1, <2>1, QuantityType, SumInt DEF SumOver
  <2>3. QED
    BY <1>1, <2>1, <2>2, PostingSums
<1>3. PerAccount(Allocated(balance')) = PerAccount(Allocated(balance))
  BY <1>2, SamePerAccount
<1>4. QED
  BY <1>2, <1>3, PerAccountIs

\* A posting changes one account, or moves from one to another, or stays within
\* one; and the books say the same.
LEMMA BooksImplements ==
  ASSUME Stocked, NEW e, NEW us, Books(e, us)
  PROVE  Abstract!Post \/ UNCHANGED Abstract!vars
<1> DEFINE was == PerAccount(Quantity(balance))
           now == PerAccount(Quantity(balance'))
           changed == {a \in Accounts : now[a] # was[a]}
<1>1. /\ \A a \in Accounts : now[a] = was[a] + SumOver(Change(e), RowsOn(a)) /\ was[a] \in Int
      /\ PerAccount(Allocated(balance')) = PerAccount(Allocated(balance))
  BY BooksAccounts
<1>2. PerAccount(ledger) = was /\ PerAccount(ledger') = now
  BY BooksKeeps, AgreeIs DEF Stocked
<1>3. was = [a \in Accounts |-> was[a]] /\ now = [a \in Accounts |-> now[a]]
  BY DEF PerAccount
<1> HIDE DEF was, now
<1>4. \/ \E a \in changed : changed = {a}
      \/ \E a, b \in changed : changed = {a, b} /\ now[a] + now[b] = was[a] + was[b]
      \/ now = was
  <2>0. \A a \in Accounts : IsFiniteSet(RowsOn(a)) /\ RowsOn(a) \in SUBSET Rows
    BY BlocksFinite
  <2>1. ASSUME NEW r \in Rows, NEW q \in Int \ {0}, e = One(r, q)
        PROVE  \E a \in changed : changed = {a}
    <3>1. \A a \in Accounts : SumOver(Change(e), RowsOn(a)) = IF r \in RowsOn(a) THEN q ELSE 0
      BY <2>0, <2>1, SumOfOne
    <3>2. \A a \in Accounts : now[a] # was[a] <=> a = AccountOf(r)
      BY <1>1, <3>1, OfAccount
    <3>3. changed = {AccountOf(r)}
      BY <3>2, OfAccount
    <3>4. QED
      BY <3>3
  <2>2. ASSUME NEW x \in Rows, NEW y \in Rows, x # y, NEW q \in Int \ {0}, e = Transfer(x, y, q)
        PROVE  \/ \E a, b \in changed : changed = {a, b} /\ now[a] + now[b] = was[a] + was[b]
               \/ now = was
    <3>1. \A a \in Accounts : SumOver(Change(e), RowsOn(a)) =
            (IF x \in RowsOn(a) THEN -q ELSE 0) + (IF y \in RowsOn(a) THEN q ELSE 0)
      BY <2>0, <2>2, SumOfTransfer
    <3>2. \A a \in Accounts :
            now[a] = was[a] + ((IF AccountOf(x) = a THEN -q ELSE 0) + (IF AccountOf(y) = a THEN q ELSE 0))
      BY <1>1, <3>1, OfAccount
    <3>3. AccountOf(x) \in Accounts /\ AccountOf(y) \in Accounts
      BY OfAccount
    <3>4. CASE AccountOf(x) = AccountOf(y)
      <4>1. \A a \in Accounts : now[a] = was[a]
        BY <1>1, <3>2, <3>4
      <4>2. QED
        BY <1>3, <4>1
    <3>5. CASE AccountOf(x) # AccountOf(y)
      <4> DEFINE a == AccountOf(x)
                 b == AccountOf(y)
      <4>1. now[a] = was[a] - q /\ now[b] = was[b] + q /\ was[a] \in Int /\ was[b] \in Int
        BY <1>1, <3>2, <3>3, <3>5
      <4>2. \A c \in Accounts \ {a, b} : now[c] = was[c]
        BY <1>1, <3>2
      <4> HIDE DEF a, b
      <4>3. now[a] + now[b] = was[a] + was[b] /\ now[a] # was[a] /\ now[b] # was[b]
        BY <4>1
      <4>4. changed = {a, b} /\ a \in changed /\ b \in changed
        BY <3>3, <4>2, <4>3 DEF a, b
      <4>5. QED
        BY <4>3, <4>4
    <3>6. QED
      BY <3>4, <3>5
  <2>3. CASE \E x \in {x \in Rows \X Rows : x[1] # x[2]}, q \in Int \ {0} : e = Transfer(x[1], x[2], q)
    <3>1. PICK x \in Rows \X Rows, q \in Int \ {0} : x[1] # x[2] /\ e = Transfer(x[1], x[2], q)
      BY <2>3
    <3>2. x[1] \in Rows /\ x[2] \in Rows
      OBVIOUS
    <3>3. QED
      BY <2>2, <3>1, <3>2
  <2>4. CASE \E r \in Rows, q \in Int \ {0} : e = One(r, q)
    BY <2>1, <2>4
  <2>5. QED
    BY <2>3, <2>4 DEF Books, Entries
<1> HIDE DEF changed
<1>5. CASE now = was
  BY <1>1, <1>2, <1>5, Zenon DEF Abstract!vars, was, now
<1>6. CASE \/ \E a \in changed : changed = {a}
           \/ \E a, b \in changed : changed = {a, b} /\ now[a] + now[b] = was[a] + was[b]
  BY <1>1, <1>2, <1>6, Zenon DEF Abstract!Post, was, now, changed
<1>7. QED
  BY <1>4, <1>5, <1>6, Zenon

\* Carrying, planning, recycling, rebuilding: no account changes.
LEMMA QuietImplements ==
  ASSUME Stocked, Quiet, \A a \in Accounts : SumOver(Allocated(balance'), RowsOn(a)) = SumOver(Allocated(balance), RowsOn(a))
  PROVE  UNCHANGED Abstract!vars
<1>1. PerAccount(Quantity(balance')) = PerAccount(Quantity(balance))
  BY SamePerAccount DEF Quiet
<1>2. PerAccount(Allocated(balance')) = PerAccount(Allocated(balance))
  BY SamePerAccount
<1>3. PerAccount(ledger') = PerAccount(ledger)
  BY DEF Quiet
<1>4. QED
  BY <1>1, <1>2, <1>3, Zenon DEF Abstract!vars

LEMMA ReservationImplements ==
  ASSUME Stocked, NEW r \in Rows, Reserve(r) \/ ReleaseAllocation(r)
  PROVE  Abstract!Allocate
<1>1. PICK n \in {1, -1} : balance[r].allocated + n \in Nat /\ balance' = Reserved(r, n)
  BY ReservationIs
<1>2. ledger' = ledger
  BY ReservationIs
<1>3. Quiet /\ Quantity(balance') = Quantity(balance)
  BY <1>1, <1>2, n \in Int, ReservingIsQuiet
<1> DEFINE f == Allocated(balance)
           g == Allocated(balance')
           a == AccountOf(r)
<1>4. /\ f \in [Rows -> Int] /\ g \in [Rows -> Int]
      /\ \A x \in Rows : f[x] = balance[x].allocated /\ g[x] = balance'[x].allocated
  BY <1>3, QuantityType DEF Stocked, Quiet
<1>5. \A x \in Rows : balance'[x].allocated = IF x = r THEN balance[x].allocated + n ELSE balance[x].allocated
  BY <1>1 DEF Reserved, Stocked, BalanceType
<1>6. g[r] = f[r] + n /\ \A x \in Rows \ {r} : g[x] = f[x]
  BY <1>4, <1>5
<1> HIDE DEF f, g
<1>7. ASSUME NEW b \in Accounts
      PROVE  /\ SumOver(f, RowsOn(b)) \in Int
             /\ SumOver(g, RowsOn(b)) = IF b = a THEN SumOver(f, RowsOn(b)) + n ELSE SumOver(f, RowsOn(b))
  <2>1. IsFiniteSet(RowsOn(b)) /\ RowsOn(b) \subseteq Rows /\ (r \in RowsOn(b) <=> b = a)
    BY BlocksFinite, OfAccount
  <2>2. /\ \A x \in RowsOn(b) : f[x] \in Int /\ g[x] \in Int
        /\ \A x \in RowsOn(b) \ {r} : g[x] = f[x]
    BY <1>4, <1>6, <2>1
  <2>3. SumOver(f, RowsOn(b)) \in Int
    BY <2>1, <2>2, SumInt DEF SumOver
  <2>4. SumOver(g, RowsOn(b)) =
          IF r \in RowsOn(b) THEN SumOver(f, RowsOn(b)) + (g[r] - f[r]) ELSE SumOver(f, RowsOn(b))
    BY <2>1, <2>2, SumOneChange DEF SumOver
  <2>5. g[r] - f[r] = n
    BY <1>4, <1>6
  <2>6. QED
    BY <2>1, <2>3, <2>4, <2>5
<1> DEFINE was == PerAccount(f)
           now == PerAccount(g)
<1>8. \A b \in Accounts : /\ was[b] \in Int
                          /\ now[b] = IF b = a THEN was[b] + n ELSE was[b]
  BY <1>7, PerAccountIs
<1>9. a \in Accounts
  BY OfAccount
<1>10. PerAccount(Quantity(balance')) = PerAccount(Quantity(balance)) /\ PerAccount(ledger') = PerAccount(ledger)
  BY <1>2, <1>3
<1> HIDE DEF was, now, a
<1>11. Abstract!Amount(now[a] - was[a]) = 1
  <2>1. now[a] - was[a] = n
    BY <1>8, <1>9
  <2>2. QED
    BY <2>1 DEF Abstract!Amount
<1>12. \A b \in Accounts \ {a} : now[b] = was[b]
  BY <1>8
<1>13. QED
  BY <1>9, <1>10, <1>11, <1>12, Zenon DEF Abstract!Allocate, was, now, f, g

\* What each operation does to the accounts.
LEMMA CarryImplements ==
  ASSUME Stocked, NEW c, NEW u, NEW b \in Bins, NEW p, Carry(c, u, b, p), ledger' = ledger
  PROVE  UNCHANGED Abstract!vars
<1> DEFINE rows == CarriedRows(c, u, b)
<1>1. balance' = Relocated(rows, b) /\ rows \in SUBSET Rows /\ \A r \in rows : BinOf(r) # b
  BY CarryIs
<1> HIDE DEF rows
<1>2. Quiet
  BY <1>1, CarryingIsQuiet
<1>3. \A a \in Accounts : SumOver(Allocated(balance'), RowsOn(a)) = SumOver(Allocated(balance), RowsOn(a))
  BY <1>1, CarryingAccounts DEF Stocked
<1>4. QED
  BY <1>2, <1>3, QuietImplements

LEMMA StillImplements ==
  ASSUME Stocked, UNCHANGED <<balance, ledger>>
  PROVE  UNCHANGED Abstract!vars
BY StillIsQuiet, QuietImplements

LEMMA HandlingImplements ==
  ASSUME Stocked, Planned, HandlingUnits
  PROVE  UNCHANGED Abstract!vars
<1>1. ASSUME NEW c \in Clerks, HandleUnit(c)
      PROVE  UNCHANGED Abstract!vars
  <2>1. request[c] # Nothing /\ ledger' = ledger
    BY <1>1 DEF HandleUnit
  <2>2. ASSUME NEW p \in Units, Nest(c, p)
        PROVE  UNCHANGED Abstract!vars
    BY <2>1, <2>2, NestIs, CarryImplements
  <2>3. ASSUME NEW b \in Bins, RelocateUnit(c, b)
        PROVE  UNCHANGED Abstract!vars
    BY <2>1, <2>3, RelocateUnitIs, CarryImplements
  <2>4. CASE Unnest(c) \/ Recycle(c) \/ Refuse(c)
    BY <2>1, <2>4, StillImplements DEF Unnest, Recycle, Refuse
  <2>5. QED
    BY <1>1, <2>2, <2>3, <2>4 DEF HandleUnit
<1>2. ASSUME NEW u \in Units, NEW b \in Bins, NEW p \in Units \cup {Nothing}, NEW i \in BOOLEAN, CreateUnit(u, i, b, p)
      PROVE  UNCHANGED Abstract!vars
  BY <1>2, StillImplements DEF CreateUnit
<1>3. ASSUME NEW u \in Units, SetBlocked(u)
      PROVE  UNCHANGED Abstract!vars
  BY <1>3, StillImplements DEF SetBlocked
<1>4. ASSUME NEW c \in Clerks, NEW u \in Units, BeginRequest(c, u)
      PROVE  UNCHANGED Abstract!vars
  BY <1>4, StillImplements DEF BeginRequest
<1>5. QED
  BY <1>1, <1>2, <1>3, <1>4, Zenon DEF HandlingUnits

LEMMA MovesImplement ==
  ASSUME Stocked, Packed, Planned, Moves
  PROVE  Abstract!Post \/ UNCHANGED Abstract!vars
<1>1. CASE \/ \E r \in Rows, b \in Bins, q \in 1..MaxPayload, into \in Destinations :
                AdhocMove(r, b, into, q) \/ Deconsolidate(r, b, into, q)
           \/ \E u \in Units, b \in Bins : CloseMovement(u, b)
           \/ \E t \in task : CancelMove(t)
  <2>1. UNCHANGED <<balance, ledger>>
    BY <1>1, Zenon DEF AdhocMove, Deconsolidate, CloseMovement, CancelMove, Plans
  <2>2. QED
    BY <2>1, StillImplements
<1>2. CASE \/ \E r \in Rows, b \in Bins, q \in 1..MaxPayload, into \in Destinations, u \in Units \cup {Loose} :
                MoveAtOnce(r, b, into, q, u)
           \/ \E t \in task, u \in Units \cup {Loose} : ConfirmMove(t, u)
  <2>1. PICK t : \E u \in Units \cup {Loose} : MoveType(t) /\ Moved(t, u) /\ Planned'
    BY <1>2, MovingIs
  <2>2. PICK u \in Units \cup {Loose} : MoveType(t) /\ Moved(t, u) /\ Planned'
    BY <2>1
  <2>3. Books(Transfer(t.from, Goal(t, u), t.quantity), WithUnitAt(Made(t, u), u, t.bin))
    BY <2>2, MovedBooks
  <2>4. QED
    BY <2>3, BooksImplements
<1>3. QED
  BY <1>1, <1>2, Zenon DEF Moves

\* The warehouse keeps its accounts: every step of StockLedger is a step of
\* StockAccount or changes nothing there.
THEOREM StockKeepsAccounts == Spec => KeepsAccounts
<1>1. ASSUME Init
      PROVE  Abstract!Init
  <2>1. Quantity(balance) = OpeningStock /\ ledger = OpeningStock /\ \A r \in Rows : balance[r].allocated = 0
    BY <1>1, InitBalances
  <2>2. \A a \in Accounts : \A r \in RowsOn(a) : Allocated(balance)[r] = 0
    BY <2>1, BlocksFinite DEF Allocated
  <2>3. \A a \in Accounts : SumOver(Allocated(balance), RowsOn(a)) = 0
    BY <2>2, BlocksFinite, SumZero DEF SumOver
  <2>4. PerAccount(Allocated(balance)) = [a \in Accounts |-> 0]
    BY <2>3 DEF PerAccount
  <2>5. QED
    BY <2>1, <2>4 DEF Abstract!Init
<1>2. ASSUME IInv, [Next]_vars
      PROVE  [Abstract!Next]_(Abstract!vars)
  <2>0. Stocked /\ Packed /\ Planned
    BY <1>2 DEF IInv, TypeInv
  <2>1. CASE HandlingUnits
    BY <2>0, <2>1, HandlingImplements
  <2>2. CASE Postings
    BY <2>0, <2>2, PostingsKeep, BooksImplements DEF Abstract!Next
  <2>3. CASE Moves
    BY <2>0, <2>3, MovesImplement DEF Abstract!Next
  <2>4. CASE \E r \in Rows : Reserve(r) \/ ReleaseAllocation(r)
    BY <2>0, <2>4, ReservationImplements DEF Abstract!Next
  <2>5. CASE RebuildBalances
    BY <2>0, <2>5, RebuildingIsQuiet, QuietImplements
  <2>6. CASE UNCHANGED vars
    BY <2>0, <2>6, StillImplements DEF vars
  <2>7. QED
    BY <1>2, <2>1, <2>2, <2>3, <2>4, <2>5, <2>6 DEF Next, Operations
<1>3. QED
  BY <1>1, <1>2, StockInvariant, PTL DEF Spec, Abstract!Spec, KeepsAccounts
=============================================================================
