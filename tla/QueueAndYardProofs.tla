--------------------------- MODULE QueueAndYardProofs ---------------------------
(***************************************************************************)
(* Theorems about ErpSyncQueue, for any number of documents, workers,      *)
(* clerks, passes and refusals; and about Yard, for any trucks, units,     *)
(* doors, spots and settings.                                              *)
(***************************************************************************)
EXTENDS ErpSyncQueue, Yard, Sums, FiniteSetTheorems, SequenceTheorems, TLAPS

USE ConstantsAssumption

-----------------------------------------------------------------------------
\* Rows: what the operators on one document or one log row return.
LEMMA DocRowUpdates ==
  ASSUME NEW row \in DocRow
  PROVE  /\ row.state \in {"Draft", "Posted", "Cancelled"} /\ row.posted \in Nat /\ row.link \in Nat
         /\ \A st \in {"Draft", "Posted", "Cancelled"} : [row EXCEPT !.state = st] \in DocRow
         /\ \A n \in Nat : [row EXCEPT !.link = n] \in DocRow
         /\ [row EXCEPT !.state = "Posted", !.posted = @ + 1] \in DocRow
<1>1. row.state \in {"Draft", "Posted", "Cancelled"} /\ row.posted \in Nat /\ row.link \in Nat
  BY DEF DocRow
<1>2. \A st \in {"Draft", "Posted", "Cancelled"} : [row EXCEPT !.state = st] \in DocRow
  BY Zenon DEF DocRow
<1>3. \A n \in Nat : [row EXCEPT !.link = n] \in DocRow
  BY Zenon DEF DocRow
<1>4. row.posted + 1 \in Nat
  BY <1>1
<1>5. \A n \in Nat : [row EXCEPT !.state = "Posted", !.posted = n] \in DocRow
  BY Zenon DEF DocRow
<1>6. QED
  BY <1>1, <1>2, <1>3, <1>4, <1>5, Zenon

LEMMA LogRowUpdates ==
  ASSUME NEW row \in LogRow
  PROVE  /\ row.doc \in Docs /\ row.reversal \in BOOLEAN /\ row.attempts \in Nat
         /\ \A st \in PENDING \cup {"Done", "Cancelled"} :
              /\ [row EXCEPT !.status = st] \in LogRow
              /\ [row EXCEPT !.status = st, !.attempts = @ + 1] \in LogRow
<1>1. row.doc \in Docs /\ row.reversal \in BOOLEAN /\ row.attempts \in Nat
  BY Zenon DEF LogRow
<1>2. \A st \in PENDING \cup {"Done", "Cancelled"} : [row EXCEPT !.status = st] \in LogRow
  BY Zenon DEF LogRow
<1>3. row.attempts + 1 \in Nat
  BY <1>1
<1>4. \A st \in PENDING \cup {"Done", "Cancelled"}, n \in Nat :
        [row EXCEPT !.status = st, !.attempts = n] \in LogRow
  BY Zenon DEF LogRow
<1>5. QED
  BY <1>1, <1>2, <1>3, <1>4, Zenon

LEMMA NewLogType ==
  ASSUME NEW d \in Docs, NEW reversal \in BOOLEAN
  PROVE  NewLog(d, reversal) \in LogRow
BY DEF NewLog, LogRow, PENDING

\* The queue: a row is replaced by a row, and appending lengthens it by one.
LEMMA LogUpdates ==
  ASSUME NEW rows \in Seq(LogRow)
  PROVE  /\ \A row \in LogRow : /\ Append(rows, row) \in Seq(LogRow)
                                /\ Len(Append(rows, row)) = Len(rows) + 1
                                /\ \A i \in DOMAIN rows : Append(rows, row)[i] = rows[i]
         /\ \A i \in DOMAIN rows, row \in LogRow :
              /\ [rows EXCEPT ![i] = row] \in Seq(LogRow)
              /\ Len([rows EXCEPT ![i] = row]) = Len(rows)
         /\ \A i \in DOMAIN rows : rows[i] \in LogRow
         /\ DOMAIN rows = 1..Len(rows) /\ Len(rows) \in Nat
<1>1. DOMAIN rows = 1..Len(rows) /\ Len(rows) \in Nat
  BY LenProperties
<1>2. \A row \in LogRow : /\ Append(rows, row) \in Seq(LogRow)
                          /\ Len(Append(rows, row)) = Len(rows) + 1
                          /\ \A i \in DOMAIN rows : Append(rows, row)[i] = rows[i]
  BY <1>1, AppendProperties
<1>3. \A i \in DOMAIN rows, row \in LogRow :
        /\ [rows EXCEPT ![i] = row] \in Seq(LogRow)
        /\ Len([rows EXCEPT ![i] = row]) = Len(rows)
  BY <1>1, ExceptSeq
<1>4. \A i \in DOMAIN rows : rows[i] \in LogRow
  BY <1>1, ElementOfSeq
<1>5. QED
  BY <1>1, <1>2, <1>3, <1>4

LEMMA ErpUpdates ==
  ASSUME NEW rows \in Seq(ErpRow)
  PROVE  /\ \A row \in ErpRow : Append(rows, row) \in Seq(ErpRow)
         /\ \A n \in Nat : [rows EXCEPT ![n].live = FALSE] \in Seq(ErpRow)
         /\ Len(rows) \in Nat
<1>1. DOMAIN rows = 1..Len(rows) /\ Len(rows) \in Nat
  BY LenProperties
<1>2. \A row \in ErpRow : Append(rows, row) \in Seq(ErpRow)
  BY AppendProperties
<1>3. ASSUME NEW n \in Nat
      PROVE  [rows EXCEPT ![n].live = FALSE] \in Seq(ErpRow)
  <2>1. CASE n \in 1..Len(rows)
    <3>1. rows[n] \in ErpRow
      BY <2>1, ElementOfSeq
    <3>2. [rows[n] EXCEPT !.live = FALSE] \in ErpRow
      BY <3>1 DEF ErpRow
    <3>3. QED
      BY <1>1, <2>1, <3>2, ExceptSeq
  <2>2. CASE n \notin 1..Len(rows)
    <3>1. [rows EXCEPT ![n].live = FALSE] = rows
      BY <1>1, <2>2
    <3>2. QED
      BY <3>1
  <2>3. QED
    BY <2>1, <2>2
<1>4. QED
  BY <1>1, <1>2, <1>3

LEMMA CancelDocType ==
  ASSUME TypeOK, NEW link \in Nat
  PROVE  CancelDoc(link) \in Seq(ErpRow)
BY ErpUpdates DEF TypeOK, CancelDoc

LEMMA SubmittedType ==
  ASSUME TypeOK, NEW d \in Docs
  PROVE  Submitted(d) \in Seq(ErpRow) /\ Len(erp) + 1 \in Nat
BY ErpUpdates DEF TypeOK, Submitted, ErpRow

-----------------------------------------------------------------------------
\* What is known of a request that is in flight, when the queue has n rows.
RequestOK(r, n) ==
  /\ r.kind \in {"cancel", "run", "retry_now"}
  /\ r.seen.mode \in {Synchronous, QUEUED}
  /\ r.seen.doc \in [Docs -> DocRow]
  /\ r.seen.log \in Seq(LogRow)
  /\ Len(r.seen.log) <= n
  /\ IF r.kind = "cancel" THEN r.doc \in Receipts \cup Adjustments
                          ELSE r.log \in DOMAIN r.seen.log

RequestsOK(n) ==
  /\ DOMAIN request = Sessions
  /\ \A s \in Sessions : request[s] # Idle => RequestOK(request[s], n)

LEMMA TypeParts ==
  TypeOK <=> /\ mode \in {Synchronous, QUEUED}
             /\ doc \in [Docs -> DocRow] /\ log \in Seq(LogRow) /\ erp \in Seq(ErpRow)
             /\ RequestsOK(Len(log))
             /\ refusals \in 0..MaxRefusals
BY Zenon DEF TypeOK, RequestsOK, RequestOK

\* A step that ends a request or leaves the requests alone keeps what is known
\* of the others, as the queue never gets shorter.
LEMMA RequestsKept ==
  ASSUME TypeOK,
         (\E s \in Sessions : Ends(s)) \/ UNCHANGED request,
         log' \in Seq(LogRow), Len(log') >= Len(log)
  PROVE  RequestsOK(Len(log))'
<1>1. /\ DOMAIN request' = Sessions
      /\ \A r \in Sessions : request'[r] = request[r] \/ request'[r] = Idle
  BY DEF TypeOK, Ends
<1>2. Len(log) \in Nat /\ Len(log') \in Nat
  BY LenProperties DEF TypeOK
<1>3. ASSUME NEW r \in Sessions, request'[r] # Idle
      PROVE  RequestOK(request'[r], Len(log'))
  <2>1. request'[r] = request[r] /\ RequestOK(request[r], Len(log))
    BY <1>1, <1>3, TypeParts, Zenon DEF RequestsOK
  <2>2. Len(request[r].seen.log) \in Nat
    BY <2>1, LenProperties DEF RequestOK
  <2>3. Len(request[r].seen.log) <= Len(log')
    BY <1>2, <2>1, <2>2 DEF RequestOK
  <2>4. QED
    BY <2>1, <2>3, Zenon DEF RequestOK
<1>4. QED
  BY <1>1, <1>3, Zenon DEF RequestsOK

\* A request that begins has seen what is there.
LEMMA RequestBegins ==
  ASSUME TypeOK, NEW s \in Sessions, NEW call,
         BeginRequest(s, call), RequestOK(call, Len(log))
  PROVE  TypeOK'
<1>1. /\ DOMAIN request' = Sessions
      /\ \A r \in Sessions : request'[r] = IF r = s THEN call ELSE request[r]
  BY DEF TypeOK, BeginRequest
<1>2. log' = log /\ UNCHANGED <<mode, doc, erp, refusals>>
  BY DEF BeginRequest
<1>3. RequestsOK(Len(log))'
  BY <1>1, <1>2, TypeParts, Zenon DEF RequestsOK
<1>4. QED
  BY <1>2, <1>3, TypeParts, Zenon DEF TypeOK, RequestsOK, RequestOK

-----------------------------------------------------------------------------
LEMMA TypeInit == Init => TypeOK
<1> SUFFICES ASSUME Init PROVE TypeOK
  OBVIOUS
<1>1. \A s \in Sessions : request[s] = Idle
  BY DEF Init
<1>2. doc \in [Docs -> DocRow]
  BY DEF Init, DocRow
<1>3. log \in Seq(LogRow) /\ erp \in Seq(ErpRow)
  BY EmptySeq DEF Init
<1>4. mode \in {Synchronous, QUEUED} /\ DOMAIN request = Sessions /\ refusals \in 0..MaxRefusals
  BY DEF Init, ConstantsAssumption
<1>5. QED
  BY <1>1, <1>2, <1>3, <1>4, Zenon DEF TypeOK

LEMMA LinkedType ==
  ASSUME TypeOK, NEW d \in Docs, NEW rows \in [Docs -> DocRow]
  PROVE  Linked(d, rows) \in [Docs -> DocRow]
<1>1. [rows[d] EXCEPT !.link = Len(erp) + 1] \in DocRow
  BY DocRowUpdates, SubmittedType
<1>2. QED
  BY <1>1 DEF Linked

\* TypeOK and RequestsOK in the next state.
LEMMA TypeNext ==
  ASSUME TypeOK,
         (\E s \in Sessions : Ends(s)) \/ UNCHANGED request,
         mode' \in {Synchronous, QUEUED},
         doc' \in [Docs -> DocRow], log' \in Seq(LogRow), erp' \in Seq(ErpRow),
         Len(log') >= Len(log), refusals' \in 0..MaxRefusals
  PROVE  TypeOK'
<1>1. RequestsOK(Len(log))'
  BY RequestsKept
<1>2. QED
  BY <1>1, TypeParts, Zenon DEF TypeOK, RequestsOK, RequestOK

LEMMA TypePost ==
  ASSUME TypeOK, NEW d \in Docs, Post(d)
  PROVE  TypeOK'
<1>1. /\ mode' \in {Synchronous, QUEUED} /\ refusals' \in 0..MaxRefusals
      /\ UNCHANGED request
  BY DEF Post, TypeOK
<1> DEFINE posted == [doc EXCEPT ![d].state = "Posted", ![d].posted = @ + 1]
<1>2. posted \in [Docs -> DocRow]
  <2>1. [doc[d] EXCEPT !.state = "Posted", !.posted = @ + 1] \in DocRow
    BY DocRowUpdates DEF TypeOK
  <2>2. posted = [doc EXCEPT ![d] = [doc[d] EXCEPT !.state = "Posted", !.posted = @ + 1]]
    BY DEF TypeOK
  <2>3. QED
    BY <2>1, <2>2 DEF TypeOK
<1>3. log \in Seq(LogRow) /\ Len(log) \in Nat /\ erp \in Seq(ErpRow)
  BY LogUpdates DEF TypeOK
<1>4. CASE doc' = posted /\ log' = Append(log, NewLog(d, FALSE)) /\ UNCHANGED erp
  <2>1. NewLog(d, FALSE) \in LogRow
    BY NewLogType
  <2>2. log' \in Seq(LogRow) /\ Len(log') = Len(log) + 1
    BY <1>3, <1>4, <2>1, LogUpdates, Zenon
  <2>3. Len(log') >= Len(log)
    BY <1>3, <2>2
  <2>4. erp' \in Seq(ErpRow) /\ doc' \in [Docs -> DocRow]
    BY <1>2, <1>3, <1>4, Zenon
  <2>5. QED
    BY <1>1, <2>2, <2>3, <2>4, TypeNext, Zenon
<1>5. CASE doc' = Linked(d, posted) /\ erp' = Submitted(d) /\ UNCHANGED log
  <2>1. doc' \in [Docs -> DocRow] /\ erp' \in Seq(ErpRow)
    BY <1>2, <1>5, LinkedType, SubmittedType, Zenon
  <2>2. log' \in Seq(LogRow) /\ Len(log') >= Len(log)
    BY <1>3, <1>5
  <2>3. QED
    BY <1>1, <2>1, <2>2, TypeNext, Zenon
<1>6. QED
  BY <1>4, <1>5, Zenon DEF Post

\* The row a cancellation writes, and the queue it leaves.
LEMMA CancelledRowType ==
  ASSUME TypeOK, NEW s \in Sessions, NEW d \in Docs, RequestOK(request[s], Len(log))
  PROVE  CancelledRow(s, d) \in DocRow
<1>1. request[s].seen.doc[d] \in DocRow /\ doc[d] \in DocRow
  BY DEF TypeOK, RequestOK
<1>2. QED
  BY <1>1, DocRowUpdates DEF CancelledRow

LEMMA WithdrawalType ==
  ASSUME TypeOK, NEW w, NEW rows,
         rows = [i \in DOMAIN log |-> IF i \in w THEN [log[i] EXCEPT !.status = "Cancelled"]
                                                 ELSE log[i]]
  PROVE  rows \in Seq(LogRow) /\ Len(rows) = Len(log)
<1>1. DOMAIN log = 1..Len(log) /\ Len(log) \in Nat /\ \A i \in DOMAIN log : log[i] \in LogRow
  BY LogUpdates DEF TypeOK
<1>2. \A i \in DOMAIN log : [log[i] EXCEPT !.status = "Cancelled"] \in LogRow
  BY <1>1, LogRowUpdates
<1>3. rows \in [1..Len(log) -> LogRow]
  BY <1>1, <1>2
<1>4. rows \in Seq(LogRow)
  BY <1>1, <1>3, IsASeq
<1>5. Len(rows) = Len(log)
  BY <1>1, <1>3, <1>4, LenProperties
<1>6. QED
  BY <1>4, <1>5

LEMMA TypeCancel ==
  ASSUME TypeOK, NEW s \in Sessions, Cancel(s)
  PROVE  TypeOK'
<1> DEFINE d == request[s].doc
           w == Withdrawn(d, request[s].seen.log)
<1>1. request[s].kind = "cancel" /\ request[s] # Idle
  BY DEF Cancel, Idle
<1>2. RequestOK(request[s], Len(log)) /\ d \in Docs
  BY <1>1, TypeParts DEF RequestsOK, RequestOK, Docs
<1>3. doc' \in [Docs -> DocRow]
  <2>1. doc' = [doc EXCEPT ![d] = CancelledRow(s, d)]
    BY Zenon DEF Cancel
  <2>2. QED
    BY <1>2, <2>1, CancelledRowType DEF TypeOK
<1>4. CancelledRow(s, d).link \in Nat
  BY <1>2, CancelledRowType, DocRowUpdates
<1>5. log \in Seq(LogRow) /\ Len(log) \in Nat /\ erp \in Seq(ErpRow)
  BY LogUpdates DEF TypeOK
<1>6. log' \in Seq(LogRow) /\ Len(log') >= Len(log) /\ erp' \in Seq(ErpRow)
  <2>1. CASE erp' = CancelDoc(CancelledRow(s, d).link) /\ UNCHANGED log
    <3>1. CancelDoc(CancelledRow(s, d).link) \in Seq(ErpRow)
      BY <1>4, CancelDocType, Zenon
    <3>2. QED
      BY <1>5, <2>1, <3>1
  <2>2. CASE /\ log' = [i \in DOMAIN log |-> IF i \in w THEN [log[i] EXCEPT !.status = "Cancelled"]
                                                        ELSE log[i]]
             /\ UNCHANGED erp
    <3>1. log' \in Seq(LogRow) /\ Len(log') = Len(log)
      BY <2>2, WithdrawalType, Zenon
    <3>2. QED
      BY <1>5, <2>2, <3>1
  <2>3. CASE log' = Append(log, NewLog(d, TRUE)) /\ UNCHANGED erp
    <3>1. NewLog(d, TRUE) \in LogRow
      BY <1>2, NewLogType
    <3>2. log' \in Seq(LogRow) /\ Len(log') = Len(log) + 1
      BY <1>5, <2>3, <3>1, LogUpdates, Zenon
    <3>3. Len(log') >= Len(log)
      BY <1>5, <3>2
    <3>4. QED
      BY <1>5, <2>3, <3>2, <3>3, Zenon
  <2>4. QED
    BY <2>1, <2>2, <2>3, Zenon DEF Cancel
<1>7. mode' \in {Synchronous, QUEUED} /\ refusals' \in 0..MaxRefusals /\ Ends(s)
  BY DEF Cancel, TypeOK
<1>8. QED
  BY <1>3, <1>6, <1>7, TypeNext, Zenon

LEMMA TypeRun ==
  ASSUME TypeOK, NEW s \in Sessions, NEW i \in DOMAIN log, Run(s, i)
  PROVE  TypeOK'
<1>1. request[s].kind \in {"run", "retry_now"} /\ request[s] # Idle /\ request[s].log = i
  BY DEF Run, Idle
<1>2. RequestOK(request[s], Len(log))
  BY <1>1, TypeParts DEF RequestsOK
<1>3. log \in Seq(LogRow) /\ Len(log) \in Nat /\ erp \in Seq(ErpRow) /\ log[i] \in LogRow
  BY LogUpdates DEF TypeOK
<1>4. log[i].doc \in Docs /\ LockedRow(s, i) \in LogRow
  BY <1>3, LogRowUpdates DEF LockedRow, PENDING
<1>5. \A st \in {"Done", "Failed"} : Outcome(s, i, st) => log' \in Seq(LogRow) /\ Len(log') = Len(log)
  <2>1. SUFFICES ASSUME NEW st \in {"Done", "Failed"}, Outcome(s, i, st)
                 PROVE  log' \in Seq(LogRow) /\ Len(log') = Len(log)
    OBVIOUS
  <2>2. st \in PENDING \cup {"Done", "Cancelled"}
    BY DEF PENDING
  <2>3. [LockedRow(s, i) EXCEPT !.status = st, !.attempts = @ + 1] \in LogRow
    BY <1>4, <2>2, LogRowUpdates, Zenon
  <2>4. QED
    BY <1>3, <2>1, <2>3, LogUpdates, Zenon DEF Outcome
<1>6. doc' \in [Docs -> DocRow] /\ log' \in Seq(LogRow) /\ Len(log') = Len(log)
      /\ erp' \in Seq(ErpRow) /\ refusals' \in 0..MaxRefusals
  <2>1. CASE UNCHANGED <<doc, log, erp, refusals>>
    BY <1>3, <2>1 DEF TypeOK
  <2>2. CASE log' = [log EXCEPT ![i] = LockedRow(s, i)] /\ UNCHANGED <<doc, erp, refusals>>
    <3>1. log' \in Seq(LogRow) /\ Len(log') = Len(log)
      BY <1>3, <1>4, <2>2, LogUpdates, Zenon
    <3>2. QED
      BY <2>2, <3>1, Zenon DEF TypeOK
  <2>3. CASE Outcome(s, i, "Done") /\ UNCHANGED <<doc, erp, refusals>>
    BY <1>5, <2>3, Zenon DEF TypeOK
  <2>4. CASE Performed(s, i)
    <3>1. log' \in Seq(LogRow) /\ Len(log') = Len(log) /\ UNCHANGED refusals
      BY <1>5, <2>4, Zenon DEF Performed
    <3>2. CASE erp' = Submitted(log[i].doc) /\ doc' = Linked(log[i].doc, doc)
      <4>1. doc' \in [Docs -> DocRow] /\ erp' \in Seq(ErpRow)
        BY <1>4, <3>2, LinkedType, SubmittedType, Zenon DEF TypeOK
      <4>2. QED
        BY <3>1, <4>1, Zenon DEF TypeOK
    <3>3. CASE erp' = CancelDoc(request[s].seen.doc[log[i].doc].link) /\ UNCHANGED doc
      <4>1. request[s].seen.doc[log[i].doc].link \in Nat
        BY <1>2, <1>4, DocRowUpdates DEF RequestOK
      <4>2. erp' \in Seq(ErpRow)
        BY <3>3, <4>1, CancelDocType, Zenon
      <4>3. QED
        BY <3>1, <3>3, <4>2, Zenon DEF TypeOK
    <3>4. QED
      BY <2>4, <3>2, <3>3, Zenon DEF Performed
  <2>5. CASE Refused(s, i)
    <3>1. refusals' \in 0..MaxRefusals
      BY <2>5, ConstantsAssumption DEF Refused, TypeOK
    <3>2. QED
      BY <1>5, <2>5, <3>1, Zenon DEF Refused, TypeOK
  <2>6. QED
    BY <2>1, <2>2, <2>3, <2>4, <2>5, Zenon DEF Run
<1>7. mode' \in {Synchronous, QUEUED} /\ Ends(s) /\ Len(log') >= Len(log)
  BY <1>3, <1>6 DEF Run, TypeOK
<1>8. QED
  BY <1>6, <1>7, TypeNext, Zenon

LEMMA TypeUnchanged ==
  ASSUME TypeOK, UNCHANGED <<doc, log, erp, refusals>>,
         mode' \in {Synchronous, QUEUED},
         (\E s \in Sessions : Ends(s)) \/ UNCHANGED request
  PROVE  TypeOK'
<1>1. Len(log') >= Len(log)
  BY LogUpdates DEF TypeOK
<1>2. QED
  BY <1>1, TypeNext, Zenon DEF TypeOK

\* What a request that begins has seen.
LEMMA SeenOK ==
  ASSUME TypeOK
  PROVE  /\ Seen.mode \in {Synchronous, QUEUED} /\ Seen.doc \in [Docs -> DocRow]
         /\ Seen.log \in Seq(LogRow) /\ Len(Seen.log) <= Len(log) /\ Seen.log = log
BY LogUpdates DEF TypeOK, Seen

LEMMA TypeStep == TypeOK /\ [Next]_vars => TypeOK'
<1> SUFFICES ASSUME TypeOK, [Next]_vars
             PROVE  TypeOK'
  OBVIOUS
<1>1. ASSUME NEW d \in Docs, Post(d)
      PROVE  TypeOK'
  BY <1>1, TypePost
<1>2. ASSUME NEW s \in Sessions, Lost(s)
      PROVE  TypeOK'
  BY <1>2, TypeUnchanged, Zenon DEF Lost, TypeOK
<1>3. ASSUME NEW s \in Workers, NEW i \in DOMAIN log, BeginRun(s, i)
      PROVE  TypeOK'
  <2>1. RequestOK([kind |-> "run", log |-> i, seen |-> Seen], Len(log))
    BY SeenOK DEF RequestOK
  <2>2. QED
    BY <1>3, <2>1, RequestBegins DEF BeginRun, Sessions
<1>4. ASSUME NEW s \in Sessions, NEW i \in DOMAIN log, Run(s, i)
      PROVE  TypeOK'
  BY <1>4, TypeRun
<1>5. ASSUME NEW s \in Clerks, NEW d \in Docs, BeginCancel(s, d)
      PROVE  TypeOK'
  <2>1. RequestOK([kind |-> "cancel", doc |-> d, seen |-> Seen], Len(log))
    BY <1>5, SeenOK DEF RequestOK, BeginCancel
  <2>2. QED
    BY <1>5, <2>1, RequestBegins DEF BeginCancel, Sessions
<1>6. ASSUME NEW s \in Clerks, Cancel(s)
      PROVE  TypeOK'
  BY <1>6, TypeCancel DEF Sessions
<1>7. ASSUME NEW s \in Clerks, NEW i \in DOMAIN log, BeginRetryNow(s, i)
      PROVE  TypeOK'
  <2>1. RequestOK([kind |-> "retry_now", log |-> i, seen |-> Seen], Len(log))
    BY SeenOK DEF RequestOK
  <2>2. QED
    BY <1>7, <2>1, RequestBegins DEF BeginRetryNow, Sessions
<1>8. CASE SwitchMode
  BY <1>8, TypeUnchanged DEF SwitchMode, TypeOK
<1>9. CASE UNCHANGED vars
  BY <1>9, TypeUnchanged DEF vars, TypeOK
<1>10. QED
  BY <1>1, <1>2, <1>3, <1>4, <1>5, <1>6, <1>7, <1>8, <1>9, Zenon DEF Next, RunQueue, Attend

\* The queue, the documents and the requests in flight keep their types.
THEOREM TypeCorrect == Spec => []TypeOK
BY TypeInit, TypeStep, PTL DEF Spec

-----------------------------------------------------------------------------
\* retry_now was pressed on a posting that was pending.
RetryInv ==
  \A s \in Sessions : request[s].kind = "retry_now" =>
    IsPending(request[s].seen.log[request[s].log])

SettledInv == TypeOK /\ RetryInv

LEMMA SettledInit == Init => SettledInv
<1>1. ASSUME Init PROVE RetryInv
  BY <1>1 DEF Init, RetryInv, Idle
<1>2. QED
  BY <1>1, TypeInit DEF SettledInv

\* A step that ends a request, or begins one that is not retry_now.
LEMMA RetryKept ==
  ASSUME SettledInv, NEW s \in Sessions, NEW call,
         request' = [request EXCEPT ![s] = call],
         call.kind = "retry_now" => IsPending(call.seen.log[call.log])
  PROVE  RetryInv'
<1>1. \A r \in Sessions : request'[r] = IF r = s THEN call ELSE request[r]
  BY DEF SettledInv, TypeOK
<1>2. QED
  BY <1>1, Zenon DEF SettledInv, RetryInv, IsPending

LEMMA SettledStep == SettledInv /\ [Next]_vars => SettledInv'
<1> SUFFICES ASSUME SettledInv, [Next]_vars
             PROVE  RetryInv'
  BY TypeStep DEF SettledInv
<1>1. ASSUME NEW s \in Sessions, Ends(s)
      PROVE  RetryInv'
  BY <1>1, RetryKept, Zenon DEF Ends, Idle
<1>2. ASSUME UNCHANGED request
      PROVE  RetryInv'
  BY <1>2 DEF SettledInv, RetryInv
<1>3. ASSUME NEW s \in Workers, NEW i \in DOMAIN log, BeginRun(s, i)
      PROVE  RetryInv'
  <2>1. [kind |-> "run", log |-> i, seen |-> Seen].kind # "retry_now"
    OBVIOUS
  <2>2. QED
    BY <1>3, <2>1, RetryKept, Zenon DEF BeginRun, BeginRequest, Sessions
<1>4. ASSUME NEW s \in Clerks, NEW d \in Docs, BeginCancel(s, d)
      PROVE  RetryInv'
  <2>1. [kind |-> "cancel", doc |-> d, seen |-> Seen].kind # "retry_now"
    OBVIOUS
  <2>2. QED
    BY <1>4, <2>1, RetryKept, Zenon DEF BeginCancel, BeginRequest, Sessions
<1>5. ASSUME NEW s \in Clerks, NEW i \in DOMAIN log, BeginRetryNow(s, i)
      PROVE  RetryInv'
  <2> DEFINE call == [kind |-> "retry_now", log |-> i, seen |-> Seen]
  <2>1. call.seen.log[call.log] = log[i] /\ IsPending(log[i])
    BY <1>5 DEF Seen, BeginRetryNow, Retries
  <2>2. s \in Sessions /\ request' = [request EXCEPT ![s] = call]
    BY <1>5 DEF BeginRetryNow, BeginRequest, Sessions
  <2>3. QED
    BY <2>1, <2>2, RetryKept, Zenon
<1>6. QED
  BY <1>1, <1>2, <1>3, <1>4, <1>5, Zenon
     DEF Next, RunQueue, Attend, Post, Lost, Run, Cancel, SwitchMode, vars, Sessions

SettledStaysStep == \A i \in DOMAIN log : ~IsPending(log[i]) => log'[i].status = log[i].status

\* Cancelling withdraws what it has seen pending, and what it has seen is still so.
LEMMA SettledCancel ==
  ASSUME SnapshotIsolation, SettledInv, NEW s \in Sessions, Cancel(s)
  PROVE  SettledStaysStep
<1> DEFINE w == Withdrawn(request[s].doc, request[s].seen.log)
<1>1. CASE UNCHANGED log
  BY <1>1 DEF SettledStaysStep
<1>2. CASE /\ \A i \in w : FreshLog(s, i)
           /\ log' = [i \in DOMAIN log |-> IF i \in w THEN [log[i] EXCEPT !.status = "Cancelled"]
                                                      ELSE log[i]]
  <2>1. \A i \in w : IsPending(log[i])
    BY <1>2 DEF FreshLog, Withdrawn
  <2>2. \A i \in DOMAIN log : i \notin w => log'[i] = log[i]
    BY <1>2, Zenon
  <2>3. QED
    BY <2>1, <2>2, Zenon DEF SettledStaysStep
<1>3. CASE log' = Append(log, NewLog(request[s].doc, TRUE))
  <2>1. \A i \in DOMAIN log : log'[i] = log[i]
    <3>1. request[s].doc \in Docs
      BY TypeParts DEF SettledInv, RequestsOK, RequestOK, Cancel, Idle, Docs
    <3>2. NewLog(request[s].doc, TRUE) \in LogRow
      BY <3>1, NewLogType
    <3>3. log \in Seq(LogRow)
      BY DEF SettledInv, TypeOK
    <3>4. QED
      BY <1>3, <3>2, <3>3, LogUpdates, Zenon
  <2>2. QED
    BY <2>1, Zenon DEF SettledStaysStep
<1>4. QED
  BY <1>1, <1>2, <1>3, Zenon DEF Cancel

\* run leaves a settled row alone, and retry_now is not pressed on one.
LEMMA SettledRun ==
  ASSUME SnapshotIsolation, SettledInv, NEW s \in Sessions, NEW i \in DOMAIN log, Run(s, i)
  PROVE  SettledStaysStep
<1>1. CASE UNCHANGED log
  BY <1>1 DEF SettledStaysStep
<1>2. CASE Runs(LockedRow(s, i))
  <2>1. IsPending(log[i])
    <3>1. CASE request[s].kind = "retry_now"
      BY <3>1, Zenon DEF SettledInv, RetryInv, Run, FreshLog
    <3>2. CASE request[s].kind # "retry_now"
      BY <1>2, <3>2, Zenon DEF LockedRow, Runs
    <3>3. QED
      BY <3>1, <3>2
  <2>2. \E row : log' = [log EXCEPT ![i] = row]
    BY <1>2, Zenon DEF Run, Outcome, Performed, Refused
  <2>3. \A j \in DOMAIN log : j # i => log'[j] = log[j]
    BY <2>2
  <2>4. QED
    BY <2>1, <2>3, Zenon DEF SettledStaysStep
<1>3. QED
  BY <1>1, <1>2, Zenon DEF Run

LEMMA SettledNext ==
  ASSUME SnapshotIsolation, SettledInv, [Next]_vars
  PROVE  SettledStaysStep
<1>1. ASSUME UNCHANGED log
      PROVE  SettledStaysStep
  BY <1>1 DEF SettledStaysStep
<1>2. ASSUME NEW d \in Docs, Post(d)
      PROVE  SettledStaysStep
  <2>1. CASE log' = Append(log, NewLog(d, FALSE))
    <3>1. NewLog(d, FALSE) \in LogRow
      BY NewLogType
    <3>2. log \in Seq(LogRow)
      BY Zenon DEF SettledInv, TypeOK
    <3>3. \A i \in DOMAIN log : Append(log, NewLog(d, FALSE))[i] = log[i]
      BY <3>1, <3>2, LogUpdates, Zenon
    <3>4. QED
      BY <2>1, <3>3, Zenon DEF SettledStaysStep
  <2>2. QED
    BY <1>1, <1>2, <2>1, Zenon DEF Post
<1>3. QED
  BY <1>1, <1>2, SettledCancel, SettledRun, Zenon
     DEF Next, RunQueue, Attend, Lost, SwitchMode, vars, Sessions,
         BeginRun, BeginCancel, BeginRetryNow, BeginRequest

\* Where the database refuses updates of rows changed since the snapshot, a
\* posting that is done or withdrawn is never taken up again.
THEOREM SettledStaysSettled ==
  ASSUME SnapshotIsolation
  PROVE  Spec => SettledStays
<1>1. SettledInv /\ [Next]_vars => [SettledStaysStep]_vars
  BY SettledNext
<1>2. Spec => []SettledInv
  BY SettledInit, SettledStep, PTL DEF Spec
<1>3. Spec => [][SettledStaysStep]_vars
  BY <1>1, <1>2, PTL DEF Spec
<1>4. QED
  BY <1>3 DEF SettledStays, SettledStaysStep

-----------------------------------------------------------------------------
(* What the properties count of a document: its live ERPNext documents and *)
(* its pending rows, and what the steps do to them.                        *)

Cancellable == Receipts \cup Adjustments

\* ERPNext documents stay what they are; only live may be taken from them.
ErpGrows == \A n \in DOMAIN erp : n \in DOMAIN erp' /\ erp'[n].doc = erp[n].doc

\* The rows stay where they are, and those of w are no longer pending.
RowsKept(w) ==
  /\ DOMAIN log' = DOMAIN log
  /\ \A j \in DOMAIN log : /\ log'[j].doc = log[j].doc /\ log'[j].reversal = log[j].reversal
                           /\ IsPending(log'[j]) <=> IsPending(log[j]) /\ j \notin w

LEMMA FiniteViews ==
  ASSUME TypeOK, NEW d \in Docs, NEW r \in BOOLEAN
  PROVE  /\ IsFiniteSet(Live(d)) /\ Live(d) \subseteq DOMAIN erp /\ 0 \notin Live(d)
         /\ IsFiniteSet(PendingOf(d, r)) /\ PendingOf(d, r) \subseteq LogsOf(d, log, r)
         /\ LogsOf(d, log, r) \subseteq DOMAIN log
         /\ DOMAIN erp = 1..Len(erp) /\ Len(erp) \in Nat
         /\ DOMAIN log = 1..Len(log) /\ Len(log) \in Nat
<1>1. log \in Seq(LogRow) /\ erp \in Seq(ErpRow)
  BY DEF TypeOK
<1>2. DOMAIN erp = 1..Len(erp) /\ Len(erp) \in Nat /\ DOMAIN log = 1..Len(log) /\ Len(log) \in Nat
  BY <1>1, LenProperties
<1>3. IsFiniteSet(1..Len(erp)) /\ IsFiniteSet(1..Len(log))
  BY <1>2, FS_Interval
<1>4. Live(d) \subseteq DOMAIN erp /\ PendingOf(d, r) \subseteq LogsOf(d, log, r) /\ LogsOf(d, log, r) \subseteq DOMAIN log
  BY DEF Live, PendingOf, LogsOf
<1>5. PendingOf(d, r) \subseteq DOMAIN log
  BY <1>4
<1>6. IsFiniteSet(Live(d)) /\ IsFiniteSet(PendingOf(d, r))
  BY <1>2, <1>3, <1>4, <1>5, FS_Subset
<1>7. 0 \notin Live(d)
  BY <1>2, <1>4
<1>8. QED
  BY <1>2, <1>4, <1>6, <1>7

\* Submitting a document for d.
LEMMA LiveSubmitted ==
  ASSUME TypeOK, NEW d \in Docs, erp' = Submitted(d)
  PROVE  /\ Live(d)' = Live(d) \cup {Len(erp) + 1} /\ Len(erp) + 1 \notin Live(d)
         /\ Len(erp) + 1 \in DOMAIN erp' /\ erp'[Len(erp) + 1].doc = d
         /\ \A e \in Docs : e # d => Live(e)' = Live(e)
         /\ ErpGrows
<1> DEFINE n == Len(erp) + 1
<1>1. erp \in Seq(ErpRow) /\ [doc |-> d, live |-> TRUE] \in ErpRow
  BY DEF TypeOK, ErpRow
<1>2. DOMAIN erp = 1..Len(erp) /\ Len(erp) \in Nat
  BY <1>1, LenProperties
<1>3. /\ DOMAIN erp' = 1..n
      /\ \A m \in 1..Len(erp) : erp'[m] = erp[m]
      /\ erp'[n] = [doc |-> d, live |-> TRUE]
  BY <1>1, <1>2, AppendProperties DEF Submitted
<1>4. DOMAIN erp' = DOMAIN erp \cup {n} /\ n \notin DOMAIN erp
  BY <1>2, <1>3
<1>5. erp'[n].doc = d /\ erp'[n].live
  BY <1>3
<1>6. \A m \in DOMAIN erp : erp'[m] = erp[m]
  BY <1>2, <1>3
<1> HIDE DEF n
<1>7. \A e \in Docs : Live(e)' = {m \in DOMAIN erp : erp[m].doc = e /\ erp[m].live}
                                  \cup (IF e = d THEN {n} ELSE {})
  BY <1>4, <1>5, <1>6, Zenon DEF Live
<1>8. Live(d)' = Live(d) \cup {n}
  BY <1>7 DEF Live
<1>9. \A e \in Docs : e # d => Live(e)' = Live(e)
  BY <1>7 DEF Live
<1>10. n \notin Live(d)
  BY <1>4 DEF Live
<1>11. ErpGrows
  BY <1>4, <1>6 DEF ErpGrows
<1>12. QED
  BY <1>4, <1>5, <1>8, <1>9, <1>10, <1>11 DEF n

\* Cancelling the document d links to.
LEMMA LiveCancelled ==
  ASSUME TypeOK, NEW d \in Docs, NEW link \in Nat,
         link # 0 => link \in DOMAIN erp /\ erp[link].doc = d,
         erp' = CancelDoc(link)
  PROVE  /\ Live(d)' = Live(d) \ {link}
         /\ \A e \in Docs : e # d => Live(e)' = Live(e)
         /\ ErpGrows
<1>1. DOMAIN erp = 1..Len(erp) /\ Len(erp) \in Nat
  BY FiniteViews
<1>2. CASE link = 0
  <2>1. erp' = erp
    BY <1>2 DEF CancelDoc
  <2>2. 0 \notin Live(d)
    BY <1>1 DEF Live
  <2>3. QED
    BY <1>2, <2>1, <2>2 DEF Live, ErpGrows
<1>3. CASE link # 0
  <2>1. link \in DOMAIN erp /\ erp[link].doc = d /\ erp[link] \in ErpRow
    BY <1>1, <1>3, ElementOfSeq DEF TypeOK
  <2>2. erp' = [erp EXCEPT ![link].live = FALSE]
    BY <1>3 DEF CancelDoc
  <2>3. DOMAIN erp' = DOMAIN erp /\ \A m \in DOMAIN erp : m # link => erp'[m] = erp[m]
    BY <2>2
  <2>4. erp'[link].doc = d /\ erp'[link].live = FALSE
    BY <2>1, <2>2 DEF ErpRow
  <2>5. Live(d)' = Live(d) \ {link}
    BY <2>1, <2>3, <2>4 DEF Live
  <2>6. \A e \in Docs : e # d => Live(e)' = Live(e)
    BY <2>1, <2>3, <2>4 DEF Live
  <2>7. ErpGrows
    BY <2>1, <2>3, <2>4 DEF ErpGrows
  <2>8. QED
    BY <2>5, <2>6, <2>7
<1>4. QED
  BY <1>2, <1>3

LEMMA RowsKeptViews ==
  ASSUME NEW w, RowsKept(w)
  PROVE  \A e \in Docs, r \in BOOLEAN : /\ LogsOf(e, log, r)' = LogsOf(e, log, r)
                                        /\ PendingOf(e, r)' = PendingOf(e, r) \ w
<1>1. \A e \in Docs, r \in BOOLEAN : LogsOf(e, log, r)' = LogsOf(e, log, r)
  BY DEF RowsKept, LogsOf
<1>2. \A e \in Docs, r \in BOOLEAN : \A j \in LogsOf(e, log, r) : IsPending(log'[j]) <=> IsPending(log[j]) /\ j \notin w
  BY DEF RowsKept, LogsOf
<1>3. \A e \in Docs, r \in BOOLEAN : PendingOf(e, r)' = {j \in LogsOf(e, log, r) : IsPending(log'[j])}
  BY <1>1 DEF PendingOf, IsPending
<1>4. \A e \in Docs, r \in BOOLEAN : PendingOf(e, r)' = PendingOf(e, r) \ w
  BY <1>2, <1>3, Zenon DEF PendingOf
<1>5. QED
  BY <1>1, <1>4

\* Recording a posting of d, or its reversal.
LEMMA RowAddedViews ==
  ASSUME TypeOK, NEW d \in Docs, NEW reversal \in BOOLEAN, log' = Append(log, NewLog(d, reversal))
  PROVE  /\ \A e \in Docs, r \in BOOLEAN : e # d \/ r # reversal =>
               LogsOf(e, log, r)' = LogsOf(e, log, r) /\ PendingOf(e, r)' = PendingOf(e, r)
         /\ LogsOf(d, log, reversal)' = LogsOf(d, log, reversal) \cup {Len(log) + 1}
         /\ PendingOf(d, reversal)' = PendingOf(d, reversal) \cup {Len(log) + 1}
         /\ DOMAIN log' = DOMAIN log \cup {Len(log) + 1} /\ Len(log) + 1 \notin DOMAIN log
         /\ log'[Len(log) + 1] = NewLog(d, reversal)
         /\ \A j \in DOMAIN log : log'[j] = log[j]
<1> DEFINE n == Len(log) + 1
<1>1. log \in Seq(LogRow) /\ NewLog(d, reversal) \in LogRow
  BY NewLogType DEF TypeOK
<1>2. DOMAIN log = 1..Len(log) /\ Len(log) \in Nat
  BY <1>1, LenProperties
<1>3. /\ DOMAIN log' = 1..n
      /\ \A j \in 1..Len(log) : log'[j] = log[j]
      /\ log'[n] = NewLog(d, reversal)
  BY <1>1, <1>2, AppendProperties
<1>4. DOMAIN log' = DOMAIN log \cup {n} /\ n \notin DOMAIN log
  BY <1>2, <1>3
<1>5. log'[n].doc = d /\ log'[n].reversal = reversal /\ IsPending(log'[n])
  BY <1>3 DEF NewLog, IsPending, PENDING
<1>6. \A j \in DOMAIN log : log'[j] = log[j]
  BY <1>2, <1>3
<1>7. log'[n] = NewLog(d, reversal)
  BY <1>3
<1> HIDE DEF n
<1>8. ASSUME NEW e \in Docs, NEW r \in BOOLEAN, e # d \/ r # reversal
      PROVE  LogsOf(e, log, r)' = LogsOf(e, log, r) /\ PendingOf(e, r)' = PendingOf(e, r)
  <2>1. LogsOf(e, log, r)' = LogsOf(e, log, r)
    BY <1>4, <1>5, <1>6, <1>8 DEF LogsOf
  <2>2. \A j \in LogsOf(e, log, r) : log'[j] = log[j]
    BY <1>6 DEF LogsOf
  <2>3. QED
    BY <2>1, <2>2 DEF PendingOf, IsPending
<1>9. LogsOf(d, log, reversal)' = LogsOf(d, log, reversal) \cup {n}
  BY <1>4, <1>5, <1>6 DEF LogsOf
<1>10. PendingOf(d, reversal)' = PendingOf(d, reversal) \cup {n}
  <2>1. \A j \in LogsOf(d, log, reversal) : log'[j] = log[j]
    BY <1>6 DEF LogsOf
  <2>2. QED
    BY <1>5, <1>9, <2>1 DEF PendingOf, IsPending
<1>11. QED
  BY <1>4, <1>6, <1>7, <1>8, <1>9, <1>10, Zenon DEF n

-----------------------------------------------------------------------------
(* One document: its row, its live ERPNext documents, its postings, those  *)
(* of them that are pending, and its reversals.                            *)

DocOK(d, row, live, logs, pend, revs) ==
  /\ row.state = "Draft" => row.posted = 0 /\ row.link = 0 /\ live = {} /\ logs = {}
  /\ row.state = "Posted" => /\ row.posted \in 1..PostingsOf(d)
                             /\ Cardinality(live) + Cardinality(pend) = row.posted
  /\ row.state = "Cancelled" => d \in Cancellable
  /\ row.state # "Cancelled" => revs = {}
  /\ d \in Cancellable => /\ live \subseteq {row.link}
                          /\ row.state = "Posted" /\ row.link # 0 => live = {row.link}

LEMMA PostedAgain ==
  ASSUME NEW d \in Docs, NEW row \in DocRow, row.state # "Cancelled", row.posted < PostingsOf(d)
  PROVE  /\ [row EXCEPT !.state = "Posted", !.posted = @ + 1].state = "Posted"
         /\ [row EXCEPT !.state = "Posted", !.posted = @ + 1].posted = row.posted + 1
         /\ [row EXCEPT !.state = "Posted", !.posted = @ + 1].link = row.link
         /\ row.posted + 1 \in 1..PostingsOf(d)
         /\ PostingsOf(d) \in Nat /\ (d \in Cancellable => PostingsOf(d) = 1)
<1>1. PostingsOf(d) \in Nat /\ (d \in Cancellable => PostingsOf(d) = 1)
  BY DEF PostingsOf, Cancellable
<1>2. QED
  BY <1>1 DEF DocRow

\* Posting d once more leaves row n of the queue...
LEMMA DocPostedQueued ==
  ASSUME NEW d \in Docs, NEW row \in DocRow, NEW live, NEW logs, NEW pend, NEW revs, NEW n,
         DocOK(d, row, live, logs, pend, revs), IsFiniteSet(live), IsFiniteSet(pend),
         pend \subseteq logs, n \notin pend,
         row.state # "Cancelled", row.posted < PostingsOf(d)
  PROVE  DocOK(d, [row EXCEPT !.state = "Posted", !.posted = @ + 1], live, logs \cup {n}, pend \cup {n}, revs)
<1> DEFINE row2 == [row EXCEPT !.state = "Posted", !.posted = @ + 1]
<1>1. /\ row2.state = "Posted" /\ row2.posted = row.posted + 1 /\ row2.link = row.link
      /\ row.posted + 1 \in 1..PostingsOf(d)
      /\ PostingsOf(d) \in Nat /\ (d \in Cancellable => PostingsOf(d) = 1)
  BY PostedAgain
<1> HIDE DEF row2
<1>2. /\ Cardinality(pend \cup {n}) = Cardinality(pend) + 1
      /\ Cardinality(pend) \in Nat /\ Cardinality(live) \in Nat
  BY FS_AddElement, FS_CardinalityType
<1>3. row.state \in {"Draft", "Posted"} /\ row.posted \in Nat
  BY DEF DocRow
<1>4. CASE row.state = "Draft"
  <2>1. row.posted = 0 /\ row.link = 0 /\ live = {} /\ pend = {} /\ revs = {}
    BY <1>4 DEF DocOK
  <2>2. Cardinality(live) = 0 /\ Cardinality(pend) = 0
    BY <2>1, FS_EmptySet
  <2>3. QED
    BY <1>1, <1>2, <2>1, <2>2 DEF DocOK, row2
<1>5. CASE row.state = "Posted"
  <2>1. row.posted \in 1..PostingsOf(d) /\ Cardinality(live) + Cardinality(pend) = row.posted /\ revs = {}
    BY <1>5 DEF DocOK
  <2>2. d \notin Cancellable
    BY <1>1, <2>1
  <2>3. QED
    BY <1>1, <1>2, <2>1, <2>2 DEF DocOK, row2
<1>6. QED
  BY <1>3, <1>4, <1>5

\* ... or document n in ERPNext.
LEMMA DocPostedInline ==
  ASSUME NEW d \in Docs, NEW row \in DocRow, NEW live, NEW logs, NEW pend, NEW revs, NEW n \in Nat,
         DocOK(d, row, live, logs, pend, revs), IsFiniteSet(live), IsFiniteSet(pend),
         pend \subseteq logs, n \notin live,
         row.state # "Cancelled", row.posted < PostingsOf(d)
  PROVE  DocOK(d, [[row EXCEPT !.state = "Posted", !.posted = @ + 1] EXCEPT !.link = n],
               live \cup {n}, logs, pend, revs)
<1> DEFINE row1 == [row EXCEPT !.state = "Posted", !.posted = @ + 1]
           row2 == [row1 EXCEPT !.link = n]
<1>1. /\ row1.state = "Posted" /\ row1.posted = row.posted + 1
      /\ row.posted + 1 \in 1..PostingsOf(d)
      /\ PostingsOf(d) \in Nat /\ (d \in Cancellable => PostingsOf(d) = 1)
  BY PostedAgain
<1>2. row1 \in DocRow
  BY DocRowUpdates
<1> HIDE DEF row1
<1>3. row2.state = "Posted" /\ row2.posted = row.posted + 1 /\ row2.link = n
  BY <1>1, <1>2 DEF DocRow
<1> HIDE DEF row2
<1>4. /\ Cardinality(live \cup {n}) = Cardinality(live) + 1
      /\ Cardinality(pend) \in Nat /\ Cardinality(live) \in Nat
  BY FS_AddElement, FS_CardinalityType
<1>5. row.state \in {"Draft", "Posted"} /\ row.posted \in Nat
  BY DEF DocRow
<1>6. CASE row.state = "Draft"
  <2>1. row.posted = 0 /\ live = {} /\ pend = {} /\ revs = {}
    BY <1>6 DEF DocOK
  <2>2. Cardinality(live) = 0 /\ Cardinality(pend) = 0
    BY <2>1, FS_EmptySet
  <2>3. live \cup {n} = {n}
    BY <2>1
  <2>4. QED
    BY <1>1, <1>3, <1>4, <2>1, <2>2, <2>3 DEF DocOK, row2, row1
<1>7. CASE row.state = "Posted"
  <2>1. row.posted \in 1..PostingsOf(d) /\ Cardinality(live) + Cardinality(pend) = row.posted /\ revs = {}
    BY <1>7 DEF DocOK
  <2>2. d \notin Cancellable
    BY <1>1, <2>1
  <2>3. QED
    BY <1>1, <1>3, <1>4, <2>1, <2>2 DEF DocOK, row2, row1
<1>8. QED
  BY <1>5, <1>6, <1>7

\* Row i of the queue is posted as document n.
LEMMA DocDone ==
  ASSUME NEW d \in Docs, NEW row \in DocRow, NEW live, NEW logs, NEW pend, NEW revs, NEW i, NEW n \in Nat,
         DocOK(d, row, live, logs, pend, revs), IsFiniteSet(live), IsFiniteSet(pend),
         0 \notin live, i \in pend, i \in logs, n \notin live,
         d \in Cancellable => row.link = 0
  PROVE  DocOK(d, [row EXCEPT !.link = n], live \cup {n}, logs, pend \ {i}, revs)
<1> DEFINE row2 == [row EXCEPT !.link = n]
<1>1. row2.state = row.state /\ row2.posted = row.posted /\ row2.link = n
  BY DEF DocRow
<1> HIDE DEF row2
<1>2. row.state # "Draft" /\ row.posted \in Nat
  BY DEF DocOK, DocRow
<1>3. d \in Cancellable => live = {}
  BY DEF DocOK
<1>4. /\ Cardinality(live \cup {n}) = Cardinality(live) + 1 /\ Cardinality(live) \in Nat
      /\ Cardinality(pend \ {i}) = Cardinality(pend) - 1 /\ Cardinality(pend) \in Nat
  BY FS_AddElement, FS_RemoveElement, FS_CardinalityType
<1>5. row.state = "Posted" => Cardinality(live) + Cardinality(pend) = row.posted
  BY DEF DocOK
<1>6. row.state = "Posted" => Cardinality(live \cup {n}) + Cardinality(pend \ {i}) = row.posted
  BY <1>4, <1>5
<1>7. d \in Cancellable => live \cup {n} = {n}
  BY <1>3
<1>8. QED
  BY <1>1, <1>2, <1>6, <1>7 DEF DocOK, row2

\* Row i of the queue has nothing to post.
LEMMA DocSkipped ==
  ASSUME NEW d \in Docs, NEW row \in DocRow, NEW live, NEW logs, NEW pend, NEW revs, NEW i,
         DocOK(d, row, live, logs, pend, revs), IsFiniteSet(live), IsFiniteSet(pend),
         i \in pend, i \in logs,
         d \in Cancellable, row.state = "Cancelled" \/ row.link # 0
  PROVE  DocOK(d, row, live, logs, pend \ {i}, revs)
<1>1. CASE row.state = "Cancelled"
  BY <1>1 DEF DocOK
<1>2. CASE row.state # "Cancelled"
  <2>1. row.state = "Posted"
    BY <1>2 DEF DocOK, DocRow
  <2>2. live = {row.link} /\ Cardinality(live) + Cardinality(pend) = row.posted /\ row.posted \in 1..PostingsOf(d)
    BY <1>2, <2>1 DEF DocOK
  <2>3. Cardinality(live) = 1
    BY <2>2, FS_Singleton
  <2>4. PostingsOf(d) = 1
    BY DEF PostingsOf, Cancellable
  <2>5. Cardinality(pend) \in Nat /\ Cardinality(pend \ {i}) = Cardinality(pend) - 1 /\ Cardinality(pend \ {i}) \in Nat
    BY FS_RemoveElement, FS_CardinalityType
  <2>6. QED
    BY <2>2, <2>3, <2>4, <2>5
<1>3. QED
  BY <1>1, <1>2

\* A cancelled document may lose what ERPNext holds for it and what is pending.
LEMMA DocCancelled ==
  ASSUME NEW d \in Cancellable, NEW row, NEW live, NEW logs, NEW pend, NEW revs,
         DocOK(d, row, live, logs, pend, revs), NEW row2, NEW live2, NEW pend2, NEW revs2,
         row2.state = "Cancelled", row2.link = row.link, live2 \subseteq live
  PROVE  DocOK(d, row2, live2, logs, pend2, revs2)
BY DEF DocOK

-----------------------------------------------------------------------------
(* Requests in flight: what one has seen, compared with the documents and  *)
(* the queue as they are now.                                              *)

SnapOK(seen, docs, rows) ==
  /\ \A i \in DOMAIN seen.log :
       /\ i \in DOMAIN rows
       /\ seen.log[i].doc = rows[i].doc /\ seen.log[i].reversal = rows[i].reversal
       /\ IsPending(rows[i]) => IsPending(seen.log[i])
       /\ seen.doc[seen.log[i].doc].state # "Draft"
       /\ seen.log[i].reversal => seen.doc[seen.log[i].doc].state = "Cancelled"
  /\ \A d \in Docs :
       /\ seen.doc[d].state = "Cancelled" => docs[d].state = "Cancelled"
       /\ seen.doc[d].posted <= docs[d].posted
       /\ d \in Cancellable /\ seen.doc[d].link # 0 => docs[d].link = seen.doc[d].link
  /\ \A i \in DOMAIN rows : i \notin DOMAIN seen.log /\ ~rows[i].reversal =>
       seen.doc[rows[i].doc].posted < docs[rows[i].doc].posted

\* What no step undoes.
Progress(docs, rows, docs2, rows2) ==
  /\ \A d \in Docs :
       /\ docs[d].state = "Cancelled" => docs2[d].state = "Cancelled"
       /\ docs[d].posted <= docs2[d].posted
       /\ d \in Cancellable /\ docs[d].link # 0 => docs2[d].link = docs[d].link
  /\ \A i \in DOMAIN rows :
       /\ i \in DOMAIN rows2
       /\ rows2[i].doc = rows[i].doc /\ rows2[i].reversal = rows[i].reversal
       /\ IsPending(rows2[i]) => IsPending(rows[i])
  /\ \A i \in DOMAIN rows2 : i \notin DOMAIN rows /\ ~rows2[i].reversal =>
       docs[rows2[i].doc].posted < docs2[rows2[i].doc].posted

LEMMA SnapProgress ==
  ASSUME NEW seen, seen.doc \in [Docs -> DocRow],
         NEW docs \in [Docs -> DocRow], NEW rows \in Seq(LogRow),
         NEW docs2 \in [Docs -> DocRow], NEW rows2 \in Seq(LogRow),
         SnapOK(seen, docs, rows), Progress(docs, rows, docs2, rows2)
  PROVE  SnapOK(seen, docs2, rows2)
<1>1. \A d \in Docs : /\ seen.doc[d] \in DocRow /\ docs[d] \in DocRow /\ docs2[d] \in DocRow
                      /\ seen.doc[d].posted \in Nat /\ docs[d].posted \in Nat /\ docs2[d].posted \in Nat
  BY DEF DocRow
<1>2. (\A i \in DOMAIN rows : rows[i].doc \in Docs) /\ (\A i \in DOMAIN rows2 : rows2[i].doc \in Docs)
  BY LogUpdates, LogRowUpdates, Zenon
<1>3. ASSUME NEW i \in DOMAIN seen.log
      PROVE  /\ i \in DOMAIN rows2
             /\ seen.log[i].doc = rows2[i].doc /\ seen.log[i].reversal = rows2[i].reversal
             /\ IsPending(rows2[i]) => IsPending(seen.log[i])
             /\ seen.doc[seen.log[i].doc].state # "Draft"
             /\ seen.log[i].reversal => seen.doc[seen.log[i].doc].state = "Cancelled"
  BY <1>3, Zenon DEF SnapOK, Progress
<1>4. ASSUME NEW d \in Docs
      PROVE  /\ seen.doc[d].state = "Cancelled" => docs2[d].state = "Cancelled"
             /\ seen.doc[d].posted <= docs2[d].posted
             /\ d \in Cancellable /\ seen.doc[d].link # 0 => docs2[d].link = seen.doc[d].link
  <2>1. seen.doc[d].posted <= docs[d].posted /\ docs[d].posted <= docs2[d].posted
    BY DEF SnapOK, Progress
  <2>2. seen.doc[d].posted <= docs2[d].posted
    BY <1>1, <2>1
  <2>3. /\ seen.doc[d].state = "Cancelled" => docs2[d].state = "Cancelled"
        /\ d \in Cancellable /\ seen.doc[d].link # 0 => docs2[d].link = seen.doc[d].link
    BY Zenon DEF SnapOK, Progress
  <2>4. QED
    BY <2>2, <2>3
<1>5. ASSUME NEW i \in DOMAIN rows2, i \notin DOMAIN seen.log, ~rows2[i].reversal
      PROVE  seen.doc[rows2[i].doc].posted < docs2[rows2[i].doc].posted
  <2>0. rows2[i].doc \in Docs
    BY <1>2
  <2>1. CASE i \in DOMAIN rows
    <3>1. rows2[i].doc = rows[i].doc /\ rows2[i].reversal = rows[i].reversal
      BY <2>1, Zenon DEF Progress
    <3>2. seen.doc[rows2[i].doc].posted < docs[rows2[i].doc].posted
      BY <1>5, <2>1, <3>1, Zenon DEF SnapOK
    <3>3. docs[rows2[i].doc].posted <= docs2[rows2[i].doc].posted
      BY <2>0, Zenon DEF Progress
    <3>4. QED
      BY <1>1, <2>0, <3>2, <3>3
  <2>2. CASE i \notin DOMAIN rows
    <3>1. docs[rows2[i].doc].posted < docs2[rows2[i].doc].posted
      BY <1>5, <2>2, Zenon DEF Progress
    <3>2. seen.doc[rows2[i].doc].posted <= docs[rows2[i].doc].posted
      BY <2>0, Zenon DEF SnapOK
    <3>3. QED
      BY <1>1, <2>0, <3>1, <3>2
  <2>3. QED
    BY <2>1, <2>2
<1>6. QED
  BY <1>3, <1>4, <1>5, Zenon DEF SnapOK

-----------------------------------------------------------------------------
(* The invariant: each document is accounted for, links to its own ERPNext *)
(* document, and what the requests in flight have seen has not been undone.*)

View(d) == DocOK(d, doc[d], Live(d), LogsOf(d, log, FALSE), PendingOf(d, FALSE), LogsOf(d, log, TRUE))

LinkOK(d) == doc[d].link # 0 => doc[d].link \in DOMAIN erp /\ erp[doc[d].link].doc = d

SnapsOK == \A s \in Sessions : request[s] # Idle => SnapOK(request[s].seen, doc, log)

PostingInv ==
  /\ SettledInv /\ SnapsOK /\ PostedInOrder
  /\ \A d \in Docs : View(d) /\ LinkOK(d)

LEMMA PostingInit == Init => PostingInv
<1> SUFFICES ASSUME Init
             PROVE  PostingInv
  OBVIOUS
<1>1. SettledInv
  BY SettledInit
<1>2. SnapsOK /\ PostedInOrder
  BY DEF Init, SnapsOK, PostedInOrder
<1>3. ASSUME NEW d \in Docs
      PROVE  View(d) /\ LinkOK(d)
  <2>1. doc[d].state = "Draft" /\ doc[d].posted = 0 /\ doc[d].link = 0
    BY DEF Init
  <2>2. Live(d) = {} /\ LogsOf(d, log, FALSE) = {} /\ LogsOf(d, log, TRUE) = {}
    BY DEF Init, Live, LogsOf
  <2>3. QED
    BY <2>1, <2>2 DEF View, DocOK, LinkOK
<1>4. QED
  BY <1>1, <1>2, <1>3 DEF PostingInv

\* A document no step touches.
Untouched(d) ==
  /\ doc'[d] = doc[d] /\ Live(d)' = Live(d)
  /\ \A r \in BOOLEAN : LogsOf(d, log, r)' = LogsOf(d, log, r) /\ PendingOf(d, r)' = PendingOf(d, r)

LEMMA ViewKept ==
  ASSUME NEW d \in Docs, View(d), Untouched(d)
  PROVE  View(d)'
<1>1. DocOK(d, doc'[d], Live(d)', LogsOf(d, log, FALSE)', PendingOf(d, FALSE)', LogsOf(d, log, TRUE)')
  BY Zenon DEF View, Untouched
<1>2. QED
  BY <1>1, Zenon DEF View, DocOK

\* The rows done by now were done in their order.
LEMMA InOrderKept ==
  ASSUME TypeOK, TypeOK', PostedInOrder, Progress(doc, log, doc', log'),
         \A i \in DOMAIN log' : log'[i].status = "Done" =>
            /\ i \in DOMAIN log
            /\ log[i].status = "Done" \/ (\A j \in 1..(i - 1) : log[j].doc = log[i].doc => ~IsPending(log[j]))
  PROVE  PostedInOrder'
<1> SUFFICES ASSUME NEW i \in DOMAIN log', log'[i].status = "Done",
                    NEW j \in 1..(i - 1), log'[j].doc = log'[i].doc
             PROVE  ~IsPending(log'[j])
  BY DEF PostedInOrder, IsPending
<1>1. i \in DOMAIN log /\ DOMAIN log = 1..Len(log) /\ Len(log) \in Nat
  BY LogUpdates DEF TypeOK
<1>2. j \in DOMAIN log
  BY <1>1
<1>3. log[j].doc = log[i].doc => ~IsPending(log[j])
  BY <1>1 DEF PostedInOrder
<1>4. log'[j].doc = log[j].doc /\ log'[i].doc = log[i].doc /\ (IsPending(log'[j]) => IsPending(log[j]))
  BY <1>1, <1>2, Zenon DEF Progress
<1>5. QED
  BY <1>3, <1>4, Zenon

\* The requests in flight after a step that ends some of them.
LEMMA SnapsKept ==
  ASSUME TypeOK, TypeOK', SnapsOK, Progress(doc, log, doc', log'),
         \A s \in Sessions : request'[s] = request[s] \/ request'[s] = Idle
  PROVE  SnapsOK'
<1> SUFFICES ASSUME NEW s \in Sessions, request'[s] # Idle
             PROVE  SnapOK(request'[s].seen, doc', log')
  BY Zenon DEF SnapsOK, SnapOK, IsPending
<1>1. request'[s] = request[s] /\ request[s] # Idle
  OBVIOUS
<1>2. SnapOK(request[s].seen, doc, log) /\ request[s].seen.doc \in [Docs -> DocRow]
  BY <1>1, Zenon DEF SnapsOK, TypeOK
<1>3. /\ doc \in [Docs -> DocRow] /\ log \in Seq(LogRow)
      /\ doc' \in [Docs -> DocRow] /\ log' \in Seq(LogRow)
  BY Zenon DEF TypeOK
<1>4. SnapOK(request[s].seen, doc', log')
  BY <1>2, <1>3, SnapProgress, Zenon
<1>5. QED
  BY <1>1, <1>4, Zenon

\* What a step that touches document d alone has to show.
LEMMA OneDocument ==
  ASSUME PostingInv, SettledInv', NEW d \in Docs, View(d)', LinkOK(d)',
         ErpGrows, \A e \in Docs : e # d => Untouched(e),
         Progress(doc, log, doc', log'),
         \A i \in DOMAIN log' : log'[i].status = "Done" =>
            /\ i \in DOMAIN log
            /\ log[i].status = "Done" \/ (\A j \in 1..(i - 1) : log[j].doc = log[i].doc => ~IsPending(log[j])),
         \A s \in Sessions : request'[s] = request[s] \/ request'[s] = Idle
  PROVE  PostingInv'
<1>1. TypeOK /\ TypeOK' /\ SnapsOK /\ PostedInOrder
  BY Zenon DEF PostingInv, SettledInv
<1>2. SnapsOK'
  BY <1>1, SnapsKept
<1>3. PostedInOrder'
  BY <1>1, InOrderKept
<1>4. ASSUME NEW e \in Docs, e # d
      PROVE  View(e)' /\ LinkOK(e)'
  <2>1. View(e) /\ LinkOK(e) /\ Untouched(e)
    BY <1>4, Zenon DEF PostingInv
  <2>2. View(e)'
    BY <2>1, ViewKept
  <2>3. LinkOK(e)'
    BY <2>1, Zenon DEF LinkOK, Untouched, ErpGrows
  <2>4. QED
    BY <2>2, <2>3
<1>5. \A e \in Docs : View(e)' /\ LinkOK(e)'
  BY <1>4, Zenon
<1>6. QED
  BY <1>2, <1>3, <1>5, Zenon DEF PostingInv

LEMMA SameDocuments ==
  ASSUME PostingInv, SettledInv', UNCHANGED <<doc, log, erp>>
  PROVE  /\ PostedInOrder' /\ \A d \in Docs : View(d)' /\ LinkOK(d)'
         /\ Progress(doc, log, doc', log')
<1>1. PostedInOrder'
  BY DEF PostingInv, PostedInOrder, IsPending
<1>2. ASSUME NEW d \in Docs
      PROVE  View(d)' /\ LinkOK(d)'
  <2>1. Untouched(d)
    BY DEF Untouched, Live, LogsOf, PendingOf, IsPending
  <2>2. QED
    BY <2>1, ViewKept DEF PostingInv, LinkOK
<1>3. Progress(doc, log, doc', log')
  <2>1. \A d \in Docs : doc[d].posted <= doc[d].posted
    BY DEF PostingInv, SettledInv, TypeOK, DocRow
  <2>2. QED
    BY <2>1, Zenon DEF Progress
<1>4. QED
  BY <1>1, <1>2, <1>3

\* A request that begins has seen everything.
LEMMA SnapBegun ==
  ASSUME PostingInv
  PROVE  SnapOK(Seen, doc, log)
<1>1. Seen.doc = doc /\ Seen.log = log
  BY DEF Seen
<1>2. ASSUME NEW i \in DOMAIN log
      PROVE  /\ doc[log[i].doc].state # "Draft"
             /\ log[i].reversal => doc[log[i].doc].state = "Cancelled"
  <2>1. log[i].doc \in Docs /\ log[i].reversal \in BOOLEAN
    BY LogUpdates, LogRowUpdates DEF PostingInv, SettledInv, TypeOK
  <2>2. View(log[i].doc)
    BY <2>1 DEF PostingInv
  <2>3. i \in LogsOf(log[i].doc, log, log[i].reversal)
    BY DEF LogsOf
  <2>4. CASE log[i].reversal
    BY <2>2, <2>3, <2>4 DEF View, DocOK
  <2>5. CASE ~log[i].reversal
    BY <2>1, <2>2, <2>3, <2>5 DEF View, DocOK
  <2>6. QED
    BY <2>4, <2>5
<1>3. \A d \in Docs : doc[d].posted <= doc[d].posted
  BY DEF PostingInv, SettledInv, TypeOK, DocRow
<1>4. QED
  BY <1>1, <1>2, <1>3, Zenon DEF SnapOK

LEMMA PostingRequests ==
  ASSUME PostingInv, SettledInv', UNCHANGED <<doc, log, erp>>,
         \A s \in Sessions : \/ request'[s] = request[s] \/ request'[s] = Idle
                             \/ request'[s].seen = Seen
  PROVE  PostingInv'
<1>1. SnapOK(Seen, doc, log)
  BY SnapBegun
<1>2. SnapsOK'
  <2> SUFFICES ASSUME NEW s \in Sessions, request'[s] # Idle
               PROVE  SnapOK(request'[s].seen, doc', log')
    BY Zenon DEF SnapsOK, SnapOK, IsPending
  <2>1. SnapOK(request'[s].seen, doc, log)
    BY <1>1, Zenon DEF PostingInv, SnapsOK
  <2>2. QED
    BY <2>1, Zenon
<1>3. QED
  BY <1>2, SameDocuments, Zenon DEF PostingInv

-----------------------------------------------------------------------------
(* The invariant is kept by every action. *)

LEMMA PostingPost ==
  ASSUME PostingInv, SettledInv', NEW d \in Docs, Post(d)
  PROVE  PostingInv'
<1> DEFINE posted == [doc EXCEPT ![d].state = "Posted", ![d].posted = @ + 1]
           row2 == [doc[d] EXCEPT !.state = "Posted", !.posted = @ + 1]
<1>1. /\ TypeOK /\ doc \in [Docs -> DocRow] /\ doc[d] \in DocRow /\ View(d) /\ LinkOK(d)
      /\ log \in Seq(LogRow) /\ log' \in Seq(LogRow)
  BY DEF PostingInv, SettledInv, TypeOK
<1>2. /\ IsFiniteSet(Live(d)) /\ Live(d) \subseteq DOMAIN erp /\ IsFiniteSet(PendingOf(d, FALSE))
      /\ PendingOf(d, FALSE) \subseteq LogsOf(d, log, FALSE) /\ LogsOf(d, log, FALSE) \subseteq DOMAIN log
      /\ Len(erp) \in Nat /\ DOMAIN erp = 1..Len(erp)
  BY <1>1, FiniteViews
<1>3. doc[d].state # "Cancelled" /\ doc[d].posted < PostingsOf(d)
  BY DEF Post
<1>4. posted[d] = row2 /\ (\A e \in Docs : e # d => posted[e] = doc[e]) /\ DOMAIN posted = Docs
  BY <1>1
<1>5. row2.state = "Posted" /\ row2.posted = doc[d].posted + 1 /\ row2.link = doc[d].link
  BY <1>1, <1>3, PostedAgain
<1>6. UNCHANGED request
  BY DEF Post
<1>7. \A e \in Docs : doc[e].posted \in Nat
  BY <1>1 DEF DocRow
<1>8. CASE doc' = posted /\ log' = Append(log, NewLog(d, FALSE)) /\ UNCHANGED erp
  <2> DEFINE n == Len(log) + 1
  <2>1. /\ \A e \in Docs, r \in BOOLEAN : e # d \/ r # FALSE =>
               LogsOf(e, log, r)' = LogsOf(e, log, r) /\ PendingOf(e, r)' = PendingOf(e, r)
        /\ LogsOf(d, log, FALSE)' = LogsOf(d, log, FALSE) \cup {n}
        /\ PendingOf(d, FALSE)' = PendingOf(d, FALSE) \cup {n}
        /\ DOMAIN log' = DOMAIN log \cup {n} /\ n \notin DOMAIN log
        /\ log'[n] = NewLog(d, FALSE)
        /\ \A j \in DOMAIN log : log'[j] = log[j]
    BY <1>1, <1>8, RowAddedViews
  <2>2. \A e \in Docs : Live(e)' = Live(e)
    BY <1>8 DEF Live
  <2> HIDE DEF n, posted, row2
  <2>3. DocOK(d, row2, Live(d), LogsOf(d, log, FALSE) \cup {n}, PendingOf(d, FALSE) \cup {n}, LogsOf(d, log, TRUE))
    BY <1>1, <1>2, <1>3, <2>1, DocPostedQueued DEF View, row2
  <2>4. View(d)'
    <3>1. doc'[d] = row2 /\ LogsOf(d, log, TRUE)' = LogsOf(d, log, TRUE)
      BY <1>4, <1>8, <2>1
    <3>2. DocOK(d, doc'[d], Live(d)', LogsOf(d, log, FALSE)', PendingOf(d, FALSE)', LogsOf(d, log, TRUE)')
      BY <2>1, <2>2, <2>3, <3>1, Zenon
    <3>3. QED
      BY <3>2, Zenon DEF View, DocOK
  <2>5. LinkOK(d)'
    BY <1>1, <1>4, <1>5, <1>8 DEF LinkOK
  <2>6. ErpGrows
    BY <1>8 DEF ErpGrows
  <2>7. \A e \in Docs : e # d => Untouched(e)
    BY <1>4, <1>8, <2>1, <2>2, Zenon DEF Untouched
  <2>8. log'[n].doc = d /\ log'[n].status = "Queued"
    BY <2>1 DEF NewLog
  <2>9. Progress(doc, log, doc', log')
    <3>1. \A e \in Docs : /\ doc[e].state = "Cancelled" => doc'[e].state = "Cancelled"
                          /\ doc[e].posted <= doc'[e].posted
                          /\ e \in Cancellable /\ doc[e].link # 0 => doc'[e].link = doc[e].link
      BY <1>3, <1>4, <1>5, <1>7, <1>8
    <3>2. doc[d].posted < doc'[d].posted
      BY <1>4, <1>5, <1>7, <1>8
    <3>3. QED
      BY <2>1, <2>8, <3>1, <3>2, Zenon DEF Progress
  <2>10. \A i \in DOMAIN log' : log'[i].status = "Done" => i \in DOMAIN log /\ log[i].status = "Done"
    BY <2>1, <2>8
  <2>11. QED
    BY <1>6, <2>4, <2>5, <2>6, <2>7, <2>9, <2>10, OneDocument
<1>9. CASE doc' = Linked(d, posted) /\ erp' = Submitted(d) /\ UNCHANGED log
  <2> DEFINE n == Len(erp) + 1
  <2>1. /\ Live(d)' = Live(d) \cup {n} /\ n \notin Live(d)
        /\ n \in DOMAIN erp' /\ erp'[n].doc = d
        /\ \A e \in Docs : e # d => Live(e)' = Live(e)
        /\ ErpGrows
    BY <1>1, <1>9, LiveSubmitted
  <2>2. \A e \in Docs, r \in BOOLEAN : LogsOf(e, log, r)' = LogsOf(e, log, r) /\ PendingOf(e, r)' = PendingOf(e, r)
    BY <1>9 DEF LogsOf, PendingOf, IsPending
  <2>3. n \in Nat
    BY <1>2
  <2>4. doc'[d] = [row2 EXCEPT !.link = n] /\ \A e \in Docs : e # d => doc'[e] = doc[e]
    BY <1>4, <1>9 DEF Linked
  <2> HIDE DEF n, posted
  <2>5. DocOK(d, [row2 EXCEPT !.link = n], Live(d) \cup {n}, LogsOf(d, log, FALSE), PendingOf(d, FALSE), LogsOf(d, log, TRUE))
    BY <1>1, <1>2, <1>3, <2>1, <2>3, DocPostedInline DEF View
  <2>6. View(d)'
    <3>1. DocOK(d, doc'[d], Live(d)', LogsOf(d, log, FALSE)', PendingOf(d, FALSE)', LogsOf(d, log, TRUE)')
      BY <2>1, <2>2, <2>4, <2>5, Zenon
    <3>2. QED
      BY <3>1, Zenon DEF View, DocOK
  <2>7. row2 \in DocRow
    BY <1>1, DocRowUpdates
  <2>8. doc'[d].state = "Posted" /\ doc'[d].posted = doc[d].posted + 1 /\ doc'[d].link = n
    <3> HIDE DEF row2
    <3>1. QED
      BY <1>5, <2>4, <2>7 DEF DocRow
  <2>9. LinkOK(d)'
    BY <2>1, <2>8 DEF LinkOK
  <2>10. \A e \in Docs : e # d => Untouched(e)
    BY <2>1, <2>2, <2>4, Zenon DEF Untouched
  <2>11. d \in Cancellable => doc[d].link = 0
    <3>1. d \in Cancellable => PostingsOf(d) = 1
      BY DEF Cancellable, PostingsOf
    <3>2. d \in Cancellable => doc[d].state = "Draft"
      <4>1. doc[d].state \in {"Draft", "Posted", "Cancelled"} /\ doc[d].posted \in Nat
        BY <1>1, DocRowUpdates
      <4>2. doc[d].state = "Posted" => doc[d].posted \in 1..PostingsOf(d)
        BY <1>1, Zenon DEF View, DocOK
      <4>3. QED
        BY <1>3, <3>1, <4>1, <4>2
    <3>3. QED
      BY <1>1, <3>2 DEF View, DocOK
  <2>12. Progress(doc, log, doc', log')
    <3>1. /\ doc[d].state = "Cancelled" => doc'[d].state = "Cancelled"
          /\ doc[d].posted <= doc'[d].posted
          /\ d \in Cancellable /\ doc[d].link # 0 => doc'[d].link = doc[d].link
      <4>1. doc[d].posted \in Nat
        BY <1>7
      <4>2. QED
        BY <1>3, <2>8, <2>11, <4>1
    <3>2. \A e \in Docs : doc[e].posted <= doc[e].posted
      BY <1>7
    <3>3. \A e \in Docs : /\ doc[e].state = "Cancelled" => doc'[e].state = "Cancelled"
                          /\ doc[e].posted <= doc'[e].posted
                          /\ e \in Cancellable /\ doc[e].link # 0 => doc'[e].link = doc[e].link
      BY <2>4, <3>1, <3>2, Zenon
    <3>4. QED
      BY <1>9, <3>3, Zenon DEF Progress
  <2>13. QED
    BY <1>6, <1>9, <2>1, <2>6, <2>9, <2>10, <2>12, OneDocument
<1>10. QED
  BY <1>8, <1>9 DEF Post

\* What cancelling does: the request has seen the document as it is.
CancelsDoc(s, d) ==
  /\ request[s] # Idle /\ d \in Docs /\ d \in Cancellable
  /\ doc[d].state = "Posted" /\ request[s].seen.doc[d] = doc[d]
  /\ doc'[d].state = "Cancelled" /\ doc'[d].posted = doc[d].posted /\ doc'[d].link = doc[d].link
  /\ \A e \in Docs : e # d => doc'[e] = doc[e]

ReversesInline(s, d) ==
  request[s].seen.mode = Synchronous /\ erp' = CancelDoc(doc[d].link) /\ UNCHANGED log

Withdraws(s, d, w) ==
  /\ request[s].seen.mode = QUEUED /\ UNCHANGED erp
  /\ w = Withdrawn(d, request[s].seen.log) /\ w # {} /\ w \subseteq PendingOf(d, FALSE) /\ RowsKept(w)
  /\ \A i \in DOMAIN log : log'[i].status = "Done" => log[i].status = "Done"

QueuesReversal(s, d) ==
  /\ request[s].seen.mode = QUEUED /\ UNCHANGED erp
  /\ Withdrawn(d, request[s].seen.log) = {} /\ log' = Append(log, NewLog(d, TRUE))

LEMMA CancelEffects ==
  ASSUME SnapshotIsolation, PostingInv, NEW s \in Sessions, Cancel(s)
  PROVE  \E d : /\ CancelsDoc(s, d)
                /\ ReversesInline(s, d) \/ (\E w : Withdraws(s, d, w)) \/ QueuesReversal(s, d)
<1>0. PICK d : d = request[s].doc
  OBVIOUS
<1> DEFINE seen == request[s].seen
           w == Withdrawn(d, seen.log)
           row == CancelledRow(s, d)
<1>1. /\ TypeOK /\ request[s].kind = "cancel"
      /\ doc[d].state = "Posted" /\ FreshDoc(s, d) /\ doc' = [doc EXCEPT ![d] = row]
  BY <1>0, Zenon DEF Cancel, PostingInv, SettledInv
<1>2. request[s] # Idle
  BY <1>1 DEF Idle
<1>3. d \in Cancellable /\ d \in Docs /\ doc \in [Docs -> DocRow] /\ log \in Seq(LogRow) /\ doc[d] \in DocRow
  BY <1>0, <1>1, <1>2 DEF TypeOK, Cancellable, Docs
<1>4. seen.doc[d] = doc[d]
  BY <1>1 DEF FreshDoc
<1>5. row = [doc[d] EXCEPT !.state = "Cancelled"]
  BY <1>4, Zenon DEF CancelledRow
<1>6. row.state = "Cancelled" /\ row.posted = doc[d].posted /\ row.link = doc[d].link
  BY <1>3, <1>5 DEF DocRow
<1> HIDE DEF row
<1>7. /\ doc'[d] = row /\ \A e \in Docs : e # d => doc'[e] = doc[e]
  BY <1>1, <1>3
<1>8. ASSUME /\ \A i \in w : FreshLog(s, i)
             /\ log' = [i \in DOMAIN log |-> IF i \in w THEN [log[i] EXCEPT !.status = "Cancelled"]
                                                        ELSE log[i]]
      PROVE  /\ w \subseteq PendingOf(d, FALSE) /\ RowsKept(w)
             /\ \A i \in DOMAIN log : log'[i].status = "Done" => log[i].status = "Done"
  <2>1. SnapOK(seen, doc, log)
    BY <1>2 DEF PostingInv, SnapsOK
  <2>2. ASSUME NEW i \in w
        PROVE  i \in DOMAIN log /\ log[i].doc = d /\ log[i].reversal = FALSE /\ IsPending(log[i])
    <3>1. i \in DOMAIN seen.log /\ seen.log[i].doc = d /\ seen.log[i].reversal = FALSE /\ IsPending(seen.log[i])
      BY DEF Withdrawn, LogsOf
    <3>2. i \in DOMAIN log
      BY <2>1, <3>1, Zenon DEF SnapOK
    <3>3. log[i] = seen.log[i]
      BY <1>8 DEF FreshLog
    <3>4. QED
      BY <3>1, <3>2, <3>3
  <2>3. w \subseteq PendingOf(d, FALSE)
    BY <2>2 DEF PendingOf, LogsOf
  <2> HIDE DEF w
  <2>4. \A i \in DOMAIN log : log[i] \in LogRow
    BY <1>3, LogUpdates
  <2>5. DOMAIN log' = DOMAIN log
    BY <1>8
  <2>6. \A i \in DOMAIN log : i \notin w => log'[i] = log[i]
    BY <1>8
  <2>7. \A i \in DOMAIN log : i \in w => log'[i] = [log[i] EXCEPT !.status = "Cancelled"]
    BY <1>8
  <2>8. \A i \in DOMAIN log : i \in w =>
          log'[i].status = "Cancelled" /\ log'[i].doc = log[i].doc /\ log'[i].reversal = log[i].reversal
    <3> SUFFICES ASSUME NEW i \in DOMAIN log, i \in w
                 PROVE  log'[i].status = "Cancelled" /\ log'[i].doc = log[i].doc /\ log'[i].reversal = log[i].reversal
      OBVIOUS
    <3> DEFINE row2 == [log[i] EXCEPT !.status = "Cancelled"]
    <3>1. log[i] \in LogRow /\ log'[i] = row2
      BY <2>4, <2>7
    <3>2. row2.status = "Cancelled" /\ row2.doc = log[i].doc /\ row2.reversal = log[i].reversal
      BY <3>1 DEF LogRow
    <3> HIDE DEF row2
    <3>3. QED
      BY <3>1, <3>2
  <2>9. \A i \in DOMAIN log : i \in w => ~IsPending(log'[i])
    BY <2>8 DEF IsPending, PENDING
  <2>10. RowsKept(w)
    BY <2>5, <2>6, <2>8, <2>9, Zenon DEF RowsKept
  <2>11. \A i \in DOMAIN log : log'[i].status = "Done" => log[i].status = "Done"
    <3>1. "Cancelled" # "Done"
      OBVIOUS
    <3>2. QED
      BY <2>6, <2>8, <3>1, Zenon
  <2>12. QED
    BY <2>3, <2>10, <2>11
<1>9. \/ seen.mode = Synchronous /\ erp' = CancelDoc(doc[d].link) /\ UNCHANGED log
      \/ /\ seen.mode = QUEUED /\ w # {} /\ UNCHANGED erp
         /\ \A i \in w : FreshLog(s, i)
         /\ log' = [i \in DOMAIN log |-> IF i \in w THEN [log[i] EXCEPT !.status = "Cancelled"] ELSE log[i]]
      \/ seen.mode = QUEUED /\ w = {} /\ log' = Append(log, NewLog(d, TRUE)) /\ UNCHANGED erp
  BY <1>0, <1>6 DEF Cancel, row
<1>10. CancelsDoc(s, d)
  BY <1>1, <1>2, <1>3, <1>4, <1>6, <1>7, Zenon DEF CancelsDoc
<1>11. ReversesInline(s, d) \/ Withdraws(s, d, w) \/ QueuesReversal(s, d)
  BY <1>8, <1>9, Zenon DEF ReversesInline, Withdraws, QueuesReversal
<1>12. QED
  BY <1>10, <1>11, Zenon

LEMMA PostingCancel ==
  ASSUME SnapshotIsolation, PostingInv, SettledInv', NEW s \in Sessions, Cancel(s)
  PROVE  PostingInv'
<1>0. PICK d : /\ CancelsDoc(s, d)
               /\ ReversesInline(s, d) \/ (\E w : Withdraws(s, d, w)) \/ QueuesReversal(s, d)
  BY CancelEffects, Zenon
<1>1. /\ d \in Docs /\ d \in Cancellable
      /\ doc'[d].state = "Cancelled" /\ doc'[d].posted = doc[d].posted /\ doc'[d].link = doc[d].link
      /\ \A e \in Docs : e # d => doc'[e] = doc[e]
  BY <1>0, Zenon DEF CancelsDoc
<1>2. /\ TypeOK /\ doc \in [Docs -> DocRow] /\ doc[d] \in DocRow /\ View(d) /\ LinkOK(d)
      /\ doc[d].state # "Draft" /\ \A e \in Docs : doc[e].posted \in Nat
  <2>1. TypeOK /\ doc \in [Docs -> DocRow] /\ View(d) /\ LinkOK(d)
    BY <1>1 DEF PostingInv, SettledInv, TypeOK
  <2>2. doc[d].state = "Posted"
    BY <1>0, Zenon DEF CancelsDoc
  <2>3. QED
    BY <1>1, <2>1, <2>2 DEF DocRow
<1>3. \A r \in Sessions : request'[r] = request[r] \/ request'[r] = Idle
  BY <1>2 DEF Cancel, Ends, TypeOK
<1>4. /\ \A e \in Docs : e # d => Live(e)' = Live(e)
      /\ Live(d)' \subseteq Live(d) /\ ErpGrows
  <2>1. CASE UNCHANGED erp
    BY <2>1 DEF Live, ErpGrows
  <2>2. CASE erp' = CancelDoc(doc[d].link)
    <3>1. doc[d].link \in Nat
      BY <1>2, DocRowUpdates
    <3>2. /\ Live(d)' = Live(d) \ {doc[d].link} /\ ErpGrows
          /\ \A e \in Docs : e # d => Live(e)' = Live(e)
      BY <1>1, <1>2, <2>2, <3>1, LiveCancelled DEF LinkOK
    <3>3. QED
      BY <3>2
  <2>3. QED
    BY <1>0, <2>1, <2>2, Zenon DEF ReversesInline, Withdraws, QueuesReversal
<1>5. /\ LogsOf(d, log, FALSE)' = LogsOf(d, log, FALSE)
      /\ \A e \in Docs, r \in BOOLEAN : e # d =>
           LogsOf(e, log, r)' = LogsOf(e, log, r) /\ PendingOf(e, r)' = PendingOf(e, r)
      /\ \A i \in DOMAIN log : /\ i \in DOMAIN log'
                               /\ log'[i].doc = log[i].doc /\ log'[i].reversal = log[i].reversal
                               /\ IsPending(log'[i]) => IsPending(log[i])
      /\ \A i \in DOMAIN log' : i \notin DOMAIN log => log'[i].reversal
      /\ \A i \in DOMAIN log' : log'[i].status = "Done" => i \in DOMAIN log /\ log[i].status = "Done"
  <2>1. CASE UNCHANGED log
    BY <2>1 DEF LogsOf, PendingOf, IsPending
  <2>2. CASE \E w : Withdraws(s, d, w)
    <3>1. PICK w : /\ w \subseteq PendingOf(d, FALSE) /\ RowsKept(w)
                   /\ \A i \in DOMAIN log : log'[i].status = "Done" => log[i].status = "Done"
      BY <2>2, Zenon DEF Withdraws
    <3>2. \A e \in Docs, r \in BOOLEAN : LogsOf(e, log, r)' = LogsOf(e, log, r) /\ PendingOf(e, r)' = PendingOf(e, r) \ w
      BY <3>1, RowsKeptViews
    <3>3. ASSUME NEW e \in Docs, NEW r \in BOOLEAN, e # d
          PROVE  PendingOf(e, r) \ w = PendingOf(e, r)
      BY <3>1, <3>3 DEF PendingOf, LogsOf
    <3>4. DOMAIN log' = DOMAIN log
      BY <3>1, Zenon DEF RowsKept
    <3>5. \A i \in DOMAIN log : /\ log'[i].doc = log[i].doc /\ log'[i].reversal = log[i].reversal
                                /\ IsPending(log'[i]) => IsPending(log[i])
      BY <3>1, Zenon DEF RowsKept
    <3>6. QED
      BY <1>1, <3>1, <3>2, <3>3, <3>4, <3>5, Zenon
  <2>3. CASE log' = Append(log, NewLog(d, TRUE))
    <3>1. /\ \A e \in Docs, r \in BOOLEAN : e # d \/ r # TRUE =>
                LogsOf(e, log, r)' = LogsOf(e, log, r) /\ PendingOf(e, r)' = PendingOf(e, r)
          /\ DOMAIN log' = DOMAIN log \cup {Len(log) + 1}
          /\ log'[Len(log) + 1] = NewLog(d, TRUE)
          /\ \A j \in DOMAIN log : log'[j] = log[j]
      BY <1>1, <1>2, <2>3, RowAddedViews, Zenon
    <3>2. NewLog(d, TRUE).reversal /\ NewLog(d, TRUE).status # "Done"
      BY DEF NewLog
    <3>3. LogsOf(d, log, FALSE)' = LogsOf(d, log, FALSE)
      BY <1>1, <3>1
    <3>4. \A i \in DOMAIN log' : i \in DOMAIN log \/ i = Len(log) + 1
      BY <3>1
    <3>5. \A i \in DOMAIN log : i \in DOMAIN log'
      BY <3>1
    <3> HIDE <2>3
    <3>6. QED
      BY <3>1, <3>2, <3>3, <3>4, <3>5, Zenon
  <2>4. UNCHANGED log \/ (\E w : Withdraws(s, d, w)) \/ log' = Append(log, NewLog(d, TRUE))
    BY <1>0, Zenon DEF ReversesInline, QueuesReversal
  <2>5. QED
    BY <2>1, <2>2, <2>3, <2>4, Zenon
<1>6. View(d)'
  <2>1. DocOK(d, doc[d], Live(d), LogsOf(d, log, FALSE), PendingOf(d, FALSE), LogsOf(d, log, TRUE))
    BY <1>2, Zenon DEF View
  <2>2. /\ d \in Cancellable /\ doc'[d].state = "Cancelled" /\ doc'[d].link = doc[d].link
        /\ Live(d)' \subseteq Live(d) /\ LogsOf(d, log, FALSE)' = LogsOf(d, log, FALSE)
    BY <1>1, <1>4, <1>5, Zenon
  <2>3. DocOK(d, doc'[d], Live(d)', LogsOf(d, log, FALSE), PendingOf(d, FALSE)', LogsOf(d, log, TRUE)')
    BY <2>1, <2>2, DocCancelled
  <2>4. DocOK(d, doc'[d], Live(d)', LogsOf(d, log, FALSE)', PendingOf(d, FALSE)', LogsOf(d, log, TRUE)')
    BY <2>2, <2>3, Zenon
  <2>5. QED
    BY <2>4, Zenon DEF View, DocOK
<1>7. LinkOK(d)'
  BY <1>1, <1>2, <1>4, Zenon DEF LinkOK, ErpGrows
<1>8. \A e \in Docs : e # d => Untouched(e)
  BY <1>1, <1>4, <1>5, Zenon DEF Untouched
<1>9. Progress(doc, log, doc', log')
  <2>1. \A e \in Docs : doc[e].posted <= doc[e].posted
    BY <1>2
  <2>2. \A e \in Docs : /\ doc[e].state = "Cancelled" => doc'[e].state = "Cancelled"
                        /\ doc[e].posted <= doc'[e].posted
                        /\ e \in Cancellable /\ doc[e].link # 0 => doc'[e].link = doc[e].link
    BY <1>1, <2>1, Zenon
  <2>3. QED
    BY <1>5, <2>2, Zenon DEF Progress
<1>10. QED
  BY <1>1, <1>3, <1>4, <1>5, <1>6, <1>7, <1>8, <1>9, OneDocument, Zenon

\* What running row i does: it has seen the row as it is, and finds it pending.
RowRuns(s, i) ==
  /\ request[s] # Idle /\ i \in DOMAIN log /\ i \in DOMAIN request[s].seen.log
  /\ log[i] = request[s].seen.log[i] /\ log[i].doc \in Docs /\ IsPending(log[i])

InTurn(i) == \A j \in 1..(i - 1) : log[j].doc = log[i].doc => ~IsPending(log[j])

StaysPending ==
  /\ UNCHANGED <<doc, erp>> /\ RowsKept({})
  /\ \A j \in DOMAIN log : log'[j].status = "Done" => log[j].status = "Done"

IsDone(i) ==
  /\ InTurn(i) /\ RowsKept({i})
  /\ \A j \in DOMAIN log : log'[j].status = "Done" => log[j].status = "Done" \/ j = i

DoesNothing(s, i) == IsDone(i) /\ NothingToDo(s, i) /\ UNCHANGED <<doc, erp>>

IsPosted(s, i) ==
  /\ IsDone(i) /\ ~NothingToDo(s, i) /\ ~log[i].reversal
  /\ FreshDoc(s, log[i].doc) /\ erp' = Submitted(log[i].doc) /\ doc' = Linked(log[i].doc, doc)

IsReversed(s, i) ==
  /\ IsDone(i) /\ ~NothingToDo(s, i) /\ log[i].reversal
  /\ erp' = CancelDoc(request[s].seen.doc[log[i].doc].link) /\ UNCHANGED doc

\* Row i is written with another status.
LEMMA RowWritten ==
  ASSUME TypeOK, NEW i \in DOMAIN log, NEW row \in LogRow, log' = [log EXCEPT ![i] = row],
         row.doc = log[i].doc, row.reversal = log[i].reversal, IsPending(log[i])
  PROVE  /\ IsPending(row) => RowsKept({})
         /\ ~IsPending(row) => RowsKept({i})
         /\ \A j \in DOMAIN log : log'[j].status = "Done" => log[j].status = "Done" \/ (j = i /\ ~IsPending(row))
<1>1. DOMAIN log' = DOMAIN log
  OBVIOUS
<1>2. log'[i] = row /\ \A j \in DOMAIN log : j # i => log'[j] = log[j]
  OBVIOUS
<1>3. row.status = "Done" => ~IsPending(row)
  BY DEF IsPending, PENDING
<1>4. \A j \in DOMAIN log : log'[j].doc = log[j].doc /\ log'[j].reversal = log[j].reversal
  BY <1>2, Zenon
<1>5. IsPending(row) => \A j \in DOMAIN log : IsPending(log'[j]) <=> IsPending(log[j]) /\ j \notin {}
  <2>1. IsPending(row) => \A j \in DOMAIN log : IsPending(log'[j]) <=> IsPending(log[j])
    BY <1>2, Zenon
  <2>2. QED
    BY <2>1, Zenon
<1>6. ~IsPending(row) => \A j \in DOMAIN log : IsPending(log'[j]) <=> IsPending(log[j]) /\ j \notin {i}
  BY <1>2, Zenon
<1>7. QED
  BY <1>1, <1>2, <1>3, <1>4, <1>5, <1>6, Zenon DEF RowsKept

\* The row a run writes.
OutcomeOf(s, i, status) == [LockedRow(s, i) EXCEPT !.status = status, !.attempts = @ + 1]

LEMMA OutcomeRow ==
  ASSUME TypeOK, NEW s, NEW i \in DOMAIN log, NEW status \in PENDING \cup {"Done", "Cancelled"}
  PROVE  /\ LockedRow(s, i) \in LogRow
         /\ LockedRow(s, i).doc = log[i].doc /\ LockedRow(s, i).reversal = log[i].reversal
         /\ OutcomeOf(s, i, status) \in LogRow /\ OutcomeOf(s, i, status).doc = log[i].doc
         /\ OutcomeOf(s, i, status).reversal = log[i].reversal /\ OutcomeOf(s, i, status).status = status
<1>1. log[i] \in LogRow
  BY LogUpdates DEF TypeOK
<1>2. "Failed" \in PENDING \cup {"Done", "Cancelled"}
  BY DEF PENDING
<1>3. /\ LockedRow(s, i) \in LogRow
      /\ LockedRow(s, i).doc = log[i].doc /\ LockedRow(s, i).reversal = log[i].reversal
  BY <1>1, <1>2, LogRowUpdates DEF LockedRow, LogRow
<1> DEFINE locked == LockedRow(s, i)
           row == [locked EXCEPT !.status = status, !.attempts = @ + 1]
<1> HIDE DEF locked
<1>4. locked \in LogRow /\ locked.doc = log[i].doc /\ locked.reversal = log[i].reversal
  BY <1>3 DEF locked
<1>5. row \in LogRow
  BY <1>4, LogRowUpdates
<1>6. row.doc = locked.doc /\ row.reversal = locked.reversal /\ row.status = status
  BY <1>4 DEF LogRow
<1> HIDE DEF row
<1>7. OutcomeOf(s, i, status) = row
  BY DEF OutcomeOf, row, locked
<1>8. QED
  BY <1>4, <1>5, <1>6, <1>7 DEF locked

LEMMA RunFinds ==
  ASSUME SnapshotIsolation, PostingInv, NEW s \in Sessions, NEW i \in DOMAIN log, Run(s, i),
         Runs(LockedRow(s, i))
  PROVE  RowRuns(s, i) /\ SnapOK(request[s].seen, doc, log)
<1>1. TypeOK /\ request[s].kind \in {"run", "retry_now"} /\ request[s].log = i /\ FreshLog(s, i)
  BY Zenon DEF PostingInv, SettledInv, Run
<1>2. request[s] # Idle
  BY <1>1 DEF Idle
<1>3. i \in DOMAIN request[s].seen.log
  BY <1>1, <1>2 DEF TypeOK
<1>4. log[i] = request[s].seen.log[i]
  BY <1>1 DEF FreshLog
<1>5. log[i].doc \in Docs
  BY <1>1, LogUpdates, LogRowUpdates DEF TypeOK
<1>6. IsPending(log[i])
  <2>1. CASE request[s].kind = "retry_now"
    BY <1>1, <1>4, <2>1, Zenon DEF PostingInv, SettledInv, RetryInv
  <2>2. CASE request[s].kind # "retry_now"
    BY <2>2, Zenon DEF LockedRow, Runs
  <2>3. QED
    BY <2>1, <2>2
<1>7. SnapOK(request[s].seen, doc, log)
  BY <1>2 DEF PostingInv, SnapsOK
<1>8. QED
  BY <1>2, <1>3, <1>4, <1>5, <1>6, <1>7 DEF RowRuns

\* A run that does not wait comes after the earlier postings of the document.
LEMMA RunInTurn ==
  ASSUME TypeOK, NEW s \in Sessions, NEW i \in DOMAIN log, RowRuns(s, i),
         SnapOK(request[s].seen, doc, log), ~Waits(s, i)
  PROVE  InTurn(i)
<1> SUFFICES ASSUME NEW j \in 1..(i - 1), log[j].doc = log[i].doc
             PROVE  ~IsPending(log[j])
  BY DEF InTurn
<1>1. request[s].seen.log \in Seq(LogRow) /\ i \in DOMAIN request[s].seen.log
  BY DEF TypeOK, RowRuns
<1>2. j \in DOMAIN request[s].seen.log
  BY <1>1, LogUpdates
<1>3. request[s].seen.log[j].doc = log[j].doc /\ (IsPending(log[j]) => IsPending(request[s].seen.log[j]))
  BY <1>2, Zenon DEF SnapOK
<1>4. QED
  BY <1>3, Zenon DEF Waits

LEMMA RunEffects ==
  ASSUME SnapshotIsolation, PostingInv, NEW s \in Sessions, NEW i \in DOMAIN log, Run(s, i)
  PROVE  \/ UNCHANGED <<doc, log, erp>>
         \/ /\ RowRuns(s, i)
            /\ StaysPending \/ DoesNothing(s, i) \/ IsPosted(s, i) \/ IsReversed(s, i)
<1>1. CASE ~Runs(LockedRow(s, i))
  BY <1>1, Zenon DEF Run
<1>2. CASE Runs(LockedRow(s, i))
  <2>1. TypeOK /\ RowRuns(s, i) /\ SnapOK(request[s].seen, doc, log) /\ IsPending(log[i])
    BY <1>2, RunFinds DEF PostingInv, SettledInv, RowRuns
  <2>2. "Done" \in PENDING \cup {"Done", "Cancelled"} /\ "Failed" \in PENDING \cup {"Done", "Cancelled"}
    BY DEF PENDING
  <2>3. LockedRow(s, i) \in LogRow /\ LockedRow(s, i).doc = log[i].doc /\ LockedRow(s, i).reversal = log[i].reversal
    BY <2>1, <2>2, OutcomeRow
  <2>4. ASSUME Outcome(s, i, "Done"), ~Waits(s, i)
        PROVE  IsDone(i)
    <3> DEFINE row == OutcomeOf(s, i, "Done")
    <3>1. row \in LogRow /\ row.doc = log[i].doc /\ row.reversal = log[i].reversal /\ row.status = "Done"
      BY <2>1, <2>2, OutcomeRow
    <3>2. log' = [log EXCEPT ![i] = row]
      BY <2>4, Zenon DEF Outcome, OutcomeOf
    <3> HIDE DEF row
    <3>3. ~IsPending(row)
      BY <3>1 DEF IsPending, PENDING
    <3>4. RowsKept({i}) /\ \A j \in DOMAIN log : log'[j].status = "Done" => log[j].status = "Done" \/ j = i
      BY <2>1, <3>1, <3>2, <3>3, RowWritten, Zenon
    <3>5. InTurn(i)
      BY <2>1, <2>4, RunInTurn
    <3>6. QED
      BY <3>4, <3>5 DEF IsDone
  <2>5. ASSUME Outcome(s, i, "Failed"), UNCHANGED <<doc, erp>>
        PROVE  StaysPending
    <3> DEFINE row == OutcomeOf(s, i, "Failed")
    <3>1. row \in LogRow /\ row.doc = log[i].doc /\ row.reversal = log[i].reversal /\ row.status = "Failed"
      BY <2>1, <2>2, OutcomeRow
    <3>2. log' = [log EXCEPT ![i] = row]
      BY <2>5, Zenon DEF Outcome, OutcomeOf
    <3> HIDE DEF row
    <3>3. IsPending(row)
      BY <3>1 DEF IsPending, PENDING
    <3>4. RowsKept({}) /\ \A j \in DOMAIN log : log'[j].status = "Done" => log[j].status = "Done"
      BY <2>1, <3>1, <3>2, <3>3, RowWritten, Zenon
    <3>5. QED
      BY <2>5, <3>4 DEF StaysPending
  <2>6. ASSUME log' = [log EXCEPT ![i] = LockedRow(s, i)], UNCHANGED <<doc, erp>>
        PROVE  StaysPending
    <3>1. IsPending(LockedRow(s, i))
      BY <1>2 DEF Runs
    <3>2. RowsKept({}) /\ \A j \in DOMAIN log : log'[j].status = "Done" => log[j].status = "Done"
      BY <2>1, <2>3, <2>6, <3>1, RowWritten, Zenon
    <3>3. QED
      BY <2>6, <3>2 DEF StaysPending
  <2>7. ASSUME Performed(s, i), ~Waits(s, i), ~NothingToDo(s, i)
        PROVE  IsPosted(s, i) \/ IsReversed(s, i)
    <3>1. IsDone(i)
      BY <2>4, <2>7, Zenon DEF Performed
    <3>2. QED
      BY <2>7, <3>1, Zenon DEF Performed, IsPosted, IsReversed
  <2>8. QED
    BY <1>2, <2>1, <2>4, <2>5, <2>6, <2>7, Zenon DEF Run, Refused, DoesNothing
<1>3. QED
  BY <1>1, <1>2

\* What is left of the pending rows when row i is done.
DoneView(i, d) ==
  /\ \A e \in Docs, r \in BOOLEAN : LogsOf(e, log, r)' = LogsOf(e, log, r)
  /\ \A e \in Docs, r \in BOOLEAN : e # d => PendingOf(e, r)' = PendingOf(e, r)
  /\ \A r \in BOOLEAN : r # log[i].reversal => PendingOf(d, r)' = PendingOf(d, r)
  /\ \A r \in BOOLEAN : r = log[i].reversal => /\ PendingOf(d, r)' = PendingOf(d, r) \ {i}
                                               /\ i \in PendingOf(d, r) /\ i \in LogsOf(d, log, r)

LEMMA DoneViews ==
  ASSUME TypeOK, NEW s, NEW i, RowRuns(s, i), IsDone(i), NEW d, d = log[i].doc
  PROVE  DoneView(i, d)
<1>1. \A e \in Docs, r \in BOOLEAN : /\ LogsOf(e, log, r)' = LogsOf(e, log, r)
                                     /\ PendingOf(e, r)' = PendingOf(e, r) \ {i}
  BY RowsKeptViews DEF IsDone
<1>2. \A e \in Docs, r \in BOOLEAN : e # d \/ r # log[i].reversal => i \notin PendingOf(e, r)
  BY DEF PendingOf, LogsOf
<1>3. \A e \in Docs, r \in BOOLEAN : e # d \/ r # log[i].reversal => PendingOf(e, r) \ {i} = PendingOf(e, r)
  BY <1>2
<1>4. \A r \in BOOLEAN : r = log[i].reversal => i \in PendingOf(d, r) /\ i \in LogsOf(d, log, r)
  BY DEF PendingOf, LogsOf, RowRuns
<1>5. d \in Docs
  BY DEF RowRuns
<1>6. QED
  BY <1>1, <1>3, <1>4, <1>5, Zenon DEF DoneView

\* A step that leaves every row where it is, and the documents but d alone.
LEMMA QueueProgress ==
  ASSUME TypeOK, NEW w, RowsKept(w), NEW d \in Docs,
         \A e \in Docs : e # d => doc'[e] = doc[e],
         doc[d].state = "Cancelled" => doc'[d].state = "Cancelled",
         doc'[d].posted = doc[d].posted,
         d \in Cancellable /\ doc[d].link # 0 => doc'[d].link = doc[d].link
  PROVE  Progress(doc, log, doc', log')
<1>1. \A e \in Docs : doc[e].posted <= doc[e].posted
  BY DEF TypeOK, DocRow
<1>2. \A e \in Docs : /\ doc[e].state = "Cancelled" => doc'[e].state = "Cancelled"
                      /\ doc[e].posted <= doc'[e].posted
                      /\ e \in Cancellable /\ doc[e].link # 0 => doc'[e].link = doc[e].link
  BY <1>1, Zenon
<1>3. DOMAIN log' = DOMAIN log
  BY Zenon DEF RowsKept
<1>4. \A i \in DOMAIN log : /\ log'[i].doc = log[i].doc /\ log'[i].reversal = log[i].reversal
                            /\ IsPending(log'[i]) => IsPending(log[i])
  BY Zenon DEF RowsKept
<1>5. QED
  BY <1>2, <1>3, <1>4, Zenon DEF Progress

LEMMA PostingStaysPending ==
  ASSUME PostingInv, SettledInv', StaysPending,
         \A s \in Sessions : request'[s] = request[s] \/ request'[s] = Idle
  PROVE  PostingInv'
<1>1. TypeOK /\ TypeOK' /\ SnapsOK /\ PostedInOrder
  BY Zenon DEF PostingInv, SettledInv
<1>2. ASSUME NEW d \in Docs
      PROVE  View(d)' /\ LinkOK(d)' /\ Untouched(d)
  <2>1. \A r \in BOOLEAN : LogsOf(d, log, r)' = LogsOf(d, log, r) /\ PendingOf(d, r)' = PendingOf(d, r)
    BY RowsKeptViews DEF StaysPending
  <2>2. doc' = doc /\ erp' = erp /\ Live(d)' = Live(d)
    BY DEF Live, StaysPending
  <2>3. Untouched(d)
    BY <2>1, <2>2, Zenon DEF Untouched
  <2>4. View(d)'
    BY <2>3, ViewKept DEF PostingInv
  <2>5. LinkOK(d)'
    BY <2>2, Zenon DEF PostingInv, LinkOK
  <2>6. QED
    BY <2>3, <2>4, <2>5
<1>3. Progress(doc, log, doc', log')
  <2>1. \A e \in Docs : doc[e].posted <= doc[e].posted
    BY <1>1 DEF TypeOK, DocRow
  <2>2. DOMAIN log' = DOMAIN log /\ doc' = doc
    BY Zenon DEF RowsKept, StaysPending
  <2>3. \A i \in DOMAIN log : /\ log'[i].doc = log[i].doc /\ log'[i].reversal = log[i].reversal
                              /\ IsPending(log'[i]) => IsPending(log[i])
    BY Zenon DEF RowsKept, StaysPending
  <2>4. QED
    BY <2>1, <2>2, <2>3, Zenon DEF Progress
<1>4. \A i \in DOMAIN log' : log'[i].status = "Done" => i \in DOMAIN log /\ log[i].status = "Done"
  BY Zenon DEF StaysPending, RowsKept
<1>5. SnapsOK'
  BY <1>1, <1>3, SnapsKept
<1>6. PostedInOrder'
  BY <1>1, <1>3, <1>4, InOrderKept
<1>7. QED
  BY <1>2, <1>5, <1>6, Zenon DEF PostingInv

LEMMA PostingRun ==
  ASSUME SnapshotIsolation, PostingInv, SettledInv', NEW s \in Sessions, NEW i \in DOMAIN log, Run(s, i)
  PROVE  PostingInv'
<1>0. TypeOK /\ doc \in [Docs -> DocRow]
  BY DEF PostingInv, SettledInv, TypeOK
<1>1. \A r \in Sessions : request'[r] = request[r] \/ request'[r] = Idle
  BY <1>0 DEF Run, Ends, TypeOK
<1>2. CASE UNCHANGED <<doc, log, erp>>
  BY <1>1, <1>2, PostingRequests
<1>3. CASE StaysPending
  BY <1>1, <1>3, PostingStaysPending
<1>4. ASSUME RowRuns(s, i), DoesNothing(s, i) \/ IsPosted(s, i) \/ IsReversed(s, i)
      PROVE  PostingInv'
  <2>0. PICK d \in Docs : d = log[i].doc
    BY <1>4 DEF RowRuns
  <2> DEFINE seen == request[s].seen
  <2>1. /\ View(d) /\ LinkOK(d) /\ doc[d] \in DocRow /\ SnapOK(seen, doc, log) /\ seen.doc[d] \in DocRow
    BY <1>0, <1>4, <2>0 DEF PostingInv, SnapsOK, RowRuns, TypeOK
  <2>2. IsDone(i)
    BY <1>4 DEF DoesNothing, IsPosted, IsReversed
  <2>3. /\ \A e \in Docs, r \in BOOLEAN : LogsOf(e, log, r)' = LogsOf(e, log, r)
        /\ \A e \in Docs, r \in BOOLEAN : e # d => PendingOf(e, r)' = PendingOf(e, r)
        /\ \A r \in BOOLEAN : r # log[i].reversal => PendingOf(d, r)' = PendingOf(d, r)
        /\ \A r \in BOOLEAN : r = log[i].reversal => /\ PendingOf(d, r)' = PendingOf(d, r) \ {i}
                                                     /\ i \in PendingOf(d, r) /\ i \in LogsOf(d, log, r)
    <3>1. DoneView(i, d)
      BY <1>0, <1>4, <2>0, <2>2, DoneViews
    <3>2. QED
      BY <3>1, Zenon DEF DoneView
  <2>4. /\ IsFiniteSet(Live(d)) /\ 0 \notin Live(d) /\ IsFiniteSet(PendingOf(d, FALSE))
        /\ PendingOf(d, FALSE) \subseteq LogsOf(d, log, FALSE) /\ Len(erp) \in Nat
    BY <1>0, FiniteViews
  <2>5. /\ i \in DOMAIN seen.log /\ seen.log[i] = log[i] /\ log[i].reversal \in BOOLEAN
    BY <1>0, <1>4, LogUpdates, LogRowUpdates DEF RowRuns, TypeOK
  <2>6. /\ seen.doc[d].state # "Draft"
        /\ log[i].reversal => seen.doc[d].state = "Cancelled"
        /\ seen.doc[d].state = "Cancelled" => doc[d].state = "Cancelled"
        /\ d \in Cancellable /\ seen.doc[d].link # 0 => doc[d].link = seen.doc[d].link
    BY <2>0, <2>1, <2>5, Zenon DEF SnapOK
  <2>7. /\ InTurn(i) /\ RowsKept({i})
        /\ \A j \in DOMAIN log : log'[j].status = "Done" => log[j].status = "Done" \/ j = i
    BY <2>2 DEF IsDone
  <2>8. \A j \in DOMAIN log' : log'[j].status = "Done" =>
            /\ j \in DOMAIN log
            /\ log[j].status = "Done" \/ (\A k \in 1..(j - 1) : log[k].doc = log[j].doc => ~IsPending(log[k]))
    BY <2>7, Zenon DEF InTurn, RowsKept
  <2> HIDE DEF seen
  <2>9. ASSUME View(d)', LinkOK(d)', ErpGrows,
               \A e \in Docs : e # d => doc'[e] = doc[e] /\ Live(e)' = Live(e),
               doc[d].state = "Cancelled" => doc'[d].state = "Cancelled",
               doc'[d].posted = doc[d].posted,
               d \in Cancellable /\ doc[d].link # 0 => doc'[d].link = doc[d].link
        PROVE  PostingInv'
    <3>1. \A e \in Docs : e # d => Untouched(e)
      BY <2>3, <2>9, Zenon DEF Untouched
    <3>2. Progress(doc, log, doc', log')
      BY <1>0, <2>7, <2>9, QueueProgress
    <3>3. QED
      BY <1>1, <2>8, <2>9, <3>1, <3>2, OneDocument
  <2>10. ASSUME DocOK(d, doc'[d], Live(d)', LogsOf(d, log, FALSE)', PendingOf(d, FALSE)', LogsOf(d, log, TRUE)')
         PROVE  View(d)'
    BY <2>10, Zenon DEF View, DocOK
  <2>11. CASE UNCHANGED <<doc, erp>>
    <3>1. /\ doc' = doc /\ erp' = erp /\ ErpGrows
          /\ \A e \in Docs : Live(e)' = Live(e)
      BY <2>11 DEF Live, ErpGrows
    <3>2. LinkOK(d)'
      BY <2>1, <3>1, Zenon DEF LinkOK
    <3>3. CASE log[i].reversal
      <4>1. PendingOf(d, FALSE)' = PendingOf(d, FALSE)
        BY <2>3, <3>3
      <4>2. View(d)'
        BY <2>1, <2>3, <2>10, <3>1, <4>1, Zenon DEF View
      <4>3. QED
        BY <2>9, <3>1, <3>2, <4>2, Zenon
    <3>4. CASE ~log[i].reversal
      <4>1. PendingOf(d, FALSE)' = PendingOf(d, FALSE) \ {i} /\ i \in PendingOf(d, FALSE) /\ i \in LogsOf(d, log, FALSE)
        BY <2>3, <2>5, <3>4
      <4>2. NothingToDo(s, i) \/ erp' # erp
        BY <1>4, <2>4, <3>4, <2>11 DEF DoesNothing, IsReversed, IsPosted, Submitted
      <4>3. Skips(d, seen.doc[d])
        BY <2>0, <3>1, <3>4, <4>2 DEF NothingToDo, seen
      <4>4. d \in Cancellable /\ (doc[d].state = "Cancelled" \/ doc[d].link # 0)
        <5>1. seen.doc[d].state \in {"Draft", "Posted", "Cancelled"}
          BY <2>1, DocRowUpdates
        <5>2. QED
          BY <2>6, <4>3, <5>1 DEF Skips, Cancellable
      <4>5. DocOK(d, doc[d], Live(d), LogsOf(d, log, FALSE), PendingOf(d, FALSE) \ {i}, LogsOf(d, log, TRUE))
        BY <2>1, <2>4, <4>1, <4>4, DocSkipped DEF View
      <4>6. View(d)'
        BY <2>3, <2>10, <3>1, <4>1, <4>5, Zenon
      <4>7. QED
        BY <2>9, <3>1, <3>2, <4>6, Zenon
    <3>5. QED
      BY <3>3, <3>4
  <2>12. CASE IsPosted(s, i)
    <3> DEFINE n == Len(erp) + 1
    <3>1. /\ ~NothingToDo(s, i) /\ ~log[i].reversal /\ FreshDoc(s, d)
          /\ erp' = Submitted(d) /\ doc' = Linked(d, doc)
      BY <2>0, <2>12 DEF IsPosted
    <3>2. /\ Live(d)' = Live(d) \cup {n} /\ n \notin Live(d)
          /\ n \in DOMAIN erp' /\ erp'[n].doc = d
          /\ \A e \in Docs : e # d => Live(e)' = Live(e)
          /\ ErpGrows
      BY <1>0, <3>1, LiveSubmitted
    <3>3. doc'[d] = [doc[d] EXCEPT !.link = n] /\ \A e \in Docs : e # d => doc'[e] = doc[e]
      BY <1>0, <3>1 DEF Linked
    <3>4. doc'[d].state = doc[d].state /\ doc'[d].posted = doc[d].posted /\ doc'[d].link = n
      BY <2>1, <3>3 DEF DocRow
    <3>5. n \in Nat
      BY <2>4
    <3> HIDE DEF n
    <3>6. seen.doc[d] = doc[d]
      BY <3>1 DEF FreshDoc, seen
    <3>7. ~Skips(d, seen.doc[d])
      BY <2>0, <3>1 DEF NothingToDo, seen
    <3>8. d \in Cancellable => doc[d].link = 0
      BY <3>6, <3>7 DEF Skips, Cancellable
    <3>9. PendingOf(d, FALSE)' = PendingOf(d, FALSE) \ {i} /\ i \in PendingOf(d, FALSE) /\ i \in LogsOf(d, log, FALSE)
      BY <2>3, <2>5, <3>1
    <3>10. DocOK(d, doc'[d], Live(d) \cup {n}, LogsOf(d, log, FALSE), PendingOf(d, FALSE) \ {i}, LogsOf(d, log, TRUE))
      <4> DEFINE live == Live(d)
                 logs == LogsOf(d, log, FALSE)
                 pend == PendingOf(d, FALSE)
                 revs == LogsOf(d, log, TRUE)
                 row == doc[d]
      <4>1. DocOK(d, row, live, logs, pend, revs)
        BY <2>1, Zenon DEF View
      <4>2. row \in DocRow /\ IsFiniteSet(live) /\ IsFiniteSet(pend) /\ 0 \notin live /\ n \notin live
        BY <2>1, <2>4, <3>2
      <4>3. i \in pend /\ i \in logs /\ (d \in Cancellable => row.link = 0)
        BY <3>8, <3>9
      <4>4. doc'[d] = [row EXCEPT !.link = n]
        BY <3>3
      <4> HIDE DEF live, logs, pend, revs, row
      <4>5. DocOK(d, [row EXCEPT !.link = n], live \cup {n}, logs, pend \ {i}, revs)
        BY <3>5, <4>1, <4>2, <4>3, DocDone
      <4>6. QED
        BY <4>4, <4>5, Zenon DEF live, logs, pend, revs
    <3>11. View(d)'
      BY <2>3, <2>10, <3>2, <3>9, <3>10, Zenon
    <3>12. LinkOK(d)'
      BY <3>2, <3>4 DEF LinkOK
    <3>13. QED
      BY <2>9, <3>2, <3>3, <3>4, <3>8, <3>11, <3>12, Zenon
  <2>13. CASE IsReversed(s, i)
    <3>1. /\ ~NothingToDo(s, i) /\ log[i].reversal /\ doc' = doc
          /\ erp' = CancelDoc(seen.doc[d].link)
      BY <2>0, <2>13 DEF IsReversed, seen
    <3>2. doc[d].state = "Cancelled" /\ d \in Cancellable
      BY <2>1, <2>6, <3>1 DEF View, DocOK
    <3>3. seen.doc[d].link \in Nat /\ (seen.doc[d].link # 0 => doc[d].link = seen.doc[d].link)
      BY <2>1, <2>6, <3>2, DocRowUpdates
    <3>4. /\ Live(d)' = Live(d) \ {seen.doc[d].link} /\ ErpGrows
          /\ \A e \in Docs : e # d => Live(e)' = Live(e)
      BY <1>0, <2>1, <3>1, <3>3, LiveCancelled DEF LinkOK
    <3>5. DocOK(d, doc'[d], Live(d)', LogsOf(d, log, FALSE), PendingOf(d, FALSE)', LogsOf(d, log, TRUE))
      <4>1. /\ DocOK(d, doc[d], Live(d), LogsOf(d, log, FALSE), PendingOf(d, FALSE), LogsOf(d, log, TRUE))
            /\ Live(d)' \subseteq Live(d)
            /\ doc'[d].state = "Cancelled" /\ doc'[d].link = doc[d].link
        BY <2>1, <3>1, <3>2, <3>4 DEF View
      <4>2. QED
        BY <3>2, <4>1, DocCancelled
    <3>6. View(d)'
      BY <2>3, <2>10, <3>5, Zenon
    <3>7. LinkOK(d)'
      BY <2>1, <3>1, <3>4, Zenon DEF LinkOK, ErpGrows
    <3>8. QED
      BY <2>9, <3>1, <3>4, <3>6, <3>7, Zenon
  <2>14. QED
    BY <1>4, <2>11, <2>12, <2>13, Zenon DEF DoesNothing
<1>5. QED
  BY <1>2, <1>3, <1>4, RunEffects, Zenon

\* A request that begins, with what it has seen.
LEMMA RequestsBegin ==
  ASSUME TypeOK, NEW s \in Sessions, NEW call, BeginRequest(s, call), call.seen = Seen
  PROVE  /\ UNCHANGED <<mode, doc, log, erp>>
         /\ \A r \in Sessions : request'[r] = request[r] \/ request'[r].seen = Seen
<1>1. request' = [request EXCEPT ![s] = call] /\ DOMAIN request = Sessions
  BY DEF BeginRequest, TypeOK
<1>2. \A r \in Sessions : request'[r] = IF r = s THEN call ELSE request[r]
  BY <1>1
<1>3. QED
  BY <1>2, Zenon DEF BeginRequest

\* The steps that only begin or end a request, or switch the mode.
LEMMA RequestSteps ==
  ASSUME TypeOK, [Next]_vars
  PROVE  \/ \E d \in Docs : Post(d)
         \/ \E s \in Sessions : Cancel(s)
         \/ \E s \in Sessions : \E i \in DOMAIN log : Run(s, i)
         \/ /\ UNCHANGED <<doc, log, erp>>
            /\ \A r \in Sessions : \/ request'[r] = request[r] \/ request'[r] = Idle
                                   \/ request'[r].seen = Seen /\ UNCHANGED mode
<1>1. ASSUME NEW s \in Sessions, Lost(s)
      PROVE  /\ UNCHANGED <<doc, log, erp>>
             /\ \A r \in Sessions : request'[r] = request[r] \/ request'[r] = Idle
  BY <1>1 DEF Lost, Ends, TypeOK
<1>2. ASSUME NEW s \in Workers, NEW i \in DOMAIN log, BeginRun(s, i)
      PROVE  /\ UNCHANGED <<mode, doc, log, erp>>
             /\ \A r \in Sessions : request'[r] = request[r] \/ request'[r].seen = Seen
  <2> DEFINE call == [kind |-> "run", log |-> i, seen |-> Seen]
  <2>1. call.seen = Seen /\ s \in Sessions /\ BeginRequest(s, call)
    BY <1>2 DEF BeginRun, Sessions
  <2> HIDE DEF call
  <2>2. QED
    BY <2>1, RequestsBegin
<1>3. ASSUME NEW s \in Clerks, NEW d \in Docs, BeginCancel(s, d)
      PROVE  /\ UNCHANGED <<mode, doc, log, erp>>
             /\ \A r \in Sessions : request'[r] = request[r] \/ request'[r].seen = Seen
  <2> DEFINE call == [kind |-> "cancel", doc |-> d, seen |-> Seen]
  <2>1. call.seen = Seen /\ s \in Sessions /\ BeginRequest(s, call)
    BY <1>3 DEF BeginCancel, Sessions
  <2> HIDE DEF call
  <2>2. QED
    BY <2>1, RequestsBegin
<1>4. ASSUME NEW s \in Clerks, NEW i \in DOMAIN log, BeginRetryNow(s, i)
      PROVE  /\ UNCHANGED <<mode, doc, log, erp>>
             /\ \A r \in Sessions : request'[r] = request[r] \/ request'[r].seen = Seen
  <2> DEFINE call == [kind |-> "retry_now", log |-> i, seen |-> Seen]
  <2>1. call.seen = Seen /\ s \in Sessions /\ BeginRequest(s, call)
    BY <1>4 DEF BeginRetryNow, Sessions
  <2> HIDE DEF call
  <2>2. QED
    BY <2>1, RequestsBegin
<1>5. ASSUME SwitchMode \/ UNCHANGED vars
      PROVE  UNCHANGED <<doc, log, erp>> /\ UNCHANGED request
  BY <1>5 DEF SwitchMode, vars
<1>6. \A s \in Clerks : s \in Sessions
  BY DEF Sessions
<1>7. QED
  BY <1>1, <1>2, <1>3, <1>4, <1>5, <1>6, Zenon DEF Next, RunQueue, Attend

LEMMA PostingStep ==
  ASSUME SnapshotIsolation
  PROVE  PostingInv /\ [Next]_vars => PostingInv'
<1> SUFFICES ASSUME PostingInv, [Next]_vars
             PROVE  PostingInv'
  OBVIOUS
<1>1. SettledInv' /\ TypeOK
  BY SettledStep DEF PostingInv, SettledInv
<1>2. QED
  BY <1>1, RequestSteps, PostingPost, PostingCancel, PostingRun, PostingRequests, Zenon

\* What the invariant says of the postings of every document.
LEMMA PostingImplies == PostingInv => PostedOnceInOrder
<1> SUFFICES ASSUME PostingInv
             PROVE  PostedOnceInOrder
  OBVIOUS
<1>1. PostedOnce
  BY Zenon DEF PostingInv, View, DocOK, PostedOnce
<1>2. TraceKept
  BY DEF PostingInv, View, DocOK, TraceKept, Cancellable, Docs
<1>3. QED
  BY <1>1, <1>2, Zenon DEF PostingInv, SettledInv, PostedOnceInOrder

\* Where the database refuses updates of rows changed since the snapshot, every
\* posting is in ERPNext once or still in the queue, in order and traceable,
\* whatever is lost, retried, run twice or switched between the modes.
THEOREM PostingsReachErp ==
  ASSUME SnapshotIsolation
  PROVE  Spec => []PostedOnceInOrder
BY PostingInit, PostingStep, PostingImplies, PTL DEF Spec

-----------------------------------------------------------------------------
(* Cancelled documents.  A reversal that is dispatched inline does not look *)
(* at the queue, so a warehouse that has adjustments must not change to    *)
(* Synchronous while one of them waits there.                              *)

OneMode ==
  \/ Adjustments = {}
  \/ mode = QUEUED /\ \A s \in Sessions : request[s] # Idle => request[s].seen.mode = QUEUED

SeenLink(d) ==
  \A s \in Sessions : request[s] # Idle /\ request[s].seen.doc[d].state = "Cancelled" =>
    request[s].seen.doc[d].link = doc[d].link

CancelOK(d) ==
  doc[d].state = "Cancelled" =>
    /\ Cardinality(Live(d)) = Cardinality(PendingOf(d, TRUE))
    /\ d \in Adjustments => PendingOf(d, FALSE) = {}
    /\ SeenLink(d)

ReversalInv == PostingInv /\ OneMode /\ \A d \in Docs : CancelOK(d)

LEMMA ReversalInit == Init => ReversalInv
<1> SUFFICES ASSUME Init
             PROVE  ReversalInv
  OBVIOUS
<1>1. OneMode
  BY DEF Init, OneMode
<1>2. \A d \in Docs : doc[d].state = "Draft"
  BY DEF Init
<1>3. \A d \in Docs : CancelOK(d)
  BY <1>2 DEF CancelOK
<1>4. QED
  BY <1>1, <1>3, PostingInit DEF ReversalInv

\* Nothing happens to a cancelled document but that requests begin and end.
LEMMA CancelKept ==
  ASSUME TypeOK, NEW d \in Docs, CancelOK(d), Untouched(d),
         \A r \in Sessions : \/ request'[r] = request[r] \/ request'[r] = Idle
                             \/ request'[r].seen = Seen
  PROVE  CancelOK(d)'
<1>1. /\ doc'[d] = doc[d] /\ Live(d)' = Live(d)
      /\ PendingOf(d, TRUE)' = PendingOf(d, TRUE) /\ PendingOf(d, FALSE)' = PendingOf(d, FALSE)
  BY Zenon DEF Untouched
<1>2. SeenLink(d) => SeenLink(d)'
  <2>1. Seen.doc[d].link = doc[d].link
    BY DEF Seen
  <2>2. QED
    BY <1>1, <2>1, Zenon DEF SeenLink
<1>3. QED
  BY <1>1, <1>2, Zenon DEF CancelOK

AtMost(live, link) == live \subseteq {link}

\* A reversal that is left to run has one document to cancel...
LEMMA ReversalCounts ==
  ASSUME NEW live, NEW pend, NEW link, IsFiniteSet(live), IsFiniteSet(pend), AtMost(live, link),
         Cardinality(live) = Cardinality(pend), NEW i \in pend
  PROVE  live = {link} /\ Cardinality(live \ {link}) = Cardinality(pend \ {i})
<1>1. Cardinality(live) \in Nat /\ Cardinality(pend) \in Nat /\ Cardinality({}) = 0 /\ Cardinality({link}) = 1
  BY FS_CardinalityType, FS_EmptySet, FS_Singleton
<1>2. Cardinality(pend) # 0
  BY FS_EmptySet
<1>3. live = {link}
  <2>1. live # {}
    BY <1>1, <1>2
  <2>2. QED
    BY <2>1 DEF AtMost
<1>4. Cardinality(pend \ {i}) = Cardinality(pend) - 1
  BY FS_RemoveElement
<1>5. live \ {link} = {}
  BY <1>3
<1>6. Cardinality(live) = 1 /\ Cardinality(live \ {link}) = 0
  BY <1>1, <1>3, <1>5, Zenon
<1>7. QED
  BY <1>3, <1>4, <1>6

\* ... and a document that was posted once is in ERPNext or in the queue.
LEMMA PostedCounts ==
  ASSUME NEW live, NEW pend, IsFiniteSet(live), IsFiniteSet(pend),
         Cardinality(live) + Cardinality(pend) = 1
  PROVE  /\ pend = {} => Cardinality(live) = 1
         /\ pend # {} => live = {} /\ \E i : pend = {i}
<1>1. Cardinality(live) \in Nat /\ Cardinality(pend) \in Nat /\ Cardinality({}) = 0
  BY FS_CardinalityType, FS_EmptySet
<1>2. pend = {} => Cardinality(live) = 1
  BY <1>1
<1>3. ASSUME pend # {}
      PROVE  live = {} /\ \E i : pend = {i}
  <2>1. Cardinality(pend) # 0
    BY <1>3, FS_EmptySet
  <2>2. Cardinality(pend) = 1 /\ Cardinality(live) = 0
    BY <1>1, <2>1
  <2>3. live = {}
    BY <2>2, FS_EmptySet
  <2>4. PICK i : i \in pend
    BY <1>3
  <2>5. Cardinality(pend \ {i}) = Cardinality(pend) - 1 /\ IsFiniteSet(pend \ {i})
    BY <2>4, FS_RemoveElement
  <2>6. pend \ {i} = {}
    BY <2>2, <2>5, FS_EmptySet
  <2>7. pend = {i}
    BY <2>4, <2>6
  <2>8. QED
    BY <2>3, <2>7
<1>4. QED
  BY <1>2, <1>3

LEMMA ReversalCancel ==
  ASSUME SnapshotIsolation, ReversalInv, NEW s \in Sessions, Cancel(s), NEW e \in Docs
  PROVE  CancelOK(e)'
<1>0. PICK d : /\ CancelsDoc(s, d)
               /\ ReversesInline(s, d) \/ (\E w : Withdraws(s, d, w)) \/ QueuesReversal(s, d)
  BY CancelEffects, Zenon DEF ReversalInv
<1>1. TypeOK /\ d \in Docs /\ View(d) /\ View(e) /\ LinkOK(d) /\ CancelOK(e) /\ doc[d] \in DocRow
  BY <1>0 DEF ReversalInv, PostingInv, SettledInv, TypeOK, CancelsDoc
<1>2. \A r \in Sessions : request'[r] = request[r] \/ request'[r] = Idle
  BY <1>1 DEF Cancel, Ends, TypeOK
<1>3. /\ doc[d].state = "Posted" /\ doc[d].posted = 1 /\ LogsOf(d, log, TRUE) = {} /\ d \in Cancellable
      /\ Cardinality(Live(d)) + Cardinality(PendingOf(d, FALSE)) = 1 /\ Live(d) \subseteq {doc[d].link}
  <2>1. doc[d].state = "Posted" /\ d \in Cancellable
    BY <1>0, Zenon DEF CancelsDoc
  <2>2. PostingsOf(d) = 1
    BY <2>1 DEF PostingsOf, Cancellable
  <2>3. /\ doc[d].posted \in 1..PostingsOf(d) /\ LogsOf(d, log, TRUE) = {}
        /\ Cardinality(Live(d)) + Cardinality(PendingOf(d, FALSE)) = doc[d].posted
        /\ Live(d) \subseteq {doc[d].link}
    BY <1>1, <2>1, Zenon DEF View, DocOK
  <2>4. doc[d].posted = 1
    BY <2>2, <2>3
  <2>5. QED
    BY <2>1, <2>3, <2>4, Zenon
<1>4. /\ IsFiniteSet(Live(d)) /\ IsFiniteSet(PendingOf(d, FALSE)) /\ PendingOf(d, TRUE) \subseteq LogsOf(d, log, TRUE)
  BY <1>1, FiniteViews
<1>5. PendingOf(d, TRUE) = {} /\ Cardinality({}) = 0
  BY <1>3, <1>4, FS_EmptySet
<1>6. SeenLink(d)'
  <2> SUFFICES ASSUME NEW r \in Sessions, request'[r] # Idle
               PROVE  request'[r].seen.doc[d].state # "Cancelled"
    BY Zenon DEF SeenLink
  <2>1. request'[r] = request[r] /\ SnapOK(request[r].seen, doc, log)
    BY <1>2, Zenon DEF ReversalInv, PostingInv, SnapsOK
  <2>2. request[r].seen.doc[d].state = "Cancelled" => doc[d].state = "Cancelled"
    BY <1>1, <2>1, Zenon DEF SnapOK
  <2>3. QED
    BY <1>3, <2>1, <2>2
<1>7. CASE ReversesInline(s, d)
  <2>1. erp' = CancelDoc(doc[d].link) /\ log' = log /\ request[s].seen.mode = Synchronous /\ doc[d].link \in Nat
    BY <1>1, <1>7, DocRowUpdates DEF ReversesInline
  <2>2. Adjustments = {}
    BY <1>0, <2>1 DEF ReversalInv, OneMode, CancelsDoc, Synchronous, QUEUED
  <2>3. /\ Live(d)' = Live(d) \ {doc[d].link}
        /\ \A f \in Docs : f # d => Live(f)' = Live(f)
    BY <1>1, <2>1, LiveCancelled DEF LinkOK
  <2>4. \A f \in Docs, r \in BOOLEAN : LogsOf(f, log, r)' = LogsOf(f, log, r) /\ PendingOf(f, r)' = PendingOf(f, r)
    BY <2>1 DEF LogsOf, PendingOf, IsPending
  <2>5. CASE e = d
    <3>1. Live(d)' = {} /\ PendingOf(d, TRUE)' = {}
      <4>1. Live(d) \ {doc[d].link} = {}
        BY <1>3
      <4>2. QED
        BY <1>1, <1>5, <2>3, <2>4, <4>1, Zenon
    <3>2. QED
      BY <1>6, <2>2, <2>5, <3>1 DEF CancelOK
  <2>6. CASE e # d
    <3>1. Untouched(e)
      BY <1>0, <2>3, <2>4, <2>6, Zenon DEF Untouched, CancelsDoc
    <3>2. QED
      BY <1>1, <1>2, <3>1, CancelKept
  <2>7. QED
    BY <2>5, <2>6
<1>8. ASSUME NEW w, Withdraws(s, d, w)
      PROVE  CancelOK(e)'
  <2>1. w # {} /\ w \subseteq PendingOf(d, FALSE) /\ RowsKept(w) /\ erp' = erp
    BY <1>8 DEF Withdraws
  <2>2. \A f \in Docs, r \in BOOLEAN : LogsOf(f, log, r)' = LogsOf(f, log, r) /\ PendingOf(f, r)' = PendingOf(f, r) \ w
    BY <2>1, RowsKeptViews
  <2>3. \A f \in Docs : Live(f)' = Live(f)
    BY <2>1 DEF Live
  <2>4. CASE e = d
    <3>1. Live(d) = {} /\ PendingOf(d, FALSE) \ w = {}
      <4> DEFINE live == Live(d)
                 pend == PendingOf(d, FALSE)
                 link == doc[d].link
      <4>1. /\ IsFiniteSet(live) /\ IsFiniteSet(pend) /\ live \subseteq {link}
            /\ Cardinality(live) + Cardinality(pend) = 1 /\ w \in SUBSET pend /\ w # {}
        BY <1>3, <1>4, <2>1
      <4> HIDE DEF live, pend, link
      <4>2. live = {} /\ \E i : pend = {i}
        BY <4>1, PostedCounts
      <4>3. live = {} /\ pend \ w = {}
        BY <4>1, <4>2
      <4>4. QED
        BY <4>3 DEF live, pend
    <3>2. Live(d)' = {} /\ PendingOf(d, TRUE)' = {} /\ PendingOf(d, FALSE)' = {}
      BY <1>1, <1>5, <2>2, <2>3, <3>1
    <3>3. QED
      BY <1>6, <2>4, <3>2 DEF CancelOK
  <2>5. CASE e # d
    <3>1. \A r \in BOOLEAN : PendingOf(e, r) \ w = PendingOf(e, r)
      BY <2>1, <2>5 DEF PendingOf, LogsOf
    <3>2. Untouched(e)
      BY <1>0, <2>2, <2>3, <2>5, <3>1, Zenon DEF Untouched, CancelsDoc
    <3>3. QED
      BY <1>1, <1>2, <3>2, CancelKept
  <2>6. QED
    BY <2>4, <2>5
<1>9. CASE QueuesReversal(s, d)
  <2>1. /\ Withdrawn(d, request[s].seen.log) = {} /\ log' = Append(log, NewLog(d, TRUE)) /\ erp' = erp
    BY <1>9 DEF QueuesReversal
  <2>2. /\ \A f \in Docs, r \in BOOLEAN : f # d \/ r # TRUE =>
               LogsOf(f, log, r)' = LogsOf(f, log, r) /\ PendingOf(f, r)' = PendingOf(f, r)
        /\ PendingOf(d, TRUE)' = PendingOf(d, TRUE) \cup {Len(log) + 1}
    BY <1>1, <2>1, RowAddedViews
  <2>3. \A f \in Docs : Live(f)' = Live(f)
    BY <2>1 DEF Live
  <2>4. PendingOf(d, FALSE) = {}
    <3> SUFFICES ASSUME NEW i \in PendingOf(d, FALSE)
                 PROVE  FALSE
      OBVIOUS
    <3> DEFINE seen == request[s].seen
    <3>1. SnapOK(seen, doc, log) /\ seen.doc[d] = doc[d]
      BY <1>0 DEF CancelsDoc, ReversalInv, PostingInv, SnapsOK
    <3>2. i \in DOMAIN log /\ log[i].doc = d /\ log[i].reversal = FALSE /\ IsPending(log[i])
      BY DEF PendingOf, LogsOf
    <3>3. CASE i \in DOMAIN seen.log
      <4>1. seen.log[i].doc = d /\ seen.log[i].reversal = FALSE /\ IsPending(seen.log[i])
        BY <3>1, <3>2, <3>3, Zenon DEF SnapOK
      <4>2. QED
        BY <2>1, <3>3, <4>1 DEF Withdrawn, LogsOf
    <3>4. CASE i \notin DOMAIN seen.log
      <4>1. seen.doc[d].posted < doc[d].posted
        BY <3>1, <3>2, <3>4, Zenon DEF SnapOK
      <4>2. QED
        BY <1>3, <3>1, <4>1
    <3>5. QED
      BY <3>3, <3>4
  <2>5. CASE e = d
    <3>1. Cardinality(Live(d)) = 1
      <4> DEFINE live == Live(d)
                 pend == PendingOf(d, FALSE)
                 link == doc[d].link
      <4>1. /\ IsFiniteSet(live) /\ IsFiniteSet(pend) /\ live \subseteq {link}
            /\ Cardinality(live) + Cardinality(pend) = 1 /\ pend = {}
        BY <1>3, <1>4, <2>4
      <4> HIDE DEF live, pend, link
      <4>2. Cardinality(live) = 1
        BY <4>1, PostedCounts
      <4>3. QED
        BY <4>2 DEF live
    <3>2. Cardinality(PendingOf(d, TRUE)') = 1
      <4>1. PendingOf(d, TRUE)' = {Len(log) + 1}
        BY <1>5, <2>2
      <4>2. Cardinality({Len(log) + 1}) = 1
        BY FS_Singleton
      <4>3. QED
        BY <4>1, <4>2, Zenon
    <3>3. Live(d)' = Live(d) /\ PendingOf(d, FALSE)' = {}
      BY <1>1, <2>2, <2>3, <2>4
    <3>4. QED
      BY <1>6, <2>5, <3>1, <3>2, <3>3 DEF CancelOK
  <2>6. CASE e # d
    <3>1. Untouched(e)
      BY <1>0, <2>2, <2>3, <2>6, Zenon DEF Untouched, CancelsDoc
    <3>2. QED
      BY <1>1, <1>2, <3>1, CancelKept
  <2>7. QED
    BY <2>5, <2>6
<1>10. QED
  BY <1>0, <1>7, <1>8, <1>9, Zenon

LEMMA ReversalRun ==
  ASSUME SnapshotIsolation, ReversalInv, NEW s \in Sessions, NEW i \in DOMAIN log, Run(s, i),
         RowRuns(s, i), DoesNothing(s, i) \/ IsPosted(s, i) \/ IsReversed(s, i), NEW e \in Docs
  PROVE  CancelOK(e)'
<1>0. PICK d \in Docs : d = log[i].doc
  BY DEF RowRuns
<1> DEFINE seen == request[s].seen
<1>1. /\ TypeOK /\ View(d) /\ LinkOK(d) /\ CancelOK(d) /\ CancelOK(e)
      /\ doc \in [Docs -> DocRow] /\ doc[d] \in DocRow
  BY DEF ReversalInv, PostingInv, SettledInv, TypeOK
<1>2. \A r \in Sessions : request'[r] = request[r] \/ request'[r] = Idle
  BY <1>1 DEF Run, Ends, TypeOK
<1>3. /\ request[s] # Idle /\ SnapOK(seen, doc, log) /\ seen.doc[d] \in DocRow
      /\ i \in DOMAIN seen.log /\ seen.log[i] = log[i] /\ log[i].reversal \in BOOLEAN
  BY <1>1, LogUpdates, LogRowUpdates DEF RowRuns, ReversalInv, PostingInv, SnapsOK, TypeOK
<1>4. IsDone(i)
  <2>1. DoesNothing(s, i) => IsDone(i)
    BY Zenon DEF DoesNothing
  <2>2. IsPosted(s, i) => IsDone(i)
    BY Zenon DEF IsPosted
  <2>3. IsReversed(s, i) => IsDone(i)
    BY Zenon DEF IsReversed
  <2>4. QED
    BY <2>1, <2>2, <2>3
<1>5. /\ \A f \in Docs, r \in BOOLEAN : LogsOf(f, log, r)' = LogsOf(f, log, r)
      /\ \A f \in Docs, r \in BOOLEAN : f # d => PendingOf(f, r)' = PendingOf(f, r)
      /\ \A r \in BOOLEAN : r # log[i].reversal => PendingOf(d, r)' = PendingOf(d, r)
      /\ \A r \in BOOLEAN : r = log[i].reversal => /\ PendingOf(d, r)' = PendingOf(d, r) \ {i}
                                                   /\ i \in PendingOf(d, r) /\ i \in LogsOf(d, log, r)
  <2>1. DoneView(i, d)
    BY <1>0, <1>1, <1>4, DoneViews
  <2>2. QED
    BY <2>1, Zenon DEF DoneView
<1>6. /\ IsFiniteSet(Live(d)) /\ IsFiniteSet(PendingOf(d, TRUE)) /\ Live(d) \subseteq DOMAIN erp
      /\ DOMAIN erp = 1..Len(erp) /\ Len(erp) \in Nat
  BY <1>1, FiniteViews
<1>7. /\ log[i].reversal => seen.doc[d].state = "Cancelled"
      /\ seen.doc[d].state = "Cancelled" => doc[d].state = "Cancelled"
  BY <1>0, <1>3, Zenon DEF SnapOK
<1>8. doc[d].state = "Cancelled" =>
        /\ d \in Cancellable /\ Live(d) \subseteq {doc[d].link}
        /\ Cardinality(Live(d)) = Cardinality(PendingOf(d, TRUE))
        /\ d \in Adjustments => PendingOf(d, FALSE) = {}
        /\ SeenLink(d)
  BY <1>1 DEF View, DocOK, CancelOK
<1> HIDE DEF seen
<1>9. doc' = doc => (SeenLink(d) => SeenLink(d)')
  BY <1>2, Zenon DEF SeenLink
<1>10. ASSUME e # d, \A f \in Docs : f # d => doc'[f] = doc[f] /\ Live(f)' = Live(f)
       PROVE  CancelOK(e)'
  <2>1. Untouched(e)
    BY <1>5, <1>10, Zenon DEF Untouched
  <2>2. QED
    BY <1>1, <1>2, <2>1, CancelKept
\* A reversal that runs finds the document it is to cancel.
<1>11. ASSUME log[i].reversal
       PROVE  /\ seen.doc[d].link = doc[d].link /\ doc[d].link \in Nat
              /\ Live(d) = {doc[d].link}
              /\ Cardinality(Live(d) \ {doc[d].link}) = Cardinality(PendingOf(d, TRUE) \ {i})
              /\ CancelDoc(seen.doc[d].link) # erp
  <2>1. doc[d].state = "Cancelled" /\ seen.doc[d].state = "Cancelled"
    BY <1>7, <1>11
  <2>2. seen.doc[d].link = doc[d].link
    BY <1>3, <1>8, <2>1, Zenon DEF SeenLink, seen
  <2>3. i \in PendingOf(d, TRUE)
    BY <1>3, <1>5, <1>11
  <2> DEFINE live == Live(d)
             pend == PendingOf(d, TRUE)
             link == doc[d].link
  <2>4. /\ IsFiniteSet(live) /\ IsFiniteSet(pend) /\ AtMost(live, link)
        /\ Cardinality(live) = Cardinality(pend) /\ i \in pend
    BY <1>6, <1>8, <2>1, <2>3 DEF AtMost
  <2> HIDE DEF live, pend, link
  <2>5. live = {link} /\ Cardinality(live \ {link}) = Cardinality(pend \ {i})
    BY <2>4, ReversalCounts
  <2>6. Live(d) = {doc[d].link} /\ Cardinality(Live(d) \ {doc[d].link}) = Cardinality(PendingOf(d, TRUE) \ {i})
    BY <2>5 DEF live, pend, link
  <2>7. CancelDoc(seen.doc[d].link) # erp
    <3>1. doc[d].link \in Live(d)
      BY <2>6
    <3>2. doc[d].link \in DOMAIN erp /\ doc[d].link # 0 /\ erp[doc[d].link].live = TRUE
      <4>1. doc[d].link \in DOMAIN erp /\ erp[doc[d].link].live
        BY <3>1 DEF Live
      <4>2. erp[doc[d].link] \in ErpRow
        BY <1>1, <1>6, <4>1, ElementOfSeq DEF TypeOK
      <4>3. erp[doc[d].link].live \in BOOLEAN
        BY <4>2, Zenon DEF ErpRow
      <4>4. QED
        BY <1>6, <4>1, <4>3
    <3>3. CancelDoc(doc[d].link) = [erp EXCEPT ![doc[d].link].live = FALSE]
      BY <3>2 DEF CancelDoc
    <3>4. erp[doc[d].link] \in ErpRow
      BY <1>1, <1>6, <3>2, ElementOfSeq DEF TypeOK
    <3>5. [erp EXCEPT ![doc[d].link].live = FALSE][doc[d].link].live = FALSE
      BY <3>2, <3>4 DEF ErpRow
    <3>6. QED
      BY <2>2, <3>2, <3>3, <3>5
  <2>8. doc[d].link \in Nat
    BY <1>1, DocRowUpdates
  <2>9. QED
    BY <2>2, <2>6, <2>7, <2>8
<1>12. CASE DoesNothing(s, i)
  <2>1. doc' = doc /\ erp' = erp /\ NothingToDo(s, i) /\ \A f \in Docs : Live(f)' = Live(f)
    BY <1>12 DEF DoesNothing, Live
  <2>2. ~log[i].reversal
    BY <1>0, <1>11, <2>1 DEF NothingToDo, seen
  <2>3. CASE e = d
    <3>1. PendingOf(d, TRUE)' = PendingOf(d, TRUE) /\ PendingOf(d, FALSE)' = PendingOf(d, FALSE) \ {i}
      BY <1>3, <1>5, <2>2
    <3>2. PendingOf(d, FALSE) = {} => PendingOf(d, FALSE)' = {}
      BY <3>1
    <3>3. QED
      BY <1>8, <1>9, <2>1, <2>3, <3>1, <3>2, Zenon DEF CancelOK
  <2>4. QED
    BY <1>10, <2>1, <2>3, Zenon
<1>13. CASE IsPosted(s, i)
  <2>1. /\ ~NothingToDo(s, i) /\ ~log[i].reversal /\ FreshDoc(s, d)
        /\ erp' = Submitted(d) /\ doc' = Linked(d, doc)
    BY <1>0, <1>13 DEF IsPosted
  <2>2. \A f \in Docs : f # d => doc'[f] = doc[f] /\ Live(f)' = Live(f)
    BY <1>1, <2>1, LiveSubmitted DEF Linked
  <2>3. doc[d].state # "Cancelled"
    <3>1. i \in PendingOf(d, FALSE)
      BY <1>3, <1>5, <2>1
    <3>2. d \in Receipts => doc[d].state = "Posted"
      BY <1>0, <2>1 DEF NothingToDo, Skips, FreshDoc
    <3>3. QED
      BY <1>8, <3>1, <3>2 DEF Cancellable
  <2>4. CASE e = d
    <3>1. doc'[d] = [doc[d] EXCEPT !.link = Len(erp) + 1]
      BY <1>1, <2>1 DEF Linked
    <3>2. doc'[d].state # "Cancelled"
      BY <1>1, <2>3, <3>1 DEF DocRow
    <3>3. QED
      BY <2>4, <3>2 DEF CancelOK
  <2>5. QED
    BY <1>10, <2>2, <2>4
<1>14. CASE IsReversed(s, i)
  <2>1. /\ log[i].reversal /\ doc' = doc /\ erp' = CancelDoc(seen.doc[d].link)
    BY <1>0, <1>14 DEF IsReversed, seen
  <2>2. erp' = CancelDoc(doc[d].link) /\ doc[d].link \in Nat
    BY <1>11, <2>1
  <2>3. /\ Live(d)' = Live(d) \ {doc[d].link}
        /\ \A f \in Docs : f # d => Live(f)' = Live(f)
    BY <1>1, <2>2, LiveCancelled DEF LinkOK
  <2>4. CASE e = d
    <3>1. PendingOf(d, TRUE)' = PendingOf(d, TRUE) \ {i} /\ PendingOf(d, FALSE)' = PendingOf(d, FALSE)
      BY <1>3, <1>5, <2>1
    <3>2. Cardinality(Live(d)') = Cardinality(PendingOf(d, TRUE)')
      BY <1>11, <2>1, <2>3, <3>1, Zenon
    <3>3. QED
      BY <1>8, <1>9, <2>1, <2>4, <3>1, <3>2, Zenon DEF CancelOK
  <2>5. QED
    BY <1>10, <2>1, <2>3, <2>4, Zenon
<1>15. QED
  BY <1>12, <1>13, <1>14

LEMMA ReversalKept ==
  ASSUME SnapshotIsolation, ReversalInv, [Next]_vars, NEW e \in Docs
  PROVE  CancelOK(e)'
<1>1. TypeOK /\ PostingInv /\ CancelOK(e) /\ doc \in [Docs -> DocRow]
  BY DEF ReversalInv, PostingInv, SettledInv, TypeOK
<1>2. ASSUME NEW d \in Docs, Post(d)
      PROVE  CancelOK(e)'
  <2> DEFINE posted == [doc EXCEPT ![d].state = "Posted", ![d].posted = @ + 1]
  <2>1. posted \in [Docs -> DocRow] /\ posted[d].state = "Posted" /\ \A f \in Docs : f # d => posted[f] = doc[f]
    <3>1. doc[d] \in DocRow /\ doc[d].state # "Cancelled" /\ doc[d].posted < PostingsOf(d)
      BY <1>1, <1>2 DEF Post
    <3>2. posted[d] = [doc[d] EXCEPT !.state = "Posted", !.posted = @ + 1]
      BY <1>1
    <3>3. posted[d].state = "Posted" /\ posted[d] \in DocRow
      <4>1. [doc[d] EXCEPT !.state = "Posted", !.posted = @ + 1].state = "Posted"
        BY <3>1, PostedAgain
      <4>2. [doc[d] EXCEPT !.state = "Posted", !.posted = @ + 1] \in DocRow
        BY <3>1, DocRowUpdates
      <4>3. QED
        BY <3>2, <4>1, <4>2, Zenon
    <3>4. QED
      BY <1>1, <3>3
  <2> HIDE DEF posted
  <2>2. request' = request /\ (doc' = posted \/ doc' = Linked(d, posted))
    BY <1>2 DEF Post, posted
  <2>3. \A f \in Docs : f # d => doc'[f] = doc[f]
    BY <2>1, <2>2 DEF Linked
  <2>4. doc'[d].state = "Posted"
    <3>1. Linked(d, posted)[d] = [posted[d] EXCEPT !.link = Len(erp) + 1]
      BY <2>1 DEF Linked
    <3>2. Linked(d, posted)[d].state = "Posted"
      BY <2>1, <3>1 DEF DocRow
    <3>3. QED
      BY <2>1, <2>2, <3>2
  <2>5. CASE e = d
    BY <2>4, <2>5 DEF CancelOK
  <2>6. CASE e # d
    <3>1. \/ log' = Append(log, NewLog(d, FALSE)) /\ erp' = erp
          \/ erp' = Submitted(d) /\ log' = log
      BY <1>2 DEF Post
    <3>2. Live(e)' = Live(e)
      <4>1. CASE erp' = erp
        BY <4>1 DEF Live
      <4>2. CASE erp' = Submitted(d)
        BY <1>1, <2>6, <4>2, LiveSubmitted
      <4>3. QED
        BY <3>1, <4>1, <4>2
    <3>3. \A r \in BOOLEAN : LogsOf(e, log, r)' = LogsOf(e, log, r) /\ PendingOf(e, r)' = PendingOf(e, r)
      <4>1. CASE log' = log
        BY <4>1 DEF LogsOf, PendingOf, IsPending
      <4>2. CASE log' = Append(log, NewLog(d, FALSE))
        BY <1>1, <2>6, <4>2, RowAddedViews
      <4>3. QED
        BY <3>1, <4>1, <4>2
    <3>4. Untouched(e)
      BY <2>3, <2>6, <3>2, <3>3, Zenon DEF Untouched
    <3>5. QED
      BY <1>1, <2>2, <3>4, CancelKept
  <2>7. QED
    BY <2>5, <2>6
<1>3. ASSUME UNCHANGED <<doc, log, erp>>,
             \A r \in Sessions : \/ request'[r] = request[r] \/ request'[r] = Idle
                                 \/ request'[r].seen = Seen
      PROVE  CancelOK(e)'
  <2>1. Untouched(e)
    BY <1>3 DEF Untouched, Live, LogsOf, PendingOf, IsPending
  <2>2. QED
    BY <1>1, <1>3, <2>1, CancelKept
<1>4. ASSUME NEW s \in Sessions, NEW i \in DOMAIN log, Run(s, i)
      PROVE  CancelOK(e)'
  <2>1. \A r \in Sessions : request'[r] = request[r] \/ request'[r] = Idle
    BY <1>1, <1>4 DEF Run, Ends, TypeOK
  <2>2. CASE StaysPending
    <3>1. doc' = doc /\ Live(e)' = Live(e)
      BY <2>2 DEF StaysPending, Live
    <3>2. \A r \in BOOLEAN : LogsOf(e, log, r)' = LogsOf(e, log, r) /\ PendingOf(e, r)' = PendingOf(e, r)
      <4>1. RowsKept({})
        BY <2>2 DEF StaysPending
      <4>2. \A f \in Docs, r \in BOOLEAN : LogsOf(f, log, r)' = LogsOf(f, log, r) /\ PendingOf(f, r)' = PendingOf(f, r) \ {}
        BY <4>1, RowsKeptViews
      <4>3. \A r \in BOOLEAN : PendingOf(e, r) \ {} = PendingOf(e, r)
        OBVIOUS
      <4>4. QED
        BY <4>2, <4>3, Zenon
    <3>3. Untouched(e)
      BY <3>1, <3>2, Zenon DEF Untouched
    <3>4. QED
      BY <1>1, <2>1, <3>3, CancelKept
  <2>3. QED
    BY <1>1, <1>3, <1>4, <2>1, <2>2, RunEffects, ReversalRun, Zenon
<1>5. QED
  BY <1>1, <1>2, <1>3, <1>4, ReversalCancel, RequestSteps, Zenon

LEMMA ReversalStep ==
  ASSUME SnapshotIsolation
  PROVE  /\ ReversalInv /\ [RunQueue \/ Attend]_vars => ReversalInv'
         /\ Adjustments = {} /\ ReversalInv /\ [Next]_vars => ReversalInv'
<1>1. ASSUME ReversalInv, [Next]_vars, OneMode'
      PROVE  ReversalInv'
  <2>1. PostingInv'
    BY <1>1, PostingStep DEF ReversalInv
  <2>2. \A d \in Docs : CancelOK(d)'
    BY <1>1, ReversalKept
  <2>3. QED
    BY <1>1, <2>1, <2>2, Zenon DEF ReversalInv
<1>2. ASSUME ReversalInv, [RunQueue \/ Attend]_vars
      PROVE  OneMode' /\ [Next]_vars
  <2>1. [Next]_vars /\ TypeOK /\ OneMode
    BY <1>2, Zenon DEF Next, ReversalInv, PostingInv, SettledInv
  <2>2. UNCHANGED mode
    <3>1. CASE UNCHANGED vars
      BY <3>1 DEF vars
    <3>2. CASE RunQueue
      BY <3>2, Zenon DEF RunQueue, Post, Lost, BeginRun, BeginRequest, Run
    <3>3. CASE Attend
      BY <3>3, Zenon DEF Attend, BeginCancel, Cancel, BeginRetryNow, BeginRequest
    <3>4. QED
      BY <1>2, <3>1, <3>2, <3>3
  <2>3. \A r \in Sessions : \/ request'[r] = request[r] \/ request'[r] = Idle
                            \/ request'[r].seen = Seen
    <3>1. ASSUME NEW d \in Docs, Post(d)
          PROVE  request' = request
      BY <3>1 DEF Post
    <3>2. ASSUME NEW s \in Sessions, Ends(s)
          PROVE  \A r \in Sessions : request'[r] = request[r] \/ request'[r] = Idle
      BY <2>1, <3>2 DEF Ends, TypeOK
    <3>3. QED
      BY <2>1, <3>1, <3>2, RequestSteps, Zenon DEF Cancel, Run
  <2>4. Seen.mode = mode
    BY DEF Seen
  <2>5. OneMode'
    BY <2>1, <2>2, <2>3, <2>4, Zenon DEF OneMode
  <2>6. QED
    BY <2>1, <2>5
<1>3. ASSUME Adjustments = {}
      PROVE  OneMode'
  BY <1>3 DEF OneMode
<1>4. QED
  BY <1>1, <1>2, <1>3, Zenon

LEMMA ReversalImplies == ReversalInv => CancelledIsReversed
BY Zenon DEF ReversalInv, CancelOK, CancelledIsReversed

\* As long as the warehouse keeps its posting mode, what ERPNext holds for a
\* cancelled document is what its queued reversal will remove.
THEOREM ReversalsReachErp ==
  ASSUME SnapshotIsolation
  PROVE  QueuedSpec => []CancelledIsReversed
BY ReversalInit, ReversalStep, ReversalImplies, PTL DEF QueuedSpec

\* Goods receipts and issues are reversed in either mode: their postings look
\* at the document before they run.
THEOREM ReceiptsReversedInBothModes ==
  ASSUME SnapshotIsolation, Adjustments = {}
  PROVE  Spec => []CancelledIsReversed
<1>1. ReversalInv /\ [Next]_vars => ReversalInv'
  BY ReversalStep
<1>2. QED
  BY <1>1, ReversalInit, ReversalImplies, PTL DEF Spec

HIDE ConstantsAssumption

-----------------------------------------------------------------------------
(* The yard: types. *)
Bookings == [Appointments -> BookingRow]

\* The three properties, of given bookings and of one unit; ms: which booking
\* missed which.
DisjointIn(bs, ms) ==
  \A a \in Appointments : \A b \in Appointments \ {a} :
    <<a, b>> \notin ms /\ <<b, a>> \notin ms => Apart(bs[a], bs[b])
CountsForCarrier(row) == row.status \notin {"None", "Cancelled", "No Show"} /\ ~row.walk_in
TrucksBooked(bs, carrier, day) ==
  {b \in Appointments : CountsForCarrier(bs[b]) /\ CarrierOf[b] = carrier /\ Day(bs[b].slot) = day}
CapacityIn(bs, ms) ==
  \A carrier, day : \A trucks \in SUBSET TrucksBooked(bs, carrier, day) :
    (trucks \X trucks) \cap ms = {} => Cardinality(trucks) <= TrucksPerDay
Placed(row) ==
  /\ row.status \in {"None", "Planned", "Departed"} => row.door = None /\ row.spot = None
  /\ row.status = "In Yard" => row.door = None
  /\ row.status \in {"At Door", "Loading", "Unloading"} => row.door # None /\ row.spot = None

UnitsPlaced(us) == us \in [Units -> UnitRow] /\ \A u \in Units : Placed(us[u])
BookingsFit(bs, ms) == bs \in Bookings /\ DisjointIn(bs, ms) /\ CapacityIn(bs, ms)
YardFits ==
  /\ BookingsFit(appointment, missed) /\ UnitsPlaced(transport)
  /\ yardTask \subseteq [unit : Units, to_bin : Doors \cup Spots]
  /\ announced \in [Documents -> DocumentRow]

\* The tables a request reads were once the ones that stood.
ViewFits(v) == v \in Views /\ UnitsPlaced(v.transport)
YardInvariant ==
  /\ YardFits
  /\ looked \in [Desks -> Views \cup {None}] /\ \A k \in Desks : looked[k] # None => ViewFits(looked[k])
  /\ missed \subseteq Appointments \X Appointments
  /\ clock \in 0..LastTick /\ yardWork \in 0..MaxWork

LEMMA YardConstants ==
  ASSUME YardAssumption
  PROVE  /\ MaxSlot \in Nat /\ NoShowAfter \in Nat /\ Changeover \in Nat /\ TrucksPerDay \in Nat /\ MaxWork \in Nat
         /\ SlotsPerDay \in Nat \ {0} /\ LastTick \in Nat /\ MaxSlot < LastTick
         /\ IsFiniteSet(Appointments) /\ IsFiniteSet(Units) /\ Appointments \subseteq Nat /\ Units \subseteq Nat
         /\ Doors \subseteq Nat /\ None \notin Appointments /\ None \notin Documents /\ None \notin Doors
         /\ None \notin Spots /\ Doors \cap Spots = {} /\ PreferredDoors \subseteq Doors
         /\ DoorsAsked \subseteq Doors \cup {None}
         /\ IsFiniteSet(Documents)
<1>1. /\ MaxSlot \in Nat /\ NoShowAfter \in Nat /\ Changeover \in Nat /\ TrucksPerDay \in Nat /\ MaxWork \in Nat
      /\ SlotsPerDay \in Nat \ {0}
  BY DEF YardAssumption
<1>2. Appointments \subseteq Nat /\ Units \subseteq Nat /\ Doors \subseteq Nat
  <2>1. \A S \in {Appointments, Units, Doors} : Cardinality(S) \in Nat
    BY FS_CardinalityType DEF YardAssumption
  <2>2. QED
    BY <2>1 DEF YardAssumption
<1>3. IsFiniteSet(Documents)
  BY FS_Union DEF YardAssumption, Documents
<1>4. LastTick \in Nat /\ MaxSlot < LastTick
  BY <1>1 DEF LastTick
<1>5. QED
  BY <1>1, <1>2, <1>3, <1>4 DEF YardAssumption, Documents

LEMMA ViewsMean ==
  ASSUME NEW v, ViewFits(v)
  PROVE  /\ v.appointment \in Bookings /\ UnitsPlaced(v.transport) /\ v.transport \in [Units -> UnitRow]
         /\ v.announced \in [Documents -> DocumentRow]
BY DEF ViewFits, Views, Bookings, UnitsPlaced

LEMMA StandingFits == ASSUME YardFits PROVE ViewFits(Standing)
<1>1. appointment \in Bookings /\ UnitsPlaced(transport) /\ transport \in [Units -> UnitRow]
      /\ yardTask \subseteq [unit : Units, to_bin : Doors \cup Spots] /\ announced \in [Documents -> DocumentRow]
  BY DEF YardFits, BookingsFit, UnitsPlaced
<1>2. Standing.transport = transport
  BY DEF Standing
<1>3. Standing \in Views
  BY <1>1 DEF Standing, Views, Bookings
<1>4. QED
  BY <1>1, <1>2, <1>3 DEF ViewFits

LEMMA PropertiesMean ==
  ASSUME YardInvariant
  PROVE  YardTypes /\ BookingsDisjoint /\ WithinCarrierCapacity /\ PlaceMatchesStatus
<1>1. YardFits /\ DisjointIn(appointment, missed) /\ CapacityIn(appointment, missed) /\ UnitsPlaced(transport)
  BY DEF YardInvariant, YardFits, BookingsFit
<1>2. YardTypes
  <2>1. Standing \in Views
    BY <1>1, StandingFits DEF ViewFits
  <2>2. QED
    BY <2>1 DEF YardTypes, YardInvariant
<1>3. BookingsDisjoint
  BY <1>1 DEF BookingsDisjoint, DisjointIn
<1>4. \A a \in Appointments : BookedFor(a) = TrucksBooked(appointment, CarrierOf[a], Day(appointment[a].slot))
  BY DEF BookedFor, TrucksBooked, CountsForCarrier
<1>5. WithinCarrierCapacity
  <2>1. SUFFICES ASSUME NEW a \in Appointments, NEW trucks \in SUBSET BookedFor(a), (trucks \X trucks) \cap missed = {}
                 PROVE  Cardinality(trucks) <= TrucksPerDay
    BY Zenon DEF WithinCarrierCapacity
  <2>2. trucks \in SUBSET TrucksBooked(appointment, CarrierOf[a], Day(appointment[a].slot))
    BY <1>4, <2>1
  <2>3. QED
    BY <1>1, <2>1, <2>2, Zenon DEF CapacityIn
<1>6. PlaceMatchesStatus
  BY <1>1 DEF PlaceMatchesStatus, UnitsPlaced, Placed
<1>7. QED
  BY <1>2, <1>3, <1>5, <1>6

-----------------------------------------------------------------------------
(* Bookings that end, and bookings that are saved. *)

\* Bookings that become inactive disturb no other.
LEMMA BookingsEnd ==
  ASSUME YardAssumption, NEW bs, NEW ms, BookingsFit(bs, ms), NEW cs \in Bookings, NEW ns, ms \subseteq ns,
         \A a \in Appointments :
           \/ cs[a] = bs[a]
           \/ /\ cs[a].status \notin ACTIVE /\ cs[a].slot = bs[a].slot
              /\ CountsForCarrier(cs[a]) => CountsForCarrier(bs[a])
  PROVE  BookingsFit(cs, ns)
<1> USE DEF BookingsFit
<1>1. ASSUME NEW a \in Appointments, NEW b \in Appointments \ {a}, <<a, b>> \notin ns, <<b, a>> \notin ns
      PROVE  Apart(cs[a], cs[b])
  <2>1. Apart(bs[a], bs[b])
    BY <1>1, Zenon DEF DisjointIn
  <2>2. CASE cs[a] = bs[a] /\ cs[b] = bs[b]
    BY <2>1, <2>2
  <2>3. CASE cs[a].status \notin ACTIVE \/ cs[b].status \notin ACTIVE
    BY <2>3 DEF Apart
  <2>4. QED
    BY <2>2, <2>3
<1>2. DisjointIn(cs, ns)
  BY <1>1, Zenon DEF DisjointIn
<1>3. ASSUME NEW carrier, NEW day, NEW trucks \in SUBSET TrucksBooked(cs, carrier, day), (trucks \X trucks) \cap ns = {}
      PROVE  Cardinality(trucks) <= TrucksPerDay
  <2>1. TrucksBooked(cs, carrier, day) \subseteq TrucksBooked(bs, carrier, day)
    BY DEF TrucksBooked
  <2>2. trucks \in SUBSET TrucksBooked(bs, carrier, day) /\ (trucks \X trucks) \cap ms = {}
    BY <1>3, <2>1
  <2>3. QED
    BY <2>2, Zenon DEF CapacityIn
<1>4. CapacityIn(cs, ns)
  BY <1>3, Zenon DEF CapacityIn
<1>5. QED
  BY <1>2, <1>4

\* What has been missed already excuses no more than before.
LEMMA MoreMissed ==
  ASSUME YardAssumption, NEW bs, NEW ms, BookingsFit(bs, ms), NEW ns, ms \subseteq ns
  PROVE  BookingsFit(bs, ns)
<1>1. bs \in Bookings
  BY DEF BookingsFit
<1>2. QED
  BY <1>1, BookingsEnd

LEMMA LeastOf ==
  ASSUME NEW S \in SUBSET Nat, S # {}
  PROVE  Min(S) \in S /\ \A x \in S : Min(S) <= x
<1>1. PICK n \in S : \A m \in S : n <= m
  BY SmallestOf
<1>2. \E x \in S : \A y \in S : x <= y
  BY <1>1
<1>3. QED
  BY <1>2 DEF Min

LEMMA DoorsFound ==
  ASSUME YardAssumption, NEW v, ViewFits(v), NEW a \in Appointments, NEW booking \in BookingRow
  PROVE  /\ ValidDoor(v, a, booking) \in Doors \cup {None}
         /\ \A first, last, now : FreeDoor(v.appointment, first, last, a, now) \in Doors \cup {None}
         /\ booking.door # None => ValidDoor(v, a, booking) = booking.door
<1> DEFINE bs == v.appointment
<1>1. ASSUME NEW first, NEW last, NEW now PROVE FreeDoor(bs, first, last, a, now) \in Doors \cup {None}
  <2> HIDE DEF bs
  <2> DEFINE free == {d \in Doors : Clashes(bs, d, first, last, a) = {} /\ ~(now /\ Occupied(bs, d, a))}
             ranked == IF free \cap PreferredDoors # {} THEN free \cap PreferredDoors ELSE free
  <2>1. FreeDoor(bs, first, last, a, now) = IF free = {} THEN None ELSE Min(ranked)
    BY DEF FreeDoor
  <2>2. free \subseteq Doors /\ Doors \subseteq Nat
    BY YardConstants
  <2> HIDE DEF free
  <2>3. CASE free = {}
    BY <2>1, <2>3
  <2>4. CASE free # {}
    <3>1. ranked \subseteq Doors /\ ranked \in SUBSET Nat /\ ranked # {}
      BY <2>2, <2>4
    <3>2. Min(ranked) \in ranked
      BY <3>1, LeastOf
    <3>3. QED
      BY <2>1, <2>4, <3>1, <3>2
  <2>5. QED
    BY <2>3, <2>4
<1>2. \A d : DoorOfShipment(v.announced, d) \in Doors \cup {None}
  <2>1. v.announced \in [Documents -> DocumentRow]
    BY ViewsMean
  <2>2. QED
    BY <2>1 DEF DoorOfShipment, DocumentRow, Documents
<1>3. booking.door \in Doors \cup {None}
  BY DEF BookingRow
<1>4. QED
  BY <1>1, <1>2, <1>3 DEF ValidDoor

LEMMA SlotsAreInt ==
  ASSUME YardAssumption
  PROVE  Changeover \in Int /\ \A booking \in BookingRow : booking.slot \in Int
<1>1. LastTick \in Nat /\ Changeover \in Nat
  BY YardConstants
<1>2. \A booking \in BookingRow : booking.slot \in 0..LastTick
  BY DEF BookingRow
<1>3. QED
  BY <1>1, <1>2

\* A booking that is validated, and does not go to a door where a truck
\* stands, shares its door and its carrier's day with the others it has seen.
LEMMA SavedKeeps ==
  ASSUME YardAssumption, NEW bs, NEW ms, BookingsFit(bs, ms), NEW v, ViewFits(v), NEW ns, ms \subseteq ns,
         NEW a \in Appointments, NEW booking \in BookingRow, booking.status \in ACTIVE,
         Valid(v, a, booking),
         booking.status = "At Door" => booking.door # None /\ ~Occupied(v.appointment, booking.door, a),
         Saved(v, bs, a, booking)[a] # bs[a] =>
           \A b \in Appointments : bs[b] # v.appointment[b] => <<a, b>> \in ns
  PROVE  BookingsFit(Saved(v, bs, a, booking), ns)
<1> USE DEF BookingsFit
<1> DEFINE vs == v.appointment
           door == ValidDoor(v, a, booking)
           row == [booking EXCEPT !.door = door]
           cs == Saved(v, bs, a, booking)
<1>1. door \in Doors \cup {None} /\ (booking.door # None => door = booking.door)
  BY DoorsFound
<1>2. HasCapacity(vs, a, booking)
      /\ (\/ booking.walk_in /\ booking.status = "Checked In" /\ booking.door = None
          \/ /\ door # None
             /\ booking.status # "At Door" => Clashes(vs, door, booking.slot, booking.slot, a) = {})
  BY DEF Valid
<1>3. booking.walk_in /\ booking.status = "Checked In" /\ booking.door = None => door = None
  BY DEF ValidDoor
<1>v. vs \in Bookings
  BY ViewsMean
<1>n. booking.status = "At Door" => booking.door # None /\ ~Occupied(vs, booking.door, a)
  OBVIOUS
<1> HIDE DEF door
<1>4. /\ row \in BookingRow /\ row.status = booking.status /\ row.slot = booking.slot /\ row.walk_in = booking.walk_in
      /\ row.door = door
  BY <1>1 DEF BookingRow
<1>5. cs = [bs EXCEPT ![a] = row]
  BY DEF Saved, door
<1>s. cs[a] # bs[a] => \A b \in Appointments : bs[b] # vs[b] => <<a, b>> \in ns
  OBVIOUS
<1> HIDE DEF row, cs, vs
<1>6. cs \in Bookings /\ cs[a] = row /\ \A b \in Appointments \ {a} : cs[b] = bs[b]
  BY <1>4, <1>5 DEF Bookings
<1>7. CASE cs[a] = bs[a]
  <2>1. cs = bs
    <3>1. bs \in [Appointments -> BookingRow] /\ cs \in [Appointments -> BookingRow]
      BY <1>6 DEF BookingsFit, Bookings
    <3>2. \A b \in Appointments : cs[b] = bs[b]
      BY <1>6, <1>7, Zenon
    <3>3. QED
      BY ONLY <3>1, <3>2
  <2>2. BookingsFit(cs, ns)
    BY <2>1, MoreMissed
  <2>3. QED
    BY <2>2 DEF cs
<1>8. CASE cs[a] # bs[a]
  <2>0. \A b \in Appointments : <<a, b>> \notin ns => bs[b] = vs[b]
    BY <1>s, <1>8
  <2>7. \A b \in Appointments : bs[b] \in BookingRow /\ vs[b] \in BookingRow
    BY <1>v DEF Bookings
  <2>8. \A x, y \in BookingRow : Apart(x, y) => Apart(y, x)
    <3>1. \A x, y \in BookingRow : Overlap(x, y) => Overlap(y, x)
      BY DEF Overlap
    <3>2. QED
      BY <3>1 DEF Apart
  <2>9. ASSUME NEW b \in Appointments \ {a}, bs[b] = vs[b]
        PROVE  Apart(row, bs[b])
    <3>0. SUFFICES ASSUME bs[b].status \in ACTIVE, bs[b].door = door
                   PROVE  /\ door # None /\ Overlap(row, bs[b]) => row.status = "At Door" \/ bs[b].status = "At Door"
                          /\ ~(row.status = "At Door" /\ bs[b].status = "At Door")
      BY <1>4 DEF Apart
    <3>1. booking.slot \in Int /\ bs[b].slot \in Int /\ Changeover \in Int
      BY <2>7, SlotsAreInt, Zenon
    <3>2. ASSUME door # None, booking.status # "At Door" PROVE ~Overlap(row, bs[b])
      <4>1. Clashes(vs, door, booking.slot, booking.slot, a) = {}
        BY <1>2, <1>3, <3>2
      <4>2. ~(bs[b].slot <= booking.slot + Changeover /\ bs[b].slot + Changeover >= booking.slot)
        BY <2>9, <3>0, <4>1 DEF Clashes
      <4>3. QED
        BY <1>4, <3>1, <4>2 DEF Overlap
    <3>3. ASSUME row.status = "At Door", bs[b].status = "At Door" PROVE FALSE
      <4>1. door = booking.door /\ ~Occupied(vs, door, a)
        BY <1>1, <1>4, <1>n, <3>3
      <4>2. QED
        BY <2>9, <3>0, <3>3, <4>1 DEF Occupied
    <3>4. QED
      BY <1>4, <3>2, <3>3
  <2>10. DisjointIn(cs, ns)
    <3>1. SUFFICES ASSUME NEW x \in Appointments, NEW y \in Appointments \ {x}, <<x, y>> \notin ns, <<y, x>> \notin ns
                   PROVE  Apart(cs[x], cs[y])
      BY Zenon DEF DisjointIn
    <3>2. CASE x = a
      <4>1. cs[x] = row /\ cs[y] = bs[y] /\ y \in Appointments \ {a} /\ bs[y] = vs[y]
        BY <1>6, <2>0, <3>1, <3>2
      <4>2. QED
        BY <2>9, <4>1
    <3>3. CASE y = a
      <4>1. cs[y] = row /\ cs[x] = bs[x] /\ x \in Appointments \ {a} /\ bs[x] = vs[x]
        BY <1>6, <2>0, <3>1, <3>3
      <4>2. Apart(row, bs[x])
        BY <2>9, <4>1
      <4>3. QED
        BY <1>4, <2>7, <2>8, <4>1, <4>2
    <3>4. CASE x # a /\ y # a
      <4>1. cs[x] = bs[x] /\ cs[y] = bs[y]
        BY <1>6, <3>4
      <4>2. <<x, y>> \notin ms /\ <<y, x>> \notin ms
        BY <3>1
      <4>3. Apart(bs[x], bs[y])
        BY <4>2, Zenon DEF DisjointIn
      <4>4. QED
        BY <4>1, <4>3
    <3>5. QED
      BY <3>2, <3>3, <3>4
  <2>11. ASSUME NEW carrier, NEW day, NEW T \in SUBSET TrucksBooked(cs, carrier, day), (T \X T) \cap ns = {}
         PROVE  Cardinality(T) <= TrucksPerDay
    <3>1. T \subseteq Appointments /\ IsFiniteSet(T) /\ Cardinality(T) \in Nat /\ TrucksPerDay \in Nat
      <4>1. T \subseteq Appointments
        BY DEF TrucksBooked
      <4>2. QED
        BY <4>1, YardConstants, FS_Subset, FS_CardinalityType
    <3>2. CASE a \notin T
      <4>1. T \in SUBSET TrucksBooked(bs, carrier, day)
        BY <1>6, <3>1, <3>2 DEF TrucksBooked
      <4>2. (T \X T) \cap ms = {}
        BY <2>11
      <4>3. QED
        BY <4>1, <4>2, Zenon DEF CapacityIn
    <3>3. CASE a \in T
      <4> DEFINE B == Booked(vs, a, booking.slot)
                 R == T \ {a}
      <4>1. ~booking.walk_in /\ CarrierOf[a] = carrier /\ Day(booking.slot) = day
        BY <1>4, <1>6, <3>3 DEF TrucksBooked, CountsForCarrier
      <4>2. ASSUME NEW b \in R PROVE b \in B
        <5>1. b \in Appointments \ {a} /\ b \in TrucksBooked(cs, carrier, day) /\ <<a, b>> \notin ns
          BY <2>11, <3>1, <3>3, <4>2
        <5>2. cs[b] = vs[b]
          BY <1>6, <2>0, <5>1
        <5>3. QED
          BY <4>1, <5>1, <5>2 DEF Booked, TrucksBooked, CountsForCarrier
      <4>3. Cardinality(B) < TrucksPerDay
        BY <1>2, <4>1 DEF HasCapacity
      <4>4. B \subseteq Appointments
        BY DEF Booked
      <4> HIDE DEF B
      <4>5. IsFiniteSet(B) /\ Cardinality(B) \in Nat
        BY <4>4, YardConstants, FS_Subset, FS_CardinalityType
      <4>6. R \subseteq B
        BY <4>2
      <4>7. Cardinality(R) = Cardinality(T) - 1 /\ IsFiniteSet(R)
        BY <3>1, <3>3, FS_RemoveElement
      <4> HIDE DEF R
      <4>8. Cardinality(R) <= Cardinality(B) /\ Cardinality(R) \in Nat
        BY <4>5, <4>6, <4>7, FS_Subset, FS_CardinalityType
      <4> DEFINE m == Cardinality(B)
                 n == Cardinality(T)
                 k == Cardinality(R)
      <4>9. m < TrucksPerDay /\ k <= m /\ k = n - 1 /\ m \in Nat /\ n \in Nat /\ k \in Nat
        BY <3>1, <4>3, <4>5, <4>7, <4>8
      <4> HIDE DEF m, n, k
      <4>c. TrucksPerDay \in Nat
        BY <3>1
      <4>10. n <= TrucksPerDay
        BY ONLY <4>c, <4>9
      <4>11. QED
        BY <4>10 DEF n
    <3>4. QED
      BY <3>2, <3>3
  <2>12. CapacityIn(cs, ns)
    BY <2>11, Zenon DEF CapacityIn
  <2>13. QED
    BY <1>6, <2>10, <2>12 DEF cs
<1>9. QED
  BY <1>7, <1>8

\* A booking a request saves, as it saw the others.
LEMMA SavedFits ==
  ASSUME YardAssumption, YardFits, NEW v, ViewFits(v), missed' = missed \cup Missed(v),
         NEW a \in Appointments, NEW booking \in BookingRow, booking.status \in ACTIVE,
         Valid(v, a, booking),
         booking.status = "At Door" => booking.door # None /\ ~Occupied(v.appointment, booking.door, a),
         appointment' = Saved(v, appointment, a, booking)
  PROVE  BookingsFit(appointment', missed')
<1> DEFINE cs == Saved(v, appointment, a, booking)
           ns == missed'
<1>1. BookingsFit(appointment, missed)
  BY DEF YardFits
<1>2. cs[a] # appointment[a] => \A b \in Appointments : appointment[b] # v.appointment[b] => <<a, b>> \in ns
  BY DEF Missed
<1>3. missed \subseteq ns
  OBVIOUS
<1> HIDE DEF ns
<1>4. BookingsFit(Saved(v, appointment, a, booking), ns)
  BY <1>1, <1>2, <1>3, SavedKeeps
<1>5. QED
  BY <1>4 DEF ns

LEMMA NextIsFree ==
  ASSUME YardAssumption, NEW bs, \E a \in Appointments : bs[a].status = "None"
  PROVE  NextAppointment(bs) \in Appointments /\ bs[NextAppointment(bs)].status = "None"
<1> DEFINE free == {a \in Appointments : bs[a].status = "None"}
<1>1. free \in SUBSET Nat /\ free # {}
  BY YardConstants
<1>2. Min(free) \in free
  BY <1>1, LeastOf
<1>3. QED
  BY <1>2 DEF NextAppointment

\* A request that writes no booking.
LEMMA BookingsStay ==
  ASSUME YardAssumption, YardFits, NEW v, missed' = missed \cup Missed(v), UNCHANGED appointment
  PROVE  BookingsFit(appointment', missed')
<1> DEFINE ns == missed'
<1>1. BookingsFit(appointment, missed) /\ missed \subseteq ns
  BY DEF YardFits
<1> HIDE DEF ns
<1>2. BookingsFit(appointment, ns)
  BY <1>1, MoreMissed
<1>3. QED
  BY <1>2 DEF ns

\* A booking is planned for the slot, door and document it is made for.
LEMMA BookingMade ==
  ASSUME YardAssumption, NEW slot \in 0..MaxSlot, NEW door \in DoorsAsked,
         NEW dir \in {"Inbound", "Outbound"}, NEW d \in Documents \cup {None}
  PROVE  Booking(slot, door, dir, d) \in BookingRow /\ Booking(slot, door, dir, d).status = "Planned"
<1>1. slot \in 0..LastTick /\ door \in Doors \cup {None}
  BY YardConstants
<1>2. "Planned" \in ACTIVE
  BY DEF ACTIVE
<1>3. QED
  BY <1>1, <1>2 DEF Booking, NoAppointment, BookingRow

LEMMA DirectionOfDocument == \A d : DirectionOf(d) \in {"Inbound", "Outbound"}
BY DEF DirectionOf

\* One day of a series, and what it leaves of the names.
LEMMA BookedRows ==
  ASSUME NEW bs \in Bookings, NEW v, NEW booked \in BookingRow, booked.status = "Planned",
         NextAppointment(bs) \in Appointments
  PROVE  /\ \A b \in Appointments \ {NextAppointment(bs)} : BookedIfValid(v, bs, booked)[b] = bs[b]
         /\ BookedIfValid(v, bs, booked) # bs => BookedIfValid(v, bs, booked)[NextAppointment(bs)].status = "Planned"
<1> DEFINE a == NextAppointment(bs)
           row == [booked EXCEPT !.door = ValidDoor(v, a, booked)]
<1>1. row.status = "Planned"
  BY DEF BookingRow
<1>2. BookedIfValid(v, bs, booked) \in {bs, [bs EXCEPT ![a] = row]}
  BY DEF BookedIfValid, Saved
<1>3. a \in Appointments /\ bs \in [Appointments -> BookingRow]
  BY DEF Bookings
<1> HIDE DEF a, row
<1>4. /\ \A b \in Appointments \ {a} : BookedIfValid(v, bs, booked)[b] = bs[b]
      /\ BookedIfValid(v, bs, booked) # bs => BookedIfValid(v, bs, booked)[a].status = "Planned"
  BY <1>1, <1>2, <1>3
<1>5. QED
  BY <1>4 DEF a

LEMMA BookedFits ==
  ASSUME YardAssumption, NEW bs, NEW ms, BookingsFit(bs, ms), NEW v, ViewFits(v), NEW ns, ms \subseteq ns,
         NEW slot \in Nat, NEW door \in DoorsAsked,
         NEW dir \in {"Inbound", "Outbound"}, NEW d \in Documents \cup {None},
         slot <= MaxSlot => \E a \in Appointments : bs[a].status = "None",
         BookedIfValid(v, bs, Booking(slot, door, dir, d)) # bs =>
           \A b \in Appointments : bs[b] # v.appointment[b] => <<NextAppointment(bs), b>> \in ns
  PROVE  /\ BookingsFit(BookedIfValid(v, bs, Booking(slot, door, dir, d)), ns)
         /\ \A a \in Appointments \ {NextAppointment(bs)} :
              BookedIfValid(v, bs, Booking(slot, door, dir, d))[a] = bs[a]
         /\ BookedIfValid(v, bs, Booking(slot, door, dir, d)) # bs =>
              /\ NextAppointment(bs) \in Appointments /\ bs[NextAppointment(bs)].status = "None"
              /\ BookedIfValid(v, bs, Booking(slot, door, dir, d))[NextAppointment(bs)].status = "Planned"
<1> DEFINE booking == Booking(slot, door, dir, d)
           a == NextAppointment(bs)
           cs == BookedIfValid(v, bs, booking)
<1>1. booking.slot = slot
  BY DEF Booking, NoAppointment
<1>2. CASE slot <= MaxSlot /\ Valid(v, a, booking)
  <2>1. slot \in 0..MaxSlot
    BY <1>2, YardConstants
  <2>2. booking \in BookingRow /\ booking.status = "Planned"
    BY <2>1, BookingMade
  <2>3. a \in Appointments /\ booking.status \in ACTIVE /\ bs[a].status = "None"
    BY <1>2, <2>2, NextIsFree DEF ACTIVE
  <2>4. cs = Saved(v, bs, a, booking)
    BY <1>1, <1>2 DEF BookedIfValid
  <2>5. bs \in Bookings
    BY DEF BookingsFit
  <2>6. ValidDoor(v, a, booking) \in Doors \cup {None}
    BY <2>2, <2>3, DoorsFound
  <2>7. /\ \A b \in Appointments \ {a} : Saved(v, bs, a, booking)[b] = bs[b]
        /\ Saved(v, bs, a, booking)[a].status = "Planned"
    <3> HIDE DEF booking, a
    <3>1. Saved(v, bs, a, booking)[a] = [booking EXCEPT !.door = ValidDoor(v, a, booking)]
          /\ \A b \in Appointments \ {a} : Saved(v, bs, a, booking)[b] = bs[b]
      BY <2>3, <2>5 DEF Saved, Bookings
    <3>2. [booking EXCEPT !.door = ValidDoor(v, a, booking)].status = booking.status
      BY <2>2 DEF BookingRow
    <3>3. QED
      BY <2>2, <3>1, <3>2
  <2>8. Saved(v, bs, a, booking)[a] # bs[a] =>
          \A b \in Appointments : bs[b] # v.appointment[b] => <<a, b>> \in ns
    <3>1. cs # bs => \A b \in Appointments : bs[b] # v.appointment[b] => <<a, b>> \in ns
      OBVIOUS
    <3> HIDE DEF cs, booking, a
    <3>2. QED
      BY <2>4, <3>1
  <2> HIDE DEF booking, a, cs
  <2>9. booking.status # "At Door"
    BY <2>2
  <2>10. BookingsFit(Saved(v, bs, a, booking), ns)
    BY <1>2, <2>2, <2>3, <2>8, <2>9, SavedKeeps
  <2>11. QED
    BY <2>3, <2>4, <2>7, <2>10 DEF booking, a, cs
<1>3. CASE ~(slot <= MaxSlot /\ Valid(v, a, booking))
  <2>1. cs = bs
    BY <1>1, <1>3 DEF BookedIfValid
  <2>2. BookingsFit(bs, ns)
    BY MoreMissed
  <2>3. QED
    BY <2>1, <2>2
<1>4. QED
  BY <1>2, <1>3

-----------------------------------------------------------------------------
(* The units. *)

LEMMA FollowingFits ==
  ASSUME YardAssumption, UnitsPlaced(transport), NEW v, NEW a \in Appointments, NEW booking \in BookingRow,
         booking.status \in {"Checked In", "At Door", "Checked Out"}, booking.status = "At Door" => booking.door # None
  PROVE  UnitsPlaced(Synced(v, a, booking))
<1>1. \A u \in Units : transport[u] \in UnitRow
  BY DEF UnitsPlaced
<1>2. ASSUME NEW u \in Units PROVE Following(v, a, booking, u) \in UnitRow /\ Placed(Following(v, a, booking, u))
  <2> DEFINE row == Following(v, a, booking, u)
  <2>1. transport[u].ref \in Documents \cup {None} /\ booking.ref \in Documents \cup {None}
        /\ booking.door \in Doors \cup {None} /\ booking.spot \in Spots \cup {None}
    BY <1>1 DEF UnitRow, BookingRow
  <2>2. /\ row.of = a /\ row.ref \in Documents \cup {None} /\ row.spot \in Spots \cup {None}
        /\ row.door \in Doors \cup {None} /\ row.status = UnitStatus(booking.status)
    BY <2>1 DEF Following
  <2>3. UnitStatus(booking.status) = IF booking.status = "Checked In" THEN "In Yard"
                                 ELSE IF booking.status = "At Door" THEN "At Door" ELSE "Departed"
    BY DEF UnitStatus
  <2>4. row \in UnitRow
    BY <2>2, <2>3 DEF Following, UnitRow, LIVE
  <2>5. /\ row.spot = IF booking.status = "Checked In" THEN booking.spot ELSE None
        /\ row.door = IF booking.status = "At Door" THEN booking.door ELSE None
    BY DEF Following
  <2>6. Placed(row)
    BY <2>2, <2>3, <2>5 DEF Placed
  <2>7. QED
    BY <2>4, <2>6
<1>3. Synced(v, a, booking) = [u \in Units |-> IF u \in Followers(v, a) THEN Following(v, a, booking, u) ELSE transport[u]]
  BY DEF Synced
<1>4. \A u \in Units : Synced(v, a, booking)[u] \in UnitRow /\ Placed(Synced(v, a, booking)[u])
  BY <1>1, <1>2, <1>3 DEF UnitsPlaced
<1>5. QED
  BY <1>3, <1>4, Zenon DEF UnitsPlaced

\* Units of which one changes to a row that is where its status says.
LEMMA UnitChanged ==
  ASSUME NEW us, UnitsPlaced(us), NEW u, NEW row \in UnitRow, Placed(row)
  PROVE  UnitsPlaced([us EXCEPT ![u] = row])
<1> DEFINE vs == [us EXCEPT ![u] = row]
<1>1. us \in [Units -> UnitRow] /\ \A v \in Units : Placed(us[v])
  BY DEF UnitsPlaced
<1>2. vs \in [Units -> UnitRow] /\ \A v \in Units : vs[v] = row \/ vs[v] = us[v]
  BY <1>1
<1> HIDE DEF vs
<1>3. QED
  BY <1>1, <1>2, Zenon DEF UnitsPlaced, vs

LEMMA WithUnitFits ==
  ASSUME YardAssumption, UnitsPlaced(transport), NEW a \in Appointments \cup {None}, NEW d \in Documents,
         NEW like \in UnitRow, Placed(like)
  PROVE  UnitsPlaced(WithUnit(a, d, like))
<1> DEFINE row == [status |-> IF like.status = "None" THEN "Planned" ELSE like.status, of |-> a, ref |-> d,
                   door |-> like.door, spot |-> like.spot]
<1>1. row \in UnitRow
  BY DEF UnitRow, LIVE
<1>2. Placed(row)
  BY DEF Placed
<1>3. WithUnit(a, d, like) = [transport EXCEPT ![Min(FreeUnits)] = row]
  BY DEF WithUnit
<1> HIDE DEF row
<1> DEFINE name == Min(FreeUnits)
<1> HIDE DEF name
<1>4. UnitsPlaced([transport EXCEPT ![name] = row])
  BY <1>1, <1>2, UnitChanged
<1>5. QED
  BY <1>3, <1>4, Zenon DEF name

LEMMA NoUnitPlaced == NoUnit \in UnitRow /\ Placed(NoUnit)
BY DEF NoUnit, UnitRow, Placed

\* The documents of a set, as a list.
LEMMA DocumentsListed ==
  ASSUME NEW S, IsFiniteSet(S)
  PROVE  Cardinality(S) \in Nat /\ SetToSeq(S) \in [1..Cardinality(S) -> S]
<1> DEFINE n == Cardinality(S)
<1>1. n \in Nat /\ ExistsBijection(1..n, S)
  BY FS_CardinalityType
<1>2. PICK f \in Bijection(1..n, S) : TRUE
  BY <1>1 DEF ExistsBijection
<1>3. f \in [1..n -> S] /\ \A a, b \in 1..n : f[a] = f[b] => a = b
  BY <1>2 DEF Bijection, Injection, IsInjective
<1>4. f \in [1..n -> S] /\ IsInjective(f)
  BY <1>3 DEF IsInjective
<1>5. SetToSeq(S) \in [1..n -> S]
  BY <1>4 DEF SetToSeq
<1>6. QED
  BY <1>1, <1>5

LEMMA PlannedFits ==
  ASSUME YardAssumption, UnitsPlaced(transport), NEW a \in Appointments, NEW refs \in SUBSET Documents
  PROVE  UnitsPlaced(UnitsPlanned(a, refs))
<1>1. IsFiniteSet(refs) /\ IsFiniteSet(FreeUnits) /\ FreeUnits \subseteq Units /\ Units \subseteq Nat
  <2>1. FreeUnits \subseteq Units
    BY DEF FreeUnits
  <2>2. QED
    BY <2>1, YardConstants, FS_Subset
<1>2. ASSUME NEW u \in FreeUnits, Order(u) <= Cardinality(refs)
      PROVE  SetToSeq(refs)[Order(u)] \in Documents
  <2> DEFINE S == {w \in FreeUnits : w <= u}
  <2>1. IsFiniteSet(S) /\ u \in S
    <3>1. u \in Nat
      BY <1>1
    <3>2. u <= u
      BY <3>1
    <3>3. S \subseteq FreeUnits /\ u \in S
      BY <3>2
    <3>4. QED
      BY <1>1, <3>3, FS_Subset, Zenon
  <2>2. Cardinality(S) \in Nat /\ Cardinality(S) # 0
    BY <2>1, FS_CardinalityType, FS_EmptySet
  <2>3. Order(u) = Cardinality(S)
    BY DEF Order
  <2> HIDE DEF S
  <2>4. Cardinality(refs) \in Nat /\ SetToSeq(refs) \in [1..Cardinality(refs) -> refs]
    BY <1>1, DocumentsListed
  <2>5. Order(u) \in 1..Cardinality(refs)
    BY <1>2, <2>2, <2>3, <2>4
  <2>6. QED
    BY <2>4, <2>5
<1> DEFINE row(u) == [NoUnit EXCEPT !.status = "Planned", !.of = a, !.ref = SetToSeq(refs)[Order(u)]]
           us == UnitsPlanned(a, refs)
<1>3. ASSUME NEW u \in FreeUnits, Order(u) <= Cardinality(refs)
      PROVE  row(u) \in UnitRow /\ Placed(row(u))
  BY <1>2, <1>3 DEF NoUnit, UnitRow, LIVE, Placed
<1>4. us = [u \in Units |-> IF u \in FreeUnits /\ Order(u) <= Cardinality(refs)
                            THEN row(u) ELSE transport[u]]
  BY DEF UnitsPlanned
<1> HIDE DEF row, us
<1>5. \A u \in Units : transport[u] \in UnitRow /\ Placed(transport[u])
  BY DEF UnitsPlaced
<1>6. \A u \in Units : us[u] \in UnitRow /\ Placed(us[u])
  BY <1>3, <1>4, <1>5
<1>7. QED
  BY <1>4, <1>6, Zenon DEF UnitsPlaced, us

-----------------------------------------------------------------------------
(* The documents. *)

AnnouncedStates == {"None", "Expected", "In Yard", "At Door", "Departed"}

LEMMA DocumentsTold ==
  ASSUME NEW v, NEW docs \in [Documents -> DocumentRow], NEW a, NEW status \in AnnouncedStates
  PROVE  Told(v, docs, a, status) \in [Documents -> DocumentRow]
<1>1. \A d \in Documents : docs[d] \in DocumentRow
  OBVIOUS
<1>2. \A d \in Documents : [docs[d] EXCEPT !.yard = status] \in DocumentRow
  BY <1>1 DEF DocumentRow, AnnouncedStates
<1>3. QED
  BY <1>1, <1>2 DEF Told

LEMMA DocumentDoor ==
  ASSUME NEW docs \in [Documents -> DocumentRow], NEW a, NEW door \in Doors
  PROVE  WithShipmentDoor(docs, a, door) \in [Documents -> DocumentRow]
<1> DEFINE d == appointment[a].ref
<1> HIDE DEF d
<1>1. \A e \in Documents : [docs[e] EXCEPT !.door = door] \in DocumentRow
  BY DEF DocumentRow
<1>2. [docs EXCEPT ![d].door = door] \in [Documents -> DocumentRow]
  BY <1>1
<1>3. QED
  BY <1>2 DEF WithShipmentDoor, d

-----------------------------------------------------------------------------
(* Scheduling. *)

LEMMA CreateAppointmentFits ==
  ASSUME YardAssumption, YardFits, NEW slot \in 0..MaxSlot, NEW door \in DoorsAsked, NEW d \in Documents,
         NEW v, ViewFits(v), missed' = missed \cup Missed(v), CreateAppointment(v, slot, door, d)
  PROVE  YardFits'
<1> DEFINE a == NextAppointment(appointment)
           booking == Booking(slot, door, DirectionOf(d), d)
<1>1. a \in Appointments
  BY NextIsFree DEF CreateAppointment, NameLeft
<1>2. booking \in BookingRow /\ booking.status = "Planned"
  BY BookingMade, DirectionOfDocument
<1>3. Valid(v, a, booking) /\ appointment' = Saved(v, appointment, a, booking)
      /\ UNCHANGED <<transport, yardTask, announced>>
  BY DEF CreateAppointment
<1> HIDE DEF a, booking
<1>4. booking.status \in ACTIVE /\ booking.status # "At Door"
  BY <1>2 DEF ACTIVE
<1>5. BookingsFit(appointment', missed')
  BY <1>1, <1>2, <1>3, <1>4, SavedFits
<1>6. QED
  BY <1>3, <1>5 DEF YardFits

LEMMA CreateRecurringFits ==
  ASSUME YardAssumption, YardFits, NEW slot \in 0..MaxSlot, NEW door \in DoorsAsked,
         NEW v, ViewFits(v), missed' = missed \cup Missed(v), CreateRecurring(v, slot, door)
  PROVE  YardFits'
<1> DEFINE free == {a \in Appointments : appointment[a].status = "None"}
           next == slot + SlotsPerDay
           first == Booking(slot, door, "Inbound", None)
           second == Booking(next, door, "Inbound", None)
           a == NextAppointment(appointment)
           bs == BookedIfValid(v, appointment, first)
           w == [v EXCEPT !.appointment = [v.appointment EXCEPT ![a] = bs[a]]]
           ns == missed'
<1>1. slot \in Nat /\ slot <= MaxSlot /\ next \in Nat /\ SlotsPerDay \in Nat /\ MaxSlot \in Nat
  BY YardConstants
<1>2. slot + 0 * SlotsPerDay = slot /\ slot + 1 * SlotsPerDay = next
  BY <1>1
<1>3. /\ Cardinality(free) >= IF next <= MaxSlot THEN 2 ELSE 1
      /\ appointment' = BookedIfValid(w, bs, second)
      /\ UNCHANGED <<transport, yardTask, announced>>
  BY <1>2 DEF CreateRecurring
<1>4. IsFiniteSet(free) /\ Cardinality(free) \in Nat
  <2>1. free \subseteq Appointments
    OBVIOUS
  <2>2. QED
    BY <2>1, YardConstants, FS_Subset, FS_CardinalityType
<1>5. free # {}
  <2>1. Cardinality(free) # 0
    BY <1>3, <1>4
  <2>2. QED
    BY <1>4, <2>1, FS_EmptySet
<1>6. BookingsFit(appointment, missed) /\ missed \subseteq ns /\ appointment \in Bookings
  BY DEF YardFits, BookingsFit
<1>7. a \in Appointments /\ appointment[a].status = "None"
  BY <1>5, NextIsFree
<1>m. \A x, b \in Appointments : appointment'[x] # appointment[x] /\ appointment[b] # v.appointment[b] => <<x, b>> \in ns
  BY DEF Missed
<1>v. v.appointment \in Bookings /\ v \in Views
  BY ViewsMean DEF ViewFits
<1>8. /\ w.appointment = [v.appointment EXCEPT ![a] = bs[a]]
      /\ w.transport = v.transport /\ w.yardTask = v.yardTask /\ w.announced = v.announced
      /\ bs[a] \in BookingRow => w \in Views
  <2> HIDE DEF bs, a
  <2>1. QED
    BY <1>v DEF Views, Bookings
<1> HIDE DEF free, next, bs, a, w, ns, first, second
\* The second day is not booked under the first one's name.
<1>9. bs # appointment => appointment'[a] # appointment[a]
  <2>1. SUFFICES ASSUME bs # appointment PROVE appointment'[a] # appointment[a]
    OBVIOUS
  <2>2. first.slot = slot /\ first \in BookingRow /\ first.status = "Planned"
    BY <1>1, BookingMade DEF first, Booking, NoAppointment
  <2>3. bs = Saved(v, appointment, a, first) /\ Valid(v, a, first)
    BY <2>1 DEF bs, a, BookedIfValid
  <2>4. bs[a] = [first EXCEPT !.door = ValidDoor(v, a, first)]
    BY <1>6, <1>7, <2>3 DEF Saved, Bookings
  <2>5. bs[a].status = "Planned"
    BY <2>2, <2>4 DEF BookingRow
  <2>6. CASE appointment' = bs
    BY <1>7, <2>5, <2>6
  <2>7. CASE appointment' # bs
    <3> DEFINE n == NextAppointment(bs)
    <3>1. appointment' = [bs EXCEPT ![n] = [second EXCEPT !.door = ValidDoor(w, n, second)]] /\ second.slot <= MaxSlot
      BY <1>3, <2>7 DEF BookedIfValid, Saved
    <3>2. second.slot = next
      BY DEF second, Booking, NoAppointment
    <3>3. Cardinality(free) >= 2
      BY <1>3, <3>1, <3>2
    <3>4. \E b \in Appointments : bs[b].status = "None"
      <4>1. IsFiniteSet(free \ {a}) /\ Cardinality(free \ {a}) # 0
        <5>1. /\ IsFiniteSet(free \ {a})
              /\ Cardinality(free \ {a}) = IF a \in free THEN Cardinality(free) - 1 ELSE Cardinality(free)
          BY <1>4, FS_RemoveElement
        <5>2. QED
          BY <1>4, <3>3, <5>1
      <4>2. PICK b \in free \ {a} : TRUE
        BY <4>1, FS_EmptySet
      <4>3. b \in Appointments /\ b # a /\ appointment[b].status = "None"
        BY <4>2 DEF free
      <4>4. bs[b] = appointment[b]
        BY <1>6, <2>3, <4>3 DEF Saved, Bookings
      <4>5. QED
        BY <4>3, <4>4
    <3>5. bs[n].status = "None"
      BY <3>4, NextIsFree
    <3> HIDE DEF n
    <3>6. n # a
      BY <2>5, <3>5
    <3>7. appointment'[a] = bs[a]
      BY <1>6, <1>7, <2>3, <3>1, <3>6 DEF Saved, Bookings
    <3>8. QED
      BY <1>7, <2>5, <3>7
  <2>8. QED
    BY <2>6, <2>7
<1>10. /\ BookingsFit(bs, ns)
       /\ \A b \in Appointments \ {a} : bs[b] = appointment[b]
       /\ bs # appointment => bs[a].status = "Planned"
  <2>1. \E b \in Appointments : appointment[b].status = "None"
    BY <1>7
  <2>2. bs # appointment => \A b \in Appointments : appointment[b] # v.appointment[b] => <<a, b>> \in ns
    BY <1>7, <1>9, <1>m
  <2>3. "Inbound" \in {"Inbound", "Outbound"} /\ None \in Documents \cup {None}
    OBVIOUS
  <2>4. BookedIfValid(v, appointment, first) # appointment =>
          \A b \in Appointments : appointment[b] # v.appointment[b] => <<NextAppointment(appointment), b>> \in ns
    BY <2>2, Zenon DEF bs, a
  <2>5. slot <= MaxSlot => \E b \in Appointments : appointment[b].status = "None"
    BY <2>1
  <2>6. BookingsFit(BookedIfValid(v, appointment, first), ns)
    BY <1>1, <1>6, <2>3, <2>4, <2>5, BookedFits, ZenonT(60) DEF first
  <2>7. first \in BookingRow /\ first.status = "Planned" /\ NextAppointment(appointment) \in Appointments
    <3>1. slot \in 0..MaxSlot
      OBVIOUS
    <3>2. QED
      BY <3>1, <1>7, <2>3, BookingMade DEF first, a
  <2>8. /\ \A b \in Appointments \ {NextAppointment(appointment)} :
             BookedIfValid(v, appointment, first)[b] = appointment[b]
        /\ BookedIfValid(v, appointment, first) # appointment =>
             BookedIfValid(v, appointment, first)[NextAppointment(appointment)].status = "Planned"
    BY <1>6, <2>7, BookedRows, Zenon
  <2>9. QED
    BY <2>6, <2>8, Zenon DEF bs, a
<1>11. ViewFits(w)
  <2>1. bs[a] \in BookingRow
    BY <1>7, <1>10 DEF BookingsFit, Bookings
  <2>2. QED
    BY <1>8, <2>1 DEF ViewFits
<1>12. \A b \in Appointments : bs[b] # w.appointment[b] => appointment[b] # v.appointment[b]
  BY <1>7, <1>8, <1>10, <1>v DEF Bookings
<1>13. next <= MaxSlot => \E b \in Appointments : bs[b].status = "None"
  <2>1. SUFFICES ASSUME next <= MaxSlot PROVE \E b \in Appointments : bs[b].status = "None"
    OBVIOUS
  <2>2. IsFiniteSet(free \ {a}) /\ Cardinality(free \ {a}) # 0
    <3>1. /\ IsFiniteSet(free \ {a})
          /\ Cardinality(free \ {a}) = IF a \in free THEN Cardinality(free) - 1 ELSE Cardinality(free)
      BY <1>4, FS_RemoveElement
    <3>2. QED
      BY <1>3, <1>4, <2>1, <3>1
  <2>3. PICK b \in free \ {a} : TRUE
    BY <2>2, FS_EmptySet
  <2>4. b \in Appointments \ {a} /\ appointment[b].status = "None"
    BY <2>3 DEF free
  <2>5. QED
    BY <1>10, <2>4
<1>14. BookedIfValid(w, bs, second) # bs =>
         \A b \in Appointments : bs[b] # w.appointment[b] => <<NextAppointment(bs), b>> \in ns
  <2>1. SUFFICES ASSUME BookedIfValid(w, bs, second) # bs, NEW b \in Appointments, bs[b] # w.appointment[b]
                 PROVE  <<NextAppointment(bs), b>> \in ns
    OBVIOUS
  <2> DEFINE n == NextAppointment(bs)
  <2>2. appointment' = [bs EXCEPT ![n] = [second EXCEPT !.door = ValidDoor(w, n, second)]] /\ second.slot <= MaxSlot
    BY <1>3, <2>1 DEF BookedIfValid, Saved
  <2>3. second.slot = next
    BY DEF second, Booking, NoAppointment
  <2>4. n \in Appointments /\ bs[n].status = "None"
    BY <1>13, <2>2, <2>3, NextIsFree
  <2>5. second \in BookingRow /\ second.status = "Planned"
    <3>1. next \in 0..MaxSlot
      BY <1>1, <2>2, <2>3
    <3>2. QED
      BY <3>1, BookingMade DEF second
  <2> HIDE DEF n
  <2>6. appointment'[n].status = "Planned"
    <3>1. bs \in [Appointments -> BookingRow]
      BY <1>10 DEF BookingsFit, Bookings
    <3>2. appointment'[n] = [second EXCEPT !.door = ValidDoor(w, n, second)]
      BY <2>2, <2>4, <3>1
    <3>3. QED
      BY <2>5, <3>2 DEF BookingRow
  <2>7. appointment'[n] # appointment[n]
    <3>1. CASE n = a
      BY <1>7, <2>6, <3>1
    <3>2. CASE n # a
      BY <1>10, <2>4, <2>6, <3>2
    <3>3. QED
      BY <3>1, <3>2
  <2>8. QED
    BY <1>12, <1>m, <2>1, <2>4, <2>7 DEF n
<1>15. BookingsFit(BookedIfValid(w, bs, second), ns)
  <2>1. "Inbound" \in {"Inbound", "Outbound"} /\ None \in Documents \cup {None} /\ ns \subseteq ns
    OBVIOUS
  <2>2. QED
    BY <1>1, <1>10, <1>11, <1>13, <1>14, <2>1, BookedFits, ZenonT(60) DEF second
<1>16. QED
  BY <1>3, <1>15 DEF YardFits, ns

LEMMA PlanTruckFits ==
  ASSUME YardAssumption, YardFits, NEW slot \in 0..MaxSlot, NEW door \in DoorsAsked,
         NEW refs \in ((SUBSET Deliveries) \cup (SUBSET Shipments)),
         NEW v, ViewFits(v), missed' = missed \cup Missed(v), PlanTruck(v, slot, door, refs)
  PROVE  YardFits'
<1> DEFINE a == NextAppointment(appointment)
<1>1. a \in Appointments /\ refs \in SUBSET Documents
  <2>1. \E b \in Appointments : appointment[b].status = "None"
    BY DEF PlanTruck, NameLeft
  <2>2. a \in Appointments
    BY <2>1, NextIsFree
  <2>3. refs \in SUBSET Documents
    BY DEF Documents
  <2>4. QED
    BY <2>2, <2>3
<1>2. PICK first \in refs :
        LET booking == Booking(slot, door, DirectionOf(first), first)
        IN  Valid(v, a, booking) /\ appointment' = Saved(v, appointment, a, booking)
  BY DEF PlanTruck
<1> DEFINE booking == Booking(slot, door, DirectionOf(first), first)
<1>3. booking \in BookingRow /\ booking.status = "Planned"
  BY <1>1, BookingMade, DirectionOfDocument
<1>4. Valid(v, a, booking) /\ appointment' = Saved(v, appointment, a, booking)
  BY <1>2
<1>5. /\ transport' = UnitsPlanned(a, refs) /\ UNCHANGED yardTask
      /\ announced' = [d \in Documents |-> IF d \in refs
                         THEN [announced[d] EXCEPT !.yard = "Expected"] ELSE announced[d]]
  BY DEF PlanTruck
<1>6. announced \in [Documents -> DocumentRow] /\ UnitsPlaced(transport)
      /\ yardTask \subseteq [unit : Units, to_bin : Doors \cup Spots]
  BY DEF YardFits
<1>7. announced' \in [Documents -> DocumentRow]
  <2>1. \A d \in Documents : announced[d] \in DocumentRow
                             /\ [announced[d] EXCEPT !.yard = "Expected"] \in DocumentRow
    BY <1>6 DEF DocumentRow
  <2>2. QED
    BY <1>5, <2>1
<1> HIDE DEF a, booking
<1>8. UnitsPlaced(transport')
  BY <1>1, <1>5, <1>6, PlannedFits
<1>9. booking.status \in ACTIVE /\ booking.status # "At Door"
  BY <1>3 DEF ACTIVE
<1>10. BookingsFit(appointment', missed')
  BY <1>1, <1>3, <1>4, <1>9, SavedFits
<1>11. QED
  BY <1>4, <1>5, <1>6, <1>7, <1>8, <1>10 DEF YardFits

LEMMA NewUnitFits ==
  ASSUME YardAssumption, YardFits, NEW d \in Documents, NEW a \in Appointments \cup {None},
         NEW v, ViewFits(v), missed' = missed \cup Missed(v), AddToTruck(v, a, d) \/ CreateTransportUnit(a, d)
  PROVE  YardFits'
<1>1. UnitsPlaced(transport) /\ announced \in [Documents -> DocumentRow]
  BY DEF YardFits
<1>2. UNCHANGED <<appointment, yardTask>>
  BY DEF AddToTruck, CreateTransportUnit
<1>3. UnitsPlaced(transport') /\ announced' \in [Documents -> DocumentRow]
  <2>1. CASE CreateTransportUnit(a, d)
    <3>1. transport' = WithUnit(a, d, NoUnit) /\ announced' = announced
      BY <2>1 DEF CreateTransportUnit
    <3>2. QED
      BY <1>1, <3>1, WithUnitFits, NoUnitPlaced
  <2>2. CASE AddToTruck(v, a, d)
    <3>1. PICK like \in IF UnitsOf(v.transport, a) = {} THEN {NoUnit}
                   ELSE {v.transport[u] : u \in UnitsOf(v.transport, a)} :
            /\ transport' = WithUnit(a, d, like)
            /\ announced' = [announced EXCEPT ![d].yard =
                 IF like.status \in {"Departed", "Cancelled"} THEN "Expected" ELSE YardStatusOf(like.status)]
      BY <2>2 DEF AddToTruck
    <3>2. like \in UnitRow /\ Placed(like)
      <4>1. \A u \in UnitsOf(v.transport, a) : v.transport[u] \in UnitRow /\ Placed(v.transport[u])
        BY ViewsMean DEF UnitsPlaced, UnitsOf
      <4>2. QED
        BY <3>1, <4>1, NoUnitPlaced
    <3>3. UnitsPlaced(transport')
      BY <1>1, <3>1, <3>2, WithUnitFits
    <3> DEFINE status == IF like.status \in {"Departed", "Cancelled"} THEN "Expected" ELSE YardStatusOf(like.status)
    <3>4. status \in AnnouncedStates
      BY DEF YardStatusOf, AnnouncedStates
    <3> HIDE DEF status
    <3>5. [announced EXCEPT ![d].yard = status] \in [Documents -> DocumentRow]
      BY <1>1, <3>4 DEF DocumentRow, AnnouncedStates
    <3>6. QED
      BY <3>1, <3>3, <3>5 DEF status
  <2>3. QED
    BY <2>1, <2>2
<1>4. QED
  BY <1>2, <1>3, BookingsStay DEF YardFits

-----------------------------------------------------------------------------
(* The appointment's way through the yard. *)

LEMMA BookingRowOf ==
  ASSUME YardFits, NEW a \in Appointments
  PROVE  appointment[a] \in BookingRow
BY DEF YardFits, BookingsFit, Bookings

LEMMA CheckInFits ==
  ASSUME YardAssumption, YardFits, NEW a \in Appointments, NEW spot \in Spots \cup {None},
         NEW v, ViewFits(v), missed' = missed \cup Missed(v), CheckIn(v, a, spot)
  PROVE  YardFits'
<1> DEFINE booking == [appointment[a] EXCEPT !.status = "Checked In", !.spot = spot]
<1>1. booking \in BookingRow /\ booking.status = "Checked In"
  BY BookingRowOf DEF BookingRow, ACTIVE
<1>2. /\ Valid(v, a, booking) /\ appointment' = Saved(v, appointment, a, booking)
      /\ transport' = Synced(v, a, booking)
      /\ announced' = Told(v, announced, a, "In Yard") /\ UNCHANGED yardTask
  BY DEF CheckIn
<1>3. announced \in [Documents -> DocumentRow] /\ UnitsPlaced(transport)
      /\ yardTask \subseteq [unit : Units, to_bin : Doors \cup Spots]
  BY DEF YardFits
<1> HIDE DEF booking
<1>4. booking.status \in ACTIVE /\ booking.status # "At Door" /\ booking.status \in {"Checked In", "At Door", "Checked Out"}
  BY <1>1 DEF ACTIVE
<1>5. BookingsFit(appointment', missed')
  BY <1>1, <1>2, <1>4, SavedFits
<1>6. UnitsPlaced(Synced(v, a, booking))
  BY <1>1, <1>3, <1>4, FollowingFits
<1>7. "In Yard" \in AnnouncedStates
  BY DEF AnnouncedStates
<1>8. Told(v, announced, a, "In Yard") \in [Documents -> DocumentRow]
  BY <1>3, <1>7, DocumentsTold
<1>9. QED
  BY <1>2, <1>3, <1>5, <1>6, <1>8 DEF YardFits

LEMMA CheckInWalkInFits ==
  ASSUME YardAssumption, YardFits, clock \in 0..LastTick, NEW dir \in {"Inbound", "Outbound"},
         NEW spot \in Spots \cup {None}, NEW v, ViewFits(v), missed' = missed \cup Missed(v),
         CheckInWalkIn(v, dir, spot)
  PROVE  YardFits'
<1> DEFINE a == NextAppointment(appointment)
           booking == [NoAppointment EXCEPT !.status = "Checked In", !.slot = clock, !.walk_in = TRUE,
                                        !.direction = dir, !.spot = spot]
<1>1. a \in Appointments
  <2>1. \E b \in Appointments : appointment[b].status = "None"
    BY DEF CheckInWalkIn, NameLeft
  <2>2. QED
    BY <2>1, NextIsFree
<1>2. booking \in BookingRow /\ booking.status = "Checked In" /\ booking.walk_in /\ booking.door = None
  BY DEF NoAppointment, BookingRow, ACTIVE
<1>3. /\ appointment' = Saved(v, appointment, a, booking) /\ transport' = Synced(v, a, booking)
      /\ UNCHANGED <<yardTask, announced>>
  BY DEF CheckInWalkIn
<1>4. announced \in [Documents -> DocumentRow] /\ UnitsPlaced(transport)
      /\ yardTask \subseteq [unit : Units, to_bin : Doors \cup Spots]
  BY DEF YardFits
<1> HIDE DEF booking, a
<1>5. booking.status \in ACTIVE /\ booking.status # "At Door" /\ booking.status \in {"Checked In", "At Door", "Checked Out"}
  BY <1>2 DEF ACTIVE
<1>6. Valid(v, a, booking)
  BY <1>2 DEF Valid, HasCapacity
<1>7. BookingsFit(appointment', missed')
  BY <1>1, <1>2, <1>3, <1>5, <1>6, SavedFits
<1>8. UnitsPlaced(Synced(v, a, booking))
  BY <1>1, <1>2, <1>4, <1>5, FollowingFits
<1>9. QED
  BY <1>3, <1>4, <1>7, <1>8 DEF YardFits

\* A truck that may go to a door books it and stands there with its units.
LEMMA DockedFits ==
  ASSUME YardAssumption, YardFits, NEW a \in Appointments, NEW door \in Doors \cup {None},
         NEW v, ViewFits(v), missed' = missed \cup Missed(v), MayDock(v, a, door), appointment' = Saved(v, appointment, a, DockedAt(a, DoorFor(v, a, door)))
  PROVE  /\ DoorFor(v, a, door) \in Doors
         /\ BookingsFit(appointment', missed') /\ UnitsPlaced(Synced(v, a, DockedAt(a, DoorFor(v, a, door))))
         /\ Told(v, WithShipmentDoor(announced, a, DoorFor(v, a, door)), a, "At Door") \in [Documents -> DocumentRow]
<1> DEFINE at == DoorFor(v, a, door)
           booking == DockedAt(a, at)
<1>1. /\ appointment[a] \in BookingRow /\ UnitsPlaced(transport)
      /\ announced \in [Documents -> DocumentRow]
  BY BookingRowOf DEF YardFits
<1>2. /\ at # None /\ ~Occupied(v.appointment, at, a) /\ Valid(v, a, booking)
      /\ appointment' = Saved(v, appointment, a, booking)
  BY DEF MayDock
<1>3. at \in Doors
  <2>1. \A first, last, now : FreeDoor(v.appointment, first, last, a, now) \in Doors \cup {None}
    BY <1>1, DoorsFound
  <2>2. appointment[a].door \in Doors \cup {None}
    BY <1>1 DEF BookingRow
  <2>3. QED
    BY <1>2, <2>1, <2>2 DEF DoorFor
<1>4. booking \in BookingRow /\ booking.status = "At Door" /\ booking.door = at
  <2> HIDE DEF at
  <2>1. QED
    BY <1>1, <1>3 DEF DockedAt, BookingRow, ACTIVE
<1> HIDE DEF booking, at
<1>5. booking.status \in ACTIVE /\ booking.status \in {"Checked In", "At Door", "Checked Out"}
  BY <1>4 DEF ACTIVE
<1>6. BookingsFit(appointment', missed')
  BY <1>2, <1>4, <1>5, SavedFits
<1>7. UnitsPlaced(Synced(v, a, booking))
  BY <1>1, <1>2, <1>4, <1>5, FollowingFits
<1>8. Told(v, WithShipmentDoor(announced, a, at), a, "At Door") \in [Documents -> DocumentRow]
  <2>1. "At Door" \in AnnouncedStates
    BY DEF AnnouncedStates
  <2>2. WithShipmentDoor(announced, a, at) \in [Documents -> DocumentRow]
    BY <1>1, <1>3, DocumentDoor
  <2>3. QED
    BY <2>1, <2>2, DocumentsTold
<1>9. QED
  BY <1>3, <1>6, <1>7, <1>8 DEF booking, at

LEMMA ToDoorFits ==
  ASSUME YardAssumption, YardFits, NEW a \in Appointments, NEW door \in DoorsAsked,
         NEW v, ViewFits(v), missed' = missed \cup Missed(v), ToDoor(v, a, door)
  PROVE  YardFits'
<1> DEFINE at == DoorFor(v, a, door)
           booking == DockedAt(a, at)
<1>1. door \in Doors \cup {None} /\ MayDock(v, a, door)
  BY YardConstants DEF ToDoor
<1>2. booking.door = at
  BY BookingRowOf DEF DockedAt, BookingRow
<1>3. /\ appointment' = Saved(v, appointment, a, booking) /\ transport' = Synced(v, a, booking)
      /\ announced' = Told(v, WithShipmentDoor(announced, a, booking.door), a, "At Door") /\ UNCHANGED yardTask
  BY DEF ToDoor
<1>4. /\ BookingsFit(appointment', missed') /\ UnitsPlaced(Synced(v, a, booking))
      /\ Told(v, WithShipmentDoor(announced, a, at), a, "At Door") \in [Documents -> DocumentRow]
  BY <1>1, <1>3, DockedFits
<1> HIDE DEF at, booking
<1>5. QED
  BY <1>2, <1>3, <1>4 DEF YardFits

\* The appointment ends; its truck, or nothing, follows.
LEMMA EndedFits ==
  ASSUME YardAssumption, YardFits, missed \subseteq missed', appointment' \in Bookings,
         \A a \in Appointments :
           \/ appointment'[a] = appointment[a]
           \/ /\ appointment'[a].status \notin ACTIVE /\ appointment'[a].slot = appointment[a].slot
              /\ CountsForCarrier(appointment'[a]) => CountsForCarrier(appointment[a])
  PROVE  BookingsFit(appointment', missed')
<1> DEFINE ns == missed'
           cs == appointment'
<1>1. BookingsFit(appointment, missed) /\ missed \subseteq ns /\ cs \in Bookings
  BY DEF YardFits
<1>2. \A a \in Appointments :
        \/ cs[a] = appointment[a]
        \/ /\ cs[a].status \notin ACTIVE /\ cs[a].slot = appointment[a].slot
           /\ CountsForCarrier(cs[a]) => CountsForCarrier(appointment[a])
  OBVIOUS
<1> HIDE DEF ns, cs
<1>3. BookingsFit(cs, ns)
  BY <1>1, <1>2, BookingsEnd
<1>4. QED
  BY <1>3 DEF ns, cs

\* A booking that gets a status of the end.
LEMMA EndOf ==
  ASSUME YardAssumption, YardFits, NEW a \in Appointments, appointment[a].status # "None",
         NEW status \in {"Completed", "Checked Out", "No Show", "Cancelled"},
         status \in {"Completed", "Checked Out"} => appointment[a].status \notin {"None", "Cancelled", "No Show"}
  PROVE  LET row == [appointment[a] EXCEPT !.status = status]
         IN  /\ row \in BookingRow /\ row.status = status /\ row.status \notin ACTIVE
             /\ row.slot = appointment[a].slot /\ (CountsForCarrier(row) => CountsForCarrier(appointment[a]))
<1>1. appointment[a] \in BookingRow
  BY BookingRowOf
<1> DEFINE row == [appointment[a] EXCEPT !.status = status]
<1>2. row \in BookingRow /\ row.status = status /\ row.slot = appointment[a].slot /\ row.walk_in = appointment[a].walk_in
  BY <1>1 DEF BookingRow
<1>3. row.status \notin ACTIVE
  BY <1>2 DEF ACTIVE
<1> HIDE DEF row
<1>4. CountsForCarrier(row) => CountsForCarrier(appointment[a])
  BY <1>2 DEF CountsForCarrier
<1>5. QED
  BY <1>2, <1>3, <1>4 DEF row

LEMMA OneEnds ==
  ASSUME YardAssumption, YardFits, missed \subseteq missed', NEW a \in Appointments, appointment[a].status # "None",
         NEW status \in {"Completed", "Checked Out", "No Show", "Cancelled"},
         status \in {"Completed", "Checked Out"} => appointment[a].status \notin {"None", "Cancelled", "No Show"},
         appointment' = [appointment EXCEPT ![a] = [appointment[a] EXCEPT !.status = status]]
  PROVE  BookingsFit(appointment', missed')
<1> DEFINE row == [appointment[a] EXCEPT !.status = status]
<1>1. /\ row \in BookingRow /\ row.status \notin ACTIVE
      /\ row.slot = appointment[a].slot /\ (CountsForCarrier(row) => CountsForCarrier(appointment[a]))
  BY EndOf
<1>2. appointment' = [appointment EXCEPT ![a] = row] /\ appointment \in Bookings
  BY DEF YardFits, BookingsFit
<1> HIDE DEF row
<1>3. appointment' \in Bookings /\ appointment'[a] = row /\ \A b \in Appointments \ {a} : appointment'[b] = appointment[b]
  BY <1>1, <1>2 DEF Bookings
<1>4. \A b \in Appointments :
        \/ appointment'[b] = appointment[b]
        \/ /\ appointment'[b].status \notin ACTIVE /\ appointment'[b].slot = appointment[b].slot
           /\ CountsForCarrier(appointment'[b]) => CountsForCarrier(appointment[b])
  BY <1>1, <1>3
<1>5. QED
  BY <1>3, <1>4, EndedFits

LEMMA CompleteFits ==
  ASSUME YardAssumption, YardFits, NEW a \in Appointments, missed \subseteq missed', Complete(a) \/ CancelAppointment(a)
  PROVE  YardFits'
<1>1. PICK status \in {"Completed", "Cancelled"} :
        /\ appointment' = [appointment EXCEPT ![a] = [appointment[a] EXCEPT !.status = status]]
        /\ status = "Completed" => appointment[a].status = "At Door"
        /\ status = "Cancelled" => appointment[a].status = "Planned"
  BY DEF Complete, CancelAppointment
<1>2. UNCHANGED <<transport, yardTask, announced>>
  BY DEF Complete, CancelAppointment
<1>3. BookingsFit(appointment', missed')
  BY <1>1, OneEnds
<1>4. QED
  BY <1>2, <1>3 DEF YardFits

\* A truck that is checked out, with all its units.
LEMMA CheckedOutFits ==
  ASSUME YardAssumption, YardFits, NEW v, missed \subseteq missed', NEW a \in Appointments, InTheYard(a),
         appointment' = [appointment EXCEPT ![a] = CheckedOut(a)]
  PROVE  /\ BookingsFit(appointment', missed') /\ UnitsPlaced(Synced(v, a, CheckedOut(a)))
         /\ Told(v, announced, a, "Departed") \in [Documents -> DocumentRow]
<1>1. appointment[a].status \in {"Checked In", "At Door", "Completed"} /\ UnitsPlaced(transport)
      /\ announced \in [Documents -> DocumentRow]
  BY DEF InTheYard, YardFits
<1>2. BookingsFit(appointment', missed')
  BY <1>1, OneEnds DEF CheckedOut
<1>3. CheckedOut(a) \in BookingRow /\ CheckedOut(a).status = "Checked Out"
  BY <1>1, EndOf DEF CheckedOut
<1>4. UnitsPlaced(Synced(v, a, CheckedOut(a)))
  BY <1>1, <1>3, FollowingFits
<1>5. "Departed" \in AnnouncedStates
  BY DEF AnnouncedStates
<1>6. Told(v, announced, a, "Departed") \in [Documents -> DocumentRow]
  BY <1>1, <1>5, DocumentsTold
<1>7. QED
  BY <1>2, <1>4, <1>6

LEMMA CheckOutFits ==
  ASSUME YardAssumption, YardFits, NEW a \in Appointments, NEW v, missed \subseteq missed', CheckOut(v, a)
  PROVE  YardFits'
<1>1. InTheYard(a) /\ appointment' = [appointment EXCEPT ![a] = CheckedOut(a)]
      /\ transport' = Synced(v, a, CheckedOut(a))
      /\ announced' = Told(v, announced, a, "Departed") /\ UNCHANGED yardTask
  BY DEF CheckOut
<1>2. QED
  BY <1>1, CheckedOutFits DEF YardFits

LEMMA MarkNoShowsFits ==
  ASSUME YardAssumption, YardFits, MarkNoShows
  PROVE  YardFits'
<1>1. /\ appointment' = [a \in Appointments |->
           IF Overdue(a) THEN [appointment[a] EXCEPT !.status = "No Show"] ELSE appointment[a]]
      /\ UNCHANGED <<transport, yardTask, announced>>
  BY DEF MarkNoShows
<1>2. ASSUME NEW a \in Appointments
      PROVE  /\ appointment'[a] \in BookingRow
             /\ \/ appointment'[a] = appointment[a]
                \/ /\ appointment'[a].status \notin ACTIVE /\ appointment'[a].slot = appointment[a].slot
                   /\ CountsForCarrier(appointment'[a]) => CountsForCarrier(appointment[a])
  <2>1. CASE Overdue(a)
    <3>1. appointment[a].status = "Planned"
      BY <2>1 DEF Overdue
    <3>2. appointment'[a] = [appointment[a] EXCEPT !.status = "No Show"]
      BY <1>1, <2>1
    <3>3. QED
      BY <3>1, <3>2, EndOf
  <2>2. CASE ~Overdue(a)
    BY <1>1, <2>2, BookingRowOf
  <2>3. QED
    BY <2>1, <2>2
<1>3. appointment' \in Bookings
  BY <1>1, <1>2 DEF Bookings
<1>4. BookingsFit(appointment', missed')
  <2>1. missed \subseteq missed'
    BY DEF MarkNoShows
  <2>2. QED
    BY <1>2, <1>3, <2>1, EndedFits
<1>5. QED
  BY <1>1, <1>4 DEF YardFits

LEMMA DepartShipmentFits ==
  ASSUME YardAssumption, YardFits, NEW d \in Documents, NEW v, missed \subseteq missed', WritesWhatItSaw(v),
         DepartShipment(v, d)
  PROVE  YardFits'
<1> DEFINE ends(a) == v.appointment[a].ref = d /\ v.appointment[a].status \in {"Checked In", "At Door"}
<1>1. /\ appointment' = [a \in Appointments |->
           IF ends(a) THEN [appointment[a] EXCEPT !.status = "Completed"] ELSE appointment[a]]
      /\ announced' = [announced EXCEPT ![d].work = "Departed"] /\ UNCHANGED <<transport, yardTask>>
  BY DEF DepartShipment
<1>2. ASSUME NEW a \in Appointments
      PROVE  /\ appointment'[a] \in BookingRow
             /\ \/ appointment'[a] = appointment[a]
                \/ /\ appointment'[a].status \notin ACTIVE /\ appointment'[a].slot = appointment[a].slot
                   /\ CountsForCarrier(appointment'[a]) => CountsForCarrier(appointment[a])
  <2>1. CASE ends(a)
    <3>1. appointment'[a] = [appointment[a] EXCEPT !.status = "Completed"]
      BY <1>1, <2>1
    <3>2. CASE appointment[a] = v.appointment[a]
      <4>1. appointment[a].status \notin {"None", "Cancelled", "No Show"}
        BY <2>1, <3>2
      <4>2. QED
        BY <3>1, <4>1, EndOf
    <3>3. CASE appointment'[a] = appointment[a]
      BY <3>3, BookingRowOf
    <3>4. QED
      BY <3>2, <3>3 DEF WritesWhatItSaw
  <2>2. CASE ~ends(a)
    BY <1>1, <2>2, BookingRowOf
  <2>3. QED
    BY <2>1, <2>2
<1> HIDE DEF ends
<1>3. appointment' \in Bookings
  BY <1>1, <1>2 DEF Bookings
<1>4. BookingsFit(appointment', missed')
  BY <1>2, <1>3, EndedFits
<1>5. announced' \in [Documents -> DocumentRow]
  BY <1>1 DEF YardFits, DocumentRow
<1>6. QED
  BY <1>1, <1>4, <1>5 DEF YardFits

LEMMA WorkOnDocumentFits ==
  ASSUME YardAssumption, YardFits, NEW d \in Documents, NEW v, ViewFits(v), missed' = missed \cup Missed(v), WorkOnDocument(v, d)
  PROVE  YardFits'
<1>1. announced' = [announced EXCEPT ![d].work = "Started"] /\ UNCHANGED <<appointment, transport, yardTask>>
  BY DEF WorkOnDocument
<1>2. announced' \in [Documents -> DocumentRow]
  BY <1>1 DEF YardFits, DocumentRow
<1>3. QED
  BY <1>1, <1>2, BookingsStay DEF YardFits

-----------------------------------------------------------------------------
(* The units' own way through the yard. *)

LEMMA ArriveFits ==
  ASSUME YardAssumption, YardFits, NEW u \in Units, NEW spot \in Spots \cup {None},
         NEW v, ViewFits(v), missed' = missed \cup Missed(v), Arrive(v, u, spot)
  PROVE  YardFits'
<1> DEFINE row == [transport[u] EXCEPT !.status = "In Yard", !.spot = spot]
<1>1. transport[u].status = "Planned" /\ UNCHANGED <<appointment, yardTask, announced>>
  BY DEF Arrive
<1>2. transport \in [Units -> UnitRow] /\ Placed(transport[u]) /\ UnitsPlaced(transport)
  BY DEF YardFits, UnitsPlaced
<1>3. transport' = [transport EXCEPT ![u] = row]
  BY <1>2 DEF Arrive, UnitRow
<1>4. row \in UnitRow
  BY <1>2 DEF UnitRow, LIVE
<1>5. Placed(row)
  BY <1>1, <1>2 DEF Placed, UnitRow
<1> HIDE DEF row
<1>6. UnitsPlaced(transport')
  BY <1>2, <1>3, <1>4, <1>5, UnitChanged
<1>7. QED
  BY <1>1, <1>6, BookingsStay DEF YardFits

LEMMA StartWorkFits ==
  ASSUME YardAssumption, YardFits, NEW u \in Units, NEW kind \in {"Loading", "Unloading"},
         NEW v, ViewFits(v), missed' = missed \cup Missed(v), StartWork(u, kind)
  PROVE  YardFits'
<1> DEFINE row == [transport[u] EXCEPT !.status = kind]
<1>1. transport[u].status = "At Door" /\ UNCHANGED <<appointment, yardTask, announced>>
      /\ transport' = [transport EXCEPT ![u] = row]
  BY DEF StartWork
<1>2. transport \in [Units -> UnitRow] /\ Placed(transport[u]) /\ UnitsPlaced(transport)
  BY DEF YardFits, UnitsPlaced
<1>3. row \in UnitRow
  BY <1>2 DEF UnitRow, LIVE
<1>4. Placed(row)
  BY <1>1, <1>2 DEF Placed, UnitRow
<1> HIDE DEF row
<1>5. UnitsPlaced(transport')
  BY <1>1, <1>2, <1>3, <1>4, UnitChanged
<1>6. QED
  BY <1>1, <1>5, BookingsStay DEF YardFits

LEMMA MovedFits ==
  ASSUME YardAssumption, NEW row \in UnitRow, NEW bin \in Doors \cup Spots
  PROVE  MovedTo(row, bin) \in UnitRow /\ Placed(MovedTo(row, bin))
<1>1. None \notin Doors
  BY YardConstants
<1>2. CASE bin \in Doors
  <2>1. MovedTo(row, bin) = [row EXCEPT !.door = bin, !.spot = None, !.status = "At Door"]
    BY <1>2 DEF MovedTo
  <2>2. QED
    BY <1>1, <1>2, <2>1 DEF UnitRow, Placed, LIVE
<1>3. CASE bin \notin Doors
  <2>1. MovedTo(row, bin) = [row EXCEPT !.spot = bin, !.door = None, !.status = "In Yard"]
    BY <1>3 DEF MovedTo
  <2>2. QED
    BY <1>3, <2>1 DEF UnitRow, Placed, LIVE
<1>4. QED
  BY <1>2, <1>3

LEMMA ConfirmYardMoveFits ==
  ASSUME YardAssumption, YardFits, NEW t \in yardTask, NEW v, ViewFits(v), missed' = missed \cup Missed(v),
         ConfirmYardMove(v, t)
  PROVE  YardFits'
<1> DEFINE a == transport[t.unit].of
           docks == t.to_bin \in Doors /\ a # None
                      /\ v.appointment[a].status \in {"Planned", "Checked In"}
<1>1. t.unit \in Units /\ t.to_bin \in Doors \cup Spots /\ yardTask \subseteq [unit : Units, to_bin : Doors \cup Spots]
      /\ UnitsPlaced(transport) /\ announced \in [Documents -> DocumentRow]
  BY DEF YardFits
<1>2. a \in Appointments \cup {None}
  BY <1>1 DEF UnitsPlaced, UnitRow
<1>3. yardTask' = yardTask \ {t}
  BY DEF ConfirmYardMove
<1>4. BookingsFit(appointment', missed') /\ announced' \in [Documents -> DocumentRow] /\ UnitsPlaced(transport')
  <2>1. CASE docks
    <3> DEFINE booking == DockedAt(a, t.to_bin)
               moved == Synced(v, a, booking)
    <3>1. /\ MayDock(v, a, t.to_bin) /\ appointment' = Saved(v, appointment, a, booking)
          /\ transport' = [moved EXCEPT ![t.unit] = MovedTo(moved[t.unit], t.to_bin)]
          /\ announced' = Told(v, WithShipmentDoor(announced, a, t.to_bin), a, "At Door")
      BY <2>1 DEF ConfirmYardMove, Synced
    <3>2. a \in Appointments /\ t.to_bin \in Doors \cup {None}
      BY <1>2, <2>1
    <3>3. DoorFor(v, a, t.to_bin) = t.to_bin
      BY <2>1, YardConstants DEF DoorFor
    <3>4. /\ BookingsFit(appointment', missed') /\ UnitsPlaced(moved)
          /\ Told(v, WithShipmentDoor(announced, a, t.to_bin), a, "At Door") \in [Documents -> DocumentRow]
      <4> HIDE DEF a
      <4>1. QED
        BY <3>1, <3>2, <3>3, DockedFits
    <3> HIDE DEF moved, booking, a
    <3>5. moved[t.unit] \in UnitRow
      BY <1>1, <3>4 DEF UnitsPlaced
    <3>6. MovedTo(moved[t.unit], t.to_bin) \in UnitRow /\ Placed(MovedTo(moved[t.unit], t.to_bin))
      BY <1>1, <3>5, MovedFits
    <3>7. UnitsPlaced(transport')
      BY <3>1, <3>4, <3>6, UnitChanged
    <3>8. QED
      BY <3>1, <3>4, <3>7
  <2>2. CASE ~docks
    <3>1. transport' = [transport EXCEPT ![t.unit] = MovedTo(transport[t.unit], t.to_bin)]
          /\ UNCHANGED <<appointment, announced>>
      BY <2>2 DEF ConfirmYardMove
    <3>2. transport[t.unit] \in UnitRow
      BY <1>1 DEF UnitsPlaced
    <3>3. MovedTo(transport[t.unit], t.to_bin) \in UnitRow /\ Placed(MovedTo(transport[t.unit], t.to_bin))
      BY <1>1, <3>2, MovedFits
    <3>4. UnitsPlaced(transport')
      BY <1>1, <3>1, <3>3, UnitChanged
    <3>5. QED
      BY <1>1, <3>1, <3>4, BookingsStay
  <2>3. QED
    BY <2>1, <2>2
<1>5. QED
  BY <1>1, <1>3, <1>4 DEF YardFits

LEMMA RequestYardMoveFits ==
  ASSUME YardAssumption, YardFits, NEW u \in Units, NEW bin \in Doors \cup Spots,
         NEW v, ViewFits(v), missed' = missed \cup Missed(v), RequestYardMove(v, u, bin)
  PROVE  YardFits'
<1>1. UNCHANGED appointment
  BY DEF RequestYardMove
<1>2. BookingsFit(appointment', missed')
  BY <1>1, BookingsStay
<1>3. QED
  BY <1>2 DEF YardFits, RequestYardMove

LEMMA DepartFits ==
  ASSUME YardAssumption, YardFits, NEW u \in Units, NEW v, ViewFits(v), missed' = missed \cup Missed(v), Depart(v, u)
  PROVE  YardFits'
<1> DEFINE a == transport[u].of
           goes == a # None /\ v.appointment[a].status \in {"Checked In", "At Door", "Completed"}
           row == [transport[u] EXCEPT !.status = "Departed", !.spot = None, !.door = None]
<1>1. UnitsPlaced(transport) /\ transport \in [Units -> UnitRow] /\ a \in Appointments \cup {None} /\ UNCHANGED yardTask
  BY DEF YardFits, UnitsPlaced, UnitRow, Depart
<1>2. CASE goes
  <2> DEFINE moved == Synced(v, a, CheckedOut(a))
  <2>1. /\ InTheYard(a) /\ appointment' = [appointment EXCEPT ![a] = CheckedOut(a)]
        /\ transport' = [moved EXCEPT ![u] = [transport EXCEPT ![u] = row][u]]
        /\ announced' = Told(v, announced, a, "Departed")
    <3>1. Depart(v, u)
      OBVIOUS
    <3>2. QED
      BY ONLY <1>2, <3>1 DEF Depart
  <2>2. a \in Appointments /\ missed \subseteq missed'
    BY <1>1, <1>2
  <2>3. row \in UnitRow /\ Placed(row)
    BY <1>1 DEF UnitRow, Placed, LIVE
  <2> HIDE DEF a, row
  <2>4. BookingsFit(appointment', missed') /\ UnitsPlaced(moved) /\ announced' \in [Documents -> DocumentRow]
    BY <2>1, <2>2, CheckedOutFits
  <2> HIDE DEF moved
  <2>5. transport' = [moved EXCEPT ![u] = row]
    BY <1>1, <2>1
  <2>6. UnitsPlaced(transport')
    BY <2>3, <2>4, <2>5, UnitChanged
  <2>7. QED
    BY <1>1, <2>4, <2>6 DEF YardFits
<1>3. CASE ~goes
  <2>1. transport' = [transport EXCEPT ![u] = row] /\ UNCHANGED <<appointment, announced>>
    BY <1>3 DEF Depart
  <2>2. row \in UnitRow /\ Placed(row)
    BY <1>1 DEF UnitRow, Placed, LIVE
  <2> HIDE DEF row
  <2>3. UnitsPlaced(transport')
    BY <1>1, <2>1, <2>2, UnitChanged
  <2>4. QED
    BY <1>1, <2>1, <2>3, BookingsStay DEF YardFits
<1>4. QED
  BY <1>2, <1>3

-----------------------------------------------------------------------------
(* The invariant of the yard. *)

LEMMA YardInitFits == ASSUME YardAssumption, YardInit PROVE YardInvariant
<1>1. appointment = [a \in Appointments |-> NoAppointment] /\ transport = [u \in Units |-> NoUnit]
      /\ yardTask = {} /\ clock = 0 /\ yardWork = 0 /\ missed = {} /\ looked = [k \in Desks |-> None]
      /\ announced = [d \in Documents |-> [yard |-> "None", door |-> None, work |-> "Open"]]
  BY DEF YardInit
<1>2. NoAppointment \in BookingRow
  BY YardConstants DEF NoAppointment, BookingRow
<1>3. appointment \in Bookings /\ \A a \in Appointments : appointment[a] = NoAppointment
  BY <1>1, <1>2 DEF Bookings
<1>4. NoAppointment.status \notin ACTIVE /\ ~CountsForCarrier(NoAppointment)
  BY DEF NoAppointment, ACTIVE, CountsForCarrier
<1>5. DisjointIn(appointment, missed)
  <2>1. \A a \in Appointments : appointment[a].status \notin ACTIVE
    BY <1>3, <1>4
  <2>2. QED
    BY <2>1 DEF DisjointIn, Apart
<1>6. CapacityIn(appointment, missed)
  <2>1. \A carrier, day : TrucksBooked(appointment, carrier, day) = {}
    BY <1>3, <1>4 DEF TrucksBooked
  <2>2. Cardinality({}) = 0 /\ TrucksPerDay \in Nat
    BY FS_EmptySet, YardConstants
  <2>3. 0 <= TrucksPerDay
    BY <2>2
  <2>4. QED
    BY <2>1, <2>2, <2>3 DEF CapacityIn
<1>7. UnitsPlaced(transport)
  BY <1>1, NoUnitPlaced DEF UnitsPlaced
<1>8. announced \in [Documents -> DocumentRow]
  BY <1>1 DEF DocumentRow
<1>9. 0 \in 0..LastTick /\ 0 \in 0..MaxWork
  BY YardConstants
<1>10. QED
  BY <1>1, <1>3, <1>5, <1>6, <1>7, <1>8, <1>9 DEF YardInvariant, YardFits, BookingsFit

LEMMA OperationFits ==
  ASSUME YardAssumption, YardInvariant, NEW v, ViewFits(v), Request(v)
  PROVE  YardFits'
<1>1. /\ YardFits /\ clock \in 0..LastTick /\ missed' = missed \cup Missed(v) /\ missed \subseteq missed'
      /\ WritesWhatItSaw(v) /\ Operation(v)
  BY DEF YardInvariant, Request
<1>2. \A slot \in clock..MaxSlot : slot \in 0..MaxSlot
  BY <1>1, YardConstants
<1>3. \A door \in DoorsAsked : door \in Doors \cup {None}
  BY YardConstants
<1>4. CASE \E slot \in clock..MaxSlot, door \in DoorsAsked, d \in Documents : CreateAppointment(v, slot, door, d)
  BY <1>1, <1>2, <1>4, CreateAppointmentFits
<1>5. CASE \E slot \in clock..MaxSlot, door \in DoorsAsked : CreateRecurring(v, slot, door)
  BY <1>1, <1>2, <1>5, CreateRecurringFits
<1>6. CASE \E slot \in clock..MaxSlot, door \in DoorsAsked,
             refs \in ((SUBSET Deliveries) \cup (SUBSET Shipments)) \ {{}} : PlanTruck(v, slot, door, refs)
  BY <1>1, <1>2, <1>6, PlanTruckFits
<1>7. CASE \E dir \in {"Inbound", "Outbound"}, spot \in Spots \cup {None} : CheckInWalkIn(v, dir, spot)
  BY <1>1, <1>7, CheckInWalkInFits
<1>8. CASE \E a \in Appointments :
             \/ \E d \in Documents : AddToTruck(v, a, d)
             \/ \E spot \in Spots \cup {None} : CheckIn(v, a, spot)
             \/ \E door \in DoorsAsked : ToDoor(v, a, door)
             \/ Complete(a) \/ CheckOut(v, a) \/ CancelAppointment(a)
  <2>1. PICK a \in Appointments :
             \/ \E d \in Documents : AddToTruck(v, a, d)
             \/ \E spot \in Spots \cup {None} : CheckIn(v, a, spot)
             \/ \E door \in DoorsAsked : ToDoor(v, a, door)
             \/ Complete(a) \/ CheckOut(v, a) \/ CancelAppointment(a)
    BY <1>8
  <2>2. CASE \E d \in Documents : AddToTruck(v, a, d)
    BY <1>1, <2>2, NewUnitFits
  <2>3. CASE \E spot \in Spots \cup {None} : CheckIn(v, a, spot)
    BY <1>1, <2>3, CheckInFits
  <2>4. CASE \E door \in DoorsAsked : ToDoor(v, a, door)
    BY <1>1, <2>4, ToDoorFits
  <2>5. CASE Complete(a) \/ CancelAppointment(a)
    BY <1>1, <2>5, CompleteFits
  <2>6. CASE CheckOut(v, a)
    BY <1>1, <2>6, CheckOutFits
  <2>7. QED
    BY <2>1, <2>2, <2>3, <2>4, <2>5, <2>6
<1>9. CASE \E a \in Appointments \cup {None}, d \in Documents : CreateTransportUnit(a, d)
  BY <1>1, <1>9, NewUnitFits
<1>10. CASE \E u \in Units :
             \/ \E spot \in Spots \cup {None} : Arrive(v, u, spot)
             \/ \E bin \in Doors \cup Spots : RequestYardMove(v, u, bin)
             \/ StartWork(u, "Loading") \/ StartWork(u, "Unloading")
             \/ Depart(v, u)
  <2>1. PICK u \in Units :
             \/ \E spot \in Spots \cup {None} : Arrive(v, u, spot)
             \/ \E bin \in Doors \cup Spots : RequestYardMove(v, u, bin)
             \/ StartWork(u, "Loading") \/ StartWork(u, "Unloading")
             \/ Depart(v, u)
    BY <1>10
  <2>2. CASE \E spot \in Spots \cup {None} : Arrive(v, u, spot)
    BY <1>1, <2>2, ArriveFits
  <2>3. CASE \E bin \in Doors \cup Spots : RequestYardMove(v, u, bin)
    BY <1>1, <2>3, RequestYardMoveFits
  <2>4. CASE \E kind \in {"Loading", "Unloading"} : StartWork(u, kind)
    BY <1>1, <2>4, StartWorkFits
  <2>5. CASE Depart(v, u)
    BY <1>1, <2>5, DepartFits
  <2>6. QED
    BY <2>1, <2>2, <2>3, <2>4, <2>5
<1>11. CASE \E t \in yardTask : ConfirmYardMove(v, t)
  BY <1>1, <1>11, ConfirmYardMoveFits
<1>12. CASE \E d \in Documents : WorkOnDocument(v, d) \/ DepartShipment(v, d)
  BY <1>1, <1>12, WorkOnDocumentFits, DepartShipmentFits
<1>13. QED
  BY <1>1, <1>4, <1>5, <1>6, <1>7, <1>8, <1>9, <1>10, <1>11, <1>12 DEF Operation

\* What a request leaves, of the tables that stand or of ones it has seen.
LEMMA RequestFits ==
  ASSUME YardAssumption, YardInvariant, NEW v, ViewFits(v), Request(v)
  PROVE  YardFits' /\ missed' \subseteq Appointments \X Appointments
<1>1. missed \subseteq Appointments \X Appointments /\ Missed(v) \subseteq Appointments \X Appointments
      /\ missed' = missed \cup Missed(v)
  BY DEF YardInvariant, Missed, Request
<1>2. QED
  BY <1>1, OperationFits

LEMMA YardStepFits ==
  ASSUME YardAssumption, YardInvariant, [YardNext]_yardVars
  PROVE  YardInvariant'
<1> DEFINE SeenFits == /\ looked \in [Desks -> Views \cup {None}]
                       /\ \A k \in Desks : looked[k] # None => ViewFits(looked[k])
<1>1. /\ YardFits /\ clock \in 0..LastTick /\ yardWork \in 0..MaxWork /\ LastTick \in Nat /\ MaxWork \in Nat
      /\ missed \subseteq Appointments \X Appointments /\ SeenFits
  BY YardConstants DEF YardInvariant
<1>v. UNCHANGED <<ACTIVE, LIVE>> /\ LastTick' = LastTick /\ Views' = Views
  BY DEF ACTIVE, LIVE, LastTick, Views, BookingRow, UnitRow, DocumentRow, Documents
<1>2. CASE /\ yardWork < MaxWork /\ yardWork' = yardWork + 1 /\ clock' = clock
           /\ \/ Request(Standing) /\ UNCHANGED looked
              \/ \E k \in Desks : looked[k] # None /\ Request(looked[k]) /\ looked' = [looked EXCEPT ![k] = None]
  <2>1. YardFits' /\ missed' \subseteq Appointments \X Appointments /\ SeenFits'
    <3>1. CASE Request(Standing) /\ UNCHANGED looked
      <4>1. ViewFits(Standing)
        BY <1>1, StandingFits
      <4>2. YardFits' /\ missed' \subseteq Appointments \X Appointments
        BY <3>1, <4>1, RequestFits
      <4>3. SeenFits'
        BY <1>1, <1>v, <3>1 DEF ViewFits, UnitsPlaced, UnitRow, Placed, LIVE, Documents
      <4>4. QED
        BY <4>2, <4>3
    <3>2. CASE \E k \in Desks : looked[k] # None /\ Request(looked[k]) /\ looked' = [looked EXCEPT ![k] = None]
      <4>1. PICK k \in Desks : looked[k] # None /\ Request(looked[k]) /\ looked' = [looked EXCEPT ![k] = None]
        BY <3>2
      <4>2. ViewFits(looked[k])
        BY <1>1, <4>1
      <4>3. YardFits' /\ missed' \subseteq Appointments \X Appointments
        BY <4>1, <4>2, RequestFits
      <4>4. SeenFits'
        BY <1>1, <1>v, <4>1 DEF ViewFits, UnitsPlaced, UnitRow, Placed, LIVE, Documents
      <4>5. QED
        BY <4>3, <4>4
    <3>3. QED
      BY <1>2, <3>1, <3>2
  <2>2. yardWork' \in 0..MaxWork /\ clock' \in 0..LastTick
    BY <1>1, <1>2
  <2>3. QED
    BY <2>1, <2>2 DEF YardInvariant, LastTick
<1>3. CASE MarkNoShows
  <2>1. YardFits'
    BY <1>1, <1>3, MarkNoShowsFits
  <2>2. clock' = clock /\ yardWork' = yardWork /\ looked' = looked /\ missed' = missed
    BY <1>3 DEF MarkNoShows
  <2>3. QED
    BY <1>1, <2>1, <2>2 DEF YardInvariant, LastTick
<1>4. CASE Tick
  <2>1. clock' \in 0..LastTick /\ UNCHANGED <<appointment, transport, yardTask, announced, looked, missed, yardWork>>
    BY <1>1, <1>4 DEF Tick
  <2>2. YardFits'
    BY <1>1, <2>1 DEF YardFits
  <2>3. QED
    BY <1>1, <2>1, <2>2 DEF YardInvariant, LastTick
<1>5. CASE \E k \in Desks : yardWork < MaxWork /\ Look(k)
  <2>1. PICK k \in Desks : Look(k)
    BY <1>5
  <2>2. /\ looked' = [looked EXCEPT ![k] = Standing]
        /\ UNCHANGED <<appointment, transport, yardTask, announced, missed, clock, yardWork>>
    BY <2>1 DEF Look
  <2>3. YardFits'
    BY <1>1, <2>2 DEF YardFits
  <2>4. ViewFits(Standing) /\ Standing \in Views
    BY <1>1, StandingFits DEF ViewFits
  <2>5. SeenFits'
    BY <1>1, <1>v, <2>2, <2>4 DEF ViewFits
  <2>6. QED
    BY <1>1, <2>2, <2>3, <2>5 DEF YardInvariant, LastTick
<1>6. CASE UNCHANGED yardVars
  <2>1. UNCHANGED <<appointment, transport, yardTask, announced, looked, missed, clock, yardWork>>
    BY <1>6 DEF yardVars
  <2>2. YardFits'
    BY <1>1, <2>1 DEF YardFits
  <2>3. QED
    BY <1>1, <2>1, <2>2 DEF YardInvariant, LastTick
<1>7. QED
  BY <1>2, <1>3, <1>4, <1>5, <1>6 DEF YardNext

THEOREM YardKeepsItsInvariant ==
  ASSUME YardAssumption
  PROVE  YardSpec => []YardInvariant
<1>1. YardInit => YardInvariant
  BY YardInitFits
<1>2. YardInvariant /\ [YardNext]_yardVars => YardInvariant'
  BY YardStepFits
<1>3. QED
  BY <1>1, <1>2, PTL DEF YardSpec

\* Overlapping bookings of a door are of one truck, or one of them stands
\* there, never two trucks at one door, unless one was written by a request
\* that had not seen what became of the other; and a unit is where its status
\* says, whoever moved it: booking, check-in, dock, yard move or departure.
THEOREM TrucksKeepTheirPlace ==
  ASSUME YardAssumption
  PROVE  YardSpec => []TrucksHaveTheirPlace
<1>1. YardInvariant => TrucksHaveTheirPlace
  BY PropertiesMean DEF TrucksHaveTheirPlace
<1>2. QED
  BY <1>1, YardKeepsItsInvariant, PTL

\* A carrier's booked trucks of a day, of which none missed another, never
\* exceed what it may send.
THEOREM CarriersKeepTheirCapacity ==
  ASSUME YardAssumption
  PROVE  YardSpec => []WithinCarrierCapacity
<1>1. YardInvariant => WithinCarrierCapacity
  BY PropertiesMean
<1>2. QED
  BY <1>1, YardKeepsItsInvariant, PTL
=============================================================================
