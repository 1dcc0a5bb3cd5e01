----------------------------- MODULE ErpSyncQueue -----------------------------
(***************************************************************************)
(* Posting WMS documents to ERPNext.  dispatch posts inline (Synchronous)  *)
(* or records a row of the WMS ERP Sync Log (Queued with Retry); run       *)
(* executes one row, retry_due finds the rows whose turn has come,         *)
(* retry_now is the supervisor's button, and cancelling a WMS document     *)
(* either withdraws the posting still queued or dispatches a reversal.     *)
(*                                                                         *)
(* ERPNext shares the database, so a posting and the record of its outcome *)
(* commit together.  What is not atomic is a request: its plain reads are  *)
(* those of its snapshot (Begin...), its locking reads and UPDATEs see the *)
(* latest rows, and innodb_snapshot_isolation refuses an UPDATE or locking *)
(* read of a row that changed in between.                                  *)
(***************************************************************************)
EXTENDS Integers, Sequences, FiniteSets

CONSTANTS
  Receipts,           \* Goods Receipts and Goods Issues
  Adjustments,        \* WMS Stock Adjustments
  Changes,            \* WMS Posting Changes: posted once, never cancelled
  Counts,             \* Physical Inventory Counts: posted in passes
  Workers,            \* background workers: enqueued jobs and retry_due
  Clerks,             \* users who cancel documents and press Retry now
  SnapshotIsolation,  \* innodb_snapshot_isolation of the database
  MAX_ATTEMPTS,       \* attempts after which retry_due gives up (12)
  MaxPasses,          \* bound: passes in which a count is posted
  MaxRefusals         \* bound: how often ERPNext refuses a document

Docs     == Receipts \cup Adjustments \cup Changes \cup Counts
Sessions == Workers \cup Clerks

ASSUME ConstantsAssumption ==
  /\ Receipts \cap (Adjustments \cup Changes \cup Counts) = {}
  /\ Adjustments \cap (Changes \cup Counts) = {} /\ Changes \cap Counts = {}
  /\ Workers \cap Clerks = {}
  /\ SnapshotIsolation \in BOOLEAN
  /\ MAX_ATTEMPTS \in Nat /\ MaxPasses \in Nat \ {0} /\ MaxRefusals \in Nat

Synchronous == "Synchronous"
QUEUED      == "Queued with Retry"
\* PENDING without "Running", which no service writes.
PENDING     == {"Queued", "Failed"}

DocRow == [state : {"Draft", "Posted", "Cancelled"},
           posted : Nat,   \* postings dispatched
           link : Nat]     \* index in erp of the document linked last; 0 = blank
LogRow == [doc : Docs, reversal : BOOLEAN, attempts : Nat,
           status : PENDING \cup {"Done", "Cancelled"}]
ErpRow == [doc : Docs, live : BOOLEAN]

VARIABLES
  mode,      \* erp_sync_mode of the warehouse
  doc,       \* [Docs -> DocRow], the WMS documents
  log,       \* the WMS ERP Sync Log in order of creation
  erp,       \* the ERPNext documents submitted for them; live = not cancelled
  request,   \* [Sessions -> the request in flight]
  refusals   \* how often ERPNext has refused a document

vars == <<mode, doc, log, erp, request, refusals>>

Idle == [kind |-> "idle"]

Init ==
  /\ mode = QUEUED
  /\ doc = [d \in Docs |-> [state |-> "Draft", posted |-> 0, link |-> 0]]
  /\ log = <<>> /\ erp = <<>>
  /\ request = [s \in Sessions |-> Idle]
  /\ refusals = 0

-----------------------------------------------------------------------------
IsPending(row) == row.status \in PENDING
LogsOf(d, rows, reversal) == {i \in DOMAIN rows : rows[i].doc = d /\ rows[i].reversal = reversal}
Live(d) == {n \in DOMAIN erp : erp[n].doc = d /\ erp[n].live}

NewLog(d, reversal) == [doc |-> d, reversal |-> reversal, attempts |-> 0, status |-> "Queued"]

\* The WMS document with the ERPNext document just submitted for it.
Linked(d, rows) == [rows EXCEPT ![d].link = Len(erp) + 1]
Submitted(d)    == Append(erp, [doc |-> d, live |-> TRUE])

\* _cancel_doc: nothing to do without a link or when it is cancelled already.
CancelDoc(link) == IF link = 0 THEN erp ELSE [erp EXCEPT ![link].live = FALSE]

\* Mutant: a receipt cancelled before its turn came is posted all the same.
SkipsLinkedOnly(d, row) == d \in Receipts \cup Adjustments /\ row.link # 0
\* The early returns of the posting operations.
Skips(d, row) ==
  \/ d \in Receipts /\ row.state # "Posted"
  \/ d \in Receipts \cup Adjustments /\ row.link # 0

-----------------------------------------------------------------------------
(* Posting a document in the warehouse. *)

PostingsOf(d) == IF d \in Counts THEN MaxPasses ELSE 1

\* Submitting a receipt, posting an adjustment or a change, or one pass of a
\* count, and dispatch.  Inline, a refusal of ERPNext undoes the whole request.
Post(d) ==
  /\ doc[d].state # "Cancelled" /\ doc[d].posted < PostingsOf(d)
  /\ LET posted == [doc EXCEPT ![d].state = "Posted", ![d].posted = @ + 1]
     IN  \/ /\ mode = QUEUED
            /\ doc' = posted /\ log' = Append(log, NewLog(d, FALSE))
            /\ UNCHANGED erp
         \/ /\ mode = Synchronous
            /\ doc' = Linked(d, posted) /\ erp' = Submitted(d)
            /\ UNCHANGED log
  /\ UNCHANGED <<mode, request, refusals>>

SwitchMode ==
  /\ mode' = IF mode = QUEUED THEN Synchronous ELSE QUEUED
  /\ UNCHANGED <<doc, log, erp, request, refusals>>

-----------------------------------------------------------------------------
(* Requests: what they read when they begin, and what becomes of them. *)

Seen == [mode |-> mode, doc |-> doc, log |-> log]

BeginRequest(s, call) ==
  /\ request[s] = Idle
  /\ request' = [request EXCEPT ![s] = call]
  /\ UNCHANGED <<mode, doc, log, erp, refusals>>

Ends(s) == request' = [request EXCEPT ![s] = Idle]

\* A row that is locked or updated must be the one the request has seen.
FreshDoc(s, d) == SnapshotIsolation => doc[d] = request[s].seen.doc[d]
FreshLog(s, i) == SnapshotIsolation => log[i] = request[s].seen.log[i]

\* The worker dies, the request is the victim of a deadlock, or the database
\* refuses a row: nothing of it is kept.
Lost(s) ==
  /\ request[s] # Idle
  /\ Ends(s) /\ UNCHANGED <<mode, doc, log, erp, refusals>>

-----------------------------------------------------------------------------
(* Cancelling a WMS document. *)

BeginCancel(s, d) ==
  /\ d \in Receipts \cup Adjustments /\ doc[d].state = "Posted"
  /\ BeginRequest(s, [kind |-> "cancel", doc |-> d, seen |-> Seen])

\* The forward postings dispatch withdraws instead of recording a reversal.
Withdrawn(d, rows) == {i \in LogsOf(d, rows, FALSE) : IsPending(rows[i])}

\* The document as the cancellation writes it: a receipt is saved with every
\* field the request loaded, an adjustment was read with a lock.
CancelledRow(s, d) ==
  [(IF d \in Receipts THEN request[s].seen.doc[d] ELSE doc[d]) EXCEPT !.state = "Cancelled"]

\* dispatch of the reversal, inline or queued, and the save.  An inline
\* reversal that ERPNext refuses undoes the whole request (Lost).
Cancel(s) ==
  /\ request[s].kind = "cancel"
  /\ LET d == request[s].doc
         seen == request[s].seen
         row == CancelledRow(s, d)
         withdrawn == Withdrawn(d, seen.log)
     IN  /\ doc[d].state = "Posted" /\ FreshDoc(s, d)
         /\ doc' = [doc EXCEPT ![d] = row]
         /\ \/ /\ seen.mode = Synchronous
               /\ erp' = CancelDoc(row.link)
               /\ UNCHANGED log
            \/ /\ seen.mode = QUEUED /\ withdrawn # {}
               /\ \A i \in withdrawn : FreshLog(s, i)
               /\ log' = [i \in DOMAIN log |-> IF i \in withdrawn THEN [log[i] EXCEPT !.status = "Cancelled"]
                                                                  ELSE log[i]]
               /\ UNCHANGED erp
            \/ /\ seen.mode = QUEUED /\ withdrawn = {}
               /\ log' = Append(log, NewLog(d, TRUE))
               /\ UNCHANGED erp
  /\ Ends(s) /\ UNCHANGED <<mode, refusals>>

-----------------------------------------------------------------------------
(* Executing the queue. *)

\* Mutant: a failed posting is not tried again.
DueIfQueued(row) == row.status = "Queued"
\* The rows retry_due selects; time passes, so every backoff ends.  The job
\* enqueued by dispatch is one more selection of a queued row, and may be lost.
Due(row) ==
  \/ row.status = "Queued"
  \/ row.status = "Failed" /\ row.attempts < MAX_ATTEMPTS

BeginRun(s, i) ==
  /\ s \in Workers /\ Due(log[i])
  /\ BeginRequest(s, [kind |-> "run", log |-> i, seen |-> Seen])

\* Mutant: retry_now takes a row in any status.
RetriesAnything(row) == TRUE
\* retry_now: "Only a failed or queued posting can be retried".
Retries(row) == IsPending(row)

BeginRetryNow(s, i) ==
  /\ s \in Clerks /\ Retries(log[i])
  /\ BeginRequest(s, [kind |-> "retry_now", log |-> i, seen |-> Seen])

\* The row run locks; retry_now has set it Failed before.
LockedRow(s, i) ==
  IF request[s].kind = "retry_now" THEN [log[i] EXCEPT !.status = "Failed"] ELSE log[i]

\* Earlier postings of the same document go first.
Waits(s, i) ==
  \E j \in 1..(i - 1) : /\ request[s].seen.log[j].doc = log[i].doc
                        /\ IsPending(request[s].seen.log[j])

Outcome(s, i, status) ==
  log' = [log EXCEPT ![i] = [LockedRow(s, i) EXCEPT !.status = status, !.attempts = @ + 1]]

\* The operation has nothing to post or to cancel, and is Done.
NothingToDo(s, i) ==
  LET row == request[s].seen.doc[log[i].doc] IN
  IF log[i].reversal THEN CancelDoc(row.link) = erp ELSE Skips(log[i].doc, row)

\* Mutant: what the failed attempt wrote is not rolled back.
KeepsFailedAttempt(s, i) ==
  /\ refusals < MaxRefusals
  /\ refusals' = refusals + 1
  /\ Outcome(s, i, "Failed")
  /\ IF log[i].reversal
     THEN UNCHANGED <<doc, erp>>
     ELSE erp' = Submitted(log[i].doc) /\ UNCHANGED doc
\* ERPNext refuses the document (closed period, missing account): the savepoint
\* is rolled back and the attempt counted.
Refused(s, i) ==
  /\ refusals < MaxRefusals
  /\ refusals' = refusals + 1
  /\ Outcome(s, i, "Failed")
  /\ UNCHANGED <<doc, erp>>

\* The operation posts and links a document, or cancels the linked one.
Performed(s, i) ==
  LET d == log[i].doc IN
  /\ Outcome(s, i, "Done")
  /\ \/ /\ ~log[i].reversal /\ FreshDoc(s, d)
        /\ erp' = Submitted(d) /\ doc' = Linked(d, doc)
     \/ /\ log[i].reversal
        /\ erp' = CancelDoc(request[s].seen.doc[d].link)
        /\ UNCHANGED doc
  /\ UNCHANGED refusals

Runs(row) == IsPending(row)

\* run, of a job, of retry_due or of retry_now: one transaction.
Run(s, i) ==
  /\ request[s].kind \in {"run", "retry_now"} /\ request[s].log = i
  /\ FreshLog(s, i)
  /\ \/ /\ ~Runs(LockedRow(s, i))
        /\ UNCHANGED <<doc, log, erp, refusals>>
     \/ /\ Runs(LockedRow(s, i)) /\ Waits(s, i)
        /\ log' = [log EXCEPT ![i] = LockedRow(s, i)]
        /\ UNCHANGED <<doc, erp, refusals>>
     \/ /\ Runs(LockedRow(s, i)) /\ ~Waits(s, i) /\ NothingToDo(s, i)
        /\ Outcome(s, i, "Done")
        /\ UNCHANGED <<doc, erp, refusals>>
     \/ /\ Runs(LockedRow(s, i)) /\ ~Waits(s, i) /\ ~NothingToDo(s, i)
        /\ Performed(s, i) \/ Refused(s, i)
  /\ Ends(s) /\ UNCHANGED mode

-----------------------------------------------------------------------------
RunQueue == \/ \E d \in Docs : Post(d)
            \/ \E s \in Sessions : Lost(s)
            \/ \E s \in Workers : \E i \in DOMAIN log : BeginRun(s, i)
            \/ \E s \in Sessions : \E i \in DOMAIN log : Run(s, i)

Attend == \/ \E s \in Clerks : \E d \in Docs : BeginCancel(s, d)
          \/ \E s \in Clerks : Cancel(s)
          \/ \E s \in Clerks : \E i \in DOMAIN log : BeginRetryNow(s, i)

\* The posting mode of the warehouse stays as it is.
QueuedSpec == Init /\ [][RunQueue \/ Attend]_vars

Next == RunQueue \/ Attend \/ SwitchMode
Spec == Init /\ [][Next]_vars

\* A run of row i ends: it commits, or a row it needs has changed.
RunEnds(s, i) ==
  \/ Run(s, i)
  \/ /\ request[s].kind = "run" /\ request[s].log = i
     /\ ~(FreshLog(s, i) /\ FreshDoc(s, log[i].doc))
     /\ Lost(s)

LogSlots == 1..(2 * Cardinality(Receipts \cup Adjustments)
                + Cardinality(Changes) + MaxPasses * Cardinality(Counts))

\* The cron job runs every 10 minutes and takes the due rows in turn, so none
\* is passed over for ever, and not every one of the runs dies.
Fairness ==
  \A i \in LogSlots :
    /\ SF_vars(i \in DOMAIN log /\ \E s \in Workers : BeginRun(s, i))
    /\ SF_vars(i \in DOMAIN log /\ \E s \in Workers : RunEnds(s, i))

FairSpec == QueuedSpec /\ Fairness

-----------------------------------------------------------------------------
TypeOK ==
  /\ mode \in {Synchronous, QUEUED}
  /\ doc \in [Docs -> DocRow] /\ log \in Seq(LogRow) /\ erp \in Seq(ErpRow)
  /\ DOMAIN request = Sessions
  /\ \A s \in Sessions : request[s] # Idle =>
       /\ request[s].kind \in {"cancel", "run", "retry_now"}
       /\ request[s].seen.mode \in {Synchronous, QUEUED}
       /\ request[s].seen.doc \in [Docs -> DocRow]
       /\ request[s].seen.log \in Seq(LogRow)
       /\ Len(request[s].seen.log) <= Len(log)
       /\ IF request[s].kind = "cancel" THEN request[s].doc \in Receipts \cup Adjustments
                                        ELSE request[s].log \in DOMAIN request[s].seen.log
  /\ refusals \in 0..MaxRefusals

PendingOf(d, reversal) == {i \in LogsOf(d, log, reversal) : IsPending(log[i])}

\* Every posting of a document that stands is either in ERPNext or still in the
\* queue, and never both or twice: whatever fails, dies, is run by two workers
\* or retried by a supervisor (run, retry_due, retry_now).
PostedOnce ==
  \A d \in Docs : doc[d].state = "Posted" =>
    Cardinality(Live(d)) + Cardinality(PendingOf(d, FALSE)) = doc[d].posted

\* ERPNext holds something for a cancelled document only as long as the reversal
\* that will remove it is queued (dispatch's withdrawal, _cancel_doc).  Of an
\* adjustment it is true only while the posting mode stays as it is.
CancelledIsReversed ==
  \A d \in Docs : doc[d].state = "Cancelled" =>
    Cardinality(Live(d)) = Cardinality(PendingOf(d, TRUE))

\* What ERPNext holds for a document that can be cancelled is what the document
\* links to, which is the only thing a reversal can find.
TraceKept ==
  \A d \in Receipts \cup Adjustments : Live(d) \subseteq {doc[d].link}

\* The postings of one document are done in the order they were dispatched.
PostedInOrder ==
  \A i \in DOMAIN log : log[i].status = "Done" =>
    \A j \in 1..(i - 1) : log[j].doc = log[i].doc => ~IsPending(log[j])

\* Every posting reaches ERPNext once, after the earlier ones of its document,
\* and leaves the link a later reversal needs (run, dispatch).
PostedOnceInOrder == TypeOK /\ PostedOnce /\ PostedInOrder /\ TraceKept

\* A posting that is done or withdrawn is never taken up again.
SettledStays ==
  [][\A i \in DOMAIN log : ~IsPending(log[i]) => log'[i].status = log[i].status]_vars

\* What ERPNext should hold for a document.
Owed(d) == IF doc[d].state = "Posted" THEN doc[d].posted ELSE 0

\* ERPNext catches up with the warehouse: lost jobs and dead workers delay a
\* posting or a reversal, they do not swallow it (retry_due).
ERPNextCatchesUp ==
  \A d \in Docs : Cardinality(Live(d)) # Owed(d) ~> Cardinality(Live(d)) = Owed(d)

=============================================================================
