------------------------ MODULE KittingAndRequestsProofs ------------------------
(***************************************************************************)
(* Theorems about PostProcessing, for any set of requests, any limits and  *)
(* any number of deadlocks, deaths and aborted jobs; and about Kitting,    *)
(* for any orders, kits, storage lines and stock, and any work.            *)
(***************************************************************************)
EXTENDS PostProcessing, Kitting, Sums, TLAPS

-----------------------------------------------------------------------------
(* Types. *)
LogRow == [status : {"none", "undone", "Failed", "Sent", "Acknowledged"}, attempts : Nat]
Running == [on : {TRUE}, todo : SUBSET Requests, rows : [Requests -> LogRow]]

TypeInvariant ==
  /\ rf \in [Requests -> {"waiting", "answered"}] /\ resends \in [Requests -> Nat]
  /\ cached \subseteq Requests
  /\ tx \in [Requests -> LogRow] /\ log \in [Requests -> LogRow]
  /\ made \in [Requests -> Nat] /\ got \in [Requests -> Nat] /\ moves \in [Requests -> Nat]
  /\ retry \in {Idle} \cup Running
  /\ confirming \subseteq Requests

\* A row of the log after an attempt.
LEMMA AttemptType ==
  ASSUME NEW a \in Attempts
  PROVE  /\ a.arrives \in {0, 1} /\ a.status \in {"Failed", "Sent", "Acknowledged"}
         /\ a.status # "Failed" => a.arrives = 1
         /\ \A row \in LogRow : /\ Attempted(row, a) \in LogRow /\ Attempted(row, a).status = a.status
                                /\ Attempted(row, a).attempts = row.attempts + 1
<1>1. \/ a = [status |-> "Failed", arrives |-> 0] \/ a = [status |-> "Sent", arrives |-> 1]
      \/ a = [status |-> "Acknowledged", arrives |-> 1] \/ a = [status |-> "Failed", arrives |-> 1]
  BY Zenon DEF Attempts
<1>2. QED
  BY <1>1 DEF Attempted, LogRow

LEMMA NothingType ==
  /\ Nothing \in LogRow /\ Nothing.status = "none" /\ Nothing.attempts = 0
  /\ Undone \in LogRow /\ Undone.status = "undone" /\ Undone.attempts = 0 /\ Undone # Nothing
BY DEF Nothing, Undone, LogRow

LEMMA IdleOrRunning ==
  ASSUME retry \in {Idle} \cup Running
  PROVE  /\ retry.on \in BOOLEAN /\ retry.todo \subseteq Requests
         /\ retry.on => retry \in Running /\ retry.rows \in [Requests -> LogRow]
         /\ ~retry.on => retry.todo = {}
<1>1. CASE retry = Idle
  BY <1>1 DEF Idle
<1>2. CASE retry \in Running
  BY <1>2, Zenon DEF Running
<1>3. QED
  BY <1>1, <1>2

-----------------------------------------------------------------------------
(* What is known of a request.  It is run at most once: what was not run is  *)
(* not in the cache, what is open is not committed.                          *)
RunOnce(r) ==
  /\ r \notin cached => tx[r] = Nothing /\ made[r] = 0
  /\ tx[r] # Nothing => made[r] = 0 /\ (tx[r] = Undone \/ tx[r].attempts = 1)
  /\ made[r] <= 1 /\ moves[r] <= made[r]
  /\ log[r].attempts > 0 => made[r] > 0
  /\ log[r].attempts = 0 => log[r] = Nothing

\* A row tells of a delivery only when the PLC got something.
Tells(row, r) ==
  /\ row.attempts <= MaxAttempts
  /\ row.status \in {"Sent", "Acknowledged"} => got[r] > 0

\* The retry job holds rows that are in the log, and tries those that may be
\* tried once more.
Retried(r) ==
  retry.on => /\ Tells(retry.rows[r], r)
              /\ retry.rows[r].attempts > 0 => log[r].attempts > 0
              /\ r \in retry.todo => retry.rows[r].attempts < MaxAttempts /\ retry.rows[r].attempts > 0

RequestInvariant ==
  \A r \in Requests : RunOnce(r) /\ Tells(tx[r], r) /\ Tells(log[r], r) /\ Retried(r)
Invariant == TypeInvariant /\ RequestInvariant

LEMMA InitInvariant ==
  ASSUME PostProcessingAssumption, Init
  PROVE  Invariant
<1>1. TypeInvariant
  BY NothingType DEF Init, TypeInvariant
<1>2. retry.on = FALSE
  BY DEF Init, Idle
<1>3. ASSUME NEW r \in Requests
      PROVE  /\ r \notin cached /\ tx[r] = Nothing /\ made[r] = 0 /\ moves[r] = 0 /\ log[r] = Nothing
  BY DEF Init
<1>4. 0 <= MaxAttempts
  BY DEF PostProcessingAssumption
<1>5. RequestInvariant
  BY <1>2, <1>3, <1>4, NothingType DEF RequestInvariant, RunOnce, Tells, Retried
<1>6. QED
  BY <1>1, <1>5 DEF Invariant

-----------------------------------------------------------------------------
(* The requests. *)

LEMMA RunStep ==
  ASSUME PostProcessingAssumption, Invariant, NEW r \in Requests, NEW a \in Attempts, Run(r, a)
  PROVE  Invariant'
<1>1. TypeInvariant /\ RequestInvariant
  BY DEF Invariant
<1> DEFINE row == Attempted(Nothing, a)
<1>2. /\ r \notin cached /\ tx' = [tx EXCEPT ![r] = row] /\ got' = [got EXCEPT ![r] = @ + a.arrives]
      /\ cached' = cached \cup {r}
      /\ UNCHANGED <<rf, resends, made, log, retry, confirming, moves>>
  BY DEF Run, NotRunYet, plc
<1>3. /\ row \in LogRow /\ row.attempts = 1 /\ row.status = a.status /\ a.arrives \in {0, 1}
      /\ a.status # "Failed" => a.arrives = 1
  BY AttemptType, NothingType
<1> HIDE DEF row
<1>4. TypeInvariant'
  BY <1>1, <1>2, <1>3 DEF TypeInvariant
<1>5. ASSUME NEW q \in Requests PROVE (RunOnce(q) /\ Tells(tx[q], q) /\ Tells(log[q], q) /\ Retried(q))'
  <2>1. RunOnce(q) /\ Tells(tx[q], q) /\ Tells(log[q], q) /\ Retried(q)
    BY <1>1 DEF RequestInvariant
  <2>2. got[q] \in Nat /\ got'[q] \in Nat /\ got'[q] >= got[q]
    BY <1>1, <1>2, <1>3 DEF TypeInvariant
  <2>3. Tells(log[q], q)' /\ Retried(q)'
    BY <1>2, <2>1, <2>2 DEF Tells, Retried
  <2>4. CASE q = r
    <3>1. tx'[r] = row /\ got'[r] = got[r] + a.arrives
      BY <1>1, <1>2 DEF TypeInvariant
    <3>2. RunOnce(r)'
      BY <1>2, <1>3, <2>1, <2>4, <3>1 DEF RunOnce
    <3>3. Tells(tx[r], r)'
      BY <1>3, <2>2, <2>4, <3>1 DEF Tells, PostProcessingAssumption
    <3>4. QED
      BY <2>3, <2>4, <3>2, <3>3
  <2>5. CASE q # r
    <3>1. tx'[q] = tx[q] /\ (q \in cached' <=> q \in cached)
      BY <1>1, <1>2, <2>5 DEF TypeInvariant
    <3>2. QED
      BY <1>2, <2>1, <2>2, <2>3, <3>1 DEF RunOnce, Tells
  <2>6. QED
    BY <2>4, <2>5
<1>6. QED
  BY <1>4, <1>5 DEF Invariant, RequestInvariant

LEMMA RunActionFailsStep ==
  ASSUME PostProcessingAssumption, Invariant, NEW r \in Requests, NEW arrives \in {0, 1},
         RunActionFails(r, arrives)
  PROVE  Invariant'
<1>1. TypeInvariant /\ RequestInvariant
  BY DEF Invariant
<1>2. /\ r \notin cached /\ tx' = [tx EXCEPT ![r] = Undone] /\ got' = [got EXCEPT ![r] = @ + arrives]
      /\ cached' = cached \cup {r}
      /\ UNCHANGED <<rf, resends, made, log, retry, confirming, moves>>
  BY DEF RunActionFails, NotRunYet, plc
<1>3. TypeInvariant'
  BY <1>1, <1>2, NothingType DEF TypeInvariant
<1>4. ASSUME NEW q \in Requests PROVE (RunOnce(q) /\ Tells(tx[q], q) /\ Tells(log[q], q) /\ Retried(q))'
  <2>1. RunOnce(q) /\ Tells(tx[q], q) /\ Tells(log[q], q) /\ Retried(q)
    BY <1>1 DEF RequestInvariant
  <2>2. got[q] \in Nat /\ got'[q] \in Nat /\ got'[q] >= got[q]
    BY <1>1, <1>2 DEF TypeInvariant
  <2>3. Tells(log[q], q)' /\ Retried(q)'
    BY <1>2, <2>1, <2>2 DEF Tells, Retried
  <2>4. CASE q = r
    <3>1. tx'[r] = Undone
      BY <1>1, <1>2 DEF TypeInvariant
    <3>2. RunOnce(r)' /\ Tells(tx[r], r)'
      BY <1>2, <2>1, <2>4, <3>1, NothingType DEF RunOnce, Tells, PostProcessingAssumption
    <3>3. QED
      BY <2>3, <2>4, <3>2
  <2>5. CASE q # r
    <3>1. tx'[q] = tx[q] /\ (q \in cached' <=> q \in cached)
      BY <1>1, <1>2, <2>5 DEF TypeInvariant
    <3>2. QED
      BY <1>2, <2>1, <2>2, <2>3, <3>1 DEF RunOnce, Tells
  <2>6. QED
    BY <2>4, <2>5
<1>5. QED
  BY <1>3, <1>4 DEF Invariant, RequestInvariant

LEMMA RunIntoDeadlockStep ==
  ASSUME Invariant, NEW r \in Requests, NEW a \in Attempts, RunIntoDeadlock(r, a)
  PROVE  Invariant'
<1>1. TypeInvariant /\ RequestInvariant
  BY DEF Invariant
<1>2. /\ got' = [got EXCEPT ![r] = @ + a.arrives]
      /\ UNCHANGED <<rf, resends, cached, tx, made, log, retry, confirming, moves>>
  BY DEF RunIntoDeadlock, request, plc
<1>3. a.arrives \in {0, 1}
  BY AttemptType
<1>4. TypeInvariant'
  BY <1>1, <1>2, <1>3 DEF TypeInvariant
<1>5. ASSUME NEW q \in Requests PROVE (RunOnce(q) /\ Tells(tx[q], q) /\ Tells(log[q], q) /\ Retried(q))'
  <2>1. RunOnce(q) /\ Tells(tx[q], q) /\ Tells(log[q], q) /\ Retried(q)
    BY <1>1 DEF RequestInvariant
  <2>2. got[q] \in Nat /\ got'[q] \in Nat /\ got'[q] >= got[q]
    BY <1>1, <1>2, <1>3 DEF TypeInvariant
  <2>3. QED
    BY <1>2, <2>1, <2>2 DEF RunOnce, Tells, Retried
<1>6. QED
  BY <1>4, <1>5 DEF Invariant, RequestInvariant

LEMMA CommitStep ==
  ASSUME PostProcessingAssumption, Invariant, NEW r \in Requests, NEW answer, Commit(r, answer)
  PROVE  Invariant'
<1>1. TypeInvariant /\ RequestInvariant
  BY DEF Invariant
<1> DEFINE row == IF tx[r] = Undone THEN Nothing ELSE tx[r]
<1>2. /\ tx[r] # Nothing /\ made' = [made EXCEPT ![r] = @ + 1] /\ log' = [log EXCEPT ![r] = row]
      /\ tx' = [tx EXCEPT ![r] = Nothing]
      /\ rf' = [rf EXCEPT ![r] = IF answer = "arrives" THEN "answered" ELSE @]
      /\ UNCHANGED <<resends, cached, got, retry, confirming, moves>>
  BY DEF Commit, plc
<1>3. TypeInvariant'
  <2>1. rf' \in [Requests -> {"waiting", "answered"}]
    BY <1>1, <1>2 DEF TypeInvariant
  <2>2. row \in LogRow
    BY <1>1, NothingType DEF TypeInvariant
  <2>3. tx' \in [Requests -> LogRow] /\ log' \in [Requests -> LogRow] /\ made' \in [Requests -> Nat]
    BY <1>1, <1>2, <2>2, NothingType DEF TypeInvariant
  <2>4. QED
    BY <1>1, <1>2, <2>1, <2>3 DEF TypeInvariant
<1>4. ASSUME NEW q \in Requests PROVE (RunOnce(q) /\ Tells(tx[q], q) /\ Tells(log[q], q) /\ Retried(q))'
  <2>1. RunOnce(q) /\ Tells(tx[q], q) /\ Tells(log[q], q) /\ Retried(q)
    BY <1>1 DEF RequestInvariant
  <2>2. CASE q = r
    <3>1. tx'[r] = Nothing /\ made'[r] = made[r] + 1 /\ log'[r] = row /\ r \in cached
      BY <1>1, <1>2, <2>1, <2>2 DEF TypeInvariant, RunOnce
    <3>2. made[r] = 0 /\ moves[r] \in Nat /\ (row = Nothing \/ row.attempts = 1)
      BY <1>1, <1>2, <2>1, <2>2 DEF TypeInvariant, RunOnce
    <3>7. log[r].attempts = 0
      <4>1. log[r] \in LogRow
        BY <1>1 DEF TypeInvariant
      <4>2. QED
        BY <2>1, <2>2, <3>2, <4>1 DEF RunOnce, LogRow
    <3> HIDE DEF row
    <3>3. RunOnce(r)'
      BY <1>2, <2>1, <2>2, <3>1, <3>2, NothingType DEF RunOnce
    <3>4. Tells(tx[r], r)' /\ Tells(log[r], r)'
      <4>1. Tells(row, r)
        BY <2>1, <2>2, NothingType DEF row, Tells, PostProcessingAssumption
      <4>2. QED
        BY <1>2, <3>1, <4>1, NothingType DEF Tells, PostProcessingAssumption
    <3>5. Retried(r)'
      <4>1. retry.on => retry.rows[r] \in LogRow
        BY <1>1, IdleOrRunning DEF TypeInvariant
      <4>2. QED
        BY <1>2, <2>1, <2>2, <3>1, <3>7, <4>1 DEF Retried, Tells, LogRow
    <3>6. QED
      BY <2>2, <3>3, <3>4, <3>5
  <2>3. CASE q # r
    <3>1. tx'[q] = tx[q] /\ made'[q] = made[q] /\ log'[q] = log[q]
      BY <1>1, <1>2, <2>3 DEF TypeInvariant
    <3>2. QED
      BY <1>2, <2>1, <3>1 DEF RunOnce, Tells, Retried
  <2>4. QED
    BY <2>2, <2>3
<1>5. QED
  BY <1>3, <1>4 DEF Invariant, RequestInvariant

LEMMA DieStep ==
  ASSUME PostProcessingAssumption, Invariant, NEW r \in Requests, Die(r)
  PROVE  Invariant'
<1>1. TypeInvariant /\ RequestInvariant
  BY DEF Invariant
<1>2. /\ tx' = [tx EXCEPT ![r] = Nothing]
      /\ UNCHANGED <<rf, resends, cached, made, log, got, retry, confirming, moves>>
  BY DEF Die, telegrams, plc
<1>3. TypeInvariant'
  BY <1>1, <1>2, NothingType DEF TypeInvariant
<1>4. ASSUME NEW q \in Requests PROVE (RunOnce(q) /\ Tells(tx[q], q) /\ Tells(log[q], q) /\ Retried(q))'
  <2>1. RunOnce(q) /\ Tells(tx[q], q) /\ Tells(log[q], q) /\ Retried(q)
    BY <1>1 DEF RequestInvariant
  <2>2. tx'[q] \in {tx[q], Nothing}
    BY <1>1, <1>2 DEF TypeInvariant
  <2>3. QED
    BY <1>2, <2>1, <2>2, NothingType DEF RunOnce, Tells, Retried, PostProcessingAssumption
<1>5. QED
  BY <1>3, <1>4 DEF Invariant, RequestInvariant

LEMMA ResendStep ==
  ASSUME Invariant, NEW r \in Requests, NEW answer, Resend(r, answer)
  PROVE  Invariant'
<1>1. /\ resends' = [resends EXCEPT ![r] = @ + 1]
      /\ rf' = [rf EXCEPT ![r] = IF answer = "arrives" THEN "answered" ELSE @]
      /\ UNCHANGED <<cached, tx, made, log, got, retry, confirming, moves>>
  BY DEF Resend, telegrams, plc
<1>2. TypeInvariant'
  BY <1>1 DEF Invariant, TypeInvariant
<1>3. RequestInvariant'
  BY <1>1 DEF Invariant, RequestInvariant, RunOnce, Tells, Retried
<1>4. QED
  BY <1>2, <1>3 DEF Invariant

-----------------------------------------------------------------------------
(* The retry job. *)

LEMMA StartRetryStep ==
  ASSUME Invariant, StartRetry
  PROVE  Invariant'
<1>1. TypeInvariant /\ RequestInvariant
  BY DEF Invariant
<1>2. /\ retry' = [on |-> TRUE, todo |-> {r \in Requests : Retryable(r)}, rows |-> log]
      /\ UNCHANGED <<rf, resends, cached, tx, made, log, got, confirming, moves>>
  BY DEF StartRetry, request, plc
<1>3. retry' \in Running
  BY <1>1, <1>2 DEF TypeInvariant, Running
<1>4. TypeInvariant'
  BY <1>1, <1>2, <1>3 DEF TypeInvariant
<1>5. ASSUME NEW q \in Requests PROVE (RunOnce(q) /\ Tells(tx[q], q) /\ Tells(log[q], q) /\ Retried(q))'
  <2>1. RunOnce(q) /\ Tells(tx[q], q) /\ Tells(log[q], q) /\ log[q] \in LogRow
    BY <1>1 DEF RequestInvariant, TypeInvariant
  <2>2. RunOnce(q)' /\ Tells(tx[q], q)' /\ Tells(log[q], q)'
    BY <1>2, <2>1 DEF RunOnce, Tells
  <2>3. retry'.rows[q] = log[q] /\ (q \in retry'.todo => Retryable(q))
    BY <1>2
  <2>4. ASSUME Retryable(q) PROVE log[q].attempts < MaxAttempts /\ log[q].attempts > 0
    <3>1. log[q] # Nothing /\ log[q].attempts < MaxAttempts
      BY <2>4, NothingType DEF Retryable
    <3>2. log[q].attempts \in Nat
      BY <2>1 DEF LogRow
    <3>3. QED
      BY <2>1, <3>1, <3>2 DEF RunOnce
  <2>5. Retried(q)'
    BY <1>2, <2>1, <2>3, <2>4 DEF Retried, Tells
  <2>6. QED
    BY <2>2, <2>5
<1>6. QED
  BY <1>4, <1>5 DEF Invariant, RequestInvariant

LEMMA RetryDeliverStep ==
  ASSUME PostProcessingAssumption, Invariant, NEW r \in Requests, NEW a \in Attempts, RetryDeliver(r, a)
  PROVE  Invariant'
<1>1. TypeInvariant /\ RequestInvariant
  BY DEF Invariant
<1>2. /\ r \in retry.todo /\ got' = [got EXCEPT ![r] = @ + a.arrives]
      /\ retry' = [retry EXCEPT !.todo = @ \ {r}, !.rows[r] = Attempted(@, a)]
      /\ UNCHANGED <<rf, resends, cached, tx, made, log, confirming, moves>>
  BY DEF RetryDeliver, request, plc
<1>3. retry \in Running /\ retry.on /\ retry.rows \in [Requests -> LogRow] /\ retry.todo \subseteq Requests
  BY <1>1, <1>2, IdleOrRunning DEF TypeInvariant
<1> DEFINE row == Attempted(retry.rows[r], a)
<1>4. /\ row \in LogRow /\ row.attempts = retry.rows[r].attempts + 1 /\ row.status = a.status
      /\ a.arrives \in {0, 1} /\ (a.status # "Failed" => a.arrives = 1)
  BY <1>3, AttemptType
<1>5. retry' = [on |-> TRUE, todo |-> retry.todo \ {r}, rows |-> [retry.rows EXCEPT ![r] = row]]
  BY <1>2, <1>3 DEF Running
<1> HIDE DEF row
<1>6. retry' \in Running
  BY <1>3, <1>4, <1>5 DEF Running
<1>7. TypeInvariant'
  BY <1>1, <1>2, <1>4, <1>6 DEF TypeInvariant
<1>8. ASSUME NEW q \in Requests PROVE (RunOnce(q) /\ Tells(tx[q], q) /\ Tells(log[q], q) /\ Retried(q))'
  <2>1. RunOnce(q) /\ Tells(tx[q], q) /\ Tells(log[q], q) /\ Retried(q)
    BY <1>1 DEF RequestInvariant
  <2>2. got[q] \in Nat /\ got'[q] \in Nat /\ got'[q] >= got[q]
    BY <1>1, <1>2, <1>4 DEF TypeInvariant
  <2>3. RunOnce(q)' /\ Tells(tx[q], q)' /\ Tells(log[q], q)'
    BY <1>2, <2>1, <2>2 DEF RunOnce, Tells
  <2>4. CASE q = r
    <3>0. got'[r] = got[r] + a.arrives
      BY <1>1, <1>2 DEF TypeInvariant
    <3>1. retry'.rows[r] = row /\ r \notin retry'.todo
      BY <1>3, <1>5
    <3>2. log'[r].attempts > 0 /\ retry.rows[r].attempts < MaxAttempts /\ retry.rows[r] \in LogRow
      BY <1>2, <1>3, <2>1, <2>4 DEF Retried
    <3>3. row.attempts <= MaxAttempts
      BY <1>4, <3>2 DEF LogRow, PostProcessingAssumption
    <3>4. row.status \in {"Sent", "Acknowledged"} => got'[r] > 0
      BY <1>4, <2>2, <2>4, <3>0
    <3>5. Retried(r)'
      BY <3>1, <3>2, <3>3, <3>4 DEF Retried, Tells
    <3>6. QED
      BY <2>3, <2>4, <3>5
  <2>5. CASE q # r
    <3>1. retry'.rows[q] = retry.rows[q] /\ (q \in retry'.todo <=> q \in retry.todo)
      BY <1>3, <1>5, <2>5
    <3>2. QED
      BY <1>2, <1>3, <2>1, <2>2, <2>3, <3>1 DEF Retried, Tells
  <2>6. QED
    BY <2>4, <2>5
<1>9. QED
  BY <1>7, <1>8 DEF Invariant, RequestInvariant

LEMMA CommitRetryStep ==
  ASSUME Invariant, CommitRetry
  PROVE  Invariant'
<1>1. TypeInvariant /\ RequestInvariant
  BY DEF Invariant
<1>2. /\ retry.on /\ retry' = Idle
      /\ log' = [r \in Requests |-> IF retry.rows[r].attempts > log[r].attempts THEN retry.rows[r] ELSE log[r]]
      /\ UNCHANGED <<rf, resends, cached, tx, made, got, confirming, moves>>
  BY DEF CommitRetry, request, plc
<1>3. retry.rows \in [Requests -> LogRow]
  BY <1>1, <1>2, IdleOrRunning DEF TypeInvariant
<1>4. log' \in [Requests -> LogRow]
  BY <1>1, <1>2, <1>3 DEF TypeInvariant
<1>5. TypeInvariant'
  BY <1>1, <1>2, <1>4 DEF TypeInvariant
<1>6. ASSUME NEW q \in Requests PROVE (RunOnce(q) /\ Tells(tx[q], q) /\ Tells(log[q], q) /\ Retried(q))'
  <2>1. RunOnce(q) /\ Tells(tx[q], q) /\ Tells(log[q], q) /\ Tells(retry.rows[q], q)
        /\ (retry.rows[q].attempts > 0 => log[q].attempts > 0)
    BY <1>1, <1>2 DEF RequestInvariant, Retried
  <2>2. log[q].attempts \in Nat /\ retry.rows[q].attempts \in Nat
    BY <1>1, <1>3 DEF TypeInvariant, LogRow
  <2>3. \/ log'[q] = log[q]
        \/ log'[q] = retry.rows[q] /\ retry.rows[q].attempts > log[q].attempts
    BY <1>2
  <2>4. Tells(tx[q], q)' /\ Tells(log[q], q)' /\ Retried(q)'
    BY <1>2, <2>1, <2>3 DEF Tells, Retried, Idle
  <2>5. RunOnce(q)'
    BY <1>2, <2>1, <2>2, <2>3 DEF RunOnce
  <2>6. QED
    BY <2>4, <2>5
<1>7. QED
  BY <1>5, <1>6 DEF Invariant, RequestInvariant

LEMMA RetryFailsStep ==
  ASSUME Invariant, RetryFails
  PROVE  Invariant'
<1>1. retry' = Idle /\ UNCHANGED <<rf, resends, cached, tx, made, log, got, confirming, moves>>
  BY DEF RetryFails, request, plc
<1>2. TypeInvariant'
  BY <1>1 DEF Invariant, TypeInvariant
<1>3. RequestInvariant'
  BY <1>1 DEF Invariant, RequestInvariant, RunOnce, Tells, Retried, Idle
<1>4. QED
  BY <1>2, <1>3 DEF Invariant

-----------------------------------------------------------------------------
(* The confirmations of the PLC. *)

LEMMA ConfirmationStep ==
  ASSUME Invariant, NEW r \in Requests, PlcConfirms(r) \/ Receive(r)
  PROVE  Invariant'
<1>1. TypeInvariant /\ RequestInvariant
  BY DEF Invariant
<1>2. UNCHANGED <<rf, resends, cached, tx, made, log, got, retry>>
  BY DEF PlcConfirms, Receive, request, telegrams
<1>3. CASE PlcConfirms(r)
  <2>1. confirming' = confirming \cup {r} /\ UNCHANGED moves
    BY <1>3 DEF PlcConfirms
  <2>2. TypeInvariant'
    BY <1>1, <1>2, <2>1 DEF TypeInvariant
  <2>3. RequestInvariant'
    BY <1>1, <1>2, <2>1 DEF RequestInvariant, RunOnce, Tells, Retried
  <2>4. QED
    BY <2>2, <2>3 DEF Invariant
<1>4. CASE Receive(r)
  <2>1. /\ confirming' = confirming \ {r}
        /\ moves' = [moves EXCEPT ![r] = IF made[r] > 0 /\ @ = 0 THEN @ + 1 ELSE @]
    BY <1>4 DEF Receive
  <2>2. TypeInvariant'
    BY <1>1, <1>2, <2>1 DEF TypeInvariant
  <2>3. ASSUME NEW q \in Requests PROVE RunOnce(q)'
    <3>1. RunOnce(q) /\ made[q] \in Nat /\ moves[q] \in Nat
      BY <1>1 DEF RequestInvariant, TypeInvariant
    <3>2. moves'[q] = moves[q] \/ (moves'[q] = moves[q] + 1 /\ made[q] > 0 /\ moves[q] = 0)
      BY <1>1, <2>1 DEF TypeInvariant
    <3>3. QED
      BY <1>2, <3>1, <3>2 DEF RunOnce
  <2>4. RequestInvariant'
    BY <1>1, <1>2, <2>3 DEF RequestInvariant, Tells, Retried
  <2>5. QED
    BY <2>2, <2>4 DEF Invariant
<1>5. QED
  BY <1>3, <1>4

LEMMA Unchanged ==
  ASSUME Invariant, UNCHANGED <<request, telegrams, plc>>
  PROVE  Invariant'
<1>1. UNCHANGED <<rf, resends, cached, tx, made, log, got, retry, confirming, moves>>
  BY DEF request, telegrams, plc
<1>2. TypeInvariant'
  BY <1>1 DEF Invariant, TypeInvariant
<1>3. RequestInvariant'
  BY <1>1 DEF Invariant, RequestInvariant, RunOnce, Tells, Retried
<1>4. QED
  BY <1>2, <1>3 DEF Invariant

LEMMA NextInvariant ==
  ASSUME PostProcessingAssumption, Invariant, [Next]_vars
  PROVE  Invariant'
<1>1. CASE \E r \in Requests, a \in Attempts : Run(r, a) \/ RunIntoDeadlock(r, a)
  BY <1>1, RunStep, RunIntoDeadlockStep
<1>2. CASE \E r \in Requests, answer \in {"arrives", "is lost"} : Commit(r, answer) \/ Resend(r, answer)
  BY <1>2, CommitStep, ResendStep
<1>9. CASE \E r \in Requests, arrives \in {0, 1} : RunActionFails(r, arrives)
  BY <1>9, RunActionFailsStep
<1>3. CASE \E r \in Requests : Die(r) \/ PlcConfirms(r) \/ Receive(r)
  BY <1>3, DieStep, ConfirmationStep
<1>4. CASE RetryJob
  <2>1. CASE \E r \in Requests, a \in Attempts : RetryDeliver(r, a)
    BY <2>1, RetryDeliverStep
  <2>2. QED
    BY <1>4, <2>1, StartRetryStep, CommitRetryStep DEF RetryJob
<1>5. CASE RetryFails
  BY <1>5, RetryFailsStep
<1>6. CASE UNCHANGED vars
  <2>1. UNCHANGED <<request, telegrams, plc>>
    BY <1>6 DEF vars, request, telegrams, plc
  <2>2. QED
    BY <2>1, Unchanged
<1>8. QED
  BY <1>1, <1>2, <1>3, <1>4, <1>5, <1>6, <1>9, Zenon DEF Next

LEMMA SpecInvariant ==
  ASSUME PostProcessingAssumption
  PROVE  Spec => []Invariant
<1>1. Init => Invariant
  BY InitInvariant
<1>2. Invariant /\ [Next]_vars => Invariant'
  BY NextInvariant
<1>3. QED
  BY <1>1, <1>2, PTL DEF Spec

(* A request is run at most once whatever is lost, resent, aborted or run    *)
(* again after a deadlock: run_once asks the cache before it runs, and what  *)
(* is in the cache was run or is about to be committed.  Its task is         *)
(* confirmed once, and only when the document is there.                      *)
THEOREM RunsOnce ==
  ASSUME PostProcessingAssumption
  PROVE  Spec => []ExecutedOnce
<1>1. Invariant => ExecutedOnce
  <2> SUFFICES ASSUME Invariant, NEW r \in Requests
               PROVE  made[r] + (IF tx[r] = Nothing THEN 0 ELSE 1) <= 1 /\ moves[r] <= made[r]
    BY DEF ExecutedOnce
  <2>1. RunOnce(r) /\ made[r] \in Nat
    BY DEF Invariant, RequestInvariant, TypeInvariant
  <2>2. QED
    BY <2>1 DEF RunOnce
<1>2. QED
  BY <1>1, SpecInvariant, PTL

(* A telegram is in the log only of a request whose document is in the       *)
(* database, though not every such request has one: whatever was rolled     *)
(* back, with the document or to the savepoint of its action, and though    *)
(* the retry job writes back rows it read before others were committed.     *)
(* The log tells of a delivery only when the PLC got the telegram, and      *)
(* counts no attempt beyond MAX_ATTEMPTS.                                   *)
THEOREM LogIsOfDocuments ==
  ASSUME PostProcessingAssumption
  PROVE  Spec => []LogFollowsDocument
<1>1. Invariant => LogFollowsDocument
  BY DEF Invariant, RequestInvariant, RunOnce, Tells, LogFollowsDocument
<1>2. QED
  BY <1>1, SpecInvariant, PTL

-----------------------------------------------------------------------------
(* Kitting: types. *)
OrderRow == [status : {"None", "Open", "Completed", "Cancelled"}, assemble : BOOLEAN,
             quantity : Nat, putaway : BOOLEAN]
TaskRow == [order : Orders, staging : BOOLEAN, line : Lines, item : Items, planned : Nat, done : Nat,
            status : {"Open", "Confirmed", "Cancelled"}]
IsTask(t) == t \in TaskRow /\ t.item = LineItem[t.line] /\ t.done <= t.planned

KittingTypes ==
  /\ order \in [Orders -> OrderRow]
  /\ tasks \in Seq(TaskRow) /\ \A i \in DOMAIN tasks : IsTask(tasks[i])
  /\ store \in [Lines -> Nat] /\ center \in [Items -> Nat]

KittingInvariant == KittingTypes /\ StagedForAnOpenOrder /\ KitsBalance

-----------------------------------------------------------------------------
(* Lines, items and the sets listed as sequences. *)

LEMMA LinesFinite ==
  ASSUME KittingAssumption
  PROVE  /\ Lines \subseteq Nat \ {0} /\ IsFiniteSet(Lines) /\ Cardinality(Lines) \in Nat
         /\ \A l \in Lines : LineItem[l] \in Items /\ l <= Cardinality(Lines) /\ OpeningStock[l] \in Nat
         /\ \A x : LinesOf(x) \subseteq Lines /\ IsFiniteSet(LinesOf(x))
<1>1. IsFiniteSet(Lines) /\ Cardinality(Lines) \in Nat
  BY FS_CardinalityType DEF KittingAssumption
<1>2. Lines = 1..Cardinality(Lines)
  BY DEF KittingAssumption
<1>3. \A x : LinesOf(x) \subseteq Lines
  BY DEF LinesOf
<1>4. \A x : IsFiniteSet(LinesOf(x))
  BY <1>1, <1>3, FS_Subset
<1>5. \A l \in Lines : LineItem[l] \in Items /\ OpeningStock[l] \in Nat
  BY DEF KittingAssumption
<1>6. QED
  BY <1>1, <1>2, <1>3, <1>4, <1>5

\* Every item has a storage line, so it has a last one.
LEMMA LastLine ==
  ASSUME KittingAssumption, NEW x \in Items
  PROVE  \E l \in Lines : LineItem[l] = x /\ \A k \in Lines : LineItem[k] = x => k <= l
<1> DEFINE n == Cardinality(Lines)
           T == {m \in Nat : \E l \in LinesOf(x) : m = n - l}
<1>1. n \in Nat /\ \A l \in LinesOf(x) : l \in Nat /\ l <= n /\ n - l \in Nat
  BY LinesFinite
<1>2. PICK l0 \in Lines : LineItem[l0] = x
  BY DEF KittingAssumption
<1>3. n - l0 \in T
  BY <1>1, <1>2 DEF LinesOf
<1>4. PICK m \in T : \A k \in T : m <= k
  BY <1>3, SmallestOf
<1>5. PICK l \in LinesOf(x) : m = n - l
  BY <1>4
<1>6. ASSUME NEW k \in Lines, LineItem[k] = x PROVE k <= l
  <2>1. n - k \in T /\ k \in Nat /\ l \in Nat
    BY <1>1, <1>5, <1>6 DEF LinesOf
  <2>2. n - l <= n - k
    BY <1>4, <1>5, <2>1
  <2>3. QED
    BY <1>1, <2>1, <2>2
<1>7. QED
  BY <1>5, <1>6 DEF LinesOf

\* A finite set as a sequence without repetitions.
LEMMA Listed ==
  ASSUME NEW S, IsFiniteSet(S)
  PROVE  /\ Cardinality(S) \in Nat /\ SetToSeq(S) \in [1..Cardinality(S) -> S]
         /\ \A a, b \in 1..Cardinality(S) : SetToSeq(S)[a] = SetToSeq(S)[b] => a = b
<1> DEFINE n == Cardinality(S)
<1>1. n \in Nat /\ ExistsBijection(1..n, S)
  BY FS_CardinalityType
<1>2. PICK f \in Bijection(1..n, S) : TRUE
  BY <1>1 DEF ExistsBijection
<1>3. f \in [1..n -> S] /\ \A a, b \in 1..n : f[a] = f[b] => a = b
  BY <1>2 DEF Bijection, Injection, IsInjective
<1>4. f \in [1..n -> S] /\ IsInjective(f)
  BY <1>3 DEF IsInjective
<1>5. SetToSeq(S) \in [1..n -> S] /\ IsInjective(SetToSeq(S))
  BY <1>4 DEF SetToSeq
<1>6. QED
  BY <1>1, <1>5 DEF IsInjective

LEMMA SidesOfAKit ==
  ASSUME KittingAssumption, KittingTypes, NEW o \in Orders
  PROVE  /\ Inputs(o) \subseteq Items /\ Outputs(o) \subseteq Items
         /\ IsFiniteSet(Inputs(o)) /\ IsFiniteSet(Outputs(o))
         /\ order[o] \in OrderRow /\ order[o].quantity \in Nat /\ order[o].putaway \in BOOLEAN
         /\ order[o].assemble \in BOOLEAN
<1>1. IsFiniteSet(Components) /\ IsFiniteSet({Kit})
  BY FS_Singleton DEF KittingAssumption
<1>2. order[o] \in OrderRow
  BY DEF KittingTypes
<1>3. QED
  BY <1>1, <1>2 DEF Inputs, Outputs, Items, OrderRow

-----------------------------------------------------------------------------
(* What is under way for an order. *)
OpenStaging(o, x) == {i \in StagingOf(o) : tasks[i].item = x}
Staged(o, x) == SumOf(Left, OpenStaging(o, x))

LEMMA TasksType ==
  ASSUME KittingTypes, NEW i \in DOMAIN tasks
  PROVE  /\ IsTask(tasks[i]) /\ tasks[i] \in TaskRow
         /\ tasks[i].line \in Lines /\ tasks[i].item = LineItem[tasks[i].line] /\ tasks[i].item \in Items
         /\ tasks[i].planned \in Nat /\ tasks[i].done \in Nat /\ tasks[i].done <= tasks[i].planned
         /\ tasks[i].order \in Orders /\ tasks[i].staging \in BOOLEAN
         /\ Left[i] = tasks[i].planned - tasks[i].done /\ Left[i] \in Nat
<1>1. IsTask(tasks[i])
  BY DEF KittingTypes
<1>2. Left[i] = tasks[i].planned - tasks[i].done
  BY DEF Left
<1>3. QED
  BY <1>1, <1>2 DEF IsTask, TaskRow

LEMMA StagedType ==
  ASSUME KittingTypes, NEW o, NEW x
  PROVE  /\ OpenStaging(o, x) \subseteq DOMAIN tasks /\ IsFiniteSet(OpenStaging(o, x))
         /\ \A i \in OpenStaging(o, x) : Left[i] \in Nat
         /\ Staged(o, x) \in Nat
<1>1. OpenStaging(o, x) \subseteq DOMAIN tasks
  BY DEF OpenStaging, StagingOf, OpenTasks
<1>2. DOMAIN tasks = 1..Len(tasks) /\ Len(tasks) \in Nat
  BY DEF KittingTypes
<1>3. IsFiniteSet(OpenStaging(o, x))
  <2>1. IsFiniteSet(1..Len(tasks))
    BY <1>2, FS_Interval
  <2>2. QED
    BY <1>1, <1>2, <2>1, FS_Subset
<1>4. \A i \in OpenStaging(o, x) : Left[i] \in Nat
  BY <1>1, TasksType
<1>5. QED
  BY <1>1, <1>3, <1>4, SumNat DEF Staged, SumOf

LEMMA StagedTypePrimed ==
  ASSUME KittingTypes', NEW o, NEW x
  PROVE  /\ OpenStaging(o, x)' \subseteq DOMAIN tasks' /\ IsFiniteSet(OpenStaging(o, x)')
         /\ \A i \in OpenStaging(o, x)' : Left'[i] \in Nat
         /\ Staged(o, x)' \in Nat
<1>1. OpenStaging(o, x)' \subseteq DOMAIN tasks'
  BY DEF OpenStaging, StagingOf, OpenTasks
<1>2. DOMAIN tasks' = 1..Len(tasks') /\ Len(tasks') \in Nat /\ \A i \in DOMAIN tasks' : IsTask(tasks'[i])
  BY DEF KittingTypes
<1>3. IsFiniteSet(OpenStaging(o, x)')
  <2>1. IsFiniteSet(1..Len(tasks'))
    BY <1>2, FS_Interval
  <2>2. QED
    BY <1>1, <1>2, <2>1, FS_Subset
<1>4. \A i \in DOMAIN tasks' : Left'[i] = tasks'[i].planned - tasks'[i].done
  BY DEF Left
<1>5. \A i \in OpenStaging(o, x)' : Left'[i] \in Nat
  BY <1>1, <1>2, <1>4 DEF IsTask, TaskRow
<1>6. SumFunctionOnSet(Left', OpenStaging(o, x)') \in Nat
  BY <1>3, <1>5, SumNat
<1>7. QED
  BY <1>1, <1>3, <1>5, <1>6 DEF Staged, SumOf

\* What is asked of the storage bins and what is under way.
LEMMA StagedIsInTransit ==
  ASSUME KittingTypes, NEW o, NEW x
  PROVE  InTransit(o, x) = Staged(o, x)
<1>1. \A i \in StagingOf(o) : tasks[i].item = LineItem[tasks[i].line]
  BY TasksType DEF StagingOf, OpenTasks
<1>2. {i \in StagingOf(o) : LineItem[tasks[i].line] = x} = OpenStaging(o, x)
  BY <1>1 DEF OpenStaging
<1>3. QED
  BY <1>2 DEF InTransit, Staged

LEMMA StagedForAnOpenOrderMeans ==
  StagedForAnOpenOrder <=>
    \A o \in Orders : \A x \in Items : Staged(o, x) <= (IF IsOpen(o) THEN order[o].quantity ELSE 0)
BY DEF StagedForAnOpenOrder, Staged, OpenStaging

LEMMA StagedForAnOpenOrderPrimed ==
  StagedForAnOpenOrder' <=>
    \A o \in Orders : \A x \in Items : Staged(o, x)' <= (IF IsOpen(o)' THEN order'[o].quantity ELSE 0)
BY DEF StagedForAnOpenOrder, Staged, OpenStaging

\* When no task is added and none has more to bring, no more is under way.
LEMMA StagedShrinks ==
  ASSUME KittingTypes, KittingTypes', NEW o, NEW x,
         OpenStaging(o, x)' \subseteq OpenStaging(o, x),
         \A i \in OpenStaging(o, x)' : Left'[i] <= Left[i]
  PROVE  Staged(o, x)' <= Staged(o, x)
<1> DEFINE S == OpenStaging(o, x)'
<1>1. IsFiniteSet(OpenStaging(o, x)) /\ \A i \in OpenStaging(o, x) : Left[i] \in Nat
  BY StagedType
<1>2. IsFiniteSet(S) /\ \A i \in S : Left'[i] \in Nat
  BY StagedTypePrimed
<1> HIDE DEF S
<1>3. SumFunctionOnSet(Left', S) <= SumFunctionOnSet(Left, S)
  BY <1>1, <1>2, SumAtMost DEF S
<1>4. SumFunctionOnSet(Left, S) <= SumFunctionOnSet(Left, OpenStaging(o, x))
  BY <1>1, SumSubset DEF S
<1>5. SumFunctionOnSet(Left, OpenStaging(o, x)) \in Int /\ SumFunctionOnSet(Left, S) \in Int
      /\ SumFunctionOnSet(Left', S) \in Int
  BY <1>1, <1>2, SumInt DEF S
<1>6. QED
  BY <1>3, <1>4, <1>5 DEF Staged, SumOf, S

-----------------------------------------------------------------------------
(* What a staging takes. *)

LEMMA NeedType ==
  ASSUME KittingAssumption, KittingTypes, NEW o \in Orders, NEW x \in Items
  PROVE  Need(o, x) \in Int /\ Need(o, x) + Staged(o, x) <= order[o].quantity
<1>1. order[o].quantity \in Nat
  BY SidesOfAKit
<1>2. center[x] \in Nat
  BY DEF KittingTypes
<1>3. Staged(o, x) \in Nat /\ InTransit(o, x) = Staged(o, x)
  BY StagedType, StagedIsInTransit
<1>4. QED
  BY <1>1, <1>2, <1>3 DEF Need

\* The bins before a line hold a natural number of units.
LEMMA EarlierType ==
  ASSUME KittingAssumption, KittingTypes, NEW S \in SUBSET Lines
  PROVE  SumOf(store, S) \in Nat
<1>1. IsFiniteSet(S)
  BY LinesFinite, FS_Subset
<1>2. \A l \in S : store[l] \in Nat
  BY DEF KittingTypes
<1>3. QED
  BY <1>1, <1>2, SumNat DEF SumOf

LEMMA TakenType ==
  ASSUME KittingAssumption, KittingTypes, NEW o \in Orders, NEW l \in Lines
  PROVE  Taken(o, l) \in Nat
<1>1. LineItem[l] \in Items /\ store[l] \in Nat
  BY LinesFinite DEF KittingTypes
<1>2. Need(o, LineItem[l]) \in Int
  BY <1>1, NeedType
<1>3. Earlier(l) \in Nat
  <2>1. {k \in LinesOf(LineItem[l]) : k < l} \subseteq Lines
    BY DEF LinesOf
  <2>2. QED
    BY <2>1, EarlierType DEF Earlier
<1>4. QED
  BY <1>1, <1>2, <1>3 DEF Taken, AtLeastZero, Smaller

\* The shares of the bins that are emptied one after the other are together
\* what is needed, or less.
LEMMA SharesOfTheBins ==
  ASSUME KittingAssumption, KittingTypes, NEW o \in Orders, NEW x \in Items
  PROVE  SumOf([l \in Lines |-> Taken(o, l)], LinesOf(x)) <= AtLeastZero(Need(o, x))
<1> DEFINE g == [l \in Lines |-> Taken(o, l)]
           need == Need(o, x)
           Upto(n) == {l \in LinesOf(x) : l <= n}
           Shares(n) == SumFunctionOnSet(g, Upto(n))
           Stock(n) == SumFunctionOnSet(store, Upto(n))
           Bad == {n \in Nat : ~(Shares(n) <= AtLeastZero(Smaller(Stock(n), need)))}
<1>1. need \in Int
  BY NeedType
<1>2. \A n \in Nat : Upto(n) \subseteq LinesOf(x) /\ IsFiniteSet(Upto(n))
  BY LinesFinite, FS_Subset
<1>3. \A l \in LinesOf(x) : l \in Lines /\ LineItem[l] = x /\ l \in Nat \ {0}
  BY LinesFinite DEF LinesOf
<1>4. \A l \in LinesOf(x) : g[l] = Taken(o, l) /\ g[l] \in Nat /\ store[l] \in Nat
  BY <1>3, TakenType DEF KittingTypes
<1>5. \A n \in Nat : Shares(n) \in Nat /\ Stock(n) \in Nat
  BY <1>2, <1>4, SumNat
<1>6. Bad = {}
  <2> SUFFICES ASSUME Bad # {} PROVE FALSE
    OBVIOUS
  <2>1. PICK n \in Bad : \A m \in Bad : n <= m
    BY SmallestOf
  <2>2. n # 0
    <3>1. Upto(0) = {}
      BY <1>3
    <3>2. Shares(0) = 0 /\ Stock(0) = 0
      BY <3>1, SumEmpty
    <3>3. Shares(0) <= AtLeastZero(Smaller(Stock(0), need))
      BY <1>1, <3>2 DEF AtLeastZero, Smaller
    <3>4. QED
      BY <3>3
  <2>3. n - 1 \in Nat /\ n \in Nat
    BY <2>2
  <2>4. Shares(n - 1) <= AtLeastZero(Smaller(Stock(n - 1), need))
    <3>1. n - 1 \notin Bad
      BY <2>1, <2>3
    <3>2. QED
      BY <2>3, <3>1
  <2>5. n \in LinesOf(x)
    <3> SUFFICES ASSUME n \notin LinesOf(x) PROVE FALSE
      OBVIOUS
    <3>1. Upto(n) = Upto(n - 1)
      BY <1>3, <2>3
    <3>2. Shares(n) = Shares(n - 1) /\ Stock(n) = Stock(n - 1)
      BY <3>1
    <3>3. QED
      BY <2>4, <3>2
  <2>6. Upto(n) = Upto(n - 1) \cup {n} /\ n \notin Upto(n - 1)
    <3>1. \A l \in LinesOf(x) : l <= n <=> l <= n - 1 \/ l = n
      BY <1>3, <2>3
    <3>2. ~(n <= n - 1)
      BY <2>3
    <3>3. QED
      BY <2>5, <3>1, <3>2, Zenon
  <2>7. IsFiniteSet(Upto(n - 1)) /\ \A l \in Upto(n - 1) : g[l] \in Int /\ store[l] \in Int
    BY <1>2, <1>4, <2>3
  <2>8. g[n] \in Int /\ store[n] \in Nat /\ g[n] = Taken(o, n) /\ LineItem[n] = x
    BY <1>3, <1>4, <2>5
  <2>9. Shares(n) = g[n] + Shares(n - 1) /\ Stock(n) = store[n] + Stock(n - 1)
    <3> HIDE DEF g, Upto
    <3>1. SumFunctionOnSet(g, Upto(n - 1) \cup {n}) = g[n] + SumFunctionOnSet(g, Upto(n - 1))
      BY <2>6, <2>7, <2>8, SumAdd
    <3>2. SumFunctionOnSet(store, Upto(n - 1) \cup {n}) = store[n] + SumFunctionOnSet(store, Upto(n - 1))
      BY <2>6, <2>7, <2>8, SumAdd
    <3>3. QED
      BY <2>6, <3>1, <3>2
  <2>10. Earlier(n) = Stock(n - 1)
    <3>1. {k \in LinesOf(LineItem[n]) : k < n} = Upto(n - 1)
      BY <1>3, <2>3, <2>8
    <3>2. QED
      BY <3>1 DEF Earlier, SumOf
  <2>11. g[n] = AtLeastZero(Smaller(store[n], need - Stock(n - 1)))
    BY <2>8, <2>10 DEF Taken
  <2>12. Stock(n - 1) \in Nat /\ Shares(n - 1) \in Nat
    BY <1>5, <2>3
  <2>13. ~(Shares(n) <= AtLeastZero(Smaller(Stock(n), need)))
    BY <2>1
  <2> HIDE DEF Shares, Stock, need, g
  <2>14. QED
    BY <1>1, <2>4, <2>8, <2>9, <2>11, <2>12, <2>13 DEF AtLeastZero, Smaller
<1>7. Cardinality(Lines) \in Nat /\ Upto(Cardinality(Lines)) = LinesOf(x)
  BY LinesFinite
<1>8. Shares(Cardinality(Lines)) <= AtLeastZero(Smaller(Stock(Cardinality(Lines)), need))
  BY <1>6, <1>7
<1>9. Shares(Cardinality(Lines)) \in Nat /\ Stock(Cardinality(Lines)) \in Nat
  BY <1>5, <1>7
<1>10. SumFunctionOnSet(g, LinesOf(x)) = Shares(Cardinality(Lines))
  BY <1>7
<1> HIDE DEF Shares, Stock, need, g
<1>11. SumFunctionOnSet(g, LinesOf(x)) <= AtLeastZero(need)
  BY <1>1, <1>8, <1>9, <1>10 DEF AtLeastZero, Smaller
<1>12. QED
  BY <1>11 DEF SumOf, g, need

-----------------------------------------------------------------------------
(* Creating and staging an order. *)

LEMMA KittingInitInvariant ==
  ASSUME KittingAssumption, KittingInit
  PROVE  KittingInvariant
<1>1. KittingTypes
  <2>1. NoOrder \in OrderRow
    BY DEF NoOrder, OrderRow
  <2>2. tasks \in Seq(TaskRow) /\ DOMAIN tasks = {}
    BY DEF KittingInit
  <2>3. QED
    BY <2>1, <2>2 DEF KittingInit, KittingTypes, KittingAssumption
<1>2. StagedForAnOpenOrder
  <2>1. \A o, x : OpenStaging(o, x) = {}
    BY DEF KittingInit, OpenStaging, StagingOf, OpenTasks
  <2>2. \A o, x : Staged(o, x) = 0
    BY <2>1, SumEmpty DEF Staged, SumOf
  <2>3. \A o \in Orders : ~IsOpen(o)
    BY DEF KittingInit, NoOrder, IsOpen
  <2>4. QED
    BY <2>2, <2>3, StagedForAnOpenOrderMeans
<1>3. KitsBalance
  <2>1. \A x \in Items : center[x] = 0 /\ SumOf(store, LinesOf(x)) \in Nat
    BY <1>1, EarlierType, LinesFinite DEF KittingInit
  <2>2. \A x \in Items : InStock(x) = AtFirst(x)
    BY <2>1 DEF KittingInit, InStock, AtFirst
  <2>3. QED
    BY <2>2 DEF KitsBalance, Items
<1>4. QED
  BY <1>1, <1>2, <1>3 DEF KittingInvariant

LEMMA CreateKittingOrderStep ==
  ASSUME KittingAssumption, KittingInvariant, NEW o \in Orders, NEW assemble \in BOOLEAN,
         NEW q \in OrderQuantities, NEW putaway \in BOOLEAN,
         CreateKittingOrder(o, assemble, q, putaway)
  PROVE  KittingInvariant'
<1> DEFINE new == [status |-> "Open", assemble |-> assemble, quantity |-> q, putaway |-> putaway]
<1>1. KittingTypes /\ StagedForAnOpenOrder /\ KitsBalance
  BY DEF KittingInvariant
<1>2. order[o].status = "None" /\ order' = [order EXCEPT ![o] = new] /\ UNCHANGED <<tasks, store, center>>
  BY DEF CreateKittingOrder
<1>3. new \in OrderRow /\ q \in Nat
  BY DEF OrderRow, KittingAssumption
<1>4. KittingTypes'
  BY <1>1, <1>2, <1>3 DEF KittingTypes
<1>5. KitsBalance'
  BY <1>1, <1>2 DEF KitsBalance, InStock
<1>6. StagedForAnOpenOrder'
  <2>1. ASSUME NEW p, NEW x PROVE Staged(p, x)' = Staged(p, x) /\ Staged(p, x) \in Nat
    <3>1. tasks' = tasks
      BY <1>2
    <3>2. OpenStaging(p, x)' = OpenStaging(p, x) /\ Left' = Left
      BY <3>1 DEF OpenStaging, StagingOf, OpenTasks, Left
    <3>3. QED
      BY <1>1, <3>2, StagedType DEF Staged
  <2>2. ASSUME NEW p \in Orders, NEW x \in Items
        PROVE  Staged(p, x)' <= (IF IsOpen(p)' THEN order'[p].quantity ELSE 0)
    <3>1. Staged(p, x) <= (IF IsOpen(p) THEN order[p].quantity ELSE 0)
      BY <1>1, StagedForAnOpenOrderMeans
    <3>2. CASE p = o
      <4>1. order'[o] = new /\ ~IsOpen(o)
        BY <1>1, <1>2 DEF IsOpen, KittingTypes
      <4>2. IsOpen(o)' /\ order'[o].quantity = q
        BY <4>1 DEF IsOpen
      <4>3. QED
        BY <1>3, <2>1, <3>1, <3>2, <4>1, <4>2
    <3>3. CASE p # o
      <4>1. order'[p] = order[p] /\ (IsOpen(p)' <=> IsOpen(p))
        BY <1>1, <1>2, <3>3 DEF IsOpen, KittingTypes
      <4>2. QED
        BY <2>1, <3>1, <4>1
    <3>4. QED
      BY <3>2, <3>3
  <2>3. QED
    BY <2>2, StagedForAnOpenOrderPrimed
<1>7. QED
  BY <1>4, <1>5, <1>6 DEF KittingInvariant

\* The tasks a staging creates.
LEMMA StagingTasksType ==
  ASSUME KittingAssumption, KittingTypes, NEW o \in Orders
  PROVE  LET c == Cardinality(LinesTaken(o)) IN
         /\ c \in Nat /\ StagingTasks(o) \in Seq(TaskRow) /\ Len(StagingTasks(o)) = c
         /\ DOMAIN StagingTasks(o) = 1..c
         /\ \A n \in 1..c :
              /\ SetToSeq(LinesTaken(o))[n] \in LinesTaken(o)
              /\ StagingTasks(o)[n] = StagingTask(o, SetToSeq(LinesTaken(o))[n])
              /\ IsTask(StagingTasks(o)[n])
         /\ \A m, n \in 1..c : SetToSeq(LinesTaken(o))[m] = SetToSeq(LinesTaken(o))[n] => m = n
<1> DEFINE c == Cardinality(LinesTaken(o))
<1>1. LinesTaken(o) \subseteq Lines /\ IsFiniteSet(LinesTaken(o))
  <2>1. LinesTaken(o) \subseteq Lines
    BY DEF LinesTaken
  <2>2. QED
    BY <2>1, LinesFinite, FS_Subset
<1>2. /\ c \in Nat /\ SetToSeq(LinesTaken(o)) \in [1..c -> LinesTaken(o)]
      /\ \A a, b \in 1..c : SetToSeq(LinesTaken(o))[a] = SetToSeq(LinesTaken(o))[b] => a = b
  BY <1>1, Listed
<1>3. ASSUME NEW l \in LinesTaken(o) PROVE StagingTask(o, l) \in TaskRow /\ IsTask(StagingTask(o, l))
  <2>1. l \in Lines /\ Taken(o, l) \in Nat /\ LineItem[l] \in Items
    BY <1>1, TakenType, LinesFinite
  <2>2. StagingTask(o, l) \in TaskRow
    BY <2>1 DEF StagingTask, TaskRow
  <2>3. QED
    BY <2>1, <2>2 DEF StagingTask, IsTask
<1>4. StagingTasks(o) = [n \in 1..c |-> StagingTask(o, SetToSeq(LinesTaken(o))[n])]
  BY DEF StagingTasks
<1>5. \A n \in 1..c : SetToSeq(LinesTaken(o))[n] \in LinesTaken(o)
  BY <1>2
<1>6. \A n \in 1..c : StagingTask(o, SetToSeq(LinesTaken(o))[n]) \in TaskRow
  BY <1>3, <1>5
<1>7. StagingTasks(o) \in [1..c -> TaskRow]
  BY <1>4, <1>6
<1>8. StagingTasks(o) \in Seq(TaskRow) /\ Len(StagingTasks(o)) = c
  BY <1>2, <1>7
<1>9. QED
  BY <1>2, <1>3, <1>4, <1>5, <1>8

\* Two lists of tasks, one after the other.
LEMMA TasksAppended ==
  ASSUME NEW s \in Seq(TaskRow), NEW t \in Seq(TaskRow),
         \A i \in DOMAIN s : IsTask(s[i]), \A i \in DOMAIN t : IsTask(t[i])
  PROVE  /\ s \o t \in Seq(TaskRow) /\ DOMAIN (s \o t) = 1..(Len(s) + Len(t))
         /\ Len(s) \in Nat /\ Len(t) \in Nat /\ DOMAIN s = 1..Len(s) /\ DOMAIN t = 1..Len(t)
         /\ \A i \in DOMAIN s : i \in DOMAIN (s \o t) /\ (s \o t)[i] = s[i]
         /\ \A i \in DOMAIN (s \o t) \ DOMAIN s : i - Len(s) \in DOMAIN t /\ (s \o t)[i] = t[i - Len(s)]
         /\ \A i \in DOMAIN (s \o t) : IsTask((s \o t)[i])
<1>1. /\ s \o t \in Seq(TaskRow) /\ DOMAIN (s \o t) = 1..(Len(s) + Len(t))
      /\ Len(s) \in Nat /\ Len(t) \in Nat /\ DOMAIN s = 1..Len(s) /\ DOMAIN t = 1..Len(t)
  OBVIOUS
<1>2. \A i \in DOMAIN s : i \in DOMAIN (s \o t) /\ (s \o t)[i] = s[i]
  OBVIOUS
<1>3. \A i \in DOMAIN (s \o t) \ DOMAIN s : i - Len(s) \in DOMAIN t /\ (s \o t)[i] = t[i - Len(s)]
  OBVIOUS
<1>4. \A i \in DOMAIN (s \o t) : IsTask((s \o t)[i])
  BY <1>2, <1>3, Zenon
<1>5. QED
  BY <1>1, <1>2, <1>3, <1>4

\* What is under way for another order is left alone by a staging.
LEMMA StageKittingComponentsStep ==
  ASSUME KittingAssumption, KittingInvariant, NEW o \in Orders, StageKittingComponents(o)
  PROVE  KittingInvariant'
<1> DEFINE c == Cardinality(LinesTaken(o))
           n == Len(tasks)
           line == SetToSeq(LinesTaken(o))
           new == StagingTasks(o)
<1>1. KittingTypes /\ StagedForAnOpenOrder /\ KitsBalance
  BY DEF KittingInvariant
<1>2. IsOpen(o) /\ tasks' = tasks \o new /\ UNCHANGED <<order, store, center>>
  BY DEF StageKittingComponents
<1>3. /\ c \in Nat /\ new \in Seq(TaskRow) /\ Len(new) = c /\ DOMAIN new = 1..c
      /\ \A k \in 1..c : line[k] \in LinesTaken(o) /\ new[k] = StagingTask(o, line[k]) /\ IsTask(new[k])
      /\ \A k, m \in 1..c : line[k] = line[m] => k = m
  BY <1>1, StagingTasksType
<1> HIDE DEF new, line, c
<1>4. tasks \in Seq(TaskRow) /\ \A i \in DOMAIN tasks : IsTask(tasks[i])
  BY <1>1 DEF KittingTypes
<1>5. /\ tasks' \in Seq(TaskRow) /\ DOMAIN tasks' = 1..(n + c) /\ n \in Nat /\ DOMAIN tasks = 1..n
      /\ \A i \in 1..n : tasks'[i] = tasks[i]
      /\ \A i \in DOMAIN tasks' \ 1..n : i - n \in 1..c /\ tasks'[i] = new[i - n]
      /\ \A i \in DOMAIN tasks' : IsTask(tasks'[i])
  BY <1>2, <1>3, <1>4, TasksAppended
<1>6. KittingTypes'
  BY <1>1, <1>2, <1>5 DEF KittingTypes
<1>7. KitsBalance'
  BY <1>1, <1>2 DEF KitsBalance, InStock
<1>8. ASSUME NEW i \in 1..n PROVE Left'[i] = Left[i] /\ i \in DOMAIN tasks /\ i \in DOMAIN tasks'
  <2>1. i \in DOMAIN tasks /\ i \in DOMAIN tasks' /\ tasks'[i] = tasks[i]
    BY <1>3, <1>5
  <2>2. QED
    BY <2>1 DEF Left
<1>9. ASSUME NEW i \in DOMAIN tasks' \ 1..n
      PROVE  /\ i - n \in 1..c /\ line[i - n] \in LinesTaken(o) /\ line[i - n] \in Lines
             /\ tasks'[i].order = o /\ tasks'[i].staging /\ tasks'[i].status = "Open"
             /\ tasks'[i].item = LineItem[line[i - n]]
             /\ Left'[i] = Taken(o, line[i - n])
  <2>1. i - n \in 1..c /\ tasks'[i] = new[i - n]
    BY <1>5
  <2>2. line[i - n] \in LinesTaken(o) /\ tasks'[i] = StagingTask(o, line[i - n])
    BY <1>3, <2>1
  <2>3. line[i - n] \in Lines /\ Taken(o, line[i - n]) \in Nat
    BY <1>1, <2>2, TakenType DEF LinesTaken
  <2>4. Left'[i] = tasks'[i].planned - tasks'[i].done
    BY DEF Left
  <2>5. QED
    BY <2>1, <2>2, <2>3, <2>4 DEF StagingTask
<1>10. ASSUME NEW p, NEW x
       PROVE  OpenStaging(p, x)' \cap 1..n = OpenStaging(p, x)
  <2>1. OpenStaging(p, x) \subseteq 1..n
    BY <1>5 DEF OpenStaging, StagingOf, OpenTasks
  <2>2. ASSUME NEW i \in 1..n PROVE i \in OpenStaging(p, x)' <=> i \in OpenStaging(p, x)
    <3>1. i \in DOMAIN tasks /\ i \in DOMAIN tasks' /\ tasks'[i] = tasks[i]
      BY <1>5, <1>8
    <3>2. QED
      BY <3>1, Zenon DEF OpenStaging, StagingOf, OpenTasks
  <2>3. QED
    BY <2>1, <2>2
<1>11. ASSUME NEW p \in Orders, NEW x \in Items
       PROVE  Staged(p, x)' <= (IF IsOpen(p)' THEN order'[p].quantity ELSE 0)
  <2>1. Staged(p, x) <= (IF IsOpen(p) THEN order[p].quantity ELSE 0)
    BY <1>1, StagedForAnOpenOrderMeans
  <2>2. (IsOpen(p)' <=> IsOpen(p)) /\ order' = order
    BY <1>2 DEF IsOpen
  <2>3. CASE p # o
    <3>1. OpenStaging(p, x)' = OpenStaging(p, x)
      <4>1. OpenStaging(p, x)' \subseteq DOMAIN tasks' /\ \A i \in OpenStaging(p, x)' : tasks'[i].order = p
        BY DEF OpenStaging, StagingOf, OpenTasks
      <4>2. OpenStaging(p, x)' \subseteq 1..n
        BY <1>9, <2>3, <4>1
      <4>3. QED
        BY <1>10, <4>2
    <3>2. OpenStaging(p, x) \subseteq 1..n
      BY <1>10
    <3>3. \A i \in OpenStaging(p, x)' : Left'[i] <= Left[i]
      <4>1. \A i \in OpenStaging(p, x) : Left[i] \in Nat
        BY <1>1, StagedType
      <4>2. QED
        BY <1>8, <3>1, <3>2, <4>1
    <3>4. Staged(p, x)' <= Staged(p, x)
      BY <1>1, <1>6, <3>1, <3>3, StagedShrinks
    <3>5. Staged(p, x) \in Nat /\ Staged(p, x)' \in Nat /\ order[p].quantity \in Nat
      <4>1. Staged(p, x)' \in Nat
        BY <1>6, StagedTypePrimed
      <4>2. QED
        BY <1>1, <4>1, StagedType, SidesOfAKit
    <3>6. QED
      BY <2>1, <2>2, <3>4, <3>5
  <2>4. CASE p = o
    <3> DEFINE old == OpenStaging(o, x)
               added == OpenStaging(o, x)' \ old
               share == [l \in Lines |-> Taken(o, l)]
               name == [i \in added |-> line[i - n]]
    <3>1. /\ old \subseteq 1..n /\ IsFiniteSet(old) /\ \A i \in old : Left[i] \in Nat /\ Left'[i] = Left[i]
          /\ Staged(o, x) \in Nat
      BY <1>1, <1>5, <1>8, StagedType
    <3>2. added \subseteq DOMAIN tasks' \ 1..n /\ OpenStaging(o, x)' = old \cup added
          /\ \A i \in added : tasks'[i].item = x
      <4>1. OpenStaging(o, x)' \cap 1..n = old
        BY <1>10
      <4>2. OpenStaging(o, x)' \subseteq DOMAIN tasks'
        BY <1>6, StagedTypePrimed
      <4>3. \A i \in OpenStaging(o, x)' : tasks'[i].item = x
        BY DEF OpenStaging
      <4> HIDE DEF old
      <4>4. QED
        BY <4>1, <4>2, <4>3
    <3>3. IsFiniteSet(added)
      <4>1. IsFiniteSet(1..(n + c))
        BY <1>3, <1>5, FS_Interval
      <4>2. QED
        BY <1>5, <3>2, <4>1, FS_Subset
    <3>4. \A i \in added : /\ name[i] \in LinesOf(x) /\ share[name[i]] = Left'[i] /\ Left'[i] \in Nat
      <4>1. ASSUME NEW i \in added PROVE name[i] \in LinesOf(x) /\ share[name[i]] = Left'[i] /\ Left'[i] \in Nat
        <5>1. name[i] = line[i - n] /\ name[i] \in Lines /\ LineItem[name[i]] = x /\ Left'[i] = Taken(o, name[i])
          BY <1>9, <3>2
        <5>2. Taken(o, name[i]) \in Nat
          BY <1>1, <5>1, TakenType
        <5>3. QED
          BY <5>1, <5>2 DEF LinesOf
      <4>2. QED
        BY <4>1
    <3>5. \A i, j \in added : name[i] = name[j] => i = j
      <4>1. ASSUME NEW i \in added, NEW j \in added, name[i] = name[j] PROVE i = j
        <5>1. i - n \in 1..c /\ j - n \in 1..c /\ i \in Nat /\ j \in Nat
          BY <1>3, <1>5, <1>9, <3>2
        <5>2. i - n = j - n
          BY <1>3, <4>1, <5>1
        <5>3. QED
          BY <1>5, <5>1, <5>2
      <4>2. QED
        BY <4>1
    <3>6. SumFunctionOnSet(Left', added) <= AtLeastZero(Need(o, x)) /\ SumFunctionOnSet(Left', added) \in Nat
      <4>1. SumFunctionOnSet(share, {name[i] : i \in added}) = SumFunctionOnSet(Left', added)
        <5> HIDE DEF added, share, name
        <5>1. \A i \in added : Left'[i] \in Int /\ share[name[i]] = Left'[i]
          BY <3>4
        <5>2. QED
          BY <3>3, <3>5, <5>1, SumRenamed
      <4>2. {name[i] : i \in added} \in SUBSET LinesOf(x)
        BY <3>4
      <4>3. IsFiniteSet(LinesOf(x)) /\ \A l \in LinesOf(x) : share[l] \in Nat
        BY <1>1, LinesFinite, TakenType DEF LinesOf
      <4>4. SumFunctionOnSet(share, {name[i] : i \in added}) <= SumFunctionOnSet(share, LinesOf(x))
        <5> HIDE DEF share, name, added
        <5>1. QED
          BY <4>2, <4>3, SumSubset
      <4>5. SumFunctionOnSet(share, LinesOf(x)) <= AtLeastZero(Need(o, x))
        BY <1>1, SharesOfTheBins DEF SumOf
      <4>6. SumFunctionOnSet(Left', added) \in Nat
        BY <3>3, <3>4, SumNat
      <4>7. SumFunctionOnSet(share, LinesOf(x)) \in Nat
        BY <4>3, SumNat
      <4>8. AtLeastZero(Need(o, x)) \in Nat
        BY <1>1, NeedType DEF AtLeastZero
      <4> HIDE DEF share, name, added
      <4>9. QED
        BY <4>1, <4>4, <4>5, <4>6, <4>7, <4>8
    <3>7. Staged(o, x)' = Staged(o, x) + SumFunctionOnSet(Left', added)
      <4>1. SumFunctionOnSet(Left', old) = SumFunctionOnSet(Left, old)
        BY <3>1, SumEqual
      <4>2. \A i \in old \cup added : Left'[i] \in Int
        <5>1. \A i \in old : Left'[i] \in Int
          BY <3>1
        <5> HIDE DEF old, added, share, name
        <5>2. \A i \in added : Left'[i] \in Int
          BY <3>4
        <5>3. QED
          BY <5>1, <5>2
      <4>3. old \cap added = {}
        OBVIOUS
      <4>4. SumFunctionOnSet(Left', old \cup added) = SumFunctionOnSet(Left', old) + SumFunctionOnSet(Left', added)
        <5> HIDE DEF old, added
        <5>1. QED
          BY <3>1, <3>3, <4>2, <4>3, SumDisjoint
      <4>5. QED
        BY <3>2, <4>1, <4>4 DEF Staged, SumOf
    <3>8. Need(o, x) \in Int /\ Need(o, x) + Staged(o, x) <= order[o].quantity /\ order[o].quantity \in Nat
      BY <1>1, NeedType, SidesOfAKit
    <3>9. Staged(o, x) <= order[o].quantity
      BY <1>2, <2>1, <2>4
    <3> HIDE DEF added
    <3>10. Staged(o, x)' <= order[o].quantity
      BY <3>1, <3>6, <3>7, <3>8, <3>9 DEF AtLeastZero
    <3>11. QED
      BY <1>2, <2>2, <2>4, <3>10
  <2>5. QED
    BY <2>3, <2>4
<1>12. StagedForAnOpenOrder'
  BY <1>11, StagedForAnOpenOrderPrimed
<1>13. QED
  BY <1>6, <1>7, <1>12 DEF KittingInvariant

-----------------------------------------------------------------------------
(* Completing and cancelling an order. *)

LEMMA StagingClosedType ==
  ASSUME KittingTypes, NEW o
  PROVE  /\ StagingClosed(o) \in Seq(TaskRow) /\ DOMAIN StagingClosed(o) = DOMAIN tasks
         /\ \A i \in DOMAIN tasks :
              /\ IsTask(StagingClosed(o)[i])
              /\ StagingClosed(o)[i].planned = tasks[i].planned /\ StagingClosed(o)[i].done = tasks[i].done
              /\ StagingClosed(o)[i].order = tasks[i].order /\ StagingClosed(o)[i].item = tasks[i].item
              /\ StagingClosed(o)[i].staging = tasks[i].staging
              /\ StagingClosed(o)[i].status = IF i \in StagingOf(o) THEN "Cancelled" ELSE tasks[i].status
<1>1. StagingClosed(o) = [i \in DOMAIN tasks |-> IF i \in StagingOf(o) THEN [tasks[i] EXCEPT !.status = "Cancelled"] ELSE tasks[i]]
  BY DEF StagingClosed
<1>2. tasks \in Seq(TaskRow) /\ DOMAIN tasks = 1..Len(tasks) /\ Len(tasks) \in Nat
  BY DEF KittingTypes
<1>3. ASSUME NEW i \in DOMAIN tasks
      PROVE  LET t == StagingClosed(o)[i] IN
             /\ t \in TaskRow /\ IsTask(t)
             /\ t.planned = tasks[i].planned /\ t.done = tasks[i].done /\ t.order = tasks[i].order
             /\ t.item = tasks[i].item /\ t.staging = tasks[i].staging
             /\ t.status = IF i \in StagingOf(o) THEN "Cancelled" ELSE tasks[i].status
  <2>1. IsTask(tasks[i]) /\ tasks[i] \in TaskRow
    BY TasksType
  <2>2. StagingClosed(o)[i] = IF i \in StagingOf(o) THEN [tasks[i] EXCEPT !.status = "Cancelled"] ELSE tasks[i]
    BY <1>1
  <2>3. CASE i \in StagingOf(o)
    <3>1. StagingClosed(o)[i] = [tasks[i] EXCEPT !.status = "Cancelled"]
      BY <2>2, <2>3
    <3>2. QED
      BY <2>1, <2>3, <3>1 DEF TaskRow, IsTask
  <2>4. CASE i \notin StagingOf(o)
    BY <2>1, <2>2, <2>4
  <2>5. QED
    BY <2>3, <2>4
<1>4. StagingClosed(o) \in [1..Len(tasks) -> TaskRow]
  BY <1>1, <1>2, <1>3
<1>5. StagingClosed(o) \in Seq(TaskRow) /\ DOMAIN StagingClosed(o) = DOMAIN tasks
  BY <1>1, <1>2, <1>4
<1>6. QED
  BY <1>3, <1>5

\* The tasks that put the output away bring nothing to the work center.
LEMMA PutawayTasksType ==
  ASSUME KittingAssumption, KittingTypes, NEW o \in Orders
  PROVE  /\ PutawayTasks(o) \in Seq(TaskRow)
         /\ \A i \in DOMAIN PutawayTasks(o) : IsTask(PutawayTasks(o)[i]) /\ ~PutawayTasks(o)[i].staging
<1> DEFINE c == Cardinality(Outputs(o))
<1>1. Outputs(o) \subseteq Items /\ IsFiniteSet(Outputs(o)) /\ order[o].quantity \in Nat
  BY SidesOfAKit
<1>2. c \in Nat /\ SetToSeq(Outputs(o)) \in [1..c -> Outputs(o)]
  BY <1>1, Listed
<1>3. ASSUME NEW x \in Items
      PROVE  PutawayTask(o, x) \in TaskRow /\ IsTask(PutawayTask(o, x)) /\ ~PutawayTask(o, x).staging
  <2> DEFINE last == CHOOSE l \in Lines : LineItem[l] = x /\ \A k \in Lines : LineItem[k] = x => k <= l
  <2>1. last \in Lines /\ LineItem[last] = x
    BY LastLine
  <2>2. PutawayTask(o, x) = [order |-> o, staging |-> FALSE, line |-> last, item |-> x,
                             planned |-> order[o].quantity, done |-> 0, status |-> "Open"]
    BY DEF PutawayTask
  <2> HIDE DEF last
  <2>3. QED
    BY <1>1, <2>1, <2>2 DEF TaskRow, IsTask
<1>4. PutawayTasks(o) = [n \in 1..c |-> PutawayTask(o, SetToSeq(Outputs(o))[n])]
  BY DEF PutawayTasks
<1>5. ASSUME NEW n \in 1..c
      PROVE  /\ PutawayTasks(o)[n] \in TaskRow /\ IsTask(PutawayTasks(o)[n])
             /\ ~PutawayTasks(o)[n].staging
  <2>1. SetToSeq(Outputs(o))[n] \in Items
    BY <1>1, <1>2
  <2>2. QED
    BY <1>3, <1>4, <2>1
<1>6. PutawayTasks(o) \in [1..c -> TaskRow]
  BY <1>4, <1>5
<1>7. PutawayTasks(o) \in Seq(TaskRow) /\ DOMAIN PutawayTasks(o) = 1..c
  BY <1>2, <1>6
<1>8. QED
  BY <1>5, <1>7

\* An order that closes leaves nothing under way, and no other order has more.
LEMMA ClosedStaging ==
  ASSUME KittingTypes, KittingTypes', StagedForAnOpenOrder, NEW o \in Orders,
         NEW more \in Seq(TaskRow), \A i \in DOMAIN more : ~more[i].staging,
         tasks' = StagingClosed(o) \o more,
         \A p \in Orders \ {o} : order'[p] = order[p]
  PROVE  StagedForAnOpenOrder'
<1> DEFINE closed == StagingClosed(o)
<1>1. /\ closed \in Seq(TaskRow) /\ DOMAIN closed = DOMAIN tasks
      /\ \A i \in DOMAIN tasks :
           /\ closed[i].planned = tasks[i].planned /\ closed[i].done = tasks[i].done
           /\ closed[i].order = tasks[i].order /\ closed[i].item = tasks[i].item
           /\ closed[i].staging = tasks[i].staging
           /\ closed[i].status = IF i \in StagingOf(o) THEN "Cancelled" ELSE tasks[i].status
  BY StagingClosedType
<1> HIDE DEF closed
<1>2. \A i \in DOMAIN tasks : i \in DOMAIN tasks' /\ tasks'[i] = closed[i]
  BY <1>1 DEF closed
<1>3. \A i \in DOMAIN tasks' \ DOMAIN tasks : ~tasks'[i].staging
  <2>1. \A i \in DOMAIN (closed \o more) \ DOMAIN closed :
          i - Len(closed) \in DOMAIN more /\ (closed \o more)[i] = more[i - Len(closed)]
    BY <1>1
  <2>2. tasks' = closed \o more
    BY DEF closed
  <2>3. ASSUME NEW i \in DOMAIN tasks' \ DOMAIN tasks PROVE ~tasks'[i].staging
    <3>1. i \in DOMAIN (closed \o more) \ DOMAIN closed
      BY <1>1, <2>2
    <3>2. i - Len(closed) \in DOMAIN more /\ tasks'[i] = more[i - Len(closed)]
      BY <2>1, <2>2, <3>1
    <3>3. QED
      BY <3>2
  <2>4. QED
    BY <2>3
<1>4. ASSUME NEW p, NEW x, NEW i \in OpenStaging(p, x)'
      PROVE  i \in DOMAIN tasks /\ i \in OpenStaging(p, x) /\ i \notin StagingOf(o) /\ Left'[i] <= Left[i]
  <2>1. i \in DOMAIN tasks' /\ tasks'[i].status = "Open" /\ tasks'[i].order = p /\ tasks'[i].staging /\ tasks'[i].item = x
    BY DEF OpenStaging, StagingOf, OpenTasks
  <2>2. i \in DOMAIN tasks /\ tasks'[i] = closed[i]
    BY <1>2, <1>3, <2>1
  <2>3. i \notin StagingOf(o) /\ tasks[i].status = "Open" /\ tasks[i].order = p /\ tasks[i].staging /\ tasks[i].item = x
        /\ tasks'[i].planned = tasks[i].planned /\ tasks'[i].done = tasks[i].done
    BY <1>1, <2>1, <2>2
  <2>4. i \in OpenStaging(p, x)
    BY <2>2, <2>3 DEF OpenStaging, StagingOf, OpenTasks
  <2>5. Left'[i] = Left[i] /\ Left[i] \in Nat
    BY <2>1, <2>2, <2>3, TasksType DEF Left
  <2>6. QED
    BY <2>2, <2>3, <2>4, <2>5
<1>5. ASSUME NEW p \in Orders, NEW x \in Items
      PROVE  Staged(p, x)' <= (IF IsOpen(p)' THEN order'[p].quantity ELSE 0)
  <2>1. CASE p = o
    <3>1. OpenStaging(o, x)' = {}
      BY <1>4 DEF OpenStaging
    <3>2. Staged(o, x)' = 0
      BY <3>1, SumEmpty DEF Staged, SumOf
    <3>3. order'[o].quantity \in Nat
      BY DEF KittingTypes, OrderRow
    <3>4. QED
      BY <2>1, <3>2, <3>3
  <2>2. CASE p # o
    <3>1. Staged(p, x)' <= Staged(p, x)
      BY <1>4, StagedShrinks
    <3>2. Staged(p, x) <= (IF IsOpen(p) THEN order[p].quantity ELSE 0)
      BY StagedForAnOpenOrderMeans
    <3>3. order'[p] = order[p] /\ (IsOpen(p)' <=> IsOpen(p))
      BY <2>2 DEF IsOpen
    <3>4. Staged(p, x)' \in Nat /\ Staged(p, x) \in Nat
      BY StagedType, StagedTypePrimed
    <3>5. order[p].quantity \in Nat
      BY DEF KittingTypes, OrderRow
    <3>6. QED
      BY <3>1, <3>2, <3>3, <3>4, <3>5
  <2>3. QED
    BY <2>1, <2>2
<1>6. QED
  BY <1>5, StagedForAnOpenOrderPrimed

LEMMA CompleteKittingOrderStep ==
  ASSUME KittingAssumption, KittingInvariant, NEW o \in Orders, CompleteKittingOrder(o)
  PROVE  KittingInvariant'
<1> DEFINE q == order[o].quantity
           more == IF order[o].putaway THEN PutawayTasks(o) ELSE <<>>
<1>1. KittingTypes /\ StagedForAnOpenOrder /\ KitsBalance
  BY DEF KittingInvariant
<1>2. /\ InputsAreThere(o) /\ center' = Consumed(o) /\ order' = [order EXCEPT ![o].status = "Completed"]
      /\ tasks' = StagingClosed(o) \o more /\ store' = store
  BY DEF CompleteKittingOrder
<1>3. q \in Nat /\ order[o] \in OrderRow /\ Inputs(o) \subseteq Items
  BY <1>1, SidesOfAKit
<1>4. more \in Seq(TaskRow) /\ \A i \in DOMAIN more : IsTask(more[i]) /\ ~more[i].staging
  BY <1>1, PutawayTasksType
<1>5. StagingClosed(o) \in Seq(TaskRow) /\ \A i \in DOMAIN StagingClosed(o) : IsTask(StagingClosed(o)[i])
  BY <1>1, StagingClosedType
<1> HIDE DEF more
<1>6. tasks' \in Seq(TaskRow) /\ \A i \in DOMAIN tasks' : IsTask(tasks'[i])
  BY <1>2, <1>4, <1>5, TasksAppended
<1>7. order' \in [Orders -> OrderRow] /\ \A p \in Orders \ {o} : order'[p] = order[p]
  BY <1>1, <1>2, <1>3 DEF KittingTypes, OrderRow
<1>8. \A x \in Items : center[x] \in Nat
  BY <1>1 DEF KittingTypes
<1>9. /\ \A x \in Inputs(o) : center'[x] = center[x] - q /\ center'[x] \in Nat
      /\ \A x \in Outputs(o) : center'[x] = center[x] + q
  <2>1. \A x \in Inputs(o) : x \notin Outputs(o) /\ center[x] >= q /\ center[x] \in Nat
    BY <1>2, <1>3, <1>8 DEF Inputs, Outputs, InputsAreThere, KittingAssumption
  <2>2. \A x \in Outputs(o) : x \notin Inputs(o) /\ x \in Items
    BY <2>1 DEF Inputs, Outputs, Items, KittingAssumption
  <2>3. \A x \in Items : center'[x] = CASE x \in Inputs(o) -> AtLeastZero(center[x] - q)
                                        [] x \in Outputs(o) -> center[x] + q
                                        [] OTHER -> center[x]
    BY <1>2 DEF Consumed
  <2>4. \A x \in Inputs(o) : center'[x] = AtLeastZero(center[x] - q)
    BY <1>3, <2>1, <2>3
  <2>5. \A x \in Outputs(o) : center'[x] = center[x] + q
    BY <2>2, <2>3
  <2>6. QED
    BY <1>3, <2>1, <2>4, <2>5 DEF AtLeastZero
<1>10. Items = Inputs(o) \cup Outputs(o)
  BY DEF Inputs, Outputs, Items
<1>11. center' \in [Items -> Nat]
  <2>1. \A x \in Items : center'[x] \in Nat
    BY <1>3, <1>8, <1>9, <1>10
  <2>2. center' = [x \in Items |-> center'[x]]
    BY <1>2 DEF Consumed
  <2>3. QED
    BY <2>1, <2>2
<1>12. KittingTypes'
  BY <1>1, <1>2, <1>6, <1>7, <1>11 DEF KittingTypes
<1>13. StagedForAnOpenOrder'
  BY <1>1, <1>2, <1>4, <1>7, <1>12, ClosedStaging
<1>14. KitsBalance'
  <2>1. ASSUME NEW x \in Components
        PROVE  InStock(x)' + InStock(Kit)' = AtFirst(x) + AtFirst(Kit)
    <3>1. x \in Items /\ Kit \in Items
      BY DEF Items
    <3>2. \A y \in Items : SumOf(store, LinesOf(y)) \in Nat /\ center[y] \in Nat /\ center'[y] \in Nat
      BY <1>1, <1>8, <1>11, EarlierType, LinesFinite
    <3>3. /\ InStock(x) = center[x] + SumOf(store, LinesOf(x))
          /\ InStock(x)' = center'[x] + SumOf(store, LinesOf(x))
          /\ InStock(Kit) = center[Kit] + SumOf(store, LinesOf(Kit))
          /\ InStock(Kit)' = center'[Kit] + SumOf(store, LinesOf(Kit))
      BY <1>2 DEF InStock, LinesOf
    <3>4. center'[x] + center'[Kit] = center[x] + center[Kit]
      <4>1. CASE order[o].assemble
        <5>1. x \in Inputs(o) /\ Kit \in Outputs(o)
          BY <4>1 DEF Inputs, Outputs
        <5>2. QED
          BY <1>3, <1>9, <3>1, <3>2, <5>1
      <4>2. CASE ~order[o].assemble
        <5>1. Kit \in Inputs(o) /\ x \in Outputs(o)
          BY <4>2 DEF Inputs, Outputs
        <5>2. QED
          BY <1>3, <1>9, <3>1, <3>2, <5>1
      <4>3. QED
        BY <4>1, <4>2
    <3>5. InStock(x) + InStock(Kit) = AtFirst(x) + AtFirst(Kit)
      BY <1>1 DEF KitsBalance
    <3>6. InStock(x)' + InStock(Kit)' = InStock(x) + InStock(Kit)
      BY <3>1, <3>2, <3>3, <3>4
    <3>7. QED
      BY <3>5, <3>6
  <2>2. QED
    BY <2>1 DEF KitsBalance, AtFirst, LinesOf
<1>15. QED
  BY <1>12, <1>13, <1>14 DEF KittingInvariant

LEMMA CancelKittingOrderStep ==
  ASSUME KittingAssumption, KittingInvariant, NEW o \in Orders, CancelKittingOrder(o)
  PROVE  KittingInvariant'
<1>1. KittingTypes /\ StagedForAnOpenOrder /\ KitsBalance
  BY DEF KittingInvariant
<1>2. tasks' = StagingClosed(o) /\ order' = [order EXCEPT ![o].status = "Cancelled"] /\ UNCHANGED <<store, center>>
  BY DEF CancelKittingOrder
<1>3. /\ StagingClosed(o) \in Seq(TaskRow) /\ DOMAIN StagingClosed(o) = DOMAIN tasks
      /\ \A i \in DOMAIN tasks : IsTask(StagingClosed(o)[i])
  BY <1>1, StagingClosedType
<1>4. order' \in [Orders -> OrderRow] /\ \A p \in Orders \ {o} : order'[p] = order[p]
  BY <1>1, <1>2 DEF KittingTypes, OrderRow
<1>5. KittingTypes'
  BY <1>1, <1>2, <1>3, <1>4 DEF KittingTypes
<1>6. tasks' = StagingClosed(o) \o <<>> /\ <<>> \in Seq(TaskRow) /\ DOMAIN <<>> = {}
  BY <1>2, <1>3
<1>7. StagedForAnOpenOrder'
  BY <1>1, <1>4, <1>5, <1>6, ClosedStaging
<1>8. KitsBalance'
  BY <1>1, <1>2 DEF KitsBalance, InStock
<1>9. QED
  BY <1>5, <1>7, <1>8 DEF KittingInvariant

-----------------------------------------------------------------------------
(* The tasks on the floor. *)

\* A task that changes keeps its order and item, and has no more to bring.
LEMMA TaskChanges ==
  ASSUME KittingTypes, StagedForAnOpenOrder, NEW i \in OpenTasks, NEW t \in TaskRow,
         tasks' = [tasks EXCEPT ![i] = t], order' = order,
         store' \in [Lines -> Nat], center' \in [Items -> Nat],
         t.order = tasks[i].order, t.staging = tasks[i].staging, t.line = tasks[i].line, t.item = tasks[i].item,
         t.done <= t.planned, t.planned - t.done <= tasks[i].planned - tasks[i].done
  PROVE  KittingTypes' /\ StagedForAnOpenOrder'
<1>1. i \in DOMAIN tasks /\ tasks[i].status = "Open"
  BY DEF OpenTasks
<1>2. IsTask(tasks[i]) /\ IsTask(t)
  BY <1>1, TasksType DEF IsTask
<1>3. tasks' \in Seq(TaskRow) /\ DOMAIN tasks' = DOMAIN tasks /\ tasks'[i] = t
      /\ \A j \in DOMAIN tasks \ {i} : tasks'[j] = tasks[j]
  BY <1>1 DEF KittingTypes
<1>4. \A j \in DOMAIN tasks' : IsTask(tasks'[j])
  BY <1>2, <1>3 DEF KittingTypes
<1>5. KittingTypes'
  BY <1>3, <1>4 DEF KittingTypes
<1>6. ASSUME NEW j \in DOMAIN tasks PROVE Left'[j] <= Left[j]
  <2>1. Left'[j] = tasks'[j].planned - tasks'[j].done
    BY <1>3 DEF Left
  <2>2. Left[j] = tasks[j].planned - tasks[j].done /\ Left[j] \in Nat
    BY TasksType
  <2>3. CASE j = i
    BY <1>3, <2>1, <2>2, <2>3
  <2>4. CASE j # i
    BY <1>3, <2>1, <2>2, <2>4
  <2>5. QED
    BY <2>3, <2>4
<1>7. ASSUME NEW p \in Orders, NEW x \in Items
      PROVE  Staged(p, x)' <= (IF IsOpen(p)' THEN order'[p].quantity ELSE 0)
  <2>1. ASSUME NEW j \in OpenStaging(p, x)' PROVE j \in OpenStaging(p, x) /\ j \in DOMAIN tasks
    <3>1. j \in DOMAIN tasks' /\ tasks'[j].status = "Open" /\ tasks'[j].order = p /\ tasks'[j].staging /\ tasks'[j].item = x
      BY DEF OpenStaging, StagingOf, OpenTasks
    <3>2. j \in DOMAIN tasks /\ tasks[j].status = "Open" /\ tasks[j].order = p /\ tasks[j].staging /\ tasks[j].item = x
      BY <1>1, <1>3, <3>1
    <3>3. QED
      BY <3>2 DEF OpenStaging, StagingOf, OpenTasks
  <2>2. Staged(p, x)' <= Staged(p, x)
    BY <1>5, <1>6, <2>1, StagedShrinks
  <2>3. Staged(p, x) <= (IF IsOpen(p) THEN order[p].quantity ELSE 0)
    BY StagedForAnOpenOrderMeans
  <2>4. (IsOpen(p)' <=> IsOpen(p)) /\ order'[p] = order[p] /\ order[p].quantity \in Nat
    BY DEF IsOpen, KittingTypes, OrderRow
  <2>5. Staged(p, x)' \in Nat /\ Staged(p, x) \in Nat
    BY <1>5, StagedType, StagedTypePrimed
  <2>6. QED
    BY <2>2, <2>3, <2>4, <2>5
<1>8. StagedForAnOpenOrder'
  BY <1>7, StagedForAnOpenOrderPrimed
<1>9. QED
  BY <1>5, <1>8

\* What a line gives the work center gets, or the other way round.
LEMMA BetweenLineAndCenter ==
  ASSUME KittingAssumption, KittingTypes, KitsBalance, NEW l \in Lines, NEW n \in Nat, NEW m \in Nat,
         store' = [store EXCEPT ![l] = n], center' = [center EXCEPT ![LineItem[l]] = m],
         n + m = store[l] + center[LineItem[l]]
  PROVE  /\ store' \in [Lines -> Nat] /\ center' \in [Items -> Nat] /\ KitsBalance'
<1>1. LineItem[l] \in Items
  BY LinesFinite
<1>2. store' \in [Lines -> Nat] /\ center' \in [Items -> Nat]
  BY <1>1 DEF KittingTypes
<1>3. ASSUME NEW x \in Items PROVE InStock(x)' = InStock(x)
  <2>1. IsFiniteSet(LinesOf(x)) /\ LinesOf(x) \subseteq Lines
    BY LinesFinite
  <2>2. \A k \in LinesOf(x) : store[k] \in Nat /\ store'[k] \in Nat
    BY <1>2, <2>1 DEF KittingTypes
  <2>3. \A k \in LinesOf(x) \ {l} : store'[k] = store[k]
    BY <2>1 DEF KittingTypes
  <2>4. store'[l] = n /\ store[l] \in Nat
    BY DEF KittingTypes
  <2>5. SumFunctionOnSet(store', LinesOf(x)) =
          IF l \in LinesOf(x) THEN SumFunctionOnSet(store, LinesOf(x)) + (n - store[l])
          ELSE SumFunctionOnSet(store, LinesOf(x))
    <3> DEFINE old == store
               new == store'
               S == LinesOf(x)
    <3>1. IsFiniteSet(S) /\ new[l] = n /\ n \in Int /\ \A k \in S : old[k] \in Int
      BY <2>1, <2>2, <2>4
    <3>2. \A k \in S \ {l} : new[k] = old[k]
      BY <2>3
    <3> HIDE DEF old, new, S
    <3>3. CASE l \in S
      <4>1. new[l] \in Int
        BY <3>1
      <4>2. SumFunctionOnSet(new, S) = SumFunctionOnSet(old, S) + (new[l] - old[l])
        BY <3>1, <3>2, <3>3, <4>1, SumChange
      <4>3. QED
        BY <3>1, <3>3, <4>2 DEF old, new, S
    <3>4. CASE l \notin S
      <4>1. \A k \in S : new[k] = old[k]
        BY <3>2, <3>4
      <4>2. SumFunctionOnSet(new, S) = SumFunctionOnSet(old, S)
        BY <3>1, <4>1, SumEqual
      <4>3. QED
        BY <3>4, <4>2 DEF old, new, S
    <3>5. QED
      BY <3>3, <3>4
  <2>6. SumFunctionOnSet(store, LinesOf(x)) \in Nat
    BY <2>1, <2>2, SumNat
  <2>7. center'[x] = (IF x = LineItem[l] THEN m ELSE center[x]) /\ center[x] \in Nat
    BY DEF KittingTypes
  <2>8. l \in LinesOf(x) <=> x = LineItem[l]
    BY DEF LinesOf
  <2>9. /\ InStock(x) = center[x] + SumFunctionOnSet(store, LinesOf(x))
        /\ InStock(x)' = center'[x] + SumFunctionOnSet(store', LinesOf(x))
    BY DEF InStock, SumOf, LinesOf
  <2>10. CASE x = LineItem[l]
    BY <2>4, <2>5, <2>6, <2>7, <2>8, <2>9, <2>10
  <2>11. CASE x # LineItem[l]
    BY <2>5, <2>6, <2>7, <2>8, <2>9, <2>11
  <2>12. QED
    BY <2>10, <2>11
<1>4. KitsBalance'
  <2>1. ASSUME NEW x \in Components PROVE InStock(x)' + InStock(Kit)' = AtFirst(x) + AtFirst(Kit)
    BY <1>3 DEF KitsBalance, Items
  <2>2. QED
    BY <2>1 DEF KitsBalance, AtFirst, LinesOf
<1>5. QED
  BY <1>2, <1>4

LEMMA ConfirmedTask ==
  ASSUME KittingTypes, NEW i \in OpenTasks, NEW q \in Nat, q <= tasks[i].planned - tasks[i].done
  PROVE  LET t == Confirmed(tasks[i], q) IN
         /\ t \in TaskRow /\ t.order = tasks[i].order /\ t.staging = tasks[i].staging
         /\ t.line = tasks[i].line /\ t.item = tasks[i].item
         /\ t.done <= t.planned /\ t.planned - t.done <= tasks[i].planned - tasks[i].done
<1>1. i \in DOMAIN tasks
  BY DEF OpenTasks
<1>2. tasks[i] \in TaskRow /\ tasks[i].planned \in Nat /\ tasks[i].done \in Nat
  BY <1>1, TasksType
<1>3. Confirmed(tasks[i], q) =
        [tasks[i] EXCEPT !.done = tasks[i].done + q,
                         !.status = IF tasks[i].done + q = tasks[i].planned THEN "Confirmed" ELSE "Open"]
  BY DEF Confirmed
<1> DEFINE t == Confirmed(tasks[i], q)
           n == tasks[i].done + q
           s == IF n = tasks[i].planned THEN "Confirmed" ELSE "Open"
<1>4. n \in Nat /\ n <= tasks[i].planned /\ tasks[i].planned - n <= tasks[i].planned - tasks[i].done
  BY <1>2
<1>5. t = [tasks[i] EXCEPT !.done = n, !.status = s] /\ s \in {"Open", "Confirmed", "Cancelled"}
  BY <1>3
<1> HIDE DEF n, s, t
<1>6. /\ t \in TaskRow /\ t.order = tasks[i].order /\ t.staging = tasks[i].staging
      /\ t.line = tasks[i].line /\ t.item = tasks[i].item
      /\ t.done = n /\ t.planned = tasks[i].planned
  BY <1>2, <1>4, <1>5 DEF TaskRow
<1>7. t.done <= t.planned /\ t.planned - t.done <= tasks[i].planned - tasks[i].done
  BY <1>4, <1>6
<1>8. QED
  BY <1>6, <1>7 DEF t

LEMMA ConfirmStagingStep ==
  ASSUME KittingAssumption, KittingInvariant, NEW i \in OpenTasks,
         NEW q \in 1..(tasks[i].planned - tasks[i].done), ConfirmStaging(i, q)
  PROVE  KittingInvariant'
<1>1. KittingTypes /\ StagedForAnOpenOrder /\ KitsBalance /\ i \in DOMAIN tasks
  BY DEF KittingInvariant, OpenTasks
<1> DEFINE l == tasks[i].line
           t == Confirmed(tasks[i], q)
<1>2. /\ l \in Lines /\ tasks[i].item = LineItem[l] /\ LineItem[l] \in Items
      /\ tasks[i].planned \in Nat /\ tasks[i].done \in Nat
  BY <1>1, TasksType
<1>3. q \in Nat /\ q <= tasks[i].planned - tasks[i].done /\ q <= store[l]
  BY <1>2 DEF ConfirmStaging
<1>4. /\ t \in TaskRow /\ t.order = tasks[i].order /\ t.staging = tasks[i].staging
      /\ t.line = tasks[i].line /\ t.item = tasks[i].item
      /\ t.done <= t.planned /\ t.planned - t.done <= tasks[i].planned - tasks[i].done
  BY <1>1, <1>3, ConfirmedTask
<1>5. /\ tasks' = [tasks EXCEPT ![i] = t] /\ order' = order
      /\ store' = [store EXCEPT ![l] = store[l] - q] /\ center' = [center EXCEPT ![LineItem[l]] = center[LineItem[l]] + q]
  BY <1>2 DEF ConfirmStaging
<1>6. store[l] \in Nat /\ center[LineItem[l]] \in Nat
  BY <1>1, <1>2 DEF KittingTypes
<1> HIDE DEF t, l
<1>7. store[l] - q \in Nat /\ center[LineItem[l]] + q \in Nat
      /\ (store[l] - q) + (center[LineItem[l]] + q) = store[l] + center[LineItem[l]]
  BY <1>3, <1>6
<1>8. store' \in [Lines -> Nat] /\ center' \in [Items -> Nat] /\ KitsBalance'
  BY <1>1, <1>2, <1>5, <1>7, BetweenLineAndCenter
<1>9. KittingTypes' /\ StagedForAnOpenOrder'
  BY <1>1, <1>4, <1>5, <1>8, TaskChanges
<1>10. QED
  BY <1>8, <1>9 DEF KittingInvariant

LEMMA ConfirmPutawayStep ==
  ASSUME KittingAssumption, KittingInvariant, NEW i \in OpenTasks,
         NEW q \in 1..(tasks[i].planned - tasks[i].done), ConfirmPutaway(i, q)
  PROVE  KittingInvariant'
<1>1. KittingTypes /\ StagedForAnOpenOrder /\ KitsBalance /\ i \in DOMAIN tasks
  BY DEF KittingInvariant, OpenTasks
<1> DEFINE l == tasks[i].line
           t == Confirmed(tasks[i], q)
<1>2. /\ l \in Lines /\ tasks[i].item = LineItem[l] /\ LineItem[l] \in Items
      /\ tasks[i].planned \in Nat /\ tasks[i].done \in Nat
  BY <1>1, TasksType
<1>3. q \in Nat /\ q <= tasks[i].planned - tasks[i].done /\ q <= center[LineItem[l]]
  BY <1>2 DEF ConfirmPutaway
<1>4. /\ t \in TaskRow /\ t.order = tasks[i].order /\ t.staging = tasks[i].staging
      /\ t.line = tasks[i].line /\ t.item = tasks[i].item
      /\ t.done <= t.planned /\ t.planned - t.done <= tasks[i].planned - tasks[i].done
  BY <1>1, <1>3, ConfirmedTask
<1>5. /\ tasks' = [tasks EXCEPT ![i] = t] /\ order' = order
      /\ store' = [store EXCEPT ![l] = store[l] + q] /\ center' = [center EXCEPT ![LineItem[l]] = center[LineItem[l]] - q]
  BY <1>2 DEF ConfirmPutaway
<1>6. store[l] \in Nat /\ center[LineItem[l]] \in Nat
  BY <1>1, <1>2 DEF KittingTypes
<1> HIDE DEF t, l
<1>7. store[l] + q \in Nat /\ center[LineItem[l]] - q \in Nat
      /\ (store[l] + q) + (center[LineItem[l]] - q) = store[l] + center[LineItem[l]]
  BY <1>3, <1>6
<1>8. store' \in [Lines -> Nat] /\ center' \in [Items -> Nat] /\ KitsBalance'
  BY <1>1, <1>2, <1>5, <1>7, BetweenLineAndCenter
<1>9. KittingTypes' /\ StagedForAnOpenOrder'
  BY <1>1, <1>4, <1>5, <1>8, TaskChanges
<1>10. QED
  BY <1>8, <1>9 DEF KittingInvariant

LEMMA RaiseExceptionStep ==
  ASSUME KittingAssumption, KittingInvariant, NEW i \in OpenTasks, RaiseException(i)
  PROVE  KittingInvariant'
<1>1. KittingTypes /\ StagedForAnOpenOrder /\ KitsBalance /\ i \in DOMAIN tasks
  BY DEF KittingInvariant, OpenTasks
<1> DEFINE t == Ended(tasks[i])
<1>2. tasks[i] \in TaskRow /\ tasks[i].planned \in Nat /\ tasks[i].done \in Nat /\ tasks[i].done <= tasks[i].planned
  BY <1>1, TasksType
<1>3. tasks' = [tasks EXCEPT ![i] = t] /\ order' = order /\ UNCHANGED <<store, center>>
  BY DEF RaiseException
<1>4. t = [tasks[i] EXCEPT !.planned = tasks[i].done, !.status = "Confirmed"]
  BY DEF Ended
<1>5. /\ t \in TaskRow /\ t.order = tasks[i].order /\ t.staging = tasks[i].staging
      /\ t.line = tasks[i].line /\ t.item = tasks[i].item
      /\ t.done <= t.planned /\ t.planned - t.done <= tasks[i].planned - tasks[i].done
  <2> HIDE DEF t
  <2>1. /\ t \in TaskRow /\ t.order = tasks[i].order /\ t.staging = tasks[i].staging
        /\ t.line = tasks[i].line /\ t.item = tasks[i].item
        /\ t.done = tasks[i].done /\ t.planned = tasks[i].done
    BY <1>2, <1>4 DEF TaskRow
  <2>2. t.done <= t.planned /\ t.planned - t.done <= tasks[i].planned - tasks[i].done
    BY <1>2, <2>1
  <2>3. QED
    BY <2>1, <2>2
<1> HIDE DEF t
<1>6. store' \in [Lines -> Nat] /\ center' \in [Items -> Nat]
  BY <1>1, <1>3 DEF KittingTypes
<1>7. KittingTypes' /\ StagedForAnOpenOrder'
  BY <1>1, <1>3, <1>5, <1>6, TaskChanges
<1>8. KitsBalance'
  BY <1>1, <1>3 DEF KitsBalance, InStock
<1>9. QED
  BY <1>7, <1>8 DEF KittingInvariant

-----------------------------------------------------------------------------
LEMMA KittingStep ==
  ASSUME KittingAssumption, KittingInvariant, [KittingNext]_kittingVars
  PROVE  KittingInvariant'
<1>1. CASE KittingOperation
  <2>1. PICK o \in Orders :
          \/ \E assemble, putaway \in BOOLEAN, q \in OrderQuantities : CreateKittingOrder(o, assemble, q, putaway)
          \/ StageKittingComponents(o) \/ CompleteKittingOrder(o) \/ CancelKittingOrder(o)
    BY <1>1 DEF KittingOperation
  <2>2. QED
    BY <2>1, CreateKittingOrderStep, StageKittingComponentsStep, CompleteKittingOrderStep, CancelKittingOrderStep
<1>2. CASE TaskOperation
  <2>1. PICK i \in OpenTasks :
          \/ \E q \in 1..(tasks[i].planned - tasks[i].done) : ConfirmStaging(i, q) \/ ConfirmPutaway(i, q)
          \/ RaiseException(i)
    BY <1>2 DEF TaskOperation
  <2>2. QED
    BY <2>1, ConfirmStagingStep, ConfirmPutawayStep, RaiseExceptionStep
<1>3. CASE UNCHANGED kittingVars
  <2>1. order' = order /\ tasks' = tasks /\ store' = store /\ center' = center
    BY <1>3 DEF kittingVars
  <2>2. KittingTypes'
    BY <2>1 DEF KittingInvariant, KittingTypes
  <2>3. StagedForAnOpenOrder'
    BY <2>1 DEF KittingInvariant, StagedForAnOpenOrder, IsOpen, StagingOf, OpenTasks, Left, SumOf
  <2>4. KitsBalance'
    BY <2>1 DEF KittingInvariant, KitsBalance, InStock, AtFirst, LinesOf, SumOf
  <2>5. QED
    BY <2>2, <2>3, <2>4 DEF KittingInvariant
<1>4. QED
  BY <1>1, <1>2, <1>3 DEF KittingNext

\* Kitting makes and loses nothing: of every component, what is in stock,
\* loose or in kits, at the work center or in the storage bins, is what was
\* there at first, for any orders, kits and lines, whatever is staged,
\* completed, cancelled, put away or found missing in whatever order.
THEOREM KitsStayBalanced ==
  ASSUME KittingAssumption
  PROVE  KittingSpec => []KitsBalance
<1>1. KittingInit => KittingInvariant
  BY KittingInitInvariant
<1>2. KittingInvariant /\ [KittingNext]_kittingVars => KittingInvariant'
  BY KittingStep
<1>3. KittingInvariant => KitsBalance
  BY DEF KittingInvariant
<1>4. QED
  BY <1>1, <1>2, <1>3, PTL DEF KittingSpec

\* What is under way to the work center for an order and an item is never
\* more than the order asks for, whatever stands there and however often it
\* is staged, and nothing is under way for an order that is closed.
THEOREM StagedAsAsked ==
  ASSUME KittingAssumption
  PROVE  KittingSpec => []StagedForAnOpenOrder
<1>1. KittingInit => KittingInvariant
  BY KittingInitInvariant
<1>2. KittingInvariant /\ [KittingNext]_kittingVars => KittingInvariant'
  BY KittingStep
<1>3. KittingInvariant => StagedForAnOpenOrder
  BY DEF KittingInvariant
<1>4. QED
  BY <1>1, <1>2, <1>3, PTL DEF KittingSpec
=================================================================================
