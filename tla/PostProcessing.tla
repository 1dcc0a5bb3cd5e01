---------------------------- MODULE PostProcessing ----------------------------
(***************************************************************************)
(* RF requests with an idempotency key, each creating one document; the    *)
(* PPF action of the document that sends a telegram to a PLC from within   *)
(* the transaction; the delivery attempts, their log and the retry job;    *)
(* and the PLC's confirmations.  The database forgets what was not         *)
(* committed, the cache, the socket and the PLC do not.                    *)
(***************************************************************************)
EXTENDS Integers, SequencesExt, FiniteSetsExt

CONSTANTS
  Requests,            \* user actions of the RF app, with a key each
  WaitForAck,          \* of the WMS MFS Endpoint
  MaxAttempts,         \* MAX_ATTEMPTS
  MaxResends,          \* bound on the resends of a request
  MaxFaults            \* bound on deadlocks, deaths and aborted jobs

PostProcessingAssumption ==
  /\ WaitForAck \in BOOLEAN
  /\ MaxAttempts \in Nat \ {0} /\ MaxResends \in Nat /\ MaxFaults \in Nat

VARIABLES
  rf,                  \* [Requests -> "waiting" or "answered"]
  resends,             \* [Requests -> Nat]
  cached,              \* requests whose result is in the cache
  tx,                  \* [Requests -> telegram logged by the open transaction; Nothing: none is open]
  made,                \* [Requests -> documents committed]
  log,                 \* [Requests -> telegram logged and committed]
  got,                 \* [Requests -> how often the PLC got a telegram of the request]
  retry,               \* the retry job: what it still sends, the rows it has changed
  confirming,          \* requests a confirmation of the PLC is under way for
  moves,               \* [Requests -> how often the document's task was confirmed]
  faults               \* bounded by MaxFaults

vars == <<rf, resends, cached, tx, made, log, got, retry, confirming, moves, faults>>
request == <<rf, resends, cached, tx, made>>
telegrams == <<log, got, retry>>
plc == <<confirming, moves>>

Idle == [on |-> FALSE, todo |-> {}, rows |-> <<>>]
Nothing == [status |-> "none", attempts |-> 0]
Undone == [status |-> "undone", attempts |-> 0]   \* a transaction whose telegram was rolled back

Init ==
  /\ rf = [r \in Requests |-> "waiting"] /\ resends = [r \in Requests |-> 0]
  /\ cached = {} /\ tx = [r \in Requests |-> Nothing] /\ made = [r \in Requests |-> 0]
  /\ log = [r \in Requests |-> Nothing] /\ got = [r \in Requests |-> 0]
  /\ retry = Idle
  /\ confirming = {} /\ moves = [r \in Requests |-> 0]
  /\ faults = 0

-----------------------------------------------------------------------------
(* One attempt: what the WMS writes down, and whether the PLC got it.  When *)
(* the acknowledgement does not come in time, nobody knows.                 *)
Attempts ==
  {[status |-> "Failed", arrives |-> 0], [status |-> "Sent", arrives |-> 1]}
    \cup (IF WaitForAck THEN {[status |-> "Acknowledged", arrives |-> 1], [status |-> "Failed", arrives |-> 1]} ELSE {})
Attempted(row, a) == [status |-> a.status, attempts |-> row.attempts + 1]

(* The request runs: the document is saved, its action sends the telegram,  *)
(* the result goes to the cache, all before the commit.                     *)
(* Mutant: the cache is not asked. *)
NeverRun(r) == tx[r] = Nothing
NotRunYet(r) == r \notin cached
Run(r, a) ==
  /\ rf[r] = "waiting" /\ NotRunYet(r) /\ tx[r] = Nothing
  /\ tx' = [tx EXCEPT ![r] = Attempted(Nothing, a)]
  /\ got' = [got EXCEPT ![r] = @ + a.arrives]
  /\ cached' = cached \cup {r}
  /\ UNCHANGED <<faults, rf, resends, made, log, retry, plc>>

(* The action raises what is not an OSError: the telegram cannot be built,  *)
(* or its acknowledgement, which comes after the PLC has the telegram, can- *)
(* not be decoded.  The log row goes with the savepoint, the document stays. *)
RunActionFails(r, arrives) ==
  /\ rf[r] = "waiting" /\ NotRunYet(r) /\ tx[r] = Nothing
  /\ arrives = 1 => WaitForAck
  /\ tx' = [tx EXCEPT ![r] = Undone]
  /\ got' = [got EXCEPT ![r] = @ + arrives]
  /\ cached' = cached \cup {r}
  /\ UNCHANGED <<faults, rf, resends, made, log, retry, plc>>

(* A deadlock after the telegram was sent: all is rolled back and the whole *)
(* call runs again. *)
RunIntoDeadlock(r, a) ==
  /\ rf[r] = "waiting" /\ NotRunYet(r) /\ tx[r] = Nothing
  /\ faults < MaxFaults /\ faults' = faults + 1
  /\ got' = [got EXCEPT ![r] = @ + a.arrives]
  /\ UNCHANGED <<request, log, retry, plc>>

(* The commit; its answer may be lost. *)
Commit(r, answer) ==
  /\ tx[r] # Nothing
  /\ made' = [made EXCEPT ![r] = @ + 1]
  /\ log' = [log EXCEPT ![r] = IF tx[r] = Undone THEN Nothing ELSE tx[r]]
  /\ tx' = [tx EXCEPT ![r] = Nothing]
  /\ rf' = [rf EXCEPT ![r] = IF answer = "arrives" THEN "answered" ELSE @]
  /\ UNCHANGED <<faults, resends, cached, got, retry, plc>>

(* Mutant: the log of a telegram is committed as soon as it is sent. *)
DieLogged(r) ==
  /\ tx[r] # Nothing
  /\ faults < MaxFaults /\ faults' = faults + 1
  /\ tx' = [tx EXCEPT ![r] = Nothing] /\ log' = [log EXCEPT ![r] = tx[r]]
  /\ UNCHANGED <<rf, resends, cached, made, got, retry, plc>>
(* The worker dies between running and committing. *)
Die(r) ==
  /\ tx[r] # Nothing
  /\ faults < MaxFaults /\ faults' = faults + 1
  /\ tx' = [tx EXCEPT ![r] = Nothing]
  /\ UNCHANGED <<rf, resends, cached, made, telegrams, plc>>

(* The RF resends with the same key and is answered from the cache, even    *)
(* before the first call has committed. *)
Resend(r, answer) ==
  /\ rf[r] = "waiting" /\ r \in cached /\ resends[r] < MaxResends
  /\ resends' = [resends EXCEPT ![r] = @ + 1]
  /\ rf' = [rf EXCEPT ![r] = IF answer = "arrives" THEN "answered" ELSE @]
  /\ UNCHANGED <<faults, cached, tx, made, telegrams, plc>>

-----------------------------------------------------------------------------
(* The retry job: one transaction for all telegrams it sends. *)

Retryable(r) == log[r].status = "Failed" /\ log[r].attempts < MaxAttempts
(* Mutant: the last attempt is not made. *)
StartOneLess ==
  /\ ~retry.on /\ \E r \in Requests : Retryable(r) /\ log[r].attempts < MaxAttempts - 1
  /\ retry' = [on |-> TRUE, todo |-> {r \in Requests : Retryable(r) /\ log[r].attempts < MaxAttempts - 1}, rows |-> log]
  /\ UNCHANGED <<request, log, got, plc, faults>>
StartRetry ==
  /\ ~retry.on /\ \E r \in Requests : Retryable(r)
  /\ retry' = [on |-> TRUE, todo |-> {r \in Requests : Retryable(r)}, rows |-> log]
  /\ UNCHANGED <<request, log, got, plc, faults>>
RetryDeliver(r, a) ==
  /\ r \in retry.todo
  /\ retry' = [retry EXCEPT !.todo = @ \ {r}, !.rows[r] = Attempted(@, a)]
  /\ got' = [got EXCEPT ![r] = @ + a.arrives]
  /\ UNCHANGED <<request, log, plc, faults>>
CommitRetry ==
  /\ retry.on /\ retry.todo = {}
  /\ log' = [r \in Requests |-> IF retry.rows[r].attempts > log[r].attempts THEN retry.rows[r] ELSE log[r]]
  /\ retry' = Idle
  /\ UNCHANGED <<request, got, plc, faults>>
(* An acknowledgement that cannot be decoded, or a restart, ends the job    *)
(* and forgets what it has sent. *)
RetryFails ==
  /\ retry.on /\ faults < MaxFaults /\ faults' = faults + 1
  /\ retry' = Idle
  /\ UNCHANGED <<request, log, got, plc>>

-----------------------------------------------------------------------------
(* The PLC confirms the task it was told of, again when it likes.  A        *)
(* confirmation of a task that is not (yet) in the database fails and is    *)
(* not processed again; one of a task confirmed before changes nothing.     *)
PlcConfirms(r) ==
  /\ got[r] > 0 /\ r \notin confirming
  /\ confirming' = confirming \cup {r}
  /\ UNCHANGED <<request, telegrams, moves, faults>>
Receive(r) ==
  /\ r \in confirming
  /\ confirming' = confirming \ {r}
  /\ moves' = [moves EXCEPT ![r] = IF made[r] > 0 /\ @ = 0 THEN @ + 1 ELSE @]
  /\ UNCHANGED <<request, telegrams, faults>>

-----------------------------------------------------------------------------
RetryJob == StartRetry \/ (\E r \in Requests, a \in Attempts : RetryDeliver(r, a)) \/ CommitRetry
Next ==
  \/ \E r \in Requests, a \in Attempts : Run(r, a) \/ RunIntoDeadlock(r, a)
  \/ \E r \in Requests, answer \in {"arrives", "is lost"} : Commit(r, answer) \/ Resend(r, answer)
  \/ \E r \in Requests, arrives \in {0, 1} : RunActionFails(r, arrives)
  \/ \E r \in Requests : Die(r) \/ PlcConfirms(r) \/ Receive(r)
  \/ RetryJob
  \/ RetryFails

Spec == Init /\ [][Next]_vars

(* The scheduler starts the job every ten minutes, and it runs to its end.  *)
Fairness == WF_vars(RetryJob)
FairSpec == Spec /\ Fairness

-----------------------------------------------------------------------------
(* Properties. *)

(* However often a request is resent, aborted or run again, its document is *)
(* created once and its task is confirmed once.                             *)
ExecutedOnce ==
  \A r \in Requests : made[r] + (IF tx[r] = Nothing THEN 0 ELSE 1) <= 1 /\ moves[r] <= made[r]

(* No log of a telegram is without its document, though the document may    *)
(* stand without one; the log says delivered only of what arrived, and      *)
(* counts no attempt beyond MAX_ATTEMPTS.                                   *)
LogFollowsDocument ==
  \A r \in Requests :
    /\ log[r].attempts > 0 => made[r] > 0
    /\ log[r].status \in {"Sent", "Acknowledged"} => got[r] > 0
    /\ log[r].attempts <= MaxAttempts

(* A telegram that could not be delivered is delivered in the end, or given *)
(* up after MAX_ATTEMPTS.                                                   *)
FailedIsRetried == \A r \in Requests : Retryable(r) ~> ~Retryable(r)
=============================================================================
