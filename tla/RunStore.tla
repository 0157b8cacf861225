------------------------------ MODULE RunStore ------------------------------
(***************************************************************************)
(* The durable run store of the agent runtime (SQLiteRunStore,             *)
(* crewos/infrastructure/run_store.py): one row per agent run, one row per *)
(* execution attempt, and one transaction (BEGIN IMMEDIATE, rolled back on *)
(* any exception) per method.  Every method is one action.  A method that  *)
(* raises leaves both tables as they were and is a stuttering step.        *)
(*                                                                         *)
(* The clients are as general as the interface allows: any caller may call *)
(* any method of a run of its tenant, with any attempt token ever issued,  *)
(* at any time.  AgentWorker and Submission restrict them to what the      *)
(* workers and the API really do.                                          *)
(*                                                                         *)
(* Time.  lease_until and deadline are kept as timers, the time left until *)
(* them, so that the clock is unbounded and the state finite: Tick runs    *)
(* every timer down and "lease_until <= time.time()" reads lease <= 0.  A  *)
(* timer stops at -LockWait, below which no method can tell values apart:  *)
(* claim reads the clock before it waits for the write lock, hence with a  *)
(* value up to LockWait old.  get reads the clock once for each of its     *)
(* three reconciliation blocks and time may pass in between, so it is      *)
(* three actions under the write lock that its transaction holds.          *)
(***************************************************************************)
EXTENDS Integers, Sequences

CONSTANTS
  RunIds,           \* the uuids submissions draw from
  Tenants,
  Inputs,           \* message, max_decisions and answer_mode of a job
  Keys, NoKey,      \* hashed idempotency keys; NoKey when the header is absent
  Results, NoResult,
  Checkpoints,      \* checkpoint documents: records with pending, replay_safe
  EmptyCheckpoint,
  Lease,            \* lease_seconds
  Duration,         \* duration_seconds
  MaxAttempts,      \* max_attempts
  LockWait          \* longest wait for the write lock (sqlite timeout)

ASSUME StoreConstants ==
  /\ Lease \in Nat \ {0} /\ Duration \in Nat \ {0} /\ MaxAttempts \in Nat \ {0}
  /\ LockWait \in Nat
  /\ Tenants # {} /\ Inputs # {}
  /\ NoKey \notin Keys /\ NoResult \notin Results
  /\ EmptyCheckpoint \in Checkpoints
  /\ \A c \in Checkpoints : c.pending \in BOOLEAN /\ c.replay_safe \in BOOLEAN
  /\ ~EmptyCheckpoint.pending

VARIABLES
  agent_runs,      \* run id -> row; state "absent" where no row exists
  agent_attempts,  \* run id -> rows in insertion order; a token is a position
  get_tx           \* the run and the next block of the get in progress, if any

vars == <<agent_runs, agent_attempts, get_tx>>

-----------------------------------------------------------------------------
TERMINAL == {"succeeded", "cancelled", "exhausted", "needs_review"}

\* What finish accepts.
FinishStates == {"succeeded", "failed", "cancelled", "exhausted", "needs_review"}

States == {"absent", "queued", "running"} \cup FinishStates

\* SQL NULL in lease_token and in the two time columns.
NoToken == 0
NoTime  == -1 - LockWait

Run == [state      : States,
        tenant     : Tenants,
        input      : Inputs,
        key        : Keys \cup {NoKey},
        attempts   : Nat,
        token      : Nat,
        lease      : Int,
        deadline   : Int,
        checkpoint : Checkpoints,
        result     : Results \cup {NoResult},
        cancel     : BOOLEAN,
        published  : BOOLEAN]

Attempt == [number : Nat, state : {"running", "expired"} \cup FinishStates]

\* No get in progress, or one that is about to run its second or third block.
GetTxs == {{}} \cup {{<<r, block>>} : r \in RunIds, block \in {2, 3}}

\* The row create inserts, with the column defaults of the schema.
NewRun(tenant, input, key, state) ==
  [state |-> state, tenant |-> tenant, input |-> input, key |-> key,
   attempts |-> 0, token |-> NoToken, lease |-> NoTime, deadline |-> NoTime,
   checkpoint |-> EmptyCheckpoint, result |-> NoResult,
   cancel |-> FALSE, published |-> FALSE]

Absent == NewRun(CHOOSE t \in Tenants : TRUE, CHOOSE i \in Inputs : TRUE,
                 NoKey, "absent")

Init ==
  /\ agent_runs = [r \in RunIds |-> Absent]
  /\ agent_attempts = [r \in RunIds |-> << >>]
  /\ get_tx = {}

-----------------------------------------------------------------------------
Exists(r) == agent_runs[r].state # "absent"

\* BEGIN IMMEDIATE is granted.
Unlocked == get_tx = {}

\* _row: the row of (id, tenant), RunNotFound otherwise.
Visible(r, tenant) == Exists(r) /\ agent_runs[r].tenant = tenant

\* A tool call whose outcome is unknown and which must not be repeated.
UnsafePending(cp) == cp.pending /\ ~cp.replay_safe

\* The runs of a tenant that hold an idempotency key.
Holders(tenant, key) ==
  {r \in RunIds : Visible(r, tenant) /\ key # NoKey /\ agent_runs[r].key = key}

\* UPDATE agent_attempts SET state=... WHERE token=...
SetAttempt(table, r, token, state) == [table EXCEPT ![r][token].state = state]

\* create inserts only when no run of the tenant holds the key; otherwise it
\* returns that run, or raises RunConflict when the input differs.
Create(r, tenant, input, key) ==
  /\ Unlocked /\ ~Exists(r)
  /\ Holders(tenant, key) = {}
  /\ agent_runs' = [agent_runs EXCEPT ![r] = NewRun(tenant, input, key, "queued")]
  /\ UNCHANGED <<agent_attempts, get_tx>>

-----------------------------------------------------------------------------
(* claim, with a clock reading that is lag old.                            *)

\* Faulty variant: the limit is off by one.
AttemptsLeftOneMore(row) == row.attempts <= MaxAttempts

AttemptsLeft(row) == row.attempts < MaxAttempts

\* Faulty variant: the caller's clock is one unit ahead.
LeaseLiveSkewed(row, lag) == row.state = "running" /\ row.lease + lag > 1

\* The run has an active attempt, by a clock reading that is lag old.
LeaseLive(row, lag) == row.state = "running" /\ row.lease + lag > 0

ClaimRefused(row, lag) ==
  \/ row.cancel
  \/ row.state \in TERMINAL \cup {"failed"}
  \/ LeaseLive(row, lag)
  \/ UnsafePending(row.checkpoint)
  \/ ~AttemptsLeft(row)

\* Faulty variant: every claim sets the deadline anew.
DeadlineAnew(row, lag) == Duration - lag

\* COALESCE: the deadline is set by the first claim only.
FirstDeadline(row, lag) ==
  IF row.deadline = NoTime THEN Duration - lag ELSE row.deadline

\* The row of a new attempt.
Claimed(row, token, lag) ==
  [row EXCEPT !.state = "running", !.attempts = @ + 1, !.token = token,
              !.lease = Lease - lag, !.deadline = FirstDeadline(row, lag)]

Claim(r, tenant, input, lag) ==
  LET row   == agent_runs[r]
      old   == IF row.token # NoToken
               THEN SetAttempt(agent_attempts, r, row.token, "expired")
               ELSE agent_attempts
      token == Len(agent_attempts[r]) + 1
  IN  /\ Unlocked /\ Visible(r, tenant) /\ row.input = input
      /\ ~ClaimRefused(row, lag)
      /\ agent_attempts' = [old EXCEPT ![r] =
             Append(@, [number |-> row.attempts + 1, state |-> "running"])]
      /\ agent_runs' = [agent_runs EXCEPT ![r] = Claimed(row, token, lag)]
      /\ UNCHANGED get_tx

-----------------------------------------------------------------------------
(* The methods of the attempt that owns the lease.                         *)

\* Faulty variant: the lease is not looked at.
OwnedByTokenOnly(row, token) == row.state = "running" /\ row.token = token

\* _owned_attempt, RunLeaseLost otherwise.
Owned(row, token) ==
  LeaseLive(row, 0) /\ row.token = token

\* guard renews the lease of an attempt that is not cancelled.
Guard(r, tenant, token) ==
  LET row == agent_runs[r]
  IN  /\ Unlocked /\ Visible(r, tenant) /\ Owned(row, token) /\ ~row.cancel
      /\ agent_runs' = [agent_runs EXCEPT ![r].lease = Lease]
      /\ UNCHANGED <<agent_attempts, get_tx>>

Checkpoint(r, tenant, token, cp) ==
  LET row == agent_runs[r]
  IN  /\ Unlocked /\ Visible(r, tenant) /\ Owned(row, token) /\ ~row.cancel
      /\ agent_runs' = [agent_runs EXCEPT ![r].checkpoint = cp, ![r].lease = Lease]
      /\ UNCHANGED <<agent_attempts, get_tx>>

\* Faulty variants: cancellation is not looked at; the late result is kept.
OutcomeIgnoringCancel(row, state, result) == <<state, result>>

OutcomeKeepingResult(row, state, result) ==
  <<IF row.cancel THEN "cancelled" ELSE state, result>>

\* The state and result finish stores: a requested cancellation wins.
Outcome(row, state, result) ==
  IF row.cancel THEN <<"cancelled", NoResult>> ELSE <<state, result>>

Finished(row, outcome) ==
  [row EXCEPT !.state = outcome[1], !.result = outcome[2],
              !.token = NoToken, !.lease = NoTime]

Finish(r, tenant, token, state, result) ==
  LET row == agent_runs[r]
      out == Outcome(row, state, result)
  IN  /\ Unlocked /\ Visible(r, tenant) /\ Owned(row, token)
      /\ agent_attempts' = SetAttempt(agent_attempts, r, token, out[1])
      /\ agent_runs' = [agent_runs EXCEPT ![r] = Finished(row, out)]
      /\ UNCHANGED get_tx

-----------------------------------------------------------------------------
(* get: three reconciliation blocks in one transaction.  A get of a row    *)
(* that is not running changes nothing and is left out.                    *)

\* The lifecycle a block settles the row into; row.state when it does not apply.
SettleCancelled(row) ==
  IF row.state = "running" /\ row.cancel /\ row.lease <= 0
  THEN "cancelled" ELSE row.state

SettleReview(row) ==
  IF row.state = "running" /\ ~row.cancel /\ row.lease <= 0
     /\ UnsafePending(row.checkpoint)
  THEN "needs_review" ELSE row.state

\* Faulty variants: the run gets an attempt's state; the row is not read again
\* after the first block.
SettleDeadlineExpired(row) ==
  IF row.lease <= 0 /\ row.deadline <= 0 THEN "expired" ELSE row.state

SettleDeadlineStale(row) ==
  IF row.lease <= 0 /\ row.deadline <= 0 THEN "exhausted" ELSE row.state

SettleDeadline(row) ==
  IF row.state = "running" /\ row.lease <= 0 /\ row.deadline <= 0
  THEN "exhausted" ELSE row.state

Settle(r, state) ==
  IF state = agent_runs[r].state
  THEN UNCHANGED <<agent_runs, agent_attempts>>
  ELSE /\ agent_runs' = [agent_runs EXCEPT
            ![r].state = state, ![r].token = NoToken, ![r].lease = NoTime]
       /\ agent_attempts' = SetAttempt(agent_attempts, r, agent_runs[r].token, state)

GetCancelled(r, tenant) ==
  /\ Unlocked /\ Visible(r, tenant) /\ agent_runs[r].state = "running"
  /\ Settle(r, SettleCancelled(agent_runs[r]))
  /\ get_tx' = {<<r, 2>>}

GetReview(r) ==
  /\ <<r, 2>> \in get_tx
  /\ Settle(r, SettleReview(agent_runs[r]))
  /\ get_tx' = {<<r, 3>>}

GetDeadline(r) ==
  /\ <<r, 3>> \in get_tx
  /\ Settle(r, SettleDeadline(agent_runs[r]))
  /\ get_tx' = {}

-----------------------------------------------------------------------------
(* The other methods of the API.                                           *)

MarkPublished(r, tenant) ==
  /\ Unlocked /\ Visible(r, tenant)
  /\ agent_runs' = [agent_runs EXCEPT ![r].published = TRUE]
  /\ UNCHANGED <<agent_attempts, get_tx>>

\* cancel leaves the lease columns and the attempt row alone.
Cancel(r, tenant) ==
  LET row == agent_runs[r]
  IN  /\ Unlocked /\ Visible(r, tenant) /\ row.state \notin TERMINAL
      /\ agent_runs' = [agent_runs EXCEPT
             ![r].cancel = TRUE,
             ![r].state  = IF LeaseLive(row, 0) THEN "running" ELSE "cancelled"]
      /\ UNCHANGED <<agent_attempts, get_tx>>

\* Faulty variants: the limits are left to claim; a cancelled run whose lease
\* has run out may be resumed.
ResumeRefusedNoLimits(row) ==
  row.cancel \/ row.state \in TERMINAL \/ LeaseLive(row, 0)

ResumeRefusedNoCancel(row) ==
  row.state \in TERMINAL \/ LeaseLive(row, 0) \/ ~AttemptsLeft(row)

ResumeRefused(row) ==
  \/ row.cancel
  \/ row.state \in TERMINAL
  \/ LeaseLive(row, 0)
  \/ ~AttemptsLeft(row)
  \/ UnsafePending(row.checkpoint)
  \/ row.deadline # NoTime /\ row.deadline <= 0

\* resume leaves the attempt row alone.
Resume(r, tenant) ==
  /\ Unlocked /\ Visible(r, tenant) /\ ~ResumeRefused(agent_runs[r])
  /\ agent_runs' = [agent_runs EXCEPT
         ![r].state = "queued", ![r].token = NoToken, ![r].lease = NoTime,
         ![r].published = FALSE]
  /\ UNCHANGED <<agent_attempts, get_tx>>

\* One unit of time passes; NULL and spent timers stay.
RunDown(timer) == IF timer > -LockWait THEN timer - 1 ELSE timer

Tick ==
  /\ agent_runs' = [r \in RunIds |->
         [agent_runs[r] EXCEPT !.lease = RunDown(@), !.deadline = RunDown(@)]]
  /\ UNCHANGED <<agent_attempts, get_tx>>

-----------------------------------------------------------------------------
\* Every token issued for a run.
Tokens(r) == 1 .. Len(agent_attempts[r])

OwnerStep(r, n) ==
  \E token \in Tokens(r) :
    \/ Guard(r, n, token)
    \/ \E cp \in Checkpoints : Checkpoint(r, n, token, cp)
    \/ \E res \in Results : Finish(r, n, token, "succeeded", res)
    \/ \E s \in FinishStates \ {"succeeded"} : Finish(r, n, token, s, NoResult)

ApiStep(r, n) ==
  \/ \E i \in Inputs, k \in Keys \cup {NoKey} : Create(r, n, i, k)
  \/ GetCancelled(r, n)
  \/ MarkPublished(r, n)
  \/ Cancel(r, n)
  \/ Resume(r, n)

Next ==
  \/ Tick
  \/ \E r \in RunIds : GetReview(r) \/ GetDeadline(r)
  \/ \E r \in RunIds, n \in Tenants :
       \/ ApiStep(r, n)
       \/ OwnerStep(r, n)
       \/ \E i \in Inputs, lag \in 0 .. LockWait : Claim(r, n, i, lag)

Spec == Init /\ [][Next]_vars

-----------------------------------------------------------------------------
(* Correctness.                                                            *)

\* Every column has its type: no method writes a state outside the lifecycle, a
\* negative count or a row of attempts that is not a sequence.
TypeOK ==
  /\ agent_runs \in [RunIds -> Run]
  /\ agent_attempts \in [RunIds -> Seq(Attempt)]
  /\ get_tx \in GetTxs

\* A queued run can be claimed by whichever delivery arrives next, whatever
\* sequence of cancellations, failures, takeovers and resumes led to it: claim
\* has no reason to refuse it, so it is never stuck in the queue.
QueuedIsClaimable ==
  \A r \in RunIds : agent_runs[r].state = "queued" =>
    \A lag \in 0 .. LockWait : ~ClaimRefused(agent_runs[r], lag)

\* A running row has every column its readers compare without a NULL test
\* (lease_until in get, claim, cancel and resume, deadline in get and guard),
\* and its token names the newest attempt row, which is itself running.
RunningIsComplete ==
  \A r \in RunIds : agent_runs[r].state = "running" =>
    /\ agent_runs[r].lease # NoTime /\ agent_runs[r].deadline # NoTime
    /\ agent_runs[r].token = Len(agent_attempts[r])
    /\ agent_runs[r].token \in DOMAIN agent_attempts[r]
    /\ agent_attempts[r][agent_runs[r].token].state = "running"

\* Once cancellation is requested the run is finishing or finished, never
\* queued, failed, under review or successful: cancel cannot be undone by an
\* attempt that reports late, by a takeover or by resume.
CancelSticks ==
  \A r \in RunIds : agent_runs[r].cancel =>
    agent_runs[r].state \in {"running", "cancelled", "exhausted"}

\* The attempt counter equals the attempt rows, which are numbered without a
\* gap, and never passes max_attempts, whichever mix of takeover and resume
\* created them.
AttemptsAccounted ==
  \A r \in RunIds :
    /\ agent_runs[r].attempts = Len(agent_attempts[r])
    /\ agent_runs[r].attempts <= MaxAttempts
    /\ \A i \in DOMAIN agent_attempts[r] : agent_attempts[r][i].number = i

\* A run carries a result exactly when it succeeded; a result handed in by an
\* attempt that lost its lease or was cancelled is nowhere in the store.
ResultIffSucceeded ==
  \A r \in RunIds :
    agent_runs[r].result # NoResult <=> agent_runs[r].state = "succeeded"

\* A tenant's idempotency key names at most one run, for ever.
KeyNamesOneRun ==
  \A r, q \in RunIds :
    /\ Exists(r) /\ Exists(q) /\ agent_runs[r].key # NoKey
    /\ agent_runs[r].tenant = agent_runs[q].tenant
    /\ agent_runs[r].key = agent_runs[q].key
    => r = q

\* A terminal run is final: no method changes anything of its row but the
\* publication mark, and its attempt rows are frozen.
TerminalIsFinal ==
  [][\A r \in RunIds : agent_runs[r].state \in TERMINAL =>
       /\ agent_runs'[r] = [agent_runs[r] EXCEPT !.published = agent_runs'[r].published,
              !.lease = agent_runs'[r].lease, !.deadline = agent_runs'[r].deadline]
       /\ agent_attempts'[r] = agent_attempts[r]]_vars

\* While a lease is live nobody but its owner ends or replaces the attempt:
\* claim, cancel and resume leave token and attempt number alone, no block of a
\* get, which are the steps that move get_tx, takes the run out of "running", and
\* a run that leaves it does so because the owner finished.
LeaseExcludes ==
  [][\A r \in RunIds :
       agent_runs[r].state = "running" /\ agent_runs[r].lease > 0 =>
         /\ agent_runs'[r].attempts = agent_runs[r].attempts
         /\ agent_runs'[r].token \in {agent_runs[r].token, NoToken}
         /\ agent_runs'[r].token = NoToken => agent_runs'[r].state \in FinishStates
         /\ agent_runs'[r].state = "running" \/ agent_runs'[r].token = NoToken
         /\ agent_runs'[r].state # "running" => get_tx' = get_tx
         /\ agent_attempts'[r] # agent_attempts[r] =>
              agent_attempts'[r][agent_runs[r].token].state = agent_runs'[r].state]_vars

\* The deadline is set by the first claim and only runs down: later claims,
\* renewals and resumes never move or clear it, so the time budget is not
\* replenished.
DeadlineRunsDown ==
  [][\A r \in RunIds :
       IF agent_runs[r].deadline # NoTime
       THEN /\ agent_runs'[r].deadline # NoTime
            /\ agent_runs'[r].deadline <= agent_runs[r].deadline
       ELSE agent_runs'[r].deadline # NoTime =>
              agent_attempts[r] = << >> /\ agent_attempts'[r] # << >>]_vars

\* The saved checkpoint moves only under a live, uncancelled lease held by the
\* newest attempt: neither a worker that lost its lease nor the API can touch
\* the progress a later attempt starts from.
CheckpointIsFenced ==
  [][\A r \in RunIds : Exists(r) => (agent_runs'[r].checkpoint # agent_runs[r].checkpoint =>
       /\ agent_runs[r].state = "running" /\ ~agent_runs[r].cancel
       /\ agent_runs[r].lease > 0
       /\ agent_runs[r].token = Len(agent_attempts[r]))]_vars

\* What docs/architecture/runtime-reliability.md says of attempts: "A cancelled crashed attempt is
\* reconciled after lease expiry".  cancel itself ends a run whose lease has
\* run out, and leaves the attempt row "running" for ever.
CancelledAttemptsEnd ==
  \A r \in RunIds : agent_runs[r].state = "cancelled" =>
    \A i \in DOMAIN agent_attempts[r] : agent_attempts[r][i].state # "running"

\* The store implements the lifecycle it promises (RunLifecycle): leases,
\* takeovers, reconciliation on read and stale clocks are invisible to a client
\* that sees only states, attempt counts, cancellation and results.
Lifecycle ==
  INSTANCE RunLifecycle WITH
    state     <- [r \in RunIds |-> agent_runs[r].state],
    tries     <- [r \in RunIds |-> agent_runs[r].attempts],
    cancelled <- [r \in RunIds |-> agent_runs[r].cancel],
    outcome   <- [r \in RunIds |-> agent_runs[r].result]

\* Every behaviour of the store is a behaviour of RunLifecycle.
ImplementsLifecycle == Lifecycle!Spec

-----------------------------------------------------------------------------
(* The inductive strengthening the proofs rest on: what one row and its    *)
(* attempt rows h satisfy.  It adds to the invariants above that a token   *)
(* survives only in a running row or in one that cancel closed after the   *)
(* lease had run out, that the deadline exists exactly once an attempt     *)
(* does, and that an absent row has no attempts.                           *)

RowOK(row, h) ==
  /\ row.attempts = Len(h) /\ row.attempts <= MaxAttempts
  /\ \A i \in DOMAIN h : h[i].number = i
  /\ row.state = "absent" => h = << >>
  /\ row.state = "queued" =>
       ~row.cancel /\ row.attempts < MaxAttempts /\ ~UnsafePending(row.checkpoint)
  /\ row.state = "running" =>
       /\ row.lease # NoTime /\ row.deadline # NoTime
       /\ row.token = Len(h) /\ row.token # NoToken /\ h[row.token].state = "running"
  /\ row.token # NoToken => row.state \in {"running", "cancelled"}
  /\ row.cancel => row.state \in {"running", "cancelled", "exhausted"}
  /\ row.result # NoResult <=> row.state = "succeeded"
  /\ row.deadline # NoTime <=> h # << >>

IInv ==
  /\ TypeOK
  /\ \A r \in RunIds : RowOK(agent_runs[r], agent_attempts[r])
=============================================================================
