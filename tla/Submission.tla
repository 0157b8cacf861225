----------------------------- MODULE Submission -----------------------------
(***************************************************************************)
(* How agent runs get from the API to a worker: the submit and resume      *)
(* handlers (api/agent_routes.py), the ownership keys they keep in Redis   *)
(* (infrastructure/task_ownership.py) and the Celery queue.                *)
(*                                                                         *)
(* A handler is a sequence of calls on three stores that share no          *)
(* transaction: the run store, Redis and the broker.  Each call is an      *)
(* action, so handlers interleave, and a handler may stop between any two: *)
(* an exception answers 500 or 503, and the process may die.  Policy       *)
(* checks and the ceiling on max_decisions refuse before the first call    *)
(* and change nothing.                                                     *)
(*                                                                         *)
(* The broker (external) may deliver a message twice, after a crash or a   *)
(* visibility timeout, or lose it, by expiry or with a killed worker.  The *)
(* attempt that claims a run is as free as RunStore allows; AgentWorker    *)
(* says what it does.                                                      *)
(***************************************************************************)
EXTENDS Integers, Sequences

CONSTANTS
  RunIds, Tenants, Inputs, Keys, NoKey, Results, NoResult,   \* as in RunStore
  Checkpoints, EmptyCheckpoint, Lease, Duration, MaxAttempts, LockWait,
  Callers,       \* API requests in progress
  NoOwner,
  MaxMessages    \* bound: messages of one run in the queue at a time

ASSUME SubmissionConstants == NoOwner \notin Tenants /\ MaxMessages \in Nat

VARIABLES agent_runs, agent_attempts, get_tx,   \* the store
          callers,    \* request -> the point its handler is at
          owner,      \* run -> tenant its ownership key names
          queue,      \* run -> messages the broker holds for it
          sent        \* run -> when its job was last sent (history)

Store == INSTANCE RunStore

ASSUME StoreAssumption == Store!StoreConstants

stored == <<agent_runs, agent_attempts, get_tx>>
vars   == <<agent_runs, agent_attempts, get_tx, callers, owner, queue, sent>>

\* A request that is at none of "own", "register", "publish" and "mark".
Done == [pc |-> "idle", run |-> CHOOSE r \in RunIds : TRUE,
         tenant |-> CHOOSE n \in Tenants : TRUE]

Init ==
  /\ Store!Init
  /\ callers = [c \in Callers |-> Done]
  /\ owner = [r \in RunIds |-> NoOwner]
  /\ queue = [r \in RunIds |-> 0]
  /\ sent = [r \in RunIds |-> "never"]

-----------------------------------------------------------------------------
At(c, pc)   == callers[c].pc = pc
Goto(c, pc) == callers' = [callers EXCEPT ![c].pc = pc]
Return(c)   == callers' = [callers EXCEPT ![c] = Done]

Enter(c, r, n) ==
  callers' = [callers EXCEPT ![c] = [pc |-> "own", run |-> r, tenant |-> n]]

\* A submission that inserts a new run.
Submit(c, r, n, input, key) ==
  /\ At(c, "idle")
  /\ Store!Create(r, n, input, key)
  /\ Enter(c, r, n)
  /\ UNCHANGED <<owner, queue, sent>>

\* Faulty variant: keys are looked up across tenants.
ReplayableByAnyone(r, n, input, key) ==
  /\ Store!Exists(r) /\ agent_runs[r].key = key /\ key # NoKey
  /\ agent_runs[r].input = input
  /\ ~agent_runs[r].published /\ agent_runs[r].state = "queued"

\* A submission whose key names a run with the same input goes on to publish it
\* unless it is known to be published or no longer queued.
Replayable(r, n, input, key) ==
  /\ r \in Store!Holders(n, key) /\ agent_runs[r].input = input
  /\ ~agent_runs[r].published /\ agent_runs[r].state = "queued"

Retry(c, r, n, input, key) ==
  /\ At(c, "idle") /\ Store!Unlocked
  /\ Replayable(r, n, input, key)
  /\ Enter(c, r, n)
  /\ UNCHANGED <<stored, owner, queue, sent>>

Resume(c, r, n) ==
  /\ At(c, "idle")
  /\ Store!Resume(r, n)
  /\ Enter(c, r, n)
  /\ sent' = [sent EXCEPT ![r] = IF @ = "now" THEN "earlier" ELSE @]
  /\ UNCHANGED <<owner, queue>>

\* require_owner: anything but the own tenant is a 404.
RequireOwner(c) ==
  /\ At(c, "own")
  /\ Goto(c, IF owner[callers[c].run] = callers[c].tenant THEN "publish" ELSE "register")
  /\ UNCHANGED <<stored, owner, queue, sent>>

\* SET ... NX: the second of two concurrent registrations raises.
Register(c) ==
  LET me == callers[c]
  IN  /\ At(c, "register")
      /\ IF owner[me.run] = NoOwner
         THEN owner' = [owner EXCEPT ![me.run] = me.tenant] /\ Goto(c, "publish")
         ELSE UNCHANGED owner /\ Return(c)
      /\ UNCHANGED <<stored, queue, sent>>

\* Faulty variant: an exception of the broker is swallowed.
PublishSwallowed(c) ==
  /\ At(c, "publish")
  /\ Goto(c, "mark")
  /\ UNCHANGED <<stored, owner, queue, sent>>

\* apply_async of the registered job.
Publish(c) ==
  LET me == callers[c]
  IN  /\ At(c, "publish") /\ queue[me.run] < MaxMessages
      /\ queue' = [queue EXCEPT ![me.run] = @ + 1]
      /\ sent' = [sent EXCEPT ![me.run] = "now"]
      /\ Goto(c, "mark")
      /\ UNCHANGED <<stored, owner>>

MarkPublished(c) ==
  LET me == callers[c]
  IN  /\ At(c, "mark")
      /\ Store!MarkPublished(me.run, me.tenant)
      /\ Return(c)
      /\ UNCHANGED <<owner, queue, sent>>

\* An exception or a crash between two calls.  A send whose outcome is unknown
\* is one that stops before or after Publish.
Abandon(c) ==
  /\ ~At(c, "idle")
  /\ Return(c)
  /\ UNCHANGED <<stored, owner, queue, sent>>

-----------------------------------------------------------------------------
\* Redis forgets the key after TASK_OWNER_TTL.
OwnerExpires(r) ==
  /\ owner[r] # NoOwner
  /\ owner' = [owner EXCEPT ![r] = NoOwner]
  /\ UNCHANGED <<stored, callers, queue, sent>>

\* A message is delivered and claims the run; it may come back.
Deliver(r, lag) ==
  /\ queue[r] > 0
  /\ Store!Claim(r, agent_runs[r].tenant, agent_runs[r].input, lag)
  /\ \E left \in {queue[r] - 1, queue[r]} : queue' = [queue EXCEPT ![r] = left]
  /\ UNCHANGED <<callers, owner, sent>>

\* A message expires, is lost, or is delivered and refused by claim.
Drop(r) ==
  /\ queue[r] > 0
  /\ queue' = [queue EXCEPT ![r] = @ - 1]
  /\ UNCHANGED <<stored, callers, owner, sent>>

\* The other calls on the store: the attempt's, reads and cancellations.
StoreStep(r, n) ==
  /\ \/ Store!OwnerStep(r, n)
     \/ Store!GetCancelled(r, n)
     \/ Store!Cancel(r, n)
  /\ UNCHANGED <<callers, owner, queue, sent>>

GetBlock(r) ==
  /\ Store!GetReview(r) \/ Store!GetDeadline(r)
  /\ UNCHANGED <<callers, owner, queue, sent>>

Tick == Store!Tick /\ UNCHANGED <<callers, owner, queue, sent>>

CallerStep(c) ==
  \/ \E r \in RunIds, n \in Tenants :
       \/ \E i \in Inputs, k \in Keys \cup {NoKey} : Submit(c, r, n, i, k)
       \/ \E i \in Inputs, k \in Keys : Retry(c, r, n, i, k)
       \/ Resume(c, r, n)
  \/ RequireOwner(c) \/ Register(c) \/ Publish(c) \/ MarkPublished(c) \/ Abandon(c)

Next ==
  \/ \E c \in Callers : CallerStep(c)
  \/ \E r \in RunIds :
       \/ OwnerExpires(r) \/ Drop(r) \/ GetBlock(r)
       \/ \E lag \in 0 .. LockWait : Deliver(r, lag)
       \/ \E n \in Tenants : StoreStep(r, n)
  \/ Tick

Spec == Init /\ [][Next]_vars

-----------------------------------------------------------------------------
(* Correctness.                                                            *)

\* Publication is confirmed only for a run whose job was sent, whichever
\* handlers died half way, and only a sent job is ever attempted: the durable
\* row comes first, the message second, the confirmation last.
ConfirmedWasSent ==
  \A r \in RunIds :
    agent_runs[r].published \/ agent_runs[r].attempts > 0 => sent[r] # "never"

\* The ownership key of a run names its tenant or nobody, through expiry,
\* re-registration and concurrent retries, and a request works only on a run
\* of its own tenant.
OwnerIsTenant ==
  \A r \in RunIds :
    /\ owner[r] \in {NoOwner, agent_runs[r].tenant}
    /\ \A c \in Callers : callers[c].pc # "idle" /\ callers[c].run = r =>
         Store!Visible(r, callers[c].tenant)

\* What docs/architecture/runtime-reliability.md says of a run that was queued
\* and not sent, here by a resume whose process died: "Retrying with its
\* idempotency key or explicitly resuming can publish it".  A confirmation left over from before a resume marks the
\* resumed run as published, and a retry with its key then sends nothing.
RetryCanPublish ==
  \A r \in RunIds :
    /\ agent_runs[r].state = "queued" /\ agent_runs[r].attempts > 0
    /\ sent[r] # "now" /\ queue[r] = 0
    /\ \A c \in Callers : At(c, "idle")
    => ~agent_runs[r].published
=============================================================================
