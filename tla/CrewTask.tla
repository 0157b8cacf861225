------------------------------ MODULE CrewTask ------------------------------
(***************************************************************************)
(* One crew task: run_crew_api registers its owner and sends it            *)
(* (api/routes.py), the Celery task run_crew runs the two calls of the     *)
(* workflow and asks for retries (workers/crew_task.py, utils/retry.py),   *)
(* and its status is read by tenants (infrastructure/task_status_reader.py,*)
(* get_task_status of api/routes.py).  Task ids are uuid4, so tasks share  *)
(* nothing and one is modelled.                                            *)
(*                                                                         *)
(* The broker and the result backend are external.  Acknowledgement is     *)
(* late: until an attempt ends, its message may be restored beside it, or  *)
(* its worker may die and the message be queued again.  A retry is the     *)
(* same message with its count raised and an earliest time; its expiry is  *)
(* the one the API set.  Times are what is left of them, and Tick lets     *)
(* them run down.                                                          *)
(***************************************************************************)
EXTENDS Integers, FiniteSets

CONSTANTS
  Tenants, Submitter, NoOwner,
  OwnerTTL, QueueTTL, ResultTTL,   \* settings TASK_OWNER_TTL, ...
  RunLimit,                        \* task_time_limit
  MaxRetries,                      \* LLM_MAX_RETRIES
  MaxWait,                         \* the longest Retry-After that is obeyed
  MaxJitter,                       \* the longest wait the worker chooses itself
  RetryAfters,                     \* the waits the provider asks for
  MaxStall,                        \* bound: time between register and send
  MaxRedeliveries                  \* bound: messages the broker repeats

\* The settings' ranges: an owner is kept for 10800 s or more, messages and
\* results for at most 3600 s each, and an attempt ends after 270 s.
ASSUME CrewConstants ==
  /\ Submitter \in Tenants /\ NoOwner \notin Tenants
  /\ {QueueTTL, ResultTTL, RunLimit} \subseteq Nat \ {0}
  /\ {MaxRetries, MaxWait, MaxJitter, MaxStall, MaxRedeliveries} \subseteq Nat
  /\ RetryAfters \subseteq Nat
  /\ OwnerTTL >= MaxStall + QueueTTL + RunLimit + ResultTTL /\ OwnerTTL \in Nat

VARIABLES
  api,          \* where the handler of the submission is, and for how long
  owner,        \* the ownership key: its tenant and its time to live
  deliveries,   \* the copies of the task's message and the attempts they are in
  redelivered,  \* how many of them the broker repeated (history)
  kickoffs,     \* how often the workflow was started (history)
  backend,      \* the stored state of the task and its time to live
  reader        \* a read of the status, and its last answer

vars == <<api, owner, deliveries, redelivered, kickoffs, backend, reader>>

Slots == 0 .. MaxRedeliveries

\* eta: time before it may start.  permitted: time before the provider wants to
\* see it again.  elapsed: how long its attempt has been running.
Free == [pc |-> "free", retries |-> 0, expires |-> 0, eta |-> 0,
         permitted |-> 0, elapsed |-> 0]

NoMeta == [status |-> "PENDING", ttl |-> 0]

Init ==
  /\ api = [pc |-> "new", stall |-> 0]
  /\ owner = [tenant |-> NoOwner, ttl |-> 0]
  /\ deliveries = [d \in Slots |-> Free]
  /\ redelivered = 0 /\ kickoffs = 0
  /\ backend = NoMeta
  /\ reader = [pc |-> "idle", tenant |-> Submitter, answer |-> "none"]

-----------------------------------------------------------------------------
(* The API.                                                                *)

\* The owner is registered before anything is sent.
Register ==
  /\ api.pc = "new"
  /\ owner' = [tenant |-> Submitter, ttl |-> OwnerTTL]
  /\ api' = [api EXCEPT !.pc = "dispatch"]
  /\ UNCHANGED <<deliveries, redelivered, kickoffs, backend, reader>>

\* apply_async: the message expires QueueTTL from now.
Dispatch ==
  /\ api.pc = "dispatch"
  /\ deliveries' = [deliveries EXCEPT ![0] = [Free EXCEPT !.pc = "queued",
                                                          !.expires = QueueTTL]]
  /\ api' = [api EXCEPT !.pc = "answer"]
  /\ UNCHANGED <<owner, redelivered, kickoffs, backend, reader>>

Answer ==
  /\ api.pc = "answer"
  /\ api' = [api EXCEPT !.pc = "ended"]
  /\ UNCHANGED <<owner, deliveries, redelivered, kickoffs, backend, reader>>

\* Faulty variant: a request that fails takes its registration back.
AbandonUnregistered ==
  /\ api.pc \in {"dispatch", "answer"}
  /\ api' = [api EXCEPT !.pc = "ended"]
  /\ owner' = [tenant |-> NoOwner, ttl |-> 0]
  /\ UNCHANGED <<deliveries, redelivered, kickoffs, backend, reader>>

\* An exception, also of a send that did reach the broker, or a crash: the key
\* stays.
Abandon ==
  /\ api.pc \in {"dispatch", "answer"}
  /\ api' = [api EXCEPT !.pc = "ended"]
  /\ UNCHANGED <<owner, deliveries, redelivered, kickoffs, backend, reader>>

-----------------------------------------------------------------------------
(* The worker.                                                             *)

At(d, pc)  == deliveries[d].pc = pc
Running(d) == deliveries[d].pc \in {"analysis", "processing"}
Ack(d)     == deliveries' = [deliveries EXCEPT ![d] = Free]

\* The backend (external) never replaces a success.
Stored(status) ==
  IF backend.status = "SUCCESS" THEN backend ELSE [status |-> status, ttl |-> ResultTTL]

\* A message that has expired is not run any more.
Expire(d) ==
  /\ At(d, "queued") /\ deliveries[d].expires < 0
  /\ Ack(d)
  /\ backend' = Stored("REVOKED")
  /\ UNCHANGED <<api, owner, redelivered, kickoffs, reader>>

\* run_crew builds a new crew for every attempt.
Start(d) ==
  /\ At(d, "queued") /\ deliveries[d].expires >= 0 /\ deliveries[d].eta = 0
  /\ deliveries' = [deliveries EXCEPT ![d].pc = "analysis", ![d].elapsed = 0]
  /\ kickoffs' = kickoffs + 1
  /\ backend' = Stored("STARTED")
  /\ UNCHANGED <<api, owner, redelivered, reader>>

\* Crew.kickoff: the result of the first task is the context of the second.
Analysed(d) ==
  /\ At(d, "analysis")
  /\ deliveries' = [deliveries EXCEPT ![d].pc = "processing"]
  /\ UNCHANGED <<api, owner, redelivered, kickoffs, backend, reader>>

Succeed(d) ==
  /\ At(d, "processing")
  /\ Ack(d)
  /\ backend' = Stored("SUCCESS")
  /\ UNCHANGED <<api, owner, redelivered, kickoffs, reader>>

\* Faulty variant: a wait that is too long is shortened.
RetryDelaysCapped(wait) == {IF wait <= MaxWait THEN wait ELSE MaxWait}

\* retry_delay: the wait the provider asks for, or no retry.
RetryDelays(wait) == {wait} \cap 0 .. MaxWait

\* retry_delay of an error that names no wait: jitter that grows with the retries.
Jitter(d) == {delay \in 0 .. MaxJitter : delay <= 2 ^ deliveries[d].retries}

\* Faulty variant: one retry too many.
MayRetryOnceMore(d) == deliveries[d].retries <= MaxRetries

MayRetry(d) == deliveries[d].retries < MaxRetries

\* self.retry after a transient error of either call that asked to wait.
Retry(d, delay, wait) ==
  /\ Running(d) /\ MayRetry(d)
  /\ deliveries' = [deliveries EXCEPT ![d] =
                      [deliveries[d] EXCEPT
                         !.pc = "queued", !.retries = deliveries[d].retries + 1,
                         !.eta = delay, !.permitted = wait, !.elapsed = 0]]
  /\ backend' = Stored("RETRY")
  /\ UNCHANGED <<api, owner, redelivered, kickoffs, reader>>

\* Any other error, a transient one without a retry left or with a wait that is
\* not obeyed, and a worker process that dies: the task fails.
Fail(d) ==
  /\ Running(d)
  /\ Ack(d)
  /\ backend' = Stored("FAILURE")
  /\ UNCHANGED <<api, owner, redelivered, kickoffs, reader>>

\* Faulty variant: the limits are not set.
TimeLimitUnset(d) == FALSE /\ UNCHANGED vars

\* The time limits end an attempt whose call hangs.
TimeLimit(d) == deliveries[d].elapsed = RunLimit /\ Fail(d)

\* The write of the outcome or the send of a retry fails: the message is
\* dropped and the stored state stays.
Lose(d) ==
  /\ Running(d)
  /\ Ack(d)
  /\ UNCHANGED <<api, owner, redelivered, kickoffs, backend, reader>>

-----------------------------------------------------------------------------
(* The broker (external).                                                  *)

Again(d) == [deliveries[d] EXCEPT !.pc = "queued", !.elapsed = 0]

\* The worker dies or is stopped and its message is queued again.
Crash(d) ==
  /\ Running(d) /\ redelivered < MaxRedeliveries
  /\ deliveries' = [deliveries EXCEPT ![d] = Again(d)]
  /\ redelivered' = redelivered + 1
  /\ UNCHANGED <<api, owner, kickoffs, backend, reader>>

\* The message is queued again while its attempt goes on.
Restore(d, e) ==
  /\ Running(d) /\ At(e, "free") /\ redelivered < MaxRedeliveries
  /\ deliveries' = [deliveries EXCEPT ![e] = Again(d)]
  /\ redelivered' = redelivered + 1
  /\ UNCHANGED <<api, owner, kickoffs, backend, reader>>

Less(n) == IF n > 0 THEN n - 1 ELSE 0

\* Time passes, for an attempt no longer than its limit.
Tick ==
  /\ api.pc = "dispatch" => api.stall < MaxStall
  /\ \A d \in Slots : Running(d) => deliveries[d].elapsed < RunLimit
  /\ api' = [api EXCEPT !.stall = IF api.pc = "dispatch" THEN @ + 1 ELSE 0]
  /\ owner' = [tenant |-> IF owner.ttl > 1 THEN owner.tenant ELSE NoOwner,
               ttl |-> Less(owner.ttl)]
  /\ backend' = IF backend.ttl > 1 THEN [backend EXCEPT !.ttl = @ - 1] ELSE NoMeta
  /\ deliveries' = [d \in Slots |->
       IF At(d, "free") THEN Free
       ELSE [deliveries[d] EXCEPT !.expires = IF @ >= 0 THEN @ - 1 ELSE @,
                                  !.eta = Less(@), !.permitted = Less(@),
                                  !.elapsed = IF Running(d) THEN @ + 1 ELSE 0]]
  /\ UNCHANGED <<redelivered, kickoffs, reader>>

-----------------------------------------------------------------------------
(* Reading the status.                                                     *)

\* Faulty variant: a key that has expired refuses nobody.
AccessibleUnowned(n) == owner.tenant \in {n, NoOwner}

\* require_owner: fail closed.
Accessible(n) == owner.tenant = n

RequireOwner(n) ==
  /\ reader.pc = "idle"
  /\ reader' = IF Accessible(n)
               THEN [pc |-> "backend", tenant |-> n, answer |-> "none"]
               ELSE [pc |-> "idle", tenant |-> n, answer |-> "unavailable"]
  /\ UNCHANGED <<api, owner, deliveries, redelivered, kickoffs, backend>>

\* map_celery_state
AgentTaskStatus ==
  [PENDING |-> "pending", STARTED |-> "running", RETRY |-> "retrying",
   SUCCESS |-> "succeeded", FAILURE |-> "failed", REVOKED |-> "revoked"]

\* The state, and with a ready one its result, come from one read.  The API shows
\* it as it is, the status tool translates it.
ReadState ==
  /\ reader.pc = "backend"
  /\ \E answer \in {backend.status, AgentTaskStatus[backend.status]} :
       reader' = [reader EXCEPT !.pc = "idle", !.answer = answer]
  /\ UNCHANGED <<api, owner, deliveries, redelivered, kickoffs, backend>>

\* The handler of the API and the reader of the status tool are these two steps.
GetTaskStatus == (\E n \in Tenants : RequireOwner(n)) \/ ReadState

-----------------------------------------------------------------------------
Worker(d) ==
  \/ Expire(d) \/ Start(d) \/ Analysed(d) \/ Succeed(d) \/ Fail(d) \/ TimeLimit(d) \/ Lose(d)
  \/ \E wait \in RetryAfters : \E delay \in RetryDelays(wait) : Retry(d, delay, wait)
  \/ \E delay \in Jitter(d) : Retry(d, delay, 0)

Next ==
  \/ Register \/ Dispatch \/ Answer \/ Abandon
  \/ \E d \in Slots : Worker(d) \/ Crash(d) \/ \E e \in Slots : Restore(d, e)
  \/ Tick
  \/ GetTaskStatus

Spec == Init /\ [][Next]_vars

\* Workers of the tenant's queue keep taking messages, limits are enforced and
\* time passes.  A model call may never return.
FairSpec ==
  /\ Spec
  /\ WF_vars(Tick)
  /\ \A d \in Slots : WF_vars(Expire(d) \/ Start(d)) /\ WF_vars(TimeLimit(d))

-----------------------------------------------------------------------------
(* Correctness.                                                            *)

\* The states an attempt leaves behind.
Executed == {"STARTED", "RETRY", "SUCCESS", "FAILURE"}

\* Ownership outlives the task: as long as a copy of the message may still be
\* run, or what an attempt stored can be read, the submitter passes
\* require_owner, although the key, the message and the result expire
\* independently, the request may stall or fail after its send, and retries and
\* redeliveries run the task late.
OwnerOutlivesTask ==
  \/ \E d \in Slots : Running(d) \/ (At(d, "queued") /\ deliveries[d].expires >= 0)
  \/ backend.status \in Executed
  => Accessible(Submitter)

\* Nobody but the submitter is told the state of the task, also when the key has
\* expired and a late message leaves a REVOKED behind: the reader fails closed.
FoundIsOwned ==
  reader.pc = "backend" \/ reader.answer \notin {"none", "unavailable"}
    => reader.tenant = Submitter

\* The workflow is started at most once and MaxRetries times again for each time
\* the broker delivered the message: a redelivery repeats a chain of retries and
\* never feeds another one.
AttemptsAreBounded == kickoffs <= (MaxRetries + 1) * (redelivered + 1)

\* An attempt never asks the provider again before the time its predecessor was
\* told to wait for, through the queue and redeliveries.
RetryIsPermitted ==
  \A d \in Slots : Running(d) => deliveries[d].permitted = 0

\* Every message is settled at last: hung calls are stopped, retries run out or
\* expire, and no copy is left in the queue.
TaskEnds ==
  (\E d \in Slots : ~At(d, "free")) ~> (\A d \in Slots : At(d, "free"))
=============================================================================
