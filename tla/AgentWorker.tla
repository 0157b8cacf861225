---------------------------- MODULE AgentWorker ----------------------------
(***************************************************************************)
(* The workers that execute agent runs against the durable store:          *)
(* execute_agent_job (core/agent_job_runner.py), AgentLoop._run            *)
(* (application/use_cases/agent_loop.py), ExecutionControl with its        *)
(* heartbeat thread (application/services/execution_control.py), and the   *)
(* two adapters that call the model (third_party/llm).                     *)
(*                                                                         *)
(* One action per store transaction and per external call of a worker, so  *)
(* workers, heartbeats, API callers and the clock interleave wherever the  *)
(* code can be preempted; guards with nothing but local computation in     *)
(* between are one step.  A delivery of a run's job may reach any idle     *)
(* worker at any time, as duplicates and redeliveries make possible, and a *)
(* worker may crash, be stopped by Celery's soft time limit or get an      *)
(* sqlite error anywhere.  A stalled worker is one that takes no step.     *)
(*                                                                         *)
(* The checkpoint document keeps what control depends on; conversation     *)
(* history, observed sources and pricing are left out.  Answers are named  *)
(* by the decision that produced them.  world records what reached the     *)
(* outside: model calls, effects of replay-unsafe tools, tokens admitted.  *)
(***************************************************************************)
EXTENDS Integers, Sequences

CONSTANTS
  RunIds, Tenants, Inputs, Keys, NoKey,      \* as in RunStore
  Lease, Duration, MaxAttempts, LockWait,
  Workers,
  DocumentInputs,   \* the inputs whose answer_mode is "document"
  MaxDecisions,     \* max_decisions of a job
  Settings,         \* token and recovery ceilings a worker may be deployed with
  NoLimits,
  Estimates,        \* token reservations of one model call
  Excesses          \* reported usage beyond the reservation

ASSUME StoreAssumption ==
  /\ Lease \in Nat \ {0} /\ Duration \in Nat \ {0} /\ MaxAttempts \in Nat \ {0}
  /\ LockWait \in Nat
  /\ Tenants # {} /\ Inputs # {} /\ NoKey \notin Keys

ASSUME WorkerConstants ==
  /\ MaxDecisions \in Nat \ {0} /\ DocumentInputs \subseteq Inputs
  /\ Settings \subseteq [tokens : Nat, recoveries : Nat] /\ NoLimits \notin Settings
  /\ Estimates \subseteq Nat /\ Excesses \subseteq Nat
  /\ RunIds # {} /\ Settings # {}

VARIABLES agent_runs, agent_attempts, get_tx,   \* the store
          workers,                              \* worker -> local state
          world                                 \* run -> what left the process

stored == <<agent_runs, agent_attempts, get_tx>>
vars   == <<agent_runs, agent_attempts, get_tx, workers, world>>

-----------------------------------------------------------------------------
Steps == 1 .. MaxDecisions
None  == 0     \* no final answer, no receipt

\* pending says that a tool call is pending, tool which kind of tool it names.
Checkpoints ==
  [pending : BOOLEAN, tool : {"none", "safe", "unsafe"}, replay_safe : BOOLEAN,
   decisions : Nat, recoveries : Nat, reserved : Nat, limits : Settings \cup {NoLimits},
   receipt : Steps \cup {None}, final : Steps \cup {None}]

EmptyCheckpoint ==
  [pending |-> FALSE, tool |-> "none", replay_safe |-> FALSE,
   decisions |-> 0, recoveries |-> 0, reserved |-> 0, limits |-> NoLimits,
   receipt |-> None, final |-> None]

Store == INSTANCE RunStore WITH Results <- Steps, NoResult <- None

\* What a model call returns: a final answer, a tool call by the kind of the
\* tool, an unusable response or a refusal; and what a review returns.
Decisions == {"final", "safe", "unsafe", "unknown", "malformed", "refused"}
Verdicts  == {"accepted", "rejected"}

\* What ends an attempt, by how the runner classifies it: RunCancelled; a
\* deadline, decision limit or resource budget; anything else.
Errors == {"cancelled", "limit", "other"}

PCs == {"idle", "limits", "loop", "decide", "admit", "reserve", "invoke", "report",
        "reconcile", "decided", "reviewed", "receipt", "final", "pend", "arm",
        "effect", "observed", "observe", "recover", "recovered", "finish", "fail"}

Worker ==
  [pc : PCs, run : RunIds, token : Nat, cp : Checkpoints,
   settings : Settings, call : {"decide", "review"},
   decision : Decisions \cup Verdicts \cup {"none"}, estimate : Nat,
   beat : BOOLEAN, fault : Errors \cup {"none"}, error : Errors \cup {"none"}]

Idle ==
  [pc |-> "idle", run |-> CHOOSE r \in RunIds : TRUE, token |-> 0,
   cp |-> EmptyCheckpoint, settings |-> CHOOSE s \in Settings : TRUE,
   call |-> "decide", decision |-> "none", estimate |-> 0,
   beat |-> FALSE, fault |-> "none", error |-> "none"]

Init ==
  /\ Store!Init
  /\ workers = [w \in Workers |-> Idle]
  /\ world = [r \in RunIds |-> [calls   |-> [s \in Steps |-> 0],
                                effects |-> [s \in Steps |-> 0],
                                spent   |-> 0]]

-----------------------------------------------------------------------------
(* The calls a worker makes on the store through its ExecutionControl.     *)

At(w, pc)  == workers[w].pc = pc
Row(w)     == agent_runs[workers[w].run]
Set(w, me) == workers' = [workers EXCEPT ![w] = me]

\* The same worker at another point, with a new local checkpoint; at the head of
\* the loop and in the error handler what it was deciding is forgotten.
Goto(w, pc, cp)      == [workers[w] EXCEPT !.pc = pc, !.cp = cp]
NextIter(w, cp)      == [Goto(w, "loop", cp) EXCEPT !.decision = "none"]
Failed(w, error, cp) ==
  [Goto(w, "fail", cp) EXCEPT !.error = error, !.fault = "none", !.call = "decide",
                              !.decision = "none", !.estimate = 0]

\* Faulty variant: every deployment puts its own ceilings.
LimitsCurrent(me) == me.settings

\* The ceilings of the run: those its first attempt persisted, or the worker's
\* own; and the ones in force, the tighter of both.
Limits(me) == IF me.cp.limits = NoLimits THEN me.settings ELSE me.cp.limits

Tighter(a, b) == IF a < b THEN a ELSE b

MaxTokens(me)     == Tighter(Limits(me).tokens, me.settings.tokens)
MaxRecoveries(me) == Tighter(Limits(me).recoveries, me.settings.recoveries)

\* What a store call of the worker can raise: RunCancelled for an owner whose
\* run is cancelled; RunLeaseLost (the only outcome once the lease is gone) and
\* sqlite3.Error (possible at any time) are both "other".
StoreErrors(w) ==
  {"other"} \cup
  (IF Store!Owned(Row(w), workers[w].token) /\ Row(w).cancel THEN {"cancelled"} ELSE {})

\* A checkpoint with no pending tool call.
Settled(cp) == [cp EXCEPT !.pending = FALSE, !.tool = "none", !.replay_safe = FALSE]

\* guard: the heartbeat's error first; then the store renews the lease, and a
\* spent deadline still raises.
GuardThen(w, nexts) ==
  LET me == workers[w]
  IN  \/ /\ me.fault # "none"
         /\ Set(w, Failed(w, me.fault, me.cp))
         /\ UNCHANGED stored
      \/ /\ me.fault = "none"
         /\ Store!Guard(me.run, Row(w).tenant, me.token)
         /\ \E next \in nexts :
              Set(w, IF Row(w).deadline > 0 THEN next ELSE Failed(w, "limit", me.cp))
      \/ /\ me.fault = "none"
         /\ \E e \in StoreErrors(w) : Set(w, Failed(w, e, me.cp))
         /\ UNCHANGED stored

\* Faulty variant: a save that fails is ignored.
PersistLossy(w, cp, next) ==
  LET me == workers[w]
  IN  /\ \/ Store!Checkpoint(me.run, Row(w).tenant, me.token, cp)
         \/ UNCHANGED stored
      /\ Set(w, next)

\* persist: the local state is updated first, and stays so when the store raises.
PersistThen(w, cp, next) ==
  LET me == workers[w]
  IN  \/ /\ Store!Checkpoint(me.run, Row(w).tenant, me.token, cp)
         /\ Set(w, next)
      \/ /\ \E e \in StoreErrors(w) : Set(w, Failed(w, e, cp))
         /\ UNCHANGED stored

Persist(w, cp, pc) == PersistThen(w, cp, Goto(w, pc, cp))

-----------------------------------------------------------------------------
(* execute_agent_job up to the loop.                                       *)

\* Faulty variant: the attempt repeats the decision the last one was at.
DeliverRewound(w, r, settings, lag) ==
  /\ At(w, "idle")
  /\ Store!Claim(r, agent_runs[r].tenant, agent_runs[r].input, lag)
  /\ Set(w, [Idle EXCEPT !.pc = "limits", !.run = r,
                         !.token = Len(agent_attempts[r]) + 1,
                         !.cp = [agent_runs[r].checkpoint EXCEPT
                                   !.decisions = IF @ > 0 THEN @ - 1 ELSE 0],
                         !.settings = settings, !.beat = TRUE])
  /\ UNCHANGED world

\* A delivery is claimed and the heartbeat starts.  One that claim refuses or
\* answers from the stored result changes nothing.
Deliver(w, r, settings, lag) ==
  /\ At(w, "idle")
  /\ Store!Claim(r, agent_runs[r].tenant, agent_runs[r].input, lag)
  /\ Set(w, [Idle EXCEPT !.pc = "limits", !.run = r,
                         !.token = Len(agent_attempts[r]) + 1,
                         !.cp = agent_runs[r].checkpoint,
                         !.settings = settings, !.beat = TRUE])
  /\ UNCHANGED world

\* The ceilings are persisted; a checkpointed answer is finished as it is.
StoreLimits(w) ==
  LET me == workers[w]
  IN  /\ At(w, "limits")
      /\ Persist(w, [me.cp EXCEPT !.limits = Limits(me)],
                 IF me.cp.final # None THEN "finish" ELSE "loop")
      /\ UNCHANGED world

\* check_deadline at the head of an iteration: replay the pending tool call,
\* ask for the next decision, or stop at the decision limit.
LoopHead(w) ==
  LET me == workers[w]
      replay == [Goto(w, "decided", me.cp) EXCEPT !.decision = me.cp.tool]
  IN  /\ At(w, "loop")
      /\ GuardThen(w, {IF me.cp.pending THEN replay
                       ELSE IF me.cp.decisions < MaxDecisions
                            THEN Goto(w, "decide", me.cp)
                            ELSE Failed(w, "limit", me.cp)})
      /\ UNCHANGED world

-----------------------------------------------------------------------------
(* A model call: the decision of an iteration, or the review of its answer. *)

\* The decision is counted in the store before the model is asked.
Decide(w) ==
  LET me == workers[w]
      cp == [Settled(me.cp) EXCEPT !.decisions = @ + 1]
  IN  /\ At(w, "decide")
      /\ PersistThen(w, cp, [Goto(w, "admit", cp) EXCEPT !.call = "decide"])
      /\ UNCHANGED world

\* remaining_seconds, then the guard of reserve.
Admit(w) ==
  /\ At(w, "admit")
  /\ GuardThen(w, {Goto(w, "reserve", workers[w].cp)})
  /\ UNCHANGED world

Admitted(me, tokens) == me.cp.reserved + tokens <= MaxTokens(me)

\* Faulty variant: the reservation is not saved before the call.
ReserveUnsaved(w, tokens) ==
  LET me == workers[w]
      cp == [me.cp EXCEPT !.reserved = @ + tokens]
  IN  /\ At(w, "reserve") /\ Admitted(me, tokens)
      /\ Set(w, [Goto(w, "invoke", cp) EXCEPT !.estimate = tokens])
      /\ UNCHANGED <<stored, world>>

Reserve(w, tokens) ==
  LET me == workers[w]
      cp == [me.cp EXCEPT !.reserved = @ + tokens]
  IN  /\ At(w, "reserve")
      /\ IF Admitted(me, tokens)
         THEN PersistThen(w, cp, [Goto(w, "invoke", cp) EXCEPT !.estimate = tokens])
         ELSE Set(w, Failed(w, "limit", me.cp)) /\ UNCHANGED stored
      /\ UNCHANGED world

\* The provider is called (external).  A decision may fail with a transient
\* error, which is recoverable, or with another one; a review's errors are not.
Invoke(w) ==
  LET me == workers[w]
      at(pc, d) == [Goto(w, pc, me.cp) EXCEPT !.decision = d, !.estimate = 0]
  IN  /\ At(w, "invoke")
      /\ world' = [world EXCEPT ![me.run].spent = @ + me.estimate,
                     ![me.run].calls[me.cp.decisions] =
                        IF me.call = "decide" THEN @ + 1 ELSE @]
      /\ \/ /\ me.call = "decide"
            /\ \/ \E d \in Decisions : Set(w, at("reconcile", d))
               \/ Set(w, at("recover", "none"))
         \/ /\ me.call = "review"
            /\ \E v \in Verdicts : Set(w, at("report", v))
         \/ Set(w, Failed(w, "other", me.cp))
      /\ UNCHANGED stored

\* The reviewer's guard after the call.
Report(w) ==
  /\ At(w, "report")
  /\ GuardThen(w, {Goto(w, "reconcile", workers[w].cp)})
  /\ UNCHANGED world

\* Where the response leads.
Responded(w, cp) ==
  LET d == workers[w].decision
  IN  CASE d = "malformed"               -> Goto(w, "recover", cp)
        [] d \in {"refused", "rejected"} -> Failed(w, "other", cp)
        [] d = "accepted"                -> Goto(w, "reviewed", cp)
        [] OTHER                         -> Goto(w, "decided", cp)

\* Reported usage beyond the reservation is charged, and stops the attempt when
\* it passes the ceiling; a provider may report no usage.
Reconcile(w) ==
  LET me == workers[w]
  IN  /\ At(w, "reconcile")
      /\ \/ \E x \in Excesses :
              LET cp == [me.cp EXCEPT !.reserved = @ + x]
              IN  PersistThen(w, cp, IF cp.reserved > MaxTokens(me)
                                     THEN Failed(w, "limit", cp)
                                     ELSE Responded(w, cp))
         \/ Set(w, Responded(w, me.cp)) /\ UNCHANGED stored
      /\ UNCHANGED world

-----------------------------------------------------------------------------
(* What follows a decision.                                                *)

\* check_deadline, then: an answer is validated and kept, or reviewed first in
\* document mode; a tool call is prepared.
Decided(w) ==
  LET me == workers[w]
  IN  /\ At(w, "decided")
      /\ GuardThen(w,
           IF me.decision # "final" THEN {Goto(w, "pend", me.cp)}
           ELSE {Failed(w, "other", me.cp),
                 IF Row(w).input \in DocumentInputs
                 THEN [Goto(w, "admit", me.cp) EXCEPT !.call = "review"]
                 ELSE Goto(w, "final", me.cp)})
      /\ UNCHANGED world

\* Faulty variant: an accepted answer is kept without its receipt.
ReviewedUnsaved(w) ==
  /\ At(w, "reviewed")
  /\ GuardThen(w, {Goto(w, "final", workers[w].cp)})
  /\ UNCHANGED world

Reviewed(w) ==
  /\ At(w, "reviewed")
  /\ GuardThen(w, {Goto(w, "receipt", workers[w].cp)})
  /\ UNCHANGED world

\* The receipt names the answer that was reviewed.
StoreReceipt(w) ==
  LET me == workers[w]
  IN  /\ At(w, "receipt")
      /\ Persist(w, [me.cp EXCEPT !.receipt = me.cp.decisions], "final")
      /\ UNCHANGED world

\* Faulty variant: the decision is counted once more.
StoreFinalOffByOne(w) ==
  LET me == workers[w]
  IN  /\ At(w, "final")
      /\ Persist(w, [me.cp EXCEPT !.final = me.cp.decisions + 1], "finish")
      /\ UNCHANGED world

StoreFinal(w) ==
  LET me == workers[w]
  IN  /\ At(w, "final")
      /\ Persist(w, [me.cp EXCEPT !.final = me.cp.decisions], "finish")
      /\ UNCHANGED world

\* The checkpoint written before a tool is dispatched.
Pending(cp, decision) ==
  [cp EXCEPT !.pending = TRUE, !.tool = decision, !.replay_safe = (decision = "safe")]

\* Faulty variant: the marker is kept in memory only.
PendUnsaved(w) ==
  LET me == workers[w]
  IN  /\ At(w, "pend")
      /\ Set(w, IF me.decision = "unknown" THEN Goto(w, "recover", me.cp)
                ELSE Goto(w, "arm", Pending(me.cp, me.decision)))
      /\ UNCHANGED <<stored, world>>

\* An unknown tool has no replay policy: it is refused before the checkpoint.
Pend(w) ==
  LET me == workers[w]
  IN  /\ At(w, "pend")
      /\ IF me.decision = "unknown"
         THEN Set(w, Goto(w, "recover", me.cp)) /\ UNCHANGED stored
         ELSE Persist(w, Pending(me.cp, me.decision), "arm")
      /\ UNCHANGED world

\* remaining_seconds for the tool's budget.
Arm(w) ==
  /\ At(w, "arm")
  /\ GuardThen(w, {Goto(w, "effect", workers[w].cp)})
  /\ UNCHANGED world

\* The dispatcher validates the arguments and runs the handler (external), which
\* may fail before or after its effect.  A ValidationError is recoverable
\* wherever it comes from, a transient error only for a replay-safe tool.
Effect(w) ==
  LET me == workers[w]
      acts == world' = [world EXCEPT ![me.run].effects[me.cp.decisions] =
                          IF me.decision = "unsafe" THEN @ + 1 ELSE @]
      fails == Set(w, Goto(w, "recover", me.cp)) \/ Set(w, Failed(w, "other", me.cp))
  IN  /\ At(w, "effect")
      /\ \/ acts /\ (Set(w, Goto(w, "observed", me.cp)) \/ fails)
         \/ UNCHANGED world /\ fails
      /\ UNCHANGED stored

\* tool_remaining, called by a handler before each of its requests.
ToolGuard(w) ==
  /\ At(w, "effect")
  /\ GuardThen(w, {workers[w]})
  /\ UNCHANGED world

Observed(w) ==
  /\ At(w, "observed")
  /\ GuardThen(w, {Goto(w, "observe", workers[w].cp)})
  /\ UNCHANGED world

\* The observation is saved, the pending marker with it cleared.
Observe(w) ==
  /\ At(w, "observe")
  /\ LET cp == Settled(workers[w].cp) IN PersistThen(w, cp, NextIter(w, cp))
  /\ UNCHANGED world

\* recover spends one recovery, or lets the error end the attempt.
Recover(w) ==
  LET me == workers[w]
  IN  /\ At(w, "recover")
      /\ IF me.cp.recoveries >= MaxRecoveries(me)
         THEN Set(w, Failed(w, "other", me.cp)) /\ UNCHANGED stored
         ELSE Persist(w, [me.cp EXCEPT !.recoveries = @ + 1], "recovered")
      /\ UNCHANGED world

Recovered(w) ==
  /\ At(w, "recovered")
  /\ LET cp == Settled(workers[w].cp) IN PersistThen(w, cp, NextIter(w, cp))
  /\ UNCHANGED world

-----------------------------------------------------------------------------
(* The end of an attempt.                                                  *)

Finish(w) ==
  LET me == workers[w]
  IN  /\ At(w, "finish")
      /\ \/ /\ Store!Finish(me.run, Row(w).tenant, me.token, "succeeded", me.cp.final)
            /\ Set(w, Idle)
         \/ Set(w, Failed(w, "other", me.cp)) /\ UNCHANGED stored
      /\ UNCHANGED world

\* Faulty variant: a timeout of a tool or a model counts as the run's deadline.
FailStateTimeouts(error, cp) ==
  IF error = "cancelled" THEN "cancelled" ELSE "exhausted"

\* The state the runner reports for an error, by its local checkpoint.
FailState(error, cp) ==
  CASE error = "cancelled" -> "cancelled"
    [] error = "limit"     -> "exhausted"
    [] OTHER               -> IF Store!UnsafePending(cp) THEN "needs_review" ELSE "failed"

\* A lost lease or an sqlite error leaves the terminal state unwritten.
Fail(w) ==
  LET me == workers[w]
  IN  /\ At(w, "fail")
      /\ \/ Store!Finish(me.run, Row(w).tenant, me.token,
                         FailState(me.error, me.cp), None)
         \/ UNCHANGED stored
      /\ Set(w, Idle)
      /\ UNCHANGED world

\* SoftTimeLimitExceeded is raised in the worker's thread.
SoftLimit(w) ==
  /\ workers[w].pc \notin {"idle", "fail"}
  /\ Set(w, Failed(w, "other", workers[w].cp))
  /\ UNCHANGED <<stored, world>>

\* The process dies, or is killed by the hard time limit.
Crash(w) ==
  /\ ~At(w, "idle")
  /\ Set(w, Idle)
  /\ UNCHANGED <<stored, world>>

\* Faulty variant: the heartbeat does not look at the deadline.
HeartbeatForever(w) ==
  LET me == workers[w]
  IN  /\ me.beat
      /\ \/ Store!Guard(me.run, Row(w).tenant, me.token) /\ UNCHANGED workers
         \/ /\ \E e \in StoreErrors(w) : Set(w, [me EXCEPT !.beat = FALSE, !.fault = e])
            /\ UNCHANGED stored
      /\ UNCHANGED world

\* The heartbeat thread renews until the deadline has passed or a renewal
\* raises; the error waits for the next guard.
Heartbeat(w) ==
  LET me == workers[w]
  IN  /\ me.beat
      /\ \/ /\ Store!Guard(me.run, Row(w).tenant, me.token)
            /\ Set(w, [me EXCEPT !.beat = Row(w).deadline > 0])
         \/ /\ \E e \in StoreErrors(w) : Set(w, [me EXCEPT !.beat = FALSE, !.fault = e])
            /\ UNCHANGED stored
      /\ UNCHANGED world

-----------------------------------------------------------------------------
WorkerStep(w) ==
  \/ \E r \in RunIds, s \in Settings, lag \in 0 .. LockWait : Deliver(w, r, s, lag)
  \/ StoreLimits(w) \/ LoopHead(w)
  \/ Decide(w) \/ Admit(w) \/ Invoke(w) \/ Report(w) \/ Reconcile(w)
  \/ \E t \in Estimates : Reserve(w, t)
  \/ Decided(w) \/ Reviewed(w) \/ StoreReceipt(w) \/ StoreFinal(w)
  \/ Pend(w) \/ Arm(w) \/ Effect(w) \/ ToolGuard(w) \/ Observed(w) \/ Observe(w)
  \/ Recover(w) \/ Recovered(w)
  \/ Finish(w) \/ Fail(w) \/ SoftLimit(w) \/ Crash(w) \/ Heartbeat(w)

\* The API's calls, by any caller at any time; Submission models publication,
\* which the workers never look at.
ApiStep(r) ==
  /\ \E n \in Tenants :
       \/ \E i \in Inputs, k \in Keys \cup {NoKey} : Store!Create(r, n, i, k)
       \/ Store!GetCancelled(r, n)
       \/ Store!Cancel(r, n)
       \/ Store!Resume(r, n)
  /\ UNCHANGED <<workers, world>>

\* The two later blocks of a get.
GetBlock(r) ==
  /\ Store!GetReview(r) \/ Store!GetDeadline(r)
  /\ UNCHANGED <<workers, world>>

Tick == Store!Tick /\ UNCHANGED <<workers, world>>

Next ==
  \/ \E w \in Workers : WorkerStep(w)
  \/ \E r \in RunIds : ApiStep(r) \/ GetBlock(r)
  \/ Tick

Spec == Init /\ [][Next]_vars

\* A client that polls a run until it is no longer running.
Poll(r) ==
  /\ Store!GetCancelled(r, agent_runs[r].tenant) \/ Store!GetReview(r) \/ Store!GetDeadline(r)
  /\ UNCHANGED <<workers, world>>

\* Time passes and clients poll; nothing is assumed of the workers.
FairSpec == Spec /\ WF_vars(Tick) /\ \A r \in RunIds : WF_vars(Poll(r))

-----------------------------------------------------------------------------
(* Correctness.                                                            *)

\* Every variable has its type: no store call, crash or error path leaves a
\* worker or a checkpoint document malformed.
TypeOK ==
  /\ Store!TypeOK
  /\ workers \in [Workers -> Worker]
  /\ world \in [RunIds -> [calls : [Steps -> Nat], effects : [Steps -> Nat], spent : Nat]]

\* The worker holds the token the store knows as the current one.
Current(w) ==
  /\ workers[w].pc \notin {"idle", "fail"}
  /\ Row(w).state = "running" /\ Row(w).token = workers[w].token

\* The local state of the attempt in charge equals the stored checkpoint
\* whenever its loop goes on: a failed or fenced save never leaves the loop
\* working from progress the store does not have.
LocalMirrorsStored ==
  \A w \in Workers : Current(w) => workers[w].cp = Row(w).checkpoint

\* The model is asked at most once for each counted decision, over all attempts,
\* takeovers and late workers of a run, so max_decisions bounds the calls.
OneCallPerDecision ==
  \A r \in RunIds, s \in Steps : world[r].calls[s] <= 1

\* A replay-unsafe tool acts at most once for a decision, whoever crashes, stalls
\* or takes over in between.  When it acts, the store holds its decision as the
\* last one counted and its call as pending, so that whoever reads the row next
\* knows of it; and the model has not been asked for any later decision, by this
\* or any other attempt, while the outcome was open.
UnsafeEffectsInOrder ==
  [][\A r \in RunIds, s \in Steps :
       world'[r].effects[s] > world[r].effects[s] =>
         /\ world[r].effects[s] = 0
         /\ \A t \in Steps : t > s => world[r].calls[t] = 0
         /\ agent_runs[r].checkpoint.decisions = s
         /\ Store!UnsafePending(agent_runs[r].checkpoint)]_vars

\* Every model call made, by whichever attempt and however late, was paid for
\* from the stored reservation and within the ceiling of the first attempt.
SpendIsReserved ==
  \A r \in RunIds : LET cp == agent_runs[r].checkpoint IN
    /\ world[r].spent <= cp.reserved
    /\ world[r].spent > 0 => world[r].spent <= cp.limits.tokens

\* What a run has used up is never given back: decisions, recoveries and
\* reservations only grow, the first ceilings and the first final answer stay,
\* through crashes, takeovers and resumes.
BudgetsNeverRewind ==
  [][\A r \in RunIds :
       LET old == agent_runs[r].checkpoint new == agent_runs'[r].checkpoint IN
       /\ old.decisions <= new.decisions /\ old.recoveries <= new.recoveries
       /\ old.reserved <= new.reserved
       /\ old.limits # NoLimits => new.limits = old.limits
       /\ old.final # None => new.final = old.final]_vars

\* The result of a run is the one answer its checkpoint holds, the last decision
\* counted, and a document answer carries the receipt of its own review.
ResultIsCheckpointed ==
  \A r \in RunIds : agent_runs[r].state = "succeeded" =>
    LET cp == agent_runs[r].checkpoint IN
    /\ agent_runs[r].result = cp.final /\ cp.final = cp.decisions
    /\ agent_runs[r].input \in DocumentInputs => cp.receipt = cp.final

\* A run is reported cancelled only when someone asked for it, and exhausted
\* only for a spent limit: decisions, tokens or the deadline.
EndsForAReason ==
  \A r \in RunIds : LET row == agent_runs[r] IN
    /\ row.state = "cancelled" => row.cancel
    /\ row.state = "exhausted" =>
         \/ row.deadline <= 0
         \/ row.checkpoint.decisions = MaxDecisions
         \/ /\ row.checkpoint.limits # NoLimits
            /\ \E s \in Settings, t \in Estimates \cup {0} : row.checkpoint.reserved + t
                 > Tighter(s.tokens, row.checkpoint.limits.tokens)

\* No run stays "running" for ever: cancelled, abandoned, stalled or worked on
\* without end, it leaves the state, because no path renews a lease for ever
\* past the deadline.
RunningEnds ==
  \A r \in RunIds : agent_runs[r].state = "running" ~> agent_runs[r].state # "running"

\* A replay-unsafe tool acted for decision s of run r and then failed.
UnsafeFailure(r, s) ==
  \E w \in Workers :
    /\ Current(w) /\ workers[w].pc = "recover" /\ workers[w].decision = "unsafe"
    /\ workers[w].run = r /\ workers[w].cp.decisions = s /\ world[r].effects[s] > 0

\* What docs/architecture/runtime-reliability.md says: "unsafe tool failures
\* stop execution".  After such a failure the model is never asked for a later
\* decision of the run.  While the run has a recovery left, a ValidationError of
\* the tool's handler is taken for an invalid argument: the recovery is granted,
\* the pending marker cleared, and the loop goes on to the next decision.
UnsafeFailuresStop ==
  \A r \in RunIds, s \in Steps :
    [](UnsafeFailure(r, s) => [](\A t \in Steps : t > s => world[r].calls[t] = 0))
=============================================================================
