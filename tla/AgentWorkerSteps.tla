-------------------------- MODULE AgentWorkerSteps --------------------------
(***************************************************************************)
(* The inductive invariant of the workers, and the kinds of step they      *)
(* take.  Every action of AgentWorker is shown to be of one of six         *)
(* kinds, so that AgentWorkerProofs treats each layer of the invariant     *)
(* kind by kind and not action by action.                                  *)
(***************************************************************************)
EXTENDS AgentWorker, FiniteSetTheorems, TLAPS

\* The theorems of the run store, about the store the workers share.
StoreProofs == INSTANCE RunStoreProofs WITH Results <- Steps, NoResult <- None

-----------------------------------------------------------------------------
(* The inductive invariant, in four layers.  The last three rest on the    *)
(* first, and not on each other.                                           *)

\* A checkpoint document, stored or local.
CpOK(cp) ==
  /\ cp \in Checkpoints /\ cp.decisions <= MaxDecisions
  /\ cp.pending => /\ cp.decisions > 0 /\ cp.tool \in {"safe", "unsafe"}
                   /\ cp.replay_safe <=> cp.tool = "safe"
  /\ cp.final # None => cp.final = cp.decisions

\* What a worker knows of itself, whether or not it still holds its lease.
LocalOK(me) ==
  /\ me \in Worker /\ CpOK(me.cp) /\ me.fault # "limit"
  /\ me.pc = "idle" => ~me.beat
  /\ me.pc \in {"limits", "loop"} => ~Store!UnsafePending(me.cp)
  /\ me.pc \notin {"idle", "limits", "finish", "fail"} =>
       me.cp.final = None /\ me.cp.limits # NoLimits
  /\ me.pc = "finish" => me.cp.final # None
  /\ me.pc = "decide" => me.cp.decisions < MaxDecisions
  /\ me.pc \notin {"idle", "limits", "loop", "decide", "finish", "fail"} => me.cp.decisions > 0
  /\ me.pc = "report" => me.decision \in Verdicts
  /\ me.pc = "reconcile" => me.decision \in Decisions \cup Verdicts
  /\ me.pc = "decided" => me.decision \in {"final", "safe", "unsafe", "unknown"}
  /\ me.pc = "pend" => me.decision \in {"safe", "unsafe", "unknown"}
  /\ me.pc \in {"arm", "effect"} => me.cp.pending /\ me.cp.tool = me.decision

Busy(w) == ~At(w, "idle")

\* Tokens were issued by the store, each to one worker.
TokensIssued == \A w \in Workers : Busy(w) => workers[w].token \in 1 .. Row(w).attempts

TokensUnique ==
  \A w, v \in Workers :
    /\ w # v /\ Busy(w) /\ Busy(v)
    /\ workers[w].run = workers[v].run
    => workers[w].token # workers[v].token

\* First layer: the types, and the local copy of the attempt in charge.
Copies ==
  /\ Store!IInv /\ TypeOK
  /\ \A w \in Workers : LocalOK(workers[w])
  /\ \A r \in RunIds :
       /\ CpOK(agent_runs[r].checkpoint)
       /\ agent_runs[r].state = "absent" => agent_runs[r].checkpoint = EmptyCheckpoint
  /\ TokensIssued /\ TokensUnique /\ LocalMirrorsStored

\* A worker that has counted a decision and not yet asked the model for it, or
\* got an unsafe call for it and not yet made it.
Unasked(me) == me.pc \in {"admit", "reserve", "invoke"} /\ me.call = "decide"
Undone(me)  == me.pc \in {"reconcile", "decided", "pend", "arm", "effect"} /\ me.decision = "unsafe"
Fresh(me)   == Unasked(me) \/ Undone(me)

\* About to run an unsafe tool.
Acting(me) == me.pc \in {"arm", "effect"} /\ me.decision = "unsafe"

FreshIsCounted ==
  \A w \in Workers :
    LET me == workers[w] cp == Row(w).checkpoint IN
    /\ Fresh(me) => me.cp.decisions <= cp.decisions /\ world[me.run].effects[me.cp.decisions] = 0
    /\ Unasked(me) => world[me.run].calls[me.cp.decisions] = 0

FreshIsUnique ==
  \A w, v \in Workers :
    /\ w # v /\ workers[w].run = workers[v].run
    /\ Fresh(workers[w]) /\ Fresh(workers[v])
    => workers[w].cp.decisions # workers[v].cp.decisions

\* The store knows of an unsafe call about to be made, and no later attempt exists.
ActingIsStored ==
  \A w \in Workers : Acting(workers[w]) =>
    Row(w).checkpoint = workers[w].cp /\ Row(w).attempts = workers[w].token

\* What left the process belongs to a counted decision.
WorldIsCounted ==
  \A r \in RunIds, s \in Steps :
    world[r].calls[s] > 0 \/ world[r].effects[s] > 0 => s <= agent_runs[r].checkpoint.decisions

\* Second layer: decisions and their consequences.
Order ==
  /\ FreshIsCounted /\ FreshIsUnique /\ ActingIsStored /\ WorldIsCounted /\ OneCallPerDecision

\* Why a run may end as exhausted.
Overdrawn(cp) ==
  /\ cp.limits # NoLimits
  /\ \E s \in Settings, t \in Estimates \cup {0} :
       cp.reserved + t > Tighter(s.tokens, cp.limits.tokens)

Spent(row) ==
  row.deadline <= 0 \/ row.checkpoint.decisions = MaxDecisions \/ Overdrawn(row.checkpoint)

\* The errors a worker carries are true of its run, and the answer to a document
\* question it is about to keep was reviewed.
WorkerEnds(me, row) ==
  /\ "cancelled" \in {me.error, me.fault} => row.cancel
  /\ me.pc = "fail" /\ me.error = "limit" /\ row.state = "running" /\ row.token = me.token
     => Spent(row)
  /\ me.pc = "final" /\ row.input \in DocumentInputs => me.cp.receipt = me.cp.decisions

\* A kept answer was reviewed, and a run ended for the reason it gives.
RowEnds(row) ==
  LET cp == row.checkpoint IN
  /\ cp.final # None /\ row.input \in DocumentInputs => cp.receipt = cp.final
  /\ row.state = "succeeded" =>
       /\ row.result = cp.final /\ cp.final = cp.decisions
       /\ row.input \in DocumentInputs => cp.receipt = cp.final
  /\ row.state = "cancelled" => row.cancel
  /\ row.state = "exhausted" => Spent(row)

\* Third layer: how runs end.
Ends ==
  /\ \A w \in Workers : WorkerEnds(workers[w], Row(w))
  /\ \A r \in RunIds : RowEnds(agent_runs[r])

\* The tokens a worker has reserved and not yet spent, as the numbers of the
\* units of the stored reservation, and those of all workers of a run.
Units(me, r) ==
  IF me.pc = "invoke" /\ me.run = r
  THEN me.cp.reserved - me.estimate + 1 .. me.cp.reserved ELSE {}

Held(r) == UNION {Units(workers[w], r) : w \in Workers}

UnitsAreDisjoint ==
  \A r \in RunIds, w, v \in Workers : w # v => Units(workers[w], r) \cap Units(workers[v], r) = {}

\* Fourth layer: what is spent or about to be spent is covered.
Covered ==
  /\ UnitsAreDisjoint
  /\ \A w \in Workers : At(w, "invoke") =>
       /\ workers[w].estimate <= workers[w].cp.reserved
       /\ workers[w].cp.reserved <= Row(w).checkpoint.reserved
  /\ \A r \in RunIds :
       LET cp == agent_runs[r].checkpoint used == world[r].spent + Cardinality(Held(r)) IN
       /\ used <= cp.reserved
       /\ used > 0 => cp.limits # NoLimits /\ used <= cp.limits.tokens

IInv == Copies /\ Order /\ Ends /\ Covered

-----------------------------------------------------------------------------
(* The store behind the workers.                                           *)

\* The store's assumptions hold of the constants the workers hand to it.
LEMMA StoreAssumed == StoreProofs!StoreConstants
<1>1. None \notin Steps
  BY WorkerConstants DEF None, Steps
<1>2. EmptyCheckpoint \in Checkpoints /\ ~EmptyCheckpoint.pending
  BY DEF EmptyCheckpoint, Checkpoints, None
<1>3. \A c \in Checkpoints : c.pending \in BOOLEAN /\ c.replay_safe \in BOOLEAN
  BY DEF Checkpoints
<1> QED
  BY <1>1, <1>2, <1>3, StoreAssumption DEF StoreProofs!StoreConstants

\* The store of this module is the store the theorems are about.
LEMMA SameStore ==
  /\ Store!Init <=> StoreProofs!Init
  /\ Store!Next <=> StoreProofs!Next
  /\ Store!IInv <=> StoreProofs!IInv
  /\ Store!IInv' <=> StoreProofs!IInv'
  BY DEF Store!TERMINAL, StoreProofs!TERMINAL, Store!FinishStates, StoreProofs!FinishStates,
         Store!States, StoreProofs!States, Store!NoToken, StoreProofs!NoToken, Store!NoTime,
         StoreProofs!NoTime, Store!Run, StoreProofs!Run, Store!Attempt, StoreProofs!Attempt,
         Store!GetTxs, StoreProofs!GetTxs, Store!NewRun, StoreProofs!NewRun, Store!Absent,
         StoreProofs!Absent, Store!Init, StoreProofs!Init, Store!Exists, StoreProofs!Exists,
         Store!Unlocked, StoreProofs!Unlocked, Store!Visible, StoreProofs!Visible,
         Store!UnsafePending, StoreProofs!UnsafePending, Store!Holders, StoreProofs!Holders,
         Store!SetAttempt, StoreProofs!SetAttempt, Store!Create, StoreProofs!Create,
         Store!AttemptsLeft, StoreProofs!AttemptsLeft, Store!LeaseLive, StoreProofs!LeaseLive,
         Store!ClaimRefused, StoreProofs!ClaimRefused, Store!FirstDeadline,
         StoreProofs!FirstDeadline, Store!Claimed, StoreProofs!Claimed, Store!Claim,
         StoreProofs!Claim, Store!Owned, StoreProofs!Owned, Store!Guard, StoreProofs!Guard,
         Store!Checkpoint, StoreProofs!Checkpoint, Store!Outcome, StoreProofs!Outcome,
         Store!Finished, StoreProofs!Finished, Store!Finish, StoreProofs!Finish,
         Store!SettleCancelled, StoreProofs!SettleCancelled, Store!SettleReview,
         StoreProofs!SettleReview, Store!SettleDeadline, StoreProofs!SettleDeadline,
         Store!Settle, StoreProofs!Settle, Store!GetCancelled, StoreProofs!GetCancelled,
         Store!GetReview, StoreProofs!GetReview, Store!GetDeadline, StoreProofs!GetDeadline,
         Store!MarkPublished, StoreProofs!MarkPublished, Store!Cancel, StoreProofs!Cancel,
         Store!ResumeRefused, StoreProofs!ResumeRefused, Store!Resume, StoreProofs!Resume,
         Store!RunDown, StoreProofs!RunDown, Store!Tick, StoreProofs!Tick, Store!Tokens,
         StoreProofs!Tokens, Store!OwnerStep, StoreProofs!OwnerStep, Store!ApiStep,
         StoreProofs!ApiStep, Store!Next, StoreProofs!Next, Store!TypeOK, StoreProofs!TypeOK,
         Store!RowOK, StoreProofs!RowOK, Store!IInv, StoreProofs!IInv

\* What holds of the store's rows holds here as long as every step is a step of
\* the store or leaves it alone.
LEMMA StoreInductive ==
  /\ Store!Init => Store!IInv
  /\ Store!IInv /\ (Store!Next \/ UNCHANGED stored) => Store!IInv'
<1>1. StoreProofs!IInv /\ [StoreProofs!Next]_(StoreProofs!vars) => StoreProofs!IInv'
  BY StoreAssumed, StoreProofs!NextIInv
<1>2. StoreProofs!Init => StoreProofs!IInv
  BY StoreAssumed, StoreProofs!InitIInv
<1>3. StoreProofs!vars = stored
  BY DEF StoreProofs!vars, stored
<1>4. StoreProofs!vars' = stored'
  BY DEF StoreProofs!vars, stored
<1> QED
  BY <1>1, <1>2, <1>3, <1>4, SameStore

\* What the workers need of a row: its attempt counter is the newest token.
LEMMA StoreRow ==
  ASSUME Store!IInv, NEW r \in RunIds
  PROVE  /\ agent_runs[r] \in Store!Run /\ agent_runs \in [RunIds -> Store!Run]
         /\ agent_runs[r].attempts = Len(agent_attempts[r])
         /\ agent_runs[r].attempts \in Nat
         /\ agent_runs[r].state = "running" => agent_runs[r].token = agent_runs[r].attempts
         /\ agent_runs[r].state = "absent" => agent_runs[r].attempts = 0
         /\ agent_runs[r].attempts = 0 => agent_runs[r].deadline = Store!NoTime
  BY DEF Store!IInv, Store!TypeOK, Store!RowOK, Store!Run

\* What a call of somebody else leaves of a row.
Kept(r) ==
  LET row == agent_runs[r] new == agent_runs'[r] IN
  /\ new.checkpoint = row.checkpoint /\ new.attempts = row.attempts
  /\ row.cancel => new.cancel
  /\ new.input = row.input \/ row.state = "absent"
  /\ new.state = "running" => row.state = "running" /\ new.token = row.token
  /\ new.state = "absent" => row.state = "absent"
  /\ new.deadline <= row.deadline

\* How it may end a run.
EndsWell(r) ==
  LET row == agent_runs[r] new == agent_runs'[r] IN
  /\ new.state = "succeeded" => row.state = "succeeded" /\ new.result = row.result
  /\ new.state = "exhausted" => row.state = "exhausted" \/ new.deadline <= 0
  /\ new.state = "cancelled" => row.state = "cancelled" \/ new.cancel

\* A row nobody changed is kept.
LEMMA Untouched ==
  ASSUME Store!IInv, NEW r \in RunIds, agent_runs'[r] = agent_runs[r]
  PROVE  Kept(r) /\ EndsWell(r)
  BY StoreRow DEF Kept, EndsWell, Store!Run

\* create inserts a row where there was none.
LEMMA CreateRow ==
  ASSUME Store!IInv, NEW r \in RunIds, NEW n \in Tenants, NEW i \in Inputs,
         NEW k \in Keys \cup {NoKey}, Store!Create(r, n, i, k), NEW q \in RunIds,
         agent_runs[r].state = "absent" => agent_runs[r].checkpoint = EmptyCheckpoint
  PROVE  Kept(q) /\ EndsWell(q)
<1> DEFINE new == Store!NewRun(n, i, k, "queued")
<1>1. agent_runs' = [agent_runs EXCEPT ![r] = new] /\ agent_runs[r].state = "absent"
  BY DEF Store!Create, Store!Exists
<1>2. CASE q # r
  BY <1>1, <1>2, StoreRow, Untouched
<1>3. CASE q = r
  <2>1. /\ new.state = "queued" /\ new.checkpoint = EmptyCheckpoint /\ new.attempts = 0
        /\ new.deadline = Store!NoTime
    BY DEF Store!NewRun
  <2>2. agent_runs'[r] = new
    BY <1>1, StoreRow
  <2>3. ~agent_runs[r].cancel
    BY <1>1 DEF Store!IInv, Store!RowOK
  <2>4. agent_runs[r].deadline = Store!NoTime /\ agent_runs[r].deadline \in Int
    BY <1>1, StoreRow DEF Store!Run
  <2> HIDE DEF new
  <2> QED
    BY <1>1, <1>3, <2>1, <2>2, <2>3, <2>4, StoreRow DEF Kept, EndsWell
<1> QED
  BY <1>2, <1>3

\* resume queues the run again and keeps its checkpoint.
LEMMA ResumeRow ==
  ASSUME Store!IInv, NEW r \in RunIds, NEW n \in Tenants, Store!Resume(r, n), NEW q \in RunIds
  PROVE  Kept(q) /\ EndsWell(q)
<1>1. agent_runs' = [agent_runs EXCEPT ![r] =
              [agent_runs[r] EXCEPT !.state = "queued", !.token = Store!NoToken,
                                    !.lease = Store!NoTime, !.published = FALSE]]
  BY StoreRow DEF Store!Resume
<1> QED
  BY <1>1, StoreRow DEF Kept, EndsWell, Store!Run

\* cancel ends an idle run and marks a leased one.
LEMMA CancelRow ==
  ASSUME Store!IInv, NEW r \in RunIds, NEW n \in Tenants, Store!Cancel(r, n), NEW q \in RunIds
  PROVE  Kept(q) /\ EndsWell(q)
<1> DEFINE s == IF Store!LeaseLive(agent_runs[r], 0) THEN "running" ELSE "cancelled"
<1>1. agent_runs' = [agent_runs EXCEPT ![r] = [agent_runs[r] EXCEPT !.cancel = TRUE, !.state = s]]
  BY StoreRow DEF Store!Cancel
<1>2. s \in {"running", "cancelled"} /\ (s = "running" => agent_runs[r].state = "running")
  BY DEF Store!LeaseLive
<1> HIDE DEF s
<1> QED
  BY <1>1, <1>2, StoreRow DEF Kept, EndsWell, Store!Run

\* The reconciliation of get.
LEMMA GetRow ==
  ASSUME Store!IInv, NEW r \in RunIds, NEW q \in RunIds,
         \/ \E n \in Tenants : Store!GetCancelled(r, n)
         \/ Store!GetReview(r)
         \/ Store!GetDeadline(r)
  PROVE  Kept(q) /\ EndsWell(q)
<1> DEFINE row == agent_runs[r]
<1>1. PICK s : /\ Store!Settle(r, s)
               /\ \/ s = row.state
                  \/ s = "cancelled" /\ row.cancel
                  \/ s = "needs_review"
                  \/ s = "exhausted" /\ row.deadline <= 0
  BY DEF Store!SettleCancelled, Store!SettleReview, Store!SettleDeadline,
         Store!GetCancelled, Store!GetReview, Store!GetDeadline
<1>2. CASE s = row.state
  BY <1>1, <1>2, Untouched DEF Store!Settle
<1>3. CASE s # row.state
  <2>1. agent_runs' = [agent_runs EXCEPT ![r] = [agent_runs[r] EXCEPT
                            !.state = s, !.token = Store!NoToken, !.lease = Store!NoTime]]
    BY <1>1, <1>3, StoreRow DEF Store!Settle
  <2> QED
    BY <1>1, <1>3, <2>1, StoreRow DEF Kept, EndsWell, Store!Run
<1> QED
  BY <1>2, <1>3

\* The clock only runs deadlines and leases down.
LEMMA TickRow ==
  ASSUME Store!IInv, Store!Tick, NEW q \in RunIds
  PROVE  Kept(q) /\ EndsWell(q)
<1> DEFINE d == Store!RunDown(agent_runs[q].deadline)
<1>1. agent_runs'[q] = [agent_runs[q] EXCEPT !.lease = Store!RunDown(agent_runs[q].lease),
                                             !.deadline = d]
  BY StoreRow DEF Store!Tick, Store!Run
<1>2. agent_runs[q].deadline \in Int
  BY StoreRow DEF Store!Run
<1>3. d <= agent_runs[q].deadline
  BY <1>2 DEF Store!RunDown
<1> HIDE DEF d
<1> QED
  BY <1>1, <1>3, StoreRow DEF Kept, EndsWell, Store!Run

\* guard renews the lease of the attempt in charge, and nothing else.
LEMMA GuardRow ==
  ASSUME Store!IInv, NEW r \in RunIds, NEW n, NEW token, Store!Guard(r, n, token), NEW q \in RunIds
  PROVE  Kept(q) /\ EndsWell(q)
<1>1. agent_runs' = [agent_runs EXCEPT ![r] = [agent_runs[r] EXCEPT !.lease = Lease]]
  BY StoreRow DEF Store!Guard
<1> QED
  BY <1>1, StoreRow DEF Kept, EndsWell, Store!Run

\* The end of an attempt: the run ends as reported, or as cancelled.
LEMMA FinishRow ==
  ASSUME Store!IInv, NEW r \in RunIds, NEW n, NEW token, NEW s \in Store!FinishStates, NEW res,
         Store!Finish(r, n, token, s, res), NEW q \in RunIds
  PROVE  /\ Kept(q) /\ (q # r => EndsWell(q))
         /\ \/ agent_runs'[r].state = "cancelled" /\ agent_runs'[r].cancel
            \/ agent_runs'[r].state = s /\ agent_runs'[r].result = res
         /\ agent_runs[r].state = "running" /\ agent_runs[r].token = token
<1> DEFINE row == agent_runs[r]
           out == Store!Outcome(row, s, res)
           new == Store!Finished(row, out)
<1>1. out[1] \in Store!FinishStates
  BY DEF Store!Outcome, Store!FinishStates
<1>2. agent_runs' = [agent_runs EXCEPT ![r] = new] /\ row.state = "running" /\ row.token = token
  BY DEF Store!Finish, Store!Owned, Store!LeaseLive
<1>3. \/ out[1] = "cancelled" /\ row.cancel
      \/ out[1] = s /\ out[2] = res
  BY DEF Store!Outcome
<1> HIDE DEF out
<1>4. /\ new.state = out[1] /\ new.result = out[2] /\ new.checkpoint = row.checkpoint
      /\ new.attempts = row.attempts /\ new.cancel = row.cancel /\ new.input = row.input
      /\ new.deadline = row.deadline
  BY StoreRow DEF Store!Finished, Store!Run
<1>5. new.state \notin {"running", "absent"}
  BY <1>1, <1>4 DEF Store!FinishStates
<1> HIDE DEF new
<1>6. CASE q # r
  BY <1>2, <1>3, <1>4, <1>6, StoreRow, Untouched
<1>7. CASE q = r
  BY <1>2, <1>3, <1>4, <1>5, <1>7, StoreRow DEF Kept, Store!Run
<1> QED
  BY <1>2, <1>6, <1>7

\* A claim hands out the next token of a run without an open unsafe call.
LEMMA ClaimRow ==
  ASSUME Store!IInv, NEW r \in RunIds, NEW n, NEW i, NEW lag, Store!Claim(r, n, i, lag)
  PROVE  LET row == agent_runs[r] new == agent_runs'[r] IN
         /\ new.checkpoint = row.checkpoint /\ new.attempts = row.attempts + 1
         /\ new.cancel = row.cancel /\ new.input = row.input
         /\ new.state = "running" /\ new.token = row.attempts + 1
         /\ new.result = row.result
         /\ row.state # "absent" /\ ~Store!UnsafePending(row.checkpoint)
         /\ \A q \in RunIds : q # r => agent_runs'[q] = agent_runs[q]
<1> DEFINE row == agent_runs[r]
           new == Store!Claimed(row, Len(agent_attempts[r]) + 1, lag)
<1>1. agent_runs' = [agent_runs EXCEPT ![r] = new]
  BY DEF Store!Claim
<1>2. row.state # "absent" /\ ~Store!UnsafePending(row.checkpoint)
  BY DEF Store!Claim, Store!ClaimRefused, Store!Visible, Store!Exists
<1>3. /\ new.checkpoint = row.checkpoint /\ new.attempts = row.attempts + 1
      /\ new.cancel = row.cancel /\ new.input = row.input /\ new.state = "running"
      /\ new.token = row.attempts + 1 /\ new.result = row.result
  BY StoreRow DEF Store!Claimed, Store!Run
<1> HIDE DEF new
<1> QED
  BY <1>1, <1>2, <1>3, StoreRow

\* A save replaces the checkpoint of a run whose newest token it names.
LEMMA CheckpointRow ==
  ASSUME Store!IInv, NEW r \in RunIds, NEW n, NEW token, NEW cp, Store!Checkpoint(r, n, token, cp)
  PROVE  LET row == agent_runs[r] new == agent_runs'[r] IN
         /\ new.checkpoint = cp /\ new.attempts = row.attempts
         /\ new.cancel = row.cancel /\ new.input = row.input
         /\ new.state = "running" /\ new.token = token /\ new.deadline = row.deadline
         /\ row.state = "running" /\ row.token = token /\ token = row.attempts
         /\ \A q \in RunIds : q # r => agent_runs'[q] = agent_runs[q]
<1>1. agent_runs' = [agent_runs EXCEPT ![r] = [agent_runs[r] EXCEPT !.checkpoint = cp,
                                                                    !.lease = Lease]]
  BY StoreRow DEF Store!Checkpoint
<1>2. agent_runs[r].state = "running" /\ agent_runs[r].token = token
  BY DEF Store!Checkpoint, Store!Owned, Store!LeaseLive
<1> QED
  BY <1>1, <1>2, StoreRow DEF Store!Run

-----------------------------------------------------------------------------
(* The kinds of step a worker takes.                                       *)

\* The worker stays in its attempt.
Goes(me, new) ==
  /\ LocalOK(new) /\ me.pc # "idle" /\ new.pc # "idle"
  /\ new.run = me.run /\ new.token = me.token
  /\ me.pc = "fail" => new.pc = "fail"

\* It goes on with the checkpoint it has, or gives up.
MoveOK(w, new) ==
  LET me == workers[w] IN
  /\ Goes(me, new)
  /\ new.pc = "fail" \/ new.cp = me.cp
  /\ Fresh(new) => Fresh(me)
  /\ Unasked(new) => Unasked(me)
  /\ Acting(new) => Acting(me)
  /\ new.pc = "final" => me.pc = "final" \/ Row(w).input \notin DocumentInputs
  /\ new.pc = "invoke" => me.pc = "invoke" /\ new.estimate = me.estimate
  /\ "cancelled" \in {new.error, new.fault} =>
       "cancelled" \in {me.error, me.fault} \/ Row(w).cancel
  /\ new.pc = "fail" /\ new.error = "limit" =>
       \/ me.pc = "fail" /\ me.error = "limit"
       \/ me.pc # "fail" /\ (Current(w) => Spent(Row(w)))

Moves(w, new) ==
  /\ MoveOK(w, new) /\ Set(w, new) /\ UNCHANGED world
  /\ UNCHANGED stored \/ Store!Guard(workers[w].run, Row(w).tenant, workers[w].token)

\* What a run has used up is never given back.
Grows(old, new) ==
  /\ old.decisions <= new.decisions /\ old.recoveries <= new.recoveries
  /\ old.reserved <= new.reserved
  /\ old.limits # NoLimits => new.limits = old.limits
  /\ old.final # None => new.final = old.final

\* It has saved a new checkpoint.
SaveOK(w, cp, new) ==
  LET me == workers[w] IN
  /\ Goes(me, new) /\ me.pc # "fail" /\ new.cp = cp /\ Grows(me.cp, cp)
  /\ Fresh(new) => \/ cp.decisions = me.cp.decisions + 1
                   \/ Fresh(me) /\ cp.decisions = me.cp.decisions
  /\ Unasked(new) => \/ cp.decisions = me.cp.decisions + 1
                     \/ Unasked(me) /\ cp.decisions = me.cp.decisions
  /\ new.pc = "final" => cp.receipt = cp.decisions
  /\ cp.final # None => /\ cp.receipt = me.cp.receipt
                        /\ \/ cp.final = me.cp.final
                           \/ me.pc = "final" /\ cp.final = me.cp.decisions
  /\ new.pc = "invoke" => /\ cp.reserved = me.cp.reserved + new.estimate
                          /\ cp.limits # NoLimits /\ cp.reserved <= cp.limits.tokens
  /\ new.error \in {me.error, "limit", "other"} /\ new.fault \in {me.fault, "none"}
  /\ new.pc = "fail" /\ new.error = "limit" => Overdrawn(cp)

Saves(w, cp, new) ==
  /\ SaveOK(w, cp, new) /\ Set(w, new) /\ UNCHANGED world
  /\ Store!Checkpoint(workers[w].run, Row(w).tenant, workers[w].token, cp)

\* It has called the model, or a tool that may have acted.
AskOK(me, new) ==
  /\ Goes(me, new) /\ me.pc = "invoke" /\ new.cp = me.cp
  /\ ~Unasked(new) /\ (Undone(new) => Unasked(me))
  /\ new.pc \notin {"arm", "effect", "final", "invoke"}
  /\ new.error \in {me.error, "other"} /\ new.fault \in {me.fault, "none"}
  /\ new.pc = "fail" => new.error = "other"

Asks(w, new) ==
  LET me == workers[w] IN
  /\ AskOK(me, new) /\ Set(w, new) /\ UNCHANGED stored
  /\ world' = [world EXCEPT ![me.run].spent = @ + me.estimate,
                            ![me.run].calls[me.cp.decisions] =
                               IF me.call = "decide" THEN @ + 1 ELSE @]

ActOK(me, new) ==
  /\ Goes(me, new) /\ me.pc = "effect" /\ new.cp = me.cp
  /\ new.pc \in {"observed", "recover", "fail"}
  /\ new.error \in {me.error, "other"} /\ new.fault \in {me.fault, "none"}
  /\ new.pc = "fail" => new.error = "other"

Acts(w, new) ==
  LET me == workers[w] IN
  /\ ActOK(me, new) /\ Set(w, new) /\ UNCHANGED stored
  /\ world' = [world EXCEPT ![me.run].effects[me.cp.decisions] =
                               IF me.decision = "unsafe" THEN @ + 1 ELSE @]

\* It has ended its attempt, with or without a final report.
Reports(w, s, res) ==
  LET me == workers[w] IN
  /\ Busy(w) /\ s \in Store!FinishStates
  /\ Store!Finish(me.run, Row(w).tenant, me.token, s, res)
  /\ \/ s = "succeeded" /\ me.pc = "finish" /\ res = me.cp.final
     \/ me.pc = "fail" /\ s = FailState(me.error, me.cp) /\ s # "succeeded" /\ res = None

Stops(w) ==
  /\ Busy(w) /\ Set(w, Idle) /\ UNCHANGED world
  /\ UNCHANGED stored \/ \E s, res : Reports(w, s, res)

Started(r, settings) ==
  [Idle EXCEPT !.pc = "limits", !.run = r, !.token = Len(agent_attempts[r]) + 1,
               !.cp = agent_runs[r].checkpoint, !.settings = settings, !.beat = TRUE]

Starts(w, r, new) ==
  /\ At(w, "idle") /\ LocalOK(new) /\ Set(w, new) /\ UNCHANGED world
  /\ \E lag \in 0 .. LockWait : Store!Claim(r, agent_runs[r].tenant, agent_runs[r].input, lag)
  /\ new.pc = "limits" /\ new.run = r /\ new.token = agent_runs[r].attempts + 1
  /\ new.cp = agent_runs[r].checkpoint /\ new.error = "none" /\ new.fault = "none"

\* A step of a worker is of one of these kinds.
Kinds(w) ==
  \/ \E new : Moves(w, new) \/ Asks(w, new) \/ Acts(w, new)
  \/ \E cp, new : Saves(w, cp, new)
  \/ \E r \in RunIds : \E new : Starts(w, r, new)
  \/ Stops(w)

\* The worker as the lemmas below see it.
LEMMA WorkerRow ==
  ASSUME Copies, NEW w \in Workers
  PROVE  /\ workers[w] \in Worker /\ LocalOK(workers[w]) /\ workers \in [Workers -> Worker]
         /\ workers[w].run \in RunIds /\ workers[w].cp \in Checkpoints
         /\ workers[w].settings \in Settings /\ workers[w].estimate \in Nat
         /\ Row(w) \in Store!Run /\ Row(w).checkpoint \in Checkpoints
         /\ Row(w).tenant \in Tenants /\ Row(w).deadline \in Int
         /\ Busy(w) => workers[w].token \in 1 .. Row(w).attempts
<1>1. workers[w] \in Worker /\ LocalOK(workers[w]) /\ workers \in [Workers -> Worker]
  BY DEF Copies, TypeOK
<1>2. workers[w].run \in RunIds /\ workers[w].cp \in Checkpoints
      /\ workers[w].settings \in Settings /\ workers[w].estimate \in Nat
  BY <1>1 DEF Worker
<1>3. Row(w) \in Store!Run
  BY <1>2, StoreRow DEF Copies, Row
<1>4. Row(w).checkpoint \in Checkpoints /\ Row(w).tenant \in Tenants /\ Row(w).deadline \in Int
  BY <1>3 DEF Store!Run
<1> QED
  BY <1>1, <1>2, <1>3, <1>4 DEF Copies, TokensIssued

\* The fields of a checkpoint document.
LEMMA CpFields ==
  ASSUME NEW cp \in Checkpoints
  PROVE  /\ cp.pending \in BOOLEAN /\ cp.replay_safe \in BOOLEAN
         /\ cp.tool \in {"none", "safe", "unsafe"}
         /\ cp.decisions \in Nat /\ cp.recoveries \in Nat /\ cp.reserved \in Nat
         /\ cp.limits \in Settings \cup {NoLimits}
         /\ cp.receipt \in Steps \cup {None} /\ cp.final \in Steps \cup {None}
  BY DEF Checkpoints

\* A worker at another point, field by field.
LEMMA GotoFields ==
  ASSUME NEW w, workers[w] \in Worker, NEW pc \in PCs, NEW cp \in Checkpoints
  PROVE  LET me == workers[w] new == Goto(w, pc, cp) IN
         /\ new \in Worker /\ new.pc = pc /\ new.cp = cp
         /\ new.run = me.run /\ new.token = me.token /\ new.settings = me.settings
         /\ new.call = me.call /\ new.decision = me.decision /\ new.estimate = me.estimate
         /\ new.beat = me.beat /\ new.fault = me.fault /\ new.error = me.error
  BY DEF Goto, Worker

\* A worker at another point with some of what it was deciding changed.
Calling(w, pc, cp, call) == [Goto(w, pc, cp) EXCEPT !.call = call]
Reserving(w, pc, cp, estimate) == [Goto(w, pc, cp) EXCEPT !.estimate = estimate]
Deciding(w, pc, cp, decision) == [Goto(w, pc, cp) EXCEPT !.decision = decision]
Answering(w, pc, cp, decision) == [Goto(w, pc, cp) EXCEPT !.decision = decision, !.estimate = 0]

\* The same with the kind of model call changed.
LEMMA CallFields ==
  ASSUME NEW w, workers[w] \in Worker, NEW pc \in PCs, NEW cp \in Checkpoints,
         NEW call \in {"decide", "review"}
  PROVE  LET me == workers[w] new == Calling(w, pc, cp, call) IN
         /\ new \in Worker /\ new.pc = pc /\ new.cp = cp
         /\ new.run = me.run /\ new.token = me.token
         /\ new.fault = me.fault /\ new.error = me.error
         /\ new.call = call /\ new.decision = me.decision /\ new.estimate = me.estimate
<1> DEFINE me == workers[w]
           g == Goto(w, pc, cp)
<1>1. /\ g \in Worker /\ g.pc = pc /\ g.cp = cp /\ g.run = me.run /\ g.token = me.token
      /\ g.call = me.call /\ g.decision = me.decision /\ g.estimate = me.estimate
      /\ g.fault = me.fault /\ g.error = me.error
  BY GotoFields
<1> HIDE DEF me, g
<1>2. LET new == [g EXCEPT !.call = call] IN
      /\ new \in Worker /\ new.pc = pc /\ new.cp = cp
      /\ new.run = me.run /\ new.token = me.token
      /\ new.fault = me.fault /\ new.error = me.error
      /\ new.call = call /\ new.decision = me.decision /\ new.estimate = me.estimate
  BY <1>1 DEF Worker
<1> QED
  BY <1>2 DEF me, g, Calling

\* The same with the reservation of the call changed.
LEMMA EstimateFields ==
  ASSUME NEW w, workers[w] \in Worker, NEW pc \in PCs, NEW cp \in Checkpoints,
         NEW estimate \in Nat
  PROVE  LET me == workers[w] new == Reserving(w, pc, cp, estimate) IN
         /\ new \in Worker /\ new.pc = pc /\ new.cp = cp
         /\ new.run = me.run /\ new.token = me.token
         /\ new.fault = me.fault /\ new.error = me.error
         /\ new.call = me.call /\ new.decision = me.decision /\ new.estimate = estimate
<1> DEFINE me == workers[w]
           g == Goto(w, pc, cp)
<1>1. /\ g \in Worker /\ g.pc = pc /\ g.cp = cp /\ g.run = me.run /\ g.token = me.token
      /\ g.call = me.call /\ g.decision = me.decision /\ g.estimate = me.estimate
      /\ g.fault = me.fault /\ g.error = me.error
  BY GotoFields
<1> HIDE DEF me, g
<1>2. LET new == [g EXCEPT !.estimate = estimate] IN
      /\ new \in Worker /\ new.pc = pc /\ new.cp = cp
      /\ new.run = me.run /\ new.token = me.token
      /\ new.fault = me.fault /\ new.error = me.error
      /\ new.call = me.call /\ new.decision = me.decision /\ new.estimate = estimate
  BY <1>1 DEF Worker
<1> QED
  BY <1>2 DEF me, g, Reserving

\* The same with the decision changed.
LEMMA DecisionFields ==
  ASSUME NEW w, workers[w] \in Worker, NEW pc \in PCs, NEW cp \in Checkpoints,
         NEW decision \in Decisions \cup Verdicts \cup {"none"}
  PROVE  LET me == workers[w] new == Deciding(w, pc, cp, decision) IN
         /\ new \in Worker /\ new.pc = pc /\ new.cp = cp
         /\ new.run = me.run /\ new.token = me.token
         /\ new.fault = me.fault /\ new.error = me.error
         /\ new.call = me.call /\ new.decision = decision /\ new.estimate = me.estimate
<1> DEFINE me == workers[w]
           g == Goto(w, pc, cp)
<1>1. /\ g \in Worker /\ g.pc = pc /\ g.cp = cp /\ g.run = me.run /\ g.token = me.token
      /\ g.call = me.call /\ g.decision = me.decision /\ g.estimate = me.estimate
      /\ g.fault = me.fault /\ g.error = me.error
  BY GotoFields
<1> HIDE DEF me, g
<1>2. LET new == [g EXCEPT !.decision = decision] IN
      /\ new \in Worker /\ new.pc = pc /\ new.cp = cp
      /\ new.run = me.run /\ new.token = me.token
      /\ new.fault = me.fault /\ new.error = me.error
      /\ new.call = me.call /\ new.decision = decision /\ new.estimate = me.estimate
  BY <1>1 DEF Worker
<1> QED
  BY <1>2 DEF me, g, Deciding

\* The same after the model has answered.
LEMMA AnswerFields ==
  ASSUME NEW w, workers[w] \in Worker, NEW pc \in PCs, NEW cp \in Checkpoints,
         NEW decision \in Decisions \cup Verdicts \cup {"none"}
  PROVE  LET me == workers[w] new == Answering(w, pc, cp, decision) IN
         /\ new \in Worker /\ new.pc = pc /\ new.cp = cp
         /\ new.run = me.run /\ new.token = me.token
         /\ new.fault = me.fault /\ new.error = me.error
         /\ new.call = me.call /\ new.decision = decision /\ new.estimate = 0
<1> DEFINE me == workers[w]
           g == Goto(w, pc, cp)
<1>1. /\ g \in Worker /\ g.pc = pc /\ g.cp = cp /\ g.run = me.run /\ g.token = me.token
      /\ g.call = me.call /\ g.decision = me.decision /\ g.estimate = me.estimate
      /\ g.fault = me.fault /\ g.error = me.error
  BY GotoFields
<1> HIDE DEF me, g
<1>2. LET new == [g EXCEPT !.decision = decision, !.estimate = 0] IN
      /\ new \in Worker /\ new.pc = pc /\ new.cp = cp
      /\ new.run = me.run /\ new.token = me.token
      /\ new.fault = me.fault /\ new.error = me.error
      /\ new.call = me.call /\ new.decision = decision /\ new.estimate = 0
  BY <1>1 DEF Worker
<1> QED
  BY <1>2 DEF me, g, Answering

\* A worker in the error handler.
LEMMA FailedFields ==
  ASSUME NEW w, workers[w] \in Worker, NEW e \in Errors, NEW cp \in Checkpoints
  PROVE  LET me == workers[w] new == Failed(w, e, cp) IN
         /\ new \in Worker /\ new.pc = "fail" /\ new.cp = cp
         /\ new.run = me.run /\ new.token = me.token
         /\ new.error = e /\ new.fault = "none"
<1> DEFINE me == workers[w]
           g == Goto(w, "fail", cp)
<1>1. "fail" \in PCs
  BY DEF PCs
<1>2. g \in Worker /\ g.pc = "fail" /\ g.cp = cp /\ g.run = me.run /\ g.token = me.token
  BY <1>1, GotoFields
<1>3. Failed(w, e, cp) = [g EXCEPT !.error = e, !.fault = "none", !.call = "decide",
                                   !.decision = "none", !.estimate = 0]
  BY DEF Failed
<1> HIDE DEF me, g
<1>4. LET new == [g EXCEPT !.error = e, !.fault = "none", !.call = "decide",
                           !.decision = "none", !.estimate = 0] IN
      /\ new \in Worker /\ new.pc = "fail" /\ new.cp = cp
      /\ new.run = me.run /\ new.token = me.token /\ new.error = e /\ new.fault = "none"
  BY <1>2 DEF Worker
<1> QED
  BY <1>3, <1>4 DEF me

-----------------------------------------------------------------------------
(* Every action of a worker is of one of the kinds.                        *)

\* A worker may give up at any point, for an error that is true of its run.
LEMMA FailedOK ==
  ASSUME Copies, NEW w \in Workers, Busy(w), ~At(w, "fail"), NEW e \in Errors, NEW cp, CpOK(cp),
         e = "cancelled" => "cancelled" \in {workers[w].error, workers[w].fault} \/ Row(w).cancel,
         e = "limit" => (Current(w) => Spent(Row(w)))
  PROVE  MoveOK(w, Failed(w, e, cp))
<1> DEFINE me == workers[w]
           new == Failed(w, e, cp)
<1>1. me \in Worker /\ cp \in Checkpoints
  BY WorkerRow DEF CpOK
<1>2. /\ new \in Worker /\ new.pc = "fail" /\ new.cp = cp
      /\ new.run = me.run /\ new.token = me.token
      /\ new.error = e /\ new.fault = "none"
  BY <1>1, FailedFields
<1> HIDE DEF new
<1>3. Goes(me, new)
  BY <1>2 DEF Goes, LocalOK, Busy, At
<1>4. MoveOK(w, new)
  BY <1>2, <1>3 DEF MoveOK, Fresh, Unasked, Undone, Acting, At
<1> QED
  BY <1>4 DEF new

\* The errors of a store call are true of the run.
LEMMA StoreErrorsOK ==
  ASSUME NEW w \in Workers, NEW e \in StoreErrors(w)
  PROVE  e \in Errors /\ e # "limit" /\ (e = "cancelled" => Row(w).cancel)
  BY DEF StoreErrors, Errors

\* A guard moves the worker on, or to the error handler.
LEMMA GuardKind ==
  ASSUME Copies, NEW w \in Workers, Busy(w), ~At(w, "fail"), NEW nexts, GuardThen(w, nexts),
         UNCHANGED world, \A next \in nexts : MoveOK(w, next)
  PROVE  \E new : Moves(w, new)
<1> DEFINE me == workers[w]
<1>1. /\ CpOK(me.cp) /\ me.fault \in Errors \cup {"none"} /\ me.fault # "limit"
      /\ Row(w).deadline \in Int
  BY WorkerRow DEF LocalOK, Worker
<1>2. CASE me.fault # "none" /\ Set(w, Failed(w, me.fault, me.cp)) /\ UNCHANGED stored
  <2>1. MoveOK(w, Failed(w, me.fault, me.cp))
    BY <1>1, <1>2, FailedOK
  <2> QED
    BY <1>2, <2>1 DEF Moves
<1>3. CASE /\ Store!Guard(me.run, Row(w).tenant, me.token)
           /\ \E next \in nexts :
                Set(w, IF Row(w).deadline > 0 THEN next ELSE Failed(w, "limit", me.cp))
  <2>1. CASE Row(w).deadline > 0
    BY <1>3, <2>1 DEF Moves
  <2>2. CASE ~(Row(w).deadline > 0)
    <3>1. Row(w).deadline <= 0
      BY <1>1, <2>2
    <3>2. "limit" \in Errors
      BY DEF Errors
    <3>3. MoveOK(w, Failed(w, "limit", me.cp))
      BY <1>1, <3>1, <3>2, FailedOK DEF Spent
    <3> QED
      BY <1>3, <2>2, <3>3 DEF Moves
  <2> QED
    BY <2>1, <2>2
<1>4. CASE (\E e \in StoreErrors(w) : Set(w, Failed(w, e, me.cp))) /\ UNCHANGED stored
  <2>1. PICK e \in StoreErrors(w) : Set(w, Failed(w, e, me.cp))
    BY <1>4
  <2>2. MoveOK(w, Failed(w, e, me.cp))
    BY <1>1, FailedOK, StoreErrorsOK
  <2> QED
    BY <1>4, <2>1, <2>2 DEF Moves
<1> QED
  BY <1>2, <1>3, <1>4 DEF GuardThen

\* A persist saves the new checkpoint, or the worker gives up.
LEMMA PersistKind ==
  ASSUME Copies, NEW w \in Workers, NEW cp, NEW next, PersistThen(w, cp, next),
         UNCHANGED world, CpOK(cp), SaveOK(w, cp, next)
  PROVE  Kinds(w)
<1> DEFINE me == workers[w]
<1>1. CASE Store!Checkpoint(me.run, Row(w).tenant, me.token, cp) /\ Set(w, next)
  BY <1>1 DEF Saves, Kinds
<1>2. CASE (\E e \in StoreErrors(w) : Set(w, Failed(w, e, cp))) /\ UNCHANGED stored
  <2>1. PICK e \in StoreErrors(w) : Set(w, Failed(w, e, cp))
    BY <1>2
  <2>2. Busy(w) /\ ~At(w, "fail")
    BY DEF SaveOK, Goes, Busy, At
  <2>3. MoveOK(w, Failed(w, e, cp))
    BY <2>2, FailedOK, StoreErrorsOK
  <2> QED
    BY <1>2, <2>1, <2>3 DEF Moves, Kinds
<1> QED
  BY <1>1, <1>2 DEF PersistThen

\* A worker that only moves on.
LEMMA GotoOK ==
  ASSUME Copies, NEW w \in Workers, ~At(w, "fail"), Busy(w), NEW pc \in PCs,
         LET me == workers[w] IN
           /\ LocalOK(Goto(w, pc, me.cp)) /\ pc \notin {"idle", "fail"}
           /\ pc \in {"admit", "reserve", "invoke"} => me.pc \in {"admit", "reserve", "invoke"}
           /\ pc \in {"reconcile", "decided", "pend"} =>
                me.pc \in {"reconcile", "decided", "pend"} \/ me.decision # "unsafe"
           /\ pc \in {"arm", "effect"} => me.pc \in {"arm", "effect"}
           /\ pc = "final" => Row(w).input \notin DocumentInputs
           /\ pc # "invoke"
  PROVE  MoveOK(w, Goto(w, pc, workers[w].cp))
<1> DEFINE me == workers[w]
           new == Goto(w, pc, me.cp)
<1>1. /\ new \in Worker /\ new.pc = pc /\ new.cp = me.cp
      /\ new.run = me.run /\ new.token = me.token
      /\ new.call = me.call /\ new.decision = me.decision
      /\ new.fault = me.fault /\ new.error = me.error
  BY WorkerRow, GotoFields
<1>2. LocalOK(new)
  OBVIOUS
<1> HIDE DEF new
<1>3. MoveOK(w, new)
  BY <1>1, <1>2 DEF MoveOK, Goes, Fresh, Unasked, Undone, Acting, At, Busy
<1> QED
  BY <1>3 DEF new

\* The points that only look at the lease and the deadline.
LEMMA AdmitKind ==
  ASSUME Copies, NEW w \in Workers,
         Admit(w) \/ Report(w) \/ Reviewed(w) \/ Arm(w) \/ Observed(w)
  PROVE  Kinds(w)
<1> DEFINE me == workers[w]
           Ok(pc) == MoveOK(w, Goto(w, pc, me.cp))
<1>1. Busy(w) /\ ~At(w, "fail") /\ UNCHANGED world
  BY DEF Admit, Report, Reviewed, Arm, Observed, Busy, At
<1>2. LocalOK(me) /\ me \in Worker /\ me.cp \in Checkpoints
  BY WorkerRow
<1>3. PICK pc \in {"reserve", "reconcile", "receipt", "effect", "observe"} :
        /\ GuardThen(w, {Goto(w, pc, me.cp)})
        /\ pc = "reserve" => me.pc = "admit"
        /\ pc = "reconcile" => me.pc = "report"
        /\ pc = "receipt" => me.pc = "reviewed"
        /\ pc = "effect" => me.pc = "arm"
        /\ pc = "observe" => me.pc = "observed"
  BY DEF Admit, Report, Reviewed, Arm, Observed, At
<1>4. pc \in PCs
  BY DEF PCs
<1>5. /\ Goto(w, pc, me.cp) \in Worker /\ Goto(w, pc, me.cp).pc = pc
      /\ Goto(w, pc, me.cp).cp = me.cp /\ Goto(w, pc, me.cp).decision = me.decision
      /\ Goto(w, pc, me.cp).fault = me.fault
  BY <1>2, <1>4, GotoFields
<1>6. LocalOK(Goto(w, pc, me.cp))
  BY <1>2, <1>3, <1>5 DEF LocalOK
<1>7. pc = "reconcile" => me.decision # "unsafe"
  BY <1>2, <1>3 DEF LocalOK, Verdicts
<1>8. Ok(pc)
  BY <1>1, <1>3, <1>4, <1>6, <1>7, GotoOK
<1>9. \E new : Moves(w, new)
  BY <1>1, <1>3, <1>8, GuardKind
<1> QED
  BY <1>9 DEF Kinds

\* A step that changes nothing of the worker but its heartbeat.
LEMMA SameOK ==
  ASSUME Copies, NEW w \in Workers, Busy(w)
  PROVE  MoveOK(w, workers[w])
  BY WorkerRow DEF MoveOK, Goes, Busy, At

\* The guard a tool handler calls.
LEMMA ToolGuardKind ==
  ASSUME Copies, NEW w \in Workers, ToolGuard(w)
  PROVE  Kinds(w)
<1>1. Busy(w) /\ ~At(w, "fail") /\ UNCHANGED world /\ GuardThen(w, {workers[w]})
  BY DEF ToolGuard, Busy, At
<1>2. MoveOK(w, workers[w])
  BY <1>1, SameOK
<1>3. \E new : Moves(w, new)
  BY <1>1, <1>2, GuardKind
<1> QED
  BY <1>3 DEF Kinds

\* The head of an iteration.
LEMMA LoopHeadKind ==
  ASSUME Copies, NEW w \in Workers, LoopHead(w)
  PROVE  Kinds(w)
<1> DEFINE me == workers[w]
           replay == [Goto(w, "decided", me.cp) EXCEPT !.decision = me.cp.tool]
           next == IF me.cp.pending THEN replay
                   ELSE IF me.cp.decisions < MaxDecisions THEN Goto(w, "decide", me.cp)
                        ELSE Failed(w, "limit", me.cp)
<1>1. Busy(w) /\ ~At(w, "fail") /\ UNCHANGED world /\ GuardThen(w, {next}) /\ me.pc = "loop"
  BY DEF LoopHead, Busy, At
<1>2. LocalOK(me) /\ me \in Worker /\ me.cp \in Checkpoints /\ CpOK(me.cp)
  BY WorkerRow DEF LocalOK
<1>3. "decided" \in PCs /\ "decide" \in PCs
  BY DEF PCs
<1>4. ASSUME me.cp.pending
      PROVE  MoveOK(w, replay)
  <2>1. me.cp.tool = "safe" /\ me.cp.decisions > 0
    BY <1>1, <1>2, <1>4 DEF LocalOK, CpOK, Store!UnsafePending
  <2>2. me.cp.tool \in Decisions \cup Verdicts \cup {"none"}
    BY <2>1 DEF Decisions
  <2>3. /\ replay \in Worker /\ replay.pc = "decided" /\ replay.cp = me.cp
        /\ replay.run = me.run /\ replay.token = me.token
        /\ replay.decision = "safe"
        /\ replay.fault = me.fault /\ replay.error = me.error
    <3>1. replay = Deciding(w, "decided", me.cp, me.cp.tool)
      BY DEF Deciding
    <3> HIDE DEF replay
    <3> QED
      BY <1>2, <1>3, <2>1, <2>2, <3>1, DecisionFields
  <2> HIDE DEF replay
  <2>4. MoveOK(w, replay)
    BY <1>1, <1>2, <2>1, <2>3
       DEF MoveOK, Goes, LocalOK, Fresh, Unasked, Undone, Acting, At
  <2> QED
    BY <2>4 DEF replay
<1>5. ASSUME ~me.cp.pending, me.cp.decisions < MaxDecisions
      PROVE  MoveOK(w, Goto(w, "decide", me.cp))
  <2> DEFINE new == Goto(w, "decide", me.cp)
  <2>1. new \in Worker /\ new.pc = "decide" /\ new.cp = me.cp /\ new.fault = me.fault
    BY <1>2, <1>3, GotoFields
  <2> HIDE DEF new
  <2>2. LocalOK(new)
    BY <1>1, <1>2, <1>5, <2>1 DEF LocalOK
  <2> QED
    BY <1>1, <1>3, <2>2, GotoOK DEF new
<1>6. ASSUME ~(me.cp.decisions < MaxDecisions)
      PROVE  MoveOK(w, Failed(w, "limit", me.cp))
  <2>1. me.cp.decisions = MaxDecisions
    BY <1>2, <1>6, CpFields, WorkerConstants DEF CpOK
  <2>2. Current(w) => Spent(Row(w))
    BY <2>1 DEF Copies, LocalMirrorsStored, Spent
  <2>3. "limit" \in Errors
    BY DEF Errors
  <2> QED
    BY <1>1, <1>2, <2>2, <2>3, FailedOK
<1>7. MoveOK(w, next)
  BY <1>4, <1>5, <1>6
<1>8. \E new : Moves(w, new)
  BY <1>1, <1>7, GuardKind
<1> QED
  BY <1>8 DEF Kinds

\* A decision is examined.
LEMMA DecidedKind ==
  ASSUME Copies, NEW w \in Workers, Decided(w)
  PROVE  Kinds(w)
<1> DEFINE me == workers[w]
           review == [Goto(w, "admit", me.cp) EXCEPT !.call = "review"]
           nexts == IF me.decision # "final" THEN {Goto(w, "pend", me.cp)}
                    ELSE {Failed(w, "other", me.cp),
                          IF Row(w).input \in DocumentInputs THEN review
                          ELSE Goto(w, "final", me.cp)}
<1>1. Busy(w) /\ ~At(w, "fail") /\ UNCHANGED world /\ GuardThen(w, nexts) /\ me.pc = "decided"
  BY DEF Decided, Busy, At
<1>2. LocalOK(me) /\ me \in Worker /\ me.cp \in Checkpoints /\ CpOK(me.cp)
  BY WorkerRow DEF LocalOK
<1>3. "pend" \in PCs /\ "admit" \in PCs /\ "final" \in PCs
  BY DEF PCs
<1>4. ASSUME me.decision # "final"
      PROVE  MoveOK(w, Goto(w, "pend", me.cp))
  <2> DEFINE new == Goto(w, "pend", me.cp)
  <2>1. /\ new \in Worker /\ new.pc = "pend" /\ new.cp = me.cp /\ new.fault = me.fault
        /\ new.decision = me.decision
    BY <1>2, <1>3, GotoFields
  <2> HIDE DEF new
  <2>2. LocalOK(new)
    BY <1>1, <1>2, <1>4, <2>1 DEF LocalOK
  <2> QED
    BY <1>1, <1>3, <2>2, GotoOK DEF new
<1>5. MoveOK(w, Failed(w, "other", me.cp))
  BY <1>1, <1>2, FailedOK DEF Errors
<1>6. MoveOK(w, review)
  <2>1. /\ review \in Worker /\ review.pc = "admit" /\ review.cp = me.cp
        /\ review.run = me.run /\ review.token = me.token /\ review.call = "review"
        /\ review.fault = me.fault /\ review.error = me.error
    <3>1. review = Calling(w, "admit", me.cp, "review")
      BY DEF Calling
    <3> HIDE DEF review
    <3> QED
      BY <1>2, <1>3, <3>1, CallFields
  <2> HIDE DEF review
  <2>2. MoveOK(w, review)
    BY <1>1, <1>2, <2>1 DEF MoveOK, Goes, LocalOK, Fresh, Unasked, Undone, Acting, At
  <2> QED
    BY <2>2 DEF review
<1>7. ASSUME Row(w).input \notin DocumentInputs
      PROVE  MoveOK(w, Goto(w, "final", me.cp))
  <2> DEFINE new == Goto(w, "final", me.cp)
  <2>1. new \in Worker /\ new.pc = "final" /\ new.cp = me.cp /\ new.fault = me.fault
    BY <1>2, <1>3, GotoFields
  <2> HIDE DEF new
  <2>2. LocalOK(new)
    BY <1>1, <1>2, <2>1 DEF LocalOK
  <2> QED
    BY <1>1, <1>3, <1>7, <2>2, GotoOK DEF new
<1>8. \A next \in nexts : MoveOK(w, next)
  BY <1>4, <1>5, <1>6, <1>7
<1>9. \E new : Moves(w, new)
  BY <1>1, <1>8, GuardKind
<1> QED
  BY <1>9 DEF Kinds

\* A save after which the worker goes on at another point.
LEMMA PersistGoto ==
  ASSUME Copies, NEW w \in Workers, NEW cp, NEW pc \in PCs, Persist(w, cp, pc), UNCHANGED world,
         CpOK(cp), LocalOK(Goto(w, pc, cp)), Grows(workers[w].cp, cp),
         workers[w].pc \notin {"idle", "fail"},
         pc \in {"loop", "finish", "final", "arm", "recovered"},
         pc = "arm" => workers[w].pc = "pend" /\ cp.decisions = workers[w].cp.decisions,
         pc = "final" => cp.receipt = cp.decisions,
         cp.final # None =>
           /\ cp.receipt = workers[w].cp.receipt
           /\ \/ cp.final = workers[w].cp.final
              \/ workers[w].pc = "final" /\ cp.final = workers[w].cp.decisions
  PROVE  Kinds(w)
<1> DEFINE me == workers[w]
           new == Goto(w, pc, cp)
<1>1. me \in Worker /\ cp \in Checkpoints
  BY WorkerRow DEF CpOK
<1>2. /\ new \in Worker /\ new.pc = pc /\ new.cp = cp
      /\ new.run = me.run /\ new.token = me.token /\ new.decision = me.decision
      /\ new.fault = me.fault /\ new.error = me.error
  BY <1>1, GotoFields
<1>3. LocalOK(new) /\ PersistThen(w, cp, new)
  BY DEF Persist
<1> HIDE DEF new
<1>4. Goes(me, new)
  BY <1>2, <1>3 DEF Goes
<1>5. ~Unasked(new) /\ (Fresh(new) => Fresh(me) /\ cp.decisions = me.cp.decisions)
  BY <1>2 DEF Fresh, Unasked, Undone
<1>6. SaveOK(w, cp, new)
  BY <1>2, <1>4, <1>5 DEF SaveOK
<1> QED
  BY <1>3, <1>6, PersistKind

\* The ceilings in force.
LEMMA LimitsOK ==
  ASSUME NEW me \in Worker
  PROVE  /\ Limits(me) \in Settings /\ Limits(me) # NoLimits
         /\ me.settings \in Settings
         /\ Limits(me).tokens \in Nat /\ me.settings.tokens \in Nat
         /\ MaxTokens(me) = Tighter(me.settings.tokens, Limits(me).tokens)
         /\ MaxTokens(me) \in Nat /\ MaxTokens(me) <= Limits(me).tokens
<1>1. me.settings \in Settings /\ me.cp.limits \in Settings \cup {NoLimits}
  BY CpFields DEF Worker
<1>2. Limits(me) \in Settings /\ Limits(me) # NoLimits
  BY <1>1, WorkerConstants DEF Limits
<1>3. \A s \in Settings : s.tokens \in Nat
  BY WorkerConstants
<1>4. Limits(me).tokens \in Nat /\ me.settings.tokens \in Nat
  BY <1>1, <1>2, <1>3
<1> QED
  BY <1>1, <1>2, <1>4 DEF MaxTokens, Tighter

\* The ceilings are persisted.
LEMMA StoreLimitsKind ==
  ASSUME Copies, NEW w \in Workers, StoreLimits(w)
  PROVE  Kinds(w)
<1> DEFINE me == workers[w]
           cp == [me.cp EXCEPT !.limits = Limits(me)]
           pc == IF me.cp.final # None THEN "finish" ELSE "loop"
           new == Goto(w, pc, cp)
<1>1. LocalOK(me) /\ me \in Worker /\ me.cp \in Checkpoints /\ CpOK(me.cp)
  BY WorkerRow DEF LocalOK
<1>2. me.pc = "limits" /\ Persist(w, cp, pc) /\ UNCHANGED world
  BY DEF StoreLimits, At
<1>3. Limits(me) \in Settings /\ Limits(me) # NoLimits
  BY <1>1, LimitsOK
<1>4. /\ cp \in Checkpoints /\ cp.limits = Limits(me)
      /\ cp.pending = me.cp.pending /\ cp.tool = me.cp.tool /\ cp.replay_safe = me.cp.replay_safe
      /\ cp.decisions = me.cp.decisions /\ cp.recoveries = me.cp.recoveries
      /\ cp.reserved = me.cp.reserved /\ cp.receipt = me.cp.receipt /\ cp.final = me.cp.final
  BY <1>1, <1>3 DEF Checkpoints
<1>5. me.cp.limits # NoLimits => Limits(me) = me.cp.limits
  BY DEF Limits
<1> HIDE DEF cp
<1>6. CpOK(cp)
  BY <1>1, <1>4 DEF CpOK
<1>7. pc \in PCs /\ pc \in {"finish", "loop"}
  BY DEF PCs
<1>8. new \in Worker /\ new.pc = pc /\ new.cp = cp /\ new.fault = me.fault
  BY <1>1, <1>4, <1>7, GotoFields
<1> HIDE DEF new
<1>9. LocalOK(new)
  BY <1>1, <1>2, <1>3, <1>4, <1>6, <1>8 DEF LocalOK, Store!UnsafePending
<1>10. Grows(me.cp, cp)
  BY <1>1, <1>4, <1>5, CpFields DEF Grows
<1>11. ASSUME NEW p \in {"finish", "loop"}, pc = p
       PROVE  Kinds(w)
  <2>1. p \in PCs /\ Persist(w, cp, p) /\ LocalOK(Goto(w, p, cp))
    BY <1>2, <1>7, <1>9, <1>11 DEF new
  <2>2. /\ me.pc \notin {"idle", "fail"} /\ p \in {"loop", "finish", "final", "arm", "recovered"}
        /\ p # "arm" /\ p # "final" /\ UNCHANGED world
    BY <1>2
  <2>3. cp.receipt = me.cp.receipt /\ cp.final = me.cp.final
    BY <1>4
  <2> HIDE DEF pc, me
  <2> QED
    BY <1>6, <1>10, <2>1, <2>2, <2>3, PersistGoto DEF me
<1> QED
  BY <1>7, <1>11

\* The receipt of a review is persisted.
LEMMA StoreReceiptKind ==
  ASSUME Copies, NEW w \in Workers, StoreReceipt(w)
  PROVE  Kinds(w)
<1> DEFINE me == workers[w]
           cp == [me.cp EXCEPT !.receipt = me.cp.decisions]
           new == Goto(w, "final", cp)
<1>1. LocalOK(me) /\ me \in Worker /\ me.cp \in Checkpoints /\ CpOK(me.cp)
  BY WorkerRow DEF LocalOK
<1>2. me.pc = "receipt" /\ Persist(w, cp, "final") /\ UNCHANGED world
  BY DEF StoreReceipt, At
<1>3. me.cp.decisions \in Steps
  BY <1>1, <1>2, CpFields, WorkerConstants DEF LocalOK, CpOK, Steps
<1>4. /\ cp \in Checkpoints /\ cp.limits = me.cp.limits
      /\ cp.pending = me.cp.pending /\ cp.tool = me.cp.tool /\ cp.replay_safe = me.cp.replay_safe
      /\ cp.decisions = me.cp.decisions /\ cp.recoveries = me.cp.recoveries
      /\ cp.reserved = me.cp.reserved /\ cp.receipt = me.cp.decisions /\ cp.final = me.cp.final
  BY <1>1, <1>3 DEF Checkpoints
<1> HIDE DEF cp
<1>5. CpOK(cp)
  BY <1>1, <1>4 DEF CpOK
<1>6. "final" \in PCs
  BY DEF PCs
<1>7. new \in Worker /\ new.pc = "final" /\ new.cp = cp /\ new.fault = me.fault
  BY <1>1, <1>4, <1>6, GotoFields
<1> HIDE DEF new
<1>8. LocalOK(new) /\ cp.final = None
  BY <1>1, <1>2, <1>4, <1>5, <1>7 DEF LocalOK
<1>9. Grows(me.cp, cp)
  BY <1>1, <1>4, CpFields DEF Grows
<1> QED
  BY <1>2, <1>4, <1>5, <1>6, <1>8, <1>9, PersistGoto DEF new

\* The final answer is persisted.
LEMMA StoreFinalKind ==
  ASSUME Copies, NEW w \in Workers, StoreFinal(w)
  PROVE  Kinds(w)
<1> DEFINE me == workers[w]
           cp == [me.cp EXCEPT !.final = me.cp.decisions]
           new == Goto(w, "finish", cp)
<1>1. LocalOK(me) /\ me \in Worker /\ me.cp \in Checkpoints /\ CpOK(me.cp)
  BY WorkerRow DEF LocalOK
<1>2. me.pc = "final" /\ Persist(w, cp, "finish") /\ UNCHANGED world
  BY DEF StoreFinal, At
<1>3. me.cp.decisions \in Steps /\ me.cp.decisions # None /\ me.cp.final = None
  BY <1>1, <1>2, CpFields, WorkerConstants DEF LocalOK, CpOK, Steps, None
<1>4. /\ cp \in Checkpoints /\ cp.limits = me.cp.limits
      /\ cp.pending = me.cp.pending /\ cp.tool = me.cp.tool /\ cp.replay_safe = me.cp.replay_safe
      /\ cp.decisions = me.cp.decisions /\ cp.recoveries = me.cp.recoveries
      /\ cp.reserved = me.cp.reserved /\ cp.receipt = me.cp.receipt /\ cp.final = me.cp.decisions
  BY <1>1, <1>3 DEF Checkpoints
<1> HIDE DEF cp
<1>5. CpOK(cp)
  BY <1>1, <1>4 DEF CpOK
<1>6. "finish" \in PCs
  BY DEF PCs
<1>7. new \in Worker /\ new.pc = "finish" /\ new.cp = cp /\ new.fault = me.fault
  BY <1>1, <1>4, <1>6, GotoFields
<1> HIDE DEF new
<1>8. LocalOK(new)
  BY <1>1, <1>3, <1>4, <1>5, <1>7 DEF LocalOK
<1>9. Grows(me.cp, cp)
  BY <1>1, <1>3, <1>4, CpFields DEF Grows
<1> QED
  BY <1>2, <1>4, <1>5, <1>6, <1>8, <1>9, PersistGoto DEF new

\* A tool call is persisted as pending.
LEMMA PendKind ==
  ASSUME Copies, NEW w \in Workers, Pend(w)
  PROVE  Kinds(w)
<1> DEFINE me == workers[w]
           cp == Pending(me.cp, me.decision)
           new == Goto(w, "arm", cp)
<1>1. LocalOK(me) /\ me \in Worker /\ me.cp \in Checkpoints /\ CpOK(me.cp)
  BY WorkerRow DEF LocalOK
<1>2. me.pc = "pend" /\ UNCHANGED world
  BY DEF Pend, At
<1>3. CASE me.decision = "unknown"
  <2> DEFINE nxt == Goto(w, "recover", me.cp)
  <2>1. Set(w, nxt) /\ UNCHANGED stored
    BY <1>3 DEF Pend
  <2>2. "recover" \in PCs
    BY DEF PCs
  <2>3. nxt \in Worker /\ nxt.pc = "recover" /\ nxt.cp = me.cp /\ nxt.fault = me.fault
    BY <1>1, <2>2, GotoFields
  <2> HIDE DEF nxt
  <2>4. LocalOK(nxt)
    BY <1>1, <1>2, <2>3 DEF LocalOK
  <2>5. MoveOK(w, nxt)
    BY <1>2, <2>2, <2>4, GotoOK DEF nxt, At, Busy
  <2> QED
    BY <1>2, <2>1, <2>5 DEF Kinds, Moves
<1>4. CASE me.decision # "unknown"
  <2>1. Persist(w, cp, "arm")
    BY <1>4 DEF Pend
  <2>2. me.decision \in {"safe", "unsafe"}
    BY <1>1, <1>2, <1>4 DEF LocalOK
  <2>3. /\ cp \in Checkpoints /\ cp.limits = me.cp.limits
        /\ cp.pending /\ cp.tool = me.decision /\ (cp.replay_safe <=> me.decision = "safe")
        /\ cp.decisions = me.cp.decisions /\ cp.recoveries = me.cp.recoveries
        /\ cp.reserved = me.cp.reserved /\ cp.receipt = me.cp.receipt /\ cp.final = me.cp.final
    BY <1>1, <2>2 DEF Checkpoints, Pending
  <2> HIDE DEF cp
  <2>4. CpOK(cp)
    BY <1>1, <1>2, <2>2, <2>3 DEF CpOK, LocalOK
  <2>5. "arm" \in PCs
    BY DEF PCs
  <2>6. /\ new \in Worker /\ new.pc = "arm" /\ new.cp = cp /\ new.fault = me.fault
        /\ new.decision = me.decision
    BY <1>1, <2>3, <2>5, GotoFields
  <2> HIDE DEF new
  <2>7. LocalOK(new)
    BY <1>1, <1>2, <2>3, <2>4, <2>6 DEF LocalOK
  <2>8. Grows(me.cp, cp)
    BY <1>1, <2>3, CpFields DEF Grows
  <2>9. LocalOK(Goto(w, "arm", cp)) /\ cp.decisions = me.cp.decisions /\ cp.final = None
    BY <1>1, <1>2, <2>3, <2>7 DEF new, LocalOK
  <2> QED
    BY <1>2, <2>1, <2>4, <2>5, <2>8, <2>9, PersistGoto
<1> QED
  BY <1>3, <1>4

\* A checkpoint without its pending call, field by field.
LEMMA SettledFields ==
  ASSUME NEW cp, CpOK(cp)
  PROVE  LET new == Settled(cp) IN
         /\ CpOK(new) /\ ~new.pending /\ new.limits = cp.limits
         /\ new.decisions = cp.decisions /\ new.recoveries = cp.recoveries
         /\ new.reserved = cp.reserved /\ new.receipt = cp.receipt /\ new.final = cp.final
<1> DEFINE new == Settled(cp)
<1>1. /\ new \in Checkpoints /\ new.pending = FALSE /\ new.limits = cp.limits
      /\ new.decisions = cp.decisions /\ new.recoveries = cp.recoveries
      /\ new.reserved = cp.reserved /\ new.receipt = cp.receipt /\ new.final = cp.final
  BY DEF CpOK, Settled, Checkpoints
<1> HIDE DEF new
<1>2. CpOK(new)
  BY <1>1 DEF CpOK
<1> QED
  BY <1>1, <1>2 DEF new

\* A decision is counted.
LEMMA DecideKind ==
  ASSUME Copies, NEW w \in Workers, Decide(w)
  PROVE  Kinds(w)
<1> DEFINE me == workers[w]
           old == Settled(me.cp)
           cp == [old EXCEPT !.decisions = @ + 1]
           new == [Goto(w, "admit", cp) EXCEPT !.call = "decide"]
<1>1. LocalOK(me) /\ me \in Worker /\ me.cp \in Checkpoints /\ CpOK(me.cp)
  BY WorkerRow DEF LocalOK
<1>2. me.pc = "decide" /\ PersistThen(w, cp, new) /\ UNCHANGED world
  BY DEF Decide, At
<1>3. /\ CpOK(old) /\ ~old.pending /\ old.limits = me.cp.limits /\ old.decisions = me.cp.decisions
      /\ old.recoveries = me.cp.recoveries /\ old.reserved = me.cp.reserved
      /\ old.final = me.cp.final
  BY <1>1, SettledFields
<1>4. new = Calling(w, "admit", cp, "decide")
  BY DEF Calling
<1> HIDE DEF old
<1>5. /\ cp \in Checkpoints /\ cp.pending = old.pending /\ cp.limits = old.limits
      /\ cp.decisions = old.decisions + 1 /\ cp.recoveries = old.recoveries
      /\ cp.reserved = old.reserved /\ cp.final = old.final
  BY <1>3 DEF Checkpoints, CpOK
<1> HIDE DEF cp, new
<1>6. me.cp.final = None /\ me.cp.decisions < MaxDecisions /\ me.cp.decisions \in Nat
  BY <1>1, <1>2, CpFields DEF LocalOK
<1>7. CpOK(cp) /\ cp.final = None /\ cp.decisions = me.cp.decisions + 1
  BY <1>3, <1>5, <1>6, WorkerConstants DEF CpOK
<1>8. "admit" \in PCs
  BY DEF PCs
<1>9. /\ new \in Worker /\ new.pc = "admit" /\ new.cp = cp
      /\ new.run = me.run /\ new.token = me.token
      /\ new.fault = me.fault /\ new.error = me.error
  BY <1>1, <1>4, <1>5, <1>8, CallFields
<1>10. LocalOK(new)
  BY <1>1, <1>2, <1>3, <1>5, <1>6, <1>7, <1>9 DEF LocalOK
<1>11. Grows(me.cp, cp)
  BY <1>1, <1>3, <1>5, <1>6, CpFields DEF Grows
<1>12. Goes(me, new)
  BY <1>2, <1>9, <1>10 DEF Goes
<1>13. SaveOK(w, cp, new)
  BY <1>2, <1>7, <1>9, <1>11, <1>12 DEF SaveOK
<1> QED
  BY <1>2, <1>7, <1>13, PersistKind

\* A larger reservation.
LEMMA ReservedFields ==
  ASSUME NEW cp, CpOK(cp), NEW t \in Nat
  PROVE  LET new == [cp EXCEPT !.reserved = @ + t] IN
         /\ CpOK(new) /\ Grows(cp, new) /\ new.reserved = cp.reserved + t
         /\ new.pending = cp.pending /\ new.tool = cp.tool /\ new.replay_safe = cp.replay_safe
         /\ new.limits = cp.limits /\ new.decisions = cp.decisions
         /\ new.receipt = cp.receipt /\ new.final = cp.final
<1> DEFINE new == [cp EXCEPT !.reserved = @ + t]
<1>1. /\ cp.reserved \in Nat /\ cp.decisions \in Nat /\ cp.recoveries \in Nat
  BY CpFields DEF CpOK
<1>2. /\ new \in Checkpoints /\ new.reserved = cp.reserved + t
      /\ new.pending = cp.pending /\ new.tool = cp.tool /\ new.replay_safe = cp.replay_safe
      /\ new.limits = cp.limits /\ new.decisions = cp.decisions
      /\ new.recoveries = cp.recoveries
      /\ new.receipt = cp.receipt /\ new.final = cp.final
  BY <1>1 DEF CpOK, Checkpoints
<1> HIDE DEF new
<1>3. CpOK(new)
  BY <1>2 DEF CpOK
<1>4. Grows(cp, new)
  BY <1>1, <1>2 DEF Grows
<1> QED
  BY <1>2, <1>3, <1>4 DEF new

\* Tokens are reserved within the ceilings in force.
LEMMA ReserveKind ==
  ASSUME Copies, NEW w \in Workers, NEW t \in Estimates, Reserve(w, t)
  PROVE  Kinds(w)
<1> DEFINE me == workers[w]
           cp == [me.cp EXCEPT !.reserved = @ + t]
           new == [Goto(w, "invoke", cp) EXCEPT !.estimate = t]
<1>1. LocalOK(me) /\ me \in Worker /\ me.cp \in Checkpoints /\ CpOK(me.cp)
  BY WorkerRow DEF LocalOK
<1>2. me.pc = "reserve" /\ UNCHANGED world
  BY DEF Reserve, At
<1>3. t \in Nat /\ me.cp.reserved \in Nat /\ me.cp.limits # NoLimits
  BY <1>1, <1>2, CpFields, WorkerConstants DEF LocalOK
<1>4. Limits(me) = me.cp.limits
  BY <1>3 DEF Limits
<1>5. /\ me.cp.limits.tokens \in Nat /\ me.settings \in Settings
      /\ MaxTokens(me) = Tighter(me.settings.tokens, me.cp.limits.tokens)
      /\ MaxTokens(me) \in Nat /\ MaxTokens(me) <= me.cp.limits.tokens
  BY <1>1, <1>4, LimitsOK
<1>6. CASE ~Admitted(me, t)
  <2>1. Set(w, Failed(w, "limit", me.cp)) /\ UNCHANGED stored
    BY <1>6 DEF Reserve
  <2>2. me.cp.reserved + t > MaxTokens(me)
    BY <1>3, <1>5, <1>6 DEF Admitted
  <2>3. Overdrawn(me.cp)
    BY <1>3, <1>5, <2>2 DEF Overdrawn
  <2>4. Current(w) => Spent(Row(w))
    BY <2>3 DEF Copies, LocalMirrorsStored, Spent
  <2>5. Busy(w) /\ ~At(w, "fail") /\ "limit" \in Errors
    BY <1>2 DEF Busy, At, Errors
  <2>6. MoveOK(w, Failed(w, "limit", me.cp))
    BY <1>1, <2>4, <2>5, FailedOK
  <2> QED
    BY <1>2, <2>1, <2>6 DEF Kinds, Moves
<1>7. CASE Admitted(me, t)
  <2>1. PersistThen(w, cp, new)
    BY <1>7 DEF Reserve
  <2>2. new = Reserving(w, "invoke", cp, t)
    BY DEF Reserving
  <2>3. /\ CpOK(cp) /\ Grows(me.cp, cp) /\ cp.reserved = me.cp.reserved + t
        /\ cp.limits = me.cp.limits /\ cp.decisions = me.cp.decisions /\ cp.final = me.cp.final
    BY <1>1, <1>3, ReservedFields
  <2> HIDE DEF cp, new
  <2>4. cp.reserved <= cp.limits.tokens
    BY <1>3, <1>5, <1>7, <2>3 DEF Admitted
  <2>5. "invoke" \in PCs /\ cp \in Checkpoints
    BY <2>3 DEF PCs, CpOK
  <2>6. /\ new \in Worker /\ new.pc = "invoke" /\ new.cp = cp
        /\ new.run = me.run /\ new.token = me.token /\ new.call = me.call /\ new.estimate = t
        /\ new.fault = me.fault /\ new.error = me.error
    BY <1>1, <1>3, <2>2, <2>5, EstimateFields
  <2>7. LocalOK(new) /\ cp.final = None
    BY <1>1, <1>2, <1>3, <2>3, <2>6 DEF LocalOK
  <2>8. Goes(me, new)
    BY <1>2, <2>6, <2>7 DEF Goes
  <2>9. /\ Fresh(new) => Fresh(me) /\ cp.decisions = me.cp.decisions
        /\ Unasked(new) => Unasked(me) /\ cp.decisions = me.cp.decisions
    BY <1>2, <2>3, <2>6 DEF Fresh, Unasked, Undone
  <2>10. SaveOK(w, cp, new)
    BY <1>2, <1>3, <2>3, <2>4, <2>6, <2>7, <2>8, <2>9 DEF SaveOK
  <2> QED
    BY <1>2, <2>1, <2>3, <2>10, PersistKind
<1> QED
  BY <1>6, <1>7

\* Where a response leads, with the usage charged or not.
LEMMA RespondedOK ==
  ASSUME Copies, NEW w \in Workers, At(w, "reconcile"), NEW cp, CpOK(cp), Grows(workers[w].cp, cp),
         cp.decisions = workers[w].cp.decisions, cp.limits = workers[w].cp.limits,
         cp.final = workers[w].cp.final
  PROVE  LET me == workers[w] new == Responded(w, cp) IN
         \/ me.decision \in {"refused", "rejected"} /\ new = Failed(w, "other", cp)
         \/ /\ Goes(me, new) /\ new.cp = cp /\ new.pc \in {"recover", "reviewed", "decided"}
            /\ Fresh(new) => Fresh(me)
            /\ new.fault = me.fault /\ new.error = me.error
<1> DEFINE me == workers[w]
<1>1. LocalOK(me) /\ me \in Worker /\ me.pc = "reconcile" /\ cp \in Checkpoints
  BY WorkerRow DEF At, CpOK
<1>2. CASE me.decision \in {"refused", "rejected"}
  BY <1>2 DEF Responded
<1>3. CASE me.decision \notin {"refused", "rejected"}
  <2>1. PICK pc \in {"recover", "reviewed", "decided"} :
          /\ Responded(w, cp) = Goto(w, pc, cp)
          /\ pc = "decided" => me.decision \in {"final", "safe", "unsafe", "unknown"}
    <3>1. me.decision \in Decisions \cup Verdicts
      BY <1>1 DEF LocalOK
    <3> QED
      BY <1>3, <3>1 DEF Responded, Decisions, Verdicts
  <2> DEFINE new == Goto(w, pc, cp)
  <2>2. pc \in PCs
    BY DEF PCs
  <2>3. /\ new \in Worker /\ new.pc = pc /\ new.cp = cp
        /\ new.run = me.run /\ new.token = me.token /\ new.decision = me.decision
        /\ new.fault = me.fault /\ new.error = me.error
    BY <1>1, <2>2, GotoFields
  <2>4. Responded(w, cp) = new
    BY <2>1
  <2> HIDE DEF new
  <2>5. LocalOK(new)
    BY <1>1, <2>1, <2>3 DEF LocalOK
  <2>6. Goes(me, new)
    BY <1>1, <2>3, <2>5 DEF Goes
  <2>7. Fresh(new) => Fresh(me)
    BY <1>1, <2>3 DEF Fresh, Unasked, Undone
  <2> QED
    BY <2>3, <2>4, <2>6, <2>7
<1> QED
  BY <1>2, <1>3

\* Reported usage is charged.
LEMMA ReconcileKind ==
  ASSUME Copies, NEW w \in Workers, Reconcile(w)
  PROVE  Kinds(w)
<1> DEFINE me == workers[w]
<1>1. LocalOK(me) /\ me \in Worker /\ me.cp \in Checkpoints /\ CpOK(me.cp)
  BY WorkerRow DEF LocalOK
<1>2. me.pc = "reconcile" /\ UNCHANGED world /\ At(w, "reconcile") /\ Busy(w) /\ ~At(w, "fail")
  BY DEF Reconcile, At, Busy
<1>3. CASE Set(w, Responded(w, me.cp)) /\ UNCHANGED stored
  <2> DEFINE new == Responded(w, me.cp)
  <2>1. Grows(me.cp, me.cp)
    BY <1>1, CpFields DEF Grows
  <2>2. MoveOK(w, Failed(w, "other", me.cp))
    BY <1>1, <1>2, FailedOK DEF Errors
  <2>3. \/ new = Failed(w, "other", me.cp)
        \/ /\ Goes(me, new) /\ new.cp = me.cp /\ new.pc \in {"recover", "reviewed", "decided"}
           /\ Fresh(new) => Fresh(me)
           /\ new.fault = me.fault /\ new.error = me.error
    BY <1>1, <1>2, <2>1, RespondedOK
  <2> HIDE DEF new
  <2>4. MoveOK(w, new)
    <3>1. CASE new = Failed(w, "other", me.cp)
      BY <2>2, <3>1
    <3>2. CASE new # Failed(w, "other", me.cp)
      BY <2>3, <3>2 DEF MoveOK, Unasked, Acting
    <3> QED
      BY <3>1, <3>2
  <2> QED
    BY <1>2, <1>3, <2>4 DEF Kinds, Moves, new
<1>4. ASSUME NEW x \in Excesses,
             LET cp == [me.cp EXCEPT !.reserved = @ + x]
             IN  PersistThen(w, cp, IF cp.reserved > MaxTokens(me) THEN Failed(w, "limit", cp)
                                    ELSE Responded(w, cp))
      PROVE  Kinds(w)
  <2> DEFINE cp == [me.cp EXCEPT !.reserved = @ + x]
             new == IF cp.reserved > MaxTokens(me) THEN Failed(w, "limit", cp) ELSE Responded(w, cp)
  <2>1. PersistThen(w, cp, new)
    BY <1>4
  <2>2. x \in Nat
    BY WorkerConstants
  <2>3. /\ CpOK(cp) /\ Grows(me.cp, cp) /\ cp.reserved = me.cp.reserved + x
        /\ cp.limits = me.cp.limits /\ cp.decisions = me.cp.decisions /\ cp.final = me.cp.final
    BY <1>1, <2>2, ReservedFields
  <2> HIDE DEF cp
  <2>4. me.cp.final = None /\ me.cp.limits # NoLimits
    BY <1>1, <1>2 DEF LocalOK
  <2>5. CASE cp.reserved > MaxTokens(me)
    <3> DEFINE failed == Failed(w, "limit", cp)
    <3>1. new = failed
      BY <2>5
    <3>2. Limits(me) = me.cp.limits
      BY <2>4 DEF Limits
    <3>3. /\ me.settings \in Settings
          /\ MaxTokens(me) = Tighter(me.settings.tokens, cp.limits.tokens)
      BY <1>1, <2>3, <3>2, LimitsOK
    <3>4. cp.reserved \in Nat
      BY <2>3, CpFields DEF CpOK
    <3>5. Overdrawn(cp)
      BY <2>3, <2>4, <2>5, <3>3, <3>4 DEF Overdrawn
    <3>6. /\ failed \in Worker /\ failed.pc = "fail" /\ failed.cp = cp
          /\ failed.run = me.run /\ failed.token = me.token
          /\ failed.error = "limit" /\ failed.fault = "none"
      BY <1>1, <2>3, FailedFields DEF CpOK, Errors
    <3> HIDE DEF failed
    <3>7. Goes(me, failed)
      BY <1>2, <2>3, <3>6 DEF Goes, LocalOK
    <3>8. SaveOK(w, cp, failed)
      BY <1>2, <2>3, <2>4, <3>5, <3>6, <3>7 DEF SaveOK, Fresh, Unasked, Undone
    <3> QED
      BY <1>2, <2>1, <2>3, <3>1, <3>8, PersistKind
  <2>6. CASE ~(cp.reserved > MaxTokens(me))
    <3> DEFINE next == Responded(w, cp)
    <3>1. new = next
      BY <2>6
    <3>2. \/ next = Failed(w, "other", cp)
          \/ /\ Goes(me, next) /\ next.cp = cp /\ next.pc \in {"recover", "reviewed", "decided"}
             /\ Fresh(next) => Fresh(me)
             /\ next.fault = me.fault /\ next.error = me.error
      BY <1>1, <1>2, <2>3, RespondedOK
    <3> HIDE DEF next
    <3>3. CASE next = Failed(w, "other", cp)
      <4>1. /\ next \in Worker /\ next.pc = "fail" /\ next.cp = cp
            /\ next.run = me.run /\ next.token = me.token
            /\ next.error = "other" /\ next.fault = "none"
        BY <1>1, <2>3, <3>3, FailedFields DEF CpOK, Errors
      <4>2. Goes(me, next)
        BY <1>2, <2>3, <4>1 DEF Goes, LocalOK
      <4>3. SaveOK(w, cp, next)
        BY <1>2, <2>3, <2>4, <4>1, <4>2 DEF SaveOK, Fresh, Unasked, Undone
      <4> QED
        BY <1>2, <2>1, <2>3, <3>1, <4>3, PersistKind
    <3>4. CASE next # Failed(w, "other", cp)
      <4>1. SaveOK(w, cp, next)
        BY <1>2, <2>3, <2>4, <3>2, <3>4 DEF SaveOK, Unasked
      <4> QED
        BY <1>2, <2>1, <2>3, <3>1, <4>1, PersistKind
    <3> QED
      BY <3>3, <3>4
  <2> QED
    BY <2>5, <2>6
<1> QED
  BY <1>2, <1>3, <1>4 DEF Reconcile

\* An observation is persisted.
LEMMA ObserveKind ==
  ASSUME Copies, NEW w \in Workers, Observe(w) \/ Recovered(w)
  PROVE  Kinds(w)
<1> DEFINE me == workers[w]
           cp == Settled(me.cp)
           new == NextIter(w, cp)
<1>1. LocalOK(me) /\ me \in Worker /\ me.cp \in Checkpoints /\ CpOK(me.cp)
  BY WorkerRow DEF LocalOK
<1>2. me.pc \in {"observe", "recovered"} /\ PersistThen(w, cp, new) /\ UNCHANGED world
  BY DEF Observe, Recovered, At
<1>3. /\ CpOK(cp) /\ ~cp.pending /\ cp.limits = me.cp.limits
      /\ cp.decisions = me.cp.decisions /\ cp.recoveries = me.cp.recoveries
      /\ cp.reserved = me.cp.reserved /\ cp.receipt = me.cp.receipt /\ cp.final = me.cp.final
  BY <1>1, SettledFields
<1>4. new = Deciding(w, "loop", cp, "none")
  BY DEF Deciding, NextIter
<1> HIDE DEF cp, new
<1>5. "loop" \in PCs /\ cp \in Checkpoints
  BY <1>3 DEF PCs, CpOK
<1>6. /\ new \in Worker /\ new.pc = "loop" /\ new.cp = cp
      /\ new.run = me.run /\ new.token = me.token
      /\ new.fault = me.fault /\ new.error = me.error
  BY <1>1, <1>4, <1>5, DecisionFields
<1>7. LocalOK(new) /\ cp.final = None
  BY <1>1, <1>2, <1>3, <1>6 DEF LocalOK, Store!UnsafePending
<1>8. Goes(me, new)
  BY <1>2, <1>6, <1>7 DEF Goes
<1>9. Grows(me.cp, cp)
  BY <1>1, <1>3, CpFields DEF Grows
<1>10. SaveOK(w, cp, new)
  BY <1>2, <1>3, <1>6, <1>7, <1>8, <1>9 DEF SaveOK, Fresh, Unasked, Undone
<1> QED
  BY <1>2, <1>3, <1>10, PersistKind

\* A recovery is spent, or the error ends the attempt.
LEMMA RecoverKind ==
  ASSUME Copies, NEW w \in Workers, Recover(w)
  PROVE  Kinds(w)
<1> DEFINE me == workers[w]
           cp == [me.cp EXCEPT !.recoveries = @ + 1]
           new == Goto(w, "recovered", cp)
<1>1. LocalOK(me) /\ me \in Worker /\ me.cp \in Checkpoints /\ CpOK(me.cp)
  BY WorkerRow DEF LocalOK
<1>2. me.pc = "recover" /\ UNCHANGED world /\ Busy(w) /\ ~At(w, "fail")
  BY DEF Recover, At, Busy
<1>3. CASE me.cp.recoveries >= MaxRecoveries(me)
  <2>1. Set(w, Failed(w, "other", me.cp)) /\ UNCHANGED stored
    BY <1>3 DEF Recover
  <2>2. MoveOK(w, Failed(w, "other", me.cp))
    BY <1>1, <1>2, FailedOK DEF Errors
  <2> QED
    BY <1>2, <2>1, <2>2 DEF Kinds, Moves
<1>4. CASE ~(me.cp.recoveries >= MaxRecoveries(me))
  <2>1. Persist(w, cp, "recovered")
    BY <1>4 DEF Recover
  <2>2. me.cp.recoveries \in Nat
    BY <1>1, CpFields
  <2>3. /\ cp \in Checkpoints /\ cp.limits = me.cp.limits
        /\ cp.pending = me.cp.pending /\ cp.tool = me.cp.tool
        /\ cp.replay_safe = me.cp.replay_safe
        /\ cp.decisions = me.cp.decisions /\ cp.recoveries = me.cp.recoveries + 1
        /\ cp.reserved = me.cp.reserved /\ cp.receipt = me.cp.receipt /\ cp.final = me.cp.final
    BY <1>1, <2>2 DEF Checkpoints
  <2> HIDE DEF cp
  <2>4. CpOK(cp)
    BY <1>1, <2>3 DEF CpOK
  <2>5. "recovered" \in PCs
    BY DEF PCs
  <2>6. new \in Worker /\ new.pc = "recovered" /\ new.cp = cp /\ new.fault = me.fault
    BY <1>1, <2>3, <2>5, GotoFields
  <2> HIDE DEF new
  <2>7. LocalOK(new) /\ cp.final = None
    BY <1>1, <1>2, <2>3, <2>4, <2>6 DEF LocalOK
  <2>8. Grows(me.cp, cp)
    BY <1>1, <2>2, <2>3, CpFields DEF Grows
  <2> QED
    BY <1>2, <2>1, <2>4, <2>5, <2>7, <2>8, PersistGoto DEF new
<1> QED
  BY <1>3, <1>4

\* The model is called.
LEMMA InvokeKind ==
  ASSUME Copies, NEW w \in Workers, Invoke(w)
  PROVE  Kinds(w)
<1> DEFINE me == workers[w]
           at(pc, d) == [Goto(w, pc, me.cp) EXCEPT !.decision = d, !.estimate = 0]
<1>1. LocalOK(me) /\ me \in Worker /\ me.cp \in Checkpoints /\ CpOK(me.cp)
  BY WorkerRow DEF LocalOK
<1>2. /\ me.pc = "invoke" /\ UNCHANGED stored
      /\ world' = [world EXCEPT ![me.run].spent = @ + me.estimate,
                     ![me.run].calls[me.cp.decisions] =
                        IF me.call = "decide" THEN @ + 1 ELSE @]
  BY DEF Invoke, At
<1>3. ASSUME NEW pc \in {"reconcile", "recover", "report"},
             NEW d \in Decisions \cup Verdicts \cup {"none"},
             \/ me.call = "decide" /\ pc = "reconcile" /\ d \in Decisions
             \/ pc = "recover"
             \/ pc = "report" /\ d \in Verdicts,
             Set(w, at(pc, d))
      PROVE  Kinds(w)
  <2> DEFINE new == at(pc, d)
  <2>1. new = Answering(w, pc, me.cp, d)
    BY DEF Answering
  <2> HIDE DEF new
  <2>2. pc \in PCs
    BY DEF PCs
  <2>3. /\ new \in Worker /\ new.pc = pc /\ new.cp = me.cp
        /\ new.run = me.run /\ new.token = me.token /\ new.decision = d
        /\ new.fault = me.fault /\ new.error = me.error
    BY <1>1, <2>1, <2>2, AnswerFields
  <2>4. LocalOK(new)
    BY <1>1, <1>2, <1>3, <2>3 DEF LocalOK
  <2>5. Goes(me, new)
    BY <1>2, <2>3, <2>4 DEF Goes
  <2>6. AskOK(me, new)
    BY <1>2, <1>3, <2>3, <2>5 DEF AskOK, Unasked, Undone
  <2>7. Set(w, new)
    BY <1>3 DEF new
  <2> QED
    BY <1>2, <2>6, <2>7 DEF Kinds, Asks
<1>4. CASE Set(w, Failed(w, "other", me.cp))
  <2> DEFINE new == Failed(w, "other", me.cp)
  <2>1. /\ new \in Worker /\ new.pc = "fail" /\ new.cp = me.cp
        /\ new.run = me.run /\ new.token = me.token
        /\ new.error = "other" /\ new.fault = "none"
    BY <1>1, FailedFields DEF Errors
  <2>2. Set(w, new)
    BY <1>4
  <2> HIDE DEF new
  <2>3. AskOK(me, new)
    BY <1>1, <1>2, <2>1 DEF AskOK, Goes, LocalOK, Unasked, Undone
  <2> QED
    BY <1>2, <2>2, <2>3 DEF Kinds, Asks
<1> QED
  BY <1>3, <1>4 DEF Invoke, Decisions

\* A tool runs.
LEMMA EffectKind ==
  ASSUME Copies, NEW w \in Workers, Effect(w)
  PROVE  Kinds(w)
<1> DEFINE me == workers[w]
           acts == world' = [world EXCEPT ![me.run].effects[me.cp.decisions] =
                          IF me.decision = "unsafe" THEN @ + 1 ELSE @]
<1>1. LocalOK(me) /\ me \in Worker /\ me.cp \in Checkpoints /\ CpOK(me.cp)
  BY WorkerRow DEF LocalOK
<1>2. me.pc = "effect" /\ UNCHANGED stored /\ Busy(w) /\ ~At(w, "fail")
  BY DEF Effect, At, Busy
<1>3. ASSUME NEW pc \in {"observed", "recover"}
      PROVE  LET new == Goto(w, pc, me.cp) IN ActOK(me, new) /\ MoveOK(w, new)
  <2> DEFINE new == Goto(w, pc, me.cp)
  <2>1. pc \in PCs
    BY DEF PCs
  <2>2. /\ new \in Worker /\ new.pc = pc /\ new.cp = me.cp
        /\ new.run = me.run /\ new.token = me.token
        /\ new.fault = me.fault /\ new.error = me.error
    BY <1>1, <2>1, GotoFields
  <2> HIDE DEF new
  <2>3. LocalOK(new)
    BY <1>1, <1>2, <2>2 DEF LocalOK
  <2>4. ActOK(me, new)
    BY <1>2, <2>2, <2>3 DEF ActOK, Goes
  <2>5. MoveOK(w, new)
    BY <1>2, <2>1, <2>3, GotoOK DEF new
  <2> QED
    BY <2>4, <2>5 DEF new
<1>4. LET new == Failed(w, "other", me.cp) IN ActOK(me, new) /\ MoveOK(w, new)
  <2> DEFINE new == Failed(w, "other", me.cp)
  <2>1. /\ new \in Worker /\ new.pc = "fail" /\ new.cp = me.cp
        /\ new.run = me.run /\ new.token = me.token
        /\ new.error = "other" /\ new.fault = "none"
    BY <1>1, FailedFields DEF Errors
  <2>2. MoveOK(w, new)
    BY <1>1, <1>2, FailedOK DEF Errors
  <2> HIDE DEF new
  <2>3. ActOK(me, new)
    BY <1>2, <2>1, <2>2 DEF ActOK, MoveOK
  <2> QED
    BY <2>2, <2>3 DEF new
<1>5. PICK new : /\ ActOK(me, new) /\ (MoveOK(w, new) \/ acts) /\ Set(w, new)
                 /\ acts \/ UNCHANGED world
                 /\ UNCHANGED world => MoveOK(w, new)
  BY <1>3, <1>4 DEF Effect
<1> HIDE DEF acts
<1>6. CASE acts
  BY <1>2, <1>5, <1>6 DEF Kinds, Acts, acts
<1>7. CASE UNCHANGED world
  BY <1>2, <1>5, <1>7 DEF Kinds, Moves
<1> QED
  BY <1>5, <1>6, <1>7

\* The end of an attempt, and what may stop a worker anywhere.
LEMMA EndKind ==
  ASSUME Copies, NEW w \in Workers, Finish(w) \/ Fail(w) \/ SoftLimit(w) \/ Crash(w)
  PROVE  Kinds(w)
<1> DEFINE me == workers[w]
<1>1. LocalOK(me) /\ me \in Worker /\ me.cp \in Checkpoints /\ CpOK(me.cp)
  BY WorkerRow DEF LocalOK
<1>2. CASE (SoftLimit(w) \/ Finish(w)) /\ Set(w, Failed(w, "other", me.cp)) /\ UNCHANGED stored
  <2>1. Busy(w) /\ ~At(w, "fail") /\ UNCHANGED world
    BY <1>2 DEF SoftLimit, Finish, Busy, At
  <2>2. MoveOK(w, Failed(w, "other", me.cp))
    BY <1>1, <2>1, FailedOK DEF Errors
  <2> QED
    BY <1>2, <2>1, <2>2 DEF Kinds, Moves
<1>3. CASE Crash(w)
  BY <1>3 DEF Kinds, Stops, Crash, Busy
<1>4. CASE /\ Finish(w) /\ Set(w, Idle)
           /\ Store!Finish(me.run, Row(w).tenant, me.token, "succeeded", me.cp.final)
  <2>1. Reports(w, "succeeded", me.cp.final)
    BY <1>4 DEF Finish, Reports, Busy, At, Store!FinishStates
  <2>2. Busy(w) /\ UNCHANGED world
    BY <1>4 DEF Finish, Busy, At
  <2> QED
    BY <1>4, <2>1, <2>2 DEF Kinds, Stops
<1>5. CASE Fail(w)
  <2>1. Busy(w) /\ me.pc = "fail" /\ UNCHANGED world /\ Set(w, Idle)
    BY <1>5 DEF Fail, Busy, At
  <2>2. CASE UNCHANGED stored
    BY <2>1, <2>2 DEF Kinds, Stops
  <2>3. CASE Store!Finish(me.run, Row(w).tenant, me.token, FailState(me.error, me.cp), None)
    <3> DEFINE s == FailState(me.error, me.cp)
    <3>1. s \in Store!FinishStates /\ s # "succeeded"
      BY DEF FailState, Store!FinishStates
    <3> HIDE DEF s
    <3>2. Reports(w, s, None)
      BY <2>1, <2>3, <3>1 DEF Reports, s
    <3> QED
      BY <2>1, <3>2 DEF Kinds, Stops
  <2> QED
    BY <1>5, <2>2, <2>3 DEF Fail
<1>6. CASE SoftLimit(w)
  BY <1>2, <1>6 DEF SoftLimit
<1>7. CASE Finish(w)
  BY <1>2, <1>4, <1>7 DEF Finish
<1> QED
  BY <1>3, <1>5, <1>6, <1>7

\* The heartbeat renews, or notes its error.
LEMMA HeartbeatKind ==
  ASSUME Copies, NEW w \in Workers, Heartbeat(w)
  PROVE  Kinds(w)
<1> DEFINE me == workers[w]
           Beats(b) == [me EXCEPT !.beat = b]
           Stopped(e) == [me EXCEPT !.beat = FALSE, !.fault = e]
<1>1. LocalOK(me) /\ me \in Worker /\ me.cp \in Checkpoints /\ CpOK(me.cp)
  BY WorkerRow DEF LocalOK
<1>2. Busy(w) /\ UNCHANGED world /\ me.pc # "idle"
  BY <1>1 DEF Heartbeat, LocalOK, Busy, At
<1>3. ASSUME NEW new \in Worker, new.pc = me.pc, new.run = me.run, new.token = me.token,
             new.cp = me.cp, new.call = me.call, new.decision = me.decision,
             new.estimate = me.estimate, new.error = me.error, new.fault # "limit",
             new.fault = "cancelled" => me.fault = "cancelled" \/ Row(w).cancel
      PROVE  MoveOK(w, new)
  <2>1. LocalOK(new)
    BY <1>1, <1>2, <1>3 DEF LocalOK
  <2>2. Goes(me, new)
    BY <1>2, <1>3, <2>1 DEF Goes
  <2>3. /\ Fresh(new) => Fresh(me)
        /\ Unasked(new) => Unasked(me)
        /\ Acting(new) => Acting(me)
    BY <1>3 DEF Fresh, Unasked, Undone, Acting
  <2> QED
    BY <1>3, <2>2, <2>3 DEF MoveOK
<1>4. CASE /\ Store!Guard(me.run, Row(w).tenant, me.token)
           /\ Set(w, Beats(Row(w).deadline > 0))
  <2> DEFINE b == Row(w).deadline > 0
             new == Beats(b)
  <2>1. b \in BOOLEAN /\ Set(w, new)
    BY <1>4
  <2> HIDE DEF b
  <2>2. /\ new \in Worker /\ new.pc = me.pc /\ new.run = me.run /\ new.token = me.token
        /\ new.cp = me.cp /\ new.call = me.call /\ new.decision = me.decision
        /\ new.estimate = me.estimate /\ new.error = me.error /\ new.fault = me.fault
    BY <1>1, <2>1 DEF Worker
  <2> HIDE DEF new
  <2>3. me.fault # "limit"
    BY <1>1 DEF LocalOK
  <2>4. MoveOK(w, new)
    BY <1>3, <2>2, <2>3
  <2> QED
    BY <1>2, <1>4, <2>1, <2>4 DEF Kinds, Moves
<1>5. ASSUME NEW e \in StoreErrors(w), Set(w, Stopped(e)), UNCHANGED stored
      PROVE  Kinds(w)
  <2>1. e \in Errors /\ e # "limit" /\ (e = "cancelled" => Row(w).cancel)
    BY StoreErrorsOK
  <2> DEFINE new == Stopped(e)
  <2>2. /\ new \in Worker /\ new.pc = me.pc /\ new.run = me.run /\ new.token = me.token
        /\ new.cp = me.cp /\ new.call = me.call /\ new.decision = me.decision
        /\ new.estimate = me.estimate /\ new.error = me.error /\ new.fault = e
    BY <1>1, <2>1 DEF Worker
  <2>3. Set(w, new)
    BY <1>5
  <2> HIDE DEF new
  <2>4. MoveOK(w, new)
    BY <1>3, <2>1, <2>2
  <2> QED
    BY <1>2, <1>5, <2>3, <2>4 DEF Kinds, Moves
<1> QED
  BY <1>4, <1>5 DEF Heartbeat

\* A worker without a job.
LEMMA IdleOK == Idle \in Worker /\ LocalOK(Idle) /\ Idle.pc = "idle" /\ Idle.error = "none"
<1>1. (CHOOSE r \in RunIds : TRUE) \in RunIds /\ (CHOOSE s \in Settings : TRUE) \in Settings
  BY WorkerConstants
<1>2. /\ EmptyCheckpoint \in Checkpoints /\ EmptyCheckpoint.decisions = 0
      /\ ~EmptyCheckpoint.pending /\ EmptyCheckpoint.final = None
  BY DEF EmptyCheckpoint, Checkpoints, None
<1>3. CpOK(EmptyCheckpoint)
  BY <1>2, WorkerConstants DEF CpOK
<1>4. Idle \in Worker /\ Idle.pc = "idle" /\ Idle.cp = EmptyCheckpoint /\ Idle.fault = "none"
      /\ Idle.beat = FALSE /\ Idle.error = "none"
  BY <1>1, <1>2 DEF Idle, Worker, PCs
<1> QED
  BY <1>3, <1>4 DEF LocalOK

\* A delivery is claimed.
LEMMA DeliverKind ==
  ASSUME Copies, NEW w \in Workers, NEW r \in RunIds, NEW s \in Settings,
         NEW lag \in 0 .. LockWait, Deliver(w, r, s, lag)
  PROVE  Kinds(w)
<1> DEFINE new == Started(r, s)
           cp == agent_runs[r].checkpoint
           t == Len(agent_attempts[r]) + 1
<1>1. /\ At(w, "idle") /\ Set(w, new) /\ UNCHANGED world
      /\ Store!Claim(r, agent_runs[r].tenant, agent_runs[r].input, lag)
  BY DEF Deliver, Started
<1>2. ~Store!UnsafePending(cp) /\ CpOK(cp) /\ cp \in Checkpoints
  BY <1>1, ClaimRow DEF Copies, CpOK
<1>3. t = agent_runs[r].attempts + 1 /\ t \in Nat
  BY StoreRow DEF Copies
<1>4. /\ new = [Idle EXCEPT !.pc = "limits", !.run = r, !.token = t,
                            !.cp = cp, !.settings = s, !.beat = TRUE]
  BY DEF Started
<1> HIDE DEF cp, t, new
<1>5. Idle \in Worker /\ Idle.fault = "none" /\ Idle.error = "none"
  BY IdleOK DEF Idle
<1>6. /\ new \in Worker /\ new.pc = "limits" /\ new.run = r /\ new.token = t
      /\ new.cp = cp /\ new.error = "none" /\ new.fault = "none"
  BY <1>2, <1>3, <1>4, <1>5 DEF Worker, PCs
<1>7. LocalOK(new)
  BY <1>2, <1>6 DEF LocalOK
<1>8. Starts(w, r, new)
  BY <1>1, <1>3, <1>6, <1>7 DEF Starts, cp
<1> QED
  BY <1>8 DEF Kinds

\* Every step of a worker is of one of the kinds.
LEMMA StepKind ==
  ASSUME Copies, NEW w \in Workers, WorkerStep(w)
  PROVE  Kinds(w)
  BY DeliverKind, StoreLimitsKind, LoopHeadKind, DecideKind, AdmitKind, InvokeKind,
     ReconcileKind, ReserveKind, DecidedKind, StoreReceiptKind, StoreFinalKind, PendKind,
     EffectKind, ToolGuardKind, ObserveKind, RecoverKind, EndKind, HeartbeatKind
     DEF WorkerStep
=============================================================================
