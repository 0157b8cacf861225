-------------------------- MODULE SubmissionProofs --------------------------
(***************************************************************************)
(* Proofs about submission and publication, for every number of runs,      *)
(* tenants, keys and concurrent requests and every queue bound.            *)
(***************************************************************************)
EXTENDS Submission, TLAPS

\* The theorems of the run store, about the store these requests work on.
StoreProofs == INSTANCE RunStoreProofs

Caller ==
  [pc : {"idle", "own", "register", "publish", "mark"},
   run : RunIds \cup {Done.run}, tenant : Tenants \cup {Done.tenant}]

TypeOK ==
  /\ callers \in [Callers -> Caller]
  /\ \A c \in Callers : ~At(c, "idle") =>
       callers[c].run \in RunIds /\ callers[c].tenant \in Tenants
  /\ owner \in [RunIds -> Tenants \cup {NoOwner}]
  /\ queue \in [RunIds -> Nat]
  /\ sent \in [RunIds -> {"never", "now", "earlier"}]

\* A message in the queue and a request about to confirm were preceded by a send.
MessageWasSent ==
  /\ \A r \in RunIds : queue[r] > 0 => sent[r] # "never"
  /\ \A c \in Callers : At(c, "mark") => sent[callers[c].run] # "never"

\* A key exists for rows only; no row is created under somebody's key.
OwnedExists == \A r \in RunIds : owner[r] # NoOwner => Store!Exists(r)

\* The inductive invariant.
IInv ==
  /\ Store!IInv /\ TypeOK
  /\ MessageWasSent /\ OwnedExists /\ ConfirmedWasSent /\ OwnerIsTenant

-----------------------------------------------------------------------------
(* The store behind the requests.                                          *)

\* The store of this module is the store the theorems are about.
LEMMA SameStore ==
  /\ Store!Init <=> StoreProofs!Init
  /\ Store!Next <=> StoreProofs!Next
  /\ Store!IInv <=> StoreProofs!IInv
  /\ Store!IInv' <=> StoreProofs!IInv'
  BY DEF Store!TERMINAL, StoreProofs!TERMINAL, Store!FinishStates, StoreProofs!FinishStates,
         Store!States, StoreProofs!States, Store!NoToken, StoreProofs!NoToken, Store!NoTime,
         StoreProofs!NoTime, Store!Run, StoreProofs!Run, Store!Attempt, StoreProofs!Attempt,
         Store!GetTxs, StoreProofs!GetTxs, Store!NewRun, StoreProofs!NewRun, Store!Absent,
         StoreProofs!Absent, Store!Init, StoreProofs!Init, Store!Exists, StoreProofs!Exists,
         Store!Unlocked, StoreProofs!Unlocked, Store!Visible, StoreProofs!Visible,
         Store!UnsafePending, StoreProofs!UnsafePending, Store!Holders, StoreProofs!Holders,
         Store!SetAttempt, StoreProofs!SetAttempt, Store!Create, StoreProofs!Create,
         Store!AttemptsLeft, StoreProofs!AttemptsLeft, Store!LeaseLive, StoreProofs!LeaseLive,
         Store!ClaimRefused, StoreProofs!ClaimRefused, Store!FirstDeadline,
         StoreProofs!FirstDeadline, Store!Claimed, StoreProofs!Claimed, Store!Claim,
         StoreProofs!Claim, Store!Owned, StoreProofs!Owned, Store!Guard, StoreProofs!Guard,
         Store!Checkpoint, StoreProofs!Checkpoint, Store!Outcome, StoreProofs!Outcome,
         Store!Finished, StoreProofs!Finished, Store!Finish, StoreProofs!Finish,
         Store!SettleCancelled, StoreProofs!SettleCancelled, Store!SettleReview,
         StoreProofs!SettleReview, Store!SettleDeadline, StoreProofs!SettleDeadline,
         Store!Settle, StoreProofs!Settle, Store!GetCancelled, StoreProofs!GetCancelled,
         Store!GetReview, StoreProofs!GetReview, Store!GetDeadline, StoreProofs!GetDeadline,
         Store!MarkPublished, StoreProofs!MarkPublished, Store!Cancel, StoreProofs!Cancel,
         Store!ResumeRefused, StoreProofs!ResumeRefused, Store!Resume, StoreProofs!Resume,
         Store!RunDown, StoreProofs!RunDown, Store!Tick, StoreProofs!Tick, Store!Tokens,
         StoreProofs!Tokens, Store!OwnerStep, StoreProofs!OwnerStep, Store!ApiStep,
         StoreProofs!ApiStep, Store!Next, StoreProofs!Next, Store!TypeOK, StoreProofs!TypeOK,
         Store!RowOK, StoreProofs!RowOK, Store!IInv, StoreProofs!IInv

\* The store's assumptions hold of the constants handed to it.
LEMMA StoreAssumed == StoreProofs!StoreConstants
  BY StoreAssumption DEF Store!StoreConstants, StoreProofs!StoreConstants

\* What holds of the store's rows holds here as long as every step is a step of
\* the store or leaves it alone.
LEMMA StoreInductive ==
  /\ Store!Init => Store!IInv
  /\ Store!IInv /\ (Store!Next \/ UNCHANGED stored) => Store!IInv'
<1>1. StoreProofs!IInv /\ [StoreProofs!Next]_(StoreProofs!vars) => StoreProofs!IInv'
  BY StoreAssumed, StoreProofs!NextIInv
<1>2. StoreProofs!Init => StoreProofs!IInv
  BY StoreAssumed, StoreProofs!InitIInv
<1>3. StoreProofs!vars = stored
  BY DEF StoreProofs!vars, stored
<1>4. StoreProofs!vars' = stored'
  BY DEF StoreProofs!vars, stored
<1> QED
  BY <1>1, <1>2, <1>3, <1>4, SameStore

\* A run that exists keeps its tenant.
Stays(q) ==
  Store!Exists(q) =>
    agent_runs'[q].state # "absent" /\ agent_runs'[q].tenant = agent_runs[q].tenant

\* Its attempts and its publication mark do not grow.
Quiet(q) ==
  /\ agent_runs'[q].attempts = agent_runs[q].attempts
  /\ agent_runs'[q].published => agent_runs[q].published

\* What the requests need of a row.
LEMMA StoreRow ==
  ASSUME Store!IInv, NEW r \in RunIds
  PROVE  /\ agent_runs[r] \in Store!Run /\ agent_runs \in [RunIds -> Store!Run]
         /\ agent_attempts[r] \in Seq(Store!Attempt)
         /\ ~Store!Exists(r) => agent_runs[r].attempts = 0
  BY DEF Store!IInv, Store!TypeOK, Store!RowOK, Store!Exists

\* The calls that neither start an attempt nor confirm a publication.
LEMMA CreateRow ==
  ASSUME Store!IInv, NEW r \in RunIds, NEW n \in Tenants, NEW i \in Inputs,
         NEW k \in Keys \cup {NoKey}, Store!Create(r, n, i, k), NEW q \in RunIds
  PROVE  /\ Stays(q) /\ Quiet(q)
         /\ agent_runs'[r].state # "absent" /\ agent_runs'[r].tenant = n
         /\ ~Store!Exists(r)
<1>1. agent_runs' = [agent_runs EXCEPT ![r] = Store!NewRun(n, i, k, "queued")] /\ ~Store!Exists(r)
  BY DEF Store!Create
<1>2. CASE q = r
  BY <1>1, <1>2, StoreRow DEF Store!NewRun, Stays, Quiet
<1>3. CASE q # r
  BY <1>1, <1>3, StoreRow DEF Store!NewRun, Stays, Quiet, Store!Exists
<1> QED
  BY <1>2, <1>3

\* resume changes the queueing of the run only.
LEMMA ResumeRow ==
  ASSUME Store!IInv, NEW r \in RunIds, NEW n \in Tenants, Store!Resume(r, n), NEW q \in RunIds
  PROVE  Stays(q) /\ Quiet(q) /\ Store!Visible(r, n)
<1>1. /\ agent_runs' = [agent_runs EXCEPT ![r] =
              [agent_runs[r] EXCEPT !.state = "queued", !.token = Store!NoToken,
                                    !.lease = Store!NoTime, !.published = FALSE]]
      /\ Store!Visible(r, n)
  BY StoreRow DEF Store!Resume
<1> QED
  BY <1>1, StoreRow DEF Stays, Quiet, Store!Exists, Store!Run

\* cancel changes the lifecycle of the run only.
LEMMA CancelRow ==
  ASSUME Store!IInv, NEW r \in RunIds, NEW n \in Tenants, Store!Cancel(r, n), NEW q \in RunIds
  PROVE  Stays(q) /\ Quiet(q)
<1> DEFINE s == IF Store!LeaseLive(agent_runs[r], 0) THEN "running" ELSE "cancelled"
<1>1. agent_runs' = [agent_runs EXCEPT ![r] = [agent_runs[r] EXCEPT !.cancel = TRUE, !.state = s]]
  BY StoreRow DEF Store!Cancel
<1>2. s # "absent"
  OBVIOUS
<1> HIDE DEF s
<1> QED
  BY <1>1, <1>2, StoreRow DEF Stays, Quiet, Store!Exists, Store!Run

\* So does the reconciliation of get,
LEMMA SettleRow ==
  ASSUME Store!IInv, NEW r \in RunIds, NEW s, Store!Settle(r, s), s # "absent", NEW q \in RunIds
  PROVE  Stays(q) /\ Quiet(q)
<1>1. CASE UNCHANGED agent_runs
  BY <1>1 DEF Stays, Quiet, Store!Exists
<1>2. CASE agent_runs' = [agent_runs EXCEPT ![r] = [agent_runs[r] EXCEPT
                            !.state = s, !.token = Store!NoToken, !.lease = Store!NoTime]]
  BY <1>2, StoreRow DEF Stays, Quiet, Store!Exists, Store!Run
<1> QED
  BY <1>1, <1>2, StoreRow DEF Store!Settle

\* in each of its three blocks.
LEMMA GetRow ==
  ASSUME Store!IInv, NEW r \in RunIds, NEW q \in RunIds,
         \/ \E n \in Tenants : Store!GetCancelled(r, n)
         \/ Store!GetReview(r)
         \/ Store!GetDeadline(r)
  PROVE  Stays(q) /\ Quiet(q)
<1>1. PICK s : Store!Settle(r, s) /\ (s # "absent" \/ s = agent_runs[r].state)
  BY DEF Store!SettleCancelled, Store!SettleReview, Store!SettleDeadline,
         Store!GetCancelled, Store!GetReview, Store!GetDeadline
<1>2. CASE s # "absent"
  BY <1>1, <1>2, SettleRow
<1>3. CASE s = agent_runs[r].state
  BY <1>1, <1>3 DEF Store!Settle, Stays, Quiet, Store!Exists
<1> QED
  BY <1>1, <1>2, <1>3

\* The calls of the attempt in charge.
LEMMA OwnerRow ==
  ASSUME Store!IInv, NEW r \in RunIds, NEW n \in Tenants, Store!OwnerStep(r, n), NEW q \in RunIds
  PROVE  Stays(q) /\ Quiet(q)
<1> DEFINE row == agent_runs[r]
<1>0. row \in Store!Run
  BY StoreRow
<1>1. PICK new :
        /\ agent_runs' = [agent_runs EXCEPT ![r] = new]
        /\ new.state # "absent" /\ new.tenant = row.tenant
        /\ new.attempts = row.attempts /\ new.published = row.published
  <2>1. PICK token \in Store!Tokens(r) :
          \/ Store!Guard(r, n, token)
          \/ \E cp \in Checkpoints : Store!Checkpoint(r, n, token, cp)
          \/ \E s \in Store!FinishStates, res \in Results \cup {NoResult} :
               Store!Finish(r, n, token, s, res)
    BY DEF Store!OwnerStep, Store!FinishStates
  <2>2. CASE Store!Guard(r, n, token)
    <3> DEFINE new == [row EXCEPT !.lease = Lease]
    <3>1. agent_runs' = [agent_runs EXCEPT ![r] = new] /\ Store!Exists(r)
      BY <2>2, StoreRow DEF Store!Guard, Store!Visible
    <3>2. /\ new.state = row.state /\ new.tenant = row.tenant
          /\ new.attempts = row.attempts /\ new.published = row.published
      BY <1>0 DEF Store!Run
    <3> HIDE DEF new
    <3> QED
      BY <3>1, <3>2 DEF Store!Exists
  <2>3. ASSUME NEW cp \in Checkpoints, Store!Checkpoint(r, n, token, cp)
        PROVE  /\ agent_runs' = [agent_runs EXCEPT ![r] =
                     [row EXCEPT !.checkpoint = cp, !.lease = Lease]]
               /\ Store!Exists(r)
    BY <2>3, StoreRow DEF Store!Checkpoint, Store!Visible
  <2>4. ASSUME NEW s \in Store!FinishStates, NEW res \in Results \cup {NoResult},
               Store!Finish(r, n, token, s, res)
        PROVE  \E t, x : t \in Store!FinishStates /\ agent_runs' = [agent_runs EXCEPT ![r] =
                 [row EXCEPT !.state = t, !.result = x,
                             !.token = Store!NoToken, !.lease = Store!NoTime]]
    <3> DEFINE out == Store!Outcome(row, s, res)
    <3>1. out[1] \in Store!FinishStates
      BY DEF Store!Outcome, Store!FinishStates
    <3>2. agent_runs' = [agent_runs EXCEPT ![r] = Store!Finished(row, out)]
      BY <2>4 DEF Store!Finish
    <3> HIDE DEF out
    <3> QED
      BY <3>1, <3>2 DEF Store!Finished
  <2>5. CASE \E cp \in Checkpoints : Store!Checkpoint(r, n, token, cp)
    BY <1>0, <2>3, <2>5 DEF Store!Run, Store!Exists
  <2>6. CASE \E s \in Store!FinishStates, res \in Results \cup {NoResult} :
               Store!Finish(r, n, token, s, res)
    <3>1. PICK t, x : t \in Store!FinishStates /\ agent_runs' = [agent_runs EXCEPT ![r] =
                 [row EXCEPT !.state = t, !.result = x,
                             !.token = Store!NoToken, !.lease = Store!NoTime]]
      BY <2>4, <2>6
    <3> DEFINE new == [row EXCEPT !.state = t, !.result = x,
                                  !.token = Store!NoToken, !.lease = Store!NoTime]
    <3>2. /\ new.state = t /\ new.tenant = row.tenant
          /\ new.attempts = row.attempts /\ new.published = row.published
      BY <1>0 DEF Store!Run
    <3>3. agent_runs' = [agent_runs EXCEPT ![r] = new]
      BY <3>1
    <3>4. t # "absent"
      BY <3>1 DEF Store!FinishStates
    <3> HIDE DEF new
    <3> QED
      BY <3>2, <3>3, <3>4
  <2> QED
    BY <2>1, <2>2, <2>5, <2>6
<1> QED
  BY <1>1, StoreRow DEF Stays, Quiet, Store!Exists

\* The clock.
LEMMA TickRow ==
  ASSUME Store!IInv, Store!Tick, NEW q \in RunIds
  PROVE  Stays(q) /\ Quiet(q)
<1>1. agent_runs'[q] = [agent_runs[q] EXCEPT !.lease = Store!RunDown(agent_runs[q].lease),
                                             !.deadline = Store!RunDown(agent_runs[q].deadline)]
  BY StoreRow DEF Store!Tick, Store!Run
<1> QED
  BY <1>1, StoreRow DEF Stays, Quiet, Store!Exists, Store!Run

\* The calls that do start an attempt or confirm a publication change nothing else.
LEMMA ClaimRow ==
  ASSUME Store!IInv, NEW r \in RunIds, NEW n, NEW i, NEW lag, Store!Claim(r, n, i, lag),
         NEW q \in RunIds
  PROVE  /\ Stays(q) /\ (q # r => Quiet(q))
         /\ agent_runs'[q].published = agent_runs[q].published
<1> DEFINE row == agent_runs[r]
           new == Store!Claimed(row, Len(agent_attempts[r]) + 1, lag)
<1>1. agent_runs' = [agent_runs EXCEPT ![r] = new]
  BY DEF Store!Claim
<1>2. new.state = "running" /\ new.tenant = row.tenant /\ new.published = row.published
  BY StoreRow DEF Store!Claimed, Store!Run
<1> HIDE DEF new
<1> QED
  BY <1>1, <1>2, StoreRow DEF Stays, Quiet, Store!Exists

\* mark_published sets the flag of one row.
LEMMA MarkRow ==
  ASSUME Store!IInv, NEW r \in RunIds, NEW n, Store!MarkPublished(r, n), NEW q \in RunIds
  PROVE  /\ Stays(q) /\ (q # r => Quiet(q))
         /\ agent_runs'[q].attempts = agent_runs[q].attempts
<1>1. agent_runs' = [agent_runs EXCEPT ![r] = [agent_runs[r] EXCEPT !.published = TRUE]]
  BY StoreRow DEF Store!MarkPublished
<1> QED
  BY <1>1, StoreRow DEF Stays, Quiet, Store!Exists, Store!Run

-----------------------------------------------------------------------------
(* The steps.                                                              *)

\* Nothing of what the requests rely on in the store changes.
Alone == \A q \in RunIds : Stays(q) /\ Quiet(q)

\* What IInv says beyond the store.
Requests == TypeOK /\ MessageWasSent /\ OwnedExists /\ ConfirmedWasSent /\ OwnerIsTenant

\* A step that leaves the store alone.
LEMMA AloneIfUnchanged ==
  ASSUME UNCHANGED stored
  PROVE  Alone
  BY DEF stored, Alone, Stays, Quiet, Store!Exists

\* What survives a step of the store that keeps the tenants of its rows.
LEMMA RowsKept ==
  ASSUME OwnedExists, OwnerIsTenant, \A q \in RunIds : Stays(q)
  PROVE  /\ UNCHANGED owner => OwnedExists'
         /\ UNCHANGED <<owner, callers>> => OwnerIsTenant'
         /\ \A q \in RunIds : owner[q] \in {NoOwner, agent_runs'[q].tenant}
         /\ \A q \in RunIds, c \in Callers : callers[c].pc # "idle" /\ callers[c].run = q =>
              /\ agent_runs'[q].state # "absent"
              /\ agent_runs'[q].tenant = callers[c].tenant
<1>1. \A q \in RunIds : owner[q] \in {NoOwner, agent_runs'[q].tenant}
  BY DEF OwnedExists, OwnerIsTenant, Stays
<1>2. \A q \in RunIds, c \in Callers : callers[c].pc # "idle" /\ callers[c].run = q =>
        agent_runs'[q].state # "absent" /\ agent_runs'[q].tenant = callers[c].tenant
  BY DEF OwnerIsTenant, Stays, Store!Visible
<1>3. UNCHANGED owner => OwnedExists'
  BY DEF OwnedExists, Stays, Store!Exists
<1>4. UNCHANGED <<owner, callers>> => OwnerIsTenant'
  BY <1>1, <1>2 DEF OwnerIsTenant, Store!Visible, Store!Exists
<1> QED
  BY <1>1, <1>2, <1>3, <1>4

\* A step of the store alone.
LEMMA StoreOnly ==
  ASSUME Requests, Alone, UNCHANGED <<callers, owner, queue, sent>>
  PROVE  Requests'
<1>1. TypeOK' /\ MessageWasSent'
  BY DEF Requests, TypeOK, MessageWasSent, At
<1>2. OwnedExists' /\ OwnerIsTenant'
  BY RowsKept DEF Alone, Requests
<1>3. ConfirmedWasSent'
  BY DEF Alone, Requests, ConfirmedWasSent, Quiet
<1> QED
  BY <1>1, <1>2, <1>3 DEF Requests

\* A request starts to work on a run of its tenant.
LEMMA Entered ==
  ASSUME Requests, Alone, NEW c \in Callers, NEW r \in RunIds, NEW n \in Tenants,
         Enter(c, r, n), agent_runs'[r].state # "absent", agent_runs'[r].tenant = n,
         UNCHANGED <<owner, queue>>,
         sent' = sent \/ sent' = [sent EXCEPT ![r] = IF @ = "now" THEN "earlier" ELSE @]
  PROVE  Requests'
<1>1. /\ \A d \in Callers : d # c => callers'[d] = callers[d]
      /\ callers'[c].pc = "own" /\ callers'[c].run = r /\ callers'[c].tenant = n
  BY DEF Requests, TypeOK, Enter
<1>2. callers' \in [Callers -> Caller]
  BY DEF Requests, TypeOK, Enter, Caller
<1>3. /\ sent' \in [RunIds -> {"never", "now", "earlier"}]
      /\ \A q \in RunIds : sent[q] # "never" => sent'[q] # "never"
  BY DEF Requests, TypeOK
<1>4. TypeOK'
  BY <1>1, <1>2, <1>3 DEF Requests, TypeOK, At
<1>5. MessageWasSent'
  BY <1>1, <1>2, <1>3 DEF Requests, TypeOK, MessageWasSent, At
<1>6. OwnedExists' /\ \A q \in RunIds : owner'[q] \in {NoOwner, agent_runs'[q].tenant}
  BY RowsKept DEF Alone, Requests
<1>7. OwnerIsTenant'
  BY <1>1, <1>6, RowsKept DEF Alone, Requests, OwnerIsTenant, Store!Visible, Store!Exists
<1>8. ConfirmedWasSent'
  BY <1>3 DEF Alone, Requests, ConfirmedWasSent, Quiet
<1> QED
  BY <1>4, <1>5, <1>6, <1>7, <1>8 DEF Requests

\* A request goes on, or stops, without a call on the store.
LEMMA Moved ==
  ASSUME Requests, NEW c \in Callers, NEW pc \in {"publish", "register"},
         (Goto(c, pc) /\ ~At(c, "idle")) \/ Return(c),
         UNCHANGED <<stored, owner, queue, sent>>
  PROVE  Requests'
<1>1. Alone
  BY AloneIfUnchanged
<1>2. /\ callers' \in [Callers -> Caller]
      /\ \A d \in Callers :
           \/ callers'[d] = callers[d]
           \/ callers'[d].pc = "idle"
           \/ /\ callers'[d].pc \in {"publish", "register"} /\ callers[d].pc # "idle"
              /\ callers'[d].run = callers[d].run /\ callers'[d].tenant = callers[d].tenant
  BY DEF Requests, TypeOK, Caller, Goto, Return, Done, At
<1>3. TypeOK'
  BY <1>2 DEF Requests, TypeOK, At
<1>4. MessageWasSent'
  BY <1>2 DEF Requests, MessageWasSent, At
<1>5. OwnedExists' /\ \A q \in RunIds : owner'[q] \in {NoOwner, agent_runs'[q].tenant}
  BY <1>1, RowsKept DEF Alone, Requests
<1>6. OwnerIsTenant'
  BY <1>1, <1>2, <1>5, RowsKept DEF Alone, Requests, OwnerIsTenant, Store!Visible, Store!Exists
<1>7. ConfirmedWasSent'
  BY <1>1 DEF Alone, Requests, ConfirmedWasSent, Quiet
<1> QED
  BY <1>3, <1>4, <1>5, <1>6, <1>7 DEF Requests

\* The tenant of a run is registered as its owner, once.
LEMMA RegisterKeeps ==
  ASSUME Requests, NEW c \in Callers, Register(c)
  PROVE  Requests'
<1> DEFINE me == callers[c]
<1>1. CASE owner[me.run] # NoOwner
  BY <1>1, Moved DEF Register
<1>2. CASE owner[me.run] = NoOwner
  <2>1. /\ owner' = [owner EXCEPT ![me.run] = me.tenant] /\ Goto(c, "publish")
        /\ At(c, "register") /\ UNCHANGED <<stored, queue, sent>>
    BY <1>2 DEF Register
  <2>2. /\ me.run \in RunIds /\ me.tenant \in Tenants /\ me.pc = "register"
        /\ Store!Visible(me.run, me.tenant)
    BY <2>1 DEF Requests, TypeOK, OwnerIsTenant, At
  <2>3. /\ callers' \in [Callers -> Caller]
        /\ \A d \in Callers :
             \/ callers'[d] = callers[d]
             \/ /\ callers'[d].pc = "publish" /\ callers[d].pc # "idle"
                /\ callers'[d].run = callers[d].run /\ callers'[d].tenant = callers[d].tenant
    BY <2>1 DEF Requests, TypeOK, Caller, Goto, At
  <2>4. owner' \in [RunIds -> Tenants \cup {NoOwner}]
    BY <2>1, <2>2 DEF Requests, TypeOK
  <2>5. TypeOK'
    BY <2>1, <2>3, <2>4 DEF Requests, TypeOK, At
  <2>6. MessageWasSent'
    BY <2>1, <2>3 DEF Requests, MessageWasSent, At
  <2>7. OwnedExists' /\ ConfirmedWasSent'
    BY <2>1, <2>2 DEF Requests, TypeOK, OwnedExists, ConfirmedWasSent, stored, Store!Visible,
                      Store!Exists
  <2>8. OwnerIsTenant'
    BY <2>1, <2>2, <2>3 DEF Requests, TypeOK, OwnerIsTenant, stored, Store!Visible, Store!Exists
  <2> QED
    BY <2>5, <2>6, <2>7, <2>8 DEF Requests
<1> QED
  BY <1>1, <1>2

\* A message is sent before the request confirms it.
LEMMA PublishKeeps ==
  ASSUME Requests, NEW c \in Callers, Publish(c)
  PROVE  Requests'
<1> DEFINE me == callers[c]
<1>1. /\ queue' = [queue EXCEPT ![me.run] = @ + 1] /\ sent' = [sent EXCEPT ![me.run] = "now"]
      /\ Goto(c, "mark") /\ At(c, "publish") /\ UNCHANGED <<stored, owner>>
  BY DEF Publish
<1>2. me.run \in RunIds /\ me.tenant \in Tenants
  BY <1>1 DEF Requests, TypeOK, At
<1>3. /\ callers' \in [Callers -> Caller]
      /\ \A d \in Callers :
           \/ callers'[d] = callers[d] /\ d # c
           \/ /\ d = c /\ callers'[d].pc = "mark" /\ callers[d].pc # "idle"
              /\ callers'[d].run = callers[d].run /\ callers'[d].tenant = callers[d].tenant
  BY <1>1 DEF Requests, TypeOK, Caller, Goto, At
<1>4. /\ queue' \in [RunIds -> Nat] /\ sent' \in [RunIds -> {"never", "now", "earlier"}]
      /\ sent'[me.run] = "now"
      /\ \A q \in RunIds : q # me.run => queue'[q] = queue[q] /\ sent'[q] = sent[q]
  BY <1>1, <1>2 DEF Requests, TypeOK
<1>5. TypeOK'
  BY <1>1, <1>3, <1>4 DEF Requests, TypeOK, At
<1>6. MessageWasSent'
  BY <1>3, <1>4, <1>5 DEF Requests, MessageWasSent, TypeOK, At
<1>7. OwnedExists' /\ ConfirmedWasSent'
  BY <1>1, <1>4 DEF Requests, OwnedExists, ConfirmedWasSent, stored, Store!Exists
<1>8. OwnerIsTenant'
  BY <1>1, <1>3 DEF Requests, OwnerIsTenant, stored, Store!Visible, Store!Exists
<1> QED
  BY <1>5, <1>6, <1>7, <1>8 DEF Requests

\* The confirmation follows a send of the same request.
LEMMA MarkKeeps ==
  ASSUME Store!IInv, Requests, NEW c \in Callers, MarkPublished(c)
  PROVE  Requests'
<1> DEFINE me == callers[c]
<1>1. /\ At(c, "mark") /\ Store!MarkPublished(me.run, me.tenant) /\ Return(c)
      /\ UNCHANGED <<owner, queue, sent>>
  BY DEF MarkPublished
<1>2. me.run \in RunIds /\ sent[me.run] # "never"
  BY <1>1 DEF Requests, TypeOK, MessageWasSent, At
<1>3. \A q \in RunIds : /\ Stays(q) /\ (q # me.run => Quiet(q))
                        /\ agent_runs'[q].attempts = agent_runs[q].attempts
  BY <1>1, <1>2, MarkRow
<1>4. /\ callers' \in [Callers -> Caller]
      /\ \A d \in Callers : callers'[d] = callers[d] \/ callers'[d].pc = "idle"
  BY <1>1 DEF Requests, TypeOK, Caller, Return, Done
<1>5. TypeOK' /\ MessageWasSent'
  BY <1>1, <1>4 DEF Requests, TypeOK, MessageWasSent, At
<1>6. OwnedExists' /\ \A q \in RunIds : owner'[q] \in {NoOwner, agent_runs'[q].tenant}
  BY <1>1, <1>3, RowsKept DEF Requests
<1>7. OwnerIsTenant'
  BY <1>3, <1>4, <1>6, RowsKept DEF Requests, OwnerIsTenant, Store!Visible, Store!Exists
<1>8. ConfirmedWasSent'
  BY <1>1, <1>2, <1>3 DEF Requests, ConfirmedWasSent, Quiet
<1> QED
  BY <1>5, <1>6, <1>7, <1>8 DEF Requests

\* An attempt starts from a message.
LEMMA DeliverKeeps ==
  ASSUME Store!IInv, Requests, NEW r \in RunIds, NEW lag, Deliver(r, lag)
  PROVE  Requests'
<1>1. /\ queue[r] > 0 /\ Store!Claim(r, agent_runs[r].tenant, agent_runs[r].input, lag)
      /\ UNCHANGED <<callers, owner, sent>>
  BY DEF Deliver
<1>2. \A q \in RunIds : /\ Stays(q) /\ (q # r => Quiet(q))
                        /\ agent_runs'[q].published = agent_runs[q].published
  BY <1>1, ClaimRow
<1>3. /\ queue' \in [RunIds -> Nat]
      /\ \A q \in RunIds : queue'[q] > 0 => queue[q] > 0
  BY <1>1 DEF Deliver, Requests, TypeOK
<1>4. TypeOK' /\ MessageWasSent'
  BY <1>1, <1>3 DEF Requests, TypeOK, MessageWasSent, At
<1>5. OwnedExists' /\ OwnerIsTenant'
  BY <1>1, <1>2, RowsKept DEF Requests
<1>6. sent[r] # "never"
  BY <1>1 DEF Requests, MessageWasSent
<1>7. ConfirmedWasSent'
  BY <1>1, <1>2, <1>6 DEF Requests, ConfirmedWasSent, Quiet
<1> QED
  BY <1>4, <1>5, <1>7 DEF Requests

\* The broker and Redis forget.
LEMMA ForgetKeeps ==
  ASSUME Requests, NEW r \in RunIds, Drop(r) \/ OwnerExpires(r)
  PROVE  Requests'
<1>1. CASE Drop(r)
  <2>1. /\ queue' \in [RunIds -> Nat]
        /\ \A q \in RunIds : queue'[q] > 0 => queue[q] > 0
    BY <1>1 DEF Drop, Requests, TypeOK
  <2>2. TypeOK' /\ MessageWasSent'
    BY <1>1, <2>1 DEF Drop, Requests, TypeOK, MessageWasSent, At
  <2>3. OwnedExists' /\ OwnerIsTenant' /\ ConfirmedWasSent'
    BY <1>1 DEF Drop, Requests, OwnedExists, OwnerIsTenant, ConfirmedWasSent, stored,
                Store!Visible, Store!Exists
  <2> QED
    BY <2>2, <2>3 DEF Requests
<1>2. CASE OwnerExpires(r)
  <2>1. /\ owner' \in [RunIds -> Tenants \cup {NoOwner}]
        /\ \A q \in RunIds : owner'[q] \in {owner[q], NoOwner}
    BY <1>2 DEF OwnerExpires, Requests, TypeOK
  <2>2. TypeOK' /\ MessageWasSent'
    BY <1>2, <2>1 DEF OwnerExpires, Requests, TypeOK, MessageWasSent, At
  <2>3. OwnedExists' /\ OwnerIsTenant' /\ ConfirmedWasSent'
    BY <1>2, <2>1 DEF OwnerExpires, Requests, OwnedExists, OwnerIsTenant, ConfirmedWasSent,
                      stored, Store!Visible, Store!Exists
  <2> QED
    BY <2>2, <2>3 DEF Requests
<1> QED
  BY <1>1, <1>2

-----------------------------------------------------------------------------
(* The theorems.                                                           *)

\* Every step of a request keeps the invariant.
LEMMA CallerKeeps ==
  ASSUME Store!IInv, Requests, NEW c \in Callers, CallerStep(c)
  PROVE  Requests' /\ (Store!Next \/ UNCHANGED stored)
<1>1. ASSUME NEW r \in RunIds, NEW n \in Tenants, NEW i \in Inputs,
             NEW k \in Keys \cup {NoKey}, Submit(c, r, n, i, k)
      PROVE  Requests' /\ Store!Next
  <2>1. Store!Create(r, n, i, k) /\ Enter(c, r, n) /\ UNCHANGED <<owner, queue, sent>>
    BY <1>1 DEF Submit
  <2>2. Alone /\ agent_runs'[r].state # "absent" /\ agent_runs'[r].tenant = n
    BY <2>1, CreateRow DEF Alone
  <2>3. Requests'
    BY <2>1, <2>2, Entered
  <2> QED
    BY <2>1, <2>3 DEF Store!Next, Store!ApiStep
<1>2. ASSUME NEW r \in RunIds, NEW n \in Tenants, NEW i \in Inputs, NEW k \in Keys,
             Retry(c, r, n, i, k)
      PROVE  Requests' /\ UNCHANGED stored
  <2>1. Alone /\ Enter(c, r, n) /\ UNCHANGED <<stored, owner, queue, sent>>
    BY <1>2, AloneIfUnchanged DEF Retry
  <2>2. agent_runs'[r].state # "absent" /\ agent_runs'[r].tenant = n
    BY <1>2 DEF Retry, Replayable, Store!Holders, Store!Visible, Store!Exists, stored
  <2> QED
    BY <2>1, <2>2, Entered
<1>3. ASSUME NEW r \in RunIds, NEW n \in Tenants, Resume(c, r, n)
      PROVE  Requests' /\ Store!Next
  <2>1. /\ Store!Resume(r, n) /\ Enter(c, r, n) /\ UNCHANGED <<owner, queue>>
        /\ sent' = [sent EXCEPT ![r] = IF @ = "now" THEN "earlier" ELSE @]
    BY <1>3 DEF Resume
  <2>2. Alone /\ Store!Visible(r, n)
    BY <2>1, ResumeRow DEF Alone
  <2>3. agent_runs'[r].state # "absent" /\ agent_runs'[r].tenant = n
    BY <2>2 DEF Alone, Stays, Store!Visible
  <2>4. Requests'
    BY <2>1, <2>2, <2>3, Entered
  <2> QED
    BY <2>1, <2>4 DEF Store!Next, Store!ApiStep
<1>4. CASE RequireOwner(c)
  <2>1. PICK pc \in {"publish", "register"} : Goto(c, pc)
    BY <1>4 DEF RequireOwner
  <2>2. ~At(c, "idle") /\ UNCHANGED <<stored, owner, queue, sent>>
    BY <1>4 DEF RequireOwner, At
  <2>3. Requests'
    BY <2>1, <2>2, Moved
  <2> QED
    BY <2>2, <2>3
<1>5. CASE Register(c)
  BY <1>5, RegisterKeeps DEF Register
<1>6. CASE Publish(c)
  BY <1>6, PublishKeeps DEF Publish
<1>7. CASE MarkPublished(c)
  <2>1. callers[c].run \in RunIds /\ callers[c].tenant \in Tenants
    BY <1>7 DEF MarkPublished, Requests, TypeOK, At
  <2>2. Store!Next
    BY <1>7, <2>1 DEF MarkPublished, Store!Next, Store!ApiStep
  <2> QED
    BY <1>7, <2>2, MarkKeeps
<1>8. CASE Abandon(c)
  <2>1. Return(c) /\ UNCHANGED <<stored, owner, queue, sent>>
    BY <1>8 DEF Abandon
  <2>2. Requests'
    BY <2>1, Moved
  <2> QED
    BY <2>1, <2>2
<1> QED
  BY <1>1, <1>2, <1>3, <1>4, <1>5, <1>6, <1>7, <1>8 DEF CallerStep

\* The broker, Redis, the attempts and the clock.
LEMMA WorldKeeps ==
  ASSUME Store!IInv, Requests, NEW r \in RunIds,
         \/ OwnerExpires(r) \/ Drop(r) \/ GetBlock(r) \/ Tick
         \/ \E lag \in 0 .. LockWait : Deliver(r, lag)
         \/ \E n \in Tenants : StoreStep(r, n)
  PROVE  Requests' /\ (Store!Next \/ UNCHANGED stored)
<1>1. CASE OwnerExpires(r) \/ Drop(r)
  BY <1>1, ForgetKeeps DEF OwnerExpires, Drop
<1>2. CASE GetBlock(r)
  <2>1. Alone
    BY <1>2, GetRow DEF GetBlock, Alone
  <2>2. Requests'
    BY <1>2, <2>1, StoreOnly DEF GetBlock
  <2> QED
    BY <1>2, <2>2 DEF GetBlock, Store!Next
<1>3. CASE Tick
  <2>1. Alone
    BY <1>3, TickRow DEF Tick, Alone
  <2>2. Requests'
    BY <1>3, <2>1, StoreOnly DEF Tick
  <2> QED
    BY <1>3, <2>2 DEF Tick, Store!Next
<1>4. ASSUME NEW lag \in 0 .. LockWait, Deliver(r, lag)
      PROVE  Requests' /\ Store!Next
  <2>1. agent_runs[r].tenant \in Tenants /\ agent_runs[r].input \in Inputs
    BY StoreRow DEF Store!Run
  <2>2. Store!Next
    BY <1>4, <2>1 DEF Deliver, Store!Next
  <2> QED
    BY <1>4, <2>2, DeliverKeeps
<1>5. ASSUME NEW n \in Tenants, StoreStep(r, n)
      PROVE  Requests' /\ Store!Next
  <2>1. Alone
    BY <1>5, OwnerRow, GetRow, CancelRow DEF StoreStep, Alone
  <2>2. Requests'
    BY <1>5, <2>1, StoreOnly DEF StoreStep
  <2> QED
    BY <1>5, <2>2 DEF StoreStep, Store!Next, Store!ApiStep
<1> QED
  BY <1>1, <1>2, <1>3, <1>4, <1>5

\* Nothing has been submitted.
LEMMA InitIInv == Init => IInv
<1> SUFFICES ASSUME Init PROVE IInv
  OBVIOUS
<1>1. Store!IInv
  BY StoreInductive DEF Init
<1>2. Done \in Caller /\ Done.pc = "idle"
  BY DEF Done, Caller
<1>3. TypeOK
  BY <1>2 DEF Init, TypeOK, At
<1>4. MessageWasSent /\ OwnedExists
  BY <1>2 DEF Init, MessageWasSent, OwnedExists, At
<1>5. \A r \in RunIds : agent_runs[r].attempts = 0 /\ ~agent_runs[r].published
  BY DEF Init, Store!Init, Store!Absent, Store!NewRun
<1>6. ConfirmedWasSent
  BY <1>5 DEF ConfirmedWasSent
<1>7. OwnerIsTenant
  BY <1>2 DEF Init, OwnerIsTenant
<1> QED
  BY <1>1, <1>3, <1>4, <1>6, <1>7 DEF IInv

\* Every step is one of the store, or leaves it alone.
LEMMA StepOfStore == IInv /\ [Next]_vars => Store!Next \/ UNCHANGED stored
<1> SUFFICES ASSUME IInv, [Next]_vars PROVE Store!Next \/ UNCHANGED stored
  OBVIOUS
<1>1. Store!IInv /\ Requests
  BY DEF IInv, Requests
<1>2. CASE UNCHANGED vars
  BY <1>2 DEF vars, stored
<1>3. CASE Tick
  BY <1>3 DEF Tick, Store!Next
<1> QED
  BY <1>1, <1>2, <1>3, CallerKeeps, WorldKeeps DEF Next

\* Every step keeps the invariant.
LEMMA NextIInv == IInv /\ [Next]_vars => IInv'
<1> SUFFICES ASSUME IInv, [Next]_vars PROVE IInv'
  OBVIOUS
<1>1. Store!IInv /\ Requests
  BY DEF IInv, Requests
<1>2. Store!IInv'
  BY <1>1, StepOfStore, StoreInductive
<1>3. Requests'
  <2>1. CASE UNCHANGED vars
    BY <1>1, <2>1, AloneIfUnchanged, StoreOnly DEF vars, stored
  <2>2. CASE Tick
    BY <1>1, <2>2, TickRow, StoreOnly DEF Tick, Alone
  <2> QED
    BY <1>1, <2>1, <2>2, CallerKeeps, WorldKeeps DEF Next
<1> QED
  BY <1>2, <1>3 DEF IInv, Requests

\* IInv is an invariant of the requests, whichever of them die half way.
THEOREM SubmissionInductive == Spec => []IInv
  BY InitIInv, NextIInv, PTL DEF Spec

\* Publication is confirmed, and a run attempted, only after its job was sent.
THEOREM ConfirmedWasSentHolds == Spec => []ConfirmedWasSent
<1>1. IInv => ConfirmedWasSent
  BY DEF IInv
<1> QED
  BY <1>1, SubmissionInductive, PTL

\* An ownership key names the run's tenant or nobody, and a request works only
\* on runs of its own tenant.
THEOREM OwnerIsTenantHolds == Spec => []OwnerIsTenant
<1>1. IInv => OwnerIsTenant
  BY DEF IInv
<1> QED
  BY <1>1, SubmissionInductive, PTL

\* What the requests and the broker do to the store is what RunStore allows: all
\* that is proved about its runs holds behind the API.
THEOREM RequestsImplementStore == Spec => Store!Spec
<1>1. Init => Store!Init
  BY DEF Init
<1>2. IInv /\ [Next]_vars => [Store!Next]_(Store!vars)
  BY StepOfStore DEF Store!vars, stored
<1> QED
  BY <1>1, <1>2, SubmissionInductive, PTL DEF Spec, Store!Spec
=============================================================================
