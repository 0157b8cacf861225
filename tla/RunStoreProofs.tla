--------------------------- MODULE RunStoreProofs ---------------------------
(***************************************************************************)
(* Proofs about the run store, for every set of runs, tenants, keys and    *)
(* checkpoints and every lease, duration, attempt limit and lock wait.     *)
(***************************************************************************)
EXTENDS RunStore, TLAPS

\* A function on 1..n is a sequence of length n.
LEMMA FunctionIsSeq ==
  ASSUME NEW S, NEW n \in Nat, NEW f \in [1 .. n -> S]
  PROVE  f \in Seq(S) /\ Len(f) = n /\ DOMAIN f = 1 .. n
  OBVIOUS

\* The attempt rows of a run after SetAttempt.
Updated(h, token, s) == [h EXCEPT ![token].state = s]

\* Updating the state of one attempt row keeps the table's length, the other
\* rows and every number.
LEMMA SetAttemptRow ==
  ASSUME NEW h \in Seq(Attempt), NEW token \in 1 .. Len(h),
         NEW s \in {"running", "expired"} \cup FinishStates
  PROVE  /\ Updated(h, token, s) \in Seq(Attempt)
         /\ Len(Updated(h, token, s)) = Len(h)
         /\ DOMAIN Updated(h, token, s) = DOMAIN h
         /\ \A i \in DOMAIN h : Updated(h, token, s)[i].number = h[i].number
         /\ Updated(h, token, s)[token].state = s
<1> DEFINE g == [h EXCEPT ![token].state = s]
<1>1. h \in [1 .. Len(h) -> Attempt] /\ Len(h) \in Nat
  OBVIOUS
<1>2. [h[token] EXCEPT !.state = s] \in Attempt
  BY <1>1 DEF Attempt
<1>3. g = [i \in 1 .. Len(h) |-> IF i = token THEN [h[token] EXCEPT !.state = s] ELSE h[i]]
  BY <1>1
<1>4. g \in [1 .. Len(h) -> Attempt]
  BY <1>1, <1>2, <1>3
<1>5. g \in Seq(Attempt) /\ Len(g) = Len(h) /\ DOMAIN g = 1 .. Len(h)
  BY <1>1, <1>4, FunctionIsSeq
<1>6. \A i \in 1 .. Len(h) : g[i].number = h[i].number
  BY <1>1, <1>3 DEF Attempt
<1>7. g[token].state = s
  BY <1>1, <1>3 DEF Attempt
<1> QED
  BY <1>1, <1>5, <1>6, <1>7 DEF Updated

\* A step that replaces one row and its attempt rows by ones that satisfy RowOK
\* keeps the invariant.
LEMMA RowStep ==
  ASSUME IInv, NEW r \in RunIds, NEW row \in Run, NEW h \in Seq(Attempt), RowOK(row, h),
         agent_runs' = [agent_runs EXCEPT ![r] = row],
         agent_attempts' = [agent_attempts EXCEPT ![r] = h],
         get_tx' \in GetTxs
  PROVE  IInv'
  BY DEF IInv, TypeOK, RowOK

\* The same when the attempt table does not change.
LEMMA RowOnlyStep ==
  ASSUME IInv, NEW r \in RunIds, NEW row \in Run, RowOK(row, agent_attempts[r]),
         agent_runs' = [agent_runs EXCEPT ![r] = row],
         agent_attempts' = agent_attempts,
         get_tx' \in GetTxs
  PROVE  IInv'
  BY DEF IInv, TypeOK, RowOK

\* The blank row is a row.
LEMMA AbsentRow == Absent \in Run /\ Absent.state = "absent"
<1>1. (CHOOSE t \in Tenants : TRUE) \in Tenants /\ (CHOOSE i \in Inputs : TRUE) \in Inputs
  BY StoreConstants
<1> QED
  BY <1>1, StoreConstants DEF Absent, NewRun, Run, States, NoToken, NoTime

\* The NULL encodings lie in the types of their columns.
LEMMA Nulls == NoTime \in Int /\ NoToken \in Nat
  BY StoreConstants DEF NoTime, NoToken

\* The empty tables satisfy the inductive invariant.
LEMMA InitIInv == Init => IInv
<1> SUFFICES ASSUME Init PROVE IInv
  OBVIOUS
<1>1. TypeOK
  BY AbsentRow DEF Init, TypeOK, GetTxs
<1>2. RowOK(Absent, << >>)
  BY StoreConstants DEF RowOK, Absent, NewRun, NoToken, NoTime
<1> QED
  BY <1>1, <1>2 DEF Init, IInv

\* create inserts a fresh row that has no attempts.
LEMMA CreateIInv ==
  ASSUME IInv, NEW r \in RunIds, NEW n \in Tenants, NEW i \in Inputs,
         NEW k \in Keys \cup {NoKey}, Create(r, n, i, k)
  PROVE  IInv'
<1> DEFINE row == NewRun(n, i, k, "queued")
<1>1. row \in Run
  BY StoreConstants DEF NewRun, Run, States, NoToken, NoTime
<1>3. agent_attempts[r] = << >>
  BY DEF Create, Exists, IInv, RowOK
<1>4. RowOK(row, << >>)
  BY StoreConstants DEF RowOK, NewRun, NoToken, NoTime, UnsafePending
<1> QED
  BY <1>1, <1>3, <1>4, RowOnlyStep DEF Create, IInv, TypeOK

\* claim expires the old attempt row, appends the new one and hands it the lease.
LEMMA ClaimIInv ==
  ASSUME IInv, NEW r \in RunIds, NEW n \in Tenants, NEW i \in Inputs,
         NEW lag \in 0 .. LockWait, Claim(r, n, i, lag)
  PROVE  IInv'
<1> DEFINE row == agent_runs[r]
           h   == agent_attempts[r]
           old == IF row.token # NoToken THEN [h EXCEPT ![row.token].state = "expired"] ELSE h
           new == [number |-> row.attempts + 1, state |-> "running"]
           g   == Append(old, new)
           clm == Claimed(row, Len(h) + 1, lag)
<1>1. row \in Run /\ h \in Seq(Attempt) /\ RowOK(row, h) /\ Len(h) \in Nat
  BY DEF IInv, TypeOK
<1>2. row.state \in {"queued", "running"} /\ ~row.cancel /\ row.attempts < MaxAttempts
  BY <1>1, StoreConstants
     DEF Claim, ClaimRefused, LeaseLive, AttemptsLeft, Visible, Exists, TERMINAL,
         FinishStates, States, Run
<1>3. old \in Seq(Attempt) /\ Len(old) = Len(h) /\ DOMAIN old = DOMAIN h
      /\ \A j \in DOMAIN h : old[j].number = h[j].number
  <2>1. CASE row.token = NoToken
    BY <1>1, <2>1
  <2>2. CASE row.token # NoToken
    <3>1. row.token \in 1 .. Len(h)
      BY <1>1, <1>2, <2>2 DEF RowOK, Run, NoToken
    <3>2. old = Updated(h, row.token, "expired")
      BY <2>2 DEF Updated
    <3> HIDE DEF old
    <3> QED
      BY <1>1, <3>1, <3>2, SetAttemptRow
  <2> QED
    BY <2>1, <2>2
<1>4. new \in Attempt
  BY <1>1 DEF Attempt, Run
<1>5. g \in Seq(Attempt) /\ Len(g) = Len(h) + 1 /\ g[Len(h) + 1] = new
      /\ \A j \in 1 .. Len(h) : g[j] = old[j]
  BY <1>1, <1>3, <1>4
<1>6. clm \in Run
  <2>1. Lease - lag \in Int /\ Duration - lag \in Int /\ Len(h) + 1 \in Nat /\ row.attempts + 1 \in Nat
    BY <1>1, StoreConstants DEF Run
  <2> DEFINE d == IF row.deadline = NoTime THEN Duration - lag ELSE row.deadline
  <2>2. d \in Int
    BY <1>1, <2>1 DEF Run
  <2>3. clm = [row EXCEPT !.state = "running", !.attempts = row.attempts + 1,
                          !.token = Len(h) + 1, !.lease = Lease - lag, !.deadline = d]
    BY <1>1 DEF Claimed, FirstDeadline, Run
  <2> HIDE DEF d, clm, row, h
  <2> QED
    BY <1>1, <2>1, <2>2, <2>3 DEF Run, States
<1>7. RowOK(clm, g)
  <2>1. /\ clm.attempts = row.attempts + 1 /\ clm.state = "running" /\ clm.token = Len(h) + 1
        /\ clm.lease = Lease - lag /\ clm.cancel = row.cancel /\ clm.result = row.result
        /\ clm.deadline = IF row.deadline = NoTime THEN Duration - lag ELSE row.deadline
    BY <1>1 DEF Claimed, FirstDeadline, Run
  <2>2. clm.lease # NoTime /\ clm.deadline # NoTime
    BY <1>1, <2>1, StoreConstants DEF NoTime, Run
  <2>3. clm.attempts = Len(g) /\ clm.attempts <= MaxAttempts
    <3>1. row.attempts = Len(h) /\ MaxAttempts \in Nat
      BY <1>1, StoreConstants DEF RowOK
    <3> HIDE DEF row, h, old, new, g, clm
    <3> QED
      BY <1>1, <1>2, <1>5, <2>1, <3>1
  <2>4. \A j \in DOMAIN g : g[j].number = j
    <3>1. DOMAIN h = 1 .. Len(h) /\ row.attempts = Len(h) /\ \A j \in 1 .. Len(h) : h[j].number = j
      BY <1>1 DEF RowOK
    <3>2. new.number = row.attempts + 1
      OBVIOUS
    <3> HIDE DEF row, h, old, new, g
    <3>3. DOMAIN g = 1 .. Len(h) + 1
      BY <1>1, <1>5
    <3> QED
      BY <1>1, <1>3, <1>5, <3>1, <3>2, <3>3
  <2>5. g # << >>
    <3> HIDE DEF g
    <3> QED
      BY <1>5, <1>1
  <2>6. clm.token = Len(g) /\ g[clm.token].state = "running"
    BY <1>5, <2>1
  <2>7. row.result = NoResult
    BY <1>1, <1>2 DEF RowOK
  <2> HIDE DEF row, h, old, new, g, clm
  <2> QED
    BY <1>1, <1>2, <1>5, <2>1, <2>2, <2>3, <2>4, <2>5, <2>6, <2>7 DEF RowOK, NoToken
<1>8. agent_attempts' = [agent_attempts EXCEPT ![r] = g]
  BY DEF Claim, SetAttempt, IInv, TypeOK
<1>9. agent_runs' = [agent_runs EXCEPT ![r] = clm] /\ get_tx' \in GetTxs
  BY DEF Claim, IInv, TypeOK
<1> QED
  BY <1>5, <1>6, <1>7, <1>8, <1>9, RowStep

\* guard only renews the lease of a running row.
LEMMA GuardIInv ==
  ASSUME IInv, NEW r \in RunIds, NEW n \in Tenants, NEW token \in Tokens(r), Guard(r, n, token)
  PROVE  IInv'
<1> DEFINE row == [agent_runs[r] EXCEPT !.lease = Lease]
<1>1. row \in Run
  <2>1. agent_runs[r] \in Run /\ Lease \in Int
    BY StoreConstants DEF IInv, TypeOK
  <2> QED
    BY <2>1 DEF Run
<1>2. RowOK(row, agent_attempts[r])
  BY StoreConstants DEF IInv, TypeOK, RowOK, Run, NoTime, Guard, Owned, LeaseLive, Visible, Exists
<1> QED
  BY <1>1, <1>2, RowOnlyStep DEF Guard, IInv, TypeOK

\* checkpoint replaces the document and renews the lease of a running row.
LEMMA CheckpointIInv ==
  ASSUME IInv, NEW r \in RunIds, NEW n \in Tenants, NEW token \in Tokens(r),
         NEW cp \in Checkpoints, Checkpoint(r, n, token, cp)
  PROVE  IInv'
<1> DEFINE row == [agent_runs[r] EXCEPT !.checkpoint = cp, !.lease = Lease]
<1>1. row \in Run
  <2>1. agent_runs[r] \in Run /\ Lease \in Int
    BY StoreConstants DEF IInv, TypeOK
  <2> QED
    BY <2>1 DEF Run
<1>2. RowOK(row, agent_attempts[r])
  BY StoreConstants
     DEF IInv, TypeOK, RowOK, Run, NoTime, Checkpoint, Owned, LeaseLive, Visible, Exists
<1>3. agent_runs' = [agent_runs EXCEPT ![r] = row]
  BY DEF Checkpoint, IInv, TypeOK
<1> QED
  BY <1>1, <1>2, <1>3, RowOnlyStep DEF Checkpoint, IInv, TypeOK

\* finish closes the row and its attempt with one outcome.
LEMMA FinishIInv ==
  ASSUME IInv, NEW r \in RunIds, NEW n \in Tenants, NEW token \in Tokens(r),
         NEW s \in FinishStates, NEW res \in Results \cup {NoResult},
         res # NoResult <=> s = "succeeded", Finish(r, n, token, s, res)
  PROVE  IInv'
<1> DEFINE row == agent_runs[r]
           h   == agent_attempts[r]
           out == Outcome(row, s, res)
           new == Finished(row, out)
           g   == Updated(h, token, out[1])
<1>1. row \in Run /\ h \in Seq(Attempt) /\ RowOK(row, h) /\ token \in 1 .. Len(h)
  BY DEF IInv, TypeOK, Tokens
<1>2. /\ out[1] \in FinishStates /\ out[2] \in Results \cup {NoResult}
      /\ out[2] # NoResult <=> out[1] = "succeeded"
      /\ row.cancel => out[1] = "cancelled"
  BY DEF Outcome, FinishStates
<1>3. row.state = "running" /\ row.token = token
  BY DEF Finish, Owned, LeaseLive
<1>4. g \in Seq(Attempt) /\ Len(g) = Len(h) /\ DOMAIN g = DOMAIN h
      /\ \A j \in DOMAIN h : g[j].number = h[j].number
  <2>1. out[1] \in {"running", "expired"} \cup FinishStates
    BY <1>2
  <2> HIDE DEF out, h
  <2> QED
    BY <1>1, <2>1, SetAttemptRow
<1>5. new \in Run
  BY <1>1, <1>2, Nulls DEF Finished, Run, States
<1>6. RowOK(new, g)
  <2>1. /\ new.state = out[1] /\ new.result = out[2] /\ new.token = NoToken
        /\ new.attempts = row.attempts /\ new.deadline = row.deadline
        /\ new.cancel = row.cancel
    BY <1>1 DEF Finished, Run
  <2>2. g # << >> /\ h # << >>
    BY <1>1, <1>4
  <2>3. out[1] \notin {"absent", "queued", "running"}
    BY <1>2 DEF FinishStates
  <2> QED
    BY <1>1, <1>2, <1>3, <1>4, <2>1, <2>2, <2>3 DEF RowOK
<1>7. agent_attempts' = [agent_attempts EXCEPT ![r] = g]
  BY DEF Finish, SetAttempt, Updated, IInv, TypeOK
<1>8. agent_runs' = [agent_runs EXCEPT ![r] = new] /\ get_tx' \in GetTxs
  BY DEF Finish, IInv, TypeOK
<1> QED
  BY <1>4, <1>5, <1>6, <1>7, <1>8, RowStep

\* A block of get that settles a running row keeps the invariant.
LEMMA SettleIInv ==
  ASSUME IInv, NEW r \in RunIds, NEW s, Settle(r, s), get_tx' \in GetTxs,
         s # agent_runs[r].state =>
           /\ agent_runs[r].state = "running"
           /\ s \in {"cancelled", "needs_review", "exhausted"}
           /\ agent_runs[r].cancel => s \in {"cancelled", "exhausted"}
  PROVE  IInv'
<1> DEFINE row == agent_runs[r]
           h   == agent_attempts[r]
           new == [row EXCEPT !.state = s, !.token = NoToken, !.lease = NoTime]
           g   == Updated(h, row.token, s)
<1>1. row \in Run /\ h \in Seq(Attempt) /\ RowOK(row, h) 
  BY DEF IInv, TypeOK
<1>2. CASE s = row.state
  BY <1>1, <1>2 DEF Settle, IInv, TypeOK, RowOK
<1>3. CASE s # row.state
  <2>1. /\ row.state = "running" /\ s \in {"cancelled", "needs_review", "exhausted"}
        /\ row.cancel => s \in {"cancelled", "exhausted"}
    BY <1>3
  <2>2. row.token \in 1 .. Len(h) /\ s \in {"running", "expired"} \cup FinishStates
    BY <1>1, <2>1 DEF RowOK, Run, NoToken, FinishStates
  <2>3. g \in Seq(Attempt) /\ Len(g) = Len(h) /\ DOMAIN g = DOMAIN h
        /\ \A j \in DOMAIN h : g[j].number = h[j].number
    <3> HIDE DEF h
    <3> QED
      BY <1>1, <2>2, SetAttemptRow
  <2>4. new \in Run
    <3> HIDE DEF row
    <3> QED
      BY <1>1, <2>1, Nulls DEF Run, States, FinishStates
  <2>5. RowOK(new, g)
    <3>1. /\ new.state = s /\ new.result = row.result /\ new.token = NoToken
          /\ new.attempts = row.attempts /\ new.deadline = row.deadline
          /\ new.cancel = row.cancel
      BY <1>1 DEF Run
    <3>2. g # << >> /\ h # << >>
      BY <2>2, <2>3, <1>1
    <3> HIDE DEF g, h, new
    <3> QED
      BY <1>1, <2>1, <2>3, <3>1, <3>2 DEF RowOK
  <2>6. agent_attempts' = [agent_attempts EXCEPT ![r] = g]
    BY <1>3 DEF Settle, SetAttempt, Updated, IInv, TypeOK
  <2>7. agent_runs' = [agent_runs EXCEPT ![r] = new]
    BY <1>3 DEF Settle, IInv, TypeOK
  <2> HIDE DEF new, g
  <2> QED
    BY <1>1, <2>3, <2>4, <2>5, <2>6, <2>7, RowStep
<1> QED
  BY <1>2, <1>3

\* Each block of get leaves the row alone or settles it with its attempt.
LEMMA GetIInv ==
  ASSUME IInv, NEW r \in RunIds, NEW n \in Tenants,
         GetCancelled(r, n) \/ GetReview(r) \/ GetDeadline(r)
  PROVE  IInv'
<1>1. CASE GetCancelled(r, n)
  BY <1>1, SettleIInv DEF GetCancelled, SettleCancelled, GetTxs
<1>2. CASE GetReview(r)
  BY <1>2, SettleIInv DEF GetReview, SettleReview, GetTxs
<1>3. CASE GetDeadline(r)
  BY <1>3, SettleIInv DEF GetDeadline, SettleDeadline, GetTxs
<1> QED
  BY <1>1, <1>2, <1>3

\* Time passing keeps the invariant: no timer becomes NULL or stops being NULL.
LEMMA TickIInv ==
  ASSUME IInv, Tick
  PROVE  IInv'
<1>a. agent_attempts' = agent_attempts /\ get_tx' = get_tx /\ DOMAIN agent_runs' = RunIds
  BY DEF Tick
<1>b. SUFFICES ASSUME NEW r \in RunIds
               PROVE  agent_runs'[r] \in Run /\ RowOK(agent_runs'[r], agent_attempts[r])
  <2>1. agent_runs' \in [RunIds -> Run]
    BY <1>b DEF Tick
  <2>2. \A r \in RunIds : RowOK(agent_runs'[r], agent_attempts'[r])
    BY <1>a, <1>b
  <2> QED
    BY <1>a, <2>1, <2>2 DEF IInv, TypeOK, RowOK
<1> DEFINE row == agent_runs[r]
           l   == RunDown(row.lease)
           d   == RunDown(row.deadline)
           new == [row EXCEPT !.lease = l, !.deadline = d]
<1>1. row \in Run /\ RowOK(row, agent_attempts[r]) /\ agent_runs'[r] = new
  BY DEF Tick, IInv, TypeOK
<1>2. l \in Int /\ d \in Int /\ (l = NoTime <=> row.lease = NoTime)
      /\ (d = NoTime <=> row.deadline = NoTime)
  BY <1>1, StoreConstants DEF RunDown, Run, NoTime
<1> HIDE DEF row, l, d
<1>4. new \in Run
  BY <1>1, <1>2 DEF Run
<1>5. /\ new.state = row.state /\ new.result = row.result /\ new.token = row.token
      /\ new.attempts = row.attempts /\ new.cancel = row.cancel
      /\ new.checkpoint = row.checkpoint /\ new.lease = l /\ new.deadline = d
  BY <1>1 DEF Run
<1> HIDE DEF new
<1>7. RowOK(new, agent_attempts[r])
  BY <1>1, <1>2, <1>5 DEF RowOK
<1> QED
  BY <1>1, <1>4, <1>7

\* mark_published touches nothing the invariant reads.
LEMMA MarkPublishedIInv ==
  ASSUME IInv, NEW r \in RunIds, NEW n \in Tenants, MarkPublished(r, n)
  PROVE  IInv'
<1> DEFINE row == [agent_runs[r] EXCEPT !.published = TRUE]
<1>0. agent_runs[r] \in Run /\ RowOK(agent_runs[r], agent_attempts[r])
  BY DEF IInv, TypeOK
<1>1. row \in Run
  BY <1>0 DEF Run
<1>2. RowOK(row, agent_attempts[r])
  <2>1. /\ row.state = agent_runs[r].state /\ row.result = agent_runs[r].result
        /\ row.token = agent_runs[r].token /\ row.attempts = agent_runs[r].attempts
        /\ row.cancel = agent_runs[r].cancel /\ row.checkpoint = agent_runs[r].checkpoint
        /\ row.lease = agent_runs[r].lease /\ row.deadline = agent_runs[r].deadline
    BY <1>0 DEF Run
  <2> HIDE DEF row
  <2> QED
    BY <1>0, <2>1 DEF RowOK
<1> QED
  BY <1>1, <1>2, RowOnlyStep DEF MarkPublished, IInv, TypeOK

\* cancel either flags a run whose lease is live or closes it.
LEMMA CancelIInv ==
  ASSUME IInv, NEW r \in RunIds, NEW n \in Tenants, Cancel(r, n)
  PROVE  IInv'
<1> DEFINE old == agent_runs[r]
           s   == IF LeaseLive(old, 0) THEN "running" ELSE "cancelled"
           row == [old EXCEPT !.cancel = TRUE, !.state = s]
<1>0. old \in Run /\ old.state \notin {"absent"} \cup TERMINAL /\ RowOK(old, agent_attempts[r])
  BY DEF IInv, TypeOK, Cancel, Visible, Exists
<1>1. s \in {"running", "cancelled"} /\ (s = "running" => old.state = "running")
  BY DEF LeaseLive
<1>2. row \in Run
  <2> HIDE DEF s, old
  <2> QED
    BY <1>0, <1>1 DEF Run, States, FinishStates
<1>3. RowOK(row, agent_attempts[r])
  <2> HIDE DEF s, old
  <2> QED
    BY <1>0, <1>1 DEF RowOK, Run, TERMINAL
<1>4. agent_runs' = [agent_runs EXCEPT ![r] = row]
  BY DEF Cancel, IInv, TypeOK
<1> HIDE DEF row
<1> QED
  BY <1>2, <1>3, <1>4, RowOnlyStep DEF Cancel, LeaseLive, IInv, TypeOK

\* resume queues only a row that the next claim will accept.
LEMMA ResumeIInv ==
  ASSUME IInv, NEW r \in RunIds, NEW n \in Tenants, Resume(r, n)
  PROVE  IInv'
<1> DEFINE old == agent_runs[r]
           row == [old EXCEPT !.state = "queued", !.token = NoToken, !.lease = NoTime,
                              !.published = FALSE]
<1>0. /\ old \in Run /\ RowOK(old, agent_attempts[r]) /\ ~old.cancel
      /\ old.state \notin TERMINAL /\ old.attempts < MaxAttempts
      /\ ~UnsafePending(old.checkpoint)
  BY StoreConstants DEF IInv, TypeOK, Resume, ResumeRefused, LeaseLive, AttemptsLeft, Run
<1>1. row \in Run
  BY <1>0, Nulls DEF Run, States
<1>2. RowOK(row, agent_attempts[r])
  <2>1. /\ row.state = "queued" /\ row.token = NoToken /\ row.cancel = old.cancel
        /\ row.attempts = old.attempts /\ row.deadline = old.deadline
        /\ row.checkpoint = old.checkpoint /\ row.result = old.result
    BY <1>0 DEF Run
  <2> HIDE DEF row, old
  <2> QED
    BY <1>0, <2>1 DEF RowOK, TERMINAL
<1>3. agent_runs' = [agent_runs EXCEPT ![r] = row]
  BY DEF Resume, IInv, TypeOK
<1> HIDE DEF row
<1> QED
  BY <1>1, <1>2, <1>3, RowOnlyStep DEF Resume, IInv, TypeOK

\* Every step of the store keeps the inductive invariant.
LEMMA NextIInv == IInv /\ [Next]_vars => IInv'
<1> SUFFICES ASSUME IInv, [Next]_vars PROVE IInv'
  OBVIOUS
<1>1. CASE Tick
  BY <1>1, TickIInv
<1>2. ASSUME NEW r \in RunIds, NEW n \in Tenants, ApiStep(r, n) PROVE IInv'
  BY <1>2, CreateIInv, GetIInv, MarkPublishedIInv, CancelIInv, ResumeIInv DEF ApiStep
<1>3. ASSUME NEW r \in RunIds, NEW n \in Tenants, OwnerStep(r, n) PROVE IInv'
  <2> PICK token \in Tokens(r) :
        \/ Guard(r, n, token)
        \/ \E cp \in Checkpoints : Checkpoint(r, n, token, cp)
        \/ \E res \in Results : Finish(r, n, token, "succeeded", res)
        \/ \E s \in FinishStates \ {"succeeded"} : Finish(r, n, token, s, NoResult)
    BY <1>3 DEF OwnerStep
  <2>1. CASE Guard(r, n, token)
    BY <2>1, GuardIInv
  <2>2. CASE \E cp \in Checkpoints : Checkpoint(r, n, token, cp)
    BY <2>2, CheckpointIInv
  <2>3. CASE \E res \in Results : Finish(r, n, token, "succeeded", res)
    <3> PICK res \in Results : Finish(r, n, token, "succeeded", res)
      BY <2>3
    <3>1. res # NoResult /\ "succeeded" \in FinishStates
      BY StoreConstants DEF FinishStates
    <3> QED
      BY <3>1, FinishIInv
  <2>4. CASE \E s \in FinishStates \ {"succeeded"} : Finish(r, n, token, s, NoResult)
    BY <2>4, FinishIInv
  <2> QED
    BY <2>1, <2>2, <2>3, <2>4
<1>4. ASSUME NEW r \in RunIds, NEW n \in Tenants, NEW i \in Inputs, NEW lag \in 0 .. LockWait,
             Claim(r, n, i, lag)
      PROVE  IInv'
  BY <1>4, ClaimIInv
<1>5. ASSUME NEW r \in RunIds, GetReview(r) \/ GetDeadline(r) PROVE IInv'
  BY <1>5, GetIInv, StoreConstants
<1>6. CASE UNCHANGED vars
  BY <1>6 DEF vars, IInv, TypeOK, RowOK
<1> QED
  BY <1>1, <1>2, <1>3, <1>4, <1>5, <1>6 DEF Next

\* Every reachable state of the store satisfies the inductive invariant.
THEOREM Inductive == Spec => []IInv
  BY InitIInv, NextIInv, PTL DEF Spec

\* Each invariant the store is checked for holds in every reachable state: rows
\* are well typed, a queued run can be claimed, a running row is complete, a
\* cancellation sticks, attempts are accounted for, and only a succeeded run has
\* a result.
THEOREM StoreInvariants ==
  Spec => [](TypeOK /\ QueuedIsClaimable /\ RunningIsComplete /\ CancelSticks
             /\ AttemptsAccounted /\ ResultIffSucceeded)
<1>1. IInv => TypeOK
  BY DEF IInv
<1>2. IInv => QueuedIsClaimable
  BY StoreConstants
     DEF IInv, TypeOK, RowOK, QueuedIsClaimable, ClaimRefused, LeaseLive, AttemptsLeft,
         TERMINAL, Run
<1>3. IInv => RunningIsComplete
  <2> SUFFICES ASSUME IInv, NEW r \in RunIds, agent_runs[r].state = "running"
               PROVE  /\ agent_runs[r].lease # NoTime /\ agent_runs[r].deadline # NoTime
                      /\ agent_runs[r].token = Len(agent_attempts[r])
                      /\ agent_runs[r].token \in DOMAIN agent_attempts[r]
                      /\ agent_attempts[r][agent_runs[r].token].state = "running"
    BY DEF RunningIsComplete
  <2>1. agent_runs[r] \in Run /\ agent_attempts[r] \in Seq(Attempt)
    BY DEF IInv, TypeOK
  <2> QED
    BY <2>1 DEF IInv, RowOK, Run, NoToken
<1>4. IInv => CancelSticks
  BY DEF IInv, RowOK, CancelSticks
<1>5. IInv => AttemptsAccounted
  BY DEF IInv, RowOK, AttemptsAccounted
<1>6. IInv => ResultIffSucceeded
  BY DEF IInv, RowOK, ResultIffSucceeded
<1> QED
  BY <1>1, <1>2, <1>3, <1>4, <1>5, <1>6, Inductive, PTL

\* No method of SQLiteRunStore writes a value outside its column's domain.
THEOREM RowsAreTyped == Spec => []TypeOK
  BY StoreInvariants, PTL

\* A message that arrives always finds a queued run that claim accepts: no row
\* waits for a worker that would refuse it.
THEOREM QueuedRunsCanStart == Spec => []QueuedIsClaimable
  BY StoreInvariants, PTL

\* Once cancel marked a run, no late finish, takeover, settlement or resume makes
\* it succeed, fail, wait for review or be queued again.
THEOREM CancellationSticks == Spec => []CancelSticks
  BY StoreInvariants, PTL

\* The counter of claim equals the attempt rows, which have no gap and never
\* pass max_attempts, through every mix of takeovers and resumes.
THEOREM AttemptsAreAccounted == Spec => []AttemptsAccounted
  BY StoreInvariants, PTL

\* A result is stored when and only when the run has succeeded, whatever the
\* order of finish, cancel and resume.
THEOREM ResultMeansSuccess == Spec => []ResultIffSucceeded
  BY StoreInvariants, PTL

-----------------------------------------------------------------------------
(* Action properties.                                                      *)

\* Every step of Next is one of these.
StoreStep(r, n) ==
  \/ \E i \in Inputs, k \in Keys \cup {NoKey} : Create(r, n, i, k)
  \/ \E i \in Inputs, lag \in 0 .. LockWait : Claim(r, n, i, lag)
  \/ GetCancelled(r, n) \/ GetReview(r) \/ GetDeadline(r)
  \/ MarkPublished(r, n) \/ Cancel(r, n) \/ Resume(r, n)
  \/ \E token \in Tokens(r) :
       \/ Guard(r, n, token)
       \/ \E cp \in Checkpoints : Checkpoint(r, n, token, cp)
       \/ \E s \in FinishStates, res \in Results \cup {NoResult} :
            (res # NoResult <=> s = "succeeded") /\ Finish(r, n, token, s, res)

\* A step is a tick, a stutter, or one method call on one run.
LEMMA StepCases ==
  ASSUME Next
  PROVE  Tick \/ \E r \in RunIds, n \in Tenants : StoreStep(r, n)
<1>1. ASSUME NEW r \in RunIds, NEW n \in Tenants, OwnerStep(r, n) PROVE StoreStep(r, n)
  BY <1>1, StoreConstants DEF OwnerStep, StoreStep, FinishStates
<1>2. ASSUME NEW r \in RunIds, NEW n \in Tenants, ApiStep(r, n) PROVE StoreStep(r, n)
  BY <1>2 DEF ApiStep, StoreStep
<1>3. ASSUME NEW r \in RunIds, GetReview(r) \/ GetDeadline(r)
      PROVE  \E n \in Tenants : StoreStep(r, n)
  BY <1>3, StoreConstants DEF StoreStep
<1> QED
  BY <1>1, <1>2, <1>3 DEF Next, StoreStep

\* A step of the store changes the row and the attempts of its own run only.
LEMMA OneRunPerStep ==
  ASSUME IInv, NEW r \in RunIds, NEW n \in Tenants, StoreStep(r, n),
         NEW q \in RunIds, q # r
  PROVE  agent_runs'[q] = agent_runs[q] /\ agent_attempts'[q] = agent_attempts[q]
  BY DEF IInv, TypeOK, StoreStep, Create, Claim, GetCancelled, GetReview, GetDeadline, Settle,
         MarkPublished, Cancel, Resume, Guard, Checkpoint, Finish, SetAttempt

(* What a step may do to the row of its run (row becomes new) and to the   *)
(* run's attempt rows (h becomes g).                                       *)

\* The columns every step but a claim, an end and a cancellation keeps.
SameProgress(row, new) ==
  /\ new.attempts = row.attempts /\ new.cancel = row.cancel
  /\ new.result = row.result /\ new.deadline = row.deadline

Inserts(row, new, h, g) ==   \* create
  /\ row.state = "absent" /\ new.state = "queued" /\ g = h
  /\ new.attempts = 0 /\ ~new.cancel /\ new.result = NoResult
  /\ new.deadline = NoTime /\ new.checkpoint = EmptyCheckpoint

Takes(row, new, h, g) ==     \* claim
  /\ row.state = "queued" \/ (row.state = "running" /\ row.lease <= 0)
  /\ ~row.cancel /\ row.attempts < MaxAttempts
  /\ new.state = "running" /\ new.attempts = row.attempts + 1
  /\ new.cancel = row.cancel /\ new.result = row.result
  /\ new.checkpoint = row.checkpoint
  /\ row.deadline # NoTime => new.deadline = row.deadline
  /\ g # << >>

Renews(row, new, h, g) ==    \* guard, checkpoint
  /\ row.state = "running" /\ row.lease > 0 /\ ~row.cancel
  /\ new.state = "running" /\ new.token = row.token
  /\ SameProgress(row, new) /\ g = h

Ends(row, new, h, g) ==      \* finish, and a block of get that settles the run
  /\ row.state = "running" /\ new.state \in FinishStates /\ new.token = NoToken
  /\ row.cancel => new.state \in {"cancelled", "exhausted"}
  /\ IF new.state = "succeeded" THEN new.result \in Results ELSE new.result = NoResult
  /\ new.attempts = row.attempts /\ new.cancel = row.cancel
  /\ new.deadline = row.deadline /\ new.checkpoint = row.checkpoint
  /\ g[row.token].state = new.state

Cancels(row, new, h, g) ==   \* cancel
  /\ row.state \in {"queued", "running", "failed"} /\ new.cancel
  /\ new.state = IF row.state = "running" /\ row.lease > 0 THEN "running" ELSE "cancelled"
  /\ new.attempts = row.attempts /\ new.token = row.token
  /\ new.result = row.result /\ new.deadline = row.deadline
  /\ new.checkpoint = row.checkpoint /\ g = h

Requeues(row, new, h, g) ==  \* resume
  /\ row.state \in {"queued", "failed"} \/ (row.state = "running" /\ row.lease <= 0)
  /\ ~row.cancel /\ row.attempts < MaxAttempts /\ new.state = "queued"
  /\ SameProgress(row, new) /\ new.checkpoint = row.checkpoint /\ g = h

Keeps(row, new, h, g) ==     \* mark_published, and a block of get that does not apply
  /\ new = [row EXCEPT !.published = new.published]
  /\ g = h

RowChange(row, new, h, g) ==
  \/ Inserts(row, new, h, g) \/ Takes(row, new, h, g)   \/ Renews(row, new, h, g)
  \/ Ends(row, new, h, g)    \/ Cancels(row, new, h, g) \/ Requeues(row, new, h, g)
  \/ Keeps(row, new, h, g)

\* A block of get settles the run or leaves it.
LEMMA SettleChange ==
  ASSUME IInv, NEW r \in RunIds, NEW s, Settle(r, s), get_tx' \in GetTxs,
         s # agent_runs[r].state =>
           /\ agent_runs[r].state = "running"
           /\ s \in {"cancelled", "needs_review", "exhausted"}
           /\ agent_runs[r].cancel => s \in {"cancelled", "exhausted"}
  PROVE  RowChange(agent_runs[r], agent_runs'[r], agent_attempts[r], agent_attempts'[r])
<1> DEFINE row == agent_runs[r]
           h   == agent_attempts[r]
<1>0. /\ row \in Run /\ h \in Seq(Attempt) /\ RowOK(row, h)
      /\ agent_runs \in [RunIds -> Run] /\ agent_attempts \in [RunIds -> Seq(Attempt)]
  BY DEF IInv, TypeOK
<1>1. CASE s = row.state
  <2>1. agent_runs'[r] = row /\ agent_attempts'[r] = h
    BY <1>1 DEF Settle
  <2>2. row = [row EXCEPT !.published = row.published]
    BY <1>0 DEF Run
  <2> QED
    BY <2>1, <2>2 DEF RowChange, Keeps
<1>2. CASE s # row.state
  <2>1. /\ agent_runs'[r] = [row EXCEPT !.state = s, !.token = NoToken, !.lease = NoTime]
        /\ agent_attempts'[r] = Updated(h, row.token, s)
    BY <1>0, <1>2 DEF Settle, SetAttempt, Updated
  <2>2. row.token \in 1 .. Len(h) /\ s \in {"running", "expired"} \cup FinishStates
    BY <1>0, <1>2 DEF RowOK, Run, NoToken, FinishStates
  <2>3. agent_attempts'[r][row.token].state = s
    BY <1>0, <2>1, <2>2, SetAttemptRow
  <2>4. row.result = NoResult
    BY <1>0, <1>2 DEF RowOK
  <2>5. Ends(row, agent_runs'[r], h, agent_attempts'[r])
    BY <1>0, <1>2, <2>1, <2>2, <2>3, <2>4 DEF Ends, Run, FinishStates
  <2> QED
    BY <2>5 DEF RowChange
<1> QED
  BY <1>1, <1>2

\* Every step of a run changes its row in one of these ways.
LEMMA StepChange ==
  ASSUME IInv, NEW r \in RunIds, NEW n \in Tenants, StoreStep(r, n)
  PROVE  RowChange(agent_runs[r], agent_runs'[r], agent_attempts[r], agent_attempts'[r])
<1> DEFINE row == agent_runs[r]
           new == agent_runs'[r]
           h   == agent_attempts[r]
           g   == agent_attempts'[r]
<1>0. /\ row \in Run /\ h \in Seq(Attempt) /\ RowOK(row, h)
      /\ agent_runs \in [RunIds -> Run] /\ agent_attempts \in [RunIds -> Seq(Attempt)]
  BY DEF IInv, TypeOK
<1>1. ASSUME NEW i \in Inputs, NEW k \in Keys \cup {NoKey}, Create(r, n, i, k)
      PROVE  Inserts(row, new, h, g)
  <2>1. row.state = "absent" /\ g = h /\ new = NewRun(n, i, k, "queued")
    BY <1>0, <1>1 DEF Create, Exists
  <2> QED
    BY <2>1 DEF Inserts, NewRun
<1>2. ASSUME NEW i \in Inputs, NEW lag \in 0 .. LockWait, Claim(r, n, i, lag)
      PROVE  Takes(row, new, h, g)
  <2>1. new = Claimed(row, Len(h) + 1, lag)
    BY <1>0, <1>2 DEF Claim
  <2>2. /\ new.state = "running" /\ new.attempts = row.attempts + 1
        /\ new.cancel = row.cancel /\ new.result = row.result
        /\ new.checkpoint = row.checkpoint
        /\ row.deadline # NoTime => new.deadline = row.deadline
    BY <1>0, <2>1 DEF Claimed, FirstDeadline, Run
  <2>3. new.attempts = Len(g)
    BY <1>2, ClaimIInv DEF IInv, RowOK
  <2>4. g # << >>
    BY <1>0, <2>2, <2>3 DEF Run
  <2>5. /\ row.state = "queued" \/ (row.state = "running" /\ row.lease <= 0)
        /\ ~row.cancel /\ row.attempts < MaxAttempts
    BY <1>0, <1>2, StoreConstants
       DEF Claim, ClaimRefused, LeaseLive, AttemptsLeft, Visible, Exists, TERMINAL,
           FinishStates, States, Run
  <2> QED
    BY <2>2, <2>4, <2>5 DEF Takes
<1>3. ASSUME NEW token \in Tokens(r), Guard(r, n, token)
      PROVE  Renews(row, new, h, g)
  <2>1. g = h /\ new = [row EXCEPT !.lease = Lease]
    BY <1>0, <1>3 DEF Guard
  <2> QED
    BY <1>0, <1>3, <2>1 DEF Guard, Owned, LeaseLive, Renews, SameProgress, Run
<1>4. ASSUME NEW token \in Tokens(r), NEW cp \in Checkpoints, Checkpoint(r, n, token, cp)
      PROVE  Renews(row, new, h, g)
  <2>1. g = h /\ new = [row EXCEPT !.checkpoint = cp, !.lease = Lease]
    BY <1>0, <1>4 DEF Checkpoint
  <2> QED
    BY <1>0, <1>4, <2>1 DEF Checkpoint, Owned, LeaseLive, Renews, SameProgress, Run
<1>5. ASSUME NEW token \in Tokens(r), NEW s \in FinishStates, NEW res \in Results \cup {NoResult},
             res # NoResult <=> s = "succeeded", Finish(r, n, token, s, res)
      PROVE  Ends(row, new, h, g)
  <2> DEFINE out == Outcome(row, s, res)
  <2>1. new = Finished(row, out) /\ g = Updated(h, token, out[1])
    BY <1>0, <1>5 DEF Finish, SetAttempt, Updated
  <2>2. row.state = "running" /\ row.token = token /\ token \in 1 .. Len(h)
    BY <1>5 DEF Finish, Owned, LeaseLive, Tokens
  <2>3. /\ out[1] \in FinishStates
        /\ row.cancel => out[1] = "cancelled"
        /\ IF out[1] = "succeeded" THEN out[2] \in Results ELSE out[2] = NoResult
    BY <1>5 DEF Outcome, FinishStates
  <2>4. /\ new.state = out[1] /\ new.result = out[2] /\ new.token = NoToken
        /\ new.attempts = row.attempts /\ new.cancel = row.cancel
        /\ new.deadline = row.deadline /\ new.checkpoint = row.checkpoint
    BY <1>0, <2>1 DEF Finished, Run
  <2>5. g[token].state = out[1]
    <3>1. out[1] \in {"running", "expired"} \cup FinishStates
      BY <2>3
    <3>2. Updated(h, token, out[1])[token].state = out[1]
      <4> HIDE DEF out, h
      <4> QED
        BY <1>0, <2>2, <3>1, SetAttemptRow
    <3> QED
      BY <2>1, <3>2
  <2> HIDE DEF out
  <2> QED
    BY <2>2, <2>3, <2>4, <2>5 DEF Ends
<1>6. CASE GetCancelled(r, n)
  BY <1>6, SettleChange DEF GetCancelled, SettleCancelled, GetTxs
<1>7. CASE GetReview(r)
  BY <1>7, SettleChange DEF GetReview, SettleReview, GetTxs
<1>8. CASE GetDeadline(r)
  BY <1>8, SettleChange DEF GetDeadline, SettleDeadline, GetTxs
<1>9. CASE MarkPublished(r, n)
  <2>1. g = h /\ new = [row EXCEPT !.published = TRUE]
    BY <1>0, <1>9 DEF MarkPublished
  <2>2. new.published = TRUE
    BY <1>0, <2>1 DEF Run
  <2> QED
    BY <2>1, <2>2 DEF RowChange, Keeps
<1>10. CASE Cancel(r, n)
  <2>1. /\ g = h /\ row.state \notin TERMINAL \cup {"absent"}
        /\ new = [row EXCEPT !.cancel = TRUE,
               !.state = IF LeaseLive(row, 0) THEN "running" ELSE "cancelled"]
    BY <1>0, <1>10 DEF Cancel, Visible, Exists
  <2>2. row.state \in {"queued", "running", "failed"}
    BY <1>0, <2>1 DEF Run, States, FinishStates, TERMINAL
  <2> QED
    BY <1>0, <2>1, <2>2 DEF RowChange, Cancels, LeaseLive, Run
<1>11. CASE Resume(r, n)
  <2>1. /\ g = h /\ row.state # "absent" /\ ~ResumeRefused(row)
        /\ new = [row EXCEPT !.state = "queued", !.token = NoToken, !.lease = NoTime,
                             !.published = FALSE]
    BY <1>0, <1>11 DEF Resume, Visible, Exists
  <2>2. /\ row.state \in {"queued", "failed"} \/ (row.state = "running" /\ row.lease <= 0)
        /\ ~row.cancel /\ row.attempts < MaxAttempts
    BY <1>0, <2>1, StoreConstants
       DEF ResumeRefused, LeaseLive, AttemptsLeft, Run, States, FinishStates, TERMINAL
  <2>3. new.state = "queued" /\ SameProgress(row, new) /\ new.checkpoint = row.checkpoint
    BY <1>0, <2>1 DEF SameProgress, Run
  <2> QED
    BY <2>1, <2>2, <2>3 DEF RowChange, Requeues
<1> HIDE DEF row, new, h, g
<1>12. CASE \E token \in Tokens(r) :
              \/ Guard(r, n, token)
              \/ \E cp \in Checkpoints : Checkpoint(r, n, token, cp)
              \/ \E s \in FinishStates, res \in Results \cup {NoResult} :
                   (res # NoResult <=> s = "succeeded") /\ Finish(r, n, token, s, res)
  BY <1>3, <1>4, <1>5, <1>12 DEF RowChange, row, new, h, g
<1> QED
  BY <1>1, <1>2, <1>6, <1>7, <1>8, <1>9, <1>10, <1>11, <1>12
     DEF StoreStep, RowChange, row, new, h, g

\* A terminal run is final.
THEOREM TerminalRunsAreFinal == Spec => TerminalIsFinal
<1> DEFINE A == \A r \in RunIds : agent_runs[r].state \in TERMINAL =>
       /\ agent_runs'[r] = [agent_runs[r] EXCEPT !.published = agent_runs'[r].published,
              !.lease = agent_runs'[r].lease, !.deadline = agent_runs'[r].deadline]
       /\ agent_attempts'[r] = agent_attempts[r]
<1>1. IInv /\ [Next]_vars => [A]_vars
  <2> SUFFICES ASSUME IInv, Next, NEW q \in RunIds, agent_runs[q].state \in TERMINAL
               PROVE  /\ agent_runs'[q] = [agent_runs[q] EXCEPT
                             !.published = agent_runs'[q].published,
                             !.lease = agent_runs'[q].lease,
                             !.deadline = agent_runs'[q].deadline]
                      /\ agent_attempts'[q] = agent_attempts[q]
    BY DEF vars
  <2>0. agent_runs[q] \in Run
    BY DEF IInv, TypeOK
  <2>1. CASE Tick
    BY <2>0, <2>1 DEF Tick, Run
  <2>2. ASSUME NEW r \in RunIds, NEW n \in Tenants, StoreStep(r, n), q # r
        PROVE  agent_runs'[q] = agent_runs[q] /\ agent_attempts'[q] = agent_attempts[q]
    BY <2>2, OneRunPerStep
  <2>3. ASSUME NEW n \in Tenants, StoreStep(q, n)
        PROVE  Keeps(agent_runs[q], agent_runs'[q], agent_attempts[q], agent_attempts'[q])
    BY <2>3, StepChange DEF RowChange, Inserts, Takes, Renews, Ends, Cancels, Requeues, TERMINAL
  <2>4. ASSUME NEW row \in Run, NEW new, new = [row EXCEPT !.published = new.published]
        PROVE  new = [row EXCEPT !.published = new.published, !.lease = new.lease,
                                 !.deadline = new.deadline]
    BY <2>4 DEF Run
  <2>5. ASSUME NEW r \in RunIds, NEW n \in Tenants, StoreStep(r, n)
        PROVE  agent_runs'[q] = [agent_runs[q] EXCEPT !.published = agent_runs'[q].published]
               /\ agent_attempts'[q] = agent_attempts[q]
    <3>1. agent_runs[q] = [agent_runs[q] EXCEPT !.published = agent_runs[q].published]
      BY <2>0 DEF Run
    <3> QED
      BY <2>2, <2>3, <2>5, <3>1 DEF Keeps
  <2> QED
    BY <2>0, <2>1, <2>4, <2>5, StepCases
<1> QED
  BY <1>1, Inductive, PTL DEF Spec, TerminalIsFinal

\* A get settles nothing while the lease is live.
LEMMA SettleNeedsExpiry ==
  ASSUME NEW r \in RunIds, NEW n \in Tenants, agent_runs[r] \in Run, agent_runs[r].lease > 0,
         GetCancelled(r, n) \/ GetReview(r) \/ GetDeadline(r)
  PROVE  agent_runs' = agent_runs
<1>1. agent_runs[r].lease \in Int /\ ~(agent_runs[r].lease <= 0)
  BY DEF Run
<1> QED
  BY <1>1 DEF GetCancelled, GetReview, GetDeadline, SettleCancelled, SettleReview,
              SettleDeadline, Settle

\* A live lease is ended or replaced by nobody but its owner.
THEOREM LiveLeasesExclude == Spec => LeaseExcludes
<1> DEFINE B(row, new, h, g) ==
             row.state = "running" /\ row.lease > 0 =>
               /\ new.attempts = row.attempts
               /\ new.token \in {row.token, NoToken}
               /\ new.token = NoToken => new.state \in FinishStates
               /\ new.state = "running" \/ new.token = NoToken
               /\ new.state # "running" => get_tx' = get_tx
               /\ g # h => g[row.token].state = new.state
           A == \A r \in RunIds :
                  B(agent_runs[r], agent_runs'[r], agent_attempts[r], agent_attempts'[r])
<1>1. IInv /\ [Next]_vars => [A]_vars
  <2> SUFFICES ASSUME IInv, Next, NEW q \in RunIds
               PROVE  B(agent_runs[q], agent_runs'[q], agent_attempts[q], agent_attempts'[q])
    BY DEF vars
  <2>0. agent_runs[q] \in Run /\ agent_attempts[q] \in Seq(Attempt)
        /\ RowOK(agent_runs[q], agent_attempts[q])
    BY DEF IInv, TypeOK
  <2>1. CASE Tick
    BY <2>0, <2>1 DEF Tick, Run, RowOK
  <2>2. ASSUME NEW r \in RunIds, NEW n \in Tenants, StoreStep(r, n), q # r
        PROVE  agent_runs'[q] = agent_runs[q] /\ agent_attempts'[q] = agent_attempts[q]
    BY <2>2, OneRunPerStep
  <2>3. ASSUME NEW n \in Tenants, StoreStep(q, n)
        PROVE  B(agent_runs[q], agent_runs'[q], agent_attempts[q], agent_attempts'[q])
    <3>0. /\ agent_runs[q].state = "running" /\ agent_runs[q].lease > 0
          /\ agent_runs'[q].state # "running"
          => get_tx' = get_tx
      BY <2>0, <2>3, SettleNeedsExpiry
         DEF StoreStep, Create, Claim, MarkPublished, Cancel, Resume, Guard, Checkpoint, Finish
    <3>1. CASE Keeps(agent_runs[q], agent_runs'[q], agent_attempts[q], agent_attempts'[q])
      BY <2>0, <3>0, <3>1 DEF Keeps, Run, RowOK
    <3>2. CASE ~Keeps(agent_runs[q], agent_runs'[q], agent_attempts[q], agent_attempts'[q])
      BY <2>0, <2>3, <3>0, <3>2, StepChange
         DEF RowChange, Inserts, Takes, Renews, Ends, Cancels, Requeues, SameProgress, Run, RowOK,
             FinishStates
    <3> QED
      BY <3>1, <3>2
  <2>4. ASSUME NEW r \in RunIds, NEW n \in Tenants, StoreStep(r, n), q # r
        PROVE  B(agent_runs[q], agent_runs'[q], agent_attempts[q], agent_attempts'[q])
    BY <2>0, <2>2, <2>4 DEF RowOK
  <2> QED
    BY <2>1, <2>3, <2>4, StepCases
<1> QED
  BY <1>1, Inductive, PTL DEF Spec, LeaseExcludes

\* The deadline is never extended or cleared.
THEOREM DeadlinesRunDown == Spec => DeadlineRunsDown
<1> DEFINE B(row, new, h, g) ==
             IF row.deadline # NoTime
             THEN /\ new.deadline # NoTime
                  /\ new.deadline <= row.deadline
             ELSE new.deadline # NoTime => h = << >> /\ g # << >>
           A == \A r \in RunIds :
                  B(agent_runs[r], agent_runs'[r], agent_attempts[r], agent_attempts'[r])
<1>1. IInv /\ [Next]_vars => [A]_vars
  <2> SUFFICES ASSUME IInv, Next, NEW q \in RunIds
               PROVE  B(agent_runs[q], agent_runs'[q], agent_attempts[q], agent_attempts'[q])
    BY DEF vars
  <2>0. agent_runs[q] \in Run /\ RowOK(agent_runs[q], agent_attempts[q])
    BY DEF IInv, TypeOK
  <2>1. CASE Tick
    <3>1. agent_runs'[q].deadline = RunDown(agent_runs[q].deadline)
      BY <2>0, <2>1 DEF Tick, Run
    <3> QED
      BY <2>0, <3>1, StoreConstants DEF RunDown, NoTime, Run
  <2>2. ASSUME NEW r \in RunIds, NEW n \in Tenants, StoreStep(r, n), q # r
        PROVE  B(agent_runs[q], agent_runs'[q], agent_attempts[q], agent_attempts'[q])
    BY <2>0, <2>2, OneRunPerStep DEF Run
  <2>3. ASSUME NEW n \in Tenants, StoreStep(q, n)
        PROVE  B(agent_runs[q], agent_runs'[q], agent_attempts[q], agent_attempts'[q])
    <3>1. CASE Keeps(agent_runs[q], agent_runs'[q], agent_attempts[q], agent_attempts'[q])
      BY <2>0, <3>1 DEF Keeps, Run
    <3>2. CASE ~Keeps(agent_runs[q], agent_runs'[q], agent_attempts[q], agent_attempts'[q])
      BY <2>0, <2>3, <3>2, StepChange
         DEF RowChange, Inserts, Takes, Renews, Ends, Cancels, Requeues, SameProgress, Run, RowOK
    <3> QED
      BY <3>1, <3>2
  <2> QED
    BY <2>1, <2>2, <2>3, StepCases
<1> QED
  BY <1>1, Inductive, PTL DEF Spec, DeadlineRunsDown

\* The saved progress of a run moves only under a live lease of its newest attempt.
THEOREM CheckpointsAreFenced == Spec => CheckpointIsFenced
<1> DEFINE B(row, new, h) ==
             new.checkpoint # row.checkpoint =>
               /\ row.state = "running" /\ ~row.cancel
               /\ row.lease > 0
               /\ row.token = Len(h)
           A == \A r \in RunIds : Exists(r) => B(agent_runs[r], agent_runs'[r], agent_attempts[r])
<1>1. IInv /\ [Next]_vars => [A]_vars
  <2> SUFFICES ASSUME IInv, Next, NEW q \in RunIds, Exists(q)
               PROVE  B(agent_runs[q], agent_runs'[q], agent_attempts[q])
    BY DEF vars
  <2>0. agent_runs[q] \in Run /\ RowOK(agent_runs[q], agent_attempts[q])
    BY DEF IInv, TypeOK
  <2>1. CASE Tick
    BY <2>0, <2>1 DEF Tick, Run
  <2>2. ASSUME NEW r \in RunIds, NEW n \in Tenants, StoreStep(r, n), q # r
        PROVE  B(agent_runs[q], agent_runs'[q], agent_attempts[q])
    BY <2>2, OneRunPerStep
  <2>3. ASSUME NEW n \in Tenants, StoreStep(q, n)
        PROVE  B(agent_runs[q], agent_runs'[q], agent_attempts[q])
    <3>1. CASE Keeps(agent_runs[q], agent_runs'[q], agent_attempts[q], agent_attempts'[q])
      BY <2>0, <3>1 DEF Keeps, Run
    <3>2. CASE ~Keeps(agent_runs[q], agent_runs'[q], agent_attempts[q], agent_attempts'[q])
      BY <2>0, <2>3, <3>2, StepChange
         DEF RowChange, Inserts, Takes, Renews, Ends, Cancels, Requeues, RowOK, Exists
    <3> QED
      BY <3>1, <3>2
  <2> QED
    BY <2>1, <2>2, <2>3, StepCases
<1> QED
  BY <1>1, Inductive, PTL DEF Spec, CheckpointIsFenced

\* A key never names two runs of a tenant.
THEOREM KeysNameOneRun == Spec => []KeyNamesOneRun
<1>1. Init => KeyNamesOneRun
  BY DEF Init, KeyNamesOneRun, Absent, NewRun, Exists
<1>2. IInv /\ KeyNamesOneRun /\ [Next]_vars => KeyNamesOneRun'
  <2> SUFFICES ASSUME IInv, KeyNamesOneRun, [Next]_vars PROVE KeyNamesOneRun'
    OBVIOUS
  <2>0. agent_runs \in [RunIds -> Run]
    BY DEF IInv, TypeOK
  <2>1. CASE UNCHANGED vars
    BY <2>1 DEF vars, KeyNamesOneRun, Exists
  <2>2. ASSUME \A q \in RunIds : /\ agent_runs'[q].key = agent_runs[q].key
                                 /\ agent_runs'[q].tenant = agent_runs[q].tenant
                                 /\ agent_runs'[q].state = "absent" <=> agent_runs[q].state = "absent"
        PROVE  KeyNamesOneRun'
    BY <2>2 DEF KeyNamesOneRun, Exists
  <2>3. CASE Tick
    BY <2>0, <2>2, <2>3 DEF Tick, Run
  <2>4. ASSUME NEW r \in RunIds, NEW n \in Tenants, StoreStep(r, n) PROVE KeyNamesOneRun'
    <3>1. CASE \E i \in Inputs, k \in Keys \cup {NoKey} : Create(r, n, i, k)
      <4> PICK i \in Inputs, k \in Keys \cup {NoKey} : Create(r, n, i, k)
        BY <3>1
      <4>1. /\ agent_runs'[r].key = k /\ agent_runs'[r].tenant = n
            /\ \A q \in RunIds : q # r => agent_runs'[q] = agent_runs[q]
            /\ k # NoKey => \A q \in RunIds :
                 ~(Exists(q) /\ agent_runs[q].tenant = n /\ agent_runs[q].key = k)
        BY <2>0 DEF Create, NewRun, Holders, Visible
      <4> QED
        BY <4>1 DEF KeyNamesOneRun, Exists
    <3>2. CASE ~\E i \in Inputs, k \in Keys \cup {NoKey} : Create(r, n, i, k)
      <4>1. \A q \in RunIds : q # r => agent_runs'[q] = agent_runs[q]
        BY <2>4, OneRunPerStep
      <4> DEFINE Same == /\ agent_runs'[r].key = agent_runs[r].key
                         /\ agent_runs'[r].tenant = agent_runs[r].tenant
                         /\ agent_runs'[r].state = "absent" <=> agent_runs[r].state = "absent"
      <4>2. ASSUME NEW i \in Inputs, NEW lag \in 0 .. LockWait, Claim(r, n, i, lag) PROVE Same
        BY <2>0, <4>2 DEF Claim, Claimed, Visible, Exists, Run
      <4>3. ASSUME GetCancelled(r, n) \/ GetReview(r) \/ GetDeadline(r) PROVE Same
        BY <2>0, <4>3
           DEF GetCancelled, GetReview, GetDeadline, Settle, SettleCancelled, SettleReview,
               SettleDeadline, Run
      <4>4. ASSUME MarkPublished(r, n) \/ Cancel(r, n) \/ Resume(r, n) PROVE Same
        BY <2>0, <4>4 DEF MarkPublished, Cancel, Resume, Visible, Exists, Run
      <4>5. ASSUME NEW token \in Tokens(r), Guard(r, n, token) PROVE Same
        BY <2>0, <4>5 DEF Guard, Run
      <4>6. ASSUME NEW token \in Tokens(r), NEW cp \in Checkpoints, Checkpoint(r, n, token, cp)
            PROVE  Same
        BY <2>0, <4>6 DEF Checkpoint, Run
      <4>7. ASSUME NEW token \in Tokens(r), NEW s \in FinishStates,
                   NEW res \in Results \cup {NoResult}, Finish(r, n, token, s, res)
            PROVE  Same
        <5>1. /\ agent_runs'[r] = Finished(agent_runs[r], Outcome(agent_runs[r], s, res))
              /\ agent_runs[r].state # "absent"
          BY <2>0, <4>7 DEF Finish, Visible, Exists
        <5>2. Outcome(agent_runs[r], s, res)[1] # "absent"
          BY DEF Outcome, FinishStates
        <5> QED
          BY <2>0, <5>1, <5>2 DEF Finished, Run
      <4>8. Same
        BY <2>4, <3>2, <4>2, <4>3, <4>4, <4>5, <4>6, <4>7 DEF StoreStep
      <4> QED
        BY <2>2, <4>1, <4>8
    <3> QED
      BY <3>1, <3>2
  <2> QED
    BY <2>1, <2>3, <2>4, StepCases
<1> QED
  BY <1>1, <1>2, Inductive, PTL DEF Spec

-----------------------------------------------------------------------------
(* The store implements RunLifecycle.                                      *)

\* A change of the row of r, with every other row as it was, is a step of the
\* lifecycle or leaves it unchanged.
LEMMA ChangeIsLifecycleStep ==
  ASSUME IInv, IInv', NEW r \in RunIds,
         RowChange(agent_runs[r], agent_runs'[r], agent_attempts[r], agent_attempts'[r]),
         \A q \in RunIds : q # r => agent_runs'[q] = agent_runs[q]
  PROVE  [Lifecycle!Next]_(Lifecycle!lvars)
<1> DEFINE st == [q \in RunIds |-> agent_runs[q].state]
           tr == [q \in RunIds |-> agent_runs[q].attempts]
           ca == [q \in RunIds |-> agent_runs[q].cancel]
           ou == [q \in RunIds |-> agent_runs[q].result]
<1> DEFINE row == agent_runs[r]
           new == agent_runs'[r]
           h   == agent_attempts[r]
           g   == agent_attempts'[r]
<1>0. row \in Run /\ new \in Run /\ RowOK(row, h)
  BY DEF IInv, TypeOK
<1>1. /\ st' = [st EXCEPT ![r] = new.state] /\ tr' = [tr EXCEPT ![r] = new.attempts]
      /\ ca' = [ca EXCEPT ![r] = new.cancel] /\ ou' = [ou EXCEPT ![r] = new.result]
  OBVIOUS
<1>2. st[r] = row.state /\ tr[r] = row.attempts /\ ca[r] = row.cancel /\ ou[r] = row.result
  OBVIOUS
<1>3. /\ st = [st EXCEPT ![r] = row.state] /\ tr = [tr EXCEPT ![r] = row.attempts]
      /\ ca = [ca EXCEPT ![r] = row.cancel] /\ ou = [ou EXCEPT ![r] = row.result]
  OBVIOUS
<1>a. /\ new.state = row.state => st' = st
      /\ new.attempts = row.attempts => tr' = tr
      /\ new.cancel = row.cancel => ca' = ca
      /\ new.result = row.result => ou' = ou
  BY <1>1, <1>3
<1>4. CASE Inserts(row, new, h, g)
  <2>1. row.attempts = 0 /\ row.cancel = FALSE /\ row.result = NoResult
    BY <1>0, <1>4 DEF Inserts, RowOK, Run
  <2>2. new.cancel = FALSE
    BY <1>0, <1>4 DEF Inserts, Run
  <2>3. /\ st[r] = "absent" /\ st' = [st EXCEPT ![r] = "queued"]
        /\ tr' = tr /\ ca' = ca /\ ou' = ou
    <3> HIDE DEF st, tr, ca, ou
    <3> QED
      BY <1>1, <1>2, <1>a, <1>4, <2>1, <2>2 DEF Inserts
  <2>4. Lifecycle!Submit(r)
    BY <2>3 DEF Lifecycle!Submit
  <2> QED
    BY <2>4 DEF Lifecycle!Next
<1>5. CASE Takes(row, new, h, g)
  <2>1. Lifecycle!Start(r)
    BY <1>1, <1>2, <1>3, <1>5 DEF Takes, Lifecycle!Start
  <2> QED
    BY <2>1 DEF Lifecycle!Next
<1>6. CASE Renews(row, new, h, g)
  BY <1>1, <1>3, <1>6 DEF Renews, SameProgress, Lifecycle!lvars
<1>7. CASE Ends(row, new, h, g)
  <2>1. row.result = NoResult
    BY <1>0, <1>7 DEF Ends, RowOK
  <2>2. CASE new.state = "succeeded"
    <3>1. /\ st[r] = "running" /\ ~ca[r] /\ st' = [st EXCEPT ![r] = "succeeded"]
          /\ ou' = [ou EXCEPT ![r] = new.result] /\ tr' = tr /\ ca' = ca
      <4> HIDE DEF st, tr, ca, ou
      <4> QED
        BY <1>1, <1>2, <1>a, <1>7, <2>2 DEF Ends
    <3>2. PICK res \in Results : res = new.result
      BY <1>7, <2>2 DEF Ends
    <3>3. Lifecycle!Succeed(r, res)
      BY <3>1, <3>2 DEF Lifecycle!Succeed
    <3> QED
      BY <3>3 DEF Lifecycle!Next
  <2>3. CASE new.state # "succeeded"
    <3>1. new.state \in {"failed", "needs_review", "cancelled", "exhausted"}
      BY <1>7, <2>3 DEF Ends, FinishStates
    <3>2. /\ st[r] = "running" /\ (ca[r] => new.state \in {"cancelled", "exhausted"})
          /\ st' = [st EXCEPT ![r] = new.state] /\ tr' = tr /\ ca' = ca /\ ou' = ou
      <4> HIDE DEF st, tr, ca, ou
      <4> QED
        BY <1>1, <1>2, <1>a, <1>7, <2>1, <2>3 DEF Ends
    <3>3. PICK s \in {"failed", "needs_review", "cancelled", "exhausted"} : s = new.state
      BY <3>1
    <3>4. Lifecycle!Stop(r, s)
      BY <3>2, <3>3 DEF Lifecycle!Stop
    <3> QED
      BY <3>4 DEF Lifecycle!Next
  <2> QED
    BY <2>2, <2>3
<1>8. CASE Cancels(row, new, h, g)
  <2>1. new.cancel = TRUE
    BY <1>0, <1>8 DEF Cancels, Run
  <2>2. /\ st[r] \in {"queued", "running", "failed"} /\ ca' = [ca EXCEPT ![r] = TRUE]
        /\ tr' = tr /\ ou' = ou
        /\ (st[r] = "running" /\ st' = st) \/ st' = [st EXCEPT ![r] = "cancelled"]
    <3> HIDE DEF st, tr, ca, ou
    <3> QED
      BY <1>1, <1>2, <1>a, <1>8, <2>1 DEF Cancels
  <2>3. Lifecycle!RequestCancel(r)
    BY <2>2 DEF Lifecycle!RequestCancel, Lifecycle!Open
  <2> QED
    BY <2>3 DEF Lifecycle!Next
<1>9. CASE Requeues(row, new, h, g)
  <2>1. Lifecycle!Requeue(r)
    BY <1>1, <1>2, <1>3, <1>9 DEF Requeues, SameProgress, Lifecycle!Requeue, Lifecycle!Open
  <2> QED
    BY <2>1 DEF Lifecycle!Next
<1>10. CASE Keeps(row, new, h, g)
  <2>1. /\ new.state = row.state /\ new.attempts = row.attempts
        /\ new.cancel = row.cancel /\ new.result = row.result
    BY <1>0, <1>10 DEF Keeps, Run
  <2> QED
    BY <1>1, <1>3, <2>1 DEF Lifecycle!lvars
<1> QED
  BY <1>4, <1>5, <1>6, <1>7, <1>8, <1>9, <1>10 DEF RowChange

\* Every behaviour of the store is a behaviour of the abstract lifecycle.
THEOREM StoreImplementsLifecycle == Spec => ImplementsLifecycle
<1>1. Init => Lifecycle!Init
  BY DEF Init, Lifecycle!Init, Absent, NewRun
<1>2. IInv /\ IInv' /\ [Next]_vars => [Lifecycle!Next]_(Lifecycle!lvars)
  <2> SUFFICES ASSUME IInv, IInv', [Next]_vars PROVE [Lifecycle!Next]_(Lifecycle!lvars)
    OBVIOUS
  <2>1. CASE UNCHANGED vars
    BY <2>1 DEF vars, Lifecycle!lvars
  <2>2. CASE Tick
    <3>1. ASSUME NEW r \in RunIds
          PROVE  /\ agent_runs'[r].state = agent_runs[r].state
                 /\ agent_runs'[r].attempts = agent_runs[r].attempts
                 /\ agent_runs'[r].cancel = agent_runs[r].cancel
                 /\ agent_runs'[r].result = agent_runs[r].result
      <4>1. agent_runs[r] \in Run
        BY DEF IInv, TypeOK
      <4>2. agent_runs'[r] = [agent_runs[r] EXCEPT !.lease = RunDown(agent_runs[r].lease),
                                                   !.deadline = RunDown(agent_runs[r].deadline)]
        BY <2>2 DEF Tick
      <4> QED
        BY <4>1, <4>2 DEF Run
    <3> QED
      BY <3>1 DEF Lifecycle!lvars
  <2>3. ASSUME NEW r \in RunIds, NEW n \in Tenants, StoreStep(r, n)
        PROVE  [Lifecycle!Next]_(Lifecycle!lvars)
    <3>1. \A q \in RunIds : q # r => agent_runs'[q] = agent_runs[q]
      BY <2>3, OneRunPerStep
    <3> QED
      BY <2>3, <3>1, StepChange, ChangeIsLifecycleStep
  <2> QED
    BY <2>1, <2>2, <2>3, StepCases
<1> QED
  BY <1>1, <1>2, Inductive, PTL DEF Spec, ImplementsLifecycle, Lifecycle!Spec
=============================================================================
