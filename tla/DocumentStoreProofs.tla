------------------------ MODULE DocumentStoreProofs ------------------------
(***************************************************************************)
(* Proofs about the document database, for every set of jobs, documents,   *)
(* tenants and keys and every lease and attempt limit.                     *)
(***************************************************************************)
EXTENDS DocumentStore, TLAPS

\* SourceIsRetained for one row.
SourceOK(row) ==
  /\ row.state \in {"queued", "running"} => row.payload
  /\ row.state = "succeeded" => ~row.payload
  /\ row.state = "failed" /\ row.attempts >= JobAttempts => ~row.payload

\* A deleted document has no versions, its id was drawn, and no create of it is
\* open: only a create could bring it back.
DeletedIsGone ==
  \A x \in deleted :
    /\ document_versions[x] = << >>
    /\ \E i \in Jobs : Exists(i) /\ document_jobs[i].doc = x[2]
    /\ \A j \in Jobs : Exists(j) /\ Doc(j) = x /\ document_jobs[j].base = 0
         => LedgerState(document_jobs[j]) \in {"applied", "closed"}

\* The inductive invariant.
IInv == TypeOK /\ SourceIsRetained /\ KeyNamesOneJob /\ JobsMatchVersions /\ DeletedIsGone

-----------------------------------------------------------------------------
(* What one call can do to the row of its job.                             *)

\* The identity of a job: no call changes it.
SameJob(row, new) ==
  new.tenant = row.tenant /\ new.doc = row.doc /\ new.base = row.base /\ new.key = row.key

\* A queued row where there was none.
Submits(row, new) ==
  /\ row.state = "absent" /\ new.state = "queued" /\ new.payload /\ new.base \in 0 .. MaxVersion
  /\ KeyFree(new.tenant, new.key)
  /\ new.base = 0 => \A i \in Jobs : Exists(i) => document_jobs[i].doc # new.doc
  /\ UNCHANGED <<document_versions, deleted>>

\* The job stays as open, applied or closed as it was.
Moves(row, new) ==
  /\ SameJob(row, new) /\ row.state # "absent" /\ new.state # "absent"
  /\ LedgerState(new) = LedgerState(row)
  /\ new.state = "succeeded" <=> row.state = "succeeded"
  /\ new.version = row.version
  /\ UNCHANGED <<document_versions, deleted>>

\* An open job ends for good and its source goes.
Closes(row, new) ==
  /\ SameJob(row, new) /\ row.state \in {"queued", "running"}
  /\ new.state = "failed" /\ ~new.payload
  /\ UNCHANGED <<document_versions, deleted>>

\* The job becomes the next version of its document.
Commits(j, row, new) ==
  /\ SameJob(row, new) /\ row.state = "running" /\ NextRevision(row)
  /\ new.state = "succeeded" /\ ~new.payload /\ new.version = row.base + 1
  /\ document_versions' = [document_versions EXCEPT ![Doc(j)] = Append(@, j)]
  /\ UNCHANGED deleted

\* One of the four, on the row of j alone.
RowChange(j, new) ==
  LET row == document_jobs[j]
  IN  /\ new \in Job /\ SourceOK(new)
      /\ document_jobs' = [document_jobs EXCEPT ![j] = new]
      /\ Submits(row, new) \/ Moves(row, new) \/ Closes(row, new) \/ Commits(j, row, new)

\* The NULL encodings lie in the types of their columns.
LEMMA Nulls == NoTime \in Int /\ NoToken \in Nat /\ JobLease \in Int /\ JobAttempts \in Nat
  BY DocumentConstants DEF NoTime, NoToken

\* A row that failed: what Failed sets and what it keeps.
LEMMA FailedRow ==
  ASSUME NEW row \in Job, NEW keep \in BOOLEAN
  PROVE  /\ Failed(row, keep) \in Job /\ Failed(row, keep).state = "failed"
         /\ SameJob(row, Failed(row, keep))
         /\ Failed(row, keep).payload = (row.payload /\ keep)
         /\ Failed(row, keep).attempts = row.attempts
         /\ Failed(row, keep).version = row.version
<1> DEFINE p == row.payload /\ keep
<1>1. p \in BOOLEAN
  OBVIOUS
<1>2. Failed(row, keep) = [row EXCEPT !.state = "failed", !.payload = p,
                                      !.token = NoToken, !.lease = NoTime]
  BY DEF Failed
<1> HIDE DEF p
<1>3. /\ Failed(row, keep) \in Job /\ Failed(row, keep).state = "failed"
      /\ Failed(row, keep).payload = p
  BY <1>1, <1>2, Nulls DEF Job
<1>4. /\ Failed(row, keep).tenant = row.tenant /\ Failed(row, keep).doc = row.doc
      /\ Failed(row, keep).base = row.base /\ Failed(row, keep).key = row.key
      /\ Failed(row, keep).attempts = row.attempts /\ Failed(row, keep).version = row.version
  BY <1>2 DEF Job
<1> QED
  BY <1>3, <1>4 DEF SameJob, p

\* The history of who closed a job tells nothing else about it.
LEMMA CloserRow ==
  ASSUME NEW row \in Job, NEW token \in Nat, NEW new, new = [row EXCEPT !.closer = token]
  PROVE  /\ new \in Job /\ new.closer = token /\ SameJob(row, new)
         /\ new.state = row.state /\ new.payload = row.payload
         /\ new.attempts = row.attempts /\ new.version = row.version
  BY DEF Job, SameJob

\* submit_job inserts a queued row with its source under a free key.
LEMMA SubmitChange ==
  ASSUME TypeOK, NEW j \in Jobs, SubmitStep(j)
  PROVE  \E new : RowChange(j, new)
<1>1. PICK n \in Tenants, d \in Docs, k \in Keys :
        \/ SubmitCreate(j, n, d, k)
        \/ \E base \in 1 .. MaxVersion : SubmitUpdate(j, n, d, base, k)
  BY DEF SubmitStep
<1>2. PICK b \in 0 .. MaxVersion :
        /\ Insert(j, n, d, b, k)
        /\ b = 0 => \A i \in Jobs : Exists(i) => document_jobs[i].doc # d
  <2>1. CASE SubmitCreate(j, n, d, k)
    BY <2>1, DocumentConstants DEF SubmitCreate
  <2>2. CASE \E base \in 1 .. MaxVersion : SubmitUpdate(j, n, d, base, k)
    <3>1. PICK base \in 1 .. MaxVersion : SubmitUpdate(j, n, d, base, k)
      BY <2>2
    <3>2. base \in 0 .. MaxVersion /\ base # 0
      BY <3>1, DocumentConstants
    <3> QED
      BY <3>1, <3>2 DEF SubmitUpdate
  <2> QED
    BY <1>1, <2>1, <2>2
<1> DEFINE new == NewJob(n, d, b, k, "queued")
<1>3. /\ new.state = "queued" /\ new.payload = TRUE /\ new.base = b /\ new.tenant = n
      /\ new.key = k /\ new.doc = d
  BY DEF NewJob
<1>4. new \in Job
  BY DocumentConstants, Nulls DEF NewJob, Job
<1>5. SourceOK(new)
  BY <1>3 DEF SourceOK
<1>6. /\ document_jobs' = [document_jobs EXCEPT ![j] = new] /\ document_jobs[j].state = "absent"
      /\ KeyFree(n, k) /\ UNCHANGED <<document_versions, deleted>>
  BY <1>2 DEF Insert, Exists
<1> HIDE DEF new
<1>7. Submits(document_jobs[j], new)
  BY <1>2, <1>3, <1>6 DEF Submits
<1> QED
  BY <1>4, <1>5, <1>6, <1>7 DEF RowChange

\* claim_job starts an attempt, or closes a job that has used them up.
LEMMA ClaimChange ==
  ASSUME TypeOK, NEW j \in Jobs, ClaimJob(j) \/ ClaimExhausted(j)
  PROVE  \E new : RowChange(j, new)
<1> DEFINE row == document_jobs[j]
<1>0. row \in Job /\ row.state \in {"queued", "running"}
  BY DEF TypeOK, ClaimJob, ClaimExhausted, Claimable
<1>1. CASE ClaimJob(j)
  <2> DEFINE n == row.attempts + 1
             new == [row EXCEPT !.state = "running", !.attempts = n, !.token = n,
                                !.lease = JobLease, !.closer = NoToken]
  <2>1. n \in Nat
    BY <1>0 DEF Job
  <2>2. document_jobs' = [document_jobs EXCEPT ![j] = new] /\ row.payload
        /\ UNCHANGED <<document_versions, deleted>>
    BY <1>0, <1>1 DEF ClaimJob, Job
  <2>3. /\ new \in Job /\ new.state = "running" /\ new.payload = row.payload
        /\ new.tenant = row.tenant /\ new.doc = row.doc /\ new.base = row.base
        /\ new.key = row.key /\ new.version = row.version
    <3> HIDE DEF n, row
    <3> QED
      BY <1>0, <2>1, Nulls DEF Job
  <2> HIDE DEF new
  <2>4. SourceOK(new)
    BY <2>2, <2>3 DEF SourceOK
  <2>5. Moves(row, new)
    BY <1>0, <2>2, <2>3 DEF Moves, SameJob, LedgerState
  <2> QED
    BY <2>2, <2>3, <2>4, <2>5 DEF RowChange
<1>2. CASE ClaimExhausted(j)
  <2> DEFINE new == Failed(row, FALSE)
  <2>1. document_jobs' = [document_jobs EXCEPT ![j] = new]
        /\ UNCHANGED <<document_versions, deleted>>
    BY <1>2 DEF ClaimExhausted
  <2>2. new \in Job /\ new.state = "failed" /\ SameJob(row, new) /\ ~new.payload
    BY <1>0, FailedRow
  <2> HIDE DEF new
  <2>3. SourceOK(new) /\ Closes(row, new)
    BY <1>0, <2>1, <2>2 DEF SourceOK, Closes
  <2> QED
    BY <2>1, <2>2, <2>3 DEF RowChange
<1> QED
  BY <1>1, <1>2

\* commit_job applies the job; fail_job keeps its source while attempts are left.
LEMMA AttemptChange ==
  ASSUME TypeOK, SourceIsRetained, NEW j \in Jobs, AttemptStep(j)
  PROVE  \E new : RowChange(j, new)
<1> DEFINE row == document_jobs[j]
<1>0. PICK token \in 1 .. row.attempts : CommitJob(j, token) \/ FailJob(j, token)
  BY DEF AttemptStep
<1>1. row \in Job /\ row.state = "running" /\ row.payload
  BY <1>0 DEF TypeOK, SourceIsRetained, CommitJob, FailJob, Owned, LeaseLive
<1>2. CASE CommitJob(j, token)
  <2> DEFINE n == row.base + 1
             new == [row EXCEPT !.state = "succeeded", !.version = n, !.payload = FALSE,
                                !.token = NoToken, !.lease = NoTime, !.closer = token]
  <2>1. n \in Nat /\ token \in Nat
    BY <1>1 DEF Job
  <2>2. /\ document_jobs' = [document_jobs EXCEPT ![j] = new] /\ UNCHANGED deleted
        /\ document_versions' = [document_versions EXCEPT ![Doc(j)] = Append(@, j)]
        /\ NextRevision(row)
    <3>1. [Succeeded(row) EXCEPT !.closer = token] = new
      BY <1>1 DEF Succeeded, Job
    <3> QED
      BY <1>2, <3>1 DEF CommitJob
  <2>3. /\ new \in Job /\ new.state = "succeeded" /\ new.payload = FALSE /\ new.version = n
        /\ new.tenant = row.tenant /\ new.doc = row.doc /\ new.base = row.base
        /\ new.key = row.key
    <3> HIDE DEF n, row
    <3> QED
      BY <1>1, <2>1, Nulls DEF Job
  <2> HIDE DEF new
  <2>4. SourceOK(new) /\ Commits(j, row, new)
    BY <1>1, <2>2, <2>3 DEF SourceOK, Commits, SameJob
  <2> QED
    BY <2>2, <2>3, <2>4 DEF RowChange
<1>3. CASE FailJob(j, token)
  <2> DEFINE keep == row.attempts < JobAttempts
             failed == Failed(row, keep)
             new == [failed EXCEPT !.closer = token]
  <2>1. document_jobs' = [document_jobs EXCEPT ![j] = new]
        /\ UNCHANGED <<document_versions, deleted>>
    BY <1>3 DEF FailJob
  <2>2. /\ new \in Job /\ new.state = "failed" /\ SameJob(row, new)
        /\ new.payload = (row.payload /\ keep) /\ new.attempts = row.attempts
        /\ new.version = row.version
    <3>1. keep \in BOOLEAN /\ token \in Nat
      BY <1>1 DEF Job
    <3> HIDE DEF keep
    <3>2. /\ failed \in Job /\ failed.state = "failed" /\ SameJob(row, failed)
          /\ failed.payload = (row.payload /\ keep) /\ failed.attempts = row.attempts
          /\ failed.version = row.version
      BY <1>1, <3>1, FailedRow
    <3> HIDE DEF failed
    <3> QED
      BY <3>1, <3>2, CloserRow DEF SameJob
  <2>3. row.attempts \in Nat
    BY <1>1 DEF Job
  <2> HIDE DEF new
  <2>4. CASE keep
    <3>0. ~(row.attempts >= JobAttempts)
      BY <2>3, <2>4, Nulls
    <3>1. new.payload
      BY <1>1, <2>2, <2>4, Zenon
    <3>2. SourceOK(new)
      BY <2>2, <3>0 DEF SourceOK
    <3>3. Moves(row, new)
      BY <1>1, <2>1, <2>2, <3>1 DEF Moves, LedgerState, SameJob
    <3> QED
      BY <2>1, <2>2, <3>2, <3>3 DEF RowChange
  <2>5. CASE ~keep
    <3>1. ~new.payload
      BY <2>2, <2>5
    <3>2. SourceOK(new)
      BY <2>2, <3>1 DEF SourceOK
    <3>3. Closes(row, new)
      BY <1>1, <2>1, <2>2, <3>1 DEF Closes
    <3> QED
      BY <2>1, <2>2, <3>2, <3>3 DEF RowChange
  <2> QED
    BY <2>4, <2>5
<1> QED
  BY <1>0, <1>2, <1>3


\* A retry reopens nothing that was closed, and a publication mark changes
\* nothing else.
LEMMA RetryChange ==
  ASSUME TypeOK, SourceIsRetained, NEW j \in Jobs, RetryJob(j) \/ MarkJobPublished(j)
  PROVE  \E new : RowChange(j, new)
<1> DEFINE row == document_jobs[j]
<1>1. row \in Job /\ row.state # "absent" /\ SourceOK(row)
  BY DEF TypeOK, SourceIsRetained, SourceOK, RetryJob, MarkJobPublished, Exists
<1>2. CASE RetryJob(j)
  <2> DEFINE new == [row EXCEPT !.state = "queued", !.token = NoToken, !.lease = NoTime,
                                !.published = FALSE, !.closer = NoToken]
  <2>1. /\ document_jobs' = [document_jobs EXCEPT ![j] = new]
        /\ row.state # "succeeded" /\ row.payload
        /\ UNCHANGED <<document_versions, deleted>>
    BY <1>2 DEF RetryJob, RetryRefused
  <2>2. /\ new \in Job /\ new.state = "queued" /\ new.payload = row.payload
        /\ new.tenant = row.tenant /\ new.doc = row.doc /\ new.base = row.base
        /\ new.key = row.key /\ new.version = row.version
    <3> HIDE DEF row
    <3> QED
      BY <1>1, Nulls DEF Job
  <2> HIDE DEF new
  <2>3. SourceOK(new) /\ Moves(row, new)
    BY <1>1, <2>1, <2>2 DEF SourceOK, Moves, SameJob, LedgerState
  <2> QED
    BY <2>1, <2>2, <2>3 DEF RowChange
<1>3. CASE MarkJobPublished(j)
  <2> DEFINE new == [row EXCEPT !.published = TRUE]
  <2>1. /\ document_jobs' = [document_jobs EXCEPT ![j] = new]
        /\ UNCHANGED <<document_versions, deleted>>
    BY <1>3 DEF MarkJobPublished
  <2>2. /\ new \in Job /\ new.state = row.state /\ new.payload = row.payload
        /\ new.tenant = row.tenant /\ new.doc = row.doc /\ new.base = row.base
        /\ new.key = row.key /\ new.version = row.version /\ new.attempts = row.attempts
    <3> HIDE DEF row
    <3> QED
      BY <1>1 DEF Job
  <2> HIDE DEF new
  <2>3. SourceOK(new) /\ Moves(row, new)
    BY <1>1, <2>1, <2>2 DEF SourceOK, Moves, SameJob, LedgerState
  <2> QED
    BY <2>1, <2>2, <2>3 DEF RowChange
<1> QED
  BY <1>2, <1>3

\* Every call about one job submits, moves, closes or commits that job.
LEMMA JobChange ==
  ASSUME TypeOK, SourceIsRetained, NEW j \in Jobs, JobStep(j)
  PROVE  \E new : RowChange(j, new)
  BY SubmitChange, ClaimChange, AttemptChange, RetryChange DEF JobStep

-----------------------------------------------------------------------------
(* The invariant holds initially and no step breaks it.                    *)

\* An empty database satisfies the invariant.
LEMMA InitIInv == Init => IInv
<1> SUFFICES ASSUME Init PROVE IInv
  OBVIOUS
<1> DEFINE t == CHOOSE n \in Tenants : TRUE
           d == CHOOSE e \in Docs : TRUE
           k == CHOOSE e \in Keys : TRUE
           row == NewJob(t, d, 0, k, "absent")
<1>1. t \in Tenants /\ d \in Docs /\ k \in Keys
  BY DocumentConstants
<1>2. document_jobs = [j \in Jobs |-> row]
  BY DEF Init
<1> HIDE DEF t, d, k
<1>3. row \in Job /\ row.state = "absent"
  BY <1>1, Nulls DEF NewJob, Job
<1> HIDE DEF row
<1>4. \A j \in Jobs : document_jobs[j] \in Job /\ document_jobs[j].state = "absent"
  BY <1>2, <1>3
<1>5. TypeOK
  BY <1>2, <1>3 DEF TypeOK, Init
<1>6. SourceIsRetained /\ KeyNamesOneJob
  BY <1>4 DEF SourceIsRetained, KeyNamesOneJob, Exists
<1>7. JobsMatchVersions
  <2>1. \A x \in Tenants \X Docs : Len(document_versions[x]) = 0
    BY DEF Init
  <2> QED
    BY <1>4, <2>1 DEF JobsMatchVersions
<1>8. DeletedIsGone
  BY DEF DeletedIsGone, Init
<1> QED
  BY <1>5, <1>6, <1>7, <1>8 DEF IInv

\* A call about one job keeps every row and version list in its type.
LEMMA RowTypeOK ==
  ASSUME TypeOK, NEW j \in Jobs, NEW new, RowChange(j, new)
  PROVE  TypeOK'
<1> DEFINE row == document_jobs[j]
<1>1. row \in Job /\ Doc(j) \in Tenants \X Docs
  BY DEF TypeOK, Job, Doc
<1>2. document_jobs' \in [Jobs -> Job]
  BY DEF TypeOK, RowChange
<1>3. document_versions' \in [Tenants \X Docs -> Seq(Jobs)]
  <2>1. CASE Commits(j, row, new)
    BY <1>1, <2>1 DEF TypeOK, Commits
  <2>2. CASE UNCHANGED document_versions
    BY <2>2 DEF TypeOK
  <2> QED
    BY <2>1, <2>2 DEF RowChange, Submits, Moves, Closes
<1>4. deleted' = deleted
  BY DEF RowChange, Submits, Moves, Closes, Commits
<1> QED
  BY <1>2, <1>3, <1>4 DEF TypeOK

\* The rows of the other jobs.
LEMMA RowOnly ==
  ASSUME TypeOK, NEW j \in Jobs, NEW new, RowChange(j, new)
  PROVE  /\ document_jobs'[j] = new
         /\ \A i \in Jobs : i # j => document_jobs'[i] = document_jobs[i]
         /\ deleted' = deleted
  BY DEF TypeOK, RowChange, Submits, Moves, Closes, Commits

\* A call about one job keeps sources exactly where they are needed.
LEMMA RowSource ==
  ASSUME TypeOK, SourceIsRetained, NEW j \in Jobs, NEW new, RowChange(j, new)
  PROVE  SourceIsRetained'
<1> SUFFICES ASSUME NEW i \in Jobs PROVE SourceOK(document_jobs'[i])
  BY DEF SourceIsRetained, SourceOK
<1>1. CASE i = j
  BY <1>1, RowOnly DEF RowChange
<1>2. CASE i # j
  BY <1>2, RowOnly DEF SourceIsRetained, SourceOK
<1> QED
  BY <1>1, <1>2

\* submit_job refuses a key in use and no other call changes one.
LEMMA RowKey ==
  ASSUME TypeOK, KeyNamesOneJob, NEW j \in Jobs, NEW new, RowChange(j, new)
  PROVE  KeyNamesOneJob'
<1> DEFINE row == document_jobs[j]
<1>1. Submits(row, new) \/ (SameJob(row, new) /\ row.state # "absent")
  BY DEF RowChange, Moves, Closes, Commits
<1>2. SUFFICES ASSUME NEW i \in Jobs, i # j,
                      document_jobs[i].state # "absent", new.state # "absent",
                      document_jobs[i].tenant = new.tenant, document_jobs[i].key = new.key
               PROVE  FALSE
  <2>1. \A a, b \in Jobs : a # j /\ b # j =>
          document_jobs'[a] = document_jobs[a] /\ document_jobs'[b] = document_jobs[b]
    BY RowOnly
  <2> QED
    BY RowOnly DEF KeyNamesOneJob, Exists
<1>3. CASE Submits(row, new)
  BY <1>2, <1>3 DEF Submits, KeyFree, Exists
<1>4. CASE SameJob(row, new) /\ row.state # "absent"
  BY <1>2, <1>4 DEF SameJob, KeyNamesOneJob, Exists
<1> QED
  BY <1>1, <1>3, <1>4

\* The two halves of JobsMatchVersions, about one version and about one job.
Written(jobs, i, x, v) ==
  /\ jobs[i].state = "succeeded" /\ <<jobs[i].tenant, jobs[i].doc>> = x
  /\ jobs[i].version = v /\ jobs[i].base = v - 1

Kept(jobs, versions, i) ==
  LET x == <<jobs[i].tenant, jobs[i].doc>> v == jobs[i].version
  IN  v \in 1 .. Len(versions[x]) /\ versions[x][v] = i

\* JobsMatchVersions in terms of its halves, in this state...
LEMMA MatchParts ==
  JobsMatchVersions <=>
    /\ \A x \in Tenants \X Docs : \A v \in 1 .. Len(document_versions[x]) :
         Written(document_jobs, document_versions[x][v], x, v)
    /\ \A i \in Jobs : document_jobs[i].state = "succeeded" =>
         Doc(i) \in deleted \/ Kept(document_jobs, document_versions, i)
  BY DEF JobsMatchVersions, Written, Kept, Doc

\* ... and in the next.
LEMMA MatchPartsNext ==
  JobsMatchVersions' <=>
    /\ \A x \in Tenants \X Docs : \A v \in 1 .. Len(document_versions'[x]) :
         Written(document_jobs', document_versions'[x][v], x, v)
    /\ \A i \in Jobs : document_jobs'[i].state = "succeeded" =>
         \/ <<document_jobs'[i].tenant, document_jobs'[i].doc>> \in deleted'
         \/ Kept(document_jobs', document_versions', i)
  BY DEF JobsMatchVersions, Written, Kept, Doc

\* Every entry of a version list is a job.
LEMMA VersionIsJob ==
  ASSUME TypeOK, NEW x \in Tenants \X Docs, NEW v \in 1 .. Len(document_versions[x])
  PROVE  document_versions[x][v] \in Jobs
<1>1. document_versions[x] \in Seq(Jobs)
  BY DEF TypeOK
<1> QED
  BY <1>1

\* The agreement rests on the rows of the jobs that succeeded and on the versions
\* and deletions alone.
LEMMA MatchQuiet ==
  ASSUME TypeOK, JobsMatchVersions, UNCHANGED <<document_versions, deleted>>,
         \A i \in Jobs :
           /\ document_jobs'[i].state = "succeeded" <=> document_jobs[i].state = "succeeded"
           /\ document_jobs[i].state = "succeeded" =>
                /\ document_jobs'[i].version = document_jobs[i].version
                /\ SameJob(document_jobs[i], document_jobs'[i])
  PROVE  JobsMatchVersions'
<1>1. ASSUME NEW x \in Tenants \X Docs, NEW v \in 1 .. Len(document_versions'[x])
      PROVE  Written(document_jobs', document_versions'[x][v], x, v)
  <2>1. document_versions'[x][v] \in Jobs /\ document_versions'[x][v] = document_versions[x][v]
    BY VersionIsJob
  <2>2. Written(document_jobs, document_versions[x][v], x, v)
    BY MatchParts
  <2> QED
    BY <2>1, <2>2 DEF Written, SameJob
<1>2. ASSUME NEW i \in Jobs, document_jobs'[i].state = "succeeded"
      PROVE  \/ <<document_jobs'[i].tenant, document_jobs'[i].doc>> \in deleted'
             \/ Kept(document_jobs', document_versions', i)
  <2>1. Doc(i) \in deleted \/ Kept(document_jobs, document_versions, i)
    BY <1>2, MatchParts
  <2> QED
    BY <1>2, <2>1 DEF Kept, Doc, SameJob
<1> QED
  BY <1>1, <1>2, MatchPartsNext

\* Only commit_job adds a version; other calls about a job leave the agreement.
LEMMA RowVersionsQuiet ==
  ASSUME TypeOK, JobsMatchVersions, NEW j \in Jobs, NEW new, RowChange(j, new),
         ~Commits(j, document_jobs[j], new)
  PROVE  JobsMatchVersions'
<1> DEFINE row == document_jobs[j]
<1>1. /\ new.state = "succeeded" <=> row.state = "succeeded"
      /\ row.state = "succeeded" => new.version = row.version /\ SameJob(row, new)
      /\ UNCHANGED <<document_versions, deleted>>
  BY DEF RowChange, Submits, Moves, Closes
<1>2. ASSUME NEW i \in Jobs
      PROVE  /\ document_jobs'[i].state = "succeeded" <=> document_jobs[i].state = "succeeded"
             /\ document_jobs[i].state = "succeeded" =>
                  /\ document_jobs'[i].version = document_jobs[i].version
                  /\ SameJob(document_jobs[i], document_jobs'[i])
  <2>1. CASE i = j
    BY <1>1, <2>1, RowOnly
  <2>2. CASE i # j
    BY <2>2, RowOnly DEF SameJob
  <2> QED
    BY <2>1, <2>2
<1> QED
  BY <1>1, <1>2, MatchQuiet

\* A commit appends the job itself at the version it records.
LEMMA RowVersionsCommit ==
  ASSUME TypeOK, JobsMatchVersions, NEW j \in Jobs, NEW new, RowChange(j, new),
         Commits(j, document_jobs[j], new)
  PROVE  JobsMatchVersions'
<1> DEFINE row == document_jobs[j]
           y == Doc(j)
           n == Len(document_versions[y])
<1>1. y \in Tenants \X Docs /\ row \in Job /\ y = <<row.tenant, row.doc>>
  BY DEF TypeOK, Job, Doc
<1>2. document_versions[y] \in Seq(Jobs) /\ n \in Nat
  BY <1>1 DEF TypeOK
<1>3. /\ row.state = "running" /\ row.base = n
      /\ new.state = "succeeded" /\ new.version = n + 1 /\ new.base = n
      /\ <<new.tenant, new.doc>> = y /\ document_jobs'[j] = new
  BY <1>1, RowOnly DEF Commits, NextRevision, SameJob
<1>4. /\ document_versions'[y] = Append(document_versions[y], j)
      /\ \A x \in Tenants \X Docs : x # y => document_versions'[x] = document_versions[x]
  BY <1>1 DEF Commits, TypeOK
<1>5. /\ Len(document_versions'[y]) = n + 1 /\ document_versions'[y][n + 1] = j
      /\ \A v \in 1 .. n : document_versions'[y][v] = document_versions[y][v]
  BY <1>2, <1>4
<1>6. \A i \in Jobs : i # j => document_jobs'[i] = document_jobs[i]
  BY RowOnly
<1> HIDE DEF y, n
<1>7. ASSUME NEW x \in Tenants \X Docs, NEW v \in 1 .. Len(document_versions'[x])
      PROVE  Written(document_jobs', document_versions'[x][v], x, v)
  <2>1. CASE x = y /\ v = n + 1
    BY <1>2, <1>3, <1>5, <2>1 DEF Written
  <2>2. CASE ~(x = y /\ v = n + 1)
    <3>1. /\ v \in 1 .. Len(document_versions[x])
          /\ document_versions'[x][v] = document_versions[x][v]
      BY <1>2, <1>4, <1>5, <2>2 DEF n
    <3> DEFINE i == document_versions[x][v]
    <3>2. i \in Jobs /\ Written(document_jobs, i, x, v)
      BY <3>1, VersionIsJob, MatchParts
    <3>3. i # j
      BY <1>3, <3>2 DEF Written
    <3> QED
      BY <1>6, <3>1, <3>2, <3>3 DEF Written
  <2> QED
    BY <2>1, <2>2
<1>8. ASSUME NEW i \in Jobs, document_jobs'[i].state = "succeeded"
      PROVE  \/ <<document_jobs'[i].tenant, document_jobs'[i].doc>> \in deleted'
             \/ Kept(document_jobs', document_versions', i)
  <2>1. CASE i = j
    <3>1. n + 1 \in 1 .. n + 1
      BY <1>2
    <3> QED
      BY <1>3, <1>5, <2>1, <3>1 DEF Kept
  <2>2. CASE i # j
    <3> DEFINE x == Doc(i)
               v == document_jobs[i].version
    <3>1. /\ document_jobs'[i] = document_jobs[i]
          /\ x = <<document_jobs[i].tenant, document_jobs[i].doc>>
      BY <1>6, <2>2 DEF Doc
    <3>2. x \in Tenants \X Docs
      BY DEF TypeOK, Job, Doc
    <3>3. CASE x \in deleted
      BY <3>1, <3>3, RowOnly
    <3>4. CASE Kept(document_jobs, document_versions, i)
      <4>1. v \in 1 .. Len(document_versions[x]) /\ document_versions[x][v] = i
        BY <3>1, <3>4 DEF Kept
      <4>2. v \in 1 .. Len(document_versions'[x]) /\ document_versions'[x][v] = i
        <5>1. CASE x = y
          BY <1>2, <1>5, <4>1, <5>1 DEF n
        <5>2. CASE x # y
          BY <1>4, <3>2, <4>1, <5>2
        <5> QED
          BY <5>1, <5>2
      <4> QED
        BY <3>1, <4>2 DEF Kept
    <3> QED
      BY <1>8, <3>1, <3>3, <3>4, MatchParts
  <2> QED
    BY <2>1, <2>2
<1> QED
  BY <1>7, <1>8, MatchPartsNext

\* Nothing brings a deleted document back: an update of it needs a version, and
\* its id is not drawn again.
LEMMA RowDeleted ==
  ASSUME TypeOK, DeletedIsGone, NEW j \in Jobs, NEW new, RowChange(j, new)
  PROVE  DeletedIsGone' /\ (Commits(j, document_jobs[j], new) => Doc(j) \notin deleted)
<1> DEFINE row == document_jobs[j]
<1>1. row \in Job /\ Doc(j) = <<row.tenant, row.doc>> /\ Doc(j) \in Tenants \X Docs
  BY DEF TypeOK, Job, Doc
<1>2. ASSUME Commits(j, row, new) PROVE Doc(j) \notin deleted
  <2> SUFFICES ASSUME Doc(j) \in deleted PROVE FALSE
    OBVIOUS
  <2>1. row.base = Len(document_versions[Doc(j)]) /\ row.state = "running"
    BY <1>1, <1>2 DEF Commits, NextRevision
  <2>2. row.base = 0
    BY <2>1 DEF DeletedIsGone
  <2>3. LedgerState(row) \in {"applied", "closed"}
    BY <2>1, <2>2 DEF DeletedIsGone, Exists
  <2> QED
    BY <2>1, <2>3 DEF LedgerState
<1>3. ASSUME NEW x \in deleted
      PROVE  /\ document_versions'[x] = << >>
             /\ \E i \in Jobs : document_jobs'[i].state # "absent" /\ document_jobs'[i].doc = x[2]
             /\ \A i \in Jobs : document_jobs'[i].state # "absent" /\ Doc(i)' = x
                                 /\ document_jobs'[i].base = 0
                  => LedgerState(document_jobs'[i]) \in {"applied", "closed"}
  <2>1. x \in Tenants \X Docs
    BY DEF TypeOK
  <2>2. document_versions'[x] = << >>
    <3>1. CASE Commits(j, row, new)
      BY <1>1, <1>2, <2>1, <3>1 DEF Commits, TypeOK, DeletedIsGone
    <3>2. CASE UNCHANGED document_versions
      BY <3>2 DEF DeletedIsGone
    <3> QED
      BY <3>1, <3>2 DEF RowChange, Submits, Moves, Closes
  <2>3. PICK i \in Jobs : document_jobs[i].state # "absent" /\ document_jobs[i].doc = x[2]
    BY DEF DeletedIsGone, Exists
  <2>4. document_jobs'[i].state # "absent" /\ document_jobs'[i].doc = x[2]
    <3>1. CASE i = j
      <4>1. new.state # "absent" /\ new.doc = row.doc
        BY <2>3, <3>1 DEF RowChange, Submits, Moves, Closes, Commits, SameJob
      <4> QED
        BY <2>3, <3>1, <4>1, RowOnly
    <3>2. CASE i # j
      BY <2>3, <3>2, RowOnly
    <3> QED
      BY <3>1, <3>2
  <2>5. ASSUME NEW k \in Jobs, document_jobs'[k].state # "absent", Doc(k)' = x,
               document_jobs'[k].base = 0
        PROVE  LedgerState(document_jobs'[k]) \in {"applied", "closed"}
    <3>1. CASE k # j
      <4>1. document_jobs'[k] = document_jobs[k] /\ Doc(k)' = Doc(k)
        BY <3>1, RowOnly DEF Doc
      <4> QED
        BY <2>5, <4>1 DEF DeletedIsGone, Exists
    <3>2. CASE k = j
      <4>1. document_jobs'[k] = new /\ Doc(k)' = <<new.tenant, new.doc>>
        BY <3>2, RowOnly DEF Doc
      <4>2. ~Submits(row, new)
        <5>1. new.doc = x[2] /\ new.base = 0
          BY <2>5, <4>1
        <5> QED
          BY <2>3, <5>1 DEF Submits, Exists
      <4>3. SameJob(row, new) /\ row.state # "absent" /\ Doc(j) = x /\ row.base = 0
        BY <1>1, <2>5, <4>1, <4>2 DEF RowChange, Moves, Closes, Commits, SameJob
      <4>4. LedgerState(row) \in {"applied", "closed"}
        BY <4>3 DEF DeletedIsGone, Exists
      <4>5. Moves(row, new)
        <5>1. row.state \notin {"queued", "running"}
          BY <4>4 DEF LedgerState
        <5> QED
          BY <4>2, <5>1 DEF RowChange, Closes, Commits
      <4> QED
        BY <4>1, <4>4, <4>5 DEF Moves
    <3> QED
      BY <3>1, <3>2
  <2> QED
    BY <2>2, <2>4, <2>5
<1>4. DeletedIsGone'
  BY <1>3, RowOnly DEF DeletedIsGone, Exists, Doc
<1> QED
  BY <1>2, <1>4

\* A call about one job keeps the invariant.
LEMMA RowIInv ==
  ASSUME IInv, NEW j \in Jobs, JobStep(j)
  PROVE  IInv'
<1>1. PICK new : RowChange(j, new)
  BY JobChange DEF IInv
<1>2. JobsMatchVersions'
  BY <1>1, RowVersionsQuiet, RowVersionsCommit DEF IInv
<1> QED
  BY <1>1, <1>2, RowTypeOK, RowSource, RowKey, RowDeleted DEF IInv

\* What delete does to a job of the document and to any other.
LEMMA DeleteRow ==
  ASSUME TypeOK, NEW x \in Tenants \X Docs, Delete(x), NEW i \in Jobs
  PROVE  /\ document_jobs'[i] \in Job
         /\ SameJob(document_jobs[i], document_jobs'[i])
         /\ document_jobs'[i].version = document_jobs[i].version
         /\ document_jobs'[i].attempts = document_jobs[i].attempts
         /\ document_jobs'[i].state = "succeeded" <=> document_jobs[i].state = "succeeded"
         /\ document_jobs'[i].state = "absent" <=> document_jobs[i].state = "absent"
         /\ \/ document_jobs'[i] = document_jobs[i] /\ ~(Exists(i) /\ Doc(i) = x)
            \/ /\ ~document_jobs'[i].payload /\ Exists(i) /\ Doc(i) = x
               /\ document_jobs'[i].state \in {"succeeded", "failed"}
<1> DEFINE row == document_jobs[i]
           end == IF row.state = "succeeded" THEN row.state ELSE "failed"
           gone == Failed(row, FALSE)
<1>1. row \in Job
  BY DEF TypeOK
<1>2. CASE Exists(i) /\ Doc(i) = x
  <2>1. /\ gone \in Job /\ gone.state = "failed" /\ SameJob(row, gone)
        /\ ~gone.payload /\ gone.version = row.version /\ gone.attempts = row.attempts
    BY <1>1, FailedRow
  <2>2. document_jobs'[i] = [gone EXCEPT !.state = end]
    <3>1. document_jobs'[i] = ClosedByDelete(row)
      BY <1>2 DEF Delete
    <3> HIDE DEF gone, row
    <3>2. [gone EXCEPT !.state = end] =
            [gone EXCEPT !.state = IF row.state = "succeeded" THEN row.state ELSE @]
      BY <2>1 DEF Job
    <3> QED
      BY <3>1, <3>2 DEF ClosedByDelete, gone, row
  <2>3. /\ end \in {"succeeded", "failed"}
        /\ end = "succeeded" <=> row.state = "succeeded"
        /\ row.state # "absent"
    BY <1>2 DEF Exists
  <2> HIDE DEF end, gone, row
  <2>4. /\ document_jobs'[i] \in Job /\ document_jobs'[i].state = end
        /\ document_jobs'[i].payload = gone.payload
        /\ document_jobs'[i].version = gone.version
        /\ document_jobs'[i].attempts = gone.attempts
        /\ document_jobs'[i].tenant = gone.tenant /\ document_jobs'[i].doc = gone.doc
        /\ document_jobs'[i].base = gone.base /\ document_jobs'[i].key = gone.key
    BY <2>1, <2>2, <2>3 DEF Job
  <2> QED
    BY <1>2, <2>1, <2>3, <2>4 DEF SameJob, row
<1>3. CASE ~(Exists(i) /\ Doc(i) = x)
  <2>1. document_jobs'[i] = document_jobs[i]
    BY <1>3 DEF Delete
  <2> QED
    BY <1>1, <1>3, <2>1 DEF SameJob
<1> QED
  BY <1>2, <1>3

\* delete keeps the invariant: the document's versions go and its open jobs close.
LEMMA DeleteIInv ==
  ASSUME IInv, NEW x \in Tenants \X Docs, Delete(x)
  PROVE  IInv'
<1> USE DEF IInv
<1>1. /\ document_versions'[x] = << >> /\ deleted' = deleted \cup {x}
      /\ \A y \in Tenants \X Docs : y # x => document_versions'[y] = document_versions[y]
  BY DEF Delete, TypeOK
<1>2. TypeOK'
  <2>1. document_jobs' \in [Jobs -> Job]
    <3>1. document_jobs' = [j \in Jobs |-> document_jobs'[j]]
      BY DEF Delete
    <3> QED
      BY <3>1, DeleteRow
  <2>2. document_versions' \in [Tenants \X Docs -> Seq(Jobs)]
    BY DEF Delete, TypeOK
  <2> QED
    BY <1>1, <2>1, <2>2 DEF TypeOK
<1>3. SourceIsRetained'
  <2> SUFFICES ASSUME NEW i \in Jobs PROVE SourceOK(document_jobs'[i])
    BY DEF SourceIsRetained, SourceOK
  <2>1. SourceOK(document_jobs[i])
    BY DEF SourceIsRetained, SourceOK
  <2>2. CASE document_jobs'[i] = document_jobs[i]
    BY <2>1, <2>2
  <2>3. CASE ~document_jobs'[i].payload /\ document_jobs'[i].state \in {"succeeded", "failed"}
    BY <2>3 DEF SourceOK
  <2> QED
    BY <2>2, <2>3, DeleteRow
<1>4. KeyNamesOneJob'
  <2>1. \A i \in Jobs : SameJob(document_jobs[i], document_jobs'[i])
          /\ (document_jobs'[i].state = "absent" <=> document_jobs[i].state = "absent")
    BY DeleteRow
  <2> QED
    BY <2>1 DEF KeyNamesOneJob, Exists, SameJob
<1>5. JobsMatchVersions'
  <2>1. ASSUME NEW y \in Tenants \X Docs, NEW v \in 1 .. Len(document_versions'[y])
        PROVE  Written(document_jobs', document_versions'[y][v], y, v)
    <3>1. y # x
      BY <1>1
    <3>2. document_versions'[y] = document_versions[y]
      BY <1>1, <3>1
    <3> DEFINE i == document_versions[y][v]
    <3>3. i \in Jobs /\ Written(document_jobs, i, y, v)
      BY <3>2, VersionIsJob, MatchParts
    <3>4. /\ SameJob(document_jobs[i], document_jobs'[i])
          /\ document_jobs'[i].version = document_jobs[i].version
          /\ document_jobs'[i].state = "succeeded" <=> document_jobs[i].state = "succeeded"
      BY <3>3, DeleteRow
    <3> QED
      BY <3>2, <3>3, <3>4 DEF Written, SameJob
  <2>2. ASSUME NEW i \in Jobs, document_jobs'[i].state = "succeeded"
        PROVE  \/ <<document_jobs'[i].tenant, document_jobs'[i].doc>> \in deleted'
               \/ Kept(document_jobs', document_versions', i)
    <3>1. /\ SameJob(document_jobs[i], document_jobs'[i])
          /\ document_jobs'[i].version = document_jobs[i].version
          /\ document_jobs[i].state = "succeeded"
      BY <2>2, DeleteRow
    <3>2. /\ Doc(i) = <<document_jobs'[i].tenant, document_jobs'[i].doc>>
          /\ Doc(i) = <<document_jobs[i].tenant, document_jobs[i].doc>>
          /\ Doc(i) \in Tenants \X Docs
      BY <3>1 DEF SameJob, Doc, TypeOK, Job
    <3>3. CASE Doc(i) = x \/ Doc(i) \in deleted
      BY <1>1, <3>2, <3>3
    <3>4. CASE Doc(i) # x /\ Kept(document_jobs, document_versions, i)
      BY <1>1, <3>1, <3>2, <3>4 DEF Kept
    <3> QED
      BY <3>1, <3>3, <3>4, MatchParts
  <2> QED
    BY <2>1, <2>2, MatchPartsNext
<1>6. DeletedIsGone'
  <2>1. ASSUME NEW y \in deleted \cup {x}
        PROVE  /\ document_versions'[y] = << >>
               /\ \E i \in Jobs : document_jobs[i].state # "absent" /\ document_jobs[i].doc = y[2]
    <3>1. CASE y = x
      <4>1. document_versions[x] \in Seq(Jobs) /\ document_versions[x] # << >>
        BY DEF TypeOK, Delete
      <4>2. 1 \in 1 .. Len(document_versions[x])
        BY <4>1
      <4>3. /\ document_versions[x][1] \in Jobs
            /\ Written(document_jobs, document_versions[x][1], x, 1)
        BY <4>2, VersionIsJob, MatchParts
      <4> QED
        BY <1>1, <3>1, <4>3 DEF Written
    <3>2. CASE y # x
      <4>1. y \in Tenants \X Docs /\ y \in deleted
        BY <3>2 DEF TypeOK
      <4> QED
        BY <1>1, <3>2, <4>1 DEF DeletedIsGone, Exists
    <3> QED
      BY <3>1, <3>2
  <2>2. \A i \in Jobs : SameJob(document_jobs[i], document_jobs'[i])
          /\ (document_jobs'[i].state = "absent" <=> document_jobs[i].state = "absent")
    BY DeleteRow
  <2>3. ASSUME NEW y \in deleted \cup {x}, NEW i \in Jobs, document_jobs'[i].state # "absent",
               <<document_jobs'[i].tenant, document_jobs'[i].doc>> = y,
               document_jobs'[i].base = 0
        PROVE  LedgerState(document_jobs'[i]) \in {"applied", "closed"}
    <3>1. Exists(i) /\ Doc(i) = y /\ document_jobs[i].base = 0
      BY <2>2, <2>3 DEF SameJob, Doc, Exists
    <3>2. CASE y = x
      <4>1. ~document_jobs'[i].payload /\ document_jobs'[i].state \in {"succeeded", "failed"}
        BY <3>1, <3>2, DeleteRow
      <4> QED
        BY <4>1 DEF LedgerState
    <3>3. CASE y # x
      <4>1. document_jobs'[i] = document_jobs[i]
        BY <3>1, <3>3, DeleteRow
      <4> QED
        BY <3>1, <3>3, <4>1 DEF DeletedIsGone
    <3> QED
      BY <3>2, <3>3
  <2>4. \A y \in deleted' : \E i \in Jobs :
          document_jobs'[i].state # "absent" /\ document_jobs'[i].doc = y[2]
    BY <1>1, <2>1, <2>2 DEF SameJob
  <2> QED
    BY <1>1, <2>1, <2>3, <2>4 DEF DeletedIsGone, Exists, Doc
<1> QED
  BY <1>2, <1>3, <1>4, <1>5, <1>6

\* Time only runs leases down.
LEMMA TickRow ==
  ASSUME TypeOK, Tick, NEW i \in Jobs
  PROVE  /\ document_jobs'[i] \in Job
         /\ SameJob(document_jobs[i], document_jobs'[i])
         /\ document_jobs'[i].state = document_jobs[i].state
         /\ document_jobs'[i].payload = document_jobs[i].payload
         /\ document_jobs'[i].version = document_jobs[i].version
         /\ document_jobs'[i].attempts = document_jobs[i].attempts
         /\ document_jobs'[i].token = document_jobs[i].token
<1> DEFINE row == document_jobs[i]
           left == IF row.lease > 0 THEN row.lease - 1 ELSE row.lease
<1>1. row \in Job
  BY DEF TypeOK
<1>2. left \in Int
  BY <1>1 DEF Job
<1>3. document_jobs'[i] = [row EXCEPT !.lease = left]
  BY <1>1 DEF Tick, Job
<1> HIDE DEF left, row
<1>4. /\ document_jobs'[i] \in Job /\ SameJob(row, document_jobs'[i])
      /\ document_jobs'[i].state = row.state
      /\ document_jobs'[i].payload = row.payload
      /\ document_jobs'[i].version = row.version
      /\ document_jobs'[i].attempts = row.attempts /\ document_jobs'[i].token = row.token
  BY <1>1, <1>2, <1>3 DEF Job, SameJob
<1> QED
  BY <1>4 DEF row

\* The passage of time keeps the invariant.
LEMMA TickIInv == ASSUME IInv, Tick PROVE IInv'
<1> USE DEF IInv
<1>1. \A i \in Jobs :
        /\ document_jobs'[i] \in Job
        /\ SameJob(document_jobs[i], document_jobs'[i])
        /\ document_jobs'[i].state = document_jobs[i].state
        /\ document_jobs'[i].payload = document_jobs[i].payload
        /\ document_jobs'[i].version = document_jobs[i].version
        /\ document_jobs'[i].attempts = document_jobs[i].attempts
  BY TickRow
<1>2. UNCHANGED <<document_versions, deleted>>
  BY DEF Tick
<1>3. TypeOK'
  <2>1. document_jobs' = [j \in Jobs |-> document_jobs'[j]]
    BY DEF Tick
  <2> QED
    BY <1>1, <1>2, <2>1 DEF TypeOK
<1>4. SourceIsRetained'
  BY <1>1 DEF SourceIsRetained
<1>5. KeyNamesOneJob'
  BY <1>1 DEF KeyNamesOneJob, Exists, SameJob
<1>6. JobsMatchVersions'
  BY <1>1, <1>2, MatchQuiet
<1>7. DeletedIsGone'
  <2>1. \A i \in Jobs : LedgerState(document_jobs'[i]) = LedgerState(document_jobs[i])
    BY <1>1 DEF LedgerState
  <2>2. \A i \in Jobs : <<document_jobs'[i].tenant, document_jobs'[i].doc>> = Doc(i)
    BY <1>1 DEF SameJob, Doc
  <2>3. ASSUME NEW x \in deleted
        PROVE  /\ document_versions'[x] = << >>
               /\ \E i \in Jobs : document_jobs'[i].state # "absent" /\ document_jobs'[i].doc = x[2]
               /\ \A i \in Jobs : /\ document_jobs'[i].state # "absent"
                                  /\ <<document_jobs'[i].tenant, document_jobs'[i].doc>> = x
                                  /\ document_jobs'[i].base = 0
                    => LedgerState(document_jobs'[i]) \in {"applied", "closed"}
    BY <1>1, <1>2, <2>1, <2>2 DEF DeletedIsGone, Exists, SameJob
  <2> QED
    BY <1>2, <2>3 DEF DeletedIsGone, Exists, Doc
<1> QED
  BY <1>3, <1>4, <1>5, <1>6, <1>7

\* Every step of the database, with any number of jobs and documents, keeps the
\* invariant.
LEMMA NextIInv == IInv /\ [Next]_vars => IInv'
<1> SUFFICES ASSUME IInv, [Next]_vars PROVE IInv'
  OBVIOUS
<1>1. CASE UNCHANGED vars
  BY <1>1 DEF IInv, TypeOK, SourceIsRetained, KeyNamesOneJob, JobsMatchVersions, DeletedIsGone,
              Exists, Doc, vars
<1>2. CASE Next
  BY <1>2, RowIInv, DeleteIInv, TickIInv DEF Next
<1> QED
  BY <1>1, <1>2

\* The database never leaves the inductive invariant.
THEOREM DocumentInductive == Spec => []IInv
  BY InitIInv, NextIInv, PTL DEF Spec

\* Every stored job and version list has its type, through all calls.
THEOREM JobsAreTyped == Spec => []TypeOK
  BY DocumentInductive, PTL DEF IInv

\* commit_job and delete keep jobs and versions in agreement: no job appends
\* twice and no two updates of one revision succeed.
THEOREM VersionsMatchJobs == Spec => []JobsMatchVersions
  BY DocumentInductive, PTL DEF IInv

\* claim_job never meets an open job without its source, and an ended job keeps
\* no content.
THEOREM SourcesAreRetained == Spec => []SourceIsRetained
  BY DocumentInductive, PTL DEF IInv

\* submit_job never gives one tenant's key to two jobs.
THEOREM KeysNameOneJob == Spec => []KeyNamesOneJob
  BY DocumentInductive, PTL DEF IInv

-----------------------------------------------------------------------------
(* Attempts.                                                               *)

\* What a step may make of job j while its attempt holds a live lease.
Respected(j, old, new) ==
  /\ new.attempts = old.attempts
  /\ \/ new.state = "running" /\ new.token = old.token
     \/ /\ new.state = "succeeded" /\ new.closer = old.token
        /\ document_versions'[Doc(j)] = Append(document_versions[Doc(j)], j)
     \/ new.state = "failed" /\ new.closer = old.token
     \/ new.state = "failed" /\ Doc(j) \in deleted' \ deleted

\* A call about any job respects the attempt that holds job j.
LEMMA JobRespected ==
  ASSUME IInv, NEW j \in Jobs, LeaseLive(document_jobs[j]), NEW i \in Jobs, JobStep(i)
  PROVE  Respected(j, document_jobs[j], document_jobs'[j])
<1> USE DEF IInv
<1> DEFINE row == document_jobs[j]
<1>1. row \in Job /\ row.state = "running" /\ Doc(j) \in Tenants \X Docs
  BY DEF TypeOK, LeaseLive, Job, Doc
<1>2. CASE i # j
  <2>1. document_jobs'[j] = row
    BY <1>2, JobChange, RowOnly
  <2> QED
    BY <1>1, <2>1 DEF Respected
<1>3. CASE i = j
  <2>1. ~SubmitStep(j) /\ ~ClaimJob(j) /\ ~ClaimExhausted(j) /\ ~RetryJob(j)
    BY <1>1 DEF SubmitStep, SubmitCreate, SubmitUpdate, Insert, Exists, ClaimJob,
                ClaimExhausted, Claimable, RetryJob, RetryRefused
  <2>2. CASE MarkJobPublished(j)
    <3>1. document_jobs'[j] = [row EXCEPT !.published = TRUE]
      BY <2>2 DEF MarkJobPublished, TypeOK
    <3>2. /\ document_jobs'[j].token = row.token /\ document_jobs'[j].attempts = row.attempts
          /\ document_jobs'[j].state = "running"
      <4> HIDE DEF row
      <4> QED
        BY <1>1, <3>1 DEF Job
    <3> QED
      BY <3>2 DEF Respected
  <2>3. CASE AttemptStep(j)
    <3>1. PICK token \in 1 .. row.attempts : CommitJob(j, token) \/ FailJob(j, token)
      BY <2>3 DEF AttemptStep
    <3>2. token \in Nat /\ row.token = token
      BY <1>1, <3>1 DEF CommitJob, Owned, FailJob, Job
    <3>3. CASE CommitJob(j, token)
      <4> DEFINE done == Succeeded(row)
      <4>1. /\ document_jobs'[j] = [done EXCEPT !.closer = token]
            /\ document_versions'[Doc(j)] = Append(document_versions[Doc(j)], j)
        BY <1>1, <3>3 DEF CommitJob, TypeOK
      <4>2. done.state = "succeeded" /\ done.attempts = row.attempts
            /\ done \in Job
        <5> DEFINE n == row.base + 1
        <5>1. n \in Nat
          BY <1>1 DEF Job
        <5>2. done = [row EXCEPT !.state = "succeeded", !.version = n, !.payload = FALSE,
                                 !.token = NoToken, !.lease = NoTime]
          BY DEF Succeeded
        <5> HIDE DEF n, row, done
        <5> QED
          BY <1>1, <5>1, <5>2, Nulls DEF Job
      <4> HIDE DEF done
      <4>3. /\ document_jobs'[j].state = "succeeded" /\ document_jobs'[j].closer = token
            /\ document_jobs'[j].attempts = row.attempts
        BY <3>2, <4>1, <4>2, CloserRow
      <4> QED
        BY <3>2, <4>1, <4>3 DEF Respected
    <3>4. CASE FailJob(j, token)
      <4> DEFINE keep == row.attempts < JobAttempts
                 failed == Failed(row, keep)
      <4>1. document_jobs'[j] = [failed EXCEPT !.closer = token]
        BY <3>4 DEF FailJob, TypeOK
      <4>2. keep \in BOOLEAN
        OBVIOUS
      <4> HIDE DEF keep
      <4>3. failed \in Job /\ failed.state = "failed" /\ failed.attempts = row.attempts
        BY <1>1, <4>2, FailedRow
      <4> HIDE DEF failed
      <4>4. /\ document_jobs'[j].state = "failed" /\ document_jobs'[j].closer = token
            /\ document_jobs'[j].attempts = row.attempts
        BY <3>2, <4>1, <4>3, CloserRow
      <4> QED
        BY <3>2, <4>4 DEF Respected
    <3> QED
      BY <3>1, <3>3, <3>4
  <2> QED
    BY <1>3, <2>1, <2>2, <2>3 DEF JobStep
<1> QED
  BY <1>2, <1>3

\* A delete of any document respects the attempt that holds job j, or is the
\* first delete of its document.
LEMMA DeleteRespected ==
  ASSUME IInv, NEW j \in Jobs, LeaseLive(document_jobs[j]),
         NEW x \in Tenants \X Docs, Delete(x)
  PROVE  Respected(j, document_jobs[j], document_jobs'[j])
<1> USE DEF IInv
<1>1. x \in deleted' /\ x \notin deleted
  BY DEF Delete, DeletedIsGone
<1>2. /\ document_jobs[j].state = "running"
      /\ document_jobs'[j].attempts = document_jobs[j].attempts
      /\ document_jobs'[j].state = "succeeded" <=> document_jobs[j].state = "succeeded"
      /\ \/ document_jobs'[j] = document_jobs[j]
         \/ Doc(j) = x /\ document_jobs'[j].state \in {"succeeded", "failed"}
  BY DeleteRow DEF LeaseLive
<1>3. CASE document_jobs'[j] = document_jobs[j]
  BY <1>2, <1>3 DEF Respected
<1>4. CASE Doc(j) = x /\ document_jobs'[j].state \in {"succeeded", "failed"}
  BY <1>1, <1>2, <1>4 DEF Respected
<1> QED
  BY <1>2, <1>3, <1>4

\* While the lease of an attempt is live, its job is closed only with that
\* attempt's own token, by commit_job or fail_job, or by the delete of its
\* document: a claim, a retry and a stale commit or failure leave it alone.
THEOREM AttemptsAreExclusive == Spec => AttemptIsExclusive
<1> DEFINE Respects == \A j \in Jobs : LeaseLive(document_jobs[j]) =>
             Respected(j, document_jobs[j], document_jobs'[j])
<1>1. IInv /\ [Next]_vars => Respects \/ UNCHANGED vars
  <2> SUFFICES ASSUME IInv, Next, NEW j \in Jobs, LeaseLive(document_jobs[j])
               PROVE  Respected(j, document_jobs[j], document_jobs'[j])
    OBVIOUS
  <2>1. CASE Tick
    BY <2>1, TickRow DEF Respected, LeaseLive, IInv
  <2> QED
    BY <2>1, JobRespected, DeleteRespected DEF Next
<1>2. Respects => \A j \in Jobs : LeaseLive(document_jobs[j]) =>
       LET old == document_jobs[j] new == document_jobs'[j] IN
       /\ new.attempts = old.attempts
       /\ \/ new.state = "running" /\ new.token = old.token
          \/ /\ new.state = "succeeded" /\ new.closer = old.token
             /\ document_versions'[Doc(j)] = Append(document_versions[Doc(j)], j)
          \/ new.state = "failed" /\ new.closer = old.token
          \/ new.state = "failed" /\ Doc(j) \in deleted' \ deleted
  BY DEF Respected
<1> HIDE DEF Respects
<1> QED
  BY <1>1, <1>2, DocumentInductive, PTL DEF Spec, AttemptIsExclusive

-----------------------------------------------------------------------------
(* The database implements the ledger.                                     *)

\* The ledger's view of the rows after a call about job j.
LEMMA LedgerView ==
  ASSUME TypeOK, NEW j \in Jobs, NEW new, RowChange(j, new)
  PROVE  /\ [i \in Jobs |-> LedgerState(document_jobs[i])]'
              = [[i \in Jobs |-> LedgerState(document_jobs[i])] EXCEPT ![j] = LedgerState(new)]
         /\ [i \in Jobs |-> Doc(i)]'
              = [[i \in Jobs |-> Doc(i)] EXCEPT ![j] = <<new.tenant, new.doc>>]
         /\ [i \in Jobs |-> document_jobs[i].base]'
              = [[i \in Jobs |-> document_jobs[i].base] EXCEPT ![j] = new.base]
<1>1. document_jobs'[j] = new /\ \A i \in Jobs : i # j => document_jobs'[i] = document_jobs[i]
  BY RowOnly
<1>2. \A i \in Jobs : LedgerState(document_jobs'[i]) =
                        IF i = j THEN LedgerState(new) ELSE LedgerState(document_jobs[i])
  BY <1>1
<1>3. \A i \in Jobs : <<document_jobs'[i].tenant, document_jobs'[i].doc>> =
                        IF i = j THEN <<new.tenant, new.doc>> ELSE Doc(i)
  BY <1>1 DEF Doc
<1>4. \A i \in Jobs : document_jobs'[i].base = IF i = j THEN new.base ELSE document_jobs[i].base
  BY <1>1
<1>5. [i \in Jobs |-> LedgerState(document_jobs'[i])]
        = [[i \in Jobs |-> LedgerState(document_jobs[i])] EXCEPT ![j] = LedgerState(new)]
  BY <1>2
<1>6. [i \in Jobs |-> <<document_jobs'[i].tenant, document_jobs'[i].doc>>]
        = [[i \in Jobs |-> Doc(i)] EXCEPT ![j] = <<new.tenant, new.doc>>]
  BY <1>3
<1>7. [i \in Jobs |-> document_jobs'[i].base]
        = [[i \in Jobs |-> document_jobs[i].base] EXCEPT ![j] = new.base]
  BY <1>4
<1> QED
  BY <1>5, <1>6, <1>7 DEF Doc, LedgerState

\* A call about one job is a step of the ledger or is not seen there.
LEMMA JobIsLedgerStep ==
  ASSUME IInv, NEW j \in Jobs, JobStep(j)
  PROVE  [Ledger!Next]_(Ledger!lvars)
<1> USE DEF IInv
<1>1. PICK new : RowChange(j, new)
  BY JobChange
<1> DEFINE row == document_jobs[j]
           st == [i \in Jobs |-> LedgerState(document_jobs[i])]
           tg == [i \in Jobs |-> Doc(i)]
           bs == [i \in Jobs |-> document_jobs[i].base]
<1>2. /\ st' = [st EXCEPT ![j] = LedgerState(new)]
      /\ tg' = [tg EXCEPT ![j] = <<new.tenant, new.doc>>]
      /\ bs' = [bs EXCEPT ![j] = new.base]
  BY <1>1, LedgerView
<1>3. st[j] = LedgerState(row) /\ tg[j] = <<row.tenant, row.doc>> /\ bs[j] = row.base
  BY DEF Doc
<1>4. SameJob(row, new) => tg' = tg /\ bs' = bs
  <2> SUFFICES ASSUME SameJob(row, new) PROVE tg' = tg /\ bs' = bs
    OBVIOUS
  <2>1. <<new.tenant, new.doc>> = tg[j] /\ new.base = bs[j]
    BY <1>3 DEF SameJob
  <2>2. tg = [tg EXCEPT ![j] = tg[j]] /\ bs = [bs EXCEPT ![j] = bs[j]]
    OBVIOUS
  <2> QED
    BY <1>2, <2>1, <2>2
<1>5. CASE Submits(row, new)
  <2>1. LedgerState(row) = "none" /\ LedgerState(new) = "open"
    BY <1>5 DEF Submits, LedgerState
  <2>2. <<new.tenant, new.doc>> \in Tenants \X Docs /\ new.base \in 0 .. MaxVersion
    BY <1>1, <1>5 DEF RowChange, Submits, Job
  <2>3. Ledger!Submit(j, <<new.tenant, new.doc>>, new.base)
    BY <1>2, <1>3, <1>5, <2>1 DEF Ledger!Submit, Submits
  <2> QED
    BY <2>2, <2>3 DEF Ledger!Next
<1>6. CASE Moves(row, new)
  <2>1. LedgerState(new) = st[j]
    BY <1>3, <1>6 DEF Moves
  <2>2. st = [st EXCEPT ![j] = st[j]]
    OBVIOUS
  <2>3. st' = st
    BY <1>2, <2>1, <2>2
  <2> QED
    BY <1>4, <1>6, <2>3 DEF Moves, Ledger!lvars
<1>7. CASE Closes(row, new)
  <2>1. row.payload
    BY <1>7 DEF Closes, SourceIsRetained
  <2>2. LedgerState(row) = "open" /\ LedgerState(new) = "closed"
    BY <1>7 DEF Closes, LedgerState
  <2>3. Ledger!Close(j)
    BY <1>2, <1>3, <1>4, <1>7, <2>2 DEF Ledger!Close, Closes
  <2> QED
    BY <2>3 DEF Ledger!Next
<1>8. CASE Commits(j, row, new)
  <2>1. LedgerState(row) = "open" /\ LedgerState(new) = "applied"
    BY <1>8 DEF Commits, LedgerState
  <2>2. Doc(j) \notin deleted /\ Doc(j) = <<row.tenant, row.doc>>
    BY <1>1, <1>8, RowDeleted DEF Doc
  <2>3. row.base = Len(document_versions[Doc(j)])
    BY <1>8, <2>2 DEF Commits, NextRevision
  <2>4. Ledger!Apply(j)
    BY <1>2, <1>3, <1>4, <1>8, <2>1, <2>2, <2>3 DEF Ledger!Apply, Commits
  <2> QED
    BY <2>4 DEF Ledger!Next
<1> QED
  BY <1>1, <1>5, <1>6, <1>7, <1>8 DEF RowChange

\* A delete closes in the ledger exactly the jobs of the document that were open.
LEMMA DeleteIsLedgerStep ==
  ASSUME IInv, NEW x \in Tenants \X Docs, Delete(x)
  PROVE  [Ledger!Next]_(Ledger!lvars)
<1> USE DEF IInv
<1>1. ASSUME NEW i \in Jobs
      PROVE  LedgerState(document_jobs'[i]) =
               IF LedgerState(document_jobs[i]) = "open" /\ Doc(i) = x
               THEN "closed" ELSE LedgerState(document_jobs[i])
  <2>1. CASE document_jobs'[i] = document_jobs[i] /\ ~(Exists(i) /\ Doc(i) = x)
    BY <2>1 DEF LedgerState, Exists
  <2>2. CASE /\ ~document_jobs'[i].payload /\ Exists(i) /\ Doc(i) = x
             /\ document_jobs'[i].state \in {"succeeded", "failed"}
    <3>1. document_jobs'[i].state = "succeeded" <=> document_jobs[i].state = "succeeded"
      BY DeleteRow
    <3>2. document_jobs[i].state \in {"queued", "running", "succeeded", "failed"}
      BY <2>2 DEF TypeOK, Job, Exists
    <3> QED
      BY <2>2, <3>1, <3>2 DEF LedgerState
  <2> QED
    BY <2>1, <2>2, DeleteRow
<1>2. \A i \in Jobs : /\ document_jobs'[i].base = document_jobs[i].base
                      /\ <<document_jobs'[i].tenant, document_jobs'[i].doc>> = Doc(i)
  BY DeleteRow DEF SameJob, Doc
<1> DEFINE st == [i \in Jobs |-> LedgerState(document_jobs[i])]
           tg == [i \in Jobs |-> Doc(i)]
           bs == [i \in Jobs |-> document_jobs[i].base]
<1>3. tg' = tg /\ bs' = bs
  BY <1>2 DEF Doc
<1>4. st' = [i \in Jobs |-> IF st[i] = "open" /\ tg[i] = x THEN "closed" ELSE st[i]]
  BY <1>1
<1>5. Ledger!Delete(x)
  BY <1>3, <1>4 DEF Ledger!Delete, Delete
<1> QED
  BY <1>5 DEF Ledger!Next

\* Claims, leases, failures, retries, late commits and deletes of the database
\* implement the ledger, for any number of jobs, documents and attempts.
THEOREM StoreImplementsLedger == Spec => ImplementsLedger
<1>1. Init => Ledger!Init
  <2> SUFFICES ASSUME Init PROVE Ledger!Init
    OBVIOUS
  <2>1. TypeOK
    BY InitIInv DEF IInv
  <2>2. \A j \in Jobs : LedgerState(document_jobs[j]) = "none"
    BY DEF Init, NewJob, LedgerState
  <2>3. \A j \in Jobs : Doc(j) \in Tenants \X Docs /\ document_jobs[j].base \in Nat
    BY <2>1 DEF TypeOK, Job, Doc
  <2> QED
    BY <2>2, <2>3 DEF Ledger!Init, Init
<1>2. IInv /\ [Next]_vars => [Ledger!Next]_(Ledger!lvars)
  <2> SUFFICES ASSUME IInv, [Next]_vars PROVE [Ledger!Next]_(Ledger!lvars)
    OBVIOUS
  <2>1. CASE UNCHANGED vars
    BY <2>1 DEF vars, Ledger!lvars, Doc, LedgerState
  <2>2. CASE Tick
    <3>1. \A i \in Jobs : /\ LedgerState(document_jobs'[i]) = LedgerState(document_jobs[i])
                          /\ document_jobs'[i].base = document_jobs[i].base
                          /\ <<document_jobs'[i].tenant, document_jobs'[i].doc>> = Doc(i)
      BY <2>2, TickRow DEF IInv, SameJob, Doc, LedgerState
    <3>2. UNCHANGED <<document_versions, deleted>>
      BY <2>2 DEF Tick
    <3> QED
      BY <3>1, <3>2 DEF Ledger!lvars, Doc
  <2> QED
    BY <2>1, <2>2, JobIsLedgerStep, DeleteIsLedgerStep DEF Next
<1> QED
  BY <1>1, <1>2, DocumentInductive, PTL DEF Spec, ImplementsLedger, Ledger!Spec
=============================================================================
