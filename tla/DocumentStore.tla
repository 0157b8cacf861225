---------------------------- MODULE DocumentStore ----------------------------
(***************************************************************************)
(* The document database: immutable versions of documents                  *)
(* (SQLiteDocumentStore) and the durable jobs that create and update them  *)
(* (SQLiteDocumentJobs), which share each transaction                      *)
(* (crewos/ingestion/adapters).  Every method that writes is one action; a *)
(* method that raises is rolled back and is a stuttering step.             *)
(*                                                                         *)
(* A job is processed by process_document_job, in a worker or, for a       *)
(* synchronous request, in the API: claim, prepare and chunk, commit, or   *)
(* fail on any exception.  Attempts may crash, stall and be delivered      *)
(* twice, so any attempt that ever claimed a job may still try to commit   *)
(* or to fail it, and any caller may submit, retry or delete at any time.  *)
(*                                                                         *)
(* A version stands for its snapshot and is named by the job that wrote    *)
(* it.  lease_until is a timer as in RunStore; every method reads the      *)
(* clock inside its transaction.                                           *)
(***************************************************************************)
EXTENDS Integers, Sequences, FiniteSets

CONSTANTS
  Jobs,          \* job ids submissions draw from
  Docs,          \* document ids
  Tenants, Keys,
  JobLease,      \* job_lease_seconds
  JobAttempts,   \* job_max_attempts
  MaxVersion     \* bound: largest expected_version of a submitted update

ASSUME DocumentConstants ==
  /\ JobLease \in Nat \ {0} /\ JobAttempts \in Nat \ {0} /\ MaxVersion \in Nat
  /\ Tenants # {} /\ Docs # {} /\ Keys # {}

VARIABLES
  document_jobs,      \* job -> row; state "absent" where no row exists
  document_versions,  \* <<tenant, document>> -> the jobs of its versions 1, 2, ...
  deleted             \* the <<tenant, document>> ever deleted (history)

vars == <<document_jobs, document_versions, deleted>>

-----------------------------------------------------------------------------
NoToken == 0
NoTime  == -1

\* base is the version a job builds on: expected_version, 0 for a create.
\* A token is the number of the attempt it was made for.  closer is a history
\* field, read by no action: the token with which the job was last committed or
\* failed, until the job is queued or claimed again.
Job == [state : {"absent", "queued", "running", "succeeded", "failed"},
        tenant : Tenants, doc : Docs, base : Nat, key : Keys, payload : BOOLEAN,
        version : Nat, attempts : Nat, token : Nat, lease : Int, published : BOOLEAN,
        closer : Nat]

NewJob(tenant, doc, base, key, state) ==
  [state |-> state, tenant |-> tenant, doc |-> doc, base |-> base, key |-> key,
   payload |-> state # "absent", version |-> 0, attempts |-> 0, token |-> NoToken,
   lease |-> NoTime, published |-> FALSE, closer |-> NoToken]

Init ==
  /\ document_jobs = [j \in Jobs |->
        NewJob(CHOOSE n \in Tenants : TRUE, CHOOSE d \in Docs : TRUE, 0,
               CHOOSE k \in Keys : TRUE, "absent")]
  /\ document_versions = [x \in Tenants \X Docs |-> << >>]
  /\ deleted = {}

-----------------------------------------------------------------------------
Exists(j) == document_jobs[j].state # "absent"
Doc(j)    == <<document_jobs[j].tenant, document_jobs[j].doc>>

LeaseLive(row) == row.state = "running" /\ row.lease > 0

\* Faulty variant: a key is free again once its job has ended.
KeyFreeAfterEnd(tenant, key) ==
  \A j \in Jobs : Exists(j) /\ document_jobs[j].tenant = tenant /\ document_jobs[j].key = key
    => document_jobs[j].state \in {"succeeded", "failed"}

KeyFree(tenant, key) ==
  \A j \in Jobs : Exists(j) /\ document_jobs[j].tenant = tenant => document_jobs[j].key # key

\* The insert of submit_job.  A key in use returns the job it names, or raises
\* when the command differs.
Insert(j, tenant, doc, base, key) ==
  /\ ~Exists(j) /\ KeyFree(tenant, key)
  /\ document_jobs' = [document_jobs EXCEPT ![j] = NewJob(tenant, doc, base, key, "queued")]
  /\ UNCHANGED <<document_versions, deleted>>

\* A create draws a new document id.
SubmitCreate(j, tenant, doc, key) ==
  /\ \A i \in Jobs : Exists(i) => document_jobs[i].doc # doc
  /\ Insert(j, tenant, doc, 0, key)

\* An update names any document, existing, deleted or somebody else's.
SubmitUpdate(j, tenant, doc, base, key) ==
  /\ base > 0
  /\ Insert(j, tenant, doc, base, key)

-----------------------------------------------------------------------------
\* Faulty variant: a job that was started is never taken over.
ClaimableQueuedOnly(row) == row.state = "queued"

Claimable(row) == row.state \in {"queued", "running"} /\ ~LeaseLive(row)

\* A missing source raises.
ClaimJob(j) ==
  LET row == document_jobs[j]
  IN  /\ Claimable(row)
      /\ row.attempts < JobAttempts /\ row.payload
      /\ document_jobs' = [document_jobs EXCEPT ![j] =
           [row EXCEPT !.state = "running", !.attempts = @ + 1,
                       !.token = row.attempts + 1, !.lease = JobLease, !.closer = NoToken]]
      /\ UNCHANGED <<document_versions, deleted>>

\* Faulty variants: the job gets an attempt's state; the source is kept.
FailedAsExpired(row, keep) ==
  [row EXCEPT !.state = "expired", !.payload = @ /\ keep, !.token = NoToken, !.lease = NoTime]

FailedKeeping(row, keep) ==
  [row EXCEPT !.state = "failed", !.token = NoToken, !.lease = NoTime]

\* The row of a job that has failed; its source is dropped when keep is FALSE.
Failed(row, keep) ==
  [row EXCEPT !.state = "failed", !.payload = @ /\ keep, !.token = NoToken, !.lease = NoTime]

\* A claim past the attempt limit closes the job.
ClaimExhausted(j) ==
  LET row == document_jobs[j]
  IN  /\ Claimable(row)
      /\ row.attempts >= JobAttempts
      /\ document_jobs' = [document_jobs EXCEPT ![j] = Failed(row, FALSE)]
      /\ UNCHANGED <<document_versions, deleted>>

Owned(row, token) == LeaseLive(row) /\ row.token = token

\* _append: the version must be the next one.
NextRevision(row) ==
  row.base = Len(document_versions[<<row.tenant, row.doc>>])

\* Faulty variant: the outcome is left to a later step.
SucceededLater(row) == [row EXCEPT !.version = row.base + 1]

Succeeded(row) ==
  [row EXCEPT !.state = "succeeded", !.version = row.base + 1, !.payload = FALSE,
              !.token = NoToken, !.lease = NoTime]

\* commit_job appends the snapshot and records the outcome.
CommitJob(j, token) ==
  LET row == document_jobs[j]
  IN  /\ Owned(row, token) /\ NextRevision(row)
      /\ document_versions' = [document_versions EXCEPT ![Doc(j)] = Append(@, j)]
      /\ document_jobs' = [document_jobs EXCEPT ![j] =
           [Succeeded(row) EXCEPT !.closer = token]]
      /\ UNCHANGED deleted

\* Faulty variant: any attempt of the job may fail it.
FailJobAnyAttempt(j, token) ==
  LET row == document_jobs[j]
  IN  /\ row.state = "running"
      /\ document_jobs' = [document_jobs EXCEPT ![j] =
           [Failed(row, row.attempts < JobAttempts) EXCEPT !.closer = token]]
      /\ UNCHANGED <<document_versions, deleted>>

\* fail_job does not look at the lease: an attempt that overran it may still
\* fail its job until another one claims it.
FailJob(j, token) ==
  LET row == document_jobs[j]
  IN  /\ row.state = "running" /\ row.token = token
      /\ document_jobs' = [document_jobs EXCEPT ![j] =
           [Failed(row, row.attempts < JobAttempts) EXCEPT !.closer = token]]
      /\ UNCHANGED <<document_versions, deleted>>

\* Faulty variant: the source is not looked at.
RetryRefusedNoSource(row) ==
  row.state = "succeeded" \/ LeaseLive(row) \/ row.attempts >= JobAttempts

RetryRefused(row) ==
  \/ row.state = "succeeded"
  \/ LeaseLive(row)
  \/ row.attempts >= JobAttempts
  \/ ~row.payload

\* A queued job is returned as it is.
RetryJob(j) ==
  LET row == document_jobs[j]
  IN  /\ Exists(j) /\ row.state # "queued" /\ ~RetryRefused(row)
      /\ document_jobs' = [document_jobs EXCEPT ![j] =
           [row EXCEPT !.state = "queued", !.token = NoToken, !.lease = NoTime,
                       !.published = FALSE, !.closer = NoToken]]
      /\ UNCHANGED <<document_versions, deleted>>

MarkJobPublished(j) ==
  /\ Exists(j)
  /\ document_jobs' = [document_jobs EXCEPT ![j].published = TRUE]
  /\ UNCHANGED <<document_versions, deleted>>

\* delete closes every open job of the document and drops its source.
ClosedByDelete(row) ==
  [Failed(row, FALSE) EXCEPT !.state = IF row.state = "succeeded" THEN row.state ELSE @]

Delete(x) ==
  /\ document_versions[x] # << >>
  /\ document_versions' = [document_versions EXCEPT ![x] = << >>]
  /\ document_jobs' = [j \in Jobs |->
       IF Exists(j) /\ Doc(j) = x THEN ClosedByDelete(document_jobs[j]) ELSE document_jobs[j]]
  /\ deleted' = deleted \cup {x}

Tick ==
  /\ document_jobs' = [j \in Jobs |->
       [document_jobs[j] EXCEPT !.lease = IF @ > 0 THEN @ - 1 ELSE @]]
  /\ UNCHANGED <<document_versions, deleted>>

-----------------------------------------------------------------------------
SubmitStep(j) ==
  \E n \in Tenants, d \in Docs, k \in Keys :
    \/ SubmitCreate(j, n, d, k)
    \/ \E base \in 1 .. MaxVersion : SubmitUpdate(j, n, d, base, k)

AttemptStep(j) ==
  \E token \in 1 .. document_jobs[j].attempts : CommitJob(j, token) \/ FailJob(j, token)

JobStep(j) ==
  \/ SubmitStep(j)
  \/ ClaimJob(j) \/ ClaimExhausted(j)
  \/ AttemptStep(j)
  \/ RetryJob(j) \/ MarkJobPublished(j)

Next ==
  \/ \E j \in Jobs : JobStep(j)
  \/ \E x \in Tenants \X Docs : Delete(x)
  \/ Tick

Spec == Init /\ [][Next]_vars

-----------------------------------------------------------------------------
(* Correctness.                                                            *)

\* Every row and every version list has its type; a version is a position, so
\* the versions of a document have no gap.
TypeOK ==
  /\ document_jobs \in [Jobs -> Job]
  /\ document_versions \in [Tenants \X Docs -> Seq(Jobs)]
  /\ deleted \subseteq Tenants \X Docs

\* Jobs and versions agree: every version was written by one job, of its tenant
\* and document, which succeeded with that version on top of the one it
\* expected; and the version of a job that succeeded exists until the document
\* is deleted.  No job appends twice, through reclaims, retries and late
\* commits, and of two updates of one revision at most one succeeds.
JobsMatchVersions ==
  /\ \A x \in Tenants \X Docs : \A v \in 1 .. Len(document_versions[x]) :
       LET j == document_versions[x][v] IN
       /\ document_jobs[j].state = "succeeded" /\ Doc(j) = x
       /\ document_jobs[j].version = v /\ document_jobs[j].base = v - 1
  /\ \A j \in Jobs : document_jobs[j].state = "succeeded" =>
       \/ Doc(j) \in deleted
       \/ document_jobs[j].version \in 1 .. Len(document_versions[Doc(j)])
          /\ document_versions[Doc(j)][document_jobs[j].version] = j

\* The source is there as long as somebody may process the job, and gone once
\* nobody may: claim never reads a missing payload, and a job that succeeded or
\* used up its attempts retains no content.
SourceIsRetained ==
  \A j \in Jobs : LET row == document_jobs[j] IN
    /\ row.state \in {"queued", "running"} => row.payload
    /\ row.state = "succeeded" => ~row.payload
    /\ row.state = "failed" /\ row.attempts >= JobAttempts => ~row.payload

\* A tenant's idempotency key names at most one job, for ever: replaying it
\* after the job ended or its document was deleted cannot start the work again.
KeyNamesOneJob ==
  \A i, j \in Jobs :
    /\ Exists(i) /\ Exists(j)
    /\ document_jobs[i].tenant = document_jobs[j].tenant
    /\ document_jobs[i].key = document_jobs[j].key
    => i = j

\* While an attempt holds a live lease, the job ends only by that attempt's own
\* commit, which adds its version, by its own failure, or by a delete of the
\* document.  No other claim, retry, stale commit or stale failure touches it.
AttemptIsExclusive ==
  [][\A j \in Jobs : LeaseLive(document_jobs[j]) =>
       LET old == document_jobs[j] new == document_jobs'[j] IN
       /\ new.attempts = old.attempts
       /\ \/ new.state = "running" /\ new.token = old.token
          \/ /\ new.state = "succeeded" /\ new.closer = old.token
             /\ document_versions'[Doc(j)] = Append(document_versions[Doc(j)], j)
          \/ new.state = "failed" /\ new.closer = old.token
          \/ new.state = "failed" /\ Doc(j) \in deleted' \ deleted]_vars

\* A failed job whose source is kept is still open: it may be retried.
LedgerState(row) ==
  CASE row.state = "absent" -> "none"
    [] row.state = "succeeded" -> "applied"
    [] row.state = "failed" /\ ~row.payload -> "closed"
    [] OTHER -> "open"

Ledger ==
  INSTANCE DocumentLedger WITH
    Documents <- Tenants \X Docs,
    state <- [j \in Jobs |-> LedgerState(document_jobs[j])],
    target <- [j \in Jobs |-> Doc(j)],
    base <- [j \in Jobs |-> document_jobs[j].base],
    versions <- document_versions,
    gone <- deleted

\* Claims, leases, failures, retries and late commits implement the ledger: a
\* job takes effect at most once and at once, one that succeeded or lost its
\* source is closed for ever, and a deleted document never comes back, whatever
\* was queued, running, failed or submitted later.
ImplementsLedger == Ledger!Spec
=============================================================================
