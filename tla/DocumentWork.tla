---------------------------- MODULE DocumentWork ----------------------------
(***************************************************************************)
(* How document jobs get done: the document API (api/document_routes.py),  *)
(* the queue, and process_document_job, which a worker runs for a message  *)
(* and the API itself for a synchronous request.                           *)
(*                                                                         *)
(* A process is an API request or a worker task.  Each of its calls on the *)
(* document database or the broker is an action, so processes interleave,  *)
(* and a process may die between any two.  Policy checks that refuse       *)
(* before a job is registered or retried change nothing; the one inside an *)
(* attempt fails the job.                                                  *)
(*                                                                         *)
(* The broker (external) may deliver a message twice, after a lost worker  *)
(* (reject_on_worker_lost) or a visibility timeout, or lose it; a message  *)
(* that may come back stands for several of one job.                       *)
(***************************************************************************)
EXTENDS Integers, Sequences

CONSTANTS
  Jobs, Docs, Tenants, Keys, JobLease, JobAttempts, MaxVersion,  \* as in DocumentStore
  Commands,      \* job -> the command whose submission gets its id
  Procs,         \* API requests and worker tasks in progress
  NoJob

ASSUME WorkConstants ==
  /\ NoJob \notin Jobs
  /\ Commands \in [Jobs -> [tenant : Tenants, doc : Docs, base : 0 .. MaxVersion, key : Keys]]

VARIABLES document_jobs, document_versions, deleted,   \* the database
          procs,    \* process -> the point it is at
          queue     \* the jobs the broker holds a message for

Store == INSTANCE DocumentStore

stored == <<document_jobs, document_versions, deleted>>
vars   == <<document_jobs, document_versions, deleted, procs, queue>>

\* A process that is at none of "publish", "mark", "claim", "check", "commit" and
\* "fail", and works on no job.
Idle == [pc |-> "idle", job |-> NoJob, token |-> 0]

Init ==
  /\ Store!Init
  /\ procs = [p \in Procs |-> Idle]
  /\ queue = {}

-----------------------------------------------------------------------------
At(p, pc)       == procs[p].pc = pc
Goto(p, pc)     == procs' = [procs EXCEPT ![p].pc = pc]
Enter(p, pc, j) == procs' = [procs EXCEPT ![p] = [Idle EXCEPT !.pc = pc, !.job = j]]
Return(p)       == procs' = [procs EXCEPT ![p] = Idle]

\* What follows a registration: publication in the background, or the work.
Modes == {"publish", "claim"}

Submit(p, j, mode) ==
  LET c == Commands[j]
  IN  /\ At(p, "idle")
      /\ \/ c.base = 0 /\ Store!SubmitCreate(j, c.tenant, c.doc, c.key)
         \/ Store!SubmitUpdate(j, c.tenant, c.doc, c.base, c.key)
      /\ Enter(p, mode, j)
      /\ UNCHANGED queue

\* The same key and command again: the job is looked up, and published again
\* while it is open, whether or not it is known to be published.
Resubmit(p, j, mode) ==
  /\ At(p, "idle") /\ Store!Exists(j)
  /\ mode = "publish" => document_jobs[j].state \in {"queued", "running"}
  /\ Enter(p, mode, j)
  /\ UNCHANGED <<stored, queue>>

Retry(p, j) ==
  /\ At(p, "idle")
  /\ \/ Store!RetryJob(j)
     \/ document_jobs[j].state = "queued" /\ UNCHANGED stored
  /\ Enter(p, "publish", j)
  /\ UNCHANGED queue

Publish(p) ==
  /\ At(p, "publish")
  /\ queue' = queue \cup {procs[p].job}
  /\ Goto(p, "mark")
  /\ UNCHANGED stored

MarkPublished(p) ==
  /\ At(p, "mark")
  /\ Store!MarkJobPublished(procs[p].job)
  /\ Return(p)
  /\ UNCHANGED queue

-----------------------------------------------------------------------------
(* process_document_job.                                                   *)

\* A message starts a worker task; it may come back.
Deliver(p, j) ==
  /\ At(p, "idle") /\ j \in queue
  /\ queue' \in {queue, queue \ {j}}
  /\ Enter(p, "claim", j)
  /\ UNCHANGED stored

\* An update checks the revision first; the policy may deny the attempt, and the
\* preparation of a create may fail.
Claim(p) ==
  LET j   == procs[p].job
      row == document_jobs[j]
      work == IF row.base > 0 THEN "check" ELSE "commit"
  IN  /\ At(p, "claim")
      /\ \/ /\ Store!ClaimJob(j)
            /\ \E pc \in {work, "fail"} :
                 procs' = [procs EXCEPT ![p].pc = pc, ![p].token = row.attempts + 1]
         \/ Store!ClaimExhausted(j) /\ Return(p)
         \/ ~Store!Claimable(row) /\ Return(p) /\ UNCHANGED stored
      /\ UNCHANGED queue

\* A document that is gone or has another revision fails the attempt, and so
\* does parsing or chunking, which follow outside any transaction.
Check(p) ==
  /\ At(p, "check")
  /\ \/ Store!NextRevision(document_jobs[procs[p].job]) /\ Goto(p, "commit")
     \/ Goto(p, "fail")
  /\ UNCHANGED <<stored, queue>>

\* create_version of the claimed store; what it raises fails the attempt.
Commit(p) ==
  /\ At(p, "commit")
  /\ \/ Store!CommitJob(procs[p].job, procs[p].token) /\ Return(p)
     \/ Goto(p, "fail") /\ UNCHANGED stored
  /\ UNCHANGED queue

\* fail_job changes nothing when the job is not in this attempt's hands.
Fail(p) ==
  LET me == procs[p]
  IN  /\ At(p, "fail")
      /\ \/ Store!FailJob(me.job, me.token)
         \/ /\ ~(document_jobs[me.job].state = "running" /\ document_jobs[me.job].token = me.token)
            /\ UNCHANGED stored
      /\ Return(p)
      /\ UNCHANGED queue

\* The process dies, is killed by the hard limit, or cannot reach the database
\* or the broker.
Abandon(p) ==
  /\ ~At(p, "idle")
  /\ Return(p)
  /\ UNCHANGED <<stored, queue>>

-----------------------------------------------------------------------------
\* A message expires or is lost.
Drop(j) ==
  /\ j \in queue
  /\ queue' = queue \ {j}
  /\ UNCHANGED <<stored, procs>>

Delete(x) == Store!Delete(x) /\ UNCHANGED <<procs, queue>>

Tick == Store!Tick /\ UNCHANGED <<procs, queue>>

ProcStep(p) ==
  \/ Publish(p) \/ MarkPublished(p)
  \/ Claim(p) \/ Check(p) \/ Commit(p) \/ Fail(p)

Next ==
  \/ \E p \in Procs :
       \/ \E j \in Jobs :
            \/ \E mode \in Modes : Submit(p, j, mode) \/ Resubmit(p, j, mode)
            \/ Retry(p, j) \/ Deliver(p, j)
       \/ ProcStep(p) \/ Abandon(p)
  \/ \E j \in Jobs : Drop(j)
  \/ \E x \in Tenants \X Docs : Delete(x)
  \/ Tick

Spec == Init /\ [][Next]_vars

\* Time passes, no process hangs for ever (tasks have a hard time limit, requests
\* work on local data), and the client of a job submits its key again until a
\* request of his has reached the claim.  Processes may die whenever they like.
FairSpec ==
  /\ Spec
  /\ WF_vars(Tick)
  /\ \A p \in Procs : WF_vars(ProcStep(p))
  /\ \A j \in Jobs :
       /\ SF_vars(\E p \in Procs : Resubmit(p, j, "claim"))
       /\ SF_vars(\E p \in Procs : procs[p].job = j /\ Claim(p))

-----------------------------------------------------------------------------
(* Correctness.                                                            *)

\* Every submitted job is closed, succeeded or failed, if its client keeps
\* submitting its key: through lost messages, dead workers, expired leases and
\* the attempt limit.
JobEnds ==
  \A j \in Jobs :
    Store!Exists(j) ~> document_jobs[j].state \in {"succeeded", "failed"}
=============================================================================
