# CrewOS: specifications, model checking and proofs

TLA+ specifications of the parts of CrewOS where the difficulty is not in the
code of one function but in what happens between functions: durable agent runs
that several workers may execute, crash on and take over; API requests that
touch three stores without a common transaction; document jobs that race with
deletes; searches over a corpus that changes; tasks whose owner, message and
result expire on clocks of their own; evidence that changes while an answer is
reviewed.  The modules are translated
from the Python source; every definition that models code is listed with its
lines in `PROJECT.json` under `map`.

## 1. The system

CrewOS is a FastAPI service with Celery workers.  A tenant submits an *agent
run*; a worker executes it as a bounded loop of model decisions and tool calls;
progress lives in a SQLite run store.  Documents are ingested, versioned and
chunked by *document jobs* in a second SQLite database, and searched by a tool
of the agent.  An older fixed workflow of two model calls runs as a plain Celery
task (*crew task*), whose state is kept by Celery's result backend and whose
tenant by a key in Redis.

| Component | State | Operations | Correct when |
|---|---|---|---|
| Run store (`infrastructure/run_store.py`) | rows of `agent_runs` and `agent_attempts` | create, get (reconciles), mark_published, claim, guard, checkpoint, finish, cancel, resume | one live attempt at a time; terminal is final; cancellation sticks; attempts and deadline are not replenished; a stale owner cannot write |
| Attempt runner, loop and execution control (`core/agent_job_runner.py`, `use_cases/agent_loop.py`, `services/execution_control.py`) | local copy of the checkpoint, heartbeat thread and its error, ceilings | claim, persist, guard, reserve, reconcile, recover, decide, review, dispatch, observe, finish | no decision asked twice, no unsafe tool run twice, spending reserved before it happens, results are the checkpointed ones, every run ends |
| Model adapters (`third_party/llm`) | none | decide, review | reserve before the call, reconcile after it |
| Agent API (`api/agent_routes.py`), ownership keys (`task_ownership.py`), broker | Redis key per run, messages | submit, retry with a key, resume, read, cancel | durable row before message before confirmation; keys name the run's tenant |
| Document store (`sqlite_document_store.py`, `sqlite_document_jobs.py`) | rows of `document_versions` and `document_jobs` | submit, claim, commit, fail, retry, mark published, delete | versions and jobs agree, deletes are final, the source is kept exactly as long as needed |
| Document API and processing (`document_routes.py`, `document_job_processor.py`, coordinator, facades, `document_task.py`) | messages; the claim in hand | submit, replay, retry, publish, delete; process one job | every job ends, closed once, whoever works on it |
| Chunking (`chunking/`) | none | split a text, check the result | windows cover the text and overlap as asked; limits are exact |
| Evidence (`citation_validation.py`, `document_answer_validation.py`, `document_review_validation.py`) | in the checkpoint: searches done, passages seen, receipt, answer | validate an answer, a review, a receipt | results quote stored text; a saved answer is accepted again under the policy it was reviewed with, and under no other |
| Retrieval (`retrieval/`), policy (`policy_executor.py`, `permission_policy.py`) | none | authorize, read the corpus in one transaction, rank, cut, validate | an answer is exact for one state of the corpus; a term is not lost between chunks |
| Crew workflow (`routes.py`, `crew_task.py`, `retry.py`, `crew_runner.py`, `run_crew.py`, `domain/`), task status (`task_status_reader.py`, `task_state.py`) | ownership key, messages, stored task state | submit, attempt, retry, fail, time limit, read the status | the owner, and nobody else, can read a task while it lives; attempts are bounded and permitted by the provider; every message is settled |
| Tenancy, configuration | settings | checks before an operation | refusal changes nothing |
| Observability, evaluation | logs | read-only views, scripts | not modelled |

How they interact: the API writes the run store, then Redis, then the broker,
then the store again.  The broker hands the job to any worker, possibly twice or
never.  The worker claims the run with a lease and shares the store with a
heartbeat thread, with other workers that believe they own the run, and with API
calls that cancel, resume or, merely by reading, reconcile it.  A document job
takes the same route through its own API, queue and database, or is processed by
the request that submitted it; both ways may happen at once.  Searches read the
latest document versions while jobs add new ones and deletes remove them.  A crew
task has no row of its own: the API writes its key and sends its message, the
worker and the broker move the message and the stored state, and a reader looks at
the key and then at the state.

What is hard: lease expiry against late writes; clocks read before a lock is
granted, and read several times in one transaction; crashes between the
reservation, the model call and the checkpoint, or between a tool's effect and
the record of it; a redeployment with other limits or another validation policy
between two attempts; handlers
that die between two stores; confirmations that arrive late.  `PROJECT.json`
lists each such hazard with its line and the properties aimed at it.

## 2. Modules

| Module | Models | Reads as |
|---|---|---|
| `RunStore` | `run_store.py` | one action per method and transaction; `get` is three actions under its lock, one per clock reading |
| `RunLifecycle` | what the store promises | state, attempts, cancellation and result of a run without leases, tokens or time |
| `RunStoreProofs` | | TLAPS proofs about `RunStore` |
| `AgentWorker` | runner, loop, execution control, adapters, on top of `RunStore` | one action per store transaction or external call of a worker |
| `AgentWorkerSteps` | | the inductive invariant of the workers, and proofs that every action is of one of six kinds |
| `AgentWorkerProofs` | | TLAPS proofs about `AgentWorker`, kind by kind |
| `Submission` | agent API, ownership keys and broker, on top of `RunStore` | one action per call of a handler on one of the three stores |
| `SubmissionProofs` | | TLAPS proofs about `Submission` |
| `DocumentStore` | document versions and jobs | one action per writing method |
| `DocumentLedger` | what the document database promises | jobs that take effect once or never, without attempts, leases, keys or sources |
| `DocumentWork` | document API, queue and `process_document_job`, on top of `DocumentStore` | one action per call of a request or task on database or broker |
| `Evidence` | what a run's answer rests on, over its attempts | one action per search, proposal, review and save; validation as operators |
| `EvidenceProofs` | | TLAPS proofs about `Evidence` |
| `Chunking` | window splitter and the service that checks it | a behaviour is one call |
| `Retrieval` | saving what was split, and a search of it, on top of `Chunking` | one action per statement of the search's transaction; ranking as operators |
| `RetrievalProofs` | | TLAPS proofs about `Chunking` and `Retrieval` |
| `CrewTask` | one crew task from its submission to its expiry, and reads of its status | one action per call of the handler, step of an attempt, step of the broker and tick |
| `CrewTaskProofs` | | TLAPS proofs about `CrewTask` |
| `DocumentStoreProofs` | | TLAPS proofs about `DocumentStore`, with the refinement of `DocumentLedger` |
| `MC*` | | constants for TLC |

`AgentWorker` and `Submission` use `RunStore` through
`Store == INSTANCE RunStore`, so that their steps are the store's actions and
the store's theorems apply to them.  `DocumentWork` uses `DocumentStore` likewise.

**RunStore.**  A run's row keeps the columns the code decides on.  A token is
the position of its attempt row.  `lease_until` and `deadline` are timers, the
time left, so that the clock is unbounded and the state finite; a timer stops at
`-LockWait`, below which no method can tell values apart, because `claim`
compares with a clock reading that may be `LockWait` old.  NULL is one below that.
A method that raises is rolled back and changes nothing, so it is not a step.
Clients are arbitrary: any token ever issued may be used at any time.

**AgentWorker.**  `workers[w]` holds the program point, the token, the local copy
of the checkpoint (`ExecutionControl.state`), the ceilings of the deployment,
and the heartbeat with its pending error.  The checkpoint document is reduced to
what control depends on: the pending tool call and its replay policy, decisions,
recoveries, reserved tokens, ceilings, the receipt of a review and the final
answer; an answer is named by the decision that gave it.  `world` records what
left the process: model calls per decision, effects of replay-unsafe tools,
tokens admitted.  A worker may crash, receive the soft time limit, stall for any
time, or get an sqlite error from any store call.  History, prompts, pricing,
logging and metrics are left out.

**Submission.**  A handler is a caller with a program point.  It stops anywhere:
that covers a crash, an error of Redis or the broker, and a send whose outcome is
unknown.  The broker may lose a message or deliver it again; the ownership key
may expire at any time.  `sent` is a history variable.

**DocumentStore.**  A version is represented by the job that wrote it.  Any
attempt that ever claimed a job may still try to commit or fail it.  The field
`closer` of a job is a history that no action reads: the token of the attempt whose
commit or failure closed it, so that `AttemptIsExclusive` can tell an attempt's own
failure from a stale one, from a claim and from a delete.

**DocumentWork.**  A process is an API request or a worker task with a program
point.  `Submit` and `Resubmit` continue with publication (`background`) or with
the work itself; `Deliver` starts a task for a message, which may stay in the
queue and come again.  `Commands` says what each job id is submitted for.  Parsing
and chunking touch no shared state and either succeed or fail, so they belong to
the step before them: `Claim` of a create, `Check` of an update.  A process may die
at any point; a policy refusal inside an attempt fails the job.

**Evidence.**  One run and one attempt at a time, over documents that others write
and delete.  `attempt` is the local state, `saved` the checkpoint, which follows it
one step later.  Texts are sets of statements: "is an exact span of" and "holds the
quote" become membership, and the digest in a receipt is the request it is of.
`documents` keeps the versions of a deleted document as history; searches do not
see them.  That a version never changes and an id is never reused is what
`DocumentStore` shows (`ImplementsLedger`, `JobsMatchVersions`).  A receipt carries
the `VALIDATION_POLICY_VERSION` of the build that wrote it, and `Start` takes the
run up with a worker of any build, newer or older.  Of a build with another policy
the repository says nothing: its gate is the parameter `OtherPasses`, and the rest
of its code, the version check of a receipt included, is taken to be the code here.
`ResultIsGrounded` therefore speaks of the statements of a document answer only
where the attempt that delivered it was of this build.

**Chunking.**  A text is its length and a chunk its span, so a chunk's text is the
slice its span names by construction.  The splitter's arithmetic and the service's
loop are as in the code; `Needed` and `NeededChars`, the reference, count windows
and characters one by one.

**Retrieval.**  The chunks come from `Chunking`; the query is one term, and a
document's `hits` are the chunks that hold all of it.  A second document is saved,
replaced and deleted at any time.  `CountDocuments` and `LoadDocuments` are the two
statements of one read transaction, so the second sees the snapshot of the first.
Scores are arbitrary numbers, positive exactly for a match; that is all the
selection depends on, for BM25 and for keyword overlap alike.  `Ranked` says what
the sort computes: in each place the match before which as many others come.  `search.seen` is a
history of the corpora that were current since the search began.
`max_snapshot_bytes` is checked in the same condition as `max_documents` and is not
told apart from it; the 32,000 bytes of the search tool's answer are left out.

**CrewTask.**  Task ids are fresh, so tasks share nothing and one is enough.
`owner`, `backend` and the messages in `deliveries` carry the time they have left.
A copy of the message is queued, or in one of the two calls of its attempt.  An
attempt may end in success, failure, a retry, a time limit, or with an outcome that
could not be written; its worker may die (`Crash`) and its message may be restored
while it goes on (`Restore`).  A message keeps its expiry through retries and
redeliveries.  The visibility timeout (3600 s) is not shorter than that expiry (at
most 3600 s), so with the shipped settings a restored message is usually revoked;
the model lets it come earlier, as it does after a worker's warm shutdown.
`RetryAfters` are the waits the provider asks for; `retry_delay` obeys one up to
60 s and gives up otherwise.

**DocumentLedger** and **RunLifecycle** are specifications of what clients see.
`ImplementsLedger` maps a job that is queued, running, or failed with its source
kept, to `open`: all three may still take effect.

Definitions headed "Faulty variant" are not part of the model: each is a
plausible mistake in the definition below it, used to confirm that a property
can fail (`PROJECT.json`, `mutants`).

## 3. Runs

| Run | Instance | Shows |
|---|---|---|
| lifecycle | 1 run, 2 tenants, 2 inputs, 1 key, lease 2, duration 5, 3 attempts, clock lag 1, all 4 checkpoint shapes | the store's invariants and action properties, and `RunStore` implements `RunLifecycle` |
| takeover | 2 workers, 2 attempts, 2 decisions, lease 1, duration 2 | no repeated model call or unsafe effect, local state mirrors the store |
| budgets | 1 worker, 2 deployments (3 tokens/1 recovery, 2/0), document answers, excess usage 0 or 1, lease 2, duration 1, with fairness | budgets, results, reasons; a run does not stay `running` |
| publish | 2 requests, 2 tenants, 1 run, 2 messages | publication and ownership |
| jobs | 3 jobs on 1 document, 2 attempts, lease 1 | versions, jobs, retained source, keys, and `DocumentStore` implements `DocumentLedger` |
| ends | a create and an update, 2 processes, 2 attempts, with fairness | a job whose key is submitted again is closed |
| search | texts to 7, sizes to 4, every overlap, limits around the boundary; then 2 documents, a term of 2 characters, 2 scores, top_k of 1 and 2 | the splitter against the service and against the reference, and searches against a definition of the best passages |
| crew | 2 tenants, 2 retries, 1 redelivery, stall 1, attempt 1, queue 2, result 2, owner 6, with fairness | ownership, bounded and permitted attempts, every message settled |
| grounded | 1 document with 2 versions, 2 statements, 740 different reviews, 2 validation policies | results, receipts and evidence across attempts |
| attempts, unsafe, retry | small instances of the above (unsafe: 1 worker, 1 attempt, 2 decisions, 2 deployments, with fairness) | three statements of the documentation that the code does not keep (section 5) |

*Why the bounds are enough.*  Runs do not influence each other except through
keys, so one run shows the lifecycle; keys of runs are left to the proof
(`KeysNameOneRun`).  Three attempts cover
first, taken over and last.  A lease of 2 against a duration of 5 lets a lease
expire both before and after the deadline, and lets an owner act late in its
lease.  Two workers give a current and a stale owner; a third would be another
stale one.  Two decisions cover "before" and "after" a replay and the decision
limit.  In takeover a lease of 1 and a duration of 2 are the least that let
a lease run out and leave time for another attempt.  In budgets a lease of 2
outlasts the duration of 1, which is what lets a heartbeat renew past the
deadline; two tokens pay for a decision and its review, and the third for the
second decision or for an excess.  Three document jobs are a create and two
competing updates; two attempts each cover a reclaim.  Two statements and two
versions let a review leave part of an answer out, quote another version than the
cited one, and meet a document that changed between two searches.  The second policy
is that of a build which took the reviewer's word that the claims cover the answer;
two builds give a receipt of one's own and one of somebody else's.  In crew the
owner's 6 is exactly the sum of the stall, the queue, an attempt and the result, the
tightest setting `CrewConstants` admits; a wait of 1 is obeyed and one of 2 is not;
the second retry is the last, and one redelivery gives two chains of retries side
by side.  In search the second document is what makes a corpus change between the
count and the load, exceed `max_documents`, and tie with the first.  The bounds
`MaxMessages` and `MaxVersion` cap the broker's queue and the revisions that
updates name or documents have.

*Symmetry* is used for workers, requests, jobs and statements, in runs without
liveness only; no step chooses among them, and `Init` only for the value of unused
fields.

*Fairness* (`FairSpec`): time passes (`WF` of `Tick`) and a client polls the run
while it is running (`WF` of `Poll`, the reconciling read).  Nothing is assumed
of workers, heartbeats or the broker: a worker may stall or renew as long as the
code lets it.  Without a poll a dead run stays `running` in the database, since
there is no background reconciler; the assumption says exactly what the code
relies on.  For `DocumentWork` time passes, no process hangs for ever (tasks have a
hard time limit), and the client of a job submits its key again, as the API's 503
tells him to, until a request of his has reached the claim (`SF` of `Resubmit` and
`Claim`); every process may still die after any step, and the broker may lose
every message.  For `CrewTask` time passes, workers of the tenant's queue keep
taking messages that may start or have expired, and the time limits of Celery are
enforced; a model call may hang for ever, and every message may be lost or repeated.

Deadlock is checked wherever time can always pass.  A call of `chunk` ends, and so
does a run with its result over a document with no version to come, so `search`
and `grounded` may stop.

## 4. Proofs

`RunStoreProofs` proves, for every set of runs, tenants, inputs, keys, results
and checkpoints, and every lease, duration, attempt limit and lock wait that
satisfy `StoreConstants`:

- `Inductive`: `Spec => []IInv`;
- `StoreInvariants`: type correctness, `QueuedIsClaimable`, `RunningIsComplete`,
  `CancelSticks`, `AttemptsAccounted`, `ResultIffSucceeded`; and each of them that a
  run checks once more by itself (`RowsAreTyped`, `QueuedRunsCanStart`,
  `CancellationSticks`, `AttemptsAreAccounted`, `ResultMeansSuccess`);
- `TerminalRunsAreFinal`, `LiveLeasesExclude`, `DeadlinesRunDown`,
  `CheckpointsAreFenced`: the action properties;
- `KeysNameOneRun`: idempotency keys;
- `StoreImplementsLifecycle`: the refinement.

*The argument.*  The invariants are not inductive by themselves.  `IInv` adds,
per row (`RowOK`): a token survives only in a running row or in one that `cancel`
closed after its lease had run out (otherwise `claim` could expire the wrong
attempt row); the deadline exists exactly when an attempt does (otherwise a
running row could have a NULL deadline); an absent row has no attempts; and a
queued row has attempts left and no unsafe pending call (otherwise `resume` or
`create` could queue a run no claim accepts).  `RowStep` reduces preservation to
the one row an action touches; there is one lemma per method.  The action
properties and the refinement share `StepChange`, which lists the ways in which a
step can change the row of a run, and `OneRunPerStep`, which says that it changes
no other.

`CrewTaskProofs` proves, for every set of tenants, any number of retries and
redeliveries, and all settings that satisfy `CrewConstants` (in particular an owner
kept at least as long as a stalled request, the queue, one attempt and its result
together, which the ranges of `core/config.py` guarantee for a stall of up to 3330 s):

- `CrewInductive`: `Spec => []IInv`;
- `OwnershipOutlives`: `OwnerOutlivesTask`;
- `ReaderFailsClosed`: `FoundIsOwned`;
- `ProviderIsObeyed`: `RetryIsPermitted`.

*The argument.*  `OwnerOutlivesTask` compares clocks that run side by side, so its
strengthening says how much is left of each: before the send the key has lost no
more than the stall (`Unsent`); a message that can still start leaves the key time
for an attempt and its result (`MessageCovered`); so does a running attempt for the
rest of its limit (`AttemptCovered`), also when its message has expired meanwhile;
and a stored state never outlives the key (`ResultCovered`).  `DeliveryStep` reduces
every step of the worker and the broker to the one copy it changes; `TickIInv` is
the step that makes all clocks run.  `ProviderIsObeyed` needs that a queued message
waits at least as long as it must (`WaitObeyed`).

`DocumentStoreProofs` proves, for every set of jobs, documents, tenants and keys,
and every lease and attempt limit that satisfy `DocumentConstants`:

- `DocumentInductive`: `Spec => []IInv`;
- `JobsAreTyped`, `VersionsMatchJobs`, `SourcesAreRetained`, `KeysNameOneJob`: the
  state invariants of run *jobs*;
- `AttemptsAreExclusive` (`AttemptIsExclusive`): a job whose attempt has a live lease
  is closed with that attempt's own token or by the delete of its document;
- `StoreImplementsLedger`: `DocumentStore` implements `DocumentLedger`.

*The argument.*  `JobChange` shows that every call about one job does one of four
things to its row (`RowChange`): it submits it, moves it between states that are
equally open to the ledger, closes it, or commits it as the next version.  The
invariants follow from these four, from `delete` (`DeleteRow`) and from time
(`TickRow`).  They are inductive together; the refinement needs one more fact,
`DeletedIsGone`: a deleted document has no version, its id is in use and no create
of it is open.  A commit needs the version it builds on, so on a deleted document
only a create could commit; there is none, and hence none ever comes back.
`AttemptsAreExclusive` goes through the calls once more (`JobRespected`,
`DeleteRespected`); that a delete which ends an attempt is the first of its document
is again `DeletedIsGone`.

`SubmissionProofs` proves, for every set of requests, runs, tenants, keys and
messages:

- `SubmissionInductive`: `Spec => []IInv`;
- `ConfirmedWasSentHolds`, `OwnerIsTenantHolds`: the invariants of run *publish*;
- `RequestsImplementStore`: requests, broker and workers together are a behaviour of
  the run store.

*The argument.*  The three stores have no common transaction, so `IInv` says what
each may rely on in the others: a message in the queue, or a request about to
confirm, was preceded by a send (`MessageWasSent`), a key exists for rows only
(`OwnedExists`), and the run store keeps its own invariant (`Store!IInv`).  The
latter is not proved again: each step is a step of the store (`StepOfStore`), and
the store's `NextIInv` is applied through `INSTANCE`.  One lemma per call of a
handler then says what it does to the row of the run.

`AgentWorkerSteps` and `AgentWorkerProofs` prove, for any number of workers, runs,
attempts, decisions and deployments, and any estimates and excesses of the provider
(`StoreAssumption`, `WorkerConstants`):

- `CopiesInductive`, `OrderInductive`, `EndsInductive`, `WorkersInductive`: the
  inductive invariant, `Copies /\ Order /\ Ends /\ Covered`;
- `WorkersAreTyped`, `LocalCopyMirrorsStore` (`LocalMirrorsStored`),
  `ModelAskedOnce` (`OneCallPerDecision`), `SpendingIsReserved` (`SpendIsReserved`),
  `ResultsAreCheckpointed` (`ResultIsCheckpointed`), `RunsEndForAReason`
  (`EndsForAReason`): the invariants of runs *takeover* and *budgets*;
- `BudgetsStay` (`BudgetsNeverRewind`), `UnsafeToolsActInOrder`
  (`UnsafeEffectsInOrder`): the action properties;
- `WorkersImplementStore`: the workers' behaviours are behaviours of the run store.

*The argument.*  A worker acts on a local copy and may do so long after it lost the
run, so every property is about which worker the store still listens to.  `Copies`
says that tokens are issued once and that the copy of the worker whose token is
current equals the stored checkpoint.  `Order` adds that a decision a worker is about
to ask for, or an unsafe call it is about to make, is counted in the store and was not
asked for or made before (`FreshIsCounted`), that no two workers are about to do so
for one decision (`FreshIsUnique`), and that an unsafe tool runs only while its call
is the stored one and no later attempt exists (`ActingIsStored`).  `Ends` says what a
worker that is about to finish has to show for it.  `Covered` says that what was spent
and what workers are about to spend is reserved in the store; the tokens a worker may
still spend are numbered units, so that those of two workers are disjoint sets and
their number is a cardinality.  The actions of a worker are of six kinds (it moves,
saves, asks, acts, starts or stops; `StepKind`), and all others leave checkpoints
alone (`Quiet`), so each layer has one lemma per kind and not one per action.

`EvidenceProofs` proves, for any documents, chunks, statements, reviews, and limits
(`EvidenceConstants`; a receipt that is missing differs from every receipt,
`NoReceiptAssumption`), and for any validation policies and gates of other builds
(`OtherPoliciesDiffer`: none of them has this build's version):

- `EvidenceInductive`: `Spec => []IInv`;
- `SavedAnswersAreAccepted` (`SavedAnswerIsAccepted`), `SourcesAgree`
  (`SourcesNeverConflict`), `ResultsAreGrounded` (`ResultIsGrounded`).

*The argument.*  What was found stays true: a stored version never changes, also when
its document is deleted (`FoundTrue`, over the documents and what a search found).
The attempt is at most one step ahead of the checkpoint (`AttemptFollowsSaved`), an
answer in hand has passed the checks that precede its program point
(`AnswerChecked`), those of the gate in the build of that attempt, and a saved one all
of them in the builds of one policy (`SavedChecked`); together these are inductive.
That policy is the one the receipt names, so no check of a later attempt with it can
come out differently, and every other build refuses the receipt.  A result was
delivered by a build that accepts it (`ResultIsSaved`).

`RetrievalProofs` proves, for texts of any length, every chunk size, overlap and
limit, any options of a search and any scores (`ChunkingConstants`,
`RetrievalConstants`):

- `ChunkingInductive`, `RetrievalInductive`: the inductive invariants of a call of
  `chunk` and of the whole way from it to a search;
- `LimitsStayExact` (`LimitsAreExact`), `ChunksAlwaysTile` (`ChunksTile`);
- `TermsAreFound` (`TermIsFound`), `SearchesAreExact` (`SearchIsExact`).

*The argument.*  `CountReaches` is the arithmetic: with `Count` windows the text's
end is reached, and with one less it is not.  From it follow the end of each window
(`WindowEnds`), that `Count` is the least number (`NeededIsCount`), that the service
measures what the splitter computed (`CharsOfWindows`), that this is the number of
characters counted one by one (`NeededCharsIsOutput`, by rows of the set that
`NeededChars` counts), and that every term no longer than the overlap and one
character lies in one window (`TermInWindow`).  For the search, the order of the
retrievers is a strict total order (`PrecedesOrder`), so that each place of the
ranking has exactly one match (`PlaceIsTaken`, `BeforeIsUnique`), and a list is the
best exactly when each of its passages is in the place that says how many come
before it (`PlacesAreBest`, `BestAreInPlace`).  Hence the selection is the only best
list, and the length limit refuses exactly when that list is too long
(`AnswerIsBest`).  `SearchInv` carries the corpus that was counted to the ranking.

`CrewTaskProofs` also proves `AttemptsStayBounded` (`AttemptsAreBounded`): a copy of
the message has a number of starts left (`Left`); the starts so far and the starts
left over all copies never exceed the bound (`BudgetInv`).  The sum is stated by its
partial sums (`Sums`), since each step changes one copy or adds a fresh one.

*Induction over data.*  The library's induction theorems take an operator as a
parameter, which the provers here cannot instantiate.  Where a proof needs induction
(sums, folds over a sequence of searches), it uses `NatSetInduction`: a set that holds
0 and the successor of each of its numbers holds every natural number.  Being about a
set it needs no operator; it follows from the well-foundedness of `<`.  For this the
modules define such values by recursive functions and not by library folds.

*Only model-checked:* liveness (`RunningEnds`, `JobEnds`, `TaskEnds`), since the
prover has no support for fairness, and with `JobEnds` the module `DocumentWork`,
whose steps on the database are `DocumentStore`'s.  Every other property of a
passing run is also a theorem.

## 5. Where code and documentation differ

All quotations are from `docs/architecture/runtime-reliability.md`.

1. *attempts*: "A cancelled crashed attempt is reconciled after lease expiry"
   (line 65).  If `cancel` itself comes after the lease expired, it closes the
   run and leaves the attempt row `running`; nothing closes it later.
2. *retry*: "Retrying with its idempotency key or explicitly resuming can publish
   it" (line 30).  A confirmation that arrives after a resume marks the resumed
   run as published; if the resume died before sending, retrying with the key
   does nothing.  Resuming again still works.
3. *unsafe*: "unsafe tool failures stop execution" (line 94).  A
   `ValidationError` from the handler of an unsafe tool, after its effect, is
   treated like invalid arguments.  While the run has a recovery left
   (`AGENT_MAX_RECOVERIES` is 1 as shipped), it is granted, the pending marker is
   cleared and the model is asked for the next decision; the trace ends there.
   Without one the error is raised again and the run ends `needs_review`, as
   documented: with a deployment of no recoveries the same property holds.

A smaller one has no run: cancellation "records a cancelled lifecycle" (line 65),
but `get` reads the clock for each block, and if the lease of a cancelled run ends
between the first and the last reading with the deadline passed, it records
`exhausted`.  `CancelSticks` therefore admits that state.

## 6. Plan

Done: the run store and its lifecycle, the worker, the agent API, the document
database and its ledger, document jobs, evidence, chunking and retrieval, the crew
task; proofs of every safety property that a run checks.

Next, in this order:

1. `DocumentWork` implements `DocumentStore`, so that the store's theorems hold of
   requests and tasks, and a claimed attempt is in the hands of one process only.
2. The safety half of the liveness properties: a run whose deadline has passed is
   ended by the next poll, whatever its workers do.
3. Evidence with two chunks and the admission limit of a review in its own run.

## 7. Not modelled

Authentication and configuration, and policy checks outside of searches (a refusal
precedes every call and changes nothing); prompts, schemas and the model client;
parsing; logging and metrics; the synchronous crew run, which keeps no state; rank
fusion, which nothing in the service calls; evaluation scripts and demos.  BM25
scores are floating point and appear as arbitrary numbers.  The cost ceiling
behaves like the token ceiling and is not told apart from it.  Host clock
corrections are not modelled: time only moves forward.
