------------------------------ MODULE Evidence ------------------------------
(***************************************************************************)
(* What an answer may cite: the evidence one run collects, the validation  *)
(* of its answer and of the review of a document answer, and the receipt   *)
(* with which a later attempt accepts an answer that was saved             *)
(* (application/services/citation_validation.py,                           *)
(* document_answer_validation.py, document_review_validation.py, and their *)
(* uses in agent_loop.py and agent_job_runner.py).                         *)
(*                                                                         *)
(* Documents are written by others meanwhile.  An attempt may end between  *)
(* any two steps, and another one starts from the checkpoint; tokens,      *)
(* budgets and takeovers are AgentWorker's subject.  The checkpoint is     *)
(* saved a step after the local state changes.                             *)
(*                                                                         *)
(* Workers are redeployed and rolled back between attempts, so each        *)
(* attempt runs with the validation policy of its own build.  Builds with  *)
(* another VALIDATION_POLICY_VERSION are external: their gate is any, and  *)
(* the rest of their code is taken to be as here.                          *)
(*                                                                         *)
(* Texts are sets of statements: a span of an answer is a member, a quote  *)
(* is exact when the passage holds it, and a digest of a review request is *)
(* the request.                                                            *)
(***************************************************************************)
EXTENDS Integers, Sequences, Functions

CONSTANTS
  Docs, Chunks,     \* document ids, and chunk indices
  Statements,
  MaxVersion,       \* bound: versions of one document
  Reviews,          \* the reviews a reviewer may return
  TopK,             \* hits of one search
  MaxPassages,      \* passages a review admits
  VALIDATION_POLICY_VERSION,
  OtherPolicies,         \* the policies of other builds
  OtherPasses(_, _, _),  \* the gate of such a build: policy, request, review
  NoAnswer, NoReceipt

ASSUME EvidenceConstants == MaxVersion \in Nat /\ TopK \in Nat /\ MaxPassages \in Nat

ASSUME OtherPoliciesDiffer == VALIDATION_POLICY_VERSION \notin OtherPolicies

VARIABLES
  documents,   \* document -> the versions it ever had: the text of each chunk
  deleted,     \* the documents that were deleted
  mode,        \* answer_mode of the run's job
  attempt,     \* local state of the current attempt
  saved,       \* the checkpoint document
  result       \* of the run

vars == <<documents, deleted, mode, attempt, saved, result>>

-----------------------------------------------------------------------------
Text    == SUBSET Statements
Sources == Docs \X (1 .. MaxVersion) \X Chunks      \* SourceReference

\* A general answer, or a document answer by its outcome.
Answers ==
  [outcome : {"general"}, answer : Text, citations : SUBSET Sources]
    \cup [outcome : {"answered"}, answer : Text, citations : SUBSET Sources \ {{}}]
    \cup [outcome : {"insufficient_evidence"}, answer : {{}}, citations : {{}}]

\* document_search_completed, observed_sources, observed_passages.
Nothing == [search_completed |-> FALSE, sources |-> {}, passages |-> << >>]

\* What the contract of a review admits.
ClaimReview ==
  [claim : Statements, verdict : {"supported", "unsupported", "contradicted", "uncertain"},
   excerpts : SUBSET [source : Sources, quote : Statements]]

DocumentReview ==
  [verdict : {"supported", "unsupported", "conflicting", "uncertain",
              "appropriate_abstention", "unnecessary_abstention"},
   evidence_answerability : {"answerable", "insufficient", "conflicting", "uncertain"},
   covers_all_claims : BOOLEAN, addresses_question : BOOLEAN, evidence_conflict : BOOLEAN,
   claims : SUBSET ClaimReview]

ASSUME ReviewsAreReviews == Reviews \subseteq DocumentReview

\* What a search returns, what is sent to the reviewer, and what is kept of it.
Passages == [source : Sources, text : Text]
Requests == [answer : Answers, passages : Seq(Passages)]
Policies == {VALIDATION_POLICY_VERSION} \cup OtherPolicies
Receipts == [policy : Policies, request : Requests, review : Reviews]

ASSUME NoReceiptAssumption == NoReceipt \notin Receipts

\* An attempt is at "loop", "observe", "review", "final" or "finish", or over.
Ended(policy, error) ==
  [pc |-> "idle", policy |-> policy, found |-> Nothing, answer |-> NoAnswer, error |-> error]

Init ==
  /\ documents = [d \in Docs |-> << >>] /\ deleted = {}
  /\ mode \in {"general", "document"}
  /\ attempt = Ended(VALIDATION_POLICY_VERSION, "none")
  /\ saved = [found |-> Nothing, receipt |-> NoReceipt, final |-> NoAnswer]
  /\ result = NoAnswer

-----------------------------------------------------------------------------
(* The documents, as DocumentStore keeps them: versions are immutable and  *)
(* the id of a deleted document is never used again.                       *)

Write(d, text) ==
  /\ d \notin deleted /\ Len(documents[d]) < MaxVersion
  /\ documents' = [documents EXCEPT ![d] = Append(@, text)]
  /\ UNCHANGED <<deleted, mode, attempt, saved, result>>

\* Faulty variant: the document may be created anew.
DeleteForgotten(d) ==
  /\ documents[d] # << >>
  /\ documents' = [documents EXCEPT ![d] = << >>]
  /\ UNCHANGED <<deleted, mode, attempt, saved, result>>

Delete(d) ==
  /\ documents[d] # << >> /\ d \notin deleted
  /\ deleted' = deleted \cup {d}
  /\ UNCHANGED <<documents, mode, attempt, saved, result>>

\* The passages of the latest versions, which a search chooses from.
Latest ==
  {[source |-> <<d, Len(documents[d]), c>>, text |-> documents[d][Len(documents[d])][c]] :
     d \in {x \in Docs \ deleted : documents[x] # << >>}, c \in Chunks}

-----------------------------------------------------------------------------
(* Validation.                                                             *)

\* validate_answer_citations
CitationsObserved(answer, sources) == answer.citations \subseteq sources

\* validate_document_answer, or validate_answer_citations in general mode.
AnswerValid(answer, found) ==
  /\ answer.outcome # "general" => found.search_completed
  /\ CitationsObserved(answer, found.sources)

ExcerptValid(request, excerpt) ==
  /\ excerpt.source \in request.answer.citations
  /\ \E p \in Range(request.passages) : p.source = excerpt.source /\ excerpt.quote \in p.text

\* Faulty variant: the reviewer's own word is enough.
CoversAnswerSaid(request, review) == review.covers_all_claims

CoversAnswer(request, review) ==
  request.answer.answer \subseteq {claim.claim : claim \in review.claims}

\* The claims of the review are spans of the answer, each with exact cited
\* evidence.
ClaimsPass(request, review) ==
  /\ review.verdict = "supported" /\ review.evidence_answerability = "answerable"
  /\ review.covers_all_claims /\ review.addresses_question /\ ~review.evidence_conflict
  /\ review.claims # {}
  /\ \A claim \in review.claims :
       /\ claim.claim \in request.answer.answer
       /\ claim.verdict = "supported" /\ claim.excerpts # {}
       /\ \A excerpt \in claim.excerpts : ExcerptValid(request, excerpt)

\* They leave nothing of the answer out.
AnsweredPasses(request, review) ==
  ClaimsPass(request, review) /\ CoversAnswer(request, review)

AbstentionPasses(review) ==
  /\ review.verdict = "appropriate_abstention"
  /\ review.evidence_answerability \in {"insufficient", "conflicting"}
  /\ review.claims = {} /\ review.addresses_question

\* validate_document_review
ReviewPasses(request, review) ==
  IF request.answer.outcome = "answered"
  THEN AnsweredPasses(request, review) ELSE AbstentionPasses(review)

\* The gate of a build.
Passes(policy, request, review) ==
  IF policy = VALIDATION_POLICY_VERSION
  THEN ReviewPasses(request, review) ELSE OtherPasses(policy, request, review)

\* Faulty variant: a receipt of another policy will do when its review passes.
ReceiptValidAnyPolicy(policy, request, receipt) ==
  /\ receipt # NoReceipt
  /\ receipt.request = request
  /\ Passes(policy, request, receipt.review)

\* validate_review_receipt, in a build with the policy.
ReceiptValid(policy, request, receipt) ==
  /\ receipt # NoReceipt
  /\ receipt.policy = policy
  /\ receipt.request = request
  /\ Passes(policy, request, receipt.review)

Request(answer, found) == [answer |-> answer, passages |-> found.passages]

\* How an attempt of a build accepts an answer that an earlier one saved.
SavedValid(policy) ==
  /\ AnswerValid(saved.final, saved.found)
  /\ mode = "document" =>
       ReceiptValid(policy, Request(saved.final, saved.found), saved.receipt)

-----------------------------------------------------------------------------
(* An attempt.                                                             *)

At(pc)   == attempt.pc = pc
End(why) == attempt' = Ended(attempt.policy, why)

\* A worker of a build with the policy takes the run up.
Start(policy) ==
  /\ At("idle") /\ result = NoAnswer
  /\ IF saved.final = NoAnswer
     THEN attempt' = [Ended(policy, "none") EXCEPT !.pc = "loop", !.found = saved.found]
     ELSE IF SavedValid(policy)
     THEN attempt' = [Ended(policy, "none") EXCEPT !.pc = "finish", !.answer = saved.final]
     ELSE attempt' = Ended(policy, "refused")
  /\ UNCHANGED <<documents, deleted, mode, saved, result>>

\* Two payloads of one source.
Conflicting(old, hits) ==
  \E p \in Range(old), q \in Range(hits) : p.source = q.source /\ p # q

\* observed_passages keeps the order of first observation.
Extended(old, hits) ==
  LET Seen[n \in 0 .. Len(hits)] ==
        IF n = 0 THEN old
        ELSE IF hits[n] \in Range(Seen[n - 1]) THEN Seen[n - 1]
        ELSE Append(Seen[n - 1], hits[n])
  IN  Seen[Len(hits)]

\* search_documents returns ranked hits; their sources are noted, and for a
\* document answer the passages too.
Search(hits) ==
  LET old == attempt.found.passages
      new == IF mode = "document" THEN Extended(old, hits) ELSE old
  IN  /\ At("loop")
      /\ IF mode = "document" /\ Conflicting(old, hits) THEN End("conflict")
         ELSE IF Len(new) > MaxPassages THEN End("refused")
         ELSE attempt' = [attempt EXCEPT !.pc = "observe", !.found =
                [search_completed |-> TRUE, passages |-> new,
                 sources |-> @.sources \cup {p.source : p \in Range(hits)}]]
      /\ UNCHANGED <<documents, deleted, mode, saved, result>>

\* checkpoint saves what was found.
Observe ==
  /\ At("observe")
  /\ saved' = [saved EXCEPT !.found = attempt.found]
  /\ attempt' = [attempt EXCEPT !.pc = "loop"]
  /\ UNCHANGED <<documents, deleted, mode, result>>

\* The model proposes any answer of the run's mode.
Propose(answer) ==
  /\ At("loop") /\ (answer.outcome = "general") = (mode = "general")
  /\ IF AnswerValid(answer, attempt.found)
     THEN attempt' = [attempt EXCEPT !.answer = answer,
                        !.pc = IF mode = "document" THEN "review" ELSE "final"]
     ELSE End("refused")
  /\ UNCHANGED <<documents, deleted, mode, saved, result>>

\* Faulty variant: an earlier receipt is kept.
ReceiptKept(request, review) ==
  IF saved.receipt # NoReceipt THEN saved.receipt
  ELSE [policy |-> attempt.policy, request |-> request, review |-> review]

\* review_receipt
Receipt(request, review) ==
  [policy |-> attempt.policy, request |-> request, review |-> review]

\* The reviewer returns any review; one that passes leaves a receipt.
Review(review) ==
  LET request == Request(attempt.answer, attempt.found)
  IN  /\ At("review")
      /\ IF Passes(attempt.policy, request, review)
         THEN /\ saved' = [saved EXCEPT !.receipt = Receipt(request, review)]
              /\ attempt' = [attempt EXCEPT !.pc = "final"]
         ELSE End("refused") /\ UNCHANGED saved
      /\ UNCHANGED <<documents, deleted, mode, result>>

StoreFinal ==
  /\ At("final")
  /\ saved' = [saved EXCEPT !.final = attempt.answer]
  /\ attempt' = [attempt EXCEPT !.pc = "finish"]
  /\ UNCHANGED <<documents, deleted, mode, result>>

Finish ==
  /\ At("finish")
  /\ result' = attempt.answer
  /\ End("none")
  /\ UNCHANGED <<documents, deleted, mode, saved>>

\* The attempt crashes, is fenced or stops for another reason.
Stop ==
  /\ ~At("idle")
  /\ End("none")
  /\ UNCHANGED <<documents, deleted, mode, saved, result>>

Hits == {hits \in UNION {[1 .. n -> Latest] : n \in 0 .. TopK} : IsInjective(hits)}

Next ==
  \/ \E d \in Docs : Delete(d) \/ \E text \in [Chunks -> Text] : Write(d, text)
  \/ \E policy \in Policies : Start(policy)
  \/ Observe \/ StoreFinal \/ Finish \/ Stop
  \/ \E hits \in Hits : Search(hits)
  \/ \E answer \in Answers : Propose(answer)
  \/ \E review \in Reviews : Review(review)

Spec == Init /\ [][Next]_vars

-----------------------------------------------------------------------------
(* Correctness.                                                            *)

\* Every citation of a result names a version and a chunk that existed, also when
\* the document changed or was deleted since; and every statement of a document
\* answer that this build delivered, whichever build's attempt saved it, has a
\* cited source whose text, as it was stored, holds the quote the review gave for
\* it.
ResultIsGrounded ==
  result # NoAnswer =>
    /\ \A s \in result.citations : s[2] <= Len(documents[s[1]])
    /\ result.outcome = "answered" /\ attempt.policy = VALIDATION_POLICY_VERSION =>
         \A statement \in result.answer : \E claim \in saved.receipt.review.claims :
           /\ claim.claim = statement
           /\ \E e \in claim.excerpts :
                /\ e.source \in result.citations
                /\ e.quote \in documents[e.source[1]][e.source[2]][e.source[3]]

\* Which attempts can deliver an answer that was saved: whatever earlier attempts
\* left in the checkpoint and whatever happened to the documents, every attempt
\* of a build with the policy it was reviewed under accepts it, and no attempt
\* with another policy does.  A general answer is accepted by all.
SavedAnswerIsAccepted ==
  saved.final # NoAnswer =>
    \A policy \in Policies :
      SavedValid(policy) <=> (mode = "document" => saved.receipt.policy = policy)

\* A run never meets two texts of one source, because no document version changes
\* and no deleted id comes back: the loop's check for it cannot stop a run.
SourcesNeverConflict == attempt.error # "conflict"
=============================================================================
