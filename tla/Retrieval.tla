------------------------------ MODULE Retrieval ------------------------------
(***************************************************************************)
(* A text from its chunking to a search that should find it: the chunks    *)
(* Chunking makes are validated and saved (ingestion/contracts.py), and    *)
(* RetrievalFacade.search authorizes the caller, reads the tenant's        *)
(* current documents in one transaction (read_latest_documents), ranks     *)
(* their passages and bounds the result (crewos/retrieval).  Another       *)
(* document is saved, replaced and deleted meanwhile.                      *)
(*                                                                         *)
(* The query is one term.  It occurs once in the text, and in some         *)
(* versions of the other document.  A term that a window cuts is another   *)
(* word in that window.  Scores are arbitrary, and positive exactly for a  *)
(* passage that holds the term: the deployed BM25 and the keyword overlap  *)
(* are two such scores.                                                    *)
(***************************************************************************)
EXTENDS Chunking, SequencesExt

CONSTANTS
  TermLengths,     \* lengths of the query's term
  Options,         \* top_k, and max_documents and max_output_chars of the retriever
  Permissions,     \* the permissions a caller may have
  Scores,          \* scores of the passages that match
  MaxVersion       \* bound: versions of the other document

ASSUME RetrievalConstants ==
  /\ TermLengths \cup Scores \subseteq Nat \ {0} /\ MaxVersion \in Nat
  /\ Options \subseteq [top_k : Nat \ {0}, max_documents : Nat \ {0},
                        max_output_chars : Nat \ {0}]

VARIABLES
  corpus,   \* document -> its latest version, or Absent
  search    \* a search, and how it ended

chunkVars  == <<request, pc, chunks, index, previous_end>>
searchVars == <<request, pc, chunks, index, previous_end, corpus, search>>

Text   == 1          \* the text that was split
Other  == 2
Docs   == {Text, Other}

\* hits: the positions of the chunks that hold the term.
Absent == [version |-> 0, chunks |-> << >>, hits |-> {}]

\* seen is a history: the corpora that were current since the search began.
Idle == [pc |-> "idle", options |-> CHOOSE o \in Options : TRUE, snapshot |-> << >>,
         scores |-> << >>, passages |-> << >>, seen |-> {}]

SearchInit ==
  /\ Init
  /\ corpus = [d \in Docs |-> Absent]
  /\ search = Idle

-----------------------------------------------------------------------------
(* The documents.                                                          *)

\* StoredDocumentVersion.validate_saved_chunks; chunks are slices of the text
\* here, so that their text matches.
SavedChunksValid(cs, length) ==
  /\ cs # << >>
  /\ \A i \in DOMAIN cs :
       LET before == IF i = 1 THEN 0 ELSE cs[i - 1].end_char
       IN  cs[i].index = i - 1 /\ cs[i].start_char <= before /\ before < cs[i].end_char
  /\ cs[Len(cs)].end_char = length

\* The chunks that hold all of a term of that length at that place.
Holding(cs, first, length) ==
  {i \in DOMAIN cs : cs[i].start_char <= first /\ first + length <= cs[i].end_char}

Searching == search.pc \in {"count", "load", "rank"}

Put(d, document) ==
  /\ corpus' = [corpus EXCEPT ![d] = document]
  /\ search' = IF Searching THEN [search EXCEPT !.seen = @ \cup {corpus'}] ELSE search
  /\ UNCHANGED chunkVars

\* The text that was split is saved; the term is somewhere in it.
Save(first, length) ==
  /\ pc = "returned" /\ corpus[Text] = Absent /\ search.pc = "idle"
  /\ first + length <= request.length
  /\ SavedChunksValid(chunks, request.length)
  /\ Put(Text, [version |-> 1, chunks |-> chunks, hits |-> Holding(chunks, first, length)])

\* The other document, of one chunk, is created or updated.
SaveOther(hits) ==
  /\ corpus[Text] # Absent /\ corpus[Other].version < MaxVersion
  /\ Put(Other, [version |-> corpus[Other].version + 1, hits |-> hits,
                 chunks |-> <<[index |-> 0, start_char |-> 0, end_char |-> 2]>>])

Delete(d) ==
  /\ Searching /\ corpus[d] # Absent
  /\ Put(d, Absent)

-----------------------------------------------------------------------------
(* The search.                                                             *)

Set(changed) == search' = changed /\ UNCHANGED <<chunkVars, corpus>>

\* PermissionPolicyService.evaluate
Allows(permissions, action) == action \in permissions

\* PolicyEnforcedExecutor.execute, one inside the other, before anything is read.
Permitted(permissions) ==
  Allows(permissions, "document.search") /\ Allows(permissions, "document.read")

Authorize(permissions, options) ==
  /\ search.pc = "idle" /\ corpus[Text] # Absent
  /\ Set([Idle EXCEPT !.pc = IF Permitted(permissions) THEN "count" ELSE "denied",
                      !.options = options, !.seen = {corpus}])

Current(c) == {d \in DOMAIN c : c[d] # Absent}

\* read_latest_documents begins a transaction and counts before it loads.
CountDocuments ==
  /\ search.pc = "count"
  /\ Set(IF Cardinality(Current(corpus)) > search.options.max_documents
         THEN [search EXCEPT !.pc = "limit"]
         ELSE [search EXCEPT !.pc = "load", !.snapshot = corpus])

\* Faulty variant: the rows are read outside the transaction of the count.
LoadedNow == corpus

\* The rows of the transaction that counted them.
Loaded == search.snapshot

LoadDocuments ==
  /\ search.pc = "load"
  /\ Set([search EXCEPT !.pc = "rank", !.snapshot = Loaded])

Matches(c) == UNION {{<<d, i>> : i \in c[d].hits} : d \in DOMAIN c}

\* The best score first, then by document and position.
Precedes(scores, p, q) ==
  \/ scores[p] > scores[q]
  \/ scores[p] = scores[q] /\ (p[1] < q[1] \/ (p[1] = q[1] /\ p[2] < q[2]))

\* The matches in that order: before each there are as many as its place says.
Ranked(matches, scores) ==
  [i \in 1 .. Cardinality(matches) |->
     CHOOSE p \in matches : Cardinality({q \in matches : Precedes(scores, q, p)}) = i - 1]

Size(c, p) == LET chunk == c[p[1]].chunks[p[2]] IN chunk.end_char - chunk.start_char

Selected(ranked, options) == SubSeq(ranked, 1, Smaller(options.top_k, Len(ranked)))

Admitted(c, ranked, options) ==
  LET selected == Selected(ranked, options)
  IN  Total([i \in DOMAIN selected |-> Size(c, selected[i])]) <= options.max_output_chars

\* The facade trusts no retriever: distinct passages, at most top_k of them.
ResultValid(passages, options) ==
  Len(passages) <= options.top_k /\ Cardinality(Range(passages)) = Len(passages)

\* The candidates are sorted, cut to top_k and measured.
Rank(scores) ==
  LET ranked == Ranked(Matches(search.snapshot), scores)
  IN  /\ search.pc = "rank"
      /\ \/ /\ ~Admitted(search.snapshot, ranked, search.options)
            /\ Set([search EXCEPT !.pc = "limit", !.scores = scores])
         \/ /\ Admitted(search.snapshot, ranked, search.options)
            /\ Set([search EXCEPT
                 !.pc = IF ResultValid(Selected(ranked, search.options), search.options)
                        THEN "returned" ELSE "invalid",
                 !.scores = scores, !.passages = Selected(ranked, search.options)])

-----------------------------------------------------------------------------
SearchNext ==
  \/ Next /\ UNCHANGED <<corpus, search>>
  \/ \E length \in TermLengths : \E first \in 0 .. request.length - length : Save(first, length)
  \/ \E hits \in SUBSET {1} : SaveOther(hits)
  \/ \E d \in Docs : Delete(d)
  \/ \E permissions \in Permissions, options \in Options : Authorize(permissions, options)
  \/ CountDocuments \/ LoadDocuments
  \/ search.pc = "rank" /\ \E scores \in [Matches(search.snapshot) -> Scores] : Rank(scores)

SearchSpec == SearchInit /\ [][SearchNext]_searchVars

-----------------------------------------------------------------------------
(* Correctness.                                                            *)

\* What a search of one corpus must answer: of the passages that match, the
\* top_k before which there is none that was left out, in their order.
IsBest(c, passages, scores, top_k) ==
  LET found == Range(passages) IN
  /\ found \subseteq Matches(c) /\ Cardinality(found) = Len(passages)
  /\ Len(passages) = Smaller(top_k, Cardinality(Matches(c)))
  /\ \A i, j \in DOMAIN passages : i < j => Precedes(scores, passages[i], passages[j])
  /\ \A p \in found, q \in Matches(c) \ found : Precedes(scores, p, q)

\* The best passages are longer than the retriever may return.
TooLong(c, scores, options) ==
  \E passages \in BoundedSeq(Matches(c), options.top_k) :
    /\ IsBest(c, passages, scores, options.top_k)
    /\ Total([i \in DOMAIN passages |-> Size(c, passages[i])]) > options.max_output_chars

\* A search answers for one state of the tenant's documents that was current
\* while it ran, although documents are replaced and deleted between the count
\* and the load: within the retriever's limits it returns exactly the best
\* passages of that state, and it is refused only when that state has too many
\* documents or its best passages are too long.  The facade never has to reject
\* what the retriever returned.
SearchIsExact ==
  LET options == search.options
      crowded(c) == Cardinality(Current(c)) > options.max_documents
      scored(c) == Matches(c) = DOMAIN search.scores
  IN  /\ search.pc # "invalid"
      /\ search.pc = "returned" =>
           \E c \in search.seen :
             /\ ~crowded(c) /\ scored(c) /\ ~TooLong(c, search.scores, options)
             /\ IsBest(c, search.passages, search.scores, options.top_k)
      /\ search.pc = "limit" =>
           \E c \in search.seen :
             crowded(c) \/ (scored(c) /\ TooLong(c, search.scores, options))

\* A term no longer than the overlap and one character is never lost between two
\* chunks: the document that has it is found.
TermIsFound ==
  \A first \in 0 .. request.length - 1, length \in 1 .. request.overlap + 1 :
    corpus[Text] # Absent /\ first + length <= request.length
      => Holding(corpus[Text].chunks, first, length) # {}
=============================================================================
