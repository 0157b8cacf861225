--------------------------- MODULE EvidenceProofs ---------------------------
(***************************************************************************)
(* Proofs about Evidence, for every set of documents, chunks, statements   *)
(* and reviews and all bounds that satisfy the module's assumptions.       *)
(*                                                                         *)
(* The argument: whatever an attempt or a checkpoint says was found was    *)
(* stored once, and versions are never changed (FoundTrue).  An answer     *)
(* under way has passed the checks of the points behind it, against the    *)
(* evidence the checkpoint holds (AttemptFollowsSaved, AnswerChecked), so  *)
(* the saved answer passes them again in every build of the policy it was  *)
(* reviewed under (SavedChecked).  Nothing is assumed of the gates of      *)
(* other builds.                                                           *)
(***************************************************************************)
EXTENDS Evidence, WellFoundedInduction, TLAPS

\* A source that was stored, and a passage with the text that was stored.
Existed(docs, s) == s[2] <= Len(docs[s[1]])
Stored(docs, p)  ==
  Existed(docs, p.source) /\ p.text = docs[p.source[1]][p.source[2]][p.source[3]]

\* What was found is true of the documents, whatever happened to them since.
Found == [search_completed : BOOLEAN, sources : SUBSET Sources, passages : Seq(Passages)]

FoundTrue(docs, found) ==
  /\ found \in Found
  /\ \A s \in found.sources : Existed(docs, s)
  /\ \A p \in Range(found.passages) : Stored(docs, p)

\* Versions are counted from one and stay within the bound.
DocumentsTyped ==
  /\ documents \in [Docs -> Seq([Chunks -> Text])]
  /\ \A d \in Docs : Len(documents[d]) <= MaxVersion

AttemptTyped ==
  /\ attempt \in [pc : {"idle", "loop", "observe", "review", "final", "finish"},
                  policy : Policies, found : Found,
                  answer : Answers \cup {NoAnswer}, error : {"none", "refused"}]
  /\ FoundTrue(documents, attempt.found)

SavedTyped ==
  /\ saved \in [found : Found, receipt : Receipts \cup {NoReceipt},
                final : Answers \cup {NoAnswer}]
  /\ FoundTrue(documents, saved.found)

\* A document answer in document mode, a general one otherwise.
OfMode(m, answer) == (answer.outcome = "general") = (m = "general")

\* Until it saves an answer, the attempt goes on from a checkpoint without one,
\* and after every save the two agree on what was found.
AttemptFollowsSaved ==
  /\ attempt.pc \in {"loop", "observe", "review", "final"} => saved.final = NoAnswer
  /\ attempt.pc \in {"loop", "review", "final"} => attempt.found = saved.found
  /\ attempt.pc = "finish" => attempt.answer = saved.final /\ SavedValid(attempt.policy)

\* An answer under way has passed the checks of the points it is past.
AnswerChecked ==
  attempt.pc \in {"review", "final"} =>
    /\ attempt.answer \in Answers /\ OfMode(mode, attempt.answer)
    /\ AnswerValid(attempt.answer, attempt.found)
    /\ attempt.pc = "final" /\ mode = "document" =>
         ReceiptValid(attempt.policy, Request(attempt.answer, attempt.found), saved.receipt)

\* A saved answer passes them again in builds of one policy, and is the only
\* possible result, delivered by such a build.
SavedChecked ==
  saved.final # NoAnswer =>
    OfMode(mode, saved.final) /\ \E policy \in Policies : SavedValid(policy)

ResultIsSaved ==
  result # NoAnswer =>
    result = saved.final /\ attempt.pc = "idle" /\ SavedValid(attempt.policy)

IInv ==
  /\ mode \in {"general", "document"}
  /\ DocumentsTyped /\ AttemptTyped /\ SavedTyped
  /\ AttemptFollowsSaved /\ AnswerChecked /\ SavedChecked /\ ResultIsSaved
-----------------------------------------------------------------------------
(* The loop over the hits of a search.                                     *)

\* Induction over the naturals, for a set instead of a predicate: the least
\* number that is not in S would have a predecessor in S.
LEMMA NatSetInduction ==
  ASSUME NEW S, 0 \in S, \A n \in Nat : n \in S => n + 1 \in S
  PROVE  \A n \in Nat : n \in S
<1> DEFINE T == Nat \ S
           R == OpToRel(<, Nat)
<1> SUFFICES ASSUME T # {} PROVE FALSE
  OBVIOUS
<1>1. IsWellFoundedOn(R, Nat)
  BY NatLessThanWellFounded
<1>2. \A x, y \in Nat : x < y => <<x, y>> \in R
  BY DEF OpToRel
<1> HIDE DEF R
<1>3. PICK x \in T : \A y \in T : ~(<<y, x>> \in R)
  BY <1>1, WFMin
<1>4. x # 0 /\ x \in Nat
  OBVIOUS
<1>5. x - 1 \in Nat /\ x - 1 < x /\ (x - 1) + 1 = x
  BY <1>4
<1>6. x - 1 \notin T
  BY <1>2, <1>3, <1>4, <1>5
<1> QED
  BY <1>4, <1>5, <1>6

\* One turn of the loop that adds the passages of a search to observed_passages.
Noted(seen, p) == IF p \in Range(seen) THEN seen ELSE Append(seen, p)

\* The recursion in Extended defines a function: the loop reaches every hit.
LEMMA SeenExists ==
  ASSUME NEW P, NEW old \in Seq(P), NEW hits \in Seq(P)
  PROVE  \E f : f = [n \in 0 .. Len(hits) |-> IF n = 0 THEN old ELSE Noted(f[n - 1], hits[n])]
<1> DEFINE Is(f, k) == f = [n \in 0 .. k |-> IF n = 0 THEN old ELSE Noted(f[n - 1], hits[n])]
           S == {k \in Nat : \E f : Is(f, k)}
<1>1. 0 \in S
  <2>1. Is([n \in 0 .. 0 |-> old], 0)
    OBVIOUS
  <2> QED
    BY <2>1
<1>2. ASSUME NEW k \in Nat, k \in S
      PROVE  k + 1 \in S
  <2>1. PICK f : Is(f, k)
    BY <1>2
  <2> DEFINE g == [n \in 0 .. k + 1 |-> IF n = k + 1 THEN Noted(f[k], hits[k + 1]) ELSE f[n]]
  <2>2. Is(g, k + 1)
    <3>1. ASSUME NEW n \in 0 .. k + 1
          PROVE  g[n] = IF n = 0 THEN old ELSE Noted(g[n - 1], hits[n])
      <4> HIDE DEF Noted
      <4>1. CASE n = k + 1
        <5>1. n # 0 /\ n - 1 = k /\ k # k + 1 /\ k \in 0 .. k + 1
          BY <4>1
        <5>2. g[n - 1] = f[k]
          BY <5>1
        <5> QED
          BY <4>1, <5>1, <5>2
      <4>2. CASE n # k + 1 /\ n # 0
        <5>1. n \in 0 .. k /\ n - 1 \in 0 .. k + 1 /\ n - 1 # k + 1
          BY <4>2
        <5>2. f[n] = Noted(f[n - 1], hits[n])
          BY <5>1, <4>2, <2>1
        <5> QED
          BY <4>2, <5>1, <5>2
      <4>3. CASE n = 0
        <5>1. f[0] = old
          BY <2>1
        <5> QED
          BY <4>3, <5>1
      <4> QED
        BY <4>1, <4>2, <4>3
    <3> QED
      BY <3>1
  <2>3. \E h : Is(h, k + 1)
    <3> HIDE DEF g, Is
    <3> QED
      BY <2>2
  <2> HIDE DEF Is
  <2> QED
    BY <2>3
<1>3. Len(hits) \in S
  <2> HIDE DEF S
  <2> QED
    BY <1>1, <1>2, NatSetInduction
<1> QED
  BY <1>3

\* The loop over the hits of a search adds nothing to observed_passages but hits.
LEMMA ExtendedRange ==
  ASSUME NEW P, NEW old \in Seq(P), NEW hits \in Seq(P)
  PROVE  /\ Extended(old, hits) \in Seq(P)
         /\ Range(Extended(old, hits)) \subseteq Range(old) \cup Range(hits)
<1> DEFINE Is(f) == f = [n \in 0 .. Len(hits) |-> IF n = 0 THEN old ELSE Noted(f[n - 1], hits[n])]
           F == CHOOSE f : Is(f)
           Fine(s) == s \in Seq(P) /\ Range(s) \subseteq Range(old) \cup Range(hits)
           S == {k \in Nat : k <= Len(hits) => Fine(F[k])}
<1>1. Extended(old, hits) = F[Len(hits)]
  BY DEF Extended, Noted
<1>2. Is(F)
  <2>1. \E f : Is(f)
    BY SeenExists
  <2> HIDE DEF Is
  <2> QED
    BY <2>1
<1> HIDE DEF F
<1>3. 0 \in S
  BY <1>2
<1>4. ASSUME NEW k \in Nat, k \in S
      PROVE  k + 1 \in S
  <2> SUFFICES ASSUME k + 1 <= Len(hits) PROVE Fine(F[k + 1])
    OBVIOUS
  <2>1. Fine(F[k])
    BY <1>4
  <2>2. F[k + 1] = Noted(F[k], hits[k + 1])
    <3> HIDE DEF Noted
    <3>1. k + 1 \in 0 .. Len(hits) /\ k + 1 # 0 /\ (k + 1) - 1 = k
      OBVIOUS
    <3>2. F[k + 1] = IF k + 1 = 0 THEN old ELSE Noted(F[(k + 1) - 1], hits[k + 1])
      BY <1>2, <3>1
    <3> QED
      BY <3>1, <3>2
  <2>3. hits[k + 1] \in P /\ hits[k + 1] \in Range(hits)
    BY DEF Range
  <2> DEFINE t == F[k] p == hits[k + 1]
  <2>4. Fine(Append(t, p))
    <3>1. /\ t \in Seq(P) /\ p \in P /\ p \in Range(hits)
          /\ Range(t) \subseteq Range(old) \cup Range(hits)
      BY <2>1, <2>3
    <3> HIDE DEF t, p
    <3>2. Range(Append(t, p)) \subseteq Range(t) \cup {p}
      BY <3>1 DEF Range
    <3> QED
      BY <3>1, <3>2
  <2> QED
    BY <2>1, <2>2, <2>4 DEF Noted
<1>5. Len(hits) \in S
  <2> HIDE DEF S
  <2> QED
    BY <1>3, <1>4, NatSetInduction
<1> QED
  BY <1>1, <1>5
-----------------------------------------------------------------------------
(* The documents.                                                          *)

\* What was stored stays stored when a version is added (Write).
LEMMA WriteKeeps ==
  ASSUME IInv, NEW d \in Docs, NEW text \in [Chunks -> Text], Write(d, text)
  PROVE  /\ DocumentsTyped'
         /\ \A e \in Docs : \A n \in 1 .. Len(documents[e]) :
              n <= Len(documents'[e]) /\ documents'[e][n] = documents[e][n]
<1>1. /\ documents \in [Docs -> Seq([Chunks -> Text])]
      /\ \A e \in Docs : Len(documents[e]) <= MaxVersion
      /\ MaxVersion \in Nat
  BY EvidenceConstants DEF IInv, DocumentsTyped
<1>2. /\ documents' = [documents EXCEPT ![d] = Append(@, text)]
      /\ Len(documents[d]) < MaxVersion
  BY DEF Write
<1>3. ASSUME NEW e \in Docs
      PROVE  /\ documents'[e] \in Seq([Chunks -> Text]) /\ Len(documents'[e]) <= MaxVersion
             /\ \A n \in 1 .. Len(documents[e]) :
                  n <= Len(documents'[e]) /\ documents'[e][n] = documents[e][n]
  <2> DEFINE C == [Chunks -> Text]
             s == documents[e]
  <2>1. s \in Seq(C) /\ Len(s) <= MaxVersion /\ text \in C
    BY <1>1
  <2>2. documents'[e] = IF e = d THEN Append(s, text) ELSE s
    BY <1>1, <1>2
  <2>3. e = d => Len(s) < MaxVersion
    BY <1>2
  <2> HIDE DEF C, s
  <2>4. /\ Append(s, text) \in Seq(C) /\ Len(Append(s, text)) = Len(s) + 1
        /\ \A n \in 1 .. Len(s) : Append(s, text)[n] = s[n]
    BY <2>1
  <2>5. Len(s) \in Nat
    BY <2>1
  <2> QED
    BY <1>1, <2>1, <2>2, <2>3, <2>4, <2>5 DEF s, C
<1>4. documents' \in [Docs -> Seq([Chunks -> Text])]
  BY <1>1, <1>2, <1>3
<1> QED
  BY <1>3, <1>4 DEF DocumentsTyped

\* What was found of the documents stays true when stored versions stay.
LEMMA FoundStays ==
  ASSUME NEW old, NEW new, NEW found, FoundTrue(old, found),
         \A e \in Docs : \A n \in 1 .. Len(old[e]) :
              n <= Len(new[e]) /\ new[e][n] = old[e][n],
         \A e \in Docs : Len(old[e]) \in Nat
  PROVE  FoundTrue(new, found)
<1>1. ASSUME NEW s \in Sources, Existed(old, s)
      PROVE  s[2] <= Len(new[s[1]]) /\ new[s[1]][s[2]] = old[s[1]][s[2]]
  <2>1. s[1] \in Docs /\ s[2] \in 1 .. Len(old[s[1]])
    BY <1>1 DEF Sources, Existed
  <2> QED
    BY <2>1
<1>2. ASSUME NEW s \in found.sources
      PROVE  s \in Sources /\ Existed(old, s)
  BY DEF FoundTrue, Found
<1>3. ASSUME NEW p \in Range(found.passages)
      PROVE  p.source \in Sources /\ Stored(old, p)
  <2>1. p \in Passages
    BY DEF FoundTrue, Found, Range
  <2> QED
    BY <2>1 DEF Passages, FoundTrue
<1> QED
  BY <1>1, <1>2, <1>3 DEF Stored, Existed, FoundTrue

\* A hit of a search is a passage as it is stored now.
LEMMA LatestIsStored ==
  ASSUME DocumentsTyped, NEW p \in Latest
  PROVE  p \in Passages /\ Stored(documents, p)
<1>1. PICK d \in Docs, c \in Chunks :
        /\ documents[d] # << >>
        /\ p = [source |-> <<d, Len(documents[d]), c>>, text |-> documents[d][Len(documents[d])][c]]
  BY DEF Latest
<1>2. documents[d] \in Seq([Chunks -> Text]) /\ Len(documents[d]) \in 1 .. MaxVersion
  BY <1>1, EvidenceConstants DEF DocumentsTyped
<1>3. documents[d][Len(documents[d])] \in [Chunks -> Text]
  BY <1>2
<1>4. p.text \in Text /\ p.source \in Sources
  BY <1>1, <1>2, <1>3 DEF Sources
<1> QED
  BY <1>1, <1>2, <1>4 DEF Passages, Stored, Existed

\* The hits of one search are a sequence of passages as they are stored.
LEMMA HitsAreStored ==
  ASSUME DocumentsTyped, NEW hits \in Hits
  PROVE  hits \in Seq(Passages) /\ \A p \in Range(hits) : Stored(documents, p)
<1>1. PICK n \in 0 .. TopK : hits \in [1 .. n -> Latest]
  BY DEF Hits
<1>2. n \in Nat
  BY EvidenceConstants
<1>3. ASSUME NEW i \in 1 .. n
      PROVE  hits[i] \in Passages /\ Stored(documents, hits[i])
  BY <1>1, LatestIsStored
<1> QED
  BY <1>1, <1>2, <1>3 DEF Range

\* Two stored passages of one source are the same.
LEMMA StoredIsUnique ==
  ASSUME NEW p \in Passages, NEW q \in Passages,
         Stored(documents, p), Stored(documents, q), p.source = q.source
  PROVE  p = q
BY DEF Passages, Stored

-----------------------------------------------------------------------------
(* One lemma per action.                                                   *)

\* Before the first search nothing is claimed of any document.
LEMMA NothingIsTrue == FoundTrue(documents, Nothing)
BY DEF FoundTrue, Nothing, Found, Range

\* An attempt that ended claims nothing.
LEMMA EndedTyped ==
  ASSUME NEW policy \in Policies, NEW why \in {"none", "refused"}
  PROVE  /\ Ended(policy, why) \in
              [pc : {"idle", "loop", "observe", "review", "final", "finish"},
               policy : Policies, found : Found,
               answer : Answers \cup {NoAnswer}, error : {"none", "refused"}]
         /\ Ended(policy, why).pc = "idle" /\ Ended(policy, why).policy = policy
         /\ FoundTrue(documents, Ended(policy, why).found)
BY NothingIsTrue DEF Ended, FoundTrue

\* The invariant holds at the start.
LEMMA InitIInv == Init => IInv
<1> SUFFICES ASSUME Init PROVE IInv
  OBVIOUS
<1>1. DocumentsTyped
  BY EvidenceConstants DEF Init, DocumentsTyped
<1>2. AttemptTyped /\ attempt.pc = "idle"
  BY EndedTyped DEF Init, AttemptTyped, Policies
<1>3. SavedTyped /\ saved.final = NoAnswer
  BY NothingIsTrue DEF Init, SavedTyped, FoundTrue
<1> QED
  BY <1>1, <1>2, <1>3
  DEF Init, IInv, AttemptFollowsSaved, AnswerChecked, SavedChecked, ResultIsSaved

\* Steps that leave the run alone, the documents aside.
LEMMA DocumentsIInv ==
  ASSUME IInv, UNCHANGED <<mode, attempt, saved, result>>, DocumentsTyped',
         FoundTrue(documents', attempt.found), FoundTrue(documents', saved.found)
  PROVE  IInv'
BY DEF IInv, AttemptTyped, SavedTyped, AttemptFollowsSaved, AnswerChecked, SavedChecked,
       SavedValid, ResultIsSaved

\* Others write a version of a document (Write).
LEMMA WriteIInv ==
  ASSUME IInv, NEW d \in Docs, NEW text \in [Chunks -> Text], Write(d, text)
  PROVE  IInv'
<1>1. /\ DocumentsTyped'
      /\ \A e \in Docs : \A n \in 1 .. Len(documents[e]) :
           n <= Len(documents'[e]) /\ documents'[e][n] = documents[e][n]
  BY WriteKeeps
<1>2. \A e \in Docs : Len(documents[e]) \in Nat
  BY DEF IInv, DocumentsTyped
<1>3. FoundTrue(documents, attempt.found) /\ FoundTrue(documents, saved.found)
  BY DEF IInv, AttemptTyped, SavedTyped
<1>4. FoundTrue(documents', attempt.found) /\ FoundTrue(documents', saved.found)
  BY <1>1, <1>2, <1>3, FoundStays
<1> QED
  BY <1>1, <1>4, DocumentsIInv DEF Write

\* Others delete a document: its versions stay true of what was found (Delete).
LEMMA DeleteIInv ==
  ASSUME IInv, NEW d \in Docs, Delete(d)
  PROVE  IInv'
<1>1. UNCHANGED <<documents, mode, attempt, saved, result>>
  BY DEF Delete
<1>2. DocumentsTyped'
  BY <1>1 DEF IInv, DocumentsTyped
<1>3. FoundTrue(documents', attempt.found) /\ FoundTrue(documents', saved.found)
  BY <1>1 DEF IInv, AttemptTyped, SavedTyped
<1> QED
  BY <1>1, <1>2, <1>3, DocumentsIInv

\* The attempt ends for a reason other than a conflict, and leaves the checkpoint.
LEMMA EndIInv ==
  ASSUME IInv, NEW policy \in Policies, NEW why \in {"none", "refused"},
         attempt' = Ended(policy, why), policy = attempt.policy \/ result' = NoAnswer,
         UNCHANGED <<documents, mode, saved>>,
         result' = result \/ (At("finish") /\ result' = saved.final)
  PROVE  IInv'
<1>1. AttemptTyped' /\ attempt'.pc = "idle" /\ attempt'.policy = policy
  BY EndedTyped DEF AttemptTyped
<1>2. DocumentsTyped' /\ SavedTyped'
  BY DEF IInv, DocumentsTyped, SavedTyped
<1>3. SavedChecked'
  BY DEF IInv, SavedChecked, SavedValid
<1>4. ResultIsSaved'
  <2> SUFFICES ASSUME result' # NoAnswer
               PROVE  result' = saved'.final /\ SavedValid(attempt.policy)'
    BY <1>1 DEF ResultIsSaved
  <2>1. attempt'.policy = attempt.policy
    BY <1>1
  <2>2. result' = saved.final /\ SavedValid(attempt.policy)
    BY DEF IInv, ResultIsSaved, AttemptFollowsSaved, At
  <2> QED
    BY <2>1, <2>2 DEF SavedValid
<1> QED
  BY <1>1, <1>2, <1>3, <1>4 DEF IInv, AttemptFollowsSaved, AnswerChecked

\* The same for an attempt that ends by itself (End).
LEMMA EndsIInv ==
  ASSUME IInv, NEW why \in {"none", "refused"}, End(why), UNCHANGED <<documents, mode, saved>>,
         result' = result \/ (At("finish") /\ result' = saved.final)
  PROVE  IInv'
<1>1. attempt.policy \in Policies /\ attempt' = Ended(attempt.policy, why)
  BY DEF End, IInv, AttemptTyped
<1> QED
  BY <1>1, EndIInv

\* A step within an attempt: the local state and the checkpoint move, and the
\* documents, the mode and the result do not.
LEMMA LocalStep ==
  ASSUME IInv, UNCHANGED <<documents, mode, result>>, ~At("idle") \/ result = NoAnswer,
         AttemptTyped', SavedTyped', AttemptFollowsSaved', AnswerChecked', SavedChecked'
  PROVE  IInv'
BY DEF IInv, DocumentsTyped, ResultIsSaved, At

\* An attempt of any build starts, from the checkpoint or with the answer it
\* holds, or refuses that answer (Start).
LEMMA StartIInv ==
  ASSUME IInv, NEW policy \in Policies, Start(policy)
  PROVE  IInv'
<1>0. /\ At("idle") /\ result = NoAnswer
      /\ UNCHANGED <<documents, deleted, mode, saved, result>>
  BY DEF Start
<1> DEFINE none == Ended(policy, "none")
<1>1. /\ none \in [pc : {"idle", "loop", "observe", "review", "final", "finish"},
                   policy : Policies, found : Found,
                   answer : Answers \cup {NoAnswer}, error : {"none", "refused"}]
      /\ none.policy = policy /\ FoundTrue(documents, none.found)
  BY EndedTyped
<1> HIDE DEF none
<1>2. CASE saved.final = NoAnswer
  <2>1. attempt' = [none EXCEPT !.pc = "loop", !.found = saved.found]
    BY <1>2 DEF Start, none
  <2>2. AttemptTyped' /\ SavedTyped'
    BY <1>0, <1>1, <2>1 DEF IInv, AttemptTyped, SavedTyped
  <2>3. attempt'.pc = "loop" /\ attempt'.found = saved'.found /\ saved'.final = NoAnswer
    BY <1>0, <1>1, <1>2, <2>1
  <2> QED
    BY <1>0, <2>2, <2>3, LocalStep DEF AttemptFollowsSaved, AnswerChecked, SavedChecked
<1>3. CASE saved.final # NoAnswer /\ SavedValid(policy)
  <2>1. attempt' = [none EXCEPT !.pc = "finish", !.answer = saved.final]
    BY <1>3 DEF Start, none
  <2>2. AttemptTyped' /\ SavedTyped'
    BY <1>0, <1>1, <2>1 DEF IInv, AttemptTyped, SavedTyped
  <2>3. attempt'.pc = "finish" /\ attempt'.answer = saved'.final /\ attempt'.policy = policy
    BY <1>0, <1>1, <2>1
  <2>4. SavedChecked' /\ SavedValid(attempt.policy)'
    BY <1>0, <1>3, <2>3 DEF IInv, SavedChecked, SavedValid
  <2> QED
    BY <1>0, <2>2, <2>3, <2>4, LocalStep DEF AttemptFollowsSaved, AnswerChecked
<1>4. CASE saved.final # NoAnswer /\ ~SavedValid(policy)
  <2>1. attempt' = Ended(policy, "refused")
    BY <1>4 DEF Start
  <2> QED
    BY <1>0, <2>1, EndIInv
<1> QED
  BY <1>2, <1>3, <1>4

\* What the attempt saw is stored text, so no search contradicts an earlier one.
LEMMA NeverConflicting ==
  ASSUME IInv, NEW hits \in Hits
  PROVE  ~Conflicting(attempt.found.passages, hits)
<1>1. /\ attempt.found.passages \in Seq(Passages)
      /\ \A p \in Range(attempt.found.passages) : Stored(documents, p)
  BY DEF IInv, AttemptTyped, FoundTrue, Found
<1>2. hits \in Seq(Passages) /\ \A p \in Range(hits) : Stored(documents, p)
  BY HitsAreStored DEF IInv
<1>3. Range(attempt.found.passages) \subseteq Passages /\ Range(hits) \subseteq Passages
  BY <1>1, <1>2 DEF Range
<1> QED
  BY <1>1, <1>2, <1>3, StoredIsUnique DEF Conflicting

\* The loop takes the hits of a search (Search).
LEMMA SearchIInv ==
  ASSUME IInv, NEW hits \in Hits, Search(hits)
  PROVE  IInv'
<1> DEFINE old == attempt.found.passages
           new == IF mode = "document" THEN Extended(old, hits) ELSE old
           seen == [search_completed |-> TRUE, passages |-> new,
                    sources |-> attempt.found.sources \cup {p.source : p \in Range(hits)}]
<1>0. At("loop") /\ UNCHANGED <<documents, deleted, mode, saved, result>>
  BY DEF Search
<1>1. ~Conflicting(old, hits)
  BY NeverConflicting
<1>2. CASE End("refused")
  BY <1>0, <1>2, EndsIInv
<1>3. CASE attempt' = [attempt EXCEPT !.pc = "observe", !.found = seen]
  <2>1. /\ old \in Seq(Passages) /\ \A p \in Range(old) : Stored(documents, p)
        /\ attempt.found.sources \subseteq Sources
        /\ \A s \in attempt.found.sources : Existed(documents, s)
    BY DEF IInv, AttemptTyped, FoundTrue, Found
  <2>2. hits \in Seq(Passages) /\ \A p \in Range(hits) : Stored(documents, p)
    BY HitsAreStored DEF IInv
  <2>3. new \in Seq(Passages) /\ Range(new) \subseteq Range(old) \cup Range(hits)
    <3> HIDE DEF old
    <3>1. /\ Extended(old, hits) \in Seq(Passages)
          /\ Range(Extended(old, hits)) \subseteq Range(old) \cup Range(hits)
      BY <2>1, <2>2, ExtendedRange
    <3> QED
      BY <2>1, <3>1
  <2>4. \A p \in Range(hits) : p.source \in Sources /\ Existed(documents, p.source)
    <3>1. Range(hits) \subseteq Passages
      BY <2>2 DEF Range
    <3> QED
      BY <2>2, <3>1 DEF Passages, Stored
  <2>5. FoundTrue(documents, seen)
    <3> HIDE DEF new, old
    <3>1. seen \in Found
      BY <2>1, <2>3, <2>4 DEF Found
    <3>2. \A s \in seen.sources : Existed(documents, s)
      BY <2>1, <2>4
    <3>3. \A p \in Range(seen.passages) : Stored(documents, p)
      BY <2>1, <2>2, <2>3
    <3> HIDE DEF seen
    <3> QED
      BY <3>1, <3>2, <3>3 DEF FoundTrue
  <2> HIDE DEF seen
  <2>6. AttemptTyped' /\ SavedTyped'
    BY <1>0, <1>3, <2>5 DEF IInv, AttemptTyped, SavedTyped, FoundTrue
  <2>7. attempt'.pc = "observe" /\ saved'.final = NoAnswer
    BY <1>0, <1>3 DEF IInv, AttemptTyped, AttemptFollowsSaved, At
  <2> QED
    BY <1>0, <2>6, <2>7, LocalStep DEF At, AttemptFollowsSaved, AnswerChecked, SavedChecked
<1> QED
  BY <1>1, <1>2, <1>3 DEF Search

\* checkpoint saves what was found (Observe).
LEMMA ObserveIInv ==
  ASSUME IInv, Observe
  PROVE  IInv'
<1>0. /\ At("observe") /\ UNCHANGED <<documents, deleted, mode, result>>
      /\ saved' = [saved EXCEPT !.found = attempt.found]
      /\ attempt' = [attempt EXCEPT !.pc = "loop"]
  BY DEF Observe
<1>1. AttemptTyped' /\ SavedTyped'
  BY <1>0 DEF IInv, AttemptTyped, SavedTyped
<1>2. attempt'.pc = "loop" /\ attempt'.found = saved'.found /\ saved'.final = NoAnswer
  BY <1>0 DEF IInv, AttemptTyped, SavedTyped, AttemptFollowsSaved, At
<1> QED
  BY <1>0, <1>1, <1>2, LocalStep DEF At, AttemptFollowsSaved, AnswerChecked, SavedChecked

\* The loop checks an answer the model proposes (Propose).
LEMMA ProposeIInv ==
  ASSUME IInv, NEW answer \in Answers, Propose(answer)
  PROVE  IInv'
<1>0. At("loop") /\ UNCHANGED <<documents, deleted, mode, saved, result>> /\ OfMode(mode, answer)
  BY DEF Propose, OfMode
<1>1. CASE ~AnswerValid(answer, attempt.found)
  BY <1>0, <1>1, EndsIInv DEF Propose
<1>2. CASE AnswerValid(answer, attempt.found)
  <2>1. attempt' = [attempt EXCEPT !.answer = answer,
                      !.pc = IF mode = "document" THEN "review" ELSE "final"]
    BY <1>2 DEF Propose
  <2>2. AttemptTyped' /\ SavedTyped'
    BY <1>0, <2>1 DEF IInv, AttemptTyped, SavedTyped
  <2>3. /\ attempt'.pc = (IF mode = "document" THEN "review" ELSE "final")
        /\ attempt'.answer = answer /\ attempt'.found = attempt.found
        /\ attempt'.found = saved'.found /\ saved'.final = NoAnswer
    BY <1>0, <2>1 DEF IInv, AttemptTyped, AttemptFollowsSaved, At
  <2>4. AnswerChecked'
    BY <1>0, <1>2, <2>3 DEF AnswerChecked
  <2> QED
    BY <1>0, <2>2, <2>3, <2>4, LocalStep DEF At, AttemptFollowsSaved, SavedChecked
<1> QED
  BY <1>1, <1>2

\* The reviewer answers; a review that passes leaves a receipt (Review).
LEMMA ReviewIInv ==
  ASSUME IInv, NEW review \in Reviews, Review(review)
  PROVE  IInv'
<1> DEFINE request == Request(attempt.answer, attempt.found)
<1>0. At("review") /\ UNCHANGED <<documents, deleted, mode, result>>
  BY DEF Review
<1>1. CASE ~Passes(attempt.policy, request, review)
  <2>1. End("refused") /\ UNCHANGED saved
    BY <1>1 DEF Review
  <2> QED
    BY <1>0, <2>1, EndsIInv
<1>2. CASE Passes(attempt.policy, request, review)
  <2>1. /\ saved' = [saved EXCEPT !.receipt = Receipt(request, review)]
        /\ attempt' = [attempt EXCEPT !.pc = "final"]
    BY <1>2 DEF Review
  <2>2. /\ attempt.answer \in Answers /\ OfMode(mode, attempt.answer)
        /\ AnswerValid(attempt.answer, attempt.found)
        /\ attempt.found = saved.found /\ saved.final = NoAnswer
        /\ attempt.found \in Found /\ attempt.policy \in Policies
    BY <1>0 DEF IInv, AnswerChecked, AttemptFollowsSaved, At, AttemptTyped, FoundTrue
  <2>3. request \in Requests
    BY <2>2 DEF Request, Requests, Found
  <2> HIDE DEF request
  <2>4. Receipt(request, review) \in Receipts
    BY <2>2, <2>3 DEF Receipt, Receipts
  <2>5. ReceiptValid(attempt.policy, request, Receipt(request, review))
    <3>1. Receipt(request, review) # NoReceipt
      BY <2>4, NoReceiptAssumption
    <3>2. /\ Receipt(request, review).policy = attempt.policy
          /\ Receipt(request, review).request = request
          /\ Receipt(request, review).review = review
      BY DEF Receipt
    <3> QED
      BY <1>2, <3>1, <3>2 DEF ReceiptValid
  <2>6. AttemptTyped' /\ SavedTyped'
    BY <1>0, <2>1, <2>4 DEF IInv, AttemptTyped, SavedTyped
  <2>7. /\ attempt'.pc = "final" /\ attempt'.policy = attempt.policy
        /\ attempt'.answer = attempt.answer /\ attempt'.found = attempt.found
        /\ saved'.found = saved.found /\ saved'.final = NoAnswer
        /\ saved'.receipt = Receipt(request, review)
    BY <2>1, <2>2 DEF IInv, AttemptTyped, SavedTyped
  <2>8. AnswerChecked'
    BY <1>0, <2>2, <2>5, <2>7 DEF AnswerChecked, request
  <2> QED
    BY <1>0, <2>2, <2>6, <2>7, <2>8, LocalStep DEF At, AttemptFollowsSaved, SavedChecked
<1> QED
  BY <1>1, <1>2

\* The loop saves the answer (StoreFinal).
LEMMA StoreFinalIInv ==
  ASSUME IInv, StoreFinal
  PROVE  IInv'
<1>0. /\ At("final") /\ UNCHANGED <<documents, deleted, mode, result>>
      /\ saved' = [saved EXCEPT !.final = attempt.answer]
      /\ attempt' = [attempt EXCEPT !.pc = "finish"]
  BY DEF StoreFinal
<1>1. /\ attempt.answer \in Answers /\ OfMode(mode, attempt.answer)
      /\ AnswerValid(attempt.answer, saved.found)
      /\ mode = "document" =>
           ReceiptValid(attempt.policy, Request(attempt.answer, saved.found), saved.receipt)
      /\ attempt.policy \in Policies
  BY <1>0 DEF IInv, AnswerChecked, AttemptFollowsSaved, At, AttemptTyped
<1>2. AttemptTyped' /\ SavedTyped'
  BY <1>0, <1>1 DEF IInv, AttemptTyped, SavedTyped
<1>3. /\ attempt'.pc = "finish" /\ attempt'.answer = attempt.answer
      /\ attempt'.policy = attempt.policy
      /\ saved'.final = attempt.answer /\ saved'.found = saved.found
      /\ saved'.receipt = saved.receipt
  BY <1>0 DEF IInv, AttemptTyped, SavedTyped
<1>4. SavedValid(attempt.policy)'
  BY <1>0, <1>1, <1>3 DEF SavedValid
<1>5. SavedChecked'
  BY <1>0, <1>1, <1>3, <1>4 DEF SavedChecked
<1> QED
  BY <1>0, <1>2, <1>3, <1>4, <1>5, LocalStep DEF At, AttemptFollowsSaved, AnswerChecked

\* The run gets its result (Finish).
LEMMA FinishIInv ==
  ASSUME IInv, Finish
  PROVE  IInv'
<1>1. result' = saved.final
  BY DEF Finish, IInv, AttemptFollowsSaved, At
<1> QED
  BY <1>1, EndsIInv DEF Finish

\* Every step keeps the invariant.
LEMMA NextIInv == IInv /\ [Next]_vars => IInv'
<1> SUFFICES ASSUME IInv, [Next]_vars PROVE IInv'
  OBVIOUS
<1>1. CASE Stop
  BY <1>1, EndsIInv DEF Stop
<1>2. CASE UNCHANGED vars
  <2>1. UNCHANGED <<documents, mode, attempt, saved, result>>
    BY <1>2 DEF vars
  <2> QED
    BY <2>1 DEF IInv, DocumentsTyped, AttemptTyped, SavedTyped, AttemptFollowsSaved,
                AnswerChecked, SavedChecked, SavedValid, ResultIsSaved
<1> QED
  BY <1>1, <1>2, WriteIInv, DeleteIInv, StartIInv, SearchIInv, ObserveIInv, ProposeIInv,
     ReviewIInv, StoreFinalIInv, FinishIInv DEF Next

-----------------------------------------------------------------------------
(* The theorems.                                                           *)

\* In every reachable state what was found is true of the documents, and every
\* answer has passed the checks of the points behind it.
THEOREM EvidenceInductive == Spec => []IInv
BY InitIInv, NextIInv, PTL DEF Spec

\* Of an answer that was saved, whatever happened to the documents and whatever
\* the gates of other builds admit: the checks of execute_agent_job accept it in
\* every attempt with the validation policy it was reviewed under, and
\* validate_review_receipt refuses it in every other.
THEOREM SavedAnswersAreAccepted == Spec => []SavedAnswerIsAccepted
<1>1. IInv => SavedAnswerIsAccepted
  <2> SUFFICES ASSUME IInv, saved.final # NoAnswer, NEW policy \in Policies
               PROVE  SavedValid(policy) <=> (mode = "document" => saved.receipt.policy = policy)
    BY DEF SavedAnswerIsAccepted
  <2>1. PICK own \in Policies : SavedValid(own)
    BY DEF IInv, SavedChecked
  <2>2. mode = "document" => saved.receipt.policy = own
    BY <2>1 DEF SavedValid, ReceiptValid
  <2>3. SavedValid(policy) => (mode = "document" => saved.receipt.policy = policy)
    BY DEF SavedValid, ReceiptValid
  <2>4. CASE mode = "document"
    BY <2>1, <2>2, <2>3, <2>4
  <2>5. CASE mode # "document"
    BY <2>1, <2>5 DEF SavedValid
  <2> QED
    BY <2>4, <2>5
<1> QED
  BY <1>1, EvidenceInductive, PTL

\* No run stops with "Conflicting payloads for one source identity".
THEOREM SourcesAgree == Spec => []SourcesNeverConflict
<1>1. IInv => SourcesNeverConflict
  BY DEF IInv, AttemptTyped, SourcesNeverConflict
<1> QED
  BY <1>1, EvidenceInductive, PTL

\* The result of a run cites what was stored, and every statement of a document
\* answer is quoted from the stored text of a source it cites.
THEOREM ResultsAreGrounded == Spec => []ResultIsGrounded
<1>1. ASSUME IInv, result # NoAnswer
      PROVE  /\ \A s \in result.citations : s[2] <= Len(documents[s[1]])
             /\ result.outcome = "answered" /\ attempt.policy = VALIDATION_POLICY_VERSION =>
                  \A statement \in result.answer : \E claim \in saved.receipt.review.claims :
                    /\ claim.claim = statement
                    /\ \E e \in claim.excerpts :
                         /\ e.source \in result.citations
                         /\ e.quote \in documents[e.source[1]][e.source[2]][e.source[3]]
  <2>1. /\ result = saved.final /\ OfMode(mode, result)
        /\ AnswerValid(result, saved.found)
        /\ mode = "document" =>
             ReceiptValid(attempt.policy, Request(result, saved.found), saved.receipt)
    BY <1>1 DEF IInv, ResultIsSaved, SavedChecked, SavedValid
  <2>2. FoundTrue(documents, saved.found)
    BY <1>1 DEF IInv, SavedTyped
  <2>3. \A s \in result.citations : s[2] <= Len(documents[s[1]])
    BY <2>1, <2>2 DEF AnswerValid, CitationsObserved, FoundTrue, Existed
  <2>4. ASSUME result.outcome = "answered", attempt.policy = VALIDATION_POLICY_VERSION,
               NEW statement \in result.answer
        PROVE  \E claim \in saved.receipt.review.claims :
                 /\ claim.claim = statement
                 /\ \E e \in claim.excerpts :
                      /\ e.source \in result.citations
                      /\ e.quote \in documents[e.source[1]][e.source[2]][e.source[3]]
    <3> DEFINE request == Request(result, saved.found)
               review == saved.receipt.review
    <3>1. mode = "document"
      BY <1>1, <2>1, <2>4 DEF OfMode, IInv
    <3>2. /\ request.answer = result /\ request.passages = saved.found.passages
      BY DEF Request
    <3>3. AnsweredPasses(request, review)
      BY <2>1, <2>4, <3>1, <3>2 DEF ReceiptValid, Passes, ReviewPasses
    <3> HIDE DEF request, review
    <3>4. PICK claim \in review.claims : claim.claim = statement
      BY <2>4, <3>2, <3>3 DEF AnsweredPasses, CoversAnswer
    <3>5. PICK e \in claim.excerpts : ExcerptValid(request, e)
      BY <3>3, <3>4 DEF AnsweredPasses, ClaimsPass
    <3>6. PICK p \in Range(saved.found.passages) : p.source = e.source /\ e.quote \in p.text
      BY <3>2, <3>5 DEF ExcerptValid
    <3>7. e.quote \in documents[e.source[1]][e.source[2]][e.source[3]]
      BY <2>2, <3>6 DEF FoundTrue, Stored
    <3>8. e.source \in result.citations
      BY <3>2, <3>5 DEF ExcerptValid
    <3> QED
      BY <3>4, <3>5, <3>7, <3>8 DEF review
  <2> QED
    BY <2>3, <2>4
<1>2. IInv => ResultIsGrounded
  BY <1>1 DEF ResultIsGrounded
<1> QED
  BY <1>2, EvidenceInductive, PTL
=============================================================================
