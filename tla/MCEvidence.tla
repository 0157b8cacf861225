----------------------------- MODULE MCEvidence -----------------------------
(***************************************************************************)
(* Instances of Evidence for TLC.                                          *)
(***************************************************************************)
EXTENDS Evidence, FiniteSetsExt, TLC

\* One excerpt per claim, and up to two claims: enough for a claim to lack
\* evidence, to quote another source and to leave the rest of an answer out.
MCExcerpts == {{}} \cup {{e} : e \in [source : Sources, quote : Statements]}

MCClaims ==
  LET one == [claim : Statements, verdict : {"supported", "uncertain"}, excerpts : MCExcerpts]
  IN  {{}} \cup {{c} : c \in one}
        \cup {{c, d} : <<c, d>> \in {x \in one \X one :
               /\ x[1].claim # x[2].claim
               /\ \A i \in 1 .. 2 : x[i].verdict = "supported" /\ x[i].excerpts # {}}}

\* A flag of the review is wrong at a time, or none.
MCFlags ==
  {f \in [covers_all_claims : BOOLEAN, addresses_question : BOOLEAN, evidence_conflict : BOOLEAN] :
     Cardinality({x \in {"covers_all_claims", "addresses_question"} : ~f[x]})
       + (IF f.evidence_conflict THEN 1 ELSE 0) <= 1}

MCReviews ==
  {[verdict |-> v[1], evidence_answerability |-> v[2], claims |-> claims] @@ f :
     v \in {<<"supported", "answerable">>, <<"supported", "insufficient">>,
            <<"uncertain", "uncertain">>, <<"appropriate_abstention", "insufficient">>,
            <<"appropriate_abstention", "answerable">>},
     f \in MCFlags, claims \in MCClaims}

\* An earlier gate, which believed the reviewer that the claims cover the answer.
MCOtherPasses(policy, request, review) ==
  IF request.answer.outcome = "answered"
  THEN ClaimsPass(request, review) ELSE AbstentionPasses(review)

\* Statements are interchangeable.
MCSymmetry == Permutations(Statements)
=============================================================================
