---------------------------- MODULE MCSubmission ----------------------------
(***************************************************************************)
(* Instances of Submission for TLC.                                        *)
(***************************************************************************)
EXTENDS Submission, TLC

MCEmptyCheckpoint == [pending |-> FALSE, replay_safe |-> FALSE]

\* Progress inside an attempt does not matter here.
MCCheckpoints == {MCEmptyCheckpoint}

\* Requests are interchangeable.
MCSymmetry == Permutations(Callers)
=============================================================================
