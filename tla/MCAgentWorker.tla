--------------------------- MODULE MCAgentWorker ---------------------------
(***************************************************************************)
(* Instances of AgentWorker for TLC.                                       *)
(***************************************************************************)
EXTENDS AgentWorker, TLC

\* One deployment whose ceilings never bind.
MCAmple == {[tokens |-> 2, recoveries |-> 0]}

\* Two deployments, of which one has tighter ceilings.
MCTwoSettings == {[tokens |-> 3, recoveries |-> 1], [tokens |-> 2, recoveries |-> 0]}

\* Workers are interchangeable.
MCSymmetry == Permutations(Workers)
=============================================================================
