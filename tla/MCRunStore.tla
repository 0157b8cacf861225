----------------------------- MODULE MCRunStore -----------------------------
(***************************************************************************)
(* Instances of RunStore for TLC.                                          *)
(***************************************************************************)
EXTENDS RunStore

\* A checkpoint as the store sees it: progress, and the pending tool call.
MCCheckpoints == [pending : BOOLEAN, replay_safe : BOOLEAN]

MCEmptyCheckpoint == [pending |-> FALSE, replay_safe |-> FALSE]
=============================================================================
