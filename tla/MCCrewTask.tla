----------------------------- MODULE MCCrewTask -----------------------------
(***************************************************************************)
(* Instances of CrewTask for TLC.                                          *)
(***************************************************************************)
EXTENDS CrewTask

\* A wait that is obeyed and one that is not.
MCRetryAfters == {1, 2}
=============================================================================
