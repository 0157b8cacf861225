--------------------------- MODULE MCDocumentWork ---------------------------
(***************************************************************************)
(* Instances of DocumentWork for TLC.                                      *)
(***************************************************************************)
EXTENDS DocumentWork, TLC

CONSTANTS j1, j2, d1, n1, k1, k2

\* A document is created, and updated by somebody who may come too early.
MCCommands ==
  j1 :> [tenant |-> n1, doc |-> d1, base |-> 0, key |-> k1]
    @@ j2 :> [tenant |-> n1, doc |-> d1, base |-> 1, key |-> k2]

=============================================================================
