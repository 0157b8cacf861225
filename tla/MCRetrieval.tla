---------------------------- MODULE MCRetrieval ----------------------------
(***************************************************************************)
(* Instances of Retrieval, and with it of Chunking, for TLC.               *)
(***************************************************************************)
EXTENDS Retrieval

MCLengths      == 1 .. 7
MCSizes        == 1 .. 4
MCOverlaps     == 0 .. 3
MCChunkLimits  == {2, 4}
MCOutputLimits == {4, 7, 12}

MCTermLengths == {2}
MCScores      == {1, 2}
MCOptions     == {[top_k |-> 1, max_documents |-> 2, max_output_chars |-> 3],
                  [top_k |-> 2, max_documents |-> 1, max_output_chars |-> 6]}
MCPermissions == {{"document.search"}, {"document.search", "document.read"}}
=============================================================================
