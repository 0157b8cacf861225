------------------------------ MODULE Chunking ------------------------------
(***************************************************************************)
(* Splitting a document: CharacterWindowChunker.split                      *)
(* (chunking/strategies/character_window.py), which computes how many      *)
(* windows it needs before it makes any, and ChunkingService.chunk         *)
(* (chunking/service.py), which trusts no chunker and checks the result.   *)
(*                                                                         *)
(* A text is its length; a chunk, the slice of the text that its span      *)
(* names.  A behaviour is one call of chunk.                               *)
(***************************************************************************)
EXTENDS Integers, Sequences, FiniteSets, FiniteSetsExt, Functions

CONSTANTS
  Lengths, Sizes, Overlaps,     \* text lengths and options callers ask for
  ChunkLimits, OutputLimits     \* max_chunks and max_output_chars of services

ASSUME ChunkingConstants ==
  /\ Lengths \subseteq Nat \ {0} /\ Sizes \subseteq Nat \ {0} /\ Overlaps \subseteq Nat
  /\ ChunkLimits \subseteq Nat \ {0} /\ OutputLimits \subseteq Nat \ {0}

VARIABLES
  request,        \* the text, the options and the limits of the call
  pc,             \* where the call is, or how it ended
  chunks,         \* what the chunker returned
  index,          \* of the service's loop: the chunks looked at,
  previous_end    \* and the end of the last one

vars == <<request, pc, chunks, index, previous_end>>

-----------------------------------------------------------------------------
\* The options a ChunkingRequest accepts: an overlap smaller than the chunk.
Requests ==
  {q \in [length : Lengths, size : Sizes, overlap : Overlaps,
          max_chunks : ChunkLimits, max_output_chars : OutputLimits] : q.overlap < q.size}

\* What a TextChunk accepts: a span that is not empty, of no negative position.
IsTextChunk(c) ==
  /\ c \in [index : Nat, start_char : Nat, end_char : Nat]
  /\ c.start_char < c.end_char

\* pc is "limit" after ChunkingLimitExceeded, and "invalid" when a TextChunk or
\* the service refused what the splitter made.
Init ==
  /\ request \in Requests
  /\ pc = "split" /\ chunks = << >> /\ index = 0
  /\ previous_end = 0

-----------------------------------------------------------------------------
\* Faulty variant: the windows do not overlap.
StepWhole(q) == q.size

Step(q) == q.size - q.overlap

Count(q) ==
  IF q.length <= q.size THEN 1
  ELSE 1 + (q.length - q.size + Step(q) - 1) \div Step(q)

\* Faulty variant: every chunk is taken to repeat an overlap.
OutputCharsAllRepeat(q) == q.length + Count(q) * q.overlap

\* Each character once, and the repeated overlaps.
OutputChars(q) == q.length + (Count(q) - 1) * q.overlap

ExceedsLimits(q) == Count(q) > q.max_chunks \/ OutputChars(q) > q.max_output_chars

Smaller(a, b) == IF a < b THEN a ELSE b

\* Faulty variant: a window ends a character early.
WindowShort(q, i) ==
  [index |-> i, start_char |-> i * Step(q),
   end_char |-> Smaller(i * Step(q) + q.size - 1, q.length)]

Window(q, i) ==
  [index |-> i, start_char |-> i * Step(q),
   end_char |-> Smaller(i * Step(q) + q.size, q.length)]

Windows(q) == [i \in 1 .. Count(q) |-> Window(q, i - 1)]

\* The limits are checked before a window is made.
Split ==
  /\ pc = "split"
  /\ \/ /\ ExceedsLimits(request)
        /\ pc' = "limit" /\ UNCHANGED chunks
     \/ /\ ~ExceedsLimits(request)
        /\ chunks' = Windows(request)
        /\ pc' = IF \A c \in Range(chunks') : IsTextChunk(c)
                 THEN "check" ELSE "invalid"
  /\ UNCHANGED <<request, index, previous_end>>

-----------------------------------------------------------------------------
\* The sum of a sequence of numbers.
Total(s) ==
  LET First[n \in 0 .. Len(s)] == IF n = 0 THEN 0 ELSE First[n - 1] + s[n]
  IN  First[Len(s)]

\* The characters in a sequence of chunks.
Chars(cs) == Total([i \in DOMAIN cs |-> cs[i].end_char - cs[i].start_char])

\* The service measures the result itself.
Check ==
  /\ pc = "check"
  /\ pc' = IF Len(chunks) > request.max_chunks \/ Chars(chunks) > request.max_output_chars
           THEN "limit"
           ELSE IF chunks = << >> THEN "invalid" ELSE "loop"
  /\ UNCHANGED <<request, chunks, index, previous_end>>

\* Every chunk starts no later than the last one ended, and goes further.
InOrder(c) ==
  /\ c.index = index
  /\ index = 0 => c.start_char = 0
  /\ c.start_char <= previous_end
  /\ c.end_char > previous_end

Loop ==
  /\ pc = "loop" /\ index < Len(chunks)
  /\ LET c == chunks[index + 1]
     IN  IF InOrder(c)
         THEN index' = index + 1 /\ previous_end' = c.end_char /\ UNCHANGED pc
         ELSE pc' = "invalid" /\ UNCHANGED <<index, previous_end>>
  /\ UNCHANGED <<request, chunks>>

\* The whole text has to be covered.
Return ==
  /\ pc = "loop" /\ index = Len(chunks)
  /\ pc' = IF previous_end = request.length THEN "returned" ELSE "invalid"
  /\ UNCHANGED <<request, chunks, index, previous_end>>

Next == Split \/ Check \/ Loop \/ Return

Spec == Init /\ [][Next]_vars

-----------------------------------------------------------------------------
(* Correctness.                                                            *)

\* The fewest windows that reach the end of the text, and their characters.
Needed(q) == Min({n \in 1 .. q.length : (n - 1) * (q.size - q.overlap) + q.size >= q.length})

NeededChars(q) ==
  Cardinality({p \in (1 .. Needed(q)) \X (0 .. q.length - 1) :
                 LET first == (p[1] - 1) * (q.size - q.overlap)
                 IN  first <= p[2] /\ p[2] < first + q.size})

\* The limits are exact: a call is refused, before a window is made, if and only
\* if the fewest windows that cover the text, counted one by one, are too many or
\* too long.  Nothing else the splitter made is refused: neither the contract of
\* a TextChunk nor the service's checks of the spans and of the output can fail.
LimitsAreExact ==
  LET exceeded == \/ Needed(request) > request.max_chunks
                  \/ NeededChars(request) > request.max_output_chars
  IN  /\ pc = "limit" => exceeded /\ chunks = << >>
      /\ pc = "returned" => ~exceeded
      /\ pc # "invalid"

\* The chunks returned hold every character, none is longer than chunk_size, and
\* each two consecutive ones share exactly the overlap: no chunk repeats only
\* what its predecessor has, the last one included.
ChunksTile ==
  pc = "returned" =>
    /\ UNION {c.start_char .. c.end_char - 1 : c \in Range(chunks)} = 0 .. request.length - 1
    /\ \A c \in Range(chunks) : c.end_char - c.start_char <= request.size
    /\ \A i \in 1 .. Len(chunks) - 1 :
         chunks[i].end_char - chunks[i + 1].start_char = request.overlap
=============================================================================
