-------------------------- MODULE RetrievalProofs --------------------------
(***************************************************************************)
(* Proofs about Chunking and Retrieval, for texts of any length, every     *)
(* chunk size, overlap and limit, and any scores.                          *)
(***************************************************************************)
EXTENDS Retrieval, FiniteSetTheorems, WellFoundedInduction, TLAPS

-----------------------------------------------------------------------------
(* Arithmetic and induction.                                               *)

\* Integer division rounds down.
LEMMA DivBounds ==
  ASSUME NEW a \in Nat, NEW s \in Nat \ {0}
  PROVE  a \div s \in Nat /\ (a \div s) * s <= a /\ a < (a \div s) * s + s
OBVIOUS

\* Products of the same factor compare as the others do.
LEMMA TimesMonotone ==
  ASSUME NEW a \in Int, NEW b \in Int, NEW s \in Nat, a <= b
  PROVE  a * s <= b * s
OBVIOUS

\* Products distribute over sums and differences.
LEMMA TimesDistributes ==
  ASSUME NEW a \in Int, NEW b \in Int, NEW s \in Int
  PROVE  /\ (a + b) * s = a * s + b * s /\ (a - b) * s = a * s - b * s
         /\ a * s \in Int /\ b * s \in Int /\ s * a = a * s
OBVIOUS

\* Induction over the naturals, for a set instead of a predicate: the least
\* number that is not in S would have a predecessor in S.
LEMMA NatSetInduction ==
  ASSUME NEW S, 0 \in S, \A n \in Nat : n \in S => n + 1 \in S
  PROVE  \A n \in Nat : n \in S
<1> DEFINE T == Nat \ S
           R == OpToRel(<, Nat)
<1> SUFFICES ASSUME T # {} PROVE FALSE
  OBVIOUS
<1>1. IsWellFoundedOn(R, Nat)
  BY NatLessThanWellFounded
<1>2. \A x, y \in Nat : x < y => <<x, y>> \in R
  BY DEF OpToRel
<1> HIDE DEF R
<1>3. PICK x \in T : \A y \in T : ~(<<y, x>> \in R)
  BY <1>1, WFMin
<1>4. x # 0 /\ x \in Nat
  OBVIOUS
<1>5. x - 1 \in Nat /\ x - 1 < x /\ (x - 1) + 1 = x
  BY <1>4
<1>6. x - 1 \notin T
  BY <1>2, <1>3, <1>4, <1>5
<1> QED
  BY <1>4, <1>5, <1>6

-----------------------------------------------------------------------------
(* Totals.                                                                 *)

\* The recursion in Total defines a function.
LEMMA FirstExists ==
  ASSUME NEW s \in Seq(Int)
  PROVE  \E f : f = [n \in 0 .. Len(s) |-> IF n = 0 THEN 0 ELSE f[n - 1] + s[n]]
<1> DEFINE Is(f, k) == f = [n \in 0 .. k |-> IF n = 0 THEN 0 ELSE f[n - 1] + s[n]]
           S == {k \in Nat : \E f : Is(f, k)}
<1>1. 0 \in S
  <2>1. Is([n \in 0 .. 0 |-> 0], 0)
    OBVIOUS
  <2> QED
    BY <2>1
<1>2. ASSUME NEW k \in Nat, k \in S
      PROVE  k + 1 \in S
  <2>1. PICK f : Is(f, k)
    BY <1>2
  <2> DEFINE g == [n \in 0 .. k + 1 |-> IF n = k + 1 THEN f[k] + s[k + 1] ELSE f[n]]
  <2>2. Is(g, k + 1)
    <3>1. ASSUME NEW n \in 0 .. k + 1
          PROVE  g[n] = IF n = 0 THEN 0 ELSE g[n - 1] + s[n]
      <4>1. CASE n = k + 1
        <5>1. n # 0 /\ n - 1 = k /\ k # k + 1 /\ k \in 0 .. k + 1
          BY <4>1
        <5>2. g[n - 1] = f[k]
          BY <5>1
        <5> QED
          BY <4>1, <5>1, <5>2
      <4>2. CASE n # k + 1 /\ n # 0
        <5>1. n \in 0 .. k /\ n - 1 \in 0 .. k + 1 /\ n - 1 # k + 1
          BY <4>2
        <5>2. f[n] = f[n - 1] + s[n]
          BY <5>1, <4>2, <2>1
        <5> QED
          BY <4>2, <5>1, <5>2
      <4>3. CASE n = 0
        <5>1. f[0] = 0
          BY <2>1
        <5> QED
          BY <4>3, <5>1
      <4> QED
        BY <4>1, <4>2, <4>3
    <3> QED
      BY <3>1
  <2>3. \E h : Is(h, k + 1)
    <3> HIDE DEF g, Is
    <3> QED
      BY <2>2
  <2> HIDE DEF Is
  <2> QED
    BY <2>3
<1>3. Len(s) \in S
  <2> HIDE DEF S
  <2> QED
    BY <1>1, <1>2, NatSetInduction
<1> QED
  BY <1>3

\* A total is determined by its partial sums.
LEMMA TotalIs ==
  ASSUME NEW s \in Seq(Int), NEW t, t[0] = 0,
         \A n \in 1 .. Len(s) : t[n - 1] \in Int /\ t[n] = t[n - 1] + s[n]
  PROVE  Total(s) = t[Len(s)]
<1> DEFINE Is(f) == f = [n \in 0 .. Len(s) |-> IF n = 0 THEN 0 ELSE f[n - 1] + s[n]]
           F == CHOOSE f : Is(f)
           S == {k \in Nat : k <= Len(s) => F[k] = t[k]}
<1>1. Total(s) = F[Len(s)]
  BY DEF Total
<1>2. Is(F)
  <2>1. \E f : Is(f)
    BY FirstExists
  <2> HIDE DEF Is
  <2> QED
    BY <2>1
<1> HIDE DEF F
<1>3. 0 \in S
  BY <1>2
<1>4. ASSUME NEW k \in Nat, k \in S
      PROVE  k + 1 \in S
  <2> SUFFICES ASSUME k + 1 <= Len(s) PROVE F[k + 1] = t[k + 1]
    OBVIOUS
  <2>1. F[k] = t[k]
    BY <1>4
  <2>2. k + 1 \in 0 .. Len(s) /\ k + 1 \in 1 .. Len(s) /\ k + 1 # 0 /\ (k + 1) - 1 = k
    OBVIOUS
  <2>3. F[k + 1] = IF k + 1 = 0 THEN 0 ELSE F[(k + 1) - 1] + s[k + 1]
    BY <1>2, <2>2
  <2>4. t[k + 1] = t[(k + 1) - 1] + s[k + 1]
    BY <2>2
  <2> QED
    BY <2>1, <2>2, <2>3, <2>4
<1>5. \A k \in Nat : k \in S
  <2>1. \A k \in Nat : k \in S => k + 1 \in S
    BY <1>4
  <2> HIDE DEF S
  <2> QED
    BY <1>3, <2>1, NatSetInduction, Zenon
<1> QED
  BY <1>1, <1>5

-----------------------------------------------------------------------------
(* The windows of the splitter.                                            *)

\* What the contracts of ChunkingOptions and ChunkingRequest guarantee.
LEMMA RequestTypes ==
  ASSUME NEW q \in Requests
  PROVE  /\ q.length \in Nat \ {0} /\ q.size \in Nat \ {0} /\ q.overlap \in Nat
         /\ q.overlap < q.size /\ q.max_chunks \in Nat /\ q.max_output_chars \in Nat
         /\ Step(q) \in Nat \ {0} /\ Step(q) = q.size - q.overlap
<1>1. /\ q.length \in Lengths /\ q.size \in Sizes /\ q.overlap \in Overlaps
      /\ q.max_chunks \in ChunkLimits /\ q.max_output_chars \in OutputLimits
      /\ q.overlap < q.size
  BY DEF Requests
<1>2. /\ q.length \in Nat \ {0} /\ q.size \in Nat \ {0} /\ q.overlap \in Nat
      /\ q.max_chunks \in Nat /\ q.max_output_chars \in Nat
  BY <1>1, ChunkingConstants
<1> QED
  BY <1>1, <1>2 DEF Step

\* The count of the splitter reaches the end of the text, and one less does not.
LEMMA CountReaches ==
  ASSUME NEW q \in Requests
  PROVE  /\ Count(q) \in Nat /\ Count(q) >= 1
         /\ (Count(q) - 1) * Step(q) + q.size >= q.length
         /\ Count(q) > 1 => (Count(q) - 2) * Step(q) + q.size < q.length
<1> DEFINE L == q.length
           z == q.size
           s == Step(q)
           a == L - z + s - 1
           d == a \div s
<1>0. L \in Nat \ {0} /\ z \in Nat \ {0} /\ s \in Nat \ {0} /\ s <= z
  BY RequestTypes
<1>1. CASE L <= z
  <2>1. Count(q) = 1
    BY <1>1 DEF Count
  <2> QED
    BY <1>0, <1>1, <2>1
<1>2. CASE L > z
  <2>1. Count(q) = 1 + d
    BY <1>0, <1>2 DEF Count
  <2>2. a \in Nat /\ a >= s
    BY <1>0, <1>2
  <2>3. d \in Nat /\ d * s <= a /\ a < d * s + s
    <3> HIDE DEF a, s
    <3> QED
      BY <1>0, <2>2, DivBounds
  <2> HIDE DEF d
  <2>4. d >= 1
    <3>1. d = 0 => d * s = 0
      BY <1>0
    <3> HIDE DEF a, s
    <3> QED
      BY <1>0, <2>2, <2>3, <3>1
  <2>5. (Count(q) - 1) * s = d * s /\ (Count(q) - 2) * s = d * s - s /\ d * s \in Int
    <3>1. Count(q) - 1 = d /\ Count(q) - 2 = d - 1
      BY <2>1, <2>3
    <3>2. (d - 1) * s = d * s - 1 * s /\ d * s \in Int
      BY <1>0, <2>3, TimesDistributes
    <3> HIDE DEF s
    <3> QED
      BY <1>0, <3>1, <3>2
  <2>6. Count(q) \in Nat /\ Count(q) >= 1
    BY <2>1, <2>3
  <2>7. a = L - z + s - 1
    OBVIOUS
  <2> HIDE DEF a, s, L, z
  <2>8. d * s + z >= L /\ d * s - s + z < L
    BY <1>0, <2>2, <2>3, <2>5, <2>7
  <2> QED
    BY <2>5, <2>6, <2>8 DEF s, L, z
<1> QED
  BY <1>0, <1>1, <1>2

\* Every window but the last ends before the text does, and the last with it.
LEMMA WindowEnds ==
  ASSUME NEW q \in Requests, NEW i \in 1 .. Count(q)
  PROVE  LET start == (i - 1) * Step(q) IN
         /\ start \in Nat /\ start < q.length
         /\ i < Count(q) => start + q.size < q.length
         /\ i = Count(q) => start + q.size >= q.length
         /\ Window(q, i - 1) = [index |-> i - 1, start_char |-> start,
              end_char |-> IF i = Count(q) THEN q.length ELSE start + q.size]
<1> DEFINE L == q.length
           z == q.size
           s == Step(q)
           c == Count(q)
           start == (i - 1) * s
<1>0. L \in Nat \ {0} /\ z \in Nat \ {0} /\ s \in Nat \ {0} /\ s <= z
  BY RequestTypes
<1>1. c \in Nat /\ c >= 1 /\ (c - 1) * s + z >= L /\ (c > 1 => (c - 2) * s + z < L)
  BY CountReaches
<1>2. i \in Nat /\ i >= 1 /\ i <= c
  BY <1>1
<1> HIDE DEF L, z, s, c
<1>3. start \in Nat
  <2>1. 0 * s <= (i - 1) * s /\ 0 * s = 0 /\ (i - 1) * s \in Int
    BY <1>0, <1>2, TimesMonotone, TimesDistributes
  <2> QED
    BY <2>1
<1>4. ASSUME i < c PROVE start + z < L
  <2>1. (i - 1) * s <= (c - 2) * s /\ (c - 2) * s \in Int
    BY <1>0, <1>1, <1>2, <1>4, TimesMonotone, TimesDistributes
  <2>2. c > 1
    BY <1>1, <1>2, <1>4
  <2> HIDE DEF start
  <2> QED
    BY <1>0, <1>1, <1>3, <2>1, <2>2 DEF start
<1>5. i = c => start + z >= L
  BY <1>1
<1>6. start < L
  <2>1. CASE i < c
    BY <1>0, <1>3, <1>4, <2>1
  <2>2. CASE i = c /\ c = 1
    BY <1>0, <2>2
  <2>3. CASE i = c /\ c > 1
    <3>1. (c - 1) * s = (c - 2) * s + 1 * s /\ (c - 2) * s \in Int /\ 1 * s = s
      <4>1. ((c - 2) + 1) * s = (c - 2) * s + 1 * s /\ (c - 2) * s \in Int
        BY <1>0, <1>1, TimesDistributes
      <4>2. (c - 2) + 1 = c - 1
        BY <1>1
      <4> QED
        BY <1>0, <4>1, <4>2
    <3> QED
      BY <1>0, <1>1, <2>3, <3>1
  <2> QED
    BY <1>1, <1>2, <2>1, <2>2, <2>3
<1>7. Smaller(start + z, L) = IF i = c THEN L ELSE start + z
  <2> HIDE DEF start
  <2> QED
    BY <1>0, <1>2, <1>1, <1>3, <1>4, <1>5 DEF Smaller
<1>8. Window(q, i - 1) = [index |-> i - 1, start_char |-> start,
                          end_char |-> IF i = c THEN L ELSE start + z]
  BY <1>7 DEF Window, L, z, s, c
<1> QED
  BY <1>3, <1>4, <1>5, <1>6, <1>8 DEF L, z, s, c

\* The windows are a sequence of text chunks, one for each position.
LEMMA WindowsAreChunks ==
  ASSUME NEW q \in Requests
  PROVE  /\ Windows(q) \in Seq([index : Nat, start_char : Nat, end_char : Nat])
         /\ Len(Windows(q)) = Count(q) /\ DOMAIN Windows(q) = 1 .. Count(q)
         /\ Windows(q) # << >>
         /\ \A c \in Range(Windows(q)) : IsTextChunk(c)
<1> DEFINE W == Windows(q)
           P == [index : Nat, start_char : Nat, end_char : Nat]
<1>0. Count(q) \in Nat /\ Count(q) >= 1
  BY CountReaches
<1>1. ASSUME NEW i \in 1 .. Count(q)
      PROVE  W[i] \in P /\ W[i].start_char < W[i].end_char
  <2> DEFINE start == (i - 1) * Step(q)
             end == IF i = Count(q) THEN q.length ELSE start + q.size
  <2>1. W[i] = Window(q, i - 1)
    BY DEF Windows
  <2>2. /\ start \in Nat /\ start < q.length
        /\ Window(q, i - 1) = [index |-> i - 1, start_char |-> start, end_char |-> end]
    BY WindowEnds
  <2>3. i - 1 \in Nat /\ q.length \in Nat /\ q.size \in Nat \ {0}
    BY <1>0, RequestTypes
  <2> HIDE DEF start
  <2>4. end \in Nat /\ start < end
    BY <2>2, <2>3
  <2> HIDE DEF end
  <2> QED
    BY <2>1, <2>2, <2>3, <2>4
<1>2. W \in [1 .. Count(q) -> P]
  BY <1>1 DEF Windows
<1> HIDE DEF W
<1>3. W \in Seq(P) /\ Len(W) = Count(q) /\ DOMAIN W = 1 .. Count(q) /\ W # << >>
  <2> HIDE DEF P
  <2>1. W \in Seq(P) /\ Len(W) = Count(q) /\ DOMAIN W = 1 .. Count(q)
    BY <1>0, <1>2
  <2>2. W # << >>
    BY <1>0, <2>1
  <2> QED
    BY <2>1, <2>2
<1>4. \A c \in Range(W) : IsTextChunk(c)
  BY <1>1, <1>3 DEF Range, IsTextChunk
<1> QED
  BY <1>3, <1>4 DEF W

\* What the service measures is what the splitter computed beforehand: all windows
\* but the last are full, and the last one takes the rest.
LEMMA CharsOfWindows ==
  ASSUME NEW q \in Requests
  PROVE  Chars(Windows(q)) = OutputChars(q) /\ OutputChars(q) \in Nat
<1> DEFINE W == Windows(q)
           L == q.length
           z == q.size
           o == q.overlap
           st == Step(q)
           c == Count(q)
           s == [i \in DOMAIN W |-> W[i].end_char - W[i].start_char]
           t == [n \in 0 .. c |-> IF n = c THEN L + (c - 1) * o ELSE n * z]
<1>0. /\ L \in Nat \ {0} /\ z \in Nat \ {0} /\ o \in Nat /\ st \in Nat \ {0} /\ st = z - o
      /\ c \in Nat /\ c >= 1
  BY RequestTypes, CountReaches
<1>1. DOMAIN W = 1 .. c
  BY WindowsAreChunks
<1>2. ASSUME NEW i \in 1 .. c
      PROVE  /\ s[i] = IF i = c THEN L - (c - 1) * st ELSE z
             /\ s[i] \in Int
  <2> DEFINE start == (i - 1) * st
  <2>1. W[i] = Window(q, i - 1)
    BY DEF Windows
  <2>2. /\ start \in Nat
        /\ Window(q, i - 1) = [index |-> i - 1, start_char |-> start,
                               end_char |-> IF i = c THEN L ELSE start + z]
    BY WindowEnds
  <2>3. s[i] = (IF i = c THEN L ELSE start + z) - start
    BY <1>1, <2>1, <2>2
  <2>4. i = c => start = (c - 1) * st
    OBVIOUS
  <2> HIDE DEF start, s, L, z, c, st
  <2> QED
    BY <1>0, <2>2, <2>3, <2>4
<1>3. s \in Seq(Int) /\ Len(s) = c
  <2>1. s \in [1 .. c -> Int]
    BY <1>1, <1>2
  <2> HIDE DEF s
  <2> QED
    BY <1>0, <2>1
<1> HIDE DEF s, W, L, z, o, st, c
<1>4. t[0] = 0
  BY <1>0
<1>5. ASSUME NEW n \in 1 .. c
      PROVE  t[n - 1] \in Int /\ t[n] = t[n - 1] + s[n]
  <2>1. n - 1 \in 0 .. c /\ n \in 0 .. c /\ n - 1 # c /\ n \in Int /\ n - 1 \in Int
    BY <1>0
  <2>2. t[n - 1] = (n - 1) * z
    BY <2>1
  <2>3. /\ (n - 1) * z = n * z - 1 * z /\ n * z \in Int /\ 1 * z = z
        /\ (n - 1) * z \in Int
    BY <1>0, <2>1, TimesDistributes
  <2>4. CASE n = c
    <3>1. t[n] = L + (c - 1) * o /\ s[n] = L - (c - 1) * st
      BY <1>2, <2>1, <2>4
    <3>2. (c - 1) * z = (c - 1) * o + (c - 1) * st
      <4>1. c - 1 \in Int /\ z = o + st
        BY <1>0
      <4>2. (o + st) * (c - 1) = o * (c - 1) + st * (c - 1)
        BY <1>0, <4>1, TimesDistributes
      <4>3. /\ (o + st) * (c - 1) = (c - 1) * (o + st)
            /\ o * (c - 1) = (c - 1) * o /\ st * (c - 1) = (c - 1) * st
        BY <1>0, <4>1
      <4> QED
        BY <4>1, <4>2, <4>3
    <3>3. (c - 1) * o \in Int /\ (c - 1) * st \in Int /\ (c - 1) * z \in Int
      BY <1>0
    <3> QED
      BY <1>0, <2>2, <2>4, <3>1, <3>2, <3>3
  <2>5. CASE n # c
    <3>1. t[n] = n * z /\ s[n] = z
      BY <1>2, <2>1, <2>5
    <3> QED
      BY <1>0, <2>2, <2>3, <3>1
  <2> QED
    BY <2>4, <2>5
<1>6. Total(s) = t[c]
  <2> HIDE DEF t
  <2> QED
    BY <1>3, <1>4, <1>5, TotalIs
<1>7. t[c] = L + (c - 1) * o
  BY <1>0
<1>8. L + (c - 1) * o \in Nat
  <2>1. 0 * o <= (c - 1) * o /\ 0 * o = 0 /\ (c - 1) * o \in Int
    BY <1>0, TimesMonotone
  <2> QED
    BY <1>0, <2>1
<1> QED
  BY <1>6, <1>7, <1>8 DEF Chars, OutputChars, W, s, L, o, c

\* The splitter's count is the least number of windows that reach the end.
LEMMA NeededIsCount ==
  ASSUME NEW q \in Requests
  PROVE  Needed(q) = Count(q)
<1> DEFINE L == q.length
           z == q.size
           s == q.size - q.overlap
           c == Count(q)
           N == {n \in 1 .. L : (n - 1) * s + z >= L}
<1>0. /\ L \in Nat \ {0} /\ z \in Nat \ {0} /\ s \in Nat \ {0} /\ s <= z /\ Step(q) = s
      /\ c \in Nat /\ c >= 1
  BY RequestTypes, CountReaches
<1>1. (c - 1) * s + z >= L /\ (c > 1 => (c - 2) * s + z < L)
  BY <1>0, CountReaches
<1>2. c <= L
  <2> HIDE DEF L, z, s, c
  <2>1. CASE c = 1
    BY <1>0, <2>1
  <2>2. CASE c > 1
    <3>1. (c - 2) * 1 <= (c - 2) * s /\ (c - 2) * s \in Int
      <4>1. 1 * (c - 2) <= s * (c - 2)
        BY <1>0, <2>2, TimesMonotone
      <4>2. 1 * (c - 2) = (c - 2) * 1 /\ s * (c - 2) = (c - 2) * s /\ (c - 2) * s \in Int
        BY <1>0
      <4> QED
        BY <4>1, <4>2
    <3> QED
      BY <1>0, <1>1, <2>2, <3>1
  <2> QED
    BY <1>0, <2>1, <2>2
<1>3. c \in N
  BY <1>0, <1>1, <1>2
<1>4. ASSUME NEW n \in N PROVE c <= n
  <2>1. n \in 1 .. L /\ (n - 1) * s + z >= L
    OBVIOUS
  <2> HIDE DEF L, z, s, c, N
  <2> SUFFICES ASSUME n < c PROVE FALSE
    BY <1>0, <2>1
  <2>2. (n - 1) * s <= (c - 2) * s /\ (c - 2) * s \in Int /\ (n - 1) * s \in Int /\ c > 1
    BY <1>0, <2>1, TimesMonotone, TimesDistributes
  <2> QED
    BY <1>0, <1>1, <2>1, <2>2
<1>5. N \subseteq Int
  BY <1>0
<1>6. Needed(q) = Min(N)
  BY DEF Needed
<1> HIDE DEF N, c
<1>7. Min(N) \in N /\ \A n \in N : Min(N) <= n
  BY <1>3, <1>4 DEF Min
<1>8. Min(N) \in Int /\ c \in Int /\ Min(N) <= c /\ c <= Min(N)
  BY <1>0, <1>3, <1>4, <1>5, <1>7
<1>9. Min(N) = c
  BY <1>8
<1> QED
  BY <1>6, <1>9 DEF c

\* The characters of window k, paired with it.
RowOf(q, k) ==
  {p \in {k} \X (0 .. q.length - 1) :
     (k - 1) * (q.size - q.overlap) <= p[2] /\ p[2] < (k - 1) * (q.size - q.overlap) + q.size}

\* The characters of the first n windows, each paired with its window.
RowsTo(q, n) ==
  {p \in (1 .. n) \X (0 .. q.length - 1) :
     /\ (p[1] - 1) * (q.size - q.overlap) <= p[2]
     /\ p[2] < (p[1] - 1) * (q.size - q.overlap) + q.size}

\* A window has as many characters as its span is long.
LEMMA RowCardinality ==
  ASSUME NEW q \in Requests, NEW k \in 1 .. Count(q)
  PROVE  /\ IsFiniteSet(RowOf(q, k))
         /\ Cardinality(RowOf(q, k)) =
              IF k = Count(q) THEN q.length - (Count(q) - 1) * Step(q) ELSE q.size
<1> DEFINE L == q.length
           z == q.size
           c == Count(q)
           a == (k - 1) * Step(q)
           b == (IF k = c THEN L ELSE a + z) - 1
           R == RowOf(q, k)
           f == [x \in a .. b |-> <<k, x>>]
<1>0. L \in Nat \ {0} /\ z \in Nat \ {0} /\ Step(q) = q.size - q.overlap
  BY RequestTypes
<1>1. /\ a \in Nat /\ a < L /\ (k < c => a + z < L) /\ (k = c => a + z >= L)
  BY WindowEnds
<1>2. c \in Nat /\ k \in Nat /\ k <= c
  BY CountReaches
<1>3. R = {p \in {k} \X (0 .. L - 1) : a <= p[2] /\ p[2] < a + z}
  BY <1>0 DEF RowOf
<1>4. b \in Int /\ a <= b /\ b - a + 1 = (IF k = c THEN L - a ELSE z)
  <2> HIDE DEF a, L, z, c
  <2> QED
    BY <1>0, <1>1
<1>5. \A x \in Int : x \in a .. b <=> (x \in 0 .. L - 1 /\ a <= x /\ x < a + z)
  <2> HIDE DEF a, L, z, c
  <2> QED
    BY <1>0, <1>1, <1>2
<1> HIDE DEF a, b, R, L, z, c
<1>6. f \in Bijection(a .. b, R)
  <2>1. \A x \in a .. b : f[x] \in R
    BY <1>0, <1>1, <1>3, <1>4, <1>5
  <2>2. \A x, y \in a .. b : f[x] = f[y] => x = y
    OBVIOUS
  <2>3. \A p \in R : \E x \in a .. b : f[x] = p
    <3> SUFFICES ASSUME NEW p \in R PROVE \E x \in a .. b : f[x] = p
      OBVIOUS
    <3>1. p[2] \in a .. b /\ p = <<k, p[2]>>
      BY <1>0, <1>3, <1>5
    <3> QED
      BY <3>1
  <2>4. f \in [a .. b -> R]
    BY <2>1
  <2> HIDE DEF f
  <2> QED
    BY <2>2, <2>3, <2>4 DEF Bijection, Injection, Surjection, IsInjective
<1>7. ExistsBijection(a .. b, R)
  BY <1>6 DEF ExistsBijection
<1>8. IsFiniteSet(a .. b) /\ Cardinality(a .. b) = b - a + 1
  BY <1>1, <1>4, FS_Interval
<1>9. IsFiniteSet(R) /\ Cardinality(R) = b - a + 1
  BY <1>7, <1>8, FS_Bijection
<1>10. k = c => a = (c - 1) * Step(q)
  BY DEF a
<1> QED
  BY <1>4, <1>9, <1>10 DEF R, L, z, c

\* One window more adds its characters.
LEMMA RowsStep ==
  ASSUME NEW q \in Requests, NEW n \in Nat, n + 1 <= Count(q), IsFiniteSet(RowsTo(q, n))
  PROVE  /\ IsFiniteSet(RowsTo(q, n + 1))
         /\ Cardinality(RowsTo(q, n + 1)) = Cardinality(RowsTo(q, n)) + Cardinality(RowOf(q, n + 1))
<1> DEFINE A == RowsTo(q, n)
           B == RowOf(q, n + 1)
<1>0. Count(q) \in Nat /\ n + 1 \in 1 .. Count(q)
  BY CountReaches
<1>1. RowsTo(q, n + 1) = A \cup B
  <2>1. ASSUME NEW p \in (1 .. n + 1) \X (0 .. q.length - 1)
        PROVE  p \in (1 .. n) \X (0 .. q.length - 1) \/ p[1] = n + 1
    OBVIOUS
  <2>2. RowsTo(q, n + 1) \subseteq A \cup B
    <3> SUFFICES ASSUME NEW p \in RowsTo(q, n + 1) PROVE p \in A \cup B
      OBVIOUS
    <3>1. p \in (1 .. n + 1) \X (0 .. q.length - 1)
      BY DEF RowsTo
    <3>2. CASE p[1] = n + 1
      <4>1. p \in {n + 1} \X (0 .. q.length - 1)
        BY <3>1, <3>2
      <4> QED
        BY <3>2, <4>1 DEF RowsTo, RowOf
    <3>3. CASE p \in (1 .. n) \X (0 .. q.length - 1)
      BY <3>3 DEF RowsTo
    <3> QED
      BY <2>1, <3>1, <3>2, <3>3
  <2>3. A \cup B \subseteq RowsTo(q, n + 1)
    <3>1. ASSUME NEW p \in A PROVE p \in RowsTo(q, n + 1)
      <4>1. p \in (1 .. n + 1) \X (0 .. q.length - 1)
        BY DEF RowsTo
      <4> QED
        BY <4>1 DEF RowsTo
    <3>2. ASSUME NEW p \in B PROVE p \in RowsTo(q, n + 1)
      <4>1. p \in (1 .. n + 1) \X (0 .. q.length - 1) /\ p[1] = n + 1
        BY DEF RowOf
      <4> QED
        BY <4>1 DEF RowsTo, RowOf
    <3> QED
      BY <3>1, <3>2
  <2> QED
    BY <2>2, <2>3
<1>2. A \cap B = {}
  <2>1. \A p \in A : p[1] \in 1 .. n
    BY DEF RowsTo
  <2>2. \A p \in B : p[1] = n + 1
    BY DEF RowOf
  <2> QED
    BY <2>1, <2>2
<1>3. IsFiniteSet(B)
  BY <1>0, RowCardinality
<1> HIDE DEF A, B
<1>4. /\ IsFiniteSet(A \cup B)
      /\ Cardinality(A \cup B) = Cardinality(A) + Cardinality(B) - Cardinality(A \cap B)
  BY <1>3, FS_Union DEF A
<1>5. Cardinality(A \cap B) = 0 /\ Cardinality(A) \in Nat /\ Cardinality(B) \in Nat
  BY <1>2, <1>3, FS_EmptySet, FS_CardinalityType DEF A
<1>6. Cardinality(A \cup B) = Cardinality(A) + Cardinality(B)
  BY <1>4, <1>5
<1> QED
  BY <1>1, <1>4, <1>6 DEF A, B

\* The characters counted one by one are the ones the splitter computed.
LEMMA NeededCharsIsOutput ==
  ASSUME NEW q \in Requests
  PROVE  NeededChars(q) = OutputChars(q)
<1> DEFINE W == Windows(q)
           c == Count(q)
           s == [i \in DOMAIN W |-> W[i].end_char - W[i].start_char]
           t == [n \in 0 .. c |-> Cardinality(RowsTo(q, n))]
           S == {n \in Nat : n <= c => IsFiniteSet(RowsTo(q, n))}
<1>0. c \in Nat /\ c >= 1 /\ DOMAIN W = 1 .. c
  BY CountReaches, WindowsAreChunks
<1>1. RowsTo(q, 0) = {}
  <2>1. 1 .. 0 = {}
    OBVIOUS
  <2> QED
    BY <2>1 DEF RowsTo
<1>2. \A n \in Nat : n \in S
  <2>1. 0 \in S
    BY <1>1, FS_EmptySet
  <2>2. ASSUME NEW n \in Nat, n \in S PROVE n + 1 \in S
    <3> SUFFICES ASSUME n + 1 <= c PROVE IsFiniteSet(RowsTo(q, n + 1))
      OBVIOUS
    <3>1. IsFiniteSet(RowsTo(q, n))
      BY <1>0, <2>2
    <3> QED
      BY <3>1, RowsStep
  <2> HIDE DEF S
  <2> QED
    BY <2>1, <2>2, NatSetInduction
<1>3. \A n \in 0 .. c : IsFiniteSet(RowsTo(q, n)) /\ Cardinality(RowsTo(q, n)) \in Nat
  BY <1>0, <1>2, FS_CardinalityType
<1>4. ASSUME NEW i \in 1 .. c
      PROVE  s[i] = Cardinality(RowOf(q, i)) /\ s[i] \in Int
  <2> DEFINE start == (i - 1) * Step(q)
  <2>1. W[i] = Window(q, i - 1)
    BY DEF Windows
  <2>2. /\ start \in Nat
        /\ Window(q, i - 1) = [index |-> i - 1, start_char |-> start,
                               end_char |-> IF i = c THEN q.length ELSE start + q.size]
    BY WindowEnds
  <2>3. s[i] = (IF i = c THEN q.length ELSE start + q.size) - start
    BY <1>0, <2>1, <2>2
  <2>4. i = c => start = (c - 1) * Step(q)
    OBVIOUS
  <2>5. Cardinality(RowOf(q, i)) = IF i = c THEN q.length - (c - 1) * Step(q) ELSE q.size
    BY RowCardinality
  <2>6. q.length \in Nat /\ q.size \in Nat
    BY RequestTypes
  <2> HIDE DEF start, s, c
  <2> QED
    BY <2>2, <2>3, <2>4, <2>5, <2>6
<1>5. s \in Seq(Int) /\ Len(s) = c
  <2>1. s \in [1 .. c -> Int]
    BY <1>0, <1>4
  <2> HIDE DEF s
  <2> QED
    BY <1>0, <2>1
<1>6. t[0] = 0
  BY <1>0, <1>1, FS_EmptySet
<1>7. ASSUME NEW n \in 1 .. c
      PROVE  t[n - 1] \in Int /\ t[n] = t[n - 1] + s[n]
  <2>1. n - 1 \in 0 .. c /\ n \in 0 .. c /\ n - 1 \in Nat /\ (n - 1) + 1 = n /\ n <= c
    BY <1>0
  <2>2. t[n - 1] = Cardinality(RowsTo(q, n - 1)) /\ t[n] = Cardinality(RowsTo(q, n))
    BY <2>1
  <2>3. Cardinality(RowsTo(q, n)) = Cardinality(RowsTo(q, n - 1)) + Cardinality(RowOf(q, n))
    <3>1. IsFiniteSet(RowsTo(q, n - 1)) /\ (n - 1) + 1 <= Count(q)
      BY <1>3, <2>1
    <3>2. Cardinality(RowsTo(q, (n - 1) + 1))
            = Cardinality(RowsTo(q, n - 1)) + Cardinality(RowOf(q, (n - 1) + 1))
      BY <2>1, <3>1, RowsStep
    <3> QED
      BY <2>1, <3>2
  <2> QED
    BY <1>3, <1>4, <2>1, <2>2, <2>3
<1>8. Total(s) = t[c]
  <2> HIDE DEF t, s
  <2> QED
    BY <1>5, <1>6, <1>7, TotalIs
<1>9. t[c] = Cardinality(RowsTo(q, c))
  BY <1>0
<1>10. NeededChars(q) = Cardinality(RowsTo(q, c))
  BY NeededIsCount DEF NeededChars, RowsTo
<1>11. Total(s) = OutputChars(q)
  BY CharsOfWindows DEF Chars
<1> QED
  BY <1>8, <1>9, <1>10, <1>11

-----------------------------------------------------------------------------
(* A call of chunk.                                                        *)

\* Where the service's loop stands after i chunks.
EndBefore(q, i) == IF i = 0 THEN 0 ELSE Windows(q)[i].end_char

\* The start and the end of each window.
LEMMA WindowAt ==
  ASSUME NEW q \in Requests, NEW i \in 1 .. Count(q)
  PROVE  /\ Windows(q)[i].index = i - 1
         /\ Windows(q)[i].start_char = (i - 1) * Step(q)
         /\ Windows(q)[i].end_char =
              IF i = Count(q) THEN q.length ELSE (i - 1) * Step(q) + q.size
<1>1. Windows(q)[i] = Window(q, i - 1)
  BY DEF Windows
<1>2. Window(q, i - 1) = [index |-> i - 1, start_char |-> (i - 1) * Step(q),
        end_char |-> IF i = Count(q) THEN q.length ELSE (i - 1) * Step(q) + q.size]
  BY WindowEnds
<1> QED
  BY <1>1, <1>2

\* Every window starts no later than the one before it ended, and goes further,
\* as the service demands; and the last one ends with the text.
LEMMA WindowsInOrder ==
  ASSUME NEW q \in Requests
  PROVE  /\ EndBefore(q, Count(q)) = q.length
         /\ \A i \in 0 .. Count(q) - 1 : LET w == Windows(q)[i + 1] IN
              /\ w.index = i /\ (i = 0 => w.start_char = 0)
              /\ w.start_char <= EndBefore(q, i) /\ w.end_char > EndBefore(q, i)
<1> DEFINE L == q.length
           z == q.size
           s == Step(q)
           c == Count(q)
<1>0. /\ L \in Nat \ {0} /\ z \in Nat \ {0} /\ s \in Nat \ {0} /\ s <= z
      /\ c \in Nat /\ c >= 1
  BY RequestTypes, CountReaches
<1>1. EndBefore(q, c) = L
  BY <1>0, WindowAt DEF EndBefore
<1>2. ASSUME NEW i \in 0 .. c - 1
      PROVE  LET w == Windows(q)[i + 1] IN
             /\ w.index = i /\ (i = 0 => w.start_char = 0)
             /\ w.start_char <= EndBefore(q, i) /\ w.end_char > EndBefore(q, i)
  <2> DEFINE w == Windows(q)[i + 1]
  <2>0. i + 1 \in 1 .. c /\ (i + 1) - 1 = i /\ i \in Nat
    BY <1>0
  <2>1. /\ w.index = i /\ w.start_char = i * s
        /\ w.end_char = IF i + 1 = c THEN L ELSE i * s + z
    <3>1. /\ w.index = (i + 1) - 1 /\ w.start_char = ((i + 1) - 1) * s
          /\ w.end_char = IF i + 1 = c THEN L ELSE ((i + 1) - 1) * s + z
      BY <2>0, WindowAt
    <3> QED
      BY <2>0, <3>1
  <2>2. CASE i = 0
    <3>1. i * s = 0
      BY <1>0, <2>2
    <3> HIDE DEF w, L, z, s, c
    <3> QED
      BY <1>0, <2>1, <2>2, <3>1 DEF EndBefore, w
  <2>3. CASE i # 0
    <3>1. i \in 1 .. c /\ i # c /\ i < c
      BY <1>0, <2>3
    <3>2. EndBefore(q, i) = (i - 1) * s + z
      BY <2>3, <3>1, WindowAt DEF EndBefore
    <3>3. (i - 1) * s + z < L
      BY <3>1, WindowEnds
    <3>4. (i - 1) * s = i * s - 1 * s /\ i * s \in Int /\ 1 * s = s
      BY <1>0, <2>0, TimesDistributes
    <3>5. w.start_char <= EndBefore(q, i) /\ w.end_char > EndBefore(q, i)
      <4> HIDE DEF w, L, z, s, c
      <4> QED
        BY <1>0, <2>1, <3>2, <3>3, <3>4
    <3> QED
      BY <2>1, <2>3, <3>5
  <2> QED
    BY <2>2, <2>3
<1> QED
  BY <1>1, <1>2

\* The inductive invariant of a call: the service checks exactly the windows the
\* splitter announced, and its loop stands where the windows before it ended.
ChunkInv ==
  /\ request \in Requests
  /\ \/ pc = "split" /\ chunks = << >> /\ index = 0 /\ previous_end = 0
     \/ pc = "limit" /\ ExceedsLimits(request) /\ chunks = << >>
     \/ /\ pc \in {"check", "loop", "returned"} /\ ~ExceedsLimits(request)
        /\ chunks = Windows(request)
        /\ index \in 0 .. Count(request) /\ previous_end = EndBefore(request, index)

\* The splitter's step.
LEMMA SplitInv == ChunkInv /\ Split => ChunkInv'
<1> SUFFICES ASSUME ChunkInv, Split PROVE ChunkInv'
  OBVIOUS
<1>0. /\ request \in Requests /\ chunks = << >> /\ index = 0 /\ previous_end = 0
      /\ UNCHANGED <<request, index, previous_end>>
  BY DEF ChunkInv, Split
<1>1. CASE ExceedsLimits(request)
  BY <1>0, <1>1 DEF ChunkInv, Split
<1>2. CASE ~ExceedsLimits(request)
  <2>1. chunks' = Windows(request)
    BY <1>2 DEF Split
  <2>2. pc' = "check"
    BY <1>0, <1>2, <2>1, WindowsAreChunks DEF Split
  <2>3. 0 \in 0 .. Count(request)
    BY <1>0, CountReaches
  <2> QED
    BY <1>0, <1>2, <2>1, <2>2, <2>3 DEF ChunkInv, EndBefore
<1> QED
  BY <1>1, <1>2

\* The service's measurement accepts what the splitter admitted.
LEMMA CheckInv == ChunkInv /\ Check => ChunkInv'
<1> SUFFICES ASSUME ChunkInv, Check PROVE ChunkInv'
  OBVIOUS
<1>0. /\ request \in Requests /\ ~ExceedsLimits(request) /\ chunks = Windows(request)
      /\ index \in 0 .. Count(request) /\ previous_end = EndBefore(request, index)
      /\ UNCHANGED <<request, chunks, index, previous_end>>
  BY DEF ChunkInv, Check
<1>1. /\ Len(chunks) = Count(request) /\ Chars(chunks) = OutputChars(request)
      /\ chunks # << >>
  BY <1>0, WindowsAreChunks, CharsOfWindows
<1>2. ~(Len(chunks) > request.max_chunks) /\ ~(Chars(chunks) > request.max_output_chars)
  BY <1>0, <1>1 DEF ExceedsLimits
<1>3. pc' = "loop"
  BY <1>1, <1>2 DEF Check
<1> QED
  BY <1>0, <1>3 DEF ChunkInv

\* The service's loop accepts every window.
LEMMA LoopInv == ChunkInv /\ Loop => ChunkInv'
<1> SUFFICES ASSUME ChunkInv, Loop PROVE ChunkInv'
  OBVIOUS
<1>0. /\ request \in Requests /\ ~ExceedsLimits(request) /\ chunks = Windows(request)
      /\ index \in 0 .. Count(request) /\ previous_end = EndBefore(request, index)
      /\ UNCHANGED <<request, chunks>> /\ pc = "loop" /\ index < Len(chunks)
  BY DEF ChunkInv, Loop
<1>1. Len(chunks) = Count(request) /\ Count(request) \in Nat
  BY <1>0, WindowsAreChunks, CountReaches
<1>2. /\ index \in 0 .. Count(request) - 1 /\ index + 1 \in 0 .. Count(request)
      /\ index + 1 # 0 /\ index \in Nat
  BY <1>0, <1>1
<1>3. InOrder(chunks[index + 1])
  BY <1>0, <1>2, WindowsInOrder DEF InOrder
<1>4. index' = index + 1 /\ previous_end' = chunks[index + 1].end_char /\ pc' = pc
  BY <1>3 DEF Loop
<1>5. previous_end' = EndBefore(request, index + 1)
  BY <1>0, <1>2, <1>4 DEF EndBefore
<1> QED
  BY <1>0, <1>2, <1>4, <1>5 DEF ChunkInv

\* The service's last check finds the whole text covered.
LEMMA ReturnInv == ChunkInv /\ Return => ChunkInv'
<1> SUFFICES ASSUME ChunkInv, Return PROVE ChunkInv'
  OBVIOUS
<1>0. /\ request \in Requests /\ ~ExceedsLimits(request) /\ chunks = Windows(request)
      /\ index \in 0 .. Count(request) /\ previous_end = EndBefore(request, index)
      /\ UNCHANGED <<request, chunks, index, previous_end>> /\ index = Len(chunks)
  BY DEF ChunkInv, Return
<1>1. index = Count(request)
  BY <1>0, WindowsAreChunks
<1>2. previous_end = request.length
  BY <1>0, <1>1, WindowsInOrder
<1>3. pc' = "returned"
  BY <1>2 DEF Return
<1> QED
  BY <1>0, <1>3 DEF ChunkInv

\* Every step of a call, and every step that leaves the call alone.
LEMMA ChunkStep ==
  ASSUME ChunkInv, Next \/ UNCHANGED chunkVars
  PROVE  ChunkInv'
<1>1. CASE Next
  BY <1>1, SplitInv, CheckInv, LoopInv, ReturnInv DEF Next
<1>2. CASE UNCHANGED chunkVars
  BY <1>2 DEF chunkVars, ChunkInv
<1> QED
  BY <1>1, <1>2

\* The steps of SearchNext are steps of the call or leave it alone.
LEMMA SearchStepsChunk ==
  ASSUME [SearchNext]_searchVars
  PROVE  Next \/ UNCHANGED chunkVars
BY DEF SearchNext, searchVars, chunkVars, Save, SaveOther, Delete, Put, Set, Authorize,
       CountDocuments, LoadDocuments, Rank

\* The invariant of the call holds while the result is saved and searched.
THEOREM ChunkingInductive == SearchSpec => []ChunkInv
<1>1. SearchInit => ChunkInv
  BY DEF SearchInit, Init, ChunkInv
<1>2. ChunkInv /\ [SearchNext]_searchVars => ChunkInv'
  BY ChunkStep, SearchStepsChunk
<1> QED
  BY <1>1, <1>2, PTL DEF SearchSpec

\* The limits of the splitter are exact for every text and every option, and
\* neither TextChunk nor ChunkingService refuses what it made.
THEOREM LimitsStayExact == SearchSpec => []LimitsAreExact
<1>1. ChunkInv => LimitsAreExact
  <2> SUFFICES ASSUME ChunkInv PROVE LimitsAreExact
    OBVIOUS
  <2>1. request \in Requests
    BY DEF ChunkInv
  <2>2. Needed(request) = Count(request) /\ NeededChars(request) = OutputChars(request)
    BY <2>1, NeededIsCount, NeededCharsIsOutput
  <2> QED
    BY <2>2 DEF ChunkInv, LimitsAreExact, ExceedsLimits
<1> QED
  BY <1>1, ChunkingInductive, PTL

\* Every position has a last window that starts at it or before.
LEMMA WindowOfPosition ==
  ASSUME NEW q \in Requests, NEW x \in Nat
  PROVE  \E i \in 1 .. Count(q) :
           /\ (i - 1) * Step(q) <= x
           /\ i = Count(q) \/ x < (i - 1) * Step(q) + Step(q)
<1> DEFINE s == Step(q)
           c == Count(q)
           d == x \div s
<1>0. s \in Nat \ {0} /\ c \in Nat /\ c >= 1
  BY RequestTypes, CountReaches
<1>1. d \in Nat /\ d * s <= x /\ x < d * s + s
  <2> HIDE DEF s
  <2> QED
    BY <1>0, DivBounds
<1> HIDE DEF s, c, d
<1>2. CASE d < c
  <2>1. d + 1 \in 1 .. c /\ (d + 1) - 1 = d
    BY <1>0, <1>1, <1>2
  <2>2. ((d + 1) - 1) * s <= x /\ x < ((d + 1) - 1) * s + s
    BY <1>1, <2>1
  <2> QED
    BY <2>1, <2>2 DEF s, c
<1>3. CASE d >= c
  <2>1. (c - 1) * s <= d * s /\ (c - 1) * s \in Int /\ d * s \in Int
    BY <1>0, <1>1, <1>3, TimesMonotone, TimesDistributes
  <2>2. (c - 1) * s <= x /\ c \in 1 .. c
    BY <1>0, <1>1, <2>1
  <2> QED
    BY <2>2 DEF s, c
<1> QED
  BY <1>0, <1>1, <1>2, <1>3

\* A term no longer than the overlap and one character lies in one window.
LEMMA TermInWindow ==
  ASSUME NEW q \in Requests, NEW first \in Nat, NEW length \in Nat,
         first + length <= q.length, length <= q.overlap + 1
  PROVE  \E i \in 1 .. Count(q) :
           /\ Windows(q)[i].start_char <= first
           /\ first + length <= Windows(q)[i].end_char
<1> DEFINE s == Step(q)
           c == Count(q)
<1>0. /\ s \in Nat \ {0} /\ s = q.size - q.overlap /\ q.size \in Nat /\ q.overlap \in Nat
      /\ q.length \in Nat
  BY RequestTypes
<1>1. PICK i \in 1 .. c : (i - 1) * s <= first /\ (i = c \/ first < (i - 1) * s + s)
  BY WindowOfPosition
<1>2. /\ Windows(q)[i].start_char = (i - 1) * s
      /\ Windows(q)[i].end_char = IF i = c THEN q.length ELSE (i - 1) * s + q.size
  BY WindowAt
<1>3. (i - 1) * s \in Nat
  BY WindowEnds
<1>4. first + length <= Windows(q)[i].end_char
  <2> DEFINE a == (i - 1) * s
  <2> HIDE DEF a
  <2>1. CASE i = c
    BY <1>2, <2>1
  <2>2. CASE i # c
    <3>1. first < a + s /\ Windows(q)[i].end_char = a + q.size /\ a \in Nat
      BY <1>1, <1>2, <1>3, <2>2 DEF a
    <3> HIDE DEF s, c
    <3> QED
      BY <1>0, <3>1
  <2> QED
    BY <2>1, <2>2
<1> QED
  BY <1>1, <1>2, <1>4

\* The chunks returned hold every character of the text and nothing twice but the
\* overlaps, for every text and every option.
THEOREM ChunksAlwaysTile == SearchSpec => []ChunksTile
<1>1. ChunkInv => ChunksTile
  <2> SUFFICES ASSUME ChunkInv, pc = "returned" PROVE ChunksTile
    BY DEF ChunksTile
  <2> DEFINE q == request
             W == Windows(q)
             c == Count(q)
             s == Step(q)
  <2>0. q \in Requests /\ chunks = W
    BY DEF ChunkInv
  <2>1. /\ q.length \in Nat \ {0} /\ q.size \in Nat \ {0} /\ q.overlap \in Nat
        /\ s \in Nat \ {0} /\ s = q.size - q.overlap /\ c \in Nat /\ c >= 1
    BY <2>0, RequestTypes, CountReaches
  <2>2. Len(chunks) = c /\ DOMAIN chunks = 1 .. c
    BY <2>0, WindowsAreChunks
  <2>3. ASSUME NEW i \in 1 .. c
        PROVE  /\ chunks[i].start_char \in Nat /\ chunks[i].start_char = (i - 1) * s
               /\ chunks[i].end_char = IF i = c THEN q.length ELSE (i - 1) * s + q.size
               /\ chunks[i].end_char <= q.length /\ chunks[i].end_char \in Nat
               /\ chunks[i].end_char - chunks[i].start_char <= q.size
    <3> DEFINE a == (i - 1) * s
               e == chunks[i].end_char
    <3>1. chunks[i].start_char = a /\ e = IF i = c THEN q.length ELSE a + q.size
      BY <2>0, WindowAt
    <3>2. a \in Nat /\ (i < c => a + q.size < q.length) /\ (i = c => a + q.size >= q.length)
      BY <2>0, WindowEnds
    <3>3. i <= c /\ i \in Nat
      BY <2>1
    <3> HIDE DEF a, e
    <3>4. e <= q.length /\ e \in Nat /\ e - a <= q.size
      <4> HIDE DEF c, q
      <4> QED
        BY <2>1, <3>1, <3>2, <3>3
    <3> QED
      BY <3>1, <3>2, <3>4 DEF a, e
  <2>4. UNION {w.start_char .. w.end_char - 1 : w \in Range(chunks)} = 0 .. request.length - 1
    <3>1. ASSUME NEW w \in Range(chunks), NEW x \in w.start_char .. w.end_char - 1
          PROVE  x \in 0 .. q.length - 1
      <4>1. PICK i \in 1 .. c : w = chunks[i]
        BY <2>2 DEF Range
      <4>2. w.start_char \in Nat /\ w.end_char \in Nat /\ w.end_char <= q.length
        BY <2>3, <4>1
      <4> QED
        BY <2>1, <4>2
    <3>2. ASSUME NEW x \in 0 .. q.length - 1
          PROVE  \E w \in Range(chunks) : x \in w.start_char .. w.end_char - 1
      <4>1. x \in Nat /\ 1 \in Nat /\ x + 1 <= q.length /\ 1 <= q.overlap + 1
        BY <2>1
      <4>2. PICK i \in 1 .. c : W[i].start_char <= x /\ x + 1 <= W[i].end_char
        BY <2>0, <4>1, TermInWindow
      <4>3. chunks[i] \in Range(chunks)
        BY <2>2 DEF Range
      <4>4. x \in chunks[i].start_char .. chunks[i].end_char - 1
        BY <2>0, <2>3, <4>1, <4>2
      <4> QED
        BY <4>3, <4>4
    <3> QED
      BY <3>1, <3>2
  <2>5. \A w \in Range(chunks) : w.end_char - w.start_char <= request.size
    BY <2>2, <2>3 DEF Range
  <2>6. ASSUME NEW i \in 1 .. Len(chunks) - 1
        PROVE  chunks[i].end_char - chunks[i + 1].start_char = request.overlap
    <3>1. i \in 1 .. c /\ i + 1 \in 1 .. c /\ i # c /\ (i + 1) - 1 = i
      BY <2>1, <2>2
    <3>2. chunks[i].end_char = (i - 1) * s + q.size /\ chunks[i + 1].start_char = ((i + 1) - 1) * s
      BY <2>3, <3>1
    <3>3. i * s = (i - 1) * s + s /\ (i - 1) * s \in Int
      <4>1. (i - 1) * s = i * s - 1 * s /\ i * s \in Int /\ 1 * s = s /\ (i - 1) * s \in Int
        BY <2>1, <3>1, TimesDistributes
      <4> QED
        BY <2>1, <4>1
    <3>4. chunks[i + 1].start_char = i * s
      BY <3>1, <3>2
    <3> DEFINE a == (i - 1) * s
    <3>5. chunks[i].end_char = a + q.size /\ chunks[i + 1].start_char = a + s /\ a \in Int
      BY <3>2, <3>3, <3>4
    <3> HIDE DEF a, s, c
    <3> QED
      BY <2>1, <3>5
  <2> QED
    BY <2>4, <2>5, <2>6 DEF ChunksTile
<1> QED
  BY <1>1, ChunkingInductive, PTL

-----------------------------------------------------------------------------
(* Ranking.                                                                *)

\* Matches and scores that the retrievers sort: finitely many passages, named by
\* document and position, with numbers as scores.
Rankable(M, scores) == IsFiniteSet(M) /\ M \subseteq Nat \X Nat /\ scores \in [M -> Nat]

\* The matches that come before p.
Before(M, scores, p) == {q \in M : Precedes(scores, q, p)}

\* The order of the retrievers is a strict total order.
LEMMA PrecedesOrder ==
  ASSUME NEW M, NEW scores, Rankable(M, scores)
  PROVE  /\ \A p \in M : ~Precedes(scores, p, p)
         /\ \A p, q \in M : p # q => Precedes(scores, p, q) \/ Precedes(scores, q, p)
         /\ \A p, q \in M : ~(Precedes(scores, p, q) /\ Precedes(scores, q, p))
         /\ \A p, q, r \in M : Precedes(scores, p, q) /\ Precedes(scores, q, r)
                                 => Precedes(scores, p, r)
<1>1. \A p \in M : scores[p] \in Nat /\ p[1] \in Nat /\ p[2] \in Nat /\ p = <<p[1], p[2]>>
  BY DEF Rankable
<1>2. \A p, q \in M : p[1] = q[1] /\ p[2] = q[2] => p = q
  BY <1>1
<1> QED
  BY <1>1, <1>2 DEF Precedes

\* What comes before a match is finite, and leaves the match itself out.
LEMMA BeforeFinite ==
  ASSUME NEW M, NEW scores, Rankable(M, scores), NEW p \in M
  PROVE  /\ IsFiniteSet(Before(M, scores, p)) /\ Cardinality(Before(M, scores, p)) \in Nat
         /\ Cardinality(M) \in Nat
         /\ Cardinality(Before(M, scores, p)) <= Cardinality(M) - 1
<1>1. Before(M, scores, p) \subseteq M \ {p}
  BY PrecedesOrder DEF Before
<1>2. IsFiniteSet(M)
  BY DEF Rankable
<1>3. IsFiniteSet(M \ {p}) /\ Cardinality(M \ {p}) = Cardinality(M) - 1
  BY <1>2, FS_RemoveElement
<1>4. /\ IsFiniteSet(Before(M, scores, p))
      /\ Cardinality(Before(M, scores, p)) <= Cardinality(M \ {p})
  BY <1>1, <1>3, FS_Subset
<1> QED
  BY <1>2, <1>3, <1>4, FS_CardinalityType

\* Fewer matches come before the earlier one of two.
LEMMA BeforeGrows ==
  ASSUME NEW M, NEW scores, Rankable(M, scores), NEW p \in M, NEW q \in M,
         Precedes(scores, p, q)
  PROVE  Cardinality(Before(M, scores, p)) < Cardinality(Before(M, scores, q))
<1> DEFINE A == Before(M, scores, p)
           B == Before(M, scores, q)
<1>1. A \subseteq B /\ p \in B /\ p \notin A
  BY PrecedesOrder DEF Before
<1>2. IsFiniteSet(B) /\ Cardinality(A) \in Nat /\ Cardinality(B) \in Nat
  BY BeforeFinite
<1>3. Cardinality(A) <= Cardinality(B) /\ (Cardinality(B) = Cardinality(A) => B = A)
  BY <1>1, <1>2, FS_Subset
<1> QED
  BY <1>1, <1>2, <1>3

\* Two matches with as many before them are one.
LEMMA BeforeIsUnique ==
  ASSUME NEW M, NEW scores, Rankable(M, scores), NEW p \in M, NEW q \in M,
         Cardinality(Before(M, scores, p)) = Cardinality(Before(M, scores, q))
  PROVE  p = q
<1> SUFFICES ASSUME p # q PROVE FALSE
  OBVIOUS
<1>1. Precedes(scores, p, q) \/ Precedes(scores, q, p)
  BY PrecedesOrder
<1>2. Cardinality(Before(M, scores, p)) \in Nat /\ Cardinality(Before(M, scores, q)) \in Nat
  BY BeforeFinite
<1> QED
  BY <1>1, <1>2, BeforeGrows

\* Every place of the ranking has its match.
LEMMA PlaceIsTaken ==
  ASSUME NEW M, NEW scores, Rankable(M, scores), NEW i \in 1 .. Cardinality(M)
  PROVE  \E p \in M : Cardinality(Before(M, scores, p)) = i - 1
<1> DEFINE n == Cardinality(M)
           f == [p \in M |-> Cardinality(Before(M, scores, p)) + 1]
<1>0. IsFiniteSet(M) /\ n \in Nat
  BY FS_CardinalityType DEF Rankable
<1>1. \A p \in M : /\ Cardinality(Before(M, scores, p)) \in Nat
                   /\ Cardinality(Before(M, scores, p)) <= n - 1
  BY BeforeFinite
<1>2. f \in [M -> 1 .. n]
  BY <1>0, <1>1
<1>3. \A p, q \in M : f[p] = f[q] => p = q
  <2> SUFFICES ASSUME NEW p \in M, NEW q \in M, f[p] = f[q] PROVE p = q
    OBVIOUS
  <2>1. Cardinality(Before(M, scores, p)) = Cardinality(Before(M, scores, q))
    BY <1>1
  <2> QED
    BY <2>1, BeforeIsUnique
<1>4. f \in Injection(M, 1 .. n)
  <2> HIDE DEF f
  <2> QED
    BY <1>2, <1>3 DEF Injection, IsInjective
<1>5. IsFiniteSet(1 .. n) /\ Cardinality(1 .. n) = n
  BY <1>0, FS_Interval
<1>6. f \in Surjection(M, 1 .. n)
  <2> HIDE DEF f
  <2> QED
    BY <1>4, <1>5, FS_Injection
<1>7. PICK p \in M : f[p] = i
  <2> HIDE DEF f
  <2> QED
    BY <1>6 DEF Surjection
<1>8. Cardinality(Before(M, scores, p)) + 1 = i
  BY <1>7
<1> QED
  BY <1>1, <1>8

\* The ranking: each place holds the match with as many before it.
LEMMA RankedIs ==
  ASSUME NEW M, NEW scores, Rankable(M, scores)
  PROVE  /\ Cardinality(M) \in Nat
         /\ Ranked(M, scores) \in [1 .. Cardinality(M) -> M]
         /\ \A i \in 1 .. Cardinality(M) :
              Cardinality(Before(M, scores, Ranked(M, scores)[i])) = i - 1
<1>0. Cardinality(M) \in Nat
  BY FS_CardinalityType DEF Rankable
<1>1. ASSUME NEW i \in 1 .. Cardinality(M)
      PROVE  /\ Ranked(M, scores)[i] \in M
             /\ Cardinality(Before(M, scores, Ranked(M, scores)[i])) = i - 1
  <2> DEFINE Has(p) == Cardinality(Before(M, scores, p)) = i - 1
  <2>1. \E p \in M : Has(p)
    BY PlaceIsTaken
  <2>2. Ranked(M, scores)[i] = CHOOSE p \in M : Has(p)
    BY DEF Ranked, Before
  <2> HIDE DEF Has
  <2>3. Ranked(M, scores)[i] \in M /\ Has(Ranked(M, scores)[i])
    BY <2>1, <2>2
  <2> QED
    BY <2>3 DEF Has
<1>2. DOMAIN Ranked(M, scores) = 1 .. Cardinality(M)
      /\ Ranked(M, scores) = [i \in 1 .. Cardinality(M) |-> Ranked(M, scores)[i]]
  BY DEF Ranked
<1> QED
  BY <1>0, <1>1, <1>2

\* A total of integers is an integer.
LEMMA TotalType ==
  ASSUME NEW s \in Seq(Int)
  PROVE  Total(s) \in Int
<1> DEFINE Is(f) == f = [n \in 0 .. Len(s) |-> IF n = 0 THEN 0 ELSE f[n - 1] + s[n]]
           F == CHOOSE f : Is(f)
           S == {k \in Nat : k <= Len(s) => F[k] \in Int}
<1>1. Total(s) = F[Len(s)]
  BY DEF Total
<1>2. Is(F)
  <2>1. \E f : Is(f)
    BY FirstExists
  <2> HIDE DEF Is
  <2> QED
    BY <2>1
<1> HIDE DEF F
<1>3. 0 \in S
  BY <1>2
<1>4. ASSUME NEW k \in Nat, k \in S
      PROVE  k + 1 \in S
  <2> SUFFICES ASSUME k + 1 <= Len(s) PROVE F[k + 1] \in Int
    OBVIOUS
  <2>1. F[k] \in Int
    BY <1>4
  <2>2. k + 1 \in 0 .. Len(s) /\ k + 1 \in 1 .. Len(s) /\ k + 1 # 0 /\ (k + 1) - 1 = k
    OBVIOUS
  <2>3. F[k + 1] = IF k + 1 = 0 THEN 0 ELSE F[(k + 1) - 1] + s[k + 1]
    BY <1>2, <2>2
  <2>4. s[k + 1] \in Int
    BY <2>2
  <2> QED
    BY <2>1, <2>2, <2>3, <2>4
<1>5. \A k \in Nat : k \in S
  <2>1. \A k \in Nat : k \in S => k + 1 \in S
    BY <1>4
  <2> HIDE DEF S
  <2> QED
    BY <1>3, <2>1, NatSetInduction, Zenon
<1> QED
  BY <1>1, <1>5

\* The elements of a sequence that are in different places are as many as the places.
LEMMA DistinctPlaces ==
  ASSUME NEW n \in Nat, NEW M, NEW f \in [1 .. n -> M],
         \A i, j \in 1 .. n : f[i] = f[j] => i = j
  PROVE  IsFiniteSet(Range(f)) /\ Cardinality(Range(f)) = n
<1> DEFINE T == Range(f)
<1>1. f \in [1 .. n -> T]
  BY DEF Range
<1>2. \A t \in T : \E i \in 1 .. n : f[i] = t
  BY DEF Range
<1> HIDE DEF T
<1>3. f \in Injection(1 .. n, T) /\ f \in Surjection(1 .. n, T)
  BY <1>1, <1>2 DEF Injection, IsInjective, Surjection
<1>4. ExistsBijection(1 .. n, T)
  BY <1>3 DEF ExistsBijection, Bijection
<1>5. IsFiniteSet(1 .. n) /\ Cardinality(1 .. n) = n
  BY FS_Interval
<1> QED
  BY <1>4, <1>5, FS_Bijection DEF T

\* The passages whose places are as many as come before them, up to top_k, are
\* the best ones.
LEMMA PlacesAreBest ==
  ASSUME NEW c, NEW scores, NEW k \in Nat, NEW P,
         Rankable(Matches(c), scores),
         P \in [1 .. Smaller(k, Cardinality(Matches(c))) -> Matches(c)],
         \A i \in DOMAIN P : Cardinality(Before(Matches(c), scores, P[i])) = i - 1
  PROVE  IsBest(c, P, scores, k)
<1> DEFINE M == Matches(c)
           m == Smaller(k, Cardinality(M))
           place(p) == Cardinality(Before(M, scores, p))
<1>0. m \in Nat /\ Cardinality(M) \in Nat
  BY FS_CardinalityType DEF Rankable, Smaller
<1>1. P \in [1 .. m -> M] /\ \A i \in 1 .. m : place(P[i]) = i - 1
  OBVIOUS
<1>1a. \A p \in M : place(p) \in Nat
  BY BeforeFinite
<1>1b. \A p, q \in M : Precedes(scores, p, q) => place(p) < place(q)
  BY BeforeGrows
<1>1c. \A p, q \in M : place(p) = place(q) => p = q
  BY BeforeIsUnique
<1>1d. \A p, q \in M : p # q => Precedes(scores, p, q) \/ Precedes(scores, q, p)
  BY PrecedesOrder
<1> HIDE DEF M, m, place
<1>2. Range(P) = {P[i] : i \in 1 .. m} /\ Range(P) \subseteq M /\ DOMAIN P = 1 .. m
  BY <1>1 DEF Range
<1>3. Len(P) = m
  BY <1>0, <1>1
<1>4. \A i, j \in 1 .. m : P[i] = P[j] => i = j
  <2> SUFFICES ASSUME NEW i \in 1 .. m, NEW j \in 1 .. m, P[i] = P[j] PROVE i = j
    OBVIOUS
  <2>1. i - 1 = j - 1
    BY <1>1
  <2> QED
    BY <1>0, <2>1
<1>5. Cardinality(Range(P)) = Len(P)
  BY <1>0, <1>1, <1>3, <1>4, DistinctPlaces
<1>6. \A i, j \in 1 .. m : i < j => Precedes(scores, P[i], P[j])
  <2> SUFFICES ASSUME NEW i \in 1 .. m, NEW j \in 1 .. m, i < j
               PROVE  Precedes(scores, P[i], P[j])
    OBVIOUS
  <2>1. P[i] \in M /\ P[j] \in M /\ place(P[i]) = i - 1 /\ place(P[j]) = j - 1
    BY <1>1
  <2>2. P[i] # P[j]
    BY <1>0, <1>4
  <2>3. ~Precedes(scores, P[j], P[i])
    BY <1>0, <1>1b, <2>1
  <2> QED
    BY <1>1d, <2>1, <2>2, <2>3
<1>7. \A p \in Range(P), q \in M \ Range(P) : Precedes(scores, p, q)
  <2> SUFFICES ASSUME NEW i \in 1 .. m, NEW q \in M \ Range(P), Precedes(scores, q, P[i])
               PROVE  FALSE
    BY <1>1d, <1>2
  <2>1. place(q) \in Nat /\ place(q) < i - 1
    BY <1>1, <1>1a, <1>1b
  <2>2. place(q) + 1 \in 1 .. m /\ (place(q) + 1) - 1 = place(q)
    BY <1>0, <2>1
  <2>3. place(P[place(q) + 1]) = place(q) /\ P[place(q) + 1] \in M
    BY <1>1, <2>2
  <2>4. P[place(q) + 1] = q
    BY <1>1c, <2>3
  <2> QED
    BY <1>2, <2>2, <2>4
<1> QED
  BY <1>2, <1>3, <1>5, <1>6, <1>7 DEF IsBest, M, m

\* The best passages are in the places that say how many come before them.
LEMMA BestAreInPlace ==
  ASSUME NEW c, NEW scores, NEW k \in Nat, NEW P,
         Rankable(Matches(c), scores), P \in Seq(Matches(c)), IsBest(c, P, scores, k)
  PROVE  /\ P \in [1 .. Smaller(k, Cardinality(Matches(c))) -> Matches(c)]
         /\ \A i \in DOMAIN P : Cardinality(Before(Matches(c), scores, P[i])) = i - 1
<1> DEFINE M == Matches(c)
           m == Smaller(k, Cardinality(M))
<1>0. m \in Nat
  BY FS_CardinalityType DEF Rankable, Smaller
<1>1. /\ Len(P) = m /\ Range(P) \subseteq M
      /\ \A i, j \in DOMAIN P : i < j => Precedes(scores, P[i], P[j])
      /\ \A p \in Range(P), q \in M \ Range(P) : Precedes(scores, p, q)
  BY DEF IsBest
<1>2. P \in [1 .. m -> M] /\ DOMAIN P = 1 .. m
  BY <1>0, <1>1
<1>3. ASSUME NEW i \in 1 .. m
      PROVE  Cardinality(Before(M, scores, P[i])) = i - 1
  <2> DEFINE f == [j \in 1 .. i - 1 |-> P[j]]
             B == Range(f)
  <2>0. i - 1 \in Nat /\ 1 .. i - 1 \subseteq 1 .. m /\ \A j \in 1 .. i - 1 : j < i
    BY <1>0
  <2>1. ASSUME NEW q \in Before(M, scores, P[i]) PROVE q \in B
    <3>1. q \in M /\ Precedes(scores, q, P[i]) /\ P[i] \in M /\ P[i] \in Range(P)
      BY <1>2 DEF Before, Range
    <3>2. q \in Range(P)
      BY <1>1, <3>1, PrecedesOrder
    <3>3. PICK j \in 1 .. m : q = P[j]
      BY <1>2, <3>2 DEF Range
    <3>4. ~(i < j)
      BY <1>1, <1>2, <3>1, <3>3, PrecedesOrder
    <3>5. i # j
      BY <3>1, <3>3, PrecedesOrder
    <3>6. j \in 1 .. i - 1
      BY <1>0, <3>4, <3>5
    <3> QED
      BY <3>3, <3>6 DEF Range
  <2>2. ASSUME NEW j \in 1 .. i - 1 PROVE f[j] \in Before(M, scores, P[i])
    <3>1. j \in 1 .. m /\ j < i
      BY <2>0
    <3>2. Precedes(scores, P[j], P[i]) /\ P[j] \in M
      BY <1>1, <1>2, <3>1
    <3> QED
      BY <3>2 DEF Before
  <2>3. Before(M, scores, P[i]) = B
    BY <2>1, <2>2 DEF Range
  <2>4. f \in [1 .. i - 1 -> M]
    BY <1>2, <2>0
  <2>5. \A a, b \in 1 .. i - 1 : f[a] = f[b] => a = b
    <3> SUFFICES ASSUME NEW a \in 1 .. i - 1, NEW b \in 1 .. i - 1, P[a] = P[b], a # b
                 PROVE  FALSE
      OBVIOUS
    <3>1. a \in 1 .. m /\ b \in 1 .. m /\ (a < b \/ b < a)
      BY <2>0
    <3>2. Precedes(scores, P[a], P[a]) /\ P[a] \in M
      BY <1>1, <1>2, <3>1
    <3> QED
      BY <3>2, PrecedesOrder
  <2>6. Cardinality(B) = i - 1
    <3> HIDE DEF f, M
    <3> QED
      BY <2>0, <2>4, <2>5, DistinctPlaces
  <2> QED
    BY <2>3, <2>6
<1> QED
  BY <1>2, <1>3

-----------------------------------------------------------------------------
(* A search of one corpus.                                                 *)

\* The documents a corpus may hold: their hits are positions of their chunks.
Spans     == [index : Nat, start_char : Nat, end_char : Nat]
Documents == {v \in [version : Nat, chunks : Seq(Spans), hits : SUBSET Nat] :
                v.hits \subseteq DOMAIN v.chunks}
Corpora   == [Docs -> Documents]

\* The passages that match are in the documents.
LEMMA MatchIsPassage ==
  ASSUME NEW c \in Corpora, NEW p \in Matches(c)
  PROVE  /\ p[1] \in Docs /\ p[2] \in DOMAIN c[p[1]].chunks /\ p = <<p[1], p[2]>>
         /\ p \in Docs \X (c[p[1]].hits)
         /\ Size(c, p) \in Int
<1>1. PICK d \in Docs : \E i \in c[d].hits : p = <<d, i>>
  BY DEF Matches, Corpora
<1>2. PICK i \in c[d].hits : p = <<d, i>>
  BY <1>1
<1>3. c[d] \in Documents
  BY DEF Corpora
<1>4. c[d].chunks \in Seq(Spans) /\ i \in DOMAIN c[d].chunks
  BY <1>2, <1>3 DEF Documents
<1>5. c[d].chunks[i] \in Spans
  BY <1>4
<1>6. c[d].chunks[i].end_char - c[d].chunks[i].start_char \in Int
  BY <1>5 DEF Spans
<1>7. p[1] = d /\ p[2] = i
  BY <1>2
<1> QED
  BY <1>2, <1>4, <1>6, <1>7 DEF Size

\* The passages of a corpus that match, and the scores they are given, can be ranked.
LEMMA MatchesRankable ==
  ASSUME NEW c \in Corpora, NEW scores \in [Matches(c) -> Scores]
  PROVE  Rankable(Matches(c), scores)
<1>1. /\ c[Text].chunks \in Seq(Spans) /\ c[Other].chunks \in Seq(Spans)
      /\ Text \in Nat /\ Other \in Nat /\ Docs = {Text, Other}
  BY DEF Corpora, Documents, Docs, Text, Other
<1> DEFINE A == DOMAIN c[Text].chunks
           B == DOMAIN c[Other].chunks
<1>2. /\ A = 1 .. Len(c[Text].chunks) /\ B = 1 .. Len(c[Other].chunks)
      /\ Len(c[Text].chunks) \in Nat /\ Len(c[Other].chunks) \in Nat
  BY <1>1
<1>3. A \subseteq Nat /\ B \subseteq Nat
  BY <1>2
<1> HIDE DEF A, B
<1>4. IsFiniteSet(A) /\ IsFiniteSet(B)
  <2>1. \A n \in Nat : IsFiniteSet(1 .. n)
    BY FS_Interval
  <2> QED
    BY <1>2, <2>1
<1>5. IsFiniteSet({Text} \X A) /\ IsFiniteSet({Other} \X B)
  BY <1>4, FS_Singleton, FS_Product
<1>6. IsFiniteSet(({Text} \X A) \cup ({Other} \X B))
  BY <1>5, FS_Union
<1>7. Matches(c) \subseteq ({Text} \X A) \cup ({Other} \X B)
  <2> SUFFICES ASSUME NEW p \in Matches(c)
               PROVE  p \in ({Text} \X A) \cup ({Other} \X B)
    OBVIOUS
  <2>1. p[1] \in Docs /\ p[2] \in DOMAIN c[p[1]].chunks /\ p = <<p[1], p[2]>>
    BY MatchIsPassage
  <2>2. CASE p[1] = Text
    <3>1. p[2] \in A
      BY <2>1, <2>2 DEF A
    <3> QED
      BY <2>1, <2>2, <3>1
  <2>3. CASE p[1] = Other
    <3>1. p[2] \in B
      BY <2>1, <2>3 DEF B
    <3> QED
      BY <2>1, <2>3, <3>1
  <2> QED
    BY <1>1, <2>1, <2>2, <2>3
<1>8. IsFiniteSet(Matches(c))
  BY <1>6, <1>7, FS_Subset
<1>9. Matches(c) \subseteq Nat \X Nat
  <2> SUFFICES ASSUME NEW p \in Matches(c) PROVE p \in Nat \X Nat
    OBVIOUS
  <2>1. p \in ({Text} \X A) \cup ({Other} \X B)
    BY <1>7
  <2> QED
    BY <1>1, <1>3, <2>1
<1>10. scores \in [Matches(c) -> Nat]
  BY RetrievalConstants
<1> QED
  BY <1>8, <1>9, <1>10 DEF Rankable

\* The lengths of passages that match have a total.
LEMMA LengthsAreNumbers ==
  ASSUME NEW c \in Corpora, NEW n \in Nat, NEW P \in [1 .. n -> Matches(c)]
  PROVE  Total([i \in DOMAIN P |-> Size(c, P[i])]) \in Int
<1> DEFINE s == [i \in DOMAIN P |-> Size(c, P[i])]
<1>1. s \in [1 .. n -> Int]
  BY MatchIsPassage
<1> HIDE DEF s
<1>2. s \in Seq(Int)
  BY <1>1
<1> QED
  BY <1>2, TotalType DEF s

\* What the retriever selects has in each place the passage with as many before it.
LEMMA SelectedIs ==
  ASSUME NEW c \in Corpora, NEW scores \in [Matches(c) -> Scores], NEW options \in Options
  PROVE  LET P == Selected(Ranked(Matches(c), scores), options)
             m == Smaller(options.top_k, Cardinality(Matches(c)))
         IN  /\ m \in Nat /\ m <= options.top_k /\ options.top_k \in Nat
             /\ options.max_output_chars \in Nat
             /\ P \in [1 .. m -> Matches(c)] /\ Len(P) = m
             /\ \A i \in DOMAIN P : Cardinality(Before(Matches(c), scores, P[i])) = i - 1
<1> DEFINE M == Matches(c)
           n == Cardinality(M)
           R == Ranked(M, scores)
           k == options.top_k
           m == Smaller(k, n)
           P == Selected(R, options)
<1>0. k \in Nat /\ options.max_output_chars \in Nat
  BY RetrievalConstants
<1>1. Rankable(M, scores)
  BY MatchesRankable
<1>2. /\ n \in Nat /\ R \in [1 .. n -> M]
      /\ \A i \in 1 .. n : Cardinality(Before(M, scores, R[i])) = i - 1
  BY <1>1, RankedIs
<1>3. P = SubSeq(R, 1, Smaller(k, Len(R)))
  BY DEF Selected
<1> HIDE DEF M, n, R, k, P
<1>4. R \in Seq(M) /\ Len(R) = n
  BY <1>2
<1>5. m \in Nat /\ m <= k /\ m <= n /\ P = SubSeq(R, 1, m)
  BY <1>0, <1>2, <1>3, <1>4 DEF Smaller
<1> HIDE DEF m
<1>6. Len(P) = m /\ DOMAIN P = 1 .. m /\ \A i \in 1 .. m : P[i] = R[i]
  BY <1>4, <1>5
<1>7. P \in Seq(M)
  BY <1>4, <1>5
<1>8. P \in [1 .. m -> M]
  <2>1. P \in [1 .. Len(P) -> M]
    BY <1>7
  <2> QED
    BY <1>6, <2>1
<1>9. \A i \in 1 .. m : Cardinality(Before(M, scores, P[i])) = i - 1
  BY <1>2, <1>5, <1>6
<1> QED
  BY <1>0, <1>5, <1>6, <1>8, <1>9 DEF M, n, R, k, m, P

\* The retriever's answer for one corpus: what it selects is the best, the facade
\* accepts it, and the retriever refuses exactly when the best is too long.
LEMMA AnswerIsBest ==
  ASSUME NEW c \in Corpora, NEW scores \in [Matches(c) -> Scores], NEW options \in Options
  PROVE  LET ranked == Ranked(Matches(c), scores)
         IN  /\ IsBest(c, Selected(ranked, options), scores, options.top_k)
             /\ ResultValid(Selected(ranked, options), options)
             /\ TooLong(c, scores, options) <=> ~Admitted(c, ranked, options)
<1> DEFINE M == Matches(c)
           R == Ranked(M, scores)
           k == options.top_k
           m == Smaller(k, Cardinality(M))
           P == Selected(R, options)
           sum(Q) == Total([i \in DOMAIN Q |-> Size(c, Q[i])])
<1>0. /\ m \in Nat /\ m <= k /\ k \in Nat /\ options.max_output_chars \in Nat
      /\ P \in [1 .. m -> M] /\ Len(P) = m
      /\ \A i \in DOMAIN P : Cardinality(Before(M, scores, P[i])) = i - 1
  BY SelectedIs
<1>1. Rankable(M, scores)
  BY MatchesRankable
<1>2. IsBest(c, P, scores, k)
  <2> HIDE DEF P
  <2> QED
    BY <1>0, <1>1, PlacesAreBest
<1>3. ResultValid(P, options)
  <2>1. Cardinality(Range(P)) = Len(P)
    BY <1>2 DEF IsBest
  <2> QED
    BY <1>0, <2>1 DEF ResultValid
<1>4. Admitted(c, R, options) <=> sum(P) <= options.max_output_chars
  BY DEF Admitted
<1>5. sum(P) \in Int
  <2> HIDE DEF P, m, M
  <2> QED
    BY <1>0, LengthsAreNumbers DEF M
<1>6. ASSUME ~Admitted(c, R, options)
      PROVE  TooLong(c, scores, options)
  <2>1. sum(P) > options.max_output_chars
    <3> HIDE DEF P, R, sum
    <3> QED
      BY <1>0, <1>4, <1>5, <1>6
  <2>2. P \in BoundedSeq(M, k)
    <3>1. m \in 0 .. k
      BY <1>0
    <3> HIDE DEF P, m, M, k
    <3> QED
      BY <1>0, <3>1 DEF BoundedSeq, SeqOf
  <2> HIDE DEF P
  <2> QED
    BY <1>2, <2>1, <2>2 DEF TooLong
<1>7. ASSUME TooLong(c, scores, options)
      PROVE  ~Admitted(c, R, options)
  <2>1. PICK Q \in BoundedSeq(M, k) :
          IsBest(c, Q, scores, k) /\ sum(Q) > options.max_output_chars
    BY <1>7 DEF TooLong
  <2>2. Q \in Seq(M)
    <3>1. PICK j \in 0 .. k : Q \in [1 .. j -> M]
      BY DEF BoundedSeq, SeqOf
    <3> HIDE DEF M, k
    <3> QED
      BY <1>0, <3>1
  <2>3. /\ Q \in [1 .. m -> M]
        /\ \A i \in DOMAIN Q : Cardinality(Before(M, scores, Q[i])) = i - 1
    BY <1>0, <1>1, <2>1, <2>2, BestAreInPlace
  <2>4. \A i \in 1 .. m : Q[i] = P[i]
    <3> SUFFICES ASSUME NEW i \in 1 .. m PROVE Q[i] = P[i]
      OBVIOUS
    <3>1. /\ Q[i] \in M /\ P[i] \in M
          /\ Cardinality(Before(M, scores, Q[i])) = Cardinality(Before(M, scores, P[i]))
      <4> HIDE DEF P, M, m
      <4> QED
        BY <1>0, <2>3
    <3> QED
      BY <1>1, <3>1, BeforeIsUnique
  <2>5. Q = P
    <3> HIDE DEF P, M, m
    <3> QED
      BY <1>0, <2>3, <2>4
  <2>6. sum(P) > options.max_output_chars
    <3> HIDE DEF P
    <3> QED
      BY <2>1, <2>5
  <2> HIDE DEF P, R, sum
  <2> QED
    BY <1>0, <1>4, <1>5, <2>6
<1> QED
  BY <1>2, <1>3, <1>6, <1>7

-----------------------------------------------------------------------------
(* A search while documents change.                                        *)

SearchFields == {"pc", "options", "snapshot", "scores", "passages", "seen"}

Crowded(c, options) == Cardinality(Current(c)) > options.max_documents

\* The documents: the text is there only after the call of chunk, with its windows.
CorpusInv ==
  /\ corpus \in Corpora
  /\ corpus[Text] # Absent => pc = "returned" /\ corpus[Text].chunks = Windows(request)

\* The search: until it ends, the current corpus is one of those it saw, and what
\* it counted and will rank is one of those too, and not crowded.
SearchInv ==
  /\ DOMAIN search = SearchFields
  /\ search.pc \in {"idle", "denied", "count", "load", "rank", "limit", "returned"}
  /\ search.pc # "idle" => search.options \in Options
  /\ Searching => corpus \in search.seen
  /\ search.pc \in {"load", "rank"} =>
       /\ search.snapshot \in search.seen /\ search.snapshot \in Corpora
       /\ ~Crowded(search.snapshot, search.options)
  /\ SearchIsExact

\* The inductive invariant of a text from its chunking to a search.
RetrievalInv == ChunkInv /\ CorpusInv /\ SearchInv

\* A document that is absent has no chunk.
LEMMA AbsentDocument == Absent \in Documents
<1>1. << >> \in Seq(Spans) /\ DOMAIN << >> = {}
  OBVIOUS
<1>2. Absent \in [version : Nat, chunks : Seq(Spans), hits : SUBSET Nat]
  BY <1>1 DEF Absent
<1>3. Absent.hits \subseteq DOMAIN Absent.chunks
  BY DEF Absent
<1> QED
  BY <1>2, <1>3 DEF Documents

\* A document is put into the corpus: the search sees it as long as it runs, and a
\* search that ended keeps its answer.
LEMMA PutStep ==
  ASSUME SearchInv, CorpusInv, NEW d \in Docs, NEW document \in Documents, Put(d, document)
  PROVE  corpus' \in Corpora /\ corpus'[d] = document /\ SearchInv'
         /\ (d # Text => corpus'[Text] = corpus[Text])
<1>1. corpus' = [corpus EXCEPT ![d] = document] /\ corpus \in Corpora
  BY DEF Put, CorpusInv
<1>2. corpus' \in Corpora /\ corpus'[d] = document /\ (d # Text => corpus'[Text] = corpus[Text])
  BY <1>1 DEF Corpora, Docs
<1>3. CASE ~Searching
  <2>1. search' = search
    BY <1>3 DEF Put
  <2> QED
    BY <1>2, <1>3, <2>1 DEF SearchInv, Searching, SearchIsExact
<1>4. CASE Searching
  <2>1. search' = [search EXCEPT !.seen = @ \cup {corpus'}]
    BY <1>4 DEF Put
  <2>2. DOMAIN search = SearchFields
    BY DEF SearchInv
  <2>3. /\ DOMAIN search' = SearchFields /\ search'.pc = search.pc
        /\ search'.options = search.options /\ search'.snapshot = search.snapshot
        /\ search'.seen = search.seen \cup {corpus'}
    BY <2>1, <2>2 DEF SearchFields
  <2>4. SearchIsExact'
    BY <1>4, <2>3 DEF SearchIsExact, Searching
  <2> QED
    BY <1>2, <1>4, <2>3, <2>4 DEF SearchInv, Searching
<1> QED
  BY <1>2, <1>3, <1>4

\* The text is saved: its chunks are the windows.
LEMMA SaveStep ==
  ASSUME RetrievalInv, NEW length \in TermLengths, NEW first \in 0 .. request.length - length,
         Save(first, length)
  PROVE  (CorpusInv /\ SearchInv)'
<1> DEFINE document ==
      [version |-> 1, chunks |-> chunks, hits |-> Holding(chunks, first, length)]
<1>1. request \in Requests /\ pc = "returned" /\ chunks = Windows(request)
  BY DEF RetrievalInv, ChunkInv, Save
<1>2. chunks \in Seq(Spans) /\ DOMAIN chunks \subseteq Nat
  BY <1>1, WindowsAreChunks DEF Spans
<1>3. Holding(chunks, first, length) \subseteq DOMAIN chunks
  BY DEF Holding
<1>4. document \in Documents
  <2> HIDE DEF Spans
  <2> QED
    BY <1>2, <1>3 DEF Documents
<1>5. Put(Text, document) /\ Text \in Docs
  BY DEF Save, Docs
<1> HIDE DEF document
<1>6. corpus' \in Corpora /\ corpus'[Text] = document /\ SearchInv'
  BY <1>4, <1>5, PutStep DEF RetrievalInv
<1>7. pc' = pc /\ request' = request
  BY <1>5 DEF Put, chunkVars
<1> QED
  BY <1>1, <1>6, <1>7 DEF CorpusInv, document

\* The other document is saved.
LEMMA SaveOtherStep ==
  ASSUME RetrievalInv, NEW hits \in SUBSET {1}, SaveOther(hits)
  PROVE  (CorpusInv /\ SearchInv)'
<1> DEFINE span == [index |-> 0, start_char |-> 0, end_char |-> 2]
           document == [version |-> corpus[Other].version + 1, hits |-> hits, chunks |-> <<span>>]
<1>1. corpus[Other].version \in Nat
  BY DEF RetrievalInv, CorpusInv, Corpora, Documents, Docs
<1>2. span \in Spans
  BY DEF Spans
<1>3. Put(Other, document) /\ Other \in Docs
  BY DEF SaveOther, Docs
<1> HIDE DEF span
<1>4. <<span>> \in Seq(Spans) /\ DOMAIN <<span>> = {1}
  BY <1>2
<1>5. document \in Documents
  BY <1>1, <1>4 DEF Documents
<1> HIDE DEF document
<1>6. corpus' \in Corpora /\ SearchInv' /\ corpus'[Text] = corpus[Text]
  BY <1>3, <1>5, PutStep DEF RetrievalInv, Text, Other
<1>7. pc' = pc /\ request' = request
  BY <1>3 DEF Put, chunkVars
<1> QED
  BY <1>6, <1>7 DEF RetrievalInv, CorpusInv

\* A document is deleted.
LEMMA DeleteStep ==
  ASSUME RetrievalInv, NEW d \in Docs, Delete(d)
  PROVE  (CorpusInv /\ SearchInv)'
<1>1. Put(d, Absent)
  BY DEF Delete
<1>2. corpus' \in Corpora /\ corpus'[d] = Absent /\ SearchInv'
      /\ (d # Text => corpus'[Text] = corpus[Text])
  BY <1>1, AbsentDocument, PutStep DEF RetrievalInv
<1>3. pc' = pc /\ request' = request
  BY <1>1 DEF Put, chunkVars
<1> QED
  BY <1>2, <1>3 DEF RetrievalInv, CorpusInv

\* The steps of the search leave the documents and the call of chunk alone.
LEMMA SetKeepsCorpus ==
  ASSUME RetrievalInv, NEW changed, Set(changed)
  PROVE  CorpusInv' /\ search' = changed /\ corpus' = corpus
BY DEF RetrievalInv, CorpusInv, Set, chunkVars

\* A search is authorized or denied.
LEMMA AuthorizeStep ==
  ASSUME RetrievalInv, NEW permissions \in Permissions, NEW options \in Options,
         Authorize(permissions, options)
  PROVE  (CorpusInv /\ SearchInv)'
<1> DEFINE next == IF Permitted(permissions) THEN "count" ELSE "denied"
           changed == [Idle EXCEPT !.pc = next, !.options = options, !.seen = {corpus}]
<1>1. CorpusInv' /\ search' = changed /\ corpus' = corpus
  BY SetKeepsCorpus DEF Authorize
<1>2. next \in {"count", "denied"}
  OBVIOUS
<1> HIDE DEF next
<1>3. /\ DOMAIN changed = SearchFields /\ changed.pc = next /\ changed.options = options
      /\ changed.seen = {corpus}
  BY DEF Idle, SearchFields
<1> HIDE DEF changed
<1>4. SearchIsExact'
  BY <1>1, <1>2, <1>3 DEF SearchIsExact
<1> QED
  BY <1>1, <1>2, <1>3, <1>4 DEF SearchInv, Searching

\* The documents are counted: too many are refused, and otherwise the corpus that
\* was counted is the one that will be ranked.
LEMMA CountStep ==
  ASSUME RetrievalInv, CountDocuments
  PROVE  (CorpusInv /\ SearchInv)'
<1>0. /\ DOMAIN search = SearchFields /\ search.pc = "count" /\ corpus \in search.seen
      /\ search.options \in Options /\ corpus \in Corpora
  BY DEF RetrievalInv, SearchInv, CorpusInv, CountDocuments, Searching
<1>1. CASE Crowded(corpus, search.options)
  <2>1. CorpusInv' /\ search' = [search EXCEPT !.pc = "limit"]
    BY <1>1, SetKeepsCorpus DEF CountDocuments, Crowded
  <2>2. /\ DOMAIN search' = SearchFields /\ search'.pc = "limit"
        /\ search'.options = search.options /\ search'.seen = search.seen
    BY <1>0, <2>1 DEF SearchFields
  <2>3. SearchIsExact'
    BY <1>0, <1>1, <2>2 DEF SearchIsExact, Crowded
  <2> QED
    BY <1>0, <2>1, <2>2, <2>3 DEF SearchInv, Searching
<1>2. CASE ~Crowded(corpus, search.options)
  <2>1. CorpusInv' /\ search' = [search EXCEPT !.pc = "load", !.snapshot = corpus]
        /\ corpus' = corpus
    BY <1>2, SetKeepsCorpus DEF CountDocuments, Crowded
  <2>2. /\ DOMAIN search' = SearchFields /\ search'.pc = "load" /\ search'.snapshot = corpus
        /\ search'.options = search.options /\ search'.seen = search.seen
    BY <1>0, <2>1 DEF SearchFields
  <2>3. SearchIsExact'
    BY <2>2 DEF SearchIsExact
  <2> QED
    BY <1>0, <1>2, <2>1, <2>2, <2>3 DEF SearchInv, Searching
<1> QED
  BY <1>1, <1>2

\* The rows are loaded in the transaction that counted them.
LEMMA LoadStep ==
  ASSUME RetrievalInv, LoadDocuments
  PROVE  (CorpusInv /\ SearchInv)'
<1>0. /\ DOMAIN search = SearchFields /\ search.pc = "load" /\ corpus \in search.seen
      /\ search.options \in Options
      /\ search.snapshot \in search.seen /\ search.snapshot \in Corpora
      /\ ~Crowded(search.snapshot, search.options)
  BY DEF RetrievalInv, SearchInv, LoadDocuments, Searching
<1>1. CorpusInv' /\ search' = [search EXCEPT !.pc = "rank", !.snapshot = search.snapshot]
      /\ corpus' = corpus
  BY SetKeepsCorpus DEF LoadDocuments, Loaded
<1>2. /\ DOMAIN search' = SearchFields /\ search'.pc = "rank"
      /\ search'.snapshot = search.snapshot
      /\ search'.options = search.options /\ search'.seen = search.seen
  BY <1>0, <1>1 DEF SearchFields
<1>3. SearchIsExact'
  BY <1>2 DEF SearchIsExact
<1> QED
  BY <1>0, <1>1, <1>2, <1>3 DEF SearchInv, Searching

\* The passages are ranked, cut and measured: the answer, or the refusal, is right
\* for the corpus that was counted.
LEMMA RankStep ==
  ASSUME RetrievalInv, NEW scores \in [Matches(search.snapshot) -> Scores], Rank(scores)
  PROVE  (CorpusInv /\ SearchInv)'
<1> DEFINE c == search.snapshot
           options == search.options
           ranked == Ranked(Matches(c), scores)
           selected == Selected(ranked, options)
<1>0. /\ DOMAIN search = SearchFields /\ search.pc = "rank" /\ options \in Options
      /\ c \in search.seen /\ c \in Corpora /\ ~Crowded(c, options)
  BY DEF RetrievalInv, SearchInv, Rank
<1>1. /\ IsBest(c, selected, scores, options.top_k) /\ ResultValid(selected, options)
      /\ TooLong(c, scores, options) <=> ~Admitted(c, ranked, options)
  BY <1>0, AnswerIsBest
<1>2. DOMAIN scores = Matches(c)
  OBVIOUS
<1>3. CASE ~Admitted(c, ranked, options)
  <2>1. CorpusInv' /\ search' = [search EXCEPT !.pc = "limit", !.scores = scores]
    BY <1>3, SetKeepsCorpus DEF Rank
  <2>2. /\ DOMAIN search' = SearchFields /\ search'.pc = "limit" /\ search'.scores = scores
        /\ search'.options = options /\ search'.seen = search.seen
    BY <1>0, <2>1 DEF SearchFields
  <2> HIDE DEF c, options, ranked, selected
  <2>3. SearchIsExact'
    BY <1>0, <1>1, <1>2, <1>3, <2>2 DEF SearchIsExact
  <2> QED
    BY <1>0, <2>1, <2>2, <2>3 DEF SearchInv, Searching
<1>4. CASE Admitted(c, ranked, options)
  <2>1. /\ CorpusInv'
        /\ search' = [search EXCEPT !.pc = "returned", !.scores = scores, !.passages = selected]
    BY <1>1, <1>4, SetKeepsCorpus DEF Rank
  <2> HIDE DEF selected
  <2>2. /\ DOMAIN search' = SearchFields /\ search'.pc = "returned" /\ search'.scores = scores
        /\ search'.options = options /\ search'.seen = search.seen
        /\ search'.passages = selected
    BY <1>0, <2>1 DEF SearchFields
  <2> HIDE DEF c, options, ranked
  <2>3. SearchIsExact'
    BY <1>0, <1>1, <1>2, <1>4, <2>2 DEF SearchIsExact, Crowded
  <2> QED
    BY <1>0, <2>1, <2>2, <2>3 DEF SearchInv, Searching
<1> QED
  BY <1>3, <1>4

\* The steps of a call of chunk end before the text is there.
LEMMA ChunkingStep ==
  ASSUME RetrievalInv, Next, UNCHANGED <<corpus, search>>
  PROVE  (CorpusInv /\ SearchInv)'
<1>1. pc # "returned"
  BY DEF Next, Split, Check, Loop, Return
<1>2. corpus[Text] = Absent /\ corpus' = corpus /\ search' = search
  BY <1>1 DEF RetrievalInv, CorpusInv
<1> QED
  BY <1>2 DEF RetrievalInv, CorpusInv, SearchInv, Searching, SearchIsExact

\* Every step of the composition preserves the invariant.
LEMMA RetrievalStep ==
  ASSUME RetrievalInv, [SearchNext]_searchVars
  PROVE  RetrievalInv'
<1>1. ChunkInv'
  BY ChunkStep, SearchStepsChunk DEF RetrievalInv
<1>2. CASE Next /\ UNCHANGED <<corpus, search>>
  BY <1>1, <1>2, ChunkingStep DEF RetrievalInv
<1>3. CASE \E length \in TermLengths :
             \E first \in 0 .. request.length - length : Save(first, length)
  BY <1>1, <1>3, SaveStep DEF RetrievalInv
<1>4. CASE \E hits \in SUBSET {1} : SaveOther(hits)
  BY <1>1, <1>4, SaveOtherStep DEF RetrievalInv
<1>5. CASE \E d \in Docs : Delete(d)
  BY <1>1, <1>5, DeleteStep DEF RetrievalInv
<1>6. CASE \E permissions \in Permissions, options \in Options : Authorize(permissions, options)
  BY <1>1, <1>6, AuthorizeStep DEF RetrievalInv
<1>7. CASE CountDocuments \/ LoadDocuments
  BY <1>1, <1>7, CountStep, LoadStep DEF RetrievalInv
<1>8. CASE \E scores \in [Matches(search.snapshot) -> Scores] : Rank(scores)
  BY <1>1, <1>8, RankStep DEF RetrievalInv
<1>9. CASE UNCHANGED searchVars
  <2>1. UNCHANGED <<request, pc, corpus, search>>
    BY <1>9 DEF searchVars
  <2> QED
    BY <1>1, <2>1 DEF RetrievalInv, CorpusInv, SearchInv, Searching, SearchIsExact
<1> QED
  BY <1>2, <1>3, <1>4, <1>5, <1>6, <1>7, <1>8, <1>9 DEF SearchNext

\* The invariant holds in every state of a text's way to a search.
THEOREM RetrievalInductive == SearchSpec => []RetrievalInv
<1>1. SearchInit => RetrievalInv
  <2> SUFFICES ASSUME SearchInit PROVE RetrievalInv
    OBVIOUS
  <2>1. ChunkInv
    BY DEF SearchInit, Init, ChunkInv
  <2>2. corpus \in Corpora /\ corpus[Text] = Absent
    BY AbsentDocument DEF SearchInit, Corpora, Docs
  <2>3. DOMAIN search = SearchFields /\ search.pc = "idle"
    BY DEF SearchInit, Idle, SearchFields
  <2>4. SearchIsExact
    BY <2>3 DEF SearchIsExact
  <2> QED
    BY <2>1, <2>2, <2>3, <2>4 DEF RetrievalInv, CorpusInv, SearchInv, Searching
<1>2. RetrievalInv /\ [SearchNext]_searchVars => RetrievalInv'
  BY RetrievalStep
<1> QED
  BY <1>1, <1>2, PTL DEF SearchSpec

\* A search answers exactly, or refuses rightly, for one corpus that was current
\* while it ran: for every corpus, every score and all options.
THEOREM SearchesAreExact == SearchSpec => []SearchIsExact
<1>1. RetrievalInv => SearchIsExact
  BY DEF RetrievalInv, SearchInv
<1> QED
  BY <1>1, RetrievalInductive, PTL

\* The saved chunks hold every term no longer than the overlap and one character:
\* for every text and all options.
THEOREM TermsAreFound == SearchSpec => []TermIsFound
<1>1. RetrievalInv => TermIsFound
  <2> SUFFICES ASSUME RetrievalInv,
                      NEW first \in 0 .. request.length - 1,
                      NEW length \in 1 .. request.overlap + 1,
                      corpus[Text] # Absent, first + length <= request.length
               PROVE  Holding(corpus[Text].chunks, first, length) # {}
    BY DEF TermIsFound
  <2>1. request \in Requests /\ corpus[Text].chunks = Windows(request)
    BY DEF RetrievalInv, ChunkInv, CorpusInv
  <2>2. request.length \in Nat /\ request.overlap \in Nat
    BY <2>1, RequestTypes
  <2>3. first \in Nat /\ length \in Nat /\ length <= request.overlap + 1
    BY <2>2
  <2>4. PICK i \in 1 .. Count(request) :
          /\ Windows(request)[i].start_char <= first
          /\ first + length <= Windows(request)[i].end_char
    BY <2>1, <2>3, TermInWindow
  <2>5. DOMAIN Windows(request) = 1 .. Count(request)
    BY <2>1, WindowsAreChunks
  <2> QED
    BY <2>1, <2>4, <2>5 DEF Holding
<1> QED
  BY <1>1, RetrievalInductive, PTL

=============================================================================
