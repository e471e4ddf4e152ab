----------------------------- MODULE ObjectProofs -----------------------------
(***************************************************************************)
(* An object of the server is its file, whole and under its name.          *)
(*                                                                         *)
(* First ChunkedUpload, how the bytes get there: the chunk arithmetic for  *)
(* every file size, chunk size and limit; type correctness; and that the   *)
(* object, the jobs called mirrored and the refusals are what the upload   *)
(* promises.                                                               *)
(*                                                                         *)
(* Then FileRoute, how a name of the camera becomes a path of the disk and *)
(* a URL of the server: what percent-coding, joining and the server's      *)
(* decoding do to a sequence of segments, which names are taken, and the   *)
(* invariant by which every file keeps its name on every leg of the way.   *)
(***************************************************************************)
EXTENDS FileRoute, ChunkedUpload, CountingProofs, SequenceTheorems

-----------------------------------------------------------------------------
(* Chunk arithmetic.                                                       *)

LEMMA DoubledExists == \E d : d = [k \in Nat |-> IF k = 0 THEN CHUNK_SIZE ELSE 2 * d[k - 1]]
<1> DEFINE Upto(n, h) == h = [k \in 0..n |-> IF k = 0 THEN CHUNK_SIZE ELSE 2 * h[k - 1]]
           Missing == {n \in Nat : ~\E h : Upto(n, h)}
<1>1. Missing = {}
  <2> SUFFICES ASSUME Missing # {} PROVE FALSE
    OBVIOUS
  <2>1. Missing \in SUBSET Nat OBVIOUS
  <2>2. PICK m \in Missing : \A k \in Missing : m <= k
    <3> HIDE DEF Missing
    <3> QED BY <2>1, LeastExists
  <2>3. m \in Nat /\ ~\E h : Upto(m, h) OBVIOUS
  <2>4. m # 0
    <3> SUFFICES \E h : Upto(0, h) BY <2>3
    <3> DEFINE h == [k \in 0..0 |-> CHUNK_SIZE]
    <3>1. Upto(0, h) OBVIOUS
    <3> QED BY <3>1
  <2>5. m - 1 \in Nat /\ m - 1 \notin Missing
    <3>1. m - 1 \in Nat BY <2>3, <2>4
    <3>2. ~(m <= m - 1) BY <2>3
    <3> HIDE DEF Missing
    <3> QED BY <2>2, <3>1, <3>2
  <2>6. PICK h : Upto(m - 1, h) BY <2>5
  <2> DEFINE g == [k \in 0..m |-> IF k = 0 THEN CHUNK_SIZE ELSE 2 * h[k - 1]]
  <2>7. \A k \in 0..m : k # 0 => k - 1 \in 0..(m - 1) /\ k - 1 \in 0..m BY <2>3
  <2>8. \A k \in 0..(m - 1) : g[k] = h[k] /\ k \in 0..m
    <3> TAKE k \in 0..(m - 1)
    <3>1. k \in 0..m BY <2>3
    <3>2. h[k] = IF k = 0 THEN CHUNK_SIZE ELSE 2 * h[k - 1] BY <2>6
    <3>3. g[k] = IF k = 0 THEN CHUNK_SIZE ELSE 2 * h[k - 1] BY <3>1
    <3> QED BY <3>1, <3>2, <3>3
  <2>9. Upto(m, g)
    <3>1. \A k \in 0..m : k # 0 => h[k - 1] = g[k - 1] BY <2>7, <2>8
    <3>2. g = [k \in 0..m |-> IF k = 0 THEN CHUNK_SIZE ELSE 2 * h[k - 1]] OBVIOUS
    <3> HIDE DEF g
    <3> QED BY <3>1, <3>2
  <2> QED BY <2>3, <2>9
<1>2. ASSUME NEW n \in Nat, NEW m \in Nat, NEW h, NEW g, Upto(n, h), Upto(m, g), n <= m
      PROVE  \A k \in 0..n : h[k] = g[k]
  <2> DEFINE Wrong == {k \in 0..n : h[k] # g[k]}
  <2> SUFFICES ASSUME Wrong # {} PROVE FALSE
    OBVIOUS
  <2>1. Wrong \in SUBSET Nat OBVIOUS
  <2>2. PICK k \in Wrong : \A l \in Wrong : k <= l
    <3> HIDE DEF Wrong
    <3> QED BY <2>1, LeastExists
  <2>3. k \in 0..n /\ k \in 0..m /\ h[k] # g[k] BY <1>2
  <2>4. h[k] = IF k = 0 THEN CHUNK_SIZE ELSE 2 * h[k - 1] BY <1>2, <2>3
  <2>5. g[k] = IF k = 0 THEN CHUNK_SIZE ELSE 2 * g[k - 1] BY <1>2, <2>3
  <2>6. k # 0 BY <2>3, <2>4, <2>5
  <2>7. k - 1 \in 0..n /\ ~(k <= k - 1) BY <2>3, <2>6
  <2>8. h[k - 1] = g[k - 1] BY <2>2, <2>7
  <2> QED BY <2>3, <2>4, <2>5, <2>8
<1> DEFINE H(n) == CHOOSE h : Upto(n, h)
           d == [k \in Nat |-> H(k)[k]]
<1>3. \A n \in Nat : Upto(n, H(n)) BY <1>1
<1> HIDE DEF H
<1>4. \A k \in Nat : k # 0 => H(k)[k - 1] = H(k - 1)[k - 1]
  <2> SUFFICES ASSUME NEW k \in Nat, k # 0 PROVE H(k)[k - 1] = H(k - 1)[k - 1]
    OBVIOUS
  <2>1. k - 1 \in Nat /\ k - 1 <= k /\ k - 1 \in 0..(k - 1) OBVIOUS
  <2>2. Upto(k, H(k)) /\ Upto(k - 1, H(k - 1)) BY <1>3, <2>1
  <2> HIDE DEF Upto
  <2> QED BY <1>2, <2>1, <2>2
<1>5. \A k \in Nat : H(k)[k] = IF k = 0 THEN CHUNK_SIZE ELSE 2 * H(k)[k - 1]
  <2> TAKE k \in Nat
  <2>1. k \in 0..k OBVIOUS
  <2>2. H(k) = [l \in 0..k |-> IF l = 0 THEN CHUNK_SIZE ELSE 2 * H(k)[l - 1]] BY <1>3
  <2> QED BY <2>1, <2>2
<1>6. \A k \in Nat : k # 0 => k - 1 \in Nat /\ d[k - 1] = H(k - 1)[k - 1] OBVIOUS
<1>7. d = [k \in Nat |-> IF k = 0 THEN CHUNK_SIZE ELSE 2 * d[k - 1]]
  <2>1. \A k \in Nat : H(k)[k] = IF k = 0 THEN CHUNK_SIZE ELSE 2 * d[k - 1]
    <3> HIDE DEF d
    <3> QED BY <1>4, <1>5, <1>6
  <2>2. d = [k \in Nat |-> H(k)[k]] OBVIOUS
  <2> HIDE DEF d
  <2> QED BY <2>1, <2>2
<1> QED BY <1>7

\* The loop's sizes pass every bound.
LEMMA DoubledGrows == \A k \in Nat : Doubled[k] \in Nat /\ k < Doubled[k]
<1>1. Doubled = [k \in Nat |-> IF k = 0 THEN CHUNK_SIZE ELSE 2 * Doubled[k - 1]]
  BY DoubledExists DEF Doubled
<1> DEFINE Right(k) == Doubled[k] \in Nat /\ k < Doubled[k]
           Wrong == {k \in Nat : ~Right(k)}
<1>2. Right(0)
  <2>1. Doubled[0] = CHUNK_SIZE BY <1>1
  <2> QED BY <2>1, LimitsAssumption
<1>3. ASSUME NEW k \in Nat, k # 0, Right(k - 1) PROVE Right(k)
  <2>1. Doubled[k] = 2 * Doubled[k - 1] BY <1>1, <1>3
  <2>2. \A d \in Nat : k - 1 < d => 2 * d \in Nat /\ k < 2 * d BY <1>3
  <2> QED BY <1>3, <2>1, <2>2
<1>4. Wrong = {}
  <2> SUFFICES ASSUME Wrong # {} PROVE FALSE
    OBVIOUS
  <2>1. Wrong \in SUBSET Nat OBVIOUS
  <2>2. PICK k \in Wrong : \A l \in Wrong : k <= l
    <3> HIDE DEF Wrong
    <3> QED BY <2>1, LeastExists
  <2> HIDE DEF Right
  <2>3. k \in Nat /\ ~Right(k) OBVIOUS
  <2>4. k # 0 BY <1>2, <2>3
  <2>5. k - 1 \in Nat /\ ~(k <= k - 1) BY <2>3, <2>4
  <2>6. Right(k - 1) BY <2>2, <2>5
  <2> QED BY <1>3, <2>3, <2>4, <2>6
<1> QED BY <1>4

\* A rounded quotient is the number of pieces that a file takes.
LEMMA DivCeilCovers ==
  ASSUME NEW a \in Nat, NEW c \in Nat, c # 0
  PROVE  /\ DivCeil(a, c) \in Nat
         /\ DivCeil(a, c) = 0 <=> a = 0
         /\ a <= DivCeil(a, c) * c
         /\ a # 0 => (DivCeil(a, c) - 1) * c < a
         /\ a <= c => DivCeil(a, c) <= 1
BY DEF DivCeil

\* The loop ends, with chunks that are few enough.
LEMMA PickedChunkSize ==
  ASSUME NEW total \in Nat
  PROVE  /\ PickChunkSize(total) \in Nat /\ PickChunkSize(total) # 0
         /\ DivCeil(total, PickChunkSize(total)) <= MAX_CHUNKS
<1> DEFINE Least(k) == /\ FewEnough(total, k)
                       /\ \A l \in 0..(k - 1) : ~FewEnough(total, l)
           Enough == {k \in Nat : FewEnough(total, k)}
<1>1. total \in Enough
  <2>1. Doubled[total] \in Nat /\ total <= Doubled[total] /\ Doubled[total] # 0 BY DoubledGrows
  <2>2. DivCeil(total, Doubled[total]) <= 1 /\ DivCeil(total, Doubled[total]) \in Nat
    BY <2>1, DivCeilCovers
  <2>3. \A q \in Nat : q <= 1 => q <= MAX_CHUNKS BY LimitsAssumption
  <2> QED BY <2>2, <2>3 DEF FewEnough
<1>2. PICK m \in Enough : \A k \in Enough : m <= k
  <2>1. Enough \in SUBSET Nat OBVIOUS
  <2> HIDE DEF Enough
  <2> QED BY <1>1, <2>1, LeastExists
<1>3. m \in 0..total
  <2>1. m <= total BY <1>1, <1>2
  <2> QED BY <2>1
<1>4. Least(m)
  <2>1. \A l \in 0..(m - 1) : l \in Nat /\ ~(m <= l) OBVIOUS
  <2> QED BY <1>2, <2>1
<1> DEFINE k == CHOOSE k \in 0..total : Least(k)
<1>5. k \in 0..total /\ Least(k)
  <2> HIDE DEF Least
  <2> QED BY <1>3, <1>4
<1>6. PickChunkSize(total) = Doubled[k] BY DEF PickChunkSize
<1> HIDE DEF k
<1>7. k \in Nat BY <1>5
<1>8. Doubled[k] \in Nat /\ Doubled[k] # 0 BY <1>7, DoubledGrows
<1> QED BY <1>5, <1>6, <1>8 DEF FewEnough


LEMMA ChunksInLimit ==
  ASSUME NEW total \in Nat
  PROVE  /\ NumChunks(total) \in 1..MAX_CHUNKS
         /\ total <= NumChunks(total) * PickChunkSize(total)
         /\ (NumChunks(total) - 1) * PickChunkSize(total) <= total
         /\ total # 0 => (NumChunks(total) - 1) * PickChunkSize(total) < total
<1> DEFINE c == PickChunkSize(total)
           q == DivCeil(total, c)
<1>1. c \in Nat /\ c # 0 /\ q <= MAX_CHUNKS BY PickedChunkSize
<1>2. NumChunks(total) = IF q = 0 THEN 1 ELSE q BY DEF NumChunks
<1> HIDE DEF c
<1>3. /\ q \in Nat
      /\ q = 0 <=> total = 0
      /\ total <= q * c
      /\ total # 0 => (q - 1) * c < total
  BY <1>1, DivCeilCovers
<1> HIDE DEF q
<1>4. NumChunks(total) \in 1..MAX_CHUNKS
  <2>1. MAX_CHUNKS \in Nat /\ 1 <= MAX_CHUNKS BY LimitsAssumption
  <2> QED BY <1>1, <1>2, <1>3, <2>1
<1>5. CASE total = 0
  <2>1. NumChunks(total) = 1 BY <1>2, <1>3, <1>5
  <2>2. \A a \in Nat : 0 <= 1 * a /\ (1 - 1) * a <= 0 OBVIOUS
  <2> QED BY <1>1, <1>4, <1>5, <2>1, <2>2 DEF c
<1>6. CASE total # 0
  <2>1. NumChunks(total) = q BY <1>2, <1>3, <1>6
  <2>2. (q - 1) * c \in Int BY <1>1, <1>3
  <2>3. (q - 1) * c <= total BY <1>3, <1>6, <2>2
  <2> QED BY <1>3, <1>4, <1>6, <2>1, <2>3 DEF c
<1> QED BY <1>5, <1>6

\* Where the chunks before a place end.
Ladder(total, k) == IF k < NumChunks(total) THEN k * PickChunkSize(total) ELSE total

\* The chunks tile the file, and only an empty file has an empty one.
LEMMA ChunksTile ==
  ASSUME NEW total \in Nat
  PROVE  /\ Ladder(total, 0) = 0
         /\ \A k \in Nat : Ladder(total, k) \in Nat /\ Ladder(total, k) <= total
         /\ \A k \in Nat : k < NumChunks(total) =>
              /\ ChunkLen(total, k + 1) \in 0..total
              /\ Ladder(total, k) + ChunkLen(total, k + 1) = Ladder(total, k + 1)
              /\ total # 0 => ChunkLen(total, k + 1) # 0
         /\ \A k \in Nat : k >= NumChunks(total) => Ladder(total, k) = total
<1> DEFINE c == PickChunkSize(total)
           n == NumChunks(total)
<1>1. c \in Nat /\ c # 0 BY PickedChunkSize
<1>2. n \in Nat /\ 1 <= n /\ total <= n * c /\ (n - 1) * c <= total
      /\ (total # 0 => (n - 1) * c < total)
  BY ChunksInLimit
<1>3. \A k \in Nat : Ladder(total, k) = IF k < n THEN k * c ELSE total BY DEF Ladder
<1>4. \A i : ChunkLen(total, i) = IF total - (i - 1) * c < c THEN total - (i - 1) * c ELSE c
  BY DEF ChunkLen, Offset
<1> HIDE DEF c, n
<1>5. ASSUME NEW k \in Nat, k < n PROVE k * c \in Nat /\ k * c <= (n - 1) * c
  BY <1>1, <1>2, <1>5
<1>6. ASSUME NEW k \in Nat, k + 1 < n PROVE (k + 1) * c = k * c + c /\ k * c + c <= (n - 1) * c
  <2>1. (k + 1) * c <= (n - 1) * c BY <1>2, <1>5, <1>6
  <2>2. (k + 1) * c = k * c + c BY <1>1
  <2> QED BY <2>1, <2>2
<1>7. (n - 1) * c \in Nat /\ n * c = (n - 1) * c + c BY <1>1, <1>2
<1>8. ASSUME NEW k \in Nat, k < n
      PROVE  /\ ChunkLen(total, k + 1) \in 0..total
             /\ Ladder(total, k) + ChunkLen(total, k + 1) = Ladder(total, k + 1)
             /\ total # 0 => ChunkLen(total, k + 1) # 0
  <2>1. k + 1 \in Nat /\ (k + 1) - 1 = k OBVIOUS
  <2>2. ChunkLen(total, k + 1) = IF total - k * c < c THEN total - k * c ELSE c BY <1>4, <2>1
  <2>3. Ladder(total, k) = k * c BY <1>3, <1>8
  <2>4. CASE k + 1 < n
    <3>1. Ladder(total, k + 1) = k * c + c BY <1>3, <1>6, <2>1, <2>4
    <3>2. k * c + c <= total /\ k * c \in Nat BY <1>1, <1>2, <1>5, <1>6, <1>7, <1>8, <2>4
    <3>3. ChunkLen(total, k + 1) = c BY <1>1, <2>2, <3>2
    <3> QED BY <1>1, <2>3, <3>1, <3>2, <3>3
  <2>5. CASE ~(k + 1 < n)
    <3>1. k = n - 1 BY <1>2, <1>8, <2>5
    <3>2. Ladder(total, k + 1) = total BY <1>3, <2>1, <2>5
    <3> DEFINE b == k * c
    <3>3. b \in Nat /\ b <= total /\ total <= b + c /\ (total # 0 => b < total)
      BY <1>2, <1>7, <3>1
    <3> HIDE DEF b
    <3>4. ChunkLen(total, k + 1) = total - b
      <4>1. ChunkLen(total, k + 1) = IF total - b < c THEN total - b ELSE c BY <2>2 DEF b
      <4> QED BY <1>1, <3>3, <4>1
    <3>5. Ladder(total, k) = b BY <2>3 DEF b
    <3> QED BY <3>2, <3>3, <3>4, <3>5
  <2> QED BY <2>4, <2>5
<1>9. ASSUME NEW k \in Nat PROVE Ladder(total, k) \in Nat /\ Ladder(total, k) <= total
  <2>1. CASE k < n BY <1>2, <1>3, <1>5, <1>7, <2>1
  <2>2. CASE ~(k < n) BY <1>3, <2>2
  <2> QED BY <2>1, <2>2
<1>10. Ladder(total, 0) = 0 BY <1>1, <1>2, <1>3
<1>11. ASSUME NEW k \in Nat, k >= n PROVE Ladder(total, k) = total BY <1>2, <1>3, <1>11
<1> QED BY <1>8, <1>9, <1>10, <1>11 DEF n


-----------------------------------------------------------------------------
(* What the chunks of a directory make.                                    *)

Held == [Parts -> Chunk \cup {NoChunk}]

\* A directory in which every chunk is a part of the file of the job.
OwnOf(j, d) ==
  \A i \in Parts : d[i] # NoChunk =>
    /\ i <= NumChunks(Total[j])
    /\ d[i].of = j
    /\ d[i].len <= ChunkLen(Total[j], i)

Complete(j, d) == \A i \in 1..NumChunks(Total[j]) : d[i] = FullChunk(j, i)

LEMMA SizesAreNumbers ==
  /\ \A j \in Jobs : Total[j] \in Nat
  /\ \A len \in Lengths : len \in Nat
  /\ \A j \in Jobs : \A len \in 0..Total[j] : len \in Lengths
<1>1. \A j \in Jobs : Total[j] \in Nat BY FilesAssumption
<1>2. ASSUME NEW len \in Lengths PROVE len \in Nat
  <2>1. PICK j \in Jobs : len \in 0..Total[j] BY DEF Lengths
  <2> QED BY <2>1
<1> QED BY <1>1, <1>2 DEF Lengths

\* The parts of a file are among the places of a directory.
LEMMA PartsOfAFile ==
  ASSUME NEW j \in Jobs
  PROVE  /\ NumChunks(Total[j]) \in Nat /\ 1 <= NumChunks(Total[j])
         /\ NumChunks(Total[j]) <= MAX_CHUNKS /\ MAX_CHUNKS \in Nat
         /\ \A i \in 1..NumChunks(Total[j]) :
              /\ i \in Parts /\ i + 1 \in Parts
              /\ ChunkLen(Total[j], i) \in 0..Total[j]
              /\ FullChunk(j, i) \in Chunk /\ FullChunk(j, i) # NoChunk
<1>1. Total[j] \in Nat BY SizesAreNumbers
<1>2. NumChunks(Total[j]) \in 1..MAX_CHUNKS BY <1>1, ChunksInLimit
<1>3. MAX_CHUNKS \in Nat BY LimitsAssumption
<1>4. ASSUME NEW i \in 1..NumChunks(Total[j])
      PROVE  /\ i \in Parts /\ i + 1 \in Parts
             /\ ChunkLen(Total[j], i) \in 0..Total[j]
             /\ FullChunk(j, i) \in Chunk /\ FullChunk(j, i) # NoChunk
  <2>1. i \in Parts /\ i + 1 \in Parts BY <1>2, <1>3 DEF Parts
  <2>2. i - 1 \in Nat /\ i - 1 < NumChunks(Total[j]) /\ (i - 1) + 1 = i BY <1>2
  <2>3. ChunkLen(Total[j], i) \in 0..Total[j] BY <1>1, <2>2, ChunksTile
  <2>4. FullChunk(j, i) \in Chunk BY <2>3, SizesAreNumbers DEF FullChunk, Chunk
  <2>5. NoChunk \notin Chunk BY NothingsAssumption
  <2> QED BY <2>1, <2>3, <2>4, <2>5
<1> QED BY <1>2, <1>3, <1>4

\* The length that each place of a directory gives to the object.
Lens(d) == [i \in Parts |-> IF i \in StoredParts(d) THEN d[i].len ELSE 0]

LEMMA LensOf ==
  ASSUME NEW d \in Held
  PROVE  /\ Lens(d) \in [Parts -> Nat]
         /\ Assembled(d).len = FoldFunction(+, 0, Lens(d))
<1>1. ASSUME NEW i \in Parts PROVE (IF i \in StoredParts(d) THEN d[i].len ELSE 0) \in Nat
  <2>1. CASE i \in StoredParts(d)
    <3>1. d[i] \in Chunk BY <2>1 DEF StoredParts, Held
    <3>2. d[i].len \in Lengths BY <3>1 DEF Chunk
    <3>3. d[i].len \in Nat BY <3>2, SizesAreNumbers
    <3> QED BY <2>1, <3>3
  <2>2. CASE i \notin StoredParts(d) BY <2>2
  <2> QED BY <2>1, <2>2
<1>2. Lens(d) \in [Parts -> Nat] BY <1>1 DEF Lens
<1>3. Assembled(d).len = FoldFunction(+, 0, Lens(d)) BY DEF Assembled, Lens
<1> QED BY <1>2, <1>3

LEMMA AssembledType == ASSUME NEW d \in Held PROVE Assembled(d) \in Object
<1>1. Lens(d) \in [Parts -> Nat] BY LensOf
<1>2. FoldFunction(+, 0, Lens(d)) \in Nat
  <2>1. IsFiniteSet(Parts) BY LimitsAssumption, FS_Interval DEF Parts
  <2>2. \E h \in [SUBSET Parts -> Nat] :
          /\ h[{}] = 0
          /\ \A s \in SUBSET Parts : \A x \in s : h[s] = Lens(d)[x] + h[s \ {x}]
          /\ h[Parts] = FoldFunction(+, 0, Lens(d))
    BY <1>1, <2>1, SumByOne
  <2>3. PICK h \in [SUBSET Parts -> Nat] : h[Parts] = FoldFunction(+, 0, Lens(d)) BY <2>2
  <2>4. h[Parts] \in Nat
    <3>1. Parts \in SUBSET Parts OBVIOUS
    <3> QED BY <3>1
  <2> QED BY <2>3, <2>4
<1>3. Assembled(d).len \in Nat BY <1>2, LensOf
<1> DEFINE Makes(j) == /\ StoredParts(d) = 1..NumChunks(Total[j])
                       /\ \A i \in StoredParts(d) : d[i] = FullChunk(j, i)
           of == IF \E j \in Jobs : Makes(j) THEN CHOOSE j \in Jobs : Makes(j) ELSE Mixed
<1>4. of \in Jobs \cup {Mixed}
  <2> HIDE DEF Makes
  <2> QED OBVIOUS
<1>5. Assembled(d) = [of |-> of, len |-> Assembled(d).len] BY DEF Assembled
<1> HIDE DEF of
<1> QED BY <1>3, <1>4, <1>5 DEF Object

\* A complete directory makes the whole file.
LEMMA CompleteMakesWhole ==
  ASSUME NEW j \in Jobs, NEW d \in Held, OwnOf(j, d), Complete(j, d)
  PROVE  Assembled(d).of = j
<1> DEFINE Makes(k) == /\ StoredParts(d) = 1..NumChunks(Total[k])
                       /\ \A i \in StoredParts(d) : d[i] = FullChunk(k, i)
<1>1. StoredParts(d) = 1..NumChunks(Total[j])
  <2>1. \A i \in 1..NumChunks(Total[j]) : i \in Parts /\ d[i] # NoChunk
    BY PartsOfAFile DEF Complete
  <2>2. \A i \in Parts : d[i] # NoChunk => i \in 1..NumChunks(Total[j])
    BY PartsOfAFile DEF OwnOf, Parts
  <2> QED BY <2>1, <2>2 DEF StoredParts
<1>2. Makes(j) BY <1>1 DEF Complete
<1>3. 1 \in StoredParts(d) BY <1>1, PartsOfAFile
<1>4. \A k \in Jobs : Makes(k) => k = j
  <2> SUFFICES ASSUME NEW k \in Jobs, Makes(k) PROVE k = j
    OBVIOUS
  <2>1. d[1] = FullChunk(j, 1) /\ d[1] = FullChunk(k, 1) BY <1>2, <1>3
  <2> QED BY <2>1 DEF FullChunk
<1>5. Assembled(d).of = IF \E k \in Jobs : Makes(k) THEN CHOOSE k \in Jobs : Makes(k) ELSE Mixed
  BY DEF Assembled
<1> HIDE DEF Makes
<1> QED BY <1>2, <1>4, <1>5

\* The chunks of one file sum to its size exactly when all of them are there in full.
LEMMA SumMakesWhole ==
  ASSUME NEW j \in Jobs, NEW d \in Held, OwnOf(j, d)
  PROVE  /\ Complete(j, d) => Assembled(d) = Whole(j)
         /\ Total[j] # 0 /\ Assembled(d).len = Total[j] => Assembled(d) = Whole(j)
<1> DEFINE total == Total[j]
           n == MAX_CHUNKS + 1
           ladder == [k \in 0..n |-> Ladder(total, k)]
           f == Lens(d)
<1>1. total \in Nat BY SizesAreNumbers
<1>2. n \in Nat /\ NumChunks(total) \in Nat /\ 1 <= NumChunks(total) /\ NumChunks(total) < n
  BY PartsOfAFile
<1>3. Parts = 1..n BY DEF Parts
<1>4. f \in [1..n -> Nat] BY <1>3, LensOf
<1>5. \A i \in 1..n : f[i] = IF d[i] # NoChunk THEN d[i].len ELSE 0
  BY <1>3 DEF Lens, StoredParts
<1>6. /\ Ladder(total, 0) = 0
      /\ \A k \in Nat : Ladder(total, k) \in Nat /\ Ladder(total, k) <= total
      /\ \A k \in Nat : k < NumChunks(total) =>
           /\ ChunkLen(total, k + 1) \in 0..total
           /\ Ladder(total, k) + ChunkLen(total, k + 1) = Ladder(total, k + 1)
           /\ total # 0 => ChunkLen(total, k + 1) # 0
      /\ \A k \in Nat : k >= NumChunks(total) => Ladder(total, k) = total
  BY <1>1, ChunksTile
<1> HIDE DEF f, n, total
<1>7. ladder \in [0..n -> Nat] /\ ladder[0] = 0 /\ ladder[n] = total
  <2>1. \A k \in 0..n : k \in Nat BY <1>2
  <2>2. 0 \in 0..n /\ n \in 0..n /\ n >= NumChunks(total) BY <1>2
  <2>3. ladder[0] = Ladder(total, 0) /\ ladder[n] = Ladder(total, n) BY <2>2
  <2>4. ladder \in [0..n -> Nat] BY <1>6, <2>1
  <2> QED BY <1>2, <1>6, <2>2, <2>3, <2>4
<1>8. \A k \in 0..(n - 1) :
        k \in Nat /\ k + 1 \in 1..n /\ ladder[k] = Ladder(total, k)
        /\ ladder[k + 1] = Ladder(total, k + 1)
  BY <1>2
<1> HIDE DEF ladder
<1>9. ASSUME NEW k \in 0..(n - 1), k < NumChunks(total)
      PROVE  /\ f[k + 1] <= ChunkLen(total, k + 1)
             /\ ladder[k] + f[k + 1] <= ladder[k + 1]
             /\ ladder[k] + f[k + 1] = ladder[k + 1] <=> f[k + 1] = ChunkLen(total, k + 1)
  <2>1. f[k + 1] \in Nat /\ ChunkLen(total, k + 1) \in Nat BY SMTT(40), <1>4, <1>6, <1>8, <1>9
  <2>2. f[k + 1] <= ChunkLen(total, k + 1)
    <3>1. CASE d[k + 1] # NoChunk
      <4>1. f[k + 1] = d[k + 1].len BY <1>5, <1>8, <3>1
      <4>2. d[k + 1].len <= ChunkLen(total, k + 1) BY <1>3, <1>8, <3>1 DEF OwnOf, total
      <4> QED BY <4>1, <4>2
    <3>2. CASE d[k + 1] = NoChunk BY <1>5, <1>8, <2>1, <3>2
    <3> QED BY <3>1, <3>2
  <2>3. ladder[k] \in Nat /\ ladder[k] + ChunkLen(total, k + 1) = ladder[k + 1]
    BY <1>6, <1>8, <1>9
  <2>4. \A a, b, c \in Nat : b <= c => a + b <= a + c /\ (a + b = a + c <=> b = c) OBVIOUS
  <2>5. ladder[k] + f[k + 1] <= ladder[k] + ChunkLen(total, k + 1)
        /\ (ladder[k] + f[k + 1] = ladder[k] + ChunkLen(total, k + 1)
              <=> f[k + 1] = ChunkLen(total, k + 1))
    BY <2>1, <2>2, <2>3, <2>4
  <2> QED BY <2>2, <2>3, <2>5
<1>10. ASSUME NEW k \in 0..(n - 1), k >= NumChunks(total)
       PROVE  ladder[k] + f[k + 1] = ladder[k + 1] /\ ladder[k + 1] \in Nat
  <2>1. ladder[k] = total /\ ladder[k + 1] = total
    <3>1. k + 1 \in Nat /\ k + 1 >= NumChunks(total) BY <1>2, <1>8, <1>10
    <3> QED BY <1>6, <1>8, <1>10, <3>1
  <2>2. d[k + 1] = NoChunk
    <3>1. ~(k + 1 <= NumChunks(total)) BY <1>2, <1>8, <1>10
    <3> QED BY <1>3, <1>8, <3>1 DEF OwnOf, total
  <2>3. f[k + 1] = 0 BY <1>5, <1>8, <2>2
  <2> QED BY <1>1, <2>1, <2>3
<1>11. \A k \in 0..(n - 1) : ladder[k] + f[k + 1] <= ladder[k + 1]
  <2> TAKE k \in 0..(n - 1)
  <2>1. CASE k < NumChunks(total) BY <1>9, <2>1
  <2>2. CASE k >= NumChunks(total)
    <3>1. ladder[k] + f[k + 1] = ladder[k + 1] /\ ladder[k + 1] \in Nat BY <1>10, <2>2
    <3> QED BY <3>1
  <2> QED BY <1>2, <1>8, <2>1, <2>2
<1>12. Assembled(d).len = total <=> \A k \in 0..(n - 1) : ladder[k] + f[k + 1] = ladder[k + 1]
  <2>1. Assembled(d).len = FoldFunction(+, 0, f) BY LensOf DEF f
  <2>2. FoldFunction(+, 0, f) = ladder[n]
          <=> \A k \in 0..(n - 1) : ladder[k] + f[k + 1] = ladder[k + 1]
    BY <1>2, <1>4, <1>7, <1>11, SumsWithin
  <2> QED BY <1>7, <2>1, <2>2
<1>13. ASSUME Complete(j, d) PROVE Assembled(d).len = total
  <2> SUFFICES ASSUME NEW k \in 0..(n - 1) PROVE ladder[k] + f[k + 1] = ladder[k + 1]
    BY <1>12
  <2>1. CASE k < NumChunks(total)
    <3>1. k + 1 \in 1..NumChunks(total) BY <1>2, <1>8, <2>1
    <3>2. d[k + 1] = FullChunk(j, k + 1) /\ d[k + 1] # NoChunk
      BY <1>13, <3>1, PartsOfAFile DEF Complete, total
    <3>3. f[k + 1] = ChunkLen(total, k + 1) BY <1>5, <1>8, <3>2 DEF FullChunk, total
    <3> QED BY <1>9, <2>1, <3>3
  <2>2. CASE k >= NumChunks(total) BY <1>10, <2>2
  <2> QED BY <1>2, <1>8, <2>1, <2>2
<1>14. ASSUME Complete(j, d) PROVE Assembled(d) = Whole(j)
  <2>1. Assembled(d).of = j BY <1>14, CompleteMakesWhole
  <2>2. Assembled(d).len = Total[j] BY <1>13, <1>14 DEF total
  <2>3. Assembled(d) = [of |-> Assembled(d).of, len |-> Assembled(d).len] BY DEF Assembled
  <2> QED BY <2>1, <2>2, <2>3 DEF Whole
<1>15. ASSUME total # 0, Assembled(d).len = total PROVE Complete(j, d)
  <2> SUFFICES ASSUME NEW i \in 1..NumChunks(total) PROVE d[i] = FullChunk(j, i)
    BY DEF Complete, total
  <2> DEFINE k == i - 1
  <2>1. k \in 0..(n - 1) /\ k < NumChunks(total) /\ k + 1 = i /\ k \in Nat BY <1>2
  <2> HIDE DEF k
  <2>2. ladder[k] + f[k + 1] = ladder[k + 1] BY <1>12, <1>15, <2>1
  <2>3. f[k + 1] = ChunkLen(total, k + 1) BY <1>9, <2>1, <2>2
  <2>4. f[i] = ChunkLen(total, i) /\ ChunkLen(total, i) # 0 BY <1>6, <1>15, <2>1, <2>3
  <2>5. i \in Parts /\ i \in 1..n BY <1>3, <1>8, <2>1
  <2>6. d[i] # NoChunk /\ d[i].len = ChunkLen(total, i) BY <1>5, <2>4, <2>5
  <2>7. d[i].of = j /\ d[i] \in Chunk BY <2>5, <2>6 DEF OwnOf, Held
  <2>8. d[i] = [of |-> d[i].of, len |-> d[i].len] BY <2>7 DEF Chunk
  <2> QED BY <2>6, <2>7, <2>8 DEF FullChunk, total
<1> QED BY <1>14, <1>15 DEF total


-----------------------------------------------------------------------------
(* Types.                                                                  *)

\* Which parts an attempt and a late request name: those of their file.
PartsInFile ==
  /\ \A j \in Jobs : up[j].at = "chunk" => up[j].part <= NumChunks(Total[j])
  /\ \A r \in late : r.kind = "chunk" => r.part <= NumChunks(Total[r.by])

TypeInv == TypeOK /\ PartsInFile

LEMMA FreshType ==
  /\ Fresh \in Upload
  /\ \A step \in Step : [Fresh EXCEPT !.at = step] \in Upload
  /\ \A step \in Step : [Fresh EXCEPT !.at = step].at = step
  /\ \A step \in Step : [Fresh EXCEPT !.at = step].part = 1
<1>1. 1 \in 1..(MAX_CHUNKS + 1) BY LimitsAssumption
<1>2. [i \in Parts |-> NoChunk] \in [Parts -> Lengths \cup {NoChunk}] OBVIOUS
<1>3. Fresh \in Upload BY <1>1, <1>2 DEF Fresh, Upload, Step
<1>4. \A u \in Upload : \A step \in Step :
        /\ [u EXCEPT !.at = step] \in Upload
        /\ [u EXCEPT !.at = step].at = step
        /\ [u EXCEPT !.at = step].part = u.part
  BY DEF Upload
<1> QED BY <1>3, <1>4 DEF Fresh

LEMMA GotoType ==
  ASSUME TypeInv, NEW j \in Jobs, NEW step \in Step, Goto(j, step)
  PROVE  /\ up' \in [Jobs -> Upload]
         /\ up'[j] = [Fresh EXCEPT !.at = step] /\ up'[j].at = step
         /\ \A k \in Jobs : k # j => up'[k] = up[k]
         /\ \A k \in Jobs : up'[k].at = "chunk" => up'[k].part <= NumChunks(Total[k])
<1>1. up' = [up EXCEPT ![j] = [Fresh EXCEPT !.at = step]] BY DEF Goto
<1>2. up \in [Jobs -> Upload] BY DEF TypeInv, TypeOK
<1> DEFINE u == [Fresh EXCEPT !.at = step]
<1>3. u \in Upload /\ u.at = step /\ u.part = 1 BY FreshType
<1> HIDE DEF u
<1>4. up' = [up EXCEPT ![j] = u] BY <1>1 DEF u
<1>5. up' \in [Jobs -> Upload] /\ up'[j] = u /\ \A k \in Jobs : k # j => up'[k] = up[k]
  BY <1>2, <1>3, <1>4
<1>6. ASSUME NEW k \in Jobs, up'[k].at = "chunk" PROVE up'[k].part <= NumChunks(Total[k])
  <2>1. CASE k = j
    <3>1. up'[k].part = 1 BY <1>3, <1>5, <2>1
    <3> QED BY <3>1, PartsOfAFile
  <2>2. CASE k # j BY <1>5, <1>6, <2>2 DEF TypeInv, PartsInFile
  <2> QED BY <2>1, <2>2
<1> QED BY <1>3, <1>5, <1>6 DEF u

LEMMA StoreType ==
  ASSUME TypeOK, NEW j \in Jobs, NEW i \in Parts, NEW chunk \in Chunk,
         Dir(j) # NoDir, StoreChunk(j, i, chunk)
  PROVE  /\ dir' \in [UploadIds -> Held \cup {NoDir}]
         /\ dir' = [dir EXCEPT ![UploadId(j)] = [Dir(j) EXCEPT ![i] = chunk]]
         /\ Dir(j) \in Held /\ [Dir(j) EXCEPT ![i] = chunk] \in Held
<1>1. dir \in [UploadIds -> Held \cup {NoDir}] BY DEF TypeOK, Held
<1>2. UploadId(j) \in UploadIds BY DEF UploadIds
<1>3. Dir(j) \in Held BY <1>1, <1>2 DEF Dir
<1>4. [Dir(j) EXCEPT ![i] = chunk] \in Held
  <2>1. \A d \in Held : [d EXCEPT ![i] = chunk] \in Held BY DEF Held
  <2> QED BY <1>3, <2>1
<1>5. dir' = [dir EXCEPT ![UploadId(j)] = [Dir(j) EXCEPT ![i] = chunk]]
  BY DEF StoreChunk, Dir
<1> QED BY <1>1, <1>2, <1>3, <1>4, <1>5

LEMMA AssembleType ==
  ASSUME TypeOK, NEW j \in Jobs, Dir(j) # NoDir, Assemble(j)
  PROVE  /\ dir' \in [UploadIds -> Held \cup {NoDir}]
         /\ object' = Assembled(Dir(j)) /\ object' \in Object
         /\ Dir(j) \in Held
<1>1. dir \in [UploadIds -> Held \cup {NoDir}] BY DEF TypeOK, Held
<1>2. UploadId(j) \in UploadIds BY DEF UploadIds
<1>3. Dir(j) \in Held BY <1>1, <1>2 DEF Dir
<1> QED BY <1>1, <1>2, <1>3, AssembledType DEF Assemble

LEMMA ChecksumType ==
  ASSUME NEW j \in Jobs
  PROVE  /\ Whole(j) \in Object /\ Whole(j) # NoObject
         /\ Checksum(j) \in {NoObject, Whole(j)}
<1>1. Whole(j) \in Object BY SizesAreNumbers DEF Whole, Object
<1> QED BY <1>1, NothingsAssumption DEF Checksum

LEMMA TypeInit == Init => TypeInv
<1> SUFFICES ASSUME Init PROVE TypeInv
  OBVIOUS
<1>1. up \in [Jobs -> Upload] BY FreshType DEF Init
<1>2. \A j \in Jobs : up[j].at # "chunk" BY DEF Init, Fresh
<1>3. faults \in 0..MaxFaults BY LimitsAssumption DEF Init
<1>4. dir \in [UploadIds -> [Parts -> Chunk \cup {NoChunk}] \cup {NoDir}] BY DEF Init
<1>5. folder \in BOOLEAN /\ object \in Object \cup {NoObject} /\ readable \in [Jobs -> BOOLEAN]
      /\ late = {}
  BY DEF Init
<1> QED BY <1>1, <1>2, <1>3, <1>4, <1>5 DEF TypeInv, TypeOK, PartsInFile


\* A step of an attempt that goes to a step of its own from the start, and leaves the
\* server alone.
LEMMA GotoKeepsType ==
  ASSUME TypeInv, NEW j \in Jobs, NEW step \in Step, Goto(j, step),
         UNCHANGED <<server, readable, late, faults>>
  PROVE  TypeInv'
<1>1. up' \in [Jobs -> Upload]
      /\ \A k \in Jobs : up'[k].at = "chunk" => up'[k].part <= NumChunks(Total[k])
  BY GotoType
<1> QED BY <1>1 DEF TypeInv, TypeOK, PartsInFile, server

LEMMA RefuseKeepsType ==
  ASSUME TypeInv, NEW j \in Jobs, Refuse(j), UNCHANGED <<readable, late, faults>>
  PROVE  TypeInv'
<1>1. "refused" \in Step BY DEF Step
<1>2. Goto(j, "refused") /\ UNCHANGED server BY DEF Refuse
<1> QED BY <1>1, <1>2, GotoKeepsType

\* The next chunk is the next of the file, or there is none.
LEMMA NextPartType ==
  ASSUME TypeInv, NEW j \in Jobs, up[j].at = "chunk", NextPart(j)
  PROVE  /\ up' \in [Jobs -> Upload]
         /\ \A k \in Jobs : k # j => up'[k] = up[k]
         /\ up'[j].part = up[j].part + 1 /\ up'[j].present = up[j].present
         /\ up'[j].at = IF up[j].part = NumChunks(Total[j]) THEN "assemble" ELSE "chunk"
         /\ \A k \in Jobs : up'[k].at = "chunk" => up'[k].part <= NumChunks(Total[k])
<1> DEFINE u == up[j]
           v == [u EXCEPT !.part = @ + 1,
                          !.at = IF u.part = NumChunks(Total[j]) THEN "assemble" ELSE @]
<1>1. up \in [Jobs -> Upload] /\ u \in Upload BY DEF TypeInv, TypeOK
<1>2. up' = [up EXCEPT ![j] = v] BY DEF NextPart
<1>3. u.part \in Nat /\ u.part <= NumChunks(Total[j]) /\ 1 <= u.part
  BY <1>1 DEF TypeInv, PartsInFile, Upload
<1>4. NumChunks(Total[j]) \in Nat /\ NumChunks(Total[j]) <= MAX_CHUNKS /\ MAX_CHUNKS \in Nat
  BY PartsOfAFile
<1>5. u.part + 1 \in 1..(MAX_CHUNKS + 1) BY <1>3, <1>4
<1>6. v \in Upload /\ v.part = u.part + 1 /\ v.present = u.present
      /\ v.at = IF u.part = NumChunks(Total[j]) THEN "assemble" ELSE u.at
  <2> DEFINE at == IF u.part = NumChunks(Total[j]) THEN "assemble" ELSE u.at
             q == u.part + 1
             Turned(r, p, a) == [r EXCEPT !.part = p, !.at = a]
  <2>1. \A r \in Upload : \A p \in 1..(MAX_CHUNKS + 1) : \A a \in Step :
          /\ Turned(r, p, a) \in Upload
          /\ Turned(r, p, a).part = p
          /\ Turned(r, p, a).present = r.present
          /\ Turned(r, p, a).at = a
    BY DEF Upload
  <2>2. at \in Step /\ q \in 1..(MAX_CHUNKS + 1) BY <1>1, <1>5 DEF Upload, Step
  <2>3. v = Turned(u, q, at) BY <1>1 DEF Upload
  <2> HIDE DEF at, u, v, q, Turned
  <2>4. v \in Upload /\ v.part = q /\ v.present = u.present /\ v.at = at
    BY <1>1, <2>1, <2>2, <2>3
  <2> QED BY <2>4 DEF at, q
<1>7. u.at = "chunk" OBVIOUS
<1> HIDE DEF v
<1>8. up' \in [Jobs -> Upload] /\ up'[j] = v /\ \A k \in Jobs : k # j => up'[k] = up[k]
  BY <1>1, <1>2, <1>6
<1>9. ASSUME NEW k \in Jobs, up'[k].at = "chunk" PROVE up'[k].part <= NumChunks(Total[k])
  <2>1. CASE k = j
    <3>1. v.at = "chunk" /\ v.part = u.part + 1 BY <1>6, <1>8, <1>9, <2>1
    <3>2. u.part # NumChunks(Total[j]) BY <1>6, <3>1
    <3>3. u.part + 1 <= NumChunks(Total[j]) BY <1>3, <1>4, <3>2
    <3> QED BY <1>8, <2>1, <3>1, <3>3
  <2>2. CASE k # j BY <1>8, <1>9, <2>2 DEF TypeInv, PartsInFile
  <2> QED BY <2>1, <2>2
<1> QED BY <1>6, <1>7, <1>8, <1>9 DEF u

\* The chunk that an attempt is at, and the fresh one that it stores.
LEMMA ChunkType ==
  ASSUME TypeInv, NEW j \in Jobs, up[j].at = "chunk"
  PROVE  /\ up[j].part \in 1..NumChunks(Total[j]) /\ up[j].part \in Parts
         /\ FullChunk(j, up[j].part) \in Chunk
<1>1. up[j] \in Upload BY DEF TypeInv, TypeOK
<1>2. up[j].part \in Nat /\ 1 <= up[j].part BY <1>1 DEF Upload
<1>3. up[j].part <= NumChunks(Total[j]) BY DEF TypeInv, PartsInFile
<1>4. up[j].part \in 1..NumChunks(Total[j]) BY <1>2, <1>3, PartsOfAFile
<1> QED BY <1>4, PartsOfAFile

LEMMA AttemptKeepsType ==
  ASSUME TypeInv, NEW j \in Jobs, Attempt(j)
  PROVE  TypeInv'
<1>0. /\ up \in [Jobs -> Upload] /\ dir \in [UploadIds -> Held \cup {NoDir}]
      /\ UploadId(j) \in UploadIds
  BY DEF TypeInv, TypeOK, Held, UploadIds
<1>1. CASE AlreadyPresent(j)
  <2> DEFINE step == IF IsPresent(j) THEN "skipped" ELSE IF Total[j] < Threshold THEN "put" ELSE "probe"
  <2>1. step \in Step BY DEF Step
  <2>2. Goto(j, step) /\ UNCHANGED <<server, readable, late, faults>> BY <1>1 DEF AlreadyPresent
  <2> HIDE DEF step
  <2> QED BY <2>1, <2>2, GotoKeepsType
<1>2. CASE PutSimple(j)
  <2>1. "mkcol" \in Step /\ "ok" \in Step BY DEF Step
  <2>2. UNCHANGED <<readable, late, faults>> BY <1>2 DEF PutSimple
  <2>3. CASE ~readable[j] BY <1>2, <2>2, <2>3, RefuseKeepsType DEF PutSimple
  <2>4. CASE Goto(j, "mkcol") /\ UNCHANGED server BY <2>1, <2>2, <2>4, GotoKeepsType
  <2>5. CASE object' = Whole(j) /\ Goto(j, "ok") /\ UNCHANGED <<folder, dir>>
    <3>1. up' \in [Jobs -> Upload]
          /\ \A k \in Jobs : up'[k].at = "chunk" => up'[k].part <= NumChunks(Total[k])
      BY <2>1, <2>5, GotoType
    <3>2. object' \in Object BY <2>5, ChecksumType
    <3> QED BY <2>2, <2>5, <3>1, <3>2 DEF TypeInv, TypeOK, PartsInFile
  <2> QED BY <1>2, <2>3, <2>4, <2>5 DEF PutSimple
<1>3. CASE MkcolParents(j)
  <2>1. Goto(j, "put") /\ "put" \in Step BY <1>3 DEF MkcolParents, Step
  <2>2. up' \in [Jobs -> Upload]
        /\ \A k \in Jobs : up'[k].at = "chunk" => up'[k].part <= NumChunks(Total[k])
    BY <2>1, GotoType
  <2> QED BY <1>3, <2>2 DEF MkcolParents, TypeInv, TypeOK, PartsInFile
<1>4. CASE ResumePresentChunks(j)
  <2> DEFINE listed == IF Dir(j) = NoDir THEN {} ELSE StoredParts(Dir(j))
             seen == [i \in Parts |-> IF i \in listed THEN Dir(j)[i].len ELSE NoChunk]
             u == [at |-> IF listed = {} THEN "mkdir" ELSE "chunk", part |-> 1, present |-> seen]
  <2>1. up' = [up EXCEPT ![j] = u] /\ UNCHANGED <<server, readable, late, faults>>
    BY <1>4 DEF ResumePresentChunks
  <2>2. seen \in [Parts -> Lengths \cup {NoChunk}]
    <3> SUFFICES ASSUME NEW i \in Parts, i \in listed PROVE Dir(j)[i].len \in Lengths
      OBVIOUS
    <3>1. Dir(j) \in Held BY <1>0 DEF Dir
    <3>2. Dir(j)[i] \in Chunk BY <3>1 DEF Held, StoredParts
    <3> QED BY <3>2 DEF Chunk
  <2>3. 1 \in 1..(MAX_CHUNKS + 1) BY LimitsAssumption
  <2> HIDE DEF seen, listed
  <2>4. u \in Upload /\ u.part = 1 BY <2>2, <2>3 DEF Upload, Step
  <2> HIDE DEF u
  <2>5. up' \in [Jobs -> Upload] /\ up'[j] = u /\ \A k \in Jobs : k # j => up'[k] = up[k]
    BY <1>0, <2>1, <2>4
  <2>6. ASSUME NEW k \in Jobs, up'[k].at = "chunk" PROVE up'[k].part <= NumChunks(Total[k])
    <3>1. CASE k = j BY <2>4, <2>5, <3>1, PartsOfAFile
    <3>2. CASE k # j BY <2>5, <2>6, <3>2 DEF TypeInv, PartsInFile
    <3> QED BY <3>1, <3>2
  <2> QED BY <2>1, <2>5, <2>6 DEF TypeInv, TypeOK, PartsInFile, server
<1>5. CASE MkcolUploadDir(j)
  <2>1. Goto(j, "chunk") /\ "chunk" \in Step BY <1>5 DEF MkcolUploadDir, Step
  <2>2. up' \in [Jobs -> Upload]
        /\ \A k \in Jobs : up'[k].at = "chunk" => up'[k].part <= NumChunks(Total[k])
    BY <2>1, GotoType
  <2>3. EmptyDir \in Held BY DEF EmptyDir, Held
  <2>4. dir' \in [UploadIds -> Held \cup {NoDir}] BY <1>0, <1>5, <2>3 DEF MkcolUploadDir
  <2> QED BY <1>5, <2>2, <2>4 DEF MkcolUploadDir, TypeInv, TypeOK, PartsInFile, Held
<1>6. CASE SkipChunk(j)
  <2>1. up' \in [Jobs -> Upload]
        /\ \A k \in Jobs : up'[k].at = "chunk" => up'[k].part <= NumChunks(Total[k])
    BY <1>6, NextPartType DEF SkipChunk
  <2> QED BY <1>6, <2>1 DEF SkipChunk, TypeInv, TypeOK, PartsInFile, server
<1>7. CASE PutChunk(j)
  <2>1. UNCHANGED <<readable, late, faults>> BY <1>7 DEF PutChunk
  <2>2. CASE Refuse(j) BY <2>1, <2>2, RefuseKeepsType
  <2>3. CASE /\ Dir(j) # NoDir /\ StoreChunk(j, up[j].part, FullChunk(j, up[j].part))
             /\ NextPart(j) /\ UNCHANGED <<folder, object>>
    <3>1. up' \in [Jobs -> Upload]
          /\ \A k \in Jobs : up'[k].at = "chunk" => up'[k].part <= NumChunks(Total[k])
      BY <1>7, <2>3, NextPartType DEF PutChunk
    <3>2. up[j].part \in Parts /\ FullChunk(j, up[j].part) \in Chunk
      BY <1>7, ChunkType DEF PutChunk
    <3>3. dir' \in [UploadIds -> Held \cup {NoDir}]
      BY <2>3, <3>2, StoreType DEF TypeInv
    <3> QED BY <2>1, <2>3, <3>1, <3>3 DEF TypeInv, TypeOK, PartsInFile, Held
  <2> QED BY <1>7, <2>2, <2>3 DEF PutChunk
<1>8. CASE MoveAssemble(j)
  <2>1. UNCHANGED <<readable, late, faults>> BY <1>8 DEF MoveAssemble
  <2>2. CASE Refuse(j) BY <2>1, <2>2, RefuseKeepsType
  <2>3. CASE Accepts(j, Checksum(j)) /\ Assemble(j) /\ Goto(j, "ok") /\ UNCHANGED folder
    <3>1. "ok" \in Step BY DEF Step
    <3>2. up' \in [Jobs -> Upload]
          /\ \A k \in Jobs : up'[k].at = "chunk" => up'[k].part <= NumChunks(Total[k])
      BY <2>3, <3>1, GotoType
    <3>3. dir' \in [UploadIds -> Held \cup {NoDir}] /\ object' \in Object
      BY <2>3, AssembleType DEF TypeInv, Accepts
    <3> QED BY <2>1, <2>3, <3>2, <3>3 DEF TypeInv, TypeOK, PartsInFile, Held
  <2> QED BY <1>8, <2>2, <2>3 DEF MoveAssemble
<1>9. CASE RequestFails(j)
  <2>1. "failed" \in Step BY DEF Step
  <2> QED BY <1>9, <2>1, GotoKeepsType DEF RequestFails
<1>10. CASE RequestOutlives(j)
  <2> DEFINE r == [by |-> j, kind |-> up[j].at, part |-> up[j].part, checksum |-> Checksum(j)]
  <2>1. Goto(j, "failed") /\ "failed" \in Step /\ UNCHANGED <<server, readable>>
    BY <1>10 DEF RequestOutlives, Step
  <2>2. up' \in [Jobs -> Upload]
        /\ \A k \in Jobs : up'[k].at = "chunk" => up'[k].part <= NumChunks(Total[k])
    BY <2>1, GotoType
  <2>3. faults' \in 0..MaxFaults BY <1>10, LimitsAssumption DEF RequestOutlives, TypeInv, TypeOK
  <2>4. late' = late \cup {r} /\ up[j].at \in {"put", "chunk", "assemble"}
    BY <1>10 DEF RequestOutlives
  <2>5. r \in Late
    <3>1. up[j].part \in Parts BY <1>0 DEF Upload, Parts
    <3> QED BY <2>4, <3>1, ChecksumType DEF Late
  <2>6. r.kind = "chunk" => r.part <= NumChunks(Total[r.by]) BY DEF TypeInv, PartsInFile
  <2> HIDE DEF r
  <2> QED BY <2>1, <2>2, <2>3, <2>4, <2>5, <2>6 DEF TypeInv, TypeOK, PartsInFile, server
<1>11. CASE ChunkTorn(j)
  <2>1. Goto(j, "failed") /\ "failed" \in Step /\ UNCHANGED <<folder, object, readable, late>>
    BY <1>11 DEF ChunkTorn, Step
  <2>2. up' \in [Jobs -> Upload]
        /\ \A k \in Jobs : up'[k].at = "chunk" => up'[k].part <= NumChunks(Total[k])
    BY <2>1, GotoType
  <2>3. faults' \in 0..MaxFaults BY <1>11, LimitsAssumption DEF ChunkTorn, TypeInv, TypeOK
  <2>4. PICK len \in 0..(ChunkLen(Total[j], up[j].part) - 1) :
          StoreChunk(j, up[j].part, [of |-> j, len |-> len])
    BY <1>11 DEF ChunkTorn
  <2>5. up[j].part \in 1..NumChunks(Total[j]) /\ up[j].part \in Parts
    BY <1>11, ChunkType DEF ChunkTorn
  <2>6. [of |-> j, len |-> len] \in Chunk
    <3>1. ChunkLen(Total[j], up[j].part) \in 0..Total[j] BY <2>5, PartsOfAFile
    <3>2. len \in 0..Total[j] BY <3>1, SizesAreNumbers
    <3> QED BY <3>2, SizesAreNumbers DEF Chunk
  <2>7. dir' \in [UploadIds -> Held \cup {NoDir}]
    BY <1>11, <2>4, <2>5, <2>6, StoreType DEF ChunkTorn, TypeInv
  <2> QED BY <2>1, <2>2, <2>3, <2>7 DEF TypeInv, TypeOK, PartsInFile, Held
<1> QED BY <1>1, <1>2, <1>3, <1>4, <1>5, <1>6, <1>7, <1>8, <1>9, <1>10, <1>11 DEF Attempt

LEMMA TypeStep == TypeInv /\ [Next]_vars => TypeInv'
<1> SUFFICES ASSUME TypeInv, [Next]_vars PROVE TypeInv'
  OBVIOUS
<1>1. ASSUME NEW j \in Jobs, StartAttempt(j) PROVE TypeInv'
  <2>1. "check" \in Step BY DEF Step
  <2> QED BY <1>1, <2>1, GotoKeepsType DEF StartAttempt
<1>2. ASSUME NEW j \in Jobs, Attempt(j) PROVE TypeInv' BY <1>2, AttemptKeepsType
<1>3. ASSUME NEW j \in Jobs, Unmount(j) PROVE TypeInv'
  BY <1>3 DEF Unmount, TypeInv, TypeOK, PartsInFile, server
<1>4. CASE LateRequestLands
  <2>1. PICK r \in late :
          /\ late' = late \ {r}
          /\ \/ /\ r.kind = "put"
                /\ folder
                /\ object' = Whole(r.by)
                /\ UNCHANGED dir
             \/ /\ r.kind = "chunk"
                /\ Dir(r.by) # NoDir
                /\ StoreChunk(r.by, r.part, FullChunk(r.by, r.part))
                /\ UNCHANGED object
             \/ /\ r.kind = "assemble"
                /\ Accepts(r.by, r.checksum)
                /\ Assemble(r.by)
          /\ UNCHANGED <<folder, up, readable, faults>>
    BY <1>4 DEF LateRequestLands
  <2>2. r \in Late BY DEF TypeInv, TypeOK
  <2>3. r.by \in Jobs /\ r.part \in Parts BY <2>2 DEF Late
  <2>4. dir \in [UploadIds -> Held \cup {NoDir}] /\ object \in Object \cup {NoObject}
    BY DEF TypeInv, TypeOK, Held
  <2>5. dir' \in [UploadIds -> Held \cup {NoDir}] /\ object' \in Object \cup {NoObject}
    <3>1. CASE r.kind = "put" BY <2>1, <2>3, <2>4, <3>1, ChecksumType
    <3>2. CASE r.kind = "chunk"
      <4>1. r.part <= NumChunks(Total[r.by]) BY <3>2 DEF TypeInv, PartsInFile
      <4>2. r.part \in 1..NumChunks(Total[r.by]) BY <2>3, <4>1, PartsOfAFile DEF Parts
      <4>3. FullChunk(r.by, r.part) \in Chunk BY <2>3, <4>2, PartsOfAFile
      <4> QED BY <2>1, <2>3, <2>4, <3>2, <4>3, StoreType DEF TypeInv
    <3>3. CASE r.kind = "assemble" BY <2>1, <2>3, <3>3, AssembleType DEF TypeInv, Accepts
    <3> QED BY <2>1, <3>1, <3>2, <3>3
  <2> QED BY <2>1, <2>5 DEF TypeInv, TypeOK, PartsInFile, Held
<1>5. CASE Expire
  <2>1. dir \in [UploadIds -> Held \cup {NoDir}] BY DEF TypeInv, TypeOK, Held
  <2>2. dir' \in [UploadIds -> Held \cup {NoDir}] BY <1>5, <2>1 DEF Expire
  <2> QED BY <1>5, <2>2 DEF Expire, TypeInv, TypeOK, PartsInFile, Held
<1>6. CASE UNCHANGED vars BY <1>6 DEF vars, TypeInv, TypeOK, PartsInFile
<1> QED BY <1>1, <1>2, <1>3, <1>4, <1>5, <1>6 DEF Next

LEMMA TypeInvHolds == Spec => []TypeInv
BY TypeInit, TypeStep, PTL DEF Spec

\* Every variable keeps to its type, for every set of files and limits: in
\* particular no attempt counts past the chunks of its file (put_chunked).
THEOREM TypeCorrect == Spec => []TypeOK
BY TypeInvHolds, PTL DEF TypeInv


-----------------------------------------------------------------------------
(* What an attempt has put together.                                       *)

\* Two jobs never share an upload directory.
DistinctIds == \A j, k \in Jobs : UploadId(j) = UploadId(k) => j = k

\* A file that goes up in chunks is not empty.
NoneEmpty == \A j \in Jobs : Total[j] >= Threshold => Total[j] # 0

\* Two files of the same length are one.
DistinctSizes == \A j, k \in Jobs : Total[j] = Total[k] => j = k

\* A job, with its directory and its attempt.  What is in the directory is of its file;
\* the chunks it has passed, and those it will skip, are there in full; and when it
\* comes to assemble them all of them are, unless the directory has gone since.
JobRight(j, d, u) ==
  /\ u.at \in {"probe", "mkdir", "chunk", "assemble"} => Total[j] >= Threshold
  /\ d # NoDir =>
       /\ OwnOf(j, d)
       /\ u.at = "chunk" => \A i \in 1..NumChunks(Total[j]) :
            i < u.part \/ u.present[i] = ChunkLen(Total[j], i) => d[i] = FullChunk(j, i)
       /\ u.at = "assemble" => Complete(j, d)

UploadInv ==
  /\ \A j \in Jobs : JobRight(j, Dir(j), up[j])
  /\ \A r \in late : r.kind = "assemble" => Total[r.by] >= Threshold

LEMMA NewDirIsRight ==
  ASSUME NEW j \in Jobs, NEW u, u.at = "chunk", u.part = 1,
         \A i \in Parts : u.present[i] = NoChunk, Total[j] >= Threshold
  PROVE  JobRight(j, EmptyDir, u)
<1>1. OwnOf(j, EmptyDir) BY DEF OwnOf, EmptyDir
<1>2. ASSUME NEW i \in 1..NumChunks(Total[j])
      PROVE  ~(i < u.part) /\ u.present[i] # ChunkLen(Total[j], i)
  <2>1. i \in Parts /\ ChunkLen(Total[j], i) \in Nat BY PartsOfAFile
  <2> QED BY <2>1, NothingsAssumption
<1> QED BY <1>1, <1>2 DEF JobRight

\* The listing tells what is there: a chunk of full length is the chunk.
LEMMA ListedIsRight ==
  ASSUME NEW j \in Jobs, NEW d, NEW u, NEW v, d \in Held \cup {NoDir},
         JobRight(j, d, u), u.at = "probe",
         v.at \in {"mkdir", "chunk"}, v.part = 1,
         \A i \in Parts : d # NoDir => v.present[i] = IF d[i] # NoChunk THEN d[i].len ELSE NoChunk
  PROVE  JobRight(j, d, v)
<1>1. ASSUME d # NoDir, NEW i \in 1..NumChunks(Total[j]),
             i < v.part \/ v.present[i] = ChunkLen(Total[j], i)
      PROVE  d[i] = FullChunk(j, i)
  <2>1. i \in Parts /\ ChunkLen(Total[j], i) \in Nat BY PartsOfAFile
  <2>2. v.present[i] = ChunkLen(Total[j], i) BY <1>1
  <2>3. d[i] # NoChunk /\ d[i].len = ChunkLen(Total[j], i)
    BY <1>1, <2>1, <2>2, NothingsAssumption
  <2>4. d[i] \in Chunk BY <1>1, <2>1, <2>3 DEF Held
  <2>5. d[i].of = j BY <1>1, <2>1, <2>3 DEF JobRight, OwnOf
  <2>6. d[i] = [of |-> d[i].of, len |-> d[i].len] BY <2>4 DEF Chunk
  <2> QED BY <2>3, <2>5, <2>6 DEF FullChunk
<1> QED BY <1>1 DEF JobRight

LEMMA GoneIsRight ==
  ASSUME NEW j \in Jobs, NEW d, NEW u, JobRight(j, d, u)
  PROVE  JobRight(j, NoDir, u)
BY DEF JobRight

LEMMA EndedIsRight ==
  ASSUME NEW j \in Jobs, NEW d, NEW u, NEW v, JobRight(j, d, u),
         v.at \notin {"probe", "mkdir", "chunk", "assemble"}
  PROVE  JobRight(j, d, v)
BY DEF JobRight

\* A chunk of the file, whole or not, leaves the directory the file's own.
LEMMA StoredIsOwn ==
  ASSUME NEW j \in Jobs, NEW d \in Held, OwnOf(j, d),
         NEW i \in 1..NumChunks(Total[j]), NEW len, len <= ChunkLen(Total[j], i)
  PROVE  OwnOf(j, [d EXCEPT ![i] = [of |-> j, len |-> len]])
<1> DEFINE e == [d EXCEPT ![i] = [of |-> j, len |-> len]]
<1>1. i \in Parts /\ i <= NumChunks(Total[j]) BY PartsOfAFile
<1>2. e[i] = [of |-> j, len |-> len] /\ \A k \in Parts : k # i => e[k] = d[k]
  BY <1>1 DEF Held
<1> HIDE DEF e
<1>3. ASSUME NEW k \in Parts, e[k] # NoChunk
      PROVE  k <= NumChunks(Total[j]) /\ e[k].of = j /\ e[k].len <= ChunkLen(Total[j], k)
  <2>1. CASE k = i BY <1>1, <1>2, <2>1
  <2>2. CASE k # i BY <1>2, <1>3, <2>2 DEF OwnOf
  <2> QED BY <2>1, <2>2
<1>4. OwnOf(j, e) BY <1>3 DEF OwnOf
<1> QED BY <1>4 DEF e

\* A whole chunk disturbs nothing, whenever it lands.
LEMMA StoredIsRight ==
  ASSUME NEW j \in Jobs, NEW d \in Held, NEW u, JobRight(j, d, u),
         NEW i \in 1..NumChunks(Total[j])
  PROVE  /\ JobRight(j, [d EXCEPT ![i] = FullChunk(j, i)], u)
         /\ [d EXCEPT ![i] = FullChunk(j, i)] \in Held
         /\ [d EXCEPT ![i] = FullChunk(j, i)][i] = FullChunk(j, i)
<1> DEFINE e == [d EXCEPT ![i] = FullChunk(j, i)]
<1>1. i \in Parts /\ ChunkLen(Total[j], i) \in Nat /\ FullChunk(j, i) \in Chunk BY PartsOfAFile
<1>2. d # NoDir BY NothingsAssumption DEF Held
<1>3. OwnOf(j, d) BY <1>2 DEF JobRight
<1>4. OwnOf(j, e)
  <2>1. ChunkLen(Total[j], i) <= ChunkLen(Total[j], i) BY <1>1
  <2> QED BY <1>3, <2>1, StoredIsOwn DEF FullChunk
<1>5. /\ e[i] = FullChunk(j, i) /\ e \in Held
      /\ \A k \in 1..NumChunks(Total[j]) : k # i => e[k] = d[k]
  <2>1. \A k \in 1..NumChunks(Total[j]) : k \in Parts BY PartsOfAFile
  <2> HIDE DEF FullChunk
  <2> QED BY <1>1, <2>1 DEF Held
<1> HIDE DEF e
<1>6. \A k \in 1..NumChunks(Total[j]) : d[k] = FullChunk(j, k) => e[k] = FullChunk(j, k)
  BY <1>5
<1>7. JobRight(j, e, u) BY <1>2, <1>4, <1>6 DEF JobRight, Complete
<1> QED BY <1>5, <1>7 DEF e

\* An attempt that goes past a whole chunk has all of them at the last.
LEMMA NextIsRight ==
  ASSUME NEW j \in Jobs, NEW d, NEW u, NEW v, JobRight(j, d, u),
         u.at = "chunk", u.part \in 1..NumChunks(Total[j]),
         d # NoDir => d[u.part] = FullChunk(j, u.part),
         v.part = u.part + 1, v.present = u.present,
         v.at = IF u.part = NumChunks(Total[j]) THEN "assemble" ELSE "chunk"
  PROVE  JobRight(j, d, v)
<1>1. ASSUME d # NoDir, NEW i \in 1..NumChunks(Total[j]), i <= u.part
      PROVE  d[i] = FullChunk(j, i)
  <2>1. i < u.part \/ i = u.part BY <1>1
  <2> QED BY <1>1, <2>1 DEF JobRight
<1>2. Total[j] >= Threshold BY DEF JobRight
<1>3. ASSUME d # NoDir, v.at = "assemble" PROVE Complete(j, d)
  <2>1. u.part = NumChunks(Total[j]) BY <1>3
  <2>2. \A i \in 1..NumChunks(Total[j]) : i <= u.part BY <2>1
  <2> QED BY <1>1, <1>3, <2>2 DEF Complete
<1>4. ASSUME d # NoDir, NEW i \in 1..NumChunks(Total[j]),
             i < v.part \/ v.present[i] = ChunkLen(Total[j], i)
      PROVE  d[i] = FullChunk(j, i)
  <2>1. CASE i < v.part
    <3>1. i <= u.part BY <2>1
    <3> QED BY <1>1, <1>4, <3>1
  <2>2. CASE v.present[i] = ChunkLen(Total[j], i) BY <1>4, <2>2 DEF JobRight
  <2> QED BY <1>4, <2>1, <2>2
<1>5. d # NoDir => OwnOf(j, d) BY DEF JobRight
<1> QED BY <1>2, <1>3, <1>4, <1>5 DEF JobRight


LEMMA UploadInit == Init => UploadInv
<1> SUFFICES ASSUME Init PROVE UploadInv
  OBVIOUS
<1>1. ASSUME NEW j \in Jobs PROVE JobRight(j, Dir(j), up[j])
  <2>1. Dir(j) = NoDir BY DEF Init, Dir, UploadIds
  <2>2. up[j].at = "idle" BY DEF Init, Fresh
  <2> QED BY <2>1, <2>2 DEF JobRight
<1> QED BY <1>1 DEF Init, UploadInv

LEMMA OneDir ==
  ASSUME DistinctIds, TypeInv, NEW j \in Jobs, NEW d, dir' = [dir EXCEPT ![UploadId(j)] = d]
  PROVE  Dir(j)' = d /\ \A k \in Jobs : k # j => Dir(k)' = Dir(k)
<1>1. dir \in [UploadIds -> Held \cup {NoDir}] BY DEF TypeInv, TypeOK, Held
<1>2. \A k \in Jobs : UploadId(k) \in UploadIds /\ (k # j => UploadId(k) # UploadId(j))
  BY DEF UploadIds, DistinctIds
<1>3. Dir(j)' = dir'[UploadId(j)] /\ \A k \in Jobs : Dir(k)' = dir'[UploadId(k)]
  BY DEF Dir, UploadId
<1> HIDE DEF UploadId
<1> QED BY <1>1, <1>2, <1>3 DEF Dir

LEMMA DirHeld == ASSUME TypeInv, NEW j \in Jobs PROVE Dir(j) \in Held \cup {NoDir}
BY DEF TypeInv, TypeOK, Held, Dir, UploadIds

LEMMA SameDirs == ASSUME NEW j \in Jobs, UNCHANGED dir PROVE Dir(j)' = Dir(j)
BY DEF Dir, UploadId

\* A step of a job that leaves the other jobs as they were.
LEMMA OthersAreRight ==
  ASSUME UploadInv, NEW j \in Jobs,
         \A k \in Jobs : k # j => up'[k] = up[k] /\ Dir(k)' = Dir(k),
         JobRight(j, Dir(j)', up'[j]),
         \A r \in late' : r \in late \/ (r.kind = "assemble" => Total[r.by] >= Threshold)
  PROVE  UploadInv'
<1>1. ASSUME NEW k \in Jobs PROVE JobRight(k, Dir(k)', up'[k])
  <2>1. CASE k = j BY <2>1
  <2>2. CASE k # j
    <3>1. JobRight(k, Dir(k), up[k]) BY DEF UploadInv
    <3> QED BY <2>2, <3>1
  <2> QED BY <2>1, <2>2
<1>2. \A r \in late' : r.kind = "assemble" => Total[r.by] >= Threshold BY DEF UploadInv
<1>3. (\A k \in Jobs : JobRight(k, Dir(k), up[k]))' BY <1>1
<1> QED BY <1>2, <1>3 DEF UploadInv

\* A step to the end of an attempt, or to one before its chunks.
LEMMA GotoIsRight ==
  ASSUME TypeInv, UploadInv, NEW j \in Jobs, NEW step \in Step, Goto(j, step),
         step \in {"probe", "mkdir", "chunk", "assemble"} =>
           step = "probe" /\ Total[j] >= Threshold,
         UNCHANGED <<dir, late>>
  PROVE  UploadInv'
<1>1. up'[j].at = step /\ \A k \in Jobs : k # j => up'[k] = up[k] BY GotoType
<1>2. \A k \in Jobs : Dir(k)' = Dir(k) BY SameDirs
<1>3. JobRight(j, Dir(j), up[j]) BY DEF UploadInv
<1>4. JobRight(j, Dir(j)', up'[j])
  <2>1. JobRight(j, Dir(j), up'[j])
    <3>1. CASE step = "probe" BY <1>1, <1>3, <3>1 DEF JobRight
    <3>2. CASE step # "probe"
      <4>1. up'[j].at \notin {"probe", "mkdir", "chunk", "assemble"} BY <1>1, <3>2
      <4> QED BY <1>3, <4>1, EndedIsRight
    <3> QED BY <3>1, <3>2
  <2> QED BY <1>2, <2>1
<1> QED BY <1>1, <1>2, <1>4, OthersAreRight

LEMMA RefuseIsRight ==
  ASSUME TypeInv, UploadInv, NEW j \in Jobs, Refuse(j), UNCHANGED late
  PROVE  UploadInv'
<1>1. "refused" \in Step BY DEF Step
<1>2. Goto(j, "refused") /\ UNCHANGED dir BY DEF Refuse, server
<1> QED BY <1>1, <1>2, GotoIsRight

LEMMA AttemptIsRight ==
  ASSUME DistinctIds, TypeInv, UploadInv, NEW j \in Jobs, Attempt(j)
  PROVE  UploadInv'
<1>0. JobRight(j, Dir(j), up[j]) /\ Dir(j) \in Held \cup {NoDir} /\ up[j] \in Upload
  BY DirHeld DEF UploadInv, TypeInv, TypeOK
<1>1. CASE AlreadyPresent(j)
  <2> DEFINE step == IF IsPresent(j) THEN "skipped" ELSE IF Total[j] < Threshold THEN "put" ELSE "probe"
  <2>1. step \in Step BY DEF Step
  <2>2. step \in {"probe", "mkdir", "chunk", "assemble"} => step = "probe" /\ Total[j] >= Threshold
    <3>1. Total[j] \in Nat /\ Threshold \in Nat BY SizesAreNumbers, LimitsAssumption
    <3> QED BY <3>1
  <2>3. Goto(j, step) /\ UNCHANGED <<dir, late>> BY <1>1 DEF AlreadyPresent, server
  <2> HIDE DEF step
  <2> QED BY <2>1, <2>2, <2>3, GotoIsRight
<1>2. CASE PutSimple(j)
  <2>1. UNCHANGED late BY <1>2 DEF PutSimple
  <2>2. CASE Refuse(j) BY <2>1, <2>2, RefuseIsRight
  <2>3. ASSUME NEW step \in {"mkcol", "ok"}, Goto(j, step), UNCHANGED dir PROVE UploadInv'
    <3>1. step \in Step /\ step \notin {"probe", "mkdir", "chunk", "assemble"} BY DEF Step
    <3> QED BY <2>1, <2>3, <3>1, GotoIsRight
  <2> QED BY <1>2, <2>2, <2>3 DEF PutSimple, server
<1>3. CASE MkcolParents(j)
  <2>1. Goto(j, "put") /\ "put" \in Step /\ UNCHANGED <<dir, late>> BY <1>3 DEF MkcolParents, Step
  <2> QED BY <2>1, GotoIsRight
<1>4. CASE ResumePresentChunks(j)
  <2> DEFINE listed == IF Dir(j) = NoDir THEN {} ELSE StoredParts(Dir(j))
             seen == [i \in Parts |-> IF i \in listed THEN Dir(j)[i].len ELSE NoChunk]
             u == [at |-> IF listed = {} THEN "mkdir" ELSE "chunk", part |-> 1, present |-> seen]
  <2>1. up' = [up EXCEPT ![j] = u] /\ UNCHANGED <<dir, late>> /\ up[j].at = "probe"
    BY <1>4 DEF ResumePresentChunks, server
  <2>2. \A i \in Parts : Dir(j) # NoDir =>
          seen[i] = IF Dir(j)[i] # NoChunk THEN Dir(j)[i].len ELSE NoChunk
    BY DEF StoredParts
  <2>3. u.present = seen /\ u.part = 1 /\ u.at \in {"mkdir", "chunk"} OBVIOUS
  <2> HIDE DEF seen, listed, u
  <2>4. up'[j] = u /\ \A k \in Jobs : k # j => up'[k] = up[k] BY <2>1 DEF TypeInv, TypeOK
  <2>5. JobRight(j, Dir(j), u)
    <3>1. \A i \in Parts : Dir(j) # NoDir =>
            u.present[i] = IF Dir(j)[i] # NoChunk THEN Dir(j)[i].len ELSE NoChunk
      BY <2>2, <2>3
    <3> QED BY <1>0, <2>1, <2>3, <3>1, ListedIsRight
  <2>6. \A k \in Jobs : Dir(k)' = Dir(k) BY <2>1, SameDirs
  <2>7. JobRight(j, Dir(j)', up'[j]) BY <2>4, <2>5, <2>6
  <2> QED BY <2>1, <2>4, <2>6, <2>7, OthersAreRight
<1>5. CASE MkcolUploadDir(j)
  <2> DEFINE d == IF Dir(j) = NoDir THEN EmptyDir ELSE Dir(j)
  <2>1. Goto(j, "chunk") /\ "chunk" \in Step /\ UNCHANGED late /\ up[j].at = "mkdir"
    BY <1>5 DEF MkcolUploadDir, Step
  <2>2. /\ up'[j] = [Fresh EXCEPT !.at = "chunk"] /\ up'[j].at = "chunk"
        /\ \A k \in Jobs : k # j => up'[k] = up[k]
    BY <2>1, GotoType
  <2>3. up'[j].part = 1 /\ \A i \in Parts : up'[j].present[i] = NoChunk BY <2>2 DEF Fresh
  <2>4. dir' = [dir EXCEPT ![UploadId(j)] = d]
    <3>1. dir' = [dir EXCEPT ![UploadId(j)] = IF @ = NoDir THEN EmptyDir ELSE @]
      BY <1>5 DEF MkcolUploadDir
    <3>2. UploadId(j) \in DOMAIN dir BY DEF TypeInv, TypeOK, UploadIds
    <3> HIDE DEF UploadId
    <3> QED BY <3>1, <3>2 DEF Dir
  <2> HIDE DEF d
  <2>5. Dir(j)' = d /\ \A k \in Jobs : k # j => Dir(k)' = Dir(k) BY <2>4, OneDir
  <2>6. JobRight(j, d, up'[j])
    <3>1. Total[j] >= Threshold BY <1>0, <2>1 DEF JobRight
    <3>2. CASE Dir(j) = NoDir
      <4>1. JobRight(j, EmptyDir, up'[j]) BY <2>2, <2>3, <3>1, NewDirIsRight
      <4> QED BY <3>2, <4>1 DEF d
    <3>3. CASE Dir(j) # NoDir
      <4>1. OwnOf(j, Dir(j)) BY <1>0, <3>3 DEF JobRight
      <4>2. ASSUME NEW i \in 1..NumChunks(Total[j])
            PROVE  ~(i < up'[j].part) /\ up'[j].present[i] # ChunkLen(Total[j], i)
        <5>1. i \in Parts /\ ChunkLen(Total[j], i) \in Nat BY PartsOfAFile
        <5> QED BY <2>3, <5>1, NothingsAssumption
      <4> QED BY <2>2, <3>1, <3>3, <4>1, <4>2 DEF JobRight, d
    <3> QED BY <3>2, <3>3
  <2>7. JobRight(j, Dir(j)', up'[j]) BY <2>5, <2>6
  <2> QED BY <2>1, <2>2, <2>5, <2>7, OthersAreRight
<1>6. CASE SkipChunk(j)
  <2>1. up[j].at = "chunk" /\ IsStored(j) /\ NextPart(j) /\ UNCHANGED <<dir, late>>
    BY <1>6 DEF SkipChunk, server
  <2>2. up[j].part \in 1..NumChunks(Total[j]) BY <2>1, ChunkType
  <2>3. Dir(j) # NoDir => Dir(j)[up[j].part] = FullChunk(j, up[j].part)
    BY <1>0, <2>1, <2>2 DEF JobRight, IsStored
  <2>4. /\ \A k \in Jobs : k # j => up'[k] = up[k]
        /\ up'[j].part = up[j].part + 1 /\ up'[j].present = up[j].present
        /\ up'[j].at = IF up[j].part = NumChunks(Total[j]) THEN "assemble" ELSE "chunk"
    BY <2>1, NextPartType
  <2>5. JobRight(j, Dir(j), up'[j]) BY <1>0, <2>1, <2>2, <2>3, <2>4, NextIsRight
  <2>6. \A k \in Jobs : Dir(k)' = Dir(k) BY <2>1, SameDirs
  <2>7. JobRight(j, Dir(j)', up'[j]) BY <2>5, <2>6
  <2> QED BY <2>1, <2>4, <2>6, <2>7, OthersAreRight
<1>7. CASE PutChunk(j)
  <2>1. up[j].at = "chunk" /\ UNCHANGED late BY <1>7 DEF PutChunk
  <2>2. CASE Refuse(j) BY <2>1, <2>2, RefuseIsRight
  <2>3. CASE /\ Dir(j) # NoDir /\ StoreChunk(j, up[j].part, FullChunk(j, up[j].part))
             /\ NextPart(j)
    <3> DEFINE i == up[j].part
               d == [Dir(j) EXCEPT ![i] = FullChunk(j, i)]
    <3>1. i \in 1..NumChunks(Total[j]) /\ i \in Parts /\ FullChunk(j, i) \in Chunk
      BY <2>1, ChunkType
    <3>2. Dir(j) \in Held /\ dir' = [dir EXCEPT ![UploadId(j)] = d]
      BY <2>3, <3>1, StoreType DEF TypeInv
    <3>3. JobRight(j, d, up[j]) /\ d[i] = FullChunk(j, i)
      BY <1>0, <3>1, <3>2, StoredIsRight
    <3> HIDE DEF d
    <3>4. Dir(j)' = d /\ \A k \in Jobs : k # j => Dir(k)' = Dir(k) BY <3>2, OneDir
    <3>5. /\ \A k \in Jobs : k # j => up'[k] = up[k]
          /\ up'[j].part = up[j].part + 1 /\ up'[j].present = up[j].present
          /\ up'[j].at = IF up[j].part = NumChunks(Total[j]) THEN "assemble" ELSE "chunk"
      BY <2>1, <2>3, NextPartType
    <3>6. JobRight(j, d, up'[j]) BY <2>1, <3>1, <3>3, <3>5, NextIsRight
    <3>7. JobRight(j, Dir(j)', up'[j]) BY <3>4, <3>6
    <3> QED BY <2>1, <3>4, <3>5, <3>7, OthersAreRight
  <2> QED BY <1>7, <2>2, <2>3 DEF PutChunk
<1>8. CASE MoveAssemble(j)
  <2>1. UNCHANGED late BY <1>8 DEF MoveAssemble
  <2>2. CASE Refuse(j) BY <2>1, <2>2, RefuseIsRight
  <2>3. CASE Assemble(j) /\ Goto(j, "ok")
    <3>1. "ok" \in Step BY DEF Step
    <3>2. up'[j].at = "ok" /\ \A k \in Jobs : k # j => up'[k] = up[k] BY <2>3, <3>1, GotoType
    <3>3. Dir(j)' = NoDir /\ \A k \in Jobs : k # j => Dir(k)' = Dir(k)
      BY <2>3, OneDir DEF Assemble
    <3>4. JobRight(j, NoDir, up[j]) BY <1>0, GoneIsRight
    <3>5. JobRight(j, NoDir, up'[j]) BY <3>2, <3>4, EndedIsRight
    <3>6. JobRight(j, Dir(j)', up'[j]) BY <3>3, <3>5
    <3> QED BY <2>1, <3>2, <3>3, <3>6, OthersAreRight
  <2> QED BY <1>8, <2>2, <2>3 DEF MoveAssemble
<1>9. CASE RequestFails(j)
  <2>1. "failed" \in Step BY DEF Step
  <2>2. Goto(j, "failed") /\ UNCHANGED <<dir, late>> BY <1>9 DEF RequestFails, server
  <2> QED BY <2>1, <2>2, GotoIsRight
<1>10. CASE RequestOutlives(j)
  <2> DEFINE r == [by |-> j, kind |-> up[j].at, part |-> up[j].part, checksum |-> Checksum(j)]
  <2>1. Goto(j, "failed") /\ "failed" \in Step /\ UNCHANGED dir /\ late' = late \cup {r}
    BY <1>10 DEF RequestOutlives, Step, server
  <2>2. up'[j].at = "failed" /\ \A k \in Jobs : k # j => up'[k] = up[k] BY <2>1, GotoType
  <2>3. r.kind = "assemble" => Total[r.by] >= Threshold BY <1>0 DEF JobRight
  <2> HIDE DEF r
  <2>4. JobRight(j, Dir(j), up'[j]) BY <1>0, <2>2, EndedIsRight
  <2>5. \A k \in Jobs : Dir(k)' = Dir(k) BY <2>1, SameDirs
  <2>6. JobRight(j, Dir(j)', up'[j]) BY <2>4, <2>5
  <2> QED BY <2>1, <2>2, <2>3, <2>5, <2>6, OthersAreRight
<1>11. CASE ChunkTorn(j)
  <2> DEFINE i == up[j].part
  <2>1. Goto(j, "failed") /\ "failed" \in Step /\ UNCHANGED late /\ up[j].at = "chunk"
        /\ Dir(j) # NoDir
    BY <1>11 DEF ChunkTorn, Step
  <2>2. PICK len \in 0..(ChunkLen(Total[j], i) - 1) : StoreChunk(j, i, [of |-> j, len |-> len])
    BY <1>11 DEF ChunkTorn
  <2> DEFINE d == [Dir(j) EXCEPT ![i] = [of |-> j, len |-> len]]
  <2>3. i \in 1..NumChunks(Total[j]) /\ i \in Parts BY <2>1, ChunkType
  <2>4. ChunkLen(Total[j], i) \in 0..Total[j] /\ Total[j] \in Nat
    BY <2>3, PartsOfAFile, SizesAreNumbers
  <2>5. len <= ChunkLen(Total[j], i) /\ len \in 0..Total[j] BY <2>4
  <2>6. [of |-> j, len |-> len] \in Chunk BY <2>5, SizesAreNumbers DEF Chunk
  <2>7. Dir(j) \in Held /\ dir' = [dir EXCEPT ![UploadId(j)] = d]
    BY <2>1, <2>2, <2>3, <2>6, StoreType DEF TypeInv
  <2>8. OwnOf(j, Dir(j)) BY <1>0, <2>1 DEF JobRight
  <2>9. OwnOf(j, d) BY <2>3, <2>5, <2>7, <2>8, StoredIsOwn
  <2> HIDE DEF d
  <2>10. Dir(j)' = d /\ \A k \in Jobs : k # j => Dir(k)' = Dir(k) BY <2>7, OneDir
  <2>11. up'[j].at = "failed" /\ \A k \in Jobs : k # j => up'[k] = up[k] BY <2>1, GotoType
  <2>12. JobRight(j, d, up'[j]) BY <2>9, <2>11 DEF JobRight
  <2>13. JobRight(j, Dir(j)', up'[j]) BY <2>10, <2>12
  <2> QED BY <2>1, <2>10, <2>11, <2>13, OthersAreRight
<1> QED BY <1>1, <1>2, <1>3, <1>4, <1>5, <1>6, <1>7, <1>8, <1>9, <1>10, <1>11 DEF Attempt


LEMMA LateIsRight ==
  ASSUME DistinctIds, TypeInv, UploadInv, LateRequestLands
  PROVE  UploadInv'
<1>1. PICK r \in late :
        /\ late' = late \ {r}
        /\ \/ /\ r.kind = "put"
              /\ UNCHANGED dir
           \/ /\ r.kind = "chunk"
              /\ Dir(r.by) # NoDir
              /\ StoreChunk(r.by, r.part, FullChunk(r.by, r.part))
           \/ /\ r.kind = "assemble"
              /\ Assemble(r.by)
        /\ up' = up
  BY DEF LateRequestLands
<1> DEFINE j == r.by
<1>2. j \in Jobs /\ r.part \in Parts BY DEF TypeInv, TypeOK, Late
<1>3. JobRight(j, Dir(j), up[j]) BY <1>2 DEF UploadInv
<1>4. JobRight(j, Dir(j)', up[j]) /\ \A k \in Jobs : k # j => Dir(k)' = Dir(k)
  <2>1. CASE UNCHANGED dir
    <3>1. \A k \in Jobs : Dir(k)' = Dir(k) BY <2>1, SameDirs
    <3> QED BY <1>2, <1>3, <3>1
  <2>2. CASE r.kind = "chunk"
    <3> DEFINE i == r.part
               d == [Dir(j) EXCEPT ![i] = FullChunk(j, i)]
    <3>1. i <= NumChunks(Total[j]) BY <2>2 DEF TypeInv, PartsInFile
    <3>2. i \in 1..NumChunks(Total[j]) BY <1>2, <3>1, PartsOfAFile DEF Parts
    <3>3. FullChunk(j, i) \in Chunk BY <1>2, <3>2, PartsOfAFile
    <3>4. Dir(j) \in Held /\ dir' = [dir EXCEPT ![UploadId(j)] = d]
      BY <1>1, <1>2, <2>2, <3>3, StoreType DEF TypeInv
    <3>5. JobRight(j, d, up[j]) BY <1>2, <1>3, <3>2, <3>4, StoredIsRight
    <3> HIDE DEF d
    <3>6. Dir(j)' = d /\ \A k \in Jobs : k # j => Dir(k)' = Dir(k) BY <1>2, <3>4, OneDir
    <3> QED BY <3>5, <3>6
  <2>3. CASE Assemble(j)
    <3>1. dir' = [dir EXCEPT ![UploadId(j)] = NoDir] BY <2>3 DEF Assemble
    <3>2. Dir(j)' = NoDir /\ \A k \in Jobs : k # j => Dir(k)' = Dir(k) BY <1>2, <3>1, OneDir
    <3>3. JobRight(j, NoDir, up[j]) BY <1>2, <1>3, GoneIsRight
    <3> QED BY <3>2, <3>3
  <2> QED BY <1>1, <2>1, <2>2, <2>3
<1>5. JobRight(j, Dir(j)', up'[j]) BY <1>1, <1>4
<1>6. \A k \in Jobs : k # j => up'[k] = up[k] /\ Dir(k)' = Dir(k) BY <1>1, <1>4
<1>7. \A s \in late' : s \in late BY <1>1
<1> HIDE DEF j
<1> QED BY <1>2, <1>5, <1>6, <1>7, OthersAreRight

LEMMA UploadStep == DistinctIds /\ TypeInv /\ UploadInv /\ [Next]_vars => UploadInv'
<1> SUFFICES ASSUME DistinctIds, TypeInv, UploadInv, [Next]_vars PROVE UploadInv'
  OBVIOUS
<1>1. ASSUME NEW j \in Jobs, StartAttempt(j) PROVE UploadInv'
  <2>1. "check" \in Step BY DEF Step
  <2>2. Goto(j, "check") /\ UNCHANGED <<dir, late>> BY <1>1 DEF StartAttempt, server
  <2> QED BY <2>1, <2>2, GotoIsRight
<1>2. ASSUME NEW j \in Jobs, Attempt(j) PROVE UploadInv' BY <1>2, AttemptIsRight
<1>3. ASSUME UNCHANGED <<dir, up, late>> PROVE UploadInv'
  <2>1. \A k \in Jobs : Dir(k)' = Dir(k) BY <1>3, SameDirs
  <2>2. (\A k \in Jobs : JobRight(k, Dir(k), up[k]))' BY <1>3, <2>1 DEF UploadInv
  <2> QED BY <1>3, <2>2 DEF UploadInv
<1>4. ASSUME NEW j \in Jobs, Unmount(j) PROVE UploadInv' BY <1>3, <1>4 DEF Unmount, server
<1>5. CASE LateRequestLands BY <1>5, LateIsRight
<1>6. CASE Expire
  <2>1. PICK id \in UploadIds : dir' = [dir EXCEPT ![id] = NoDir] BY <1>6 DEF Expire
  <2>2. UNCHANGED <<up, late>> BY <1>6 DEF Expire
  <2>3. PICK j \in Jobs : id = UploadId(j) BY DEF UploadIds
  <2>4. Dir(j)' = NoDir /\ \A k \in Jobs : k # j => Dir(k)' = Dir(k) BY <2>1, <2>3, OneDir
  <2>5. JobRight(j, Dir(j), up[j]) BY DEF UploadInv
  <2>6. JobRight(j, NoDir, up[j]) BY <2>5, GoneIsRight
  <2>7. JobRight(j, Dir(j)', up'[j]) BY <2>2, <2>4, <2>6
  <2> QED BY <2>2, <2>4, <2>7, OthersAreRight
<1>7. CASE UNCHANGED vars BY <1>3, <1>7 DEF vars
<1> QED BY <1>1, <1>2, <1>4, <1>5, <1>6, <1>7 DEF Next

LEMMA UploadInvHolds == DistinctIds => (Spec => [](TypeInv /\ UploadInv))
<1> SUFFICES ASSUME DistinctIds PROVE Spec => [](TypeInv /\ UploadInv)
  OBVIOUS
<1>1. Init => TypeInv /\ UploadInv BY TypeInit, UploadInit
<1>2. TypeInv /\ UploadInv /\ [Next]_vars => (TypeInv /\ UploadInv)' BY TypeStep, UploadStep
<1> QED BY <1>1, <1>2, PTL DEF Spec

-----------------------------------------------------------------------------
(* What the upload promises.                                               *)

LEMMA AcceptedIsWhole ==
  ASSUME NoneEmpty, TypeInv, UploadInv, NEW j \in Jobs, NEW c, Accepts(j, c),
         Total[j] >= Threshold, Assemble(j)
  PROVE  object' = Whole(j)
<1>1. Dir(j) \in Held BY DirHeld DEF Accepts
<1>2. OwnOf(j, Dir(j)) BY DEF UploadInv, JobRight, Accepts
<1>3. Total[j] # 0 BY DEF NoneEmpty
<1>4. Assembled(Dir(j)).len = Total[j] BY DEF Accepts
<1>5. Assembled(Dir(j)) = Whole(j) BY <1>1, <1>2, <1>3, <1>4, SumMakesWhole
<1> QED BY <1>5 DEF Assemble

\* A step leaves the object alone, or puts a whole file there; and an attempt that
\* ends in "ok" has put its own.
LEMMA ObjectStep ==
  ASSUME NoneEmpty, TypeInv, UploadInv, [Next]_vars
  PROVE  /\ object' = object \/ \E j \in Jobs : object' = Whole(j)
         /\ \A j \in Jobs : Attempt(j) /\ up'[j].at = "ok" => object' = Whole(j)
<1>1. ASSUME NEW j \in Jobs, Attempt(j)
      PROVE  /\ object' = object \/ object' = Whole(j)
             /\ up'[j].at = "ok" => object' = Whole(j)
  <2>0. JobRight(j, Dir(j), up[j]) /\ up[j] \in Upload /\ up \in [Jobs -> Upload]
    BY DEF UploadInv, TypeInv, TypeOK
  <2>1. CASE PutSimple(j)
    <3>1. CASE object' = Whole(j) BY <3>1
    <3>2. CASE Refuse(j)
      <4>1. "refused" \in Step BY DEF Step
      <4>2. up'[j].at = "refused" /\ UNCHANGED object BY <3>2, <4>1, GotoType DEF Refuse, server
      <4> QED BY <4>2
    <3>3. CASE Goto(j, "mkcol") /\ UNCHANGED server
      <4>1. "mkcol" \in Step BY DEF Step
      <4>2. up'[j].at = "mkcol" /\ UNCHANGED object BY <3>3, <4>1, GotoType DEF server
      <4> QED BY <4>2
    <3> QED BY <2>1, <3>1, <3>2, <3>3 DEF PutSimple
  <2>2. CASE MoveAssemble(j)
    <3>1. CASE Refuse(j)
      <4>1. "refused" \in Step BY DEF Step
      <4>2. up'[j].at = "refused" /\ UNCHANGED object BY <3>1, <4>1, GotoType DEF Refuse, server
      <4> QED BY <4>2
    <3>2. CASE Accepts(j, Checksum(j)) /\ Assemble(j)
      <4>1. Total[j] >= Threshold BY <2>0, <2>2 DEF JobRight, MoveAssemble
      <4> QED BY <3>2, <4>1, AcceptedIsWhole
    <3> QED BY <2>2, <3>1, <3>2 DEF MoveAssemble
  <2>3. ASSUME NEW step \in Step, step # "ok", Goto(j, step), UNCHANGED object
        PROVE  object' = object /\ up'[j].at # "ok"
    BY <2>3, GotoType
  <2>4. CASE AlreadyPresent(j)
    <3> DEFINE step == IF IsPresent(j) THEN "skipped" ELSE IF Total[j] < Threshold THEN "put" ELSE "probe"
    <3>1. step \in Step /\ step # "ok" BY DEF Step
    <3>2. Goto(j, step) /\ UNCHANGED object BY <2>4 DEF AlreadyPresent, server
    <3> HIDE DEF step
    <3> QED BY <2>3, <3>1, <3>2
  <2>5. CASE MkcolParents(j) BY <2>3, <2>5 DEF MkcolParents, Step
  <2>6. CASE MkcolUploadDir(j) BY <2>3, <2>6 DEF MkcolUploadDir, Step
  <2>7. CASE ResumePresentChunks(j) BY <2>0, <2>7 DEF ResumePresentChunks, server
  <2>8. CASE SkipChunk(j)
    <3>1. up'[j].at \in {"assemble", "chunk"} BY <2>8, NextPartType DEF SkipChunk
    <3> QED BY <2>8, <3>1 DEF SkipChunk, server
  <2>9. CASE PutChunk(j)
    <3>1. CASE Refuse(j) BY <2>3, <3>1 DEF Refuse, server, Step
    <3>2. CASE NextPart(j) /\ UNCHANGED object
      <4>1. up'[j].at \in {"assemble", "chunk"} BY <2>9, <3>2, NextPartType DEF PutChunk
      <4> QED BY <3>2, <4>1
    <3> QED BY <2>9, <3>1, <3>2 DEF PutChunk
  <2>10. CASE RequestFails(j) BY <2>3, <2>10 DEF RequestFails, server, Step
  <2>11. CASE RequestOutlives(j) BY <2>3, <2>11 DEF RequestOutlives, server, Step
  <2>12. CASE ChunkTorn(j) BY <2>3, <2>12 DEF ChunkTorn, Step
  <2> QED BY <1>1, <2>1, <2>2, <2>4, <2>5, <2>6, <2>7, <2>8, <2>9, <2>10, <2>11, <2>12 DEF Attempt
<1>2. ASSUME LateRequestLands PROVE object' = object \/ \E j \in Jobs : object' = Whole(j)
  <2>1. PICK r \in late :
          \/ object' = Whole(r.by)
          \/ UNCHANGED object
          \/ r.kind = "assemble" /\ Accepts(r.by, r.checksum) /\ Assemble(r.by)
    BY <1>2 DEF LateRequestLands
  <2>2. r.by \in Jobs BY DEF TypeInv, TypeOK, Late
  <2>3. r.kind = "assemble" => Total[r.by] >= Threshold BY DEF UploadInv
  <2> QED BY <2>1, <2>2, <2>3, AcceptedIsWhole
<1>3. ASSUME NEW j \in Jobs, StartAttempt(j) PROVE UNCHANGED object BY <1>3 DEF StartAttempt, server
<1>4. ASSUME NEW j \in Jobs, Unmount(j) PROVE UNCHANGED object BY <1>4 DEF Unmount, server
<1>5. ASSUME Expire PROVE UNCHANGED object BY <1>5 DEF Expire
<1>6. object' = object \/ \E j \in Jobs : object' = Whole(j)
  <2>1. CASE UNCHANGED vars BY <2>1 DEF vars
  <2> QED BY <1>1, <1>2, <1>3, <1>4, <1>5, <2>1 DEF Next
<1> QED BY <1>1, <1>6

\* The object is the whole of one file, for every set of ledgers on the account
\* whose files have different upload directories and none of which is empty and yet
\* goes up in chunks: the chunks that earlier attempts, late requests and torn ones
\* left sum to the size sent with the assembly only if each is there in full
\* (put_chunked, move_assemble).
THEOREM ObjectWhole == DistinctIds /\ NoneEmpty => (Spec => []ObjectIsWhole)
<1> SUFFICES ASSUME DistinctIds, NoneEmpty PROVE Spec => []ObjectIsWhole
  OBVIOUS
<1>1. Init => ObjectIsWhole BY DEF Init, ObjectIsWhole
<1>2. TypeInv /\ UploadInv /\ ObjectIsWhole /\ [Next]_vars => ObjectIsWhole'
  BY ObjectStep DEF ObjectIsWhole
<1> QED BY <1>1, <1>2, UploadInvHolds, PTL DEF Spec

\* Only its own attempt moves a job.
LEMMA OwnAttempt ==
  ASSUME TypeInv, [Next]_vars, NEW j \in Jobs, up'[j].at # up[j].at
  PROVE  StartAttempt(j) \/ Attempt(j)
<1>0. up \in [Jobs -> Upload] BY DEF TypeInv, TypeOK
<1>1. ASSUME NEW k \in Jobs, StartAttempt(k) \/ Attempt(k) PROVE k = j
  <2> SUFFICES ASSUME k # j PROVE up'[j] = up[j]
    OBVIOUS
  <2>1. ASSUME NEW step, Goto(k, step) PROVE up'[j] = up[j] BY <1>0, <2>1 DEF Goto
  <2>2. CASE StartAttempt(k) BY <2>1, <2>2 DEF StartAttempt
  <2>3. CASE AlreadyPresent(k) BY <2>1, <2>3 DEF AlreadyPresent
  <2>4. CASE PutSimple(k) BY <2>1, <2>4 DEF PutSimple, Refuse
  <2>5. CASE MkcolParents(k) BY <2>1, <2>5 DEF MkcolParents
  <2>6. CASE ResumePresentChunks(k) BY <1>0, <2>6 DEF ResumePresentChunks
  <2>7. CASE MkcolUploadDir(k) BY <2>1, <2>7 DEF MkcolUploadDir
  <2>8. CASE SkipChunk(k) BY <2>8, NextPartType DEF SkipChunk
  <2>9. CASE PutChunk(k)
    <3>1. CASE Refuse(k) BY <2>1, <3>1 DEF Refuse
    <3>2. CASE NextPart(k) BY <2>9, <3>2, NextPartType DEF PutChunk
    <3> QED BY <2>9, <3>1, <3>2 DEF PutChunk
  <2>10. CASE MoveAssemble(k) BY <2>1, <2>10 DEF MoveAssemble, Refuse
  <2>11. CASE RequestFails(k) BY <2>1, <2>11 DEF RequestFails
  <2>12. CASE RequestOutlives(k) BY <2>1, <2>12 DEF RequestOutlives
  <2>13. CASE ChunkTorn(k) BY <2>1, <2>13 DEF ChunkTorn
  <2> QED BY <1>1, <2>2, <2>3, <2>4, <2>5, <2>6, <2>7, <2>8, <2>9, <2>10, <2>11, <2>12, <2>13 DEF Attempt
<1>2. up' # up OBVIOUS
<1>3. ASSUME NEW k \in Jobs, Unmount(k) PROVE FALSE BY <1>2, <1>3 DEF Unmount
<1>4. CASE LateRequestLands BY <1>2, <1>4 DEF LateRequestLands
<1>5. CASE Expire BY <1>2, <1>5 DEF Expire
<1>6. CASE UNCHANGED vars BY <1>2, <1>6 DEF vars
<1> QED BY <1>1, <1>3, <1>4, <1>5, <1>6 DEF Next

\* A job that an upload of its own, or an object of its size, makes mirrored has its
\* own whole file at the path, if no two files there have one size: the probe
\* compares sizes alone (propfind_present).
THEOREM MirroredStored ==
  DistinctSizes /\ NoneEmpty => (Spec => MirroredIsStored)
<1> SUFFICES ASSUME DistinctSizes, NoneEmpty PROVE Spec => MirroredIsStored
  OBVIOUS
<1>1. DistinctIds BY DEF DistinctIds, DistinctSizes, UploadId
<1> DEFINE Now == \A j \in Jobs : up'[j].at \in {"ok", "skipped"} /\ up[j].at \notin {"ok", "skipped"}
                                    => object' = Whole(j)
<1>2. TypeInv /\ UploadInv /\ ObjectIsWhole /\ [Next]_vars => [Now]_vars
  <2> SUFFICES ASSUME TypeInv, UploadInv, ObjectIsWhole, [Next]_vars, NEW j \in Jobs,
                      up'[j].at \in {"ok", "skipped"}, up[j].at \notin {"ok", "skipped"}
               PROVE  object' = Whole(j)
    OBVIOUS
  <2>1. StartAttempt(j) \/ Attempt(j) BY OwnAttempt
  <2>2. "check" \in Step BY DEF Step
  <2>3. ~StartAttempt(j) BY <2>2, GotoType DEF StartAttempt
  <2>4. Attempt(j) BY <2>1, <2>3
  <2>5. CASE up'[j].at = "ok" BY <2>4, <2>5, ObjectStep
  <2>6. CASE up'[j].at = "skipped"
    <3>1. \A step \in Step \ {"skipped"} : ~Goto(j, step) BY <2>6, GotoType
    <3>2. AlreadyPresent(j)
      <4>1. {"put", "mkcol", "chunk", "ok", "failed", "refused"} \subseteq Step \ {"skipped"} BY DEF Step
      <4>2. up \in [Jobs -> Upload] BY DEF TypeInv, TypeOK
      <4>3. ~PutSimple(j) /\ ~MkcolParents(j) /\ ~MkcolUploadDir(j) /\ ~RequestFails(j)
            /\ ~RequestOutlives(j) /\ ~ChunkTorn(j) /\ ~MoveAssemble(j) /\ ~Refuse(j)
        BY <3>1, <4>1 DEF PutSimple, MkcolParents, MkcolUploadDir, RequestFails,
                          RequestOutlives, ChunkTorn, MoveAssemble, Refuse
      <4>4. ~ResumePresentChunks(j) BY <2>6, <4>2 DEF ResumePresentChunks
      <4>5. ~SkipChunk(j) BY <2>6, NextPartType DEF SkipChunk
      <4>6. ~PutChunk(j) BY <2>6, <4>3, NextPartType DEF PutChunk
      <4> QED BY <2>4, <4>3, <4>4, <4>5, <4>6 DEF Attempt
    <3>3. IsPresent(j)
      <4>1. "put" \in Step \ {"skipped"} /\ "probe" \in Step \ {"skipped"} BY DEF Step
      <4> QED BY <3>1, <3>2, <4>1 DEF AlreadyPresent
    <3>4. PICK k \in Jobs : object = Whole(k) BY <3>3 DEF IsPresent, ObjectIsWhole
    <3>5. Total[k] = Total[j] BY <3>3, <3>4 DEF IsPresent, Whole
    <3>6. k = j BY <3>5 DEF DistinctSizes
    <3>7. UNCHANGED object BY <3>2 DEF AlreadyPresent, server
    <3> QED BY <3>4, <3>6, <3>7
  <2> QED BY <2>5, <2>6
<1>3. Spec => []ObjectIsWhole BY <1>1, ObjectWhole
<1>4. Spec => [](TypeInv /\ UploadInv) BY <1>1, UploadInvHolds
<1> QED BY <1>2, <1>3, <1>4, PTL DEF Spec, MirroredIsStored

\* An attempt is refused only for the local file, the remote folder or the upload
\* directory: whatever earlier attempts left, a directory that is still there when
\* an attempt assembles it holds every chunk in full (resume_present_chunks,
\* put_chunked, move_assemble).
THEOREM RefusalCaused == DistinctIds => (Spec => RefusalHasCause)
<1> SUFFICES ASSUME DistinctIds PROVE Spec => RefusalHasCause
  OBVIOUS
<1> DEFINE Now == \A j \in Jobs : up'[j].at = "refused" /\ up[j].at # "refused"
                                    => ~readable[j] \/ ~folder \/ Dir(j) = NoDir
<1>1. TypeInv /\ UploadInv /\ [Next]_vars => [Now]_vars
  <2> SUFFICES ASSUME TypeInv, UploadInv, [Next]_vars, NEW j \in Jobs,
                      up'[j].at = "refused", up[j].at # "refused",
                      readable[j], folder, Dir(j) # NoDir
               PROVE  FALSE
    OBVIOUS
  <2>1. StartAttempt(j) \/ Attempt(j) BY OwnAttempt
  <2>2. \A step \in Step \ {"refused"} : ~Goto(j, step) BY GotoType
  <2>3. {"check", "skipped", "put", "probe", "mkcol", "chunk", "ok", "failed"} \subseteq Step \ {"refused"}
    BY DEF Step
  <2>4. up \in [Jobs -> Upload] BY DEF TypeInv, TypeOK
  <2>5. ~StartAttempt(j) /\ ~AlreadyPresent(j) /\ ~PutSimple(j) /\ ~MkcolParents(j)
        /\ ~MkcolUploadDir(j) /\ ~RequestFails(j) /\ ~RequestOutlives(j) /\ ~ChunkTorn(j)
    BY <2>2, <2>3 DEF StartAttempt, AlreadyPresent, PutSimple, MkcolParents, MkcolUploadDir,
                      RequestFails, RequestOutlives, ChunkTorn
  <2>6. ~ResumePresentChunks(j) BY <2>4 DEF ResumePresentChunks
  <2>7. ~SkipChunk(j) BY NextPartType DEF SkipChunk
  <2>8. ~PutChunk(j) BY NextPartType DEF PutChunk
  <2>9. ~MoveAssemble(j)
    <3> SUFFICES ASSUME MoveAssemble(j) PROVE FALSE
      OBVIOUS
    <3>1. ~Accepts(j, Checksum(j)) BY <2>2, <2>3 DEF MoveAssemble
    <3>2. Dir(j) \in Held BY DirHeld
    <3>3. OwnOf(j, Dir(j)) /\ Complete(j, Dir(j)) BY DEF UploadInv, JobRight, MoveAssemble
    <3>4. Assembled(Dir(j)) = Whole(j) BY <3>2, <3>3, SumMakesWhole
    <3>5. Assembled(Dir(j)).len = Total[j] BY <3>4 DEF Whole
    <3>6. Checksum(j) \in {NoObject, Assembled(Dir(j))} BY <3>4, ChecksumType
    <3> QED BY <3>1, <3>5, <3>6 DEF Accepts
  <2> QED BY <2>1, <2>5, <2>6, <2>7, <2>8, <2>9 DEF Attempt
<1>2. Spec => [](TypeInv /\ UploadInv) BY UploadInvHolds
<1> QED BY <1>1, <1>2, PTL DEF Spec, RefusalHasCause


-----------------------------------------------------------------------------
(* Induction, over a set instead of a predicate.                           *)

LEMMA CountUp ==
  ASSUME NEW P, 0 \in P, \A n \in Nat : n \in P => n + 1 \in P
  PROVE  Nat \subseteq P
<1> DEFINE Missing == Nat \ P
<1> SUFFICES ASSUME Missing # {} PROVE FALSE
  OBVIOUS
<1>1. PICK m \in Missing : \A n \in Missing : m <= n
  <2>1. Missing \in SUBSET Nat OBVIOUS
  <2> HIDE DEF Missing
  <2> QED BY <2>1, LeastExists
<1>2. m \in Nat /\ m # 0 /\ m \notin P OBVIOUS
<1>3. m - 1 \in Nat /\ (m - 1) + 1 = m /\ ~(m <= m - 1) BY <1>2
<1>4. m - 1 \in P BY <1>1, <1>3
<1> QED BY <1>2, <1>3, <1>4

LEMMA GrowSeq ==
  ASSUME NEW S, NEW P, <<>> \in P, \A s \in Seq(S), e \in S : s \in P => Append(s, e) \in P
  PROVE  Seq(S) \subseteq P
<1> DEFINE Q == {n \in Nat : \A s \in Seq(S) : Len(s) = n => s \in P}
<1>1. 0 \in Q
  <2>1. \A s \in Seq(S) : Len(s) = 0 => s = <<>> OBVIOUS
  <2> QED BY <2>1
<1>2. ASSUME NEW n \in Nat, n \in Q PROVE n + 1 \in Q
  <2> SUFFICES ASSUME NEW s \in Seq(S), Len(s) = n + 1 PROVE s \in P
    OBVIOUS
  <2> DEFINE t == SubSeq(s, 1, n)
             e == s[n + 1]
  <2>1. t \in Seq(S) /\ Len(t) = n /\ e \in S
    OBVIOUS
  <2>2. s = Append(t, e) OBVIOUS
  <2>3. t \in P BY <1>2, <2>1
  <2> HIDE DEF t, e
  <2> QED BY <2>1, <2>2, <2>3
<1> HIDE DEF Q
<1>3. Nat \subseteq Q BY <1>1, <1>2, CountUp
<1>4. \A s \in Seq(S) : Len(s) \in Nat OBVIOUS
<1> QED BY <1>3, <1>4 DEF Q

-----------------------------------------------------------------------------
(* FlattenSeq.                                                             *)

Flattens(s, h) == h = [i \in 1..Len(s) |-> IF i = 1 THEN s[i] ELSE h[i - 1] \o s[i]]

LEMMA FlattensGrows ==
  ASSUME NEW S, NEW s \in Seq(Seq(S)), NEW x \in Seq(S),
         NEW h \in [1..Len(s) -> Seq(S)], Flattens(s, h)
  PROVE  \E g \in [1..Len(Append(s, x)) -> Seq(S)] :
           /\ Flattens(Append(s, x), g)
           /\ g[Len(s) + 1] = IF Len(s) = 0 THEN x ELSE h[Len(s)] \o x
<1> DEFINE n == Len(s)
           t == Append(s, x)
           g == [i \in 1..(n + 1) |-> IF i <= n THEN h[i] ELSE IF n = 0 THEN x ELSE h[n] \o x]
<1>1. n \in Nat /\ Len(t) = n + 1 /\ t[n + 1] = x /\ \A i \in 1..n : t[i] = s[i] OBVIOUS
<1>2. g \in [1..(n + 1) -> Seq(S)]
  <2>1. n # 0 => h[n] \o x \in Seq(S)
    <3> SUFFICES ASSUME n # 0 PROVE h[n] \o x \in Seq(S)
      OBVIOUS
    <3>1. n \in 1..Len(s) BY <1>1
    <3>2. h[n] \in Seq(S) BY <3>1
    <3> QED BY <3>2
  <2> SUFFICES ASSUME NEW i \in 1..(n + 1)
               PROVE  (IF i <= n THEN h[i] ELSE IF n = 0 THEN x ELSE h[n] \o x) \in Seq(S)
    OBVIOUS
  <2>2. CASE i <= n
    <3>1. i \in 1..Len(s) BY <1>1, <2>2
    <3> QED BY <2>2, <3>1
  <2>3. CASE ~(i <= n) BY <2>1, <2>3
  <2> QED BY <2>2, <2>3
<1> HIDE DEF n
<1>3. \A i \in 1..(n + 1) : g[i] = IF i = 1 THEN t[i] ELSE g[i - 1] \o t[i]
  <2> TAKE i \in 1..(n + 1)
  <2>1. CASE i <= n
    <3>1. i \in 1..n /\ g[i] = h[i] BY <1>1, <2>1
    <3>2. h[i] = IF i = 1 THEN s[i] ELSE h[i - 1] \o s[i] BY <3>1 DEF Flattens, n
    <3>3. i # 1 => g[i - 1] = h[i - 1]
      <4>1. i # 1 => i - 1 \in 1..(n + 1) /\ i - 1 <= n BY <1>1, <2>1
      <4> QED BY <4>1
    <3> HIDE DEF g, t
    <3> QED BY <1>1, <3>1, <3>2, <3>3
  <2>2. CASE ~(i <= n)
    <3>1. i = n + 1 BY <1>1, <2>2
    <3>2. t[i] = x BY <1>1, <3>1
    <3>3. g[i] = IF n = 0 THEN x ELSE h[n] \o x BY <2>2
    <3>4. n # 0 => g[i - 1] = h[n]
      <4>1. n # 0 => n \in 1..(n + 1) /\ n <= n /\ i - 1 = n BY <1>1, <3>1
      <4> QED BY <4>1
    <3>5. n = 0 <=> i = 1 BY <1>1, <3>1
    <3> HIDE DEF g, t
    <3> QED BY <3>2, <3>3, <3>4, <3>5
  <2> QED BY <2>1, <2>2
<1>4. g[n + 1] = IF n = 0 THEN x ELSE h[n] \o x
  <2>1. n + 1 \in 1..(n + 1) /\ ~(n + 1 <= n) BY <1>1
  <2> QED BY <2>1
<1>5. g = [i \in 1..(n + 1) |-> g[i]] OBVIOUS
<1> HIDE DEF g, t
<1>6. g = [i \in 1..Len(t) |-> IF i = 1 THEN t[i] ELSE g[i - 1] \o t[i]]
  BY <1>1, <1>3, <1>5
<1> QED BY <1>1, <1>2, <1>4, <1>6 DEF Flattens, n, t

LEMMA FlattensExists ==
  ASSUME NEW S, NEW s \in Seq(Seq(S))
  PROVE  \E h \in [1..Len(s) -> Seq(S)] : Flattens(s, h)
<1> DEFINE P == {r \in Seq(Seq(S)) : \E h \in [1..Len(r) -> Seq(S)] : Flattens(r, h)}
<1>1. <<>> \in P
  <2> DEFINE h == [i \in 1..0 |-> <<>>]
  <2>1. h \in [1..Len(<<>>) -> Seq(S)] OBVIOUS
  <2>2. Flattens(<<>>, h)
    <3>1. 1..Len(<<>>) = {} OBVIOUS
    <3>2. h = [i \in 1..Len(<<>>) |-> IF i = 1 THEN <<>>[i] ELSE h[i - 1] \o <<>>[i]] BY <3>1
    <3> QED BY <3>2 DEF Flattens
  <2>3. <<>> \in Seq(Seq(S)) OBVIOUS
  <2> HIDE DEF h
  <2> QED BY <2>1, <2>2, <2>3
<1>2. ASSUME NEW r \in Seq(Seq(S)), NEW e \in Seq(S), r \in P PROVE Append(r, e) \in P
  <2>1. PICK h \in [1..Len(r) -> Seq(S)] : Flattens(r, h) BY <1>2
  <2>2. \E g \in [1..Len(Append(r, e)) -> Seq(S)] : Flattens(Append(r, e), g)
    BY <2>1, FlattensGrows
  <2> QED BY <2>2
<1> HIDE DEF P
<1>3. Seq(Seq(S)) \subseteq P BY <1>1, <1>2, GrowSeq
<1> QED BY <1>3 DEF P

LEMMA FlattensUnique ==
  ASSUME NEW s, NEW h, NEW g, Len(s) \in Nat, Flattens(s, h), Flattens(s, g)
  PROVE  h = g
<1> DEFINE P == {n \in Nat : n \in 1..Len(s) => h[n] = g[n]}
<1>1. \A i \in 1..Len(s) : /\ h[i] = IF i = 1 THEN s[i] ELSE h[i - 1] \o s[i]
                           /\ g[i] = IF i = 1 THEN s[i] ELSE g[i - 1] \o s[i]
  BY DEF Flattens
<1>2. 0 \in P OBVIOUS
<1>3. ASSUME NEW n \in Nat, n \in P PROVE n + 1 \in P
  <2> SUFFICES ASSUME n + 1 \in 1..Len(s) PROVE h[n + 1] = g[n + 1]
    OBVIOUS
  <2>1. n + 1 # 1 => h[n] = g[n] BY <1>3
  <2>2. (n + 1) - 1 = n OBVIOUS
  <2> QED BY <1>1, <2>1, <2>2
<1> HIDE DEF P
<1>4. Nat \subseteq P BY <1>2, <1>3, CountUp
<1>5. \A i \in 1..Len(s) : h[i] = g[i] BY <1>4 DEF P
<1> QED BY <1>5 DEF Flattens

LEMMA FlattenIs ==
  ASSUME NEW S, NEW s \in Seq(Seq(S)), NEW h \in [1..Len(s) -> Seq(S)], Flattens(s, h)
  PROVE  FlattenSeq(s) = IF Len(s) = 0 THEN <<>> ELSE h[Len(s)]
<1>1. Len(s) \in Nat /\ (Len(s) = 0 => s = <<>>) OBVIOUS
<1>2. \A g : Flattens(s, g) <=> g = h BY <1>1, FlattensUnique
<1> QED BY <1>1, <1>2 DEF FlattenSeq, Flattens

\* Flattening takes the sequences one by one.
LEMMA FlattenStep ==
  ASSUME NEW S
  PROVE  /\ FlattenSeq(<<>>) = <<>>
         /\ \A s \in Seq(Seq(S)), x \in Seq(S) :
              FlattenSeq(s) \in Seq(S) /\ FlattenSeq(Append(s, x)) = FlattenSeq(s) \o x
<1>1. FlattenSeq(<<>>) = <<>> BY DEF FlattenSeq
<1>2. ASSUME NEW s \in Seq(Seq(S)), NEW x \in Seq(S)
      PROVE  FlattenSeq(s) \in Seq(S) /\ FlattenSeq(Append(s, x)) = FlattenSeq(s) \o x
  <2>1. PICK h \in [1..Len(s) -> Seq(S)] : Flattens(s, h) BY FlattensExists
  <2>2. PICK g \in [1..Len(Append(s, x)) -> Seq(S)] :
          /\ Flattens(Append(s, x), g)
          /\ g[Len(s) + 1] = IF Len(s) = 0 THEN x ELSE h[Len(s)] \o x
    BY <2>1, FlattensGrows
  <2>3. Append(s, x) \in Seq(Seq(S)) /\ Len(Append(s, x)) = Len(s) + 1 /\ Len(s) \in Nat OBVIOUS
  <2>4. FlattenSeq(s) = IF Len(s) = 0 THEN <<>> ELSE h[Len(s)] BY <2>1, FlattenIs
  <2>5. FlattenSeq(Append(s, x)) = g[Len(s) + 1]
    <3>1. Len(Append(s, x)) # 0 BY <2>3
    <3> QED BY <2>2, <2>3, <3>1, FlattenIs
  <2>6. FlattenSeq(s) \in Seq(S)
    <3>1. Len(s) # 0 => Len(s) \in 1..Len(s) BY <2>3
    <3>2. Len(s) # 0 => h[Len(s)] \in Seq(S) BY <3>1
    <3>3. <<>> \in Seq(S) OBVIOUS
    <3> QED BY <2>4, <3>2, <3>3
  <2>7. <<>> \o x = x OBVIOUS
  <2> QED BY <2>2, <2>4, <2>5, <2>6, <2>7
<1> QED BY <1>1, <1>2


LEMMA FlattenNext ==
  ASSUME NEW S, NEW n \in Nat, NEW f \in [1..n -> Seq(S)], NEW g \in [1..(n + 1) -> Seq(S)],
         \A i \in 1..n : g[i] = f[i]
  PROVE  /\ FlattenSeq(f) \in Seq(S)
         /\ FlattenSeq(g) = FlattenSeq(f) \o g[n + 1]
<1> DEFINE x == g[n + 1]
<1>1. f \in Seq(Seq(S)) /\ g \in Seq(Seq(S)) /\ x \in Seq(S)
  <2>1. f \in Seq(Seq(S)) /\ g \in Seq(Seq(S)) BY SeqDef
  <2>2. n + 1 \in 1..(n + 1) OBVIOUS
  <2> QED BY <2>1, <2>2
<1>2. Len(f) = n /\ Len(g) = n + 1 BY <1>1, LenProperties
<1> HIDE DEF x
<1>3. g = Append(f, x)
  <2>1. /\ Append(f, x) \in Seq(Seq(S)) /\ Len(Append(f, x)) = n + 1
        /\ \A i \in 1..(n + 1) : Append(f, x)[i] = IF i <= n THEN f[i] ELSE x
    BY <1>1, <1>2, AppendProperties
  <2>2. \A i \in 1..(n + 1) : g[i] = IF i <= n THEN f[i] ELSE x
    <3> TAKE i \in 1..(n + 1)
    <3>1. i <= n => i \in 1..n OBVIOUS
    <3>2. ~(i <= n) => i = n + 1 OBVIOUS
    <3> QED BY <3>1, <3>2 DEF x
  <2> QED BY <1>1, <1>2, <2>1, <2>2, SeqEqual
<1> QED BY <1>1, <1>3, FlattenStep DEF x

-----------------------------------------------------------------------------
(* The server decodes what the uploader encodes.                           *)

LEMMA One ==
  ASSUME NEW S, NEW e \in S
  PROVE  <<e>> \in Seq(S) /\ Len(<<e>>) = 1 /\ <<e>>[1] = e
OBVIOUS

LEMMA Two ==
  ASSUME NEW S, NEW e \in S, NEW f \in S
  PROVE  <<e, f>> \in Seq(S) /\ Len(<<e, f>>) = 2 /\ <<e, f>>[1] = e /\ <<e, f>>[2] = f
OBVIOUS


\* The pieces of a text: the provers do not know that a literal is in STRING.
Plain ==
  (STRING \cup {".", "/", "_", "%", "#", "?", " ", "U+FFFD", "20", "23", "3F", "25", "2F", "EFBFBD",
                "unknown", "GoPro", "HERO11", "HERO13", "MAX2 family"}) \ {"|"}
Letters == Plain \cup {"|"}

LEMMA CodesTell ==
  /\ DOMAIN Codes = {" ", "#", "?", "%", "/", "U+FFFD"}
  /\ DOMAIN Codes \subseteq Plain
  /\ \A p \in DOMAIN Codes : /\ Codes[p] \in Plain
                             /\ Codes[p] \notin {"%", "?", "#", "/", "|"}
                             /\ Meant(Codes[p]) = p
<1>1. DOMAIN Codes = {" ", "#", "?", "%", "/", "U+FFFD"} BY DEF Codes
<1>2. /\ Codes[" "] = "20" /\ Codes["#"] = "23" /\ Codes["?"] = "3F" /\ Codes["%"] = "25"
      /\ Codes["/"] = "2F" /\ Codes["U+FFFD"] = "EFBFBD"
  BY DEF Codes
<1>3. \A p, q \in DOMAIN Codes : Codes[p] = Codes[q] => p = q BY <1>1, <1>2
<1>4. \A p \in DOMAIN Codes : Meant(Codes[p]) = p
  <2> TAKE p \in DOMAIN Codes
  <2>1. \A q \in DOMAIN Codes : Codes[q] = Codes[p] <=> q = p BY <1>3
  <2> HIDE DEF Codes
  <2> QED BY <2>1 DEF Meant
<1>5. \A p \in DOMAIN Codes : Codes[p] \in {"20", "23", "3F", "25", "2F", "EFBFBD"} BY <1>1, <1>2
<1>6. {"20", "23", "3F", "25", "2F", "EFBFBD"} \subseteq Plain BY DEF Plain
<1>7. \A c \in {"20", "23", "3F", "25", "2F", "EFBFBD"} : c \notin {"%", "?", "#", "/", "|"} OBVIOUS
<1>8. DOMAIN Codes \subseteq Plain BY <1>1 DEF Plain
<1> QED BY <1>1, <1>4, <1>5, <1>6, <1>7, <1>8

Read(path) == FlattenSeq([i \in DOMAIN path |-> Decoded(path, i)])

\* A path as it is sent: no query or fragment in it, and no code begun at its end.
Sent(path) ==
  /\ path \in Seq(Plain)
  /\ \A i \in 1..Len(path) : path[i] \notin {"?", "#"}
  /\ Len(path) # 0 => path[Len(path)] # "%"

LEMMA DecodedType ==
  ASSUME NEW path \in Seq(Plain), NEW i \in 1..Len(path)
  PROVE  Decoded(path, i) \in Seq(Letters)
<1>1. path[i] \in Letters BY ElementOfSeq DEF Letters
<1>2. Coded(path, i) => Meant(path[i]) \in Letters BY CodesTell DEF Coded, Letters
<1>3. \A p \in Letters : <<p>> \in Seq(Letters) BY One
<1>4. <<>> \in Seq(Letters) /\ <<"|">> \in Seq(Letters) BY <1>3, EmptySeq DEF Letters
<1>5. CASE Coded(path, i) BY <1>2, <1>3, <1>5 DEF Decoded
<1>6. CASE ~Coded(path, i) BY <1>1, <1>3, <1>4, <1>6 DEF Decoded
<1> QED BY <1>5, <1>6

\* What follows a path does not change its reading, if it does not begin with a code's end.
LEMMA SameReading ==
  ASSUME NEW path \in Seq(Plain), NEW long \in Seq(Plain), Len(path) < Len(long),
         \A i \in 1..Len(path) : long[i] = path[i],
         ~Coded(long, Len(path) + 1)
  PROVE  \A i \in 1..Len(path) : Decoded(long, i) = Decoded(path, i)
<1> DEFINE n == Len(path)
<1>1. n \in Nat /\ DOMAIN path = 1..n /\ DOMAIN long = 1..Len(long) /\ Len(long) \in Nat
  BY LenProperties
<1> HIDE DEF n
<1> SUFFICES ASSUME NEW i \in 1..n PROVE Decoded(long, i) = Decoded(path, i)
  BY DEF n
<1>2. \A j \in 1..n : Coded(long, j) <=> Coded(path, j)
  <2> TAKE j \in 1..n
  <2>1. j # 1 => j - 1 \in 1..n BY <1>1
  <2>2. j \in 1..Len(long) BY <1>1 DEF n
  <2>3. long[j] = path[j] /\ (j # 1 => long[j - 1] = path[j - 1]) BY <2>1 DEF n
  <2> QED BY <1>1, <2>1, <2>2, <2>3 DEF Coded
<1>3. Coded(long, i + 1) <=> Coded(path, i + 1)
  <2>1. CASE i + 1 \in 1..n BY <1>2, <2>1
  <2>2. CASE i + 1 \notin 1..n
    <3>1. i + 1 = n + 1 BY <1>1, <2>2
    <3>2. ~Coded(path, n + 1) BY <1>1, <2>2, <3>1 DEF Coded
    <3> QED BY <3>1, <3>2 DEF n
  <2> QED BY <2>1, <2>2
<1>4. long[i] = path[i] BY DEF n
<1> QED BY <1>2, <1>3, <1>4 DEF Decoded

LEMMA ReadType == \A path \in Seq(Plain) : Read(path) \in Seq(Letters)
<1> SUFFICES ASSUME NEW path \in Seq(Plain) PROVE Read(path) \in Seq(Letters)
  OBVIOUS
<1> DEFINE f == [i \in 1..Len(path) |-> Decoded(path, i)]
           g == [i \in 1..(Len(path) + 1) |-> IF i <= Len(path) THEN f[i] ELSE <<>>]
<1>1. Len(path) \in Nat /\ DOMAIN path = 1..Len(path) BY LenProperties
<1>2. f \in [1..Len(path) -> Seq(Letters)] BY DecodedType
<1>3. g \in [1..(Len(path) + 1) -> Seq(Letters)]
  <2>1. \A i \in 1..(Len(path) + 1) : i <= Len(path) => i \in 1..Len(path) BY <1>1
  <2> HIDE DEF f
  <2> QED BY <1>2, <2>1, EmptySeq
<1>4. \A i \in 1..Len(path) : g[i] = f[i]
  <2>1. \A i \in 1..Len(path) : i \in 1..(Len(path) + 1) /\ i <= Len(path) BY <1>1
  <2> HIDE DEF f
  <2> QED BY <2>1
<1>5. Read(path) = FlattenSeq(f) BY <1>1 DEF Read
<1> HIDE DEF f, g
<1> QED BY <1>1, <1>2, <1>3, <1>4, <1>5, FlattenNext

\* What one piece more, that is not a code's end, adds.
LEMMA ReadStep ==
  ASSUME NEW path \in Seq(Plain), NEW long \in Seq(Plain), Len(long) = Len(path) + 1,
         \A i \in 1..Len(path) : long[i] = path[i],
         ~Coded(long, Len(path) + 1)
  PROVE  Read(long) = Read(path) \o Decoded(long, Len(path) + 1)
<1> DEFINE n == Len(path)
           f == [i \in 1..n |-> Decoded(path, i)]
           g == [i \in 1..(n + 1) |-> Decoded(long, i)]
<1>1. n \in Nat /\ DOMAIN path = 1..n /\ DOMAIN long = 1..(n + 1) /\ Len(long) = n + 1
  BY LenProperties
<1>2. f \in [1..n -> Seq(Letters)] /\ g \in [1..(n + 1) -> Seq(Letters)]
  BY <1>1, DecodedType
<1>3. \A i \in 1..n : Decoded(long, i) = Decoded(path, i) BY <1>1, SameReading
<1> HIDE DEF n
<1>4. \A i \in 1..n : g[i] = f[i]
  <2>1. \A i \in 1..n : i \in 1..(n + 1) BY <1>1
  <2> QED BY <1>3, <2>1
<1>5. g[n + 1] = Decoded(long, n + 1)
  <2>1. n + 1 \in 1..(n + 1) BY <1>1
  <2> QED BY <2>1
<1>6. Read(path) = FlattenSeq(f) /\ Read(long) = FlattenSeq(g) BY <1>1 DEF Read
<1> HIDE DEF f, g
<1>7. FlattenSeq(g) = FlattenSeq(f) \o g[n + 1] BY <1>1, <1>2, <1>4, FlattenNext
<1> QED BY <1>5, <1>6, <1>7 DEF n

\* What a whole code adds.
LEMMA ReadPair ==
  ASSUME NEW path \in Seq(Plain), NEW long \in Seq(Plain), Len(long) = Len(path) + 2,
         \A i \in 1..Len(path) : long[i] = path[i],
         ~Coded(long, Len(path) + 1)
  PROVE  Read(long) = (Read(path) \o Decoded(long, Len(path) + 1)) \o Decoded(long, Len(path) + 2)
<1> DEFINE n == Len(path)
           f == [i \in 1..n |-> Decoded(path, i)]
           g == [i \in 1..(n + 1) |-> Decoded(long, i)]
           h == [i \in 1..((n + 1) + 1) |-> Decoded(long, i)]
<1>1. n \in Nat /\ DOMAIN path = 1..n /\ DOMAIN long = 1..(n + 2) /\ Len(long) = n + 2
  BY LenProperties
<1>2. (n + 1) + 1 = n + 2 /\ 1..(n + 1) \subseteq 1..(n + 2) BY <1>1
<1>3. \A i \in 1..(n + 2) : Decoded(long, i) \in Seq(Letters) BY <1>1, DecodedType
<1>4. f \in [1..n -> Seq(Letters)] BY <1>1, DecodedType
<1>5. g \in [1..(n + 1) -> Seq(Letters)] /\ h \in [1..((n + 1) + 1) -> Seq(Letters)]
  BY <1>2, <1>3
<1>6. \A i \in 1..n : Decoded(long, i) = Decoded(path, i) BY <1>1, SameReading
<1> HIDE DEF n
<1>7. \A i \in 1..n : g[i] = f[i]
  <2>1. \A i \in 1..n : i \in 1..(n + 1) BY <1>1
  <2> QED BY <1>6, <2>1
<1>8. \A i \in 1..(n + 1) : h[i] = g[i]
  <2>1. \A i \in 1..(n + 1) : i \in 1..((n + 1) + 1) BY <1>1
  <2> QED BY <2>1
<1>9. g[n + 1] = Decoded(long, n + 1) /\ h[(n + 1) + 1] = Decoded(long, n + 2)
  <2>1. n + 1 \in 1..(n + 1) /\ (n + 1) + 1 \in 1..((n + 1) + 1) BY <1>1
  <2> QED BY <1>2, <2>1
<1>10. Read(path) = FlattenSeq(f) /\ Read(long) = FlattenSeq(h) BY <1>1, <1>2 DEF Read
<1> HIDE DEF f, g, h
<1>11. FlattenSeq(g) = FlattenSeq(f) \o g[n + 1] BY <1>1, <1>4, <1>5, <1>7, FlattenNext
<1>12. FlattenSeq(h) = FlattenSeq(g) \o h[(n + 1) + 1]
  <2>1. n + 1 \in Nat BY <1>1
  <2> QED BY <1>5, <1>8, <2>1, FlattenNext
<1> QED BY <1>9, <1>10, <1>11, <1>12 DEF n

LEMMA Longer ==
  ASSUME NEW path \in Seq(Plain), NEW e \in Seq(Plain)
  PROVE  /\ path \o e \in Seq(Plain)
         /\ Len(path) \in Nat /\ Len(e) \in Nat /\ Len(path \o e) = Len(path) + Len(e)
         /\ \A i \in 1..Len(path) : (path \o e)[i] = path[i]
         /\ \A i \in 1..Len(e) : (path \o e)[Len(path) + i] = e[i]
<1>1. Len(path) \in Nat /\ Len(e) \in Nat BY LenProperties
<1>2. /\ path \o e \in Seq(Plain)
      /\ Len(path \o e) = Len(path) + Len(e)
      /\ \A i \in 1..(Len(path) + Len(e)) :
           (path \o e)[i] = IF i <= Len(path) THEN path[i] ELSE e[i - Len(path)]
  BY ConcatProperties
<1>3. \A i \in 1..Len(path) : i \in 1..(Len(path) + Len(e)) /\ i <= Len(path) BY <1>1
<1>4. \A i \in 1..Len(e) : /\ Len(path) + i \in 1..(Len(path) + Len(e))
                           /\ ~(Len(path) + i <= Len(path)) /\ (Len(path) + i) - Len(path) = i
  BY <1>1
<1> QED BY <1>1, <1>2, <1>3, <1>4

LEMMA SentStays ==
  ASSUME NEW path, Sent(path), NEW e \in Seq(Plain), Len(e) # 0, e[Len(e)] # "%",
         \A i \in 1..Len(e) : e[i] \notin {"?", "#"}
  PROVE  Sent(path \o e)
<1> DEFINE long == path \o e
<1>1. path \in Seq(Plain) BY DEF Sent
<1>2. /\ long \in Seq(Plain)
      /\ Len(path) \in Nat /\ Len(e) \in Nat /\ Len(long) = Len(path) + Len(e)
      /\ \A i \in 1..Len(path) : long[i] = path[i]
      /\ \A i \in 1..Len(e) : long[Len(path) + i] = e[i]
  BY <1>1, Longer
<1> HIDE DEF long
<1>3. ASSUME NEW i \in 1..Len(long) PROVE long[i] \notin {"?", "#"}
  <2>1. CASE i \in 1..Len(path) BY <1>2, <2>1 DEF Sent
  <2>2. CASE i \notin 1..Len(path)
    <3>1. i - Len(path) \in 1..Len(e) /\ Len(path) + (i - Len(path)) = i BY <1>2, <2>2
    <3> QED BY <1>2, <3>1
  <2> QED BY <2>1, <2>2
<1>4. long[Len(long)] # "%"
  <2>1. Len(e) \in 1..Len(e) BY <1>2
  <2> QED BY <1>2, <2>1
<1> QED BY <1>2, <1>3, <1>4 DEF Sent, long

LEMMA SlashRead ==
  ASSUME NEW path, Sent(path)
  PROVE  Sent(path \o <<"/">>) /\ Read(path \o <<"/">>) = Read(path) \o <<"|">>
<1> DEFINE e == <<"/">>
           long == path \o e
           n == Len(path)
<1>1. path \in Seq(Plain) BY DEF Sent
<1>2. e \in Seq(Plain) /\ Len(e) = 1 /\ e[1] = "/" BY One DEF Plain
<1>3. Sent(long)
  <2> HIDE DEF e
  <2>1. \A i \in 1..Len(e) : i = 1 BY <1>2
  <2> QED BY <1>2, <2>1, SentStays
<1>4. /\ long \in Seq(Plain)
      /\ n \in Nat /\ Len(long) = n + 1
      /\ \A i \in 1..n : long[i] = path[i]
      /\ long[n + 1] = "/"
  <2> HIDE DEF e
  <2>1. 1 \in 1..Len(e) BY <1>2
  <2>2. /\ path \o e \in Seq(Plain)
        /\ Len(path) \in Nat /\ Len(path \o e) = Len(path) + Len(e)
        /\ \A i \in 1..Len(path) : (path \o e)[i] = path[i]
        /\ \A i \in 1..Len(e) : (path \o e)[Len(path) + i] = e[i]
    BY <1>1, <1>2, Longer
  <2> QED BY <1>2, <2>1, <2>2
<1> HIDE DEF long, n, e
<1>5. ~Coded(long, n + 1) BY <1>4, CodesTell DEF Coded
<1>6. ~Coded(long, (n + 1) + 1)
  <2>1. DOMAIN long = 1..(n + 1) BY <1>4, LenProperties
  <2>2. (n + 1) + 1 \notin 1..(n + 1) BY <1>4
  <2> QED BY <2>1, <2>2 DEF Coded
<1>7. Decoded(long, n + 1) = <<"|">> BY <1>4, <1>5, <1>6 DEF Decoded
<1>8. Read(long) = Read(path) \o Decoded(long, n + 1) BY <1>1, <1>4, <1>5, ReadStep DEF n
<1> QED BY <1>3, <1>7, <1>8 DEF long, e

LEMMA PieceRead ==
  ASSUME NEW path, Sent(path), NEW p \in Plain
  PROVE  /\ Encoded(p) \in Seq(Plain)
         /\ Sent(path \o Encoded(p))
         /\ Read(path \o Encoded(p)) = Read(path) \o <<p>>
<1> DEFINE e == Encoded(p)
           long == path \o e
           n == Len(path)
<1>1. path \in Seq(Plain) BY DEF Sent
<1>2. CASE p \in DOMAIN Codes
  <2>1. e = <<"%", Codes[p]>> BY <1>2 DEF Encoded
  <2>2. "%" \in Plain BY DEF Plain
  <2>3. /\ Codes[p] \in Plain /\ Codes[p] \notin {"%", "?", "#", "/", "|"} /\ Meant(Codes[p]) = p
    BY <1>2, CodesTell
  <2>4. e \in Seq(Plain) /\ Len(e) = 2 /\ e[1] = "%" /\ e[2] = Codes[p] BY <2>1, <2>2, <2>3, Two
  <2> HIDE DEF e
  <2>5. \A i \in 1..Len(e) : i = 1 \/ i = 2 BY <2>4
  <2>6. Sent(long)
    <3>1. Len(e) # 0 /\ e[Len(e)] # "%" /\ \A i \in 1..Len(e) : e[i] \notin {"?", "#"}
      BY <2>3, <2>4, <2>5
    <3> QED BY <2>4, <3>1, SentStays
  <2>7. /\ long \in Seq(Plain)
        /\ n \in Nat /\ Len(long) = n + 2
        /\ \A i \in 1..n : long[i] = path[i]
        /\ long[n + 1] = "%" /\ long[n + 2] = Codes[p]
    <3>1. 1 \in 1..Len(e) /\ 2 \in 1..Len(e) BY <2>4
    <3>2. /\ path \o e \in Seq(Plain)
          /\ Len(path) \in Nat /\ Len(path \o e) = Len(path) + Len(e)
          /\ \A i \in 1..Len(path) : (path \o e)[i] = path[i]
          /\ \A i \in 1..Len(e) : (path \o e)[Len(path) + i] = e[i]
      BY <1>1, <2>4, Longer
    <3> QED BY <2>4, <3>1, <3>2
  <2> HIDE DEF long, n
  <2>8. DOMAIN long = 1..(n + 2) BY <2>7, LenProperties
  <2>9. ~Coded(long, n + 1) BY <2>7, CodesTell DEF Coded
  <2>10. Coded(long, n + 2)
    <3>1. n + 2 \in 1..(n + 2) /\ n + 2 # 1 /\ (n + 2) - 1 = n + 1 BY <2>7
    <3>2. \E q \in DOMAIN Codes : Codes[q] = long[n + 2] BY <1>2, <2>7
    <3> QED BY <2>7, <2>8, <3>1, <3>2 DEF Coded
  <2>11. Decoded(long, n + 2) = <<p>> BY <2>3, <2>7, <2>10 DEF Decoded
  <2>12. Decoded(long, n + 1) = <<>>
    <3>1. (n + 1) + 1 = n + 2 BY <2>7
    <3> QED BY <2>9, <2>10, <3>1 DEF Decoded
  <2>13. Read(long) = (Read(path) \o Decoded(long, n + 1)) \o Decoded(long, n + 2)
    BY <1>1, <2>7, <2>9, ReadPair DEF n
  <2>14. Read(path) \o <<>> = Read(path)
    <3>1. Read(path) \in Seq(Letters) BY <1>1, ReadType
    <3> QED BY <3>1, ConcatEmptySeq
  <2> QED BY <2>4, <2>6, <2>11, <2>12, <2>13, <2>14 DEF long, e
<1>3. CASE p \notin DOMAIN Codes
  <2>1. e = <<p>> BY <1>3 DEF Encoded
  <2>2. p \notin {"%", "?", "#", "/"} BY <1>3, CodesTell
  <2>3. e \in Seq(Plain) /\ Len(e) = 1 /\ e[1] = p BY <2>1, One
  <2> HIDE DEF e
  <2>4. \A i \in 1..Len(e) : i = 1 BY <2>3
  <2>5. Sent(long)
    <3>1. Len(e) # 0 /\ e[Len(e)] # "%" /\ \A i \in 1..Len(e) : e[i] \notin {"?", "#"}
      BY <2>2, <2>3, <2>4
    <3> QED BY <2>3, <3>1, SentStays
  <2>6. /\ long \in Seq(Plain)
        /\ n \in Nat /\ Len(long) = n + 1
        /\ \A i \in 1..n : long[i] = path[i]
        /\ long[n + 1] = p
    <3>1. 1 \in 1..Len(e) BY <2>3
    <3>2. /\ path \o e \in Seq(Plain)
          /\ Len(path) \in Nat /\ Len(path \o e) = Len(path) + Len(e)
          /\ \A i \in 1..Len(path) : (path \o e)[i] = path[i]
          /\ \A i \in 1..Len(e) : (path \o e)[Len(path) + i] = e[i]
      BY <1>1, <2>3, Longer
    <3> QED BY <2>3, <3>1, <3>2
  <2> HIDE DEF long, n
  <2>7. DOMAIN long = 1..(n + 1) BY <2>6, LenProperties
  <2>8. ~Coded(long, n + 1)
    <3>1. n + 1 # 1 => n # 0 /\ n \in 1..n /\ (n + 1) - 1 = n BY <2>6
    <3>2. n + 1 # 1 => long[(n + 1) - 1] # "%" BY <2>6, <3>1 DEF Sent, n
    <3> QED BY <3>2 DEF Coded
  <2>9. ~Coded(long, (n + 1) + 1)
    <3>1. (n + 1) + 1 \notin 1..(n + 1) BY <2>6
    <3> QED BY <2>7, <3>1 DEF Coded
  <2>10. Decoded(long, n + 1) = <<p>> BY <2>2, <2>6, <2>8, <2>9 DEF Decoded
  <2>11. Read(long) = Read(path) \o Decoded(long, n + 1) BY <1>1, <2>6, <2>8, ReadStep DEF n
  <2> QED BY <2>1, <2>3, <2>5, <2>10, <2>11 DEF long, e
<1> QED BY <1>2, <1>3

LEMMA Regroup ==
  \A a, b, c \in Seq(Plain) : (a \o b) \o c = a \o (b \o c)
<1> DEFINE S == Plain
<1> HIDE DEF S
<1>1. \A a, b, c \in Seq(S) : (a \o b) \o c = a \o (b \o c)
  <2> TAKE a, b, c \in Seq(S)
  <2> QED BY ConcatAssociative
<1> QED BY <1>1 DEF S

\* What a piece becomes in a path, where a slash stays one.
OnPath(p) == IF p = "/" THEN <<"/">> ELSE Encoded(p)

LEMMA EncodedType ==
  \A p \in Plain : Encoded(p) \in Seq(Plain) /\ OnPath(p) \in Seq(Plain)
<1> TAKE p \in Plain
<1>1. "%" \in Plain /\ "/" \in Plain BY DEF Plain
<1>2. CASE p \in DOMAIN Codes
  <2>1. Codes[p] \in Plain BY <1>2, CodesTell
  <2>2. <<"%", Codes[p]>> \in Seq(Plain) /\ <<"/">> \in Seq(Plain) BY <1>1, <2>1, One, Two
  <2> QED BY <1>2, <2>2 DEF Encoded, OnPath
<1>3. CASE p \notin DOMAIN Codes
  <2>1. <<p>> \in Seq(Plain) /\ <<"/">> \in Seq(Plain) BY <1>1, One
  <2> QED BY <1>3, <2>1 DEF Encoded, OnPath
<1> QED BY <1>2, <1>3

LEMMA EncodeStep ==
  ASSUME NEW t \in Seq(Plain), NEW p \in Plain
  PROVE  /\ EncodeSegment(t) \in Seq(Plain)
         /\ EncodePathSegments(t) \in Seq(Plain)
         /\ EncodeSegment(Append(t, p)) = EncodeSegment(t) \o Encoded(p)
         /\ EncodePathSegments(Append(t, p)) = EncodePathSegments(t) \o OnPath(p)
<1> DEFINE n == Len(t)
           u == Append(t, p)
           f == [i \in 1..n |-> Encoded(t[i])]
           g == [i \in 1..(n + 1) |-> Encoded(u[i])]
           h == [i \in 1..n |-> OnPath(t[i])]
           k == [i \in 1..(n + 1) |-> OnPath(u[i])]
<1>1. /\ n \in Nat /\ DOMAIN t = 1..n /\ u \in Seq(Plain) /\ Len(u) = n + 1
      /\ DOMAIN u = 1..(n + 1) /\ u[n + 1] = p /\ \A i \in 1..n : u[i] = t[i]
  <2>1. n \in Nat /\ DOMAIN t = 1..n BY LenProperties
  <2>2. u \in Seq(Plain) /\ Len(u) = n + 1 /\ u[n + 1] = p /\ \A i \in 1..n : u[i] = t[i]
    BY AppendProperties
  <2> QED BY <2>1, <2>2, LenProperties
<1>2. (\A i \in 1..n : t[i] \in Plain) /\ \A i \in 1..(n + 1) : u[i] \in Plain
  BY <1>1, ElementOfSeq
<1>3. \A i \in 1..n : i \in 1..(n + 1) BY <1>1
<1>4. n + 1 \in 1..(n + 1) BY <1>1
<1>5. /\ EncodeSegment(t) = FlattenSeq(f) /\ EncodeSegment(u) = FlattenSeq(g)
  BY <1>1 DEF EncodeSegment
<1>6. /\ EncodePathSegments(t) = FlattenSeq(h) /\ EncodePathSegments(u) = FlattenSeq(k)
  BY <1>1 DEF EncodePathSegments, OnPath
<1> HIDE DEF n, u
<1>7. /\ f \in [1..n -> Seq(Plain)] /\ g \in [1..(n + 1) -> Seq(Plain)]
      /\ h \in [1..n -> Seq(Plain)] /\ k \in [1..(n + 1) -> Seq(Plain)]
  BY <1>2, EncodedType
<1>8. (\A i \in 1..n : g[i] = f[i]) /\ \A i \in 1..n : k[i] = h[i]
  BY <1>1, <1>3
<1>9. g[n + 1] = Encoded(p) /\ k[n + 1] = OnPath(p) BY <1>1, <1>4
<1> HIDE DEF f, g, h, k
<1>10. FlattenSeq(f) \in Seq(Plain) /\ FlattenSeq(g) = FlattenSeq(f) \o g[n + 1]
  BY <1>1, <1>7, <1>8, FlattenNext
<1>11. FlattenSeq(h) \in Seq(Plain) /\ FlattenSeq(k) = FlattenSeq(h) \o k[n + 1]
  BY <1>1, <1>7, <1>8, FlattenNext
<1> QED BY <1>5, <1>6, <1>9, <1>10, <1>11 DEF u

LEMMA EncodeEmpty == EncodeSegment(<<>>) = <<>> /\ EncodePathSegments(<<>>) = <<>>
<1>1. /\ [i \in DOMAIN <<>> |-> Encoded(<<>>[i])] = <<>>
      /\ [i \in DOMAIN <<>> |-> IF <<>>[i] = "/" THEN <<"/">> ELSE Encoded(<<>>[i])] = <<>>
  OBVIOUS
<1> QED BY <1>1, FlattenStep DEF EncodeSegment, EncodePathSegments

\* A segment is read as it was written.
LEMMA SegmentRead ==
  ASSUME NEW path, Sent(path)
  PROVE  \A t \in Seq(Plain) : /\ Sent(path \o EncodeSegment(t))
                               /\ Read(path \o EncodeSegment(t)) = Read(path) \o t
<1> DEFINE P == {t \in Seq(Plain) : /\ Sent(path \o EncodeSegment(t))
                                    /\ Read(path \o EncodeSegment(t)) = Read(path) \o t}
<1>1. path \in Seq(Plain) /\ Read(path) \in Seq(Letters) BY ReadType DEF Sent
<1>2. <<>> \in P
  <2>1. path \o <<>> = path /\ Read(path) \o <<>> = Read(path) /\ <<>> \in Seq(Plain)
    BY <1>1, ConcatEmptySeq, EmptySeq
  <2> QED BY <2>1, EncodeEmpty
<1>3. ASSUME NEW t \in Seq(Plain), NEW p \in Plain, t \in P PROVE Append(t, p) \in P
  <2>1. /\ EncodeSegment(t) \in Seq(Plain) /\ Encoded(p) \in Seq(Plain)
        /\ EncodeSegment(Append(t, p)) = EncodeSegment(t) \o Encoded(p)
    BY EncodeStep, EncodedType
  <2>2. Sent(path \o EncodeSegment(t)) /\ Read(path \o EncodeSegment(t)) = Read(path) \o t
    BY <1>3
  <2> DEFINE long == path \o EncodeSegment(t)
  <2>3. path \o EncodeSegment(Append(t, p)) = long \o Encoded(p)
    <3>1. long \o Encoded(p) = path \o (EncodeSegment(t) \o Encoded(p))
      BY <1>1, <2>1, Regroup, Zenon
    <3> QED BY <2>1, <3>1, Zenon
  <2>4. Append(t, p) = t \o <<p>> /\ Append(t, p) \in Seq(Plain)
    BY AppendIsConcat, AppendProperties
  <2>5. Read(path) \o (t \o <<p>>) = (Read(path) \o t) \o <<p>>
    <3>1. Plain \subseteq Letters BY DEF Letters
    <3>2. t \in Seq(Letters) /\ <<p>> \in Seq(Letters) BY <3>1, SeqMonotonic, One
    <3> QED BY <1>1, <3>2, Regroup
  <2> HIDE DEF long
  <2>6. Sent(long) /\ Read(long) = Read(path) \o t BY <2>2 DEF long
  <2>7. Sent(long \o Encoded(p)) /\ Read(long \o Encoded(p)) = Read(long) \o <<p>>
    BY <2>6, PieceRead
  <2> QED BY <2>3, <2>4, <2>5, <2>6, <2>7
<1> HIDE DEF P
<1>4. Seq(Plain) \subseteq P BY <1>2, <1>3, GrowSeq
<1> QED BY <1>4 DEF P

\* A path that goes on by segments may still be sent.
LEMMA PathSent ==
  ASSUME NEW path, Sent(path)
  PROVE  \A t \in Seq(Plain) : Sent(path \o EncodePathSegments(t))
<1> DEFINE P == {t \in Seq(Plain) : Sent(path \o EncodePathSegments(t))}
<1>1. path \in Seq(Plain) BY DEF Sent
<1>2. <<>> \in P
  <2>1. path \o <<>> = path /\ <<>> \in Seq(Plain) BY <1>1, ConcatEmptySeq, EmptySeq
  <2> QED BY <2>1, EncodeEmpty
<1>3. ASSUME NEW t \in Seq(Plain), NEW p \in Plain, t \in P PROVE Append(t, p) \in P
  <2>1. /\ EncodePathSegments(t) \in Seq(Plain) /\ OnPath(p) \in Seq(Plain)
        /\ EncodePathSegments(Append(t, p)) = EncodePathSegments(t) \o OnPath(p)
    BY EncodeStep, EncodedType
  <2> DEFINE long == path \o EncodePathSegments(t)
  <2>2. path \o EncodePathSegments(Append(t, p)) = long \o OnPath(p)
    <3>1. long \o OnPath(p) = path \o (EncodePathSegments(t) \o OnPath(p))
      BY <1>1, <2>1, Regroup, Zenon
    <3> QED BY <2>1, <3>1, Zenon
  <2>3. Append(t, p) \in Seq(Plain) BY AppendProperties
  <2>4. Sent(long) BY <1>3
  <2> HIDE DEF long
  <2>5. Sent(long \o OnPath(p))
    <3>1. CASE p = "/" BY <2>4, <3>1, SlashRead DEF OnPath
    <3>2. CASE p # "/" BY <2>4, <3>2, PieceRead DEF OnPath
    <3> QED BY <3>1, <3>2
  <2> QED BY <2>2, <2>3, <2>5
<1> HIDE DEF P
<1>4. Seq(Plain) \subseteq P BY <1>2, <1>3, GrowSeq
<1> QED BY <1>4 DEF P

\* A name without a slash is one segment of the path that ends in it.
LEMMA NameIsSegment ==
  ASSUME NEW t \in Seq(Plain)
  PROVE  \A name \in Seq(Plain \ {"/"}) :
           EncodePathSegments(t \o name) = EncodePathSegments(t) \o EncodeSegment(name)
<1> DEFINE S == Plain \ {"/"}
           P == {name \in Seq(S) :
                   EncodePathSegments(t \o name) = EncodePathSegments(t) \o EncodeSegment(name)}
<1>1. EncodePathSegments(t) \in Seq(Plain)
  <2>1. "/" \in Plain BY DEF Plain
  <2> QED BY <2>1, EncodeStep
<1>2. <<>> \in P
  <2>1. t \o <<>> = t /\ <<>> \in Seq(S) /\ EncodePathSegments(t) \o <<>> = EncodePathSegments(t)
    BY <1>1, ConcatEmptySeq, EmptySeq
  <2> QED BY <2>1, EncodeEmpty
<1>3. ASSUME NEW r \in Seq(S), NEW p \in S, r \in P PROVE Append(r, p) \in P
  <2>1. S \subseteq Plain OBVIOUS
  <2>2. r \in Seq(Plain) /\ p \in Plain /\ p # "/" BY <2>1, SeqMonotonic
  <2>3. t \o Append(r, p) = Append(t \o r, p) /\ t \o r \in Seq(Plain)
    <3>1. Append(r, p) = r \o <<p>> /\ <<p>> \in Seq(Plain) BY <2>2, AppendIsConcat, One
    <3>2. t \o r \in Seq(Plain) BY <2>2, ConcatProperties
    <3>3. Append(t \o r, p) = (t \o r) \o <<p>> BY <2>2, <3>2, AppendIsConcat
    <3> QED BY <2>2, <3>1, <3>2, <3>3, Regroup
  <2>4. EncodePathSegments(Append(t \o r, p)) = EncodePathSegments(t \o r) \o Encoded(p)
    BY <2>2, <2>3, EncodeStep DEF OnPath
  <2>5. /\ EncodeSegment(Append(r, p)) = EncodeSegment(r) \o Encoded(p)
        /\ EncodeSegment(r) \in Seq(Plain) /\ Encoded(p) \in Seq(Plain)
    BY <2>2, EncodeStep, EncodedType
  <2>6. EncodePathSegments(t \o r) = EncodePathSegments(t) \o EncodeSegment(r) BY <1>3
  <2>7. Append(r, p) \in Seq(S) BY AppendProperties
  <2>8. (EncodePathSegments(t) \o EncodeSegment(r)) \o Encoded(p)
          = EncodePathSegments(t) \o (EncodeSegment(r) \o Encoded(p))
    BY <1>1, <2>5, Regroup, Zenon
  <2> QED BY <2>3, <2>4, <2>5, <2>6, <2>7, <2>8
<1> HIDE DEF P
<1>4. Seq(S) \subseteq P BY <1>2, <1>3, GrowSeq
<1> QED BY <1>4 DEF P

LEMMA SentIsPath == \A url : Sent(url) => PathOf(url) = url
<1> SUFFICES ASSUME NEW url, Sent(url) PROVE PathOf(url) = url
  OBVIOUS
<1>1. {i \in 1..Len(url) : url[i] \in {"?", "#"}} = {} BY DEF Sent
<1>2. SelectInSeq(url, LAMBDA p : p \in {"?", "#"}) = 0 BY <1>1 DEF SelectInSeq
<1> QED BY <1>2 DEF PathOf

-----------------------------------------------------------------------------
(* The object of a job.                                                    *)

\* A text and what IsText says of one.
LEMMA TextIsPlain == \A t : IsText(t) => t \in Seq(Plain)
<1> SUFFICES ASSUME NEW t, IsText(t) PROVE t \in Seq(Plain)
  OBVIOUS
<1>1. t \in [1..Len(t) -> STRING] /\ Len(t) \in Nat /\ DOMAIN t = 1..Len(t)
  BY LenProperties DEF IsText
<1>2. \A i \in 1..Len(t) : t[i] \in Plain BY <1>1 DEF IsText, Plain
<1>3. t \in [1..Len(t) -> Plain] BY <1>1, <1>2
<1> QED BY <1>1, <1>3, SeqDef

\* What stands before the name in a remote path: nothing, or a path with its slash.
LeadsIn(t) == t = <<>> \/ \E r \in Seq(Plain) : t = r \o <<"/">>

LEMMA TrimPlain ==
  \A t \in Seq(Plain) : TrimStart(t) \in Seq(Plain) /\ TrimEnd(t) \in Seq(Plain)
<1> TAKE t \in Seq(Plain)
<1>1. TrimStart(t) \in Seq(Plain) BY HeadTailProperties DEF TrimStart
<1>2. TrimEnd(t) \in Seq(Plain)
  <2>1. CASE t # <<>>
    <3>1. Len(t) \in Nat /\ Len(t) # 0 BY <2>1, EmptySeq
    <3>2. Front(t) \in Seq(Plain)
      <4>1. \A i \in 1..(Len(t) - 1) : i \in 1..Len(t) BY <3>1
      <4>2. \A i \in 1..(Len(t) - 1) : t[i] \in Plain BY <4>1, ElementOfSeq
      <4>3. 1 \in Int /\ Len(t) - 1 \in Int BY <3>1
      <4> QED BY <4>2, <4>3, SubSeqProperties DEF Front
    <3> QED BY <3>2 DEF TrimEnd
  <2>2. CASE t = <<>> BY <2>2 DEF TrimEnd
  <2> QED BY <2>1, <2>2
<1> QED BY <1>1, <1>2

\* A name with no separator in it keeps its slashes away.
LEMMA TrimName ==
  \A name \in Seq(Plain \ {"/"}) : TrimStart(name) = name
<1> TAKE name \in Seq(Plain \ {"/"})
<1>1. name # <<>> => Head(name) # "/" BY HeadTailProperties
<1> QED BY <1>1 DEF TrimStart

\* A joined path is the name with what leads in to it.
LEMMA JoinLeads ==
  ASSUME NEW root \in Seq(Plain), NEW t \in Seq(Plain), LeadsIn(t), NEW name \in Seq(Plain)
  PROVE  \E u \in Seq(Plain) : LeadsIn(u) /\ Join(root, t \o name) = u \o name
<1>1. CASE root = <<>> BY <1>1 DEF Join
<1>2. CASE root # <<>>
  <2> DEFINE r == root \o <<"/">>
  <2>1. <<"/">> \in Seq(Plain) BY One DEF Plain
  <2>2. r \in Seq(Plain) BY <2>1, ConcatProperties
  <2>3. Join(root, t \o name) = r \o (t \o name) BY <1>2 DEF Join
  <2>4. Join(root, t \o name) = (r \o t) \o name /\ r \o t \in Seq(Plain)
    <3> HIDE DEF r
    <3>1. (r \o t) \o name = r \o (t \o name) BY <2>2, Regroup, Zenon
    <3>2. r \o t \in Seq(Plain) BY <2>2, ConcatProperties
    <3> QED BY <2>3, <3>1, <3>2
  <2>5. LeadsIn(r \o t)
    <3>1. CASE t = <<>>
      <4>1. r \o t = r
        <5> HIDE DEF r
        <5> QED BY <2>2, <3>1, ConcatEmptySeq
      <4> QED BY <4>1 DEF LeadsIn
    <3>2. CASE t # <<>>
      <4>1. PICK q \in Seq(Plain) : t = q \o <<"/">> BY <3>2 DEF LeadsIn
      <4> HIDE DEF r
      <4>2. r \o t = (r \o q) \o <<"/">> /\ r \o q \in Seq(Plain)
        <5>1. (r \o q) \o <<"/">> = r \o (q \o <<"/">>) BY <2>1, <2>2, Regroup
        <5>2. r \o q \in Seq(Plain) BY <2>2, ConcatProperties
        <5> QED BY <4>1, <5>1, <5>2
      <4> QED BY <4>2 DEF LeadsIn
    <3> QED BY <3>1, <3>2
  <2> HIDE DEF r
  <2> QED BY <2>4, <2>5
<1> QED BY <1>1, <1>2

\* Trimming the start of a remote path leaves the name, and a slash before it.
LEMMA TrimLeads ==
  ASSUME NEW t \in Seq(Plain), LeadsIn(t), NEW name \in Seq(Plain \ {"/"})
  PROVE  \E u \in Seq(Plain) : LeadsIn(u) /\ TrimStart(t \o name) = u \o name
<1>1. name \in Seq(Plain)
  <2>1. Plain \ {"/"} \subseteq Plain OBVIOUS
  <2> QED BY <2>1, SeqMonotonic
<1>2. CASE t = <<>>
  <2>1. t \o name = name BY <1>1, <1>2, ConcatEmptySeq
  <2>2. TrimStart(t \o name) = t \o name BY <2>1, TrimName
  <2> QED BY <2>2
<1>3. CASE t # <<>>
  <2>1. PICK q \in Seq(Plain) : t = q \o <<"/">> BY <1>3 DEF LeadsIn
  <2>2. <<"/">> \in Seq(Plain) BY One DEF Plain
  <2> DEFINE whole == t \o name
  <2>3. whole \in Seq(Plain) BY <1>1, ConcatProperties
  <2>4. CASE whole # <<>> /\ Head(whole) = "/"
    <3>1. TrimStart(whole) = Tail(whole) BY <2>4 DEF TrimStart
    <3>2. Tail(whole) = Tail(t) \o name
      <4>1. Len(t) \in Nat /\ Len(t) # 0 /\ Len(name) \in Nat BY <1>1, <1>3, EmptySeq, LenProperties
      <4>2. /\ Tail(t) \in Seq(Plain) /\ Len(Tail(t)) = Len(t) - 1
            /\ \A i \in 1..Len(Tail(t)) : Tail(t)[i] = t[i + 1]
        BY <1>3, HeadTailProperties
      <4>3. /\ Len(whole) = Len(t) + Len(name)
            /\ \A i \in 1..(Len(t) + Len(name)) :
                 whole[i] = IF i <= Len(t) THEN t[i] ELSE name[i - Len(t)]
        BY <1>1, ConcatProperties
      <4> DEFINE rest == Tail(t) \o name
      <4>4. /\ rest \in Seq(Plain) /\ Len(rest) = Len(Tail(t)) + Len(name)
            /\ \A i \in 1..(Len(Tail(t)) + Len(name)) :
                 rest[i] = IF i <= Len(Tail(t)) THEN Tail(t)[i] ELSE name[i - Len(Tail(t))]
        BY <1>1, <4>2, ConcatProperties
      <4> HIDE DEF whole, rest
      <4>5. /\ Tail(whole) \in Seq(Plain) /\ Len(Tail(whole)) = Len(whole) - 1
            /\ \A i \in 1..Len(Tail(whole)) : Tail(whole)[i] = whole[i + 1]
        BY <2>3, <2>4, HeadTailProperties
      <4>6. ASSUME NEW i \in 1..Len(Tail(whole)) PROVE Tail(whole)[i] = rest[i]
        <5>1. i + 1 \in 1..(Len(t) + Len(name)) /\ i \in 1..(Len(Tail(t)) + Len(name))
          BY <4>1, <4>2, <4>3, <4>5
        <5>2. (i + 1 <= Len(t)) <=> (i <= Len(Tail(t))) BY <4>1, <4>2, <5>1
        <5>3. (i + 1) - Len(t) = i - Len(Tail(t)) BY <4>1, <4>2, <5>1
        <5>4. i <= Len(Tail(t)) => i \in 1..Len(Tail(t)) BY <4>1, <4>2, <5>1
        <5> QED BY <4>2, <4>3, <4>4, <4>5, <5>1, <5>2, <5>3, <5>4
      <4>7. Len(Tail(whole)) = Len(rest) BY <4>1, <4>2, <4>3, <4>4, <4>5
      <4> QED BY <4>4, <4>5, <4>6, <4>7, SeqEqual DEF rest
    <3>3. Tail(t) \in Seq(Plain) /\ LeadsIn(Tail(t))
      <4>1. t = Append(q, "/")
        <5>1. "/" \in Plain BY DEF Plain
        <5> QED BY <2>1, <5>1, AppendIsConcat
      <4>2. Tail(t) = IF q = <<>> THEN <<>> ELSE Append(Tail(q), "/") BY <4>1, HeadTailAppend
      <4>3. CASE q = <<>> BY <4>2, <4>3, EmptySeq DEF LeadsIn
      <4>4. CASE q # <<>>
        <5>1. Tail(q) \in Seq(Plain) BY <4>4, HeadTailProperties
        <5>2. "/" \in Plain BY DEF Plain
        <5>3. Tail(t) = Tail(q) \o <<"/">> BY <4>2, <4>4, <5>1, <5>2, AppendIsConcat
        <5> QED BY <2>2, <5>1, <5>3, ConcatProperties DEF LeadsIn
      <4> QED BY <4>3, <4>4
    <3> QED BY <3>1, <3>2, <3>3
  <2>5. CASE ~(whole # <<>> /\ Head(whole) = "/")
    <3>1. TrimStart(whole) = whole BY <2>5 DEF TrimStart
    <3> QED BY <3>1
  <2> QED BY <2>4, <2>5
<1> QED BY <1>2, <1>3

\* The path of a URL of the program, read by the server, ends in the name.
LEMMA UrlRead ==
  ASSUME NEW user \in Seq(Plain), NEW t \in Seq(Plain), LeadsIn(t),
         NEW name \in Seq(Plain \ {"/"})
  PROVE  \E o \in Seq(Letters) : ObjectAt(FilesUrl(user, t \o name)) = (o \o <<"|">>) \o name
<1> DEFINE u == EncodeSegment(user)
           v == u \o <<"/">>
           w == v \o EncodePathSegments(t)
           url == w \o EncodeSegment(name)
<1>1. "/" \in Plain /\ <<"/">> \in Seq(Plain) BY One DEF Plain
<1>2. name \in Seq(Plain)
  <2>1. Plain \ {"/"} \subseteq Plain OBVIOUS
  <2> QED BY <2>1, SeqMonotonic
<1>3. Sent(u)
  <2>1. u \in Seq(Plain) BY <1>1, EncodeStep
  <2>2. Sent(<<>>) BY EmptySeq DEF Sent
  <2>3. Sent(<<>> \o u) BY <2>2, SegmentRead
  <2> HIDE DEF u
  <2>4. <<>> \o u = u BY <2>1, ConcatEmptySeq
  <2> QED BY <2>3, <2>4
<1>4. EncodePathSegments(t) \in Seq(Plain) /\ EncodeSegment(name) \in Seq(Plain)
  BY <1>1, <1>2, EncodeStep
<1> HIDE DEF u
<1>5. u \in Seq(Plain) /\ v \in Seq(Plain) BY <1>1, <1>3, ConcatProperties DEF Sent
<1>6. Sent(v) BY <1>3, SlashRead
<1>7. FilesUrl(user, t \o name) = url
  <2>1. EncodePathSegments(t \o name) = EncodePathSegments(t) \o EncodeSegment(name)
    BY NameIsSegment
  <2>2. v \o (EncodePathSegments(t) \o EncodeSegment(name)) = url
    <3>1. v \in Seq(Plain) BY <1>5
    <3> HIDE DEF v
    <3>2. v \o (EncodePathSegments(t) \o EncodeSegment(name))
            = (v \o EncodePathSegments(t)) \o EncodeSegment(name)
      BY <1>4, <3>1, Regroup, Zenon
    <3> QED BY <3>2
  <2>3. FilesUrl(user, t \o name) = v \o EncodePathSegments(t \o name) BY DEF FilesUrl, u
  <2> QED BY <2>1, <2>2, <2>3
<1>8. \E q : Sent(q) /\ w = q \o <<"/">>
  <2>1. CASE t = <<>>
    <3>1. w = v
      <4> HIDE DEF v
      <4> QED BY <1>5, <2>1, EncodeEmpty, ConcatEmptySeq
    <3> QED BY <1>3, <3>1
  <2>2. CASE t # <<>>
    <3>1. PICK r \in Seq(Plain) : t = r \o <<"/">> BY <2>2 DEF LeadsIn
    <3>2. t = Append(r, "/") BY <1>1, <3>1, AppendIsConcat
    <3>3. EncodePathSegments(t) = EncodePathSegments(r) \o <<"/">>
      BY <1>1, <3>2, EncodeStep DEF OnPath
    <3>4. EncodePathSegments(r) \in Seq(Plain) BY <1>1, EncodeStep
    <3>5. Sent(v \o EncodePathSegments(r)) BY <1>6, PathSent
    <3> HIDE DEF v
    <3>6. v \o (EncodePathSegments(r) \o <<"/">>) = (v \o EncodePathSegments(r)) \o <<"/">>
      <4>1. v \in Seq(Plain) /\ EncodePathSegments(r) \in Seq(Plain) /\ <<"/">> \in Seq(Plain)
        BY <1>1, <1>5, <3>4
      <4> QED BY <4>1, Regroup
    <3> QED BY <3>3, <3>5, <3>6
  <2> QED BY <2>1, <2>2
<1>9. PICK q : Sent(q) /\ w = q \o <<"/">> BY <1>8
<1> HIDE DEF w
<1>10. Sent(w) /\ Read(w) = Read(q) \o <<"|">> BY <1>9, SlashRead
<1>11. Sent(url) /\ Read(url) = Read(w) \o name BY <1>2, <1>10, SegmentRead
<1> HIDE DEF url
<1>12. ObjectAt(url) = Read(url) BY <1>11, SentIsPath DEF ObjectAt, Read
<1>13. Read(q) \in Seq(Letters) BY <1>9, ReadType DEF Sent
<1> QED BY <1>7, <1>10, <1>11, <1>12, <1>13

\* Whatever the roots were and are, the remote path of a name ends in it.
LEMMA RemoteRead ==
  ASSUME NEW root \in Seq(Plain), NEW user \in Seq(Plain), NEW old \in Seq(Plain),
         NEW name \in Seq(Plain \ {"/"})
  PROVE  \E o \in Seq(Letters) :
           ObjectAt(FilesUrl(user, RemoteRel(root, RemotePathFor(old, name)))) = (o \o <<"|">>) \o name
<1>1. name \in Seq(Plain)
  <2>1. Plain \ {"/"} \subseteq Plain OBVIOUS
  <2> QED BY <2>1, SeqMonotonic
<1>2. <<>> \in Seq(Plain) /\ LeadsIn(<<>>) /\ <<>> \o name = name
  BY <1>1, EmptySeq, ConcatEmptySeq DEF LeadsIn
<1>3. TrimStart(name) = name BY TrimName
<1>4. PICK t \in Seq(Plain) : LeadsIn(t) /\ RemotePathFor(old, name) = t \o name
  <2>1. TrimEnd(old) \in Seq(Plain) BY TrimPlain
  <2>2. \E u \in Seq(Plain) : LeadsIn(u) /\ Join(TrimEnd(old), <<>> \o name) = u \o name
    BY <1>1, <1>2, <2>1, JoinLeads
  <2> QED BY <1>2, <1>3, <2>2 DEF RemotePathFor
<1>5. PICK s \in Seq(Plain) : LeadsIn(s) /\ TrimStart(t \o name) = s \o name
  BY <1>4, TrimLeads
<1>6. PICK u \in Seq(Plain) :
        LeadsIn(u) /\ RemoteRel(root, RemotePathFor(old, name)) = u \o name
  <2> DEFINE r == TrimStart(TrimEnd(root))
  <2>1. r \in Seq(Plain) BY TrimPlain
  <2> HIDE DEF r
  <2>2. PICK u \in Seq(Plain) : LeadsIn(u) /\ Join(r, s \o name) = u \o name
    BY <1>1, <1>5, <2>1, JoinLeads
  <2>3. RemoteRel(root, RemotePathFor(old, name)) = Join(r, s \o name)
    BY <1>4, <1>5 DEF RemoteRel, r
  <2> QED BY <2>2, <2>3
<1>7. \E o \in Seq(Letters) : ObjectAt(FilesUrl(user, u \o name)) = (o \o <<"|">>) \o name
  BY <1>6, UrlRead
<1> QED BY <1>6, <1>7

\* Where a name begins in its object's path.
LEMMA NameStarts ==
  ASSUME NEW o \in Seq(Letters), NEW name \in Seq(Plain)
  PROVE  LET s == (o \o <<"|">>) \o name IN
         /\ s \in Seq(Letters)
         /\ Len(o) \in Nat /\ Len(name) \in Nat
         /\ Len(s) = Len(o) + 1 + Len(name)
         /\ s[Len(o) + 1] = "|"
         /\ \A i \in 1..Len(name) : s[Len(o) + 1 + i] = name[i]
<1> DEFINE b == o \o <<"|">>
           s == b \o name
<1>1. name \in Seq(Letters)
  <2>1. Plain \subseteq Letters BY DEF Letters
  <2> QED BY <2>1, SeqMonotonic
<1>2. <<"|">> \in Seq(Letters) /\ Len(<<"|">>) = 1 /\ <<"|">>[1] = "|" BY One DEF Letters
<1>3. Len(o) \in Nat /\ Len(name) \in Nat BY <1>1, LenProperties
<1>4. b \in Seq(Letters) /\ Len(b) = Len(o) + 1 /\ b[Len(o) + 1] = "|"
  <2>1. /\ b \in Seq(Letters) /\ Len(b) = Len(o) + Len(<<"|">>)
        /\ \A i \in 1..(Len(o) + Len(<<"|">>)) :
             b[i] = IF i <= Len(o) THEN o[i] ELSE <<"|">>[i - Len(o)]
    BY <1>2, ConcatProperties
  <2>2. /\ Len(o) + 1 \in 1..(Len(o) + Len(<<"|">>)) /\ ~(Len(o) + 1 <= Len(o))
        /\ (Len(o) + 1) - Len(o) = 1
    BY <1>2, <1>3
  <2>3. b[Len(o) + 1] = <<"|">>[(Len(o) + 1) - Len(o)] BY <2>1, <2>2
  <2> QED BY <1>2, <2>1, <2>2, <2>3
<1> HIDE DEF b
<1>5. /\ s \in Seq(Letters) /\ Len(s) = Len(b) + Len(name)
      /\ \A i \in 1..(Len(b) + Len(name)) : s[i] = IF i <= Len(b) THEN b[i] ELSE name[i - Len(b)]
  BY <1>1, <1>4, ConcatProperties
<1>6. s[Len(o) + 1] = "|"
  <2>1. Len(o) + 1 \in 1..(Len(b) + Len(name)) /\ Len(o) + 1 <= Len(b) BY <1>3, <1>4
  <2> QED BY <1>4, <1>5, <2>1
<1>7. ASSUME NEW i \in 1..Len(name) PROVE s[Len(o) + 1 + i] = name[i]
  <2> DEFINE k == Len(o) + 1 + i
  <2>1. k \in 1..(Len(b) + Len(name)) /\ ~(k <= Len(b)) /\ k - Len(b) = i BY <1>3, <1>4
  <2> HIDE DEF k
  <2>2. s[k] = name[i] BY <1>5, <2>1
  <2> QED BY <2>2 DEF k
<1> QED BY <1>3, <1>4, <1>5, <1>6, <1>7 DEF b

\* The path of an object tells the name.
LEMMA NotLonger ==
  ASSUME NEW o \in Seq(Letters), NEW name \in Seq(Plain),
         NEW p \in Seq(Letters), NEW other \in Seq(Plain),
         (o \o <<"|">>) \o name = (p \o <<"|">>) \o other
  PROVE  ~(Len(name) < Len(other))
<1> DEFINE s == (o \o <<"|">>) \o name
<1>1. /\ Len(o) \in Nat /\ Len(name) \in Nat /\ Len(s) = Len(o) + 1 + Len(name)
      /\ s[Len(o) + 1] = "|"
  BY NameStarts
<1>2. /\ Len(p) \in Nat /\ Len(other) \in Nat /\ Len(s) = Len(p) + 1 + Len(other)
      /\ \A i \in 1..Len(other) : s[Len(p) + 1 + i] = other[i]
  BY NameStarts
<1> HIDE DEF s
<1> SUFFICES ASSUME Len(name) < Len(other) PROVE FALSE
  OBVIOUS
<1> DEFINE i == Len(o) - Len(p)
<1>3. i \in 1..Len(other) /\ Len(p) + 1 + i = Len(o) + 1 BY <1>1, <1>2
<1> HIDE DEF i
<1>4. other[i] = "|" BY <1>1, <1>2, <1>3
<1>5. other[i] \in Plain BY <1>3, ElementOfSeq
<1> QED BY <1>4, <1>5 DEF Plain

LEMMA PathTellsName ==
  ASSUME NEW o \in Seq(Letters), NEW name \in Seq(Plain),
         NEW p \in Seq(Letters), NEW other \in Seq(Plain),
         (o \o <<"|">>) \o name = (p \o <<"|">>) \o other
  PROVE  name = other
<1> DEFINE s == (o \o <<"|">>) \o name
<1>1. /\ Len(o) \in Nat /\ Len(name) \in Nat /\ Len(s) = Len(o) + 1 + Len(name)
      /\ \A i \in 1..Len(name) : s[Len(o) + 1 + i] = name[i]
  BY NameStarts
<1>2. /\ Len(p) \in Nat /\ Len(other) \in Nat /\ Len(s) = Len(p) + 1 + Len(other)
      /\ \A i \in 1..Len(other) : s[Len(p) + 1 + i] = other[i]
  BY NameStarts
<1>3. ~(Len(name) < Len(other)) /\ ~(Len(other) < Len(name)) BY NotLonger
<1> HIDE DEF s
<1>4. Len(name) = Len(other) /\ Len(o) = Len(p) BY <1>1, <1>2, <1>3
<1>5. \A i \in 1..Len(name) : name[i] = other[i] BY <1>1, <1>2, <1>4
<1> QED BY <1>4, <1>5, SeqEqual

LEMMA SuffixOf ==
  ASSUME NEW o \in Seq(Letters), NEW name \in Seq(Plain)
  PROVE  IsSuffix(<<"|">> \o name, (o \o <<"|">>) \o name)
<1> DEFINE t == <<"|">> \o name
           s == o \o t
<1>1. name \in Seq(Letters)
  <2>1. Plain \subseteq Letters BY DEF Letters
  <2> QED BY <2>1, SeqMonotonic
<1>2. <<"|">> \in Seq(Letters) BY One DEF Letters
<1>3. s = (o \o <<"|">>) \o name BY <1>1, <1>2, ConcatAssociative
<1>4. t \in Seq(Letters) BY <1>1, <1>2, ConcatProperties
<1> HIDE DEF t
<1>5. /\ s \in Seq(Letters) /\ Len(s) = Len(o) + Len(t)
      /\ \A i \in 1..(Len(o) + Len(t)) : s[i] = IF i <= Len(o) THEN o[i] ELSE t[i - Len(o)]
  BY <1>4, ConcatProperties
<1>6. Len(o) \in Nat /\ Len(t) \in Nat BY <1>4, LenProperties
<1> HIDE DEF s
<1>7. /\ Reverse(t) = [i \in 1..Len(t) |-> t[(Len(t) - i) + 1]]
      /\ Reverse(s) = [i \in 1..Len(s) |-> s[(Len(s) - i) + 1]]
  BY DEF Reverse
<1>8. Len(Reverse(t)) = Len(t) /\ Len(Reverse(s)) = Len(s)
  <2>1. Reverse(t) \in Seq(Letters) /\ Reverse(s) \in Seq(Letters)
    <3>1. \A i \in 1..Len(t) : (Len(t) - i) + 1 \in 1..Len(t) BY <1>6
    <3>2. \A i \in 1..Len(s) : (Len(s) - i) + 1 \in 1..Len(s) BY <1>5, <1>6
    <3>3. /\ Reverse(t) \in [1..Len(t) -> Letters]
          /\ Reverse(s) \in [1..Len(s) -> Letters]
      BY <1>4, <1>5, <1>7, <3>1, <3>2, ElementOfSeq
    <3>4. Len(s) \in Nat BY <1>5, <1>6
    <3> QED BY <1>6, <3>3, <3>4, SeqDef
  <2> QED BY <1>5, <1>6, <1>7, <2>1, LenProperties
<1>9. \A i \in 1..Len(t) : Reverse(s)[i] = Reverse(t)[i]
  <2> TAKE i \in 1..Len(t)
  <2> DEFINE k == (Len(t) - i) + 1
  <2>1. /\ i \in 1..Len(s) /\ (Len(s) - i) + 1 = Len(o) + k
        /\ Len(o) + k \in 1..(Len(o) + Len(t)) /\ ~(Len(o) + k <= Len(o))
        /\ (Len(o) + k) - Len(o) = k
    BY <1>5, <1>6
  <2>2. Reverse(s)[i] = s[(Len(s) - i) + 1] /\ Reverse(t)[i] = t[k] BY <1>7, <2>1
  <2> HIDE DEF k
  <2> QED BY <1>5, <2>1, <2>2
<1>10. Len(t) <= Len(s) BY <1>5, <1>6
<1>11. SubSeq(Reverse(t), 1, Len(t)) = SubSeq(Reverse(s), 1, Len(t)) BY <1>6, <1>9
<1>12. IsSuffix(t, s) BY <1>8, <1>10, <1>11 DEF IsSuffix, IsPrefix
<1> QED BY <1>3, <1>12 DEF t

-----------------------------------------------------------------------------
(* Names.                                                                  *)

Clean == Plain \ Separators

\* What may name a file: one component, neither empty nor a way to another directory.
IsName(name) == name \in Seq(Clean) /\ name \notin {<<>>, <<".">>, <<".", ".">>}

LEMMA NameIsSafe ==
  ASSUME NEW name, IsName(name)
  PROVE  /\ Safe(name) /\ name \in Seq(Plain) /\ name \in Seq(Plain \ {"/"})
<1>1. name \in Seq(Clean) /\ Clean \subseteq Plain /\ Clean \subseteq Plain \ {"/"}
  BY DEF IsName, Clean, Separators
<1>2. name \in Seq(Plain) /\ name \in Seq(Plain \ {"/"}) BY <1>1, SeqMonotonic
<1>3. \A i \in DOMAIN name : name[i] \notin Separators
  <2>1. DOMAIN name = 1..Len(name) BY <1>1, LenProperties
  <2>2. \A i \in DOMAIN name : name[i] \in Clean BY <1>1, <2>1, ElementOfSeq
  <2> QED BY <2>2 DEF Clean
<1> QED BY <1>2, <1>3 DEF IsName, Safe

LEMMA WaysAreDots ==
  ASSUME NEW name \in {<<>>, <<".">>, <<".", ".">>}, NEW i \in 1..Len(name)
  PROVE  name[i] = "."
<1>1. CASE name = <<>> BY <1>1
<1>2. CASE name = <<".">> BY <1>2
<1>3. CASE name = <<".", ".">>
  <2>1. i = 1 \/ i = 2 BY <1>3
  <2> QED BY <1>3, <2>1
<1> QED BY <1>1, <1>2, <1>3

LEMMA SanitizedIsName == \A t \in Seq(Plain) : IsName(SanitizeFileName(t))
<1> TAKE t \in Seq(Plain)
<1> DEFINE cleaned == [i \in DOMAIN t |-> IF t[i] \in Separators THEN "_" ELSE t[i]]
<1>1. "_" \in Clean BY DEF Clean, Plain, Separators
<1>2. cleaned \in Seq(Clean)
  <2>1. Len(t) \in Nat /\ DOMAIN t = 1..Len(t) BY LenProperties
  <2>2. \A i \in 1..Len(t) : t[i] \in Plain BY ElementOfSeq
  <2>3. \A i \in 1..Len(t) : (IF t[i] \in Separators THEN "_" ELSE t[i]) \in Clean
    BY <1>1, <2>2 DEF Clean
  <2>4. cleaned \in [1..Len(t) -> Clean] BY <2>1, <2>3
  <2> HIDE DEF cleaned
  <2> QED BY <2>1, <2>4, SeqDef
<1>3. SanitizeFileName(t) = IF cleaned \in {<<>>, <<".">>, <<".", ".">>} THEN <<"_">> ELSE cleaned
  BY DEF SanitizeFileName
<1> HIDE DEF cleaned
<1>4. <<"_">> \in Seq(Clean) /\ <<"_">> \notin {<<>>, <<".">>, <<".", ".">>}
  <2>1. <<"_">> \in Seq(Clean) BY <1>1, One
  <2>2. <<"_">>[1] = "_" /\ 1 \in 1..Len(<<"_">>) OBVIOUS
  <2> QED BY <2>1, <2>2, WaysAreDots
<1> QED BY <1>2, <1>3, <1>4 DEF IsName

LEMMA FlattenType ==
  ASSUME NEW S, NEW n \in Nat, NEW f \in [1..n -> Seq(S)]
  PROVE  FlattenSeq(f) \in Seq(S)
<1>1. f \in Seq(Seq(S)) BY SeqDef
<1>2. <<>> \in Seq(S) BY EmptySeq
<1> QED BY <1>1, <1>2, FlattenStep

LEMMA PutPlain ==
  ASSUME NEW text \in Seq(Plain), NEW old, NEW new \in Seq(Plain)
  PROVE  Put(text, old, new) \in Seq(Plain)
<1> DEFINE f == [i \in DOMAIN text |-> IF text[i] = old THEN new ELSE <<text[i]>>]
<1>1. Len(text) \in Nat /\ DOMAIN text = 1..Len(text) BY LenProperties
<1>2. \A i \in 1..Len(text) : text[i] \in Plain BY ElementOfSeq
<1>3. \A i \in 1..Len(text) : <<text[i]>> \in Seq(Plain) BY <1>2, One
<1>4. f \in [1..Len(text) -> Seq(Plain)] BY <1>1, <1>3
<1> HIDE DEF f
<1> QED BY <1>1, <1>4, FlattenType DEF Put, f

\* A set of indices that is not empty has a last one.
LEMMA LastExists ==
  ASSUME NEW n \in Nat, NEW I \in SUBSET (1..n), I # {}
  PROVE  \E m \in I : \A i \in I : m >= i
<1> DEFINE B == {n - i : i \in I}
<1>1. B \in SUBSET Nat /\ B # {}
  <2>1. \A i \in I : i \in 1..n OBVIOUS
  <2>2. \A i \in I : n - i \in Nat BY <2>1
  <2> QED BY <2>2
<1>2. PICK b \in B : \A c \in B : b <= c
  <2> HIDE DEF B
  <2> QED BY <1>1, LeastExists
<1>3. PICK m \in I : b = n - m OBVIOUS
<1>4. \A i \in I : n - m <= n - i BY <1>2, <1>3
<1>5. \A i \in I : m >= i BY <1>4
<1> QED BY <1>5

LEMMA DotWithin ==
  ASSUME NEW S, NEW t \in Seq(S)
  PROVE  Dot(t) \in 0..Len(t) /\ Len(t) \in Nat /\ (Dot(t) # 0 => t[Dot(t)] = ".")
<1> DEFINE I == {i \in 1..Len(t) : t[i] = "."}
<1>1. Len(t) \in Nat BY LenProperties
<1>2. Dot(t) = IF I # {} THEN Max(I) ELSE 0 BY DEF Dot, SelectLastInSeq
<1>3. I # {} => Max(I) \in I
  <2>1. I \in SUBSET (1..Len(t)) OBVIOUS
  <2> HIDE DEF I
  <2>2. I # {} => \E m \in I : \A i \in I : m >= i BY <1>1, <2>1, LastExists
  <2> QED BY <2>2 DEF Max
<1> QED BY <1>1, <1>2, <1>3

LEMMA StemAndExt ==
  ASSUME NEW S, NEW t \in Seq(S)
  PROVE  /\ Stem(t) \in Seq(S) /\ Ext(t) \in Seq(S)
         /\ Dot(t) \in 0..Len(t) /\ Len(t) \in Nat
         /\ Len(Stem(t)) = IF Dot(t) = 0 THEN Len(t) ELSE Dot(t) - 1
         /\ Dot(t) # 0 => /\ Len(Ext(t)) = Len(t) - Dot(t)
                          /\ \A i \in 1..Len(Ext(t)) : Ext(t)[i] = t[Dot(t) + i]
<1> DEFINE d == Dot(t)
<1>1. d \in 0..Len(t) /\ Len(t) \in Nat BY DotWithin
<1> HIDE DEF d
<1>2. \A i \in 1..Len(t) : t[i] \in S BY ElementOfSeq
<1>3. CASE d = 0 BY <1>1, <1>3, EmptySeq DEF Stem, Ext, d
<1>4. CASE d # 0
  <2>1. Stem(t) = SubSeq(t, 1, d - 1) /\ Ext(t) = SubSeq(t, d + 1, Len(t))
    BY <1>4 DEF Stem, Ext, d
  <2>2. \A i \in 1..(d - 1) : t[i] \in S
    <3>1. \A i \in 1..(d - 1) : i \in 1..Len(t) BY <1>1
    <3> QED BY <1>2, <3>1
  <2>3. \A i \in (d + 1)..Len(t) : t[i] \in S
    <3>1. \A i \in (d + 1)..Len(t) : i \in 1..Len(t) BY <1>1
    <3> QED BY <1>2, <3>1
  <2>4. d - 1 \in Int /\ d + 1 \in Int /\ 1 \in Int /\ Len(t) \in Int BY <1>1
  <2>5. /\ SubSeq(t, 1, d - 1) \in Seq(S)
        /\ Len(SubSeq(t, 1, d - 1)) = IF 1 <= d - 1 THEN (d - 1) - 1 + 1 ELSE 0
    BY <2>2, <2>4, SubSeqProperties
  <2>6. /\ SubSeq(t, d + 1, Len(t)) \in Seq(S)
        /\ Len(SubSeq(t, d + 1, Len(t))) = IF d + 1 <= Len(t) THEN Len(t) - (d + 1) + 1 ELSE 0
        /\ \A i \in 1..(Len(t) - (d + 1) + 1) : SubSeq(t, d + 1, Len(t))[i] = t[(d + 1) + i - 1]
    BY <2>3, <2>4, SubSeqProperties
  <2>7. Len(Stem(t)) = d - 1 BY <1>1, <1>4, <2>1, <2>5
  <2>8. Len(Ext(t)) = Len(t) - d BY <1>1, <1>4, <2>1, <2>6
  <2>9. \A i \in 1..Len(Ext(t)) : Ext(t)[i] = t[d + i]
    <3> TAKE i \in 1..Len(Ext(t))
    <3>1. i \in 1..(Len(t) - (d + 1) + 1) /\ (d + 1) + i - 1 = d + i BY <1>1, <2>8
    <3> QED BY <2>1, <2>6, <3>1
  <2> QED BY <1>1, <1>4, <2>1, <2>5, <2>6, <2>7, <2>8, <2>9 DEF d
<1> QED BY <1>3, <1>4

\* As many numbers as there can be names in use.
Numbers == 1..(Cardinality(Files) + Cardinality(Strangers))

LEMMA Places ==
  \A l, e \in Nat : /\ l + 1 \in 1..(l + 2) /\ l + 2 \in 1..(l + 2)
                   /\ l + 1 \in 1..((l + 2) + e) /\ l + 2 \in 1..((l + 2) + e)
                   /\ ~(l + 1 <= l) /\ ~(l + 2 <= l) /\ l + 1 <= l + 2 /\ l + 2 <= l + 2
                   /\ (l + 1) - l = 1 /\ (l + 2) - l = 2
OBVIOUS

\* What a suffix makes of a name: a longer name, that tells the number.
LEMMA SuffixedIs ==
  ASSUME NEW name, IsName(name), NEW n \in Numbers
  PROVE  /\ IsName(Suffixed(name, n))
         /\ Len(name) \in Nat /\ Len(Suffixed(name, n)) = Len(name) + 2
         /\ Len(Stem(name)) \in Nat
         /\ Suffixed(name, n)[Len(Stem(name)) + 2] = ToString(n)
<1> DEFINE st == Stem(name)
           ex == Ext(name)
           d == Dot(name)
           mid == <<"_", ToString(n)>>
           end == IF d = 0 THEN <<>> ELSE <<".">> \o ex
           b == st \o mid
           s == b \o end
<1>1. name \in Seq(Clean) BY DEF IsName
<1>2. /\ st \in Seq(Clean) /\ ex \in Seq(Clean)
      /\ d \in 0..Len(name) /\ Len(name) \in Nat
      /\ Len(st) = IF d = 0 THEN Len(name) ELSE d - 1
      /\ d # 0 => Len(ex) = Len(name) - d
  BY <1>1, StemAndExt
<1>3. ToString(n) \in Clean
  <2>1. ToString(n) \in STRING \ (Separators \cup {"|"}) BY NumeralsAssumption DEF Numbers
  <2> QED BY <2>1 DEF Clean, Plain
<1>4. "_" \in Clean /\ "." \in Clean BY DEF Clean, Plain, Separators
<1>5. mid \in Seq(Clean) /\ Len(mid) = 2 /\ mid[1] = "_" /\ mid[2] = ToString(n)
  BY <1>3, <1>4, Two
<1>6. Suffixed(name, n) = s
  <2>1. n # 0 BY CardsAssumption, FS_CardinalityType DEF Numbers
  <2> QED BY <2>1 DEF Suffixed
<1>7. end \in Seq(Clean) /\ Len(st) + 2 + Len(end) = Len(name) + 2
  <2>1. CASE d = 0 BY <1>2, <2>1, EmptySeq
  <2>2. CASE d # 0
    <3>1. <<".">> \in Seq(Clean) /\ Len(<<".">>) = 1 BY <1>4, One
    <3>2. <<".">> \o ex \in Seq(Clean) /\ Len(<<".">> \o ex) = Len(<<".">>) + Len(ex)
      BY <1>2, <3>1, ConcatProperties
    <3>3. end = <<".">> \o ex BY <2>2
    <3>4. Len(end) = 1 + Len(ex) BY <3>1, <3>2, <3>3
    <3>5. end \in Seq(Clean) BY <3>2, <3>3
    <3>6. d \in Int /\ Len(name) \in Int /\ Len(st) = d - 1 /\ Len(ex) = Len(name) - d BY <1>2, <2>2
    <3> HIDE DEF st, ex, d, end
    <3> QED BY <3>4, <3>5, <3>6
  <2> QED BY <2>1, <2>2
<1> HIDE DEF st, ex, d, mid, end
<1>8. Len(st) \in Nat /\ Len(end) \in Nat BY <1>2, <1>7, LenProperties
<1>9. /\ b \in Seq(Clean) /\ Len(b) = Len(st) + 2
      /\ b[Len(st) + 1] = "_" /\ b[Len(st) + 2] = ToString(n)
  <2>1. /\ b \in Seq(Clean) /\ Len(b) = Len(st) + Len(mid)
        /\ \A i \in 1..(Len(st) + Len(mid)) :
             b[i] = IF i <= Len(st) THEN st[i] ELSE mid[i - Len(st)]
    BY <1>2, <1>5, ConcatProperties
  <2>2. /\ Len(st) + 1 \in 1..(Len(st) + Len(mid)) /\ ~(Len(st) + 1 <= Len(st))
        /\ (Len(st) + 1) - Len(st) = 1
        /\ Len(st) + 2 \in 1..(Len(st) + Len(mid)) /\ ~(Len(st) + 2 <= Len(st))
        /\ (Len(st) + 2) - Len(st) = 2
    <3> DEFINE l == Len(st)
    <3>1. l \in Nat BY <1>8
    <3> HIDE DEF l
    <3>2. /\ l + 1 \in 1..(l + 2) /\ ~(l + 1 <= l) /\ (l + 1) - l = 1
          /\ l + 2 \in 1..(l + 2) /\ ~(l + 2 <= l) /\ (l + 2) - l = 2
      BY <3>1, Places
    <3> QED BY <1>5, <3>2 DEF l
  <2> HIDE DEF b
  <2>3. b[Len(st) + 1] = mid[(Len(st) + 1) - Len(st)] BY <2>1, <2>2
  <2>4. b[Len(st) + 2] = mid[(Len(st) + 2) - Len(st)] BY <2>1, <2>2
  <2> QED BY <1>5, <2>1, <2>2, <2>3, <2>4
<1> HIDE DEF b
<1>10. /\ s \in Seq(Clean) /\ Len(s) = Len(b) + Len(end)
       /\ \A i \in 1..(Len(b) + Len(end)) : s[i] = IF i <= Len(b) THEN b[i] ELSE end[i - Len(b)]
  BY <1>7, <1>9, ConcatProperties
<1> HIDE DEF s
<1>11. /\ Len(st) + 1 \in 1..(Len(b) + Len(end)) /\ Len(st) + 1 <= Len(b)
       /\ Len(st) + 2 \in 1..(Len(b) + Len(end)) /\ Len(st) + 2 <= Len(b)
  <2> DEFINE l == Len(st)
             e == Len(end)
  <2>1. l \in Nat /\ e \in Nat BY <1>8
  <2>2. Len(b) = l + 2 BY <1>9
  <2> HIDE DEF l, e
  <2>3. /\ l + 1 \in 1..((l + 2) + e) /\ l + 2 \in 1..((l + 2) + e)
        /\ l + 1 <= l + 2 /\ l + 2 <= l + 2
    BY <2>1, Places
  <2> QED BY <2>2, <2>3 DEF l, e
<1>12. s[Len(st) + 1] = "_" /\ s[Len(st) + 2] = ToString(n) BY <1>9, <1>10, <1>11
<1>13. s \notin {<<>>, <<".">>, <<".", ".">>}
  <2> SUFFICES ASSUME s \in {<<>>, <<".">>, <<".", ".">>} PROVE FALSE
    OBVIOUS
  <2>1. Len(st) + 1 \in 1..Len(s) BY <1>10, <1>11
  <2>2. s[Len(st) + 1] = "." BY <2>1, WaysAreDots
  <2> QED BY <1>12, <2>2
<1>14. Len(s) = Len(name) + 2 BY <1>7, <1>9, <1>10
<1> QED BY <1>2, <1>6, <1>8, <1>10, <1>12, <1>13, <1>14 DEF IsName, st

\* Of the names that a collision tries, one more than are in use are all different.
LEMMA SuffixesDiffer ==
  ASSUME NEW name, IsName(name), NEW m \in Numbers \cup {0}, NEW n \in Numbers \cup {0},
         Suffixed(name, m) = Suffixed(name, n)
  PROVE  m = n
<1>1. ASSUME NEW k \in Numbers PROVE Suffixed(name, k) # Suffixed(name, 0)
  <2>1. Len(name) \in Nat /\ Len(Suffixed(name, k)) = Len(name) + 2 BY SuffixedIs
  <2>2. Suffixed(name, 0) = name BY DEF Suffixed
  <2>3. Len(name) # Len(name) + 2 BY <2>1
  <2> QED BY <2>1, <2>2, <2>3
<1>2. CASE m \in Numbers /\ n \in Numbers
  <2>1. /\ Suffixed(name, m)[Len(Stem(name)) + 2] = ToString(m)
        /\ Suffixed(name, n)[Len(Stem(name)) + 2] = ToString(n)
    BY <1>2, SuffixedIs
  <2> QED BY <1>2, <2>1, NumeralsAssumption DEF Numbers
<1> QED BY <1>1, <1>2

\* A set of names in use that is no larger than all files and strangers leaves
\* one of the suffixes free, and the first of them is it.
LEMMA FreeSuffix ==
  ASSUME NEW name, IsName(name), NEW used, IsFiniteSet(used),
         Cardinality(used) <= Cardinality(Files) + Cardinality(Strangers)
  PROVE  \E n \in 0..Cardinality(used) : /\ Suffixed(name, n) \notin used
                                         /\ \A k \in 0..(n - 1) : Suffixed(name, k) \in used
<1> DEFINE c == Cardinality(used)
           f == [n \in 0..c |-> Suffixed(name, n)]
           free == {n \in 0..c : Suffixed(name, n) \notin used}
<1>1. c \in Nat /\ Cardinality(Files) \in Nat /\ Cardinality(Strangers) \in Nat
  BY CardsAssumption, FS_CardinalityType
<1>2. 0..c \subseteq Numbers \cup {0} BY <1>1 DEF Numbers
<1> HIDE DEF c
<1>3. free # {}
  <2> SUFFICES ASSUME free = {} PROVE FALSE
    OBVIOUS
  <2>1. f \in [0..c -> used] OBVIOUS
  <2>2. IsFiniteSet(0..c) /\ Cardinality(0..c) = c + 1
    <3>1. 0 \in Int /\ c \in Int /\ ~(0 > c) /\ c - 0 + 1 = c + 1 BY <1>1
    <3> QED BY <3>1, FS_Interval
  <2>3. Cardinality(used) < Cardinality(0..c) BY <1>1, <2>2 DEF c
  <2> DEFINE Z == 0..c
  <2>4. f \in [Z -> used] /\ IsFiniteSet(Z) /\ Cardinality(used) < Cardinality(Z)
    BY <2>1, <2>2, <2>3
  <2> HIDE DEF f, Z
  <2>5. \E x, y \in Z : x # y /\ f[x] = f[y] BY <2>4, FS_PigeonHole
  <2> QED BY <1>2, <2>5, SuffixesDiffer DEF f, Z
<1>4. free \in SUBSET Nat BY <1>1
<1>5. PICK n \in free : \A k \in free : n <= k
  <2> HIDE DEF free
  <2> QED BY <1>3, <1>4, LeastExists
<1>6. \A k \in 0..(n - 1) : k \in 0..c /\ ~(n <= k) BY <1>1, <1>5
<1>7. \A k \in 0..(n - 1) : Suffixed(name, k) \in used BY <1>5, <1>6
<1> QED BY <1>5, <1>7 DEF c

LEMMA Three ==
  ASSUME NEW S, NEW e \in S, NEW f \in S, NEW g \in S
  PROVE  <<e, f, g>> \in Seq(S)
OBVIOUS

LEMMA EntryIsPlain == \A f \in Files : EntryName(f) \in Seq(Plain)
<1> TAKE f \in Files
<1>1. Name[f] \in Seq(Plain) BY TextsAssumption, TextIsPlain
<1>2. Len(Name[f]) \in Nat /\ DOMAIN Name[f] = 1..Len(Name[f]) BY <1>1, LenProperties
<1>3. \A i \in 1..Len(Name[f]) : Name[f][i] \in Plain BY <1>1, ElementOfSeq
<1>4. "U+FFFD" \in Plain BY DEF Plain
<1>5. EntryName(f) \in [1..Len(Name[f]) -> Plain] BY <1>2, <1>3, <1>4 DEF EntryName
<1> QED BY <1>2, <1>5, SeqDef

LEMMA CaptureIsPlain ==
  ASSUME NEW f \in Files, NEW kind
  PROVE  LET t == ResolveCapture(f, kind) IN t[1] \in Plain /\ t[2] \in Plain
<1> DEFINE t == ResolveCapture(f, kind)
<1>1. IsTime(t)
  <2>1. IsTime(Modified[f]) /\ (Taken[f] \in {None, Malformed} \/ IsTime(Taken[f]))
    BY TextsAssumption
  <2>2. Taken[f] # None /\ FromExif(Taken[f]) # None => Taken[f] \notin {None, Malformed}
    BY DEF FromExif
  <2> QED BY <2>1, <2>2 DEF ResolveCapture
<1> HIDE DEF t
<1>2. t \in Seq(Plain) /\ Len(t) = 2 BY <1>1, TextIsPlain DEF IsTime
<1>3. 1 \in 1..Len(t) /\ 2 \in 1..Len(t) BY <1>2
<1>4. t[1] \in Plain /\ t[2] \in Plain BY <1>2, <1>3, ElementOfSeq
<1> QED BY <1>4 DEF t

LEMMA CardIsPlain ==
  ASSUME NEW c \in Cards
  PROVE  /\ Or(Serial(c), <<"unknown">>) \in Seq(Plain)
         /\ Or(Model(c), <<"GoPro">>) \in Seq(Plain)
<1>1. <<"unknown">> \in Seq(Plain) /\ <<"GoPro">> \in Seq(Plain) /\ <<"HERO11">> \in Seq(Plain)
      /\ <<"HERO13">> \in Seq(Plain)
  BY One DEF Plain
<1>2. <<"HERO13", "/", "MAX2 family">> \in Seq(Plain)
  <2>1. "HERO13" \in Plain /\ "/" \in Plain /\ "MAX2 family" \in Plain BY DEF Plain
  <2> QED BY <2>1, Three
<1>3. Serial(c) = None \/ Serial(c) \in Seq(Plain)
  <2>1. Version[c] = None \/ IsText(Version[c].serial) BY TextsAssumption
  <2>2. CASE ReadVersion(c) = None BY <2>2 DEF Serial
  <2>3. CASE ReadVersion(c) # None
    <3>1. ReadVersion(c) = Version[c] /\ Version[c] # None BY <2>3 DEF ReadVersion
    <3>2. Version[c].serial \in Seq(Plain) BY <2>1, <3>1, TextIsPlain
    <3> QED BY <3>1, <3>2 DEF Serial
  <2> QED BY <2>2, <2>3
<1>4. \A w : ModelFamily(w) = None \/ ModelFamily(w) \in Seq(Plain)
  <2> SUFFICES ASSUME NEW w PROVE ModelFamily(w) = None \/ ModelFamily(w) \in Seq(Plain)
    OBVIOUS
  <2>1. CASE w[1] = "H22" BY <1>1, <2>1 DEF ModelFamily
  <2>2. CASE w[1] = "H24" /\ w[2] = "01"
    <3>1. w[1] # "H22" BY <2>2
    <3> QED BY <1>1, <2>2, <3>1 DEF ModelFamily
  <2>3. CASE w[1] = "H24" /\ w[2] # "01"
    <3>1. w[1] # "H22" BY <2>3
    <3> QED BY <1>2, <2>3, <3>1 DEF ModelFamily
  <2>4. CASE w[1] # "H22" /\ w[1] # "H24" BY <2>4 DEF ModelFamily
  <2> QED BY <2>1, <2>2, <2>3, <2>4
<1>5. Model(c) = None \/ Model(c) \in Seq(Plain) BY <1>4 DEF Model
<1> QED BY <1>1, <1>3, <1>5 DEF Or

\* Whatever the template, the card's version.txt and the name on it are, the
\* name that is rendered is one.
LEMMA RenderedIsName ==
  ASSUME NEW f \in Files, NEW c \in Cards, NEW s \in Settings, NEW kind
  PROVE  IsName(RenderName(s.template, EntryName(f), ResolveCapture(f, kind), c))
<1> DEFINE name == EntryName(f)
           t == ResolveCapture(f, kind)
           a == Put(s.template, "{date}", <<t[1]>>)
           b == Put(a, "{time}", <<t[2]>>)
           d == Put(b, "{original}", name)
           e == Put(d, "{ext}", Ext(name))
           g == Put(e, "{camera}", Or(Serial(c), <<"unknown">>))
           h == Put(g, "{model}", Or(Model(c), <<"GoPro">>))
<1>1. s.template \in Seq(Plain) BY TextsAssumption, TextIsPlain
<1>2. name \in Seq(Plain) BY EntryIsPlain
<1>3. Ext(name) \in Seq(Plain)
  <2> HIDE DEF name
  <2> QED BY <1>2, StemAndExt
<1>4. <<t[1]>> \in Seq(Plain) /\ <<t[2]>> \in Seq(Plain)
  <2>1. t[1] \in Plain /\ t[2] \in Plain BY CaptureIsPlain
  <2> HIDE DEF t
  <2> QED BY <2>1, One
<1>5. Or(Serial(c), <<"unknown">>) \in Seq(Plain) /\ Or(Model(c), <<"GoPro">>) \in Seq(Plain)
  BY CardIsPlain
<1>6. RenderName(s.template, name, t, c) = SanitizeFileName(h) BY DEF RenderName, Rendered
<1> HIDE DEF name, t
<1>7. a \in Seq(Plain) BY <1>1, <1>4, PutPlain
<1> HIDE DEF a
<1>8. b \in Seq(Plain) BY <1>4, <1>7, PutPlain
<1> HIDE DEF b
<1>9. d \in Seq(Plain) BY <1>2, <1>8, PutPlain
<1> HIDE DEF d
<1>10. e \in Seq(Plain) BY <1>3, <1>9, PutPlain
<1> HIDE DEF e
<1>11. g \in Seq(Plain) BY <1>5, <1>10, PutPlain
<1> HIDE DEF g
<1>12. h \in Seq(Plain) BY <1>5, <1>11, PutPlain
<1> HIDE DEF h
<1> QED BY <1>6, <1>12, SanitizedIsName DEF name, t

-----------------------------------------------------------------------------
(* The inductive invariant.                                                *)

Names == {name \in Seq(Clean) : IsName(name)}

\* The run and what it looks at.
RunInv ==
  /\ config \in Settings /\ edits \in 0..MaxEdits
  /\ run \in [at : {"idle", "scan", "copy"}, card : Cards \cup {None}, with : Settings \cup {None},
              todo : SUBSET Files, plan : SUBSET [file : Files, name : Names]]
  /\ run.at = "idle" => run.todo = {} /\ run.plan = {}
  /\ run.at # "idle" => run.card \in Cards /\ run.with \in Settings
  /\ run.at = "copy" => run.todo = {}

\* What is planned is not there yet, neither the file nor the name.
PlanInv ==
  /\ \A p \in run.plan : ~IsImported(p.file) /\ p.file \notin run.todo /\ p.name \notin DOMAIN disk
  /\ \A p, q \in run.plan : p.file = q.file \/ p.name = q.name => p = q

\* The destination and the ledger tell the same of every file.
DiskInv ==
  /\ Strangers \subseteq DOMAIN disk
  /\ \A n \in Strangers : disk[n] = 0
  /\ \A n \in DOMAIN disk \ Strangers :
       disk[n] \in Files /\ IsImported(disk[n]) /\ ledger[Key(disk[n])] = n
  /\ DOMAIN ledger \subseteq {Key(f) : f \in Files}
  /\ \A f \in Files : IsImported(f) => LET n == ledger[Key(f)] IN
       IsName(n) /\ n \in DOMAIN disk /\ disk[n] = f

EndsIn(path, name) == \E o \in Seq(Letters) : path = (o \o <<"|">>) \o name

\* A job, and an object, is of a file that is in the ledger and has its name.
JobInv ==
  \A j \in jobs : /\ DOMAIN j = {"file", "name", "done", "remote", "url"}
                  /\ j.file \in Files /\ IsImported(j.file) /\ ledger[Key(j.file)] = j.name
                  /\ \E r \in Seq(Plain) : j.remote = RemotePathFor(r, j.name)
                  /\ j.done => j.url[2] \in DOMAIN objects /\ EndsIn(j.url[2], j.name)

ObjectInv ==
  \A x \in DOMAIN objects : LET f == objects[x] IN
    f \in Files /\ IsImported(f) /\ EndsIn(x, ledger[Key(f)])

\* Every file of the card is somewhere.
LeftInv ==
  run.at # "idle" =>
    \A f \in Files : OnCard[f] = run.card /\ IsGoproMediaFolder(Folder[f]) =>
      \/ f \in run.todo
      \/ \E p \in run.plan : p.file = f
      \/ IsImported(f)
      \/ <<f, run.with>> \in leftOut /\ Unwanted(Classify(EntryName(f)))

RouteIInv == RunInv /\ PlanInv /\ DiskInv /\ JobInv /\ ObjectInv /\ LeftInv

\* No more names are in use than there are files and strangers.
LEMMA UsedIsSmall ==
  ASSUME RunInv, PlanInv, DiskInv
  PROVE  LET used == DOMAIN disk \cup Reserved IN
         IsFiniteSet(used) /\ Cardinality(used) <= Cardinality(Files) + Cardinality(Strangers)
<1> DEFINE used == DOMAIN disk \cup Reserved
           g == [f \in Files |-> IF IsImported(f) THEN ledger[Key(f)]
                                 ELSE (CHOOSE p \in run.plan : p.file = f).name]
           T == {g[f] : f \in Files}
<1>1. IsFiniteSet(T) /\ Cardinality(T) <= Cardinality(Files)
  <2>1. g \in Surjection(Files, T) BY DEF Surjection
  <2> HIDE DEF g, T
  <2> QED BY <2>1, CardsAssumption, FS_Surjection
<1>2. used \subseteq Strangers \cup T
  <2>1. ASSUME NEW n \in DOMAIN disk \ Strangers PROVE n \in T
    <3>1. disk[n] \in Files /\ IsImported(disk[n]) /\ ledger[Key(disk[n])] = n BY DEF DiskInv
    <3>2. g[disk[n]] = n BY <3>1
    <3> HIDE DEF g
    <3> QED BY <3>1, <3>2
  <2>2. ASSUME NEW p \in run.plan PROVE p.name \in T
    <3>1. p.file \in Files /\ ~IsImported(p.file) BY DEF RunInv, PlanInv
    <3>2. \A q \in run.plan : q.file = p.file => q = p BY DEF PlanInv
    <3>3. (CHOOSE q \in run.plan : q.file = p.file) = p BY <3>2
    <3>4. g[p.file] = p.name BY <3>1, <3>3
    <3> HIDE DEF g
    <3> QED BY <3>1, <3>4
  <2> HIDE DEF T
  <2> QED BY <2>1, <2>2 DEF Reserved
<1> HIDE DEF T, used
<1>3. IsFiniteSet(Strangers \cup T)
      /\ Cardinality(Strangers \cup T) = Cardinality(Strangers) + Cardinality(T) - Cardinality(Strangers \cap T)
  BY <1>1, CardsAssumption, FS_Union
<1>4. IsFiniteSet(used) /\ Cardinality(used) <= Cardinality(Strangers \cup T)
  BY <1>2, <1>3, FS_Subset
<1>5. IsFiniteSet(Strangers \cap T) BY <1>1, FS_Intersection
<1>6. /\ Cardinality(Strangers) \in Nat /\ Cardinality(T) \in Nat /\ Cardinality(used) \in Nat
      /\ Cardinality(Strangers \cap T) \in Nat /\ Cardinality(Files) \in Nat
      /\ Cardinality(Strangers \cup T) \in Nat
  BY <1>1, <1>3, <1>4, <1>5, CardsAssumption, FS_CardinalityType
<1>7. Cardinality(used) <= Cardinality(Files) + Cardinality(Strangers)
  BY <1>1, <1>3, <1>4, <1>6
<1> QED BY <1>4, <1>7 DEF used

\* The name that resolve_collision gives is new, on the disk and in the plan.
LEMMA ResolvedIsFree ==
  ASSUME RunInv, PlanInv, DiskInv, NEW name, IsName(name)
  PROVE  /\ IsName(ResolveCollision(name))
         /\ ResolveCollision(name) \notin DOMAIN disk
         /\ \A p \in run.plan : p.name # ResolveCollision(name)
<1> DEFINE used == DOMAIN disk \cup Reserved
           m == CHOOSE n \in 0..Cardinality(used) :
                  /\ Suffixed(name, n) \notin used
                  /\ \A k \in 0..(n - 1) : Suffixed(name, k) \in used
<1>1. IsFiniteSet(used) /\ Cardinality(used) <= Cardinality(Files) + Cardinality(Strangers)
  BY UsedIsSmall
<1>2. ResolveCollision(name) = Suffixed(name, m) BY DEF ResolveCollision
<1> HIDE DEF used
<1>3. m \in 0..Cardinality(used) /\ Suffixed(name, m) \notin used
  <2>1. \E n \in 0..Cardinality(used) : /\ Suffixed(name, n) \notin used
                                        /\ \A k \in 0..(n - 1) : Suffixed(name, k) \in used
    BY <1>1, FreeSuffix
  <2> QED BY <2>1
<1> HIDE DEF m
<1>4. m \in Numbers \cup {0}
  <2>1. /\ Cardinality(used) \in Nat /\ Cardinality(Files) \in Nat /\ Cardinality(Strangers) \in Nat
    BY <1>1, CardsAssumption, FS_CardinalityType
  <2> QED BY <1>1, <1>3, <2>1 DEF Numbers
<1>5. IsName(Suffixed(name, m))
  <2>1. CASE m = 0 BY <2>1 DEF Suffixed
  <2>2. CASE m \in Numbers BY <2>2, SuffixedIs
  <2> QED BY <1>4, <2>1, <2>2
<1> QED BY <1>2, <1>3, <1>5 DEF used, Reserved

-----------------------------------------------------------------------------
(* The invariant holds at first and every step keeps it.                   *)

LEMMA RouteInitInv == RouteInit => RouteIInv
<1> SUFFICES ASSUME RouteInit PROVE RouteIInv
  OBVIOUS
<1>1. DOMAIN ledger = {} /\ DOMAIN objects = {} BY DEF RouteInit
<1>2. /\ run.at = "idle" /\ run.todo = {} /\ run.plan = {}
      /\ run = [at |-> "idle", card |-> None, with |-> None, todo |-> {}, plan |-> {}]
  BY DEF RouteInit, NoRun
<1>3. RunInv
  <2>1. config \in Settings /\ edits \in 0..MaxEdits BY CardsAssumption DEF RouteInit
  <2>2. run \in [at : {"idle", "scan", "copy"}, card : Cards \cup {None},
                 with : Settings \cup {None}, todo : SUBSET Files,
                 plan : SUBSET [file : Files, name : Names]]
    BY <1>2
  <2> QED BY <1>2, <2>1, <2>2 DEF RunInv
<1>4. PlanInv BY <1>2 DEF PlanInv
<1>5. DiskInv
  <2>1. disk = [n \in Strangers |-> 0] BY DEF RouteInit
  <2> QED BY <1>1, <2>1 DEF DiskInv, IsImported
<1>6. JobInv /\ ObjectInv BY <1>1 DEF RouteInit, JobInv, ObjectInv
<1>7. LeftInv BY <1>2 DEF LeftInv
<1> QED BY <1>3, <1>4, <1>5, <1>6, <1>7 DEF RouteIInv

\* The parts that are not about the run hold on when only the run changes.
LEMMA RunOnly ==
  ASSUME DiskInv, JobInv, ObjectInv, UNCHANGED <<disk, ledger, jobs, objects>>
  PROVE  DiskInv' /\ JobInv' /\ ObjectInv'
<1>1. DiskInv' BY DEF DiskInv, IsImported
<1>2. JobInv' BY DEF JobInv, IsImported
<1>3. ObjectInv' BY DEF ObjectInv, IsImported
<1> QED BY <1>1, <1>2, <1>3

LEMMA ConfigureInv ==
  ASSUME RouteIInv, NEW c \in Settings, Configure(c)
  PROVE  RouteIInv'
<1> USE DEF RouteIInv
<1>1. UNCHANGED <<run, disk, ledger, leftOut, jobs, objects>> BY DEF Configure
<1>2. config' \in Settings /\ edits' \in 0..MaxEdits BY CardsAssumption DEF Configure, RunInv
<1>3. RunInv' BY <1>1, <1>2 DEF RunInv
<1>4. PlanInv' BY <1>1 DEF PlanInv, IsImported
<1>5. LeftInv' BY <1>1 DEF LeftInv, IsImported, Unwanted
<1>6. DiskInv' /\ JobInv' /\ ObjectInv' BY <1>1, RunOnly
<1> QED BY <1>3, <1>4, <1>5, <1>6

LEMMA StartRunInv ==
  ASSUME RouteIInv, NEW c \in Cards, StartRun(c)
  PROVE  RouteIInv'
<1> USE DEF RouteIInv
<1> DEFINE found == {f \in Files : OnCard[f] = c /\ IsGoproMediaFolder(Folder[f])}
<1>1. /\ UNCHANGED <<config, edits, disk, ledger, leftOut, jobs, objects>>
      /\ run' = [at |-> "scan", card |-> c, with |-> config, plan |-> {}, todo |-> found]
  BY DEF StartRun
<1>2. found \subseteq Files /\ config \in Settings BY DEF RunInv
<1>3. \A f \in Files : OnCard[f] = c /\ IsGoproMediaFolder(Folder[f]) => f \in found OBVIOUS
<1> HIDE DEF found
<1>4. /\ run'.at = "scan" /\ run'.card = c /\ run'.with = config /\ run'.plan = {}
      /\ run'.todo = found
  BY <1>1
<1>5. RunInv'
  <2>1. run' \in [at : {"idle", "scan", "copy"}, card : Cards \cup {None},
                  with : Settings \cup {None}, todo : SUBSET Files,
                  plan : SUBSET [file : Files, name : Names]]
    BY <1>1, <1>2
  <2> QED BY <1>1, <1>2, <1>4, <2>1 DEF RunInv
<1>6. PlanInv' BY <1>4 DEF PlanInv
<1>7. LeftInv' BY <1>3, <1>4 DEF LeftInv
<1>8. DiskInv' /\ JobInv' /\ ObjectInv' BY <1>1, RunOnly
<1> QED BY <1>5, <1>6, <1>7, <1>8

LEMMA ScanEndsInv ==
  ASSUME RouteIInv, ScanEnds
  PROVE  RouteIInv'
<1> USE DEF RouteIInv
<1>1. /\ UNCHANGED <<config, edits, disk, ledger, leftOut, jobs, objects>>
      /\ run' = [run EXCEPT !.at = "copy"]
      /\ run.at = "scan" /\ run.todo = {}
  BY DEF ScanEnds
<1>2. /\ run'.at = "copy" /\ run'.card = run.card /\ run'.with = run.with
      /\ run'.plan = run.plan /\ run'.todo = run.todo
  BY <1>1 DEF RunInv
<1>3. RunInv'
  <2>1. run' \in [at : {"idle", "scan", "copy"}, card : Cards \cup {None},
                  with : Settings \cup {None}, todo : SUBSET Files,
                  plan : SUBSET [file : Files, name : Names]]
    BY <1>1 DEF RunInv
  <2> QED BY <1>1, <1>2, <2>1 DEF RunInv
<1>4. PlanInv' BY <1>1, <1>2 DEF PlanInv, IsImported
<1>5. LeftInv' BY <1>1, <1>2 DEF LeftInv, IsImported, Unwanted
<1>6. DiskInv' /\ JobInv' /\ ObjectInv' BY <1>1, RunOnly
<1> QED BY <1>3, <1>4, <1>5, <1>6

LEMMA RunEndsInv ==
  ASSUME RouteIInv, RunEnds
  PROVE  RouteIInv'
<1> USE DEF RouteIInv
<1>1. /\ UNCHANGED <<config, edits, disk, ledger, leftOut, jobs, objects>>
      /\ run' = [at |-> "idle", card |-> None, with |-> None, todo |-> {}, plan |-> {}]
  BY DEF RunEnds, NoRun
<1>2. run'.at = "idle" /\ run'.plan = {} /\ run'.todo = {} BY <1>1
<1>3. RunInv'
  <2>1. run' \in [at : {"idle", "scan", "copy"}, card : Cards \cup {None},
                  with : Settings \cup {None}, todo : SUBSET Files,
                  plan : SUBSET [file : Files, name : Names]]
    BY <1>1
  <2> QED BY <1>1, <1>2, <2>1 DEF RunInv
<1>4. PlanInv' BY <1>2 DEF PlanInv
<1>5. LeftInv' BY <1>2 DEF LeftInv
<1>6. DiskInv' /\ JobInv' /\ ObjectInv' BY <1>1, RunOnly
<1> QED BY <1>3, <1>4, <1>5, <1>6

LEMMA ScanFileInv ==
  ASSUME RouteIInv, ScanFile
  PROVE  RouteIInv'
<1> USE DEF RouteIInv
<1> DEFINE f == First(run.todo)
           name == EntryName(f)
           kind == Classify(name)
           wants == ResolveCollision(RenderName(run.with.template, name,
                                                ResolveCapture(f, kind), run.card))
           p == [file |-> f, name |-> wants]
           skips == Unwanted(kind) \/ IsImported(f)
<1>1. /\ UNCHANGED <<config, edits, disk, ledger, jobs, objects>>
      /\ run' = [run EXCEPT !.todo = @ \ {f}, !.plan = IF skips THEN @ ELSE @ \cup {p}]
      /\ leftOut' = IF Unwanted(kind) THEN leftOut \cup {<<f, run.with>>} ELSE leftOut
      /\ run.at = "scan" /\ run.todo # {}
  BY DEF ScanFile
<1>2. f \in run.todo
  <2>1. run.todo \in SUBSET Nat BY CardsAssumption DEF RunInv
  <2>2. \E g \in run.todo : \A h \in run.todo : g <= h BY <1>1, <2>1, LeastExists
  <2> QED BY <2>2 DEF First
<1>3. f \in Files BY <1>2 DEF RunInv
<1>4. run.card \in Cards /\ run.with \in Settings BY <1>1 DEF RunInv
<1>5. /\ wants \in Names /\ wants \notin DOMAIN disk
      /\ \A q \in run.plan : q.name # wants
  <2> DEFINE given == RenderName(run.with.template, name, ResolveCapture(f, kind), run.card)
  <2> HIDE DEF f, kind
  <2>1. IsName(given) BY <1>3, <1>4, RenderedIsName
  <2> HIDE DEF given
  <2>2. /\ IsName(ResolveCollision(given)) /\ ResolveCollision(given) \notin DOMAIN disk
        /\ \A q \in run.plan : q.name # ResolveCollision(given)
    BY <2>1, ResolvedIsFree
  <2> QED BY <2>2 DEF given, Names, IsName
<1>6. /\ run'.at = "scan" /\ run'.card = run.card /\ run'.with = run.with
      /\ run'.todo = run.todo \ {f}
      /\ run'.plan = IF skips THEN run.plan ELSE run.plan \cup {p}
  <2> HIDE DEF f, p, skips
  <2> QED BY <1>1 DEF RunInv
<1> HIDE DEF f, wants
<1>7. p \in [file : Files, name : Names] /\ p.file = f /\ p.name = wants BY <1>3, <1>5
<1>8. RunInv'
  <2>1. run' \in [at : {"idle", "scan", "copy"}, card : Cards \cup {None},
                  with : Settings \cup {None}, todo : SUBSET Files,
                  plan : SUBSET [file : Files, name : Names]]
    <3>1. run.todo \ {f} \in SUBSET Files BY DEF RunInv
    <3>2. (IF skips THEN run.plan ELSE run.plan \cup {p}) \in SUBSET [file : Files, name : Names]
      <4> HIDE DEF p, skips
      <4> QED BY <1>7 DEF RunInv
    <3> HIDE DEF p, skips
    <3> QED BY <1>1, <3>1, <3>2 DEF RunInv
  <2> QED BY <1>1, <1>4, <1>6, <2>1 DEF RunInv
<1>9. PlanInv'
  <2>1. \A q \in run.plan : ~IsImported(q.file) /\ q.file \notin run.todo /\ q.name \notin DOMAIN disk
    BY DEF PlanInv
  <2>2. \A q \in run.plan : q.file # f /\ q.name # wants BY <1>2, <1>5, <2>1
  <2>3. \A q, r \in run.plan : q.file = r.file \/ q.name = r.name => q = r BY DEF PlanInv
  <2>4. ~skips => ~IsImported(f) OBVIOUS
  <2> HIDE DEF p, skips
  <2>5. \A q \in run'.plan : q \in run.plan \/ (q = p /\ ~skips) BY <1>6
  <2>6. \A q \in run'.plan : ~IsImported(q.file) /\ q.file \notin run'.todo /\ q.name \notin DOMAIN disk
    BY <1>5, <1>6, <1>7, <2>1, <2>4, <2>5
  <2>7. \A q, r \in run'.plan : q.file = r.file \/ q.name = r.name => q = r
    BY <1>7, <2>2, <2>3, <2>5
  <2> QED BY <1>1, <2>6, <2>7 DEF PlanInv, IsImported
<1>10. LeftInv'
  <2> SUFFICES ASSUME NEW g \in Files, OnCard[g] = run.card, IsGoproMediaFolder(Folder[g])
               PROVE  \/ g \in run'.todo
                      \/ \E q \in run'.plan : q.file = g
                      \/ IsImported(g)
                      \/ <<g, run.with>> \in leftOut' /\ Unwanted(Classify(EntryName(g)))
    BY <1>1, <1>6 DEF LeftInv, IsImported, Unwanted
  <2>1. CASE g = f
    <3>1. CASE Unwanted(kind) BY <1>1, <2>1, <3>1
    <3>2. CASE ~Unwanted(kind) /\ IsImported(f) BY <2>1, <3>2
    <3>3. CASE ~Unwanted(kind) /\ ~IsImported(f)
      <4>1. ~skips BY <3>3
      <4> HIDE DEF p, skips
      <4>2. p \in run'.plan BY <1>6, <4>1
      <4> QED BY <1>7, <2>1, <4>2
    <3> QED BY <3>1, <3>2, <3>3
  <2>2. CASE g # f
    <3>1. \/ g \in run.todo
          \/ \E q \in run.plan : q.file = g
          \/ IsImported(g)
          \/ <<g, run.with>> \in leftOut /\ Unwanted(Classify(EntryName(g)))
      BY <1>1 DEF LeftInv
    <3>2. run.plan \subseteq run'.plan /\ leftOut \subseteq leftOut'
      <4> HIDE DEF p, skips
      <4> QED BY <1>1, <1>6
    <3> QED BY <1>6, <2>2, <3>1, <3>2
  <2> QED BY <2>1, <2>2
<1>11. DiskInv' /\ JobInv' /\ ObjectInv' BY <1>1, RunOnly
<1> QED BY <1>8, <1>9, <1>10, <1>11

LEMMA CopyFileInv ==
  ASSUME RouteIInv, CopyFile
  PROVE  RouteIInv'
<1> USE DEF RouteIInv
<1>1. PICK p \in run.plan :
        /\ disk' = [n \in DOMAIN disk \cup {p.name} |-> IF n = p.name THEN p.file ELSE disk[n]]
        /\ ledger' = Recorded(p.file, p.name)
        /\ jobs' = jobs \cup {[file |-> p.file, name |-> p.name, done |-> FALSE,
                               remote |-> RemotePathFor(run.with.root, p.name), url |-> <<>>]}
        /\ run' = [run EXCEPT !.plan = @ \ {p}]
  BY DEF CopyFile
<1>2. run.at = "copy" /\ UNCHANGED <<config, edits, leftOut, objects>> BY DEF CopyFile
<1> DEFINE f == p.file
           name == p.name
           job == [file |-> f, name |-> name, done |-> FALSE,
                   remote |-> RemotePathFor(run.with.root, name), url |-> <<>>]
<1>3. f \in Files /\ IsName(name) BY DEF RunInv, Names
<1>4. ~IsImported(f) /\ name \notin DOMAIN disk BY DEF PlanInv
<1>5. \A q \in run.plan : q.file = f \/ q.name = name => q = p BY DEF PlanInv
<1>6. /\ DOMAIN disk' = DOMAIN disk \cup {name} /\ disk'[name] = f
      /\ \A n \in DOMAIN disk : disk'[n] = disk[n]
  BY <1>1, <1>4
<1>7. /\ DOMAIN ledger' = DOMAIN ledger \cup {Key(f)} /\ ledger'[Key(f)] = name
      /\ \A k \in DOMAIN ledger : ledger'[k] = ledger[k]
  BY <1>1, <1>4 DEF Recorded, IsImported
<1>8. jobs' = jobs \cup {job} BY <1>1
<1>9. /\ run'.at = "copy" /\ run'.card = run.card /\ run'.with = run.with
      /\ run'.plan = run.plan \ {p} /\ run'.todo = run.todo
  BY <1>1, <1>2 DEF RunInv
<1>10. \A g \in Files : Key(g) \in DOMAIN ledger' <=> IsImported(g) \/ g = f
  BY <1>3, <1>7, DistinctAssumption DEF IsImported
<1>11. \A g \in Files : IsImported(g) => ledger'[Key(g)] = ledger[Key(g)] BY <1>7 DEF IsImported
<1>12. RunInv'
  <2>1. run' \in [at : {"idle", "scan", "copy"}, card : Cards \cup {None},
                  with : Settings \cup {None}, todo : SUBSET Files,
                  plan : SUBSET [file : Files, name : Names]]
    <3>1. run.plan \ {p} \in SUBSET [file : Files, name : Names] BY DEF RunInv
    <3> QED BY <1>1, <3>1 DEF RunInv
  <2> QED BY <1>2, <1>9, <2>1 DEF RunInv
<1> HIDE DEF f, name, job
<1>13. p.file = f /\ p.name = name BY DEF f, name
<1>14. PlanInv'
  <2>1. \A q \in run.plan : /\ q.file \in Files /\ ~IsImported(q.file)
                            /\ q.file \notin run.todo /\ q.name \notin DOMAIN disk
    BY DEF PlanInv, RunInv
  <2>2. \A q \in run'.plan : q \in run.plan /\ q.file # f /\ q.name # name BY <1>5, <1>9
  <2>3. \A q \in run'.plan : Key(q.file) \notin DOMAIN ledger' /\ q.file \notin run'.todo /\ q.name \notin DOMAIN disk'
    BY <1>6, <1>9, <1>10, <2>1, <2>2
  <2>4. \A q, r \in run'.plan : q.file = r.file \/ q.name = r.name => q = r
    BY <2>2 DEF PlanInv
  <2> QED BY <2>3, <2>4 DEF PlanInv, IsImported
<1>15. DiskInv'
  <2>1. Strangers \subseteq DOMAIN disk' /\ \A n \in Strangers : disk'[n] = 0
    BY <1>6 DEF DiskInv
  <2>2. ASSUME NEW n \in DOMAIN disk' \ Strangers
        PROVE  disk'[n] \in Files /\ Key(disk'[n]) \in DOMAIN ledger' /\ ledger'[Key(disk'[n])] = n
    <3>1. CASE n = name BY <1>3, <1>6, <1>7, <1>10, <3>1
    <3>2. CASE n # name
      <4>1. n \in DOMAIN disk \ Strangers /\ disk'[n] = disk[n] BY <1>6, <3>2
      <4>2. disk[n] \in Files /\ IsImported(disk[n]) /\ ledger[Key(disk[n])] = n BY <4>1 DEF DiskInv
      <4> QED BY <1>10, <1>11, <4>1, <4>2
    <3> QED BY <3>1, <3>2
  <2>3. DOMAIN ledger' \subseteq {Key(g) : g \in Files} BY <1>3, <1>7 DEF DiskInv
  <2>4. ASSUME NEW g \in Files, Key(g) \in DOMAIN ledger'
        PROVE  /\ IsName(ledger'[Key(g)]) /\ ledger'[Key(g)] \in DOMAIN disk'
               /\ disk'[ledger'[Key(g)]] = g
    <3>1. CASE g = f BY <1>3, <1>6, <1>7, <3>1
    <3>2. CASE g # f
      <4>1. IsImported(g) BY <1>10, <2>4, <3>2
      <4>2. /\ IsName(ledger[Key(g)]) /\ ledger[Key(g)] \in DOMAIN disk
            /\ disk[ledger[Key(g)]] = g
        BY <4>1 DEF DiskInv
      <4> QED BY <1>6, <1>11, <4>1, <4>2
    <3> QED BY <3>1, <3>2
  <2> QED BY <2>1, <2>2, <2>3, <2>4 DEF DiskInv, IsImported
<1>16. JobInv'
  <2> SUFFICES ASSUME NEW j \in jobs'
               PROVE  /\ DOMAIN j = {"file", "name", "done", "remote", "url"}
                      /\ j.file \in Files /\ Key(j.file) \in DOMAIN ledger' /\ ledger'[Key(j.file)] = j.name
                      /\ \E r \in Seq(Plain) : j.remote = RemotePathFor(r, j.name)
                      /\ j.done => j.url[2] \in DOMAIN objects' /\ EndsIn(j.url[2], j.name)
    BY DEF JobInv, IsImported
  <2>1. CASE j \in jobs
    <3>1. /\ DOMAIN j = {"file", "name", "done", "remote", "url"}
          /\ j.file \in Files /\ IsImported(j.file) /\ ledger[Key(j.file)] = j.name
          /\ \E r \in Seq(Plain) : j.remote = RemotePathFor(r, j.name)
          /\ j.done => j.url[2] \in DOMAIN objects /\ EndsIn(j.url[2], j.name)
      BY <2>1 DEF JobInv
    <3> QED BY <1>2, <1>10, <1>11, <3>1
  <2>2. CASE j = job
    <3>1. /\ DOMAIN j = {"file", "name", "done", "remote", "url"}
          /\ j.file = f /\ j.name = name /\ j.done = FALSE
          /\ j.remote = RemotePathFor(run.with.root, name)
      BY <2>2 DEF job
    <3>2. run.with.root \in Seq(Plain)
      <4>1. run.with \in Settings BY <1>2 DEF RunInv
      <4> QED BY <4>1, TextsAssumption, TextIsPlain
    <3> QED BY <1>3, <1>7, <1>10, <3>1, <3>2
  <2> QED BY <1>8, <2>1, <2>2
<1>17. ObjectInv'
  <2> SUFFICES ASSUME NEW x \in DOMAIN objects
               PROVE  /\ objects[x] \in Files /\ Key(objects[x]) \in DOMAIN ledger'
                      /\ EndsIn(x, ledger'[Key(objects[x])])
    BY <1>2 DEF ObjectInv, IsImported
  <2>1. /\ objects[x] \in Files /\ IsImported(objects[x])
        /\ EndsIn(x, ledger[Key(objects[x])])
    BY DEF ObjectInv
  <2> QED BY <1>10, <1>11, <2>1
<1>18. LeftInv'
  <2> SUFFICES ASSUME NEW g \in Files, OnCard[g] = run.card, IsGoproMediaFolder(Folder[g])
               PROVE  \/ g \in run'.todo
                      \/ \E q \in run'.plan : q.file = g
                      \/ Key(g) \in DOMAIN ledger'
                      \/ <<g, run.with>> \in leftOut /\ Unwanted(Classify(EntryName(g)))
    BY <1>2, <1>9 DEF LeftInv, Unwanted, IsImported
  <2>1. \/ g \in run.todo
        \/ \E q \in run.plan : q.file = g
        \/ IsImported(g)
        \/ <<g, run.with>> \in leftOut /\ Unwanted(Classify(EntryName(g)))
    BY <1>2 DEF LeftInv
  <2> QED BY <1>9, <1>10, <1>13, <2>1
<1> QED BY <1>12, <1>14, <1>15, <1>16, <1>17, <1>18

LEMMA MirrorInv ==
  ASSUME RouteIInv, NEW j \in jobs, Mirror(j)
  PROVE  RouteIInv'
<1> USE DEF RouteIInv
<1> DEFINE there == ObjectAt(FilesUrl(config.user, RemoteRel(config.root, j.remote)))
           done == [j EXCEPT !.done = TRUE, !.url = <<config.base, there>>]
<1>1. /\ objects' = [x \in DOMAIN objects \cup {there} |->
                       IF x \in DOMAIN objects THEN objects[x] ELSE j.file]
      /\ jobs' = (jobs \ {j}) \cup {done}
      /\ UNCHANGED <<config, edits, run, disk, ledger, leftOut>>
  BY DEF Mirror, Uploader
<1>2. /\ DOMAIN j = {"file", "name", "done", "remote", "url"}
      /\ j.file \in Files /\ IsImported(j.file) /\ ledger[Key(j.file)] = j.name
      /\ \E r \in Seq(Plain) : j.remote = RemotePathFor(r, j.name)
  BY DEF JobInv
<1>3. EndsIn(there, j.name)
  <2>1. PICK r \in Seq(Plain) : j.remote = RemotePathFor(r, j.name) BY <1>2
  <2>2. config.root \in Seq(Plain) /\ config.user \in Seq(Plain)
    BY TextsAssumption, TextIsPlain DEF RunInv
  <2>3. IsName(j.name) BY <1>2 DEF DiskInv
  <2>4. j.name \in Seq(Plain \ {"/"}) BY <2>3, NameIsSafe
  <2>5. \E o \in Seq(Letters) :
          ObjectAt(FilesUrl(config.user, RemoteRel(config.root, RemotePathFor(r, j.name))))
            = (o \o <<"|">>) \o j.name
    BY <2>2, <2>4, RemoteRead
  <2> QED BY <2>1, <2>5 DEF EndsIn
<1> HIDE DEF there
<1>4. /\ DOMAIN done = {"file", "name", "done", "remote", "url"}
      /\ done.file = j.file /\ done.name = j.name /\ done.remote = j.remote
      /\ done.url[2] = there
  BY <1>2
<1> HIDE DEF done
<1>5. RunInv' BY <1>1 DEF RunInv
<1>6. PlanInv' BY <1>1 DEF PlanInv, IsImported
<1>7. DiskInv' BY <1>1 DEF DiskInv, IsImported
<1>8. LeftInv' BY <1>1 DEF LeftInv, IsImported, Unwanted
<1>9. JobInv'
  <2> SUFFICES ASSUME NEW k \in jobs'
               PROVE  /\ DOMAIN k = {"file", "name", "done", "remote", "url"}
                      /\ k.file \in Files /\ IsImported(k.file) /\ ledger[Key(k.file)] = k.name
                      /\ \E r \in Seq(Plain) : k.remote = RemotePathFor(r, k.name)
                      /\ k.done => k.url[2] \in DOMAIN objects' /\ EndsIn(k.url[2], k.name)
    BY <1>1 DEF JobInv, IsImported
  <2>1. CASE k \in jobs
    <3>1. /\ DOMAIN k = {"file", "name", "done", "remote", "url"}
          /\ k.file \in Files /\ IsImported(k.file) /\ ledger[Key(k.file)] = k.name
          /\ \E r \in Seq(Plain) : k.remote = RemotePathFor(r, k.name)
          /\ k.done => k.url[2] \in DOMAIN objects /\ EndsIn(k.url[2], k.name)
      BY <2>1 DEF JobInv
    <3>2. DOMAIN objects \subseteq DOMAIN objects' BY <1>1
    <3> QED BY <3>1, <3>2
  <2>2. CASE k = done
    <3>1. there \in DOMAIN objects' BY <1>1
    <3> QED BY <1>2, <1>3, <1>4, <2>2, <3>1
  <2> QED BY <1>1, <2>1, <2>2
<1>10. ObjectInv'
  <2> SUFFICES ASSUME NEW x \in DOMAIN objects'
               PROVE  /\ objects'[x] \in Files /\ IsImported(objects'[x])
                      /\ EndsIn(x, ledger[Key(objects'[x])])
    BY <1>1 DEF ObjectInv, IsImported
  <2>1. CASE x \in DOMAIN objects
    <3>1. objects'[x] = objects[x] BY <1>1, <2>1
    <3> QED BY <2>1, <3>1 DEF ObjectInv
  <2>2. CASE x \notin DOMAIN objects
    <3>1. x = there /\ objects'[x] = j.file BY <1>1, <2>2
    <3> QED BY <1>2, <1>3, <3>1
  <2> QED BY <2>1, <2>2
<1> QED BY <1>5, <1>6, <1>7, <1>8, <1>9, <1>10

LEMMA RouteStepInv == RouteIInv /\ [RouteNext]_routeVars => RouteIInv'
<1> SUFFICES ASSUME RouteIInv, [RouteNext]_routeVars PROVE RouteIInv'
  OBVIOUS
<1>1. CASE UNCHANGED routeVars
  <2>1. UNCHANGED <<config, edits, run, disk, ledger, leftOut, jobs, objects>>
    BY <1>1 DEF routeVars
  <2>2. DiskInv' /\ JobInv' /\ ObjectInv' BY <2>1, RunOnly DEF RouteIInv
  <2>3. RunInv' BY <2>1 DEF RouteIInv, RunInv
  <2>4. PlanInv' BY <2>1 DEF RouteIInv, PlanInv, IsImported
  <2>5. LeftInv' BY <2>1 DEF RouteIInv, LeftInv, IsImported, Unwanted
  <2> QED BY <2>2, <2>3, <2>4, <2>5 DEF RouteIInv
<1>2. CASE \E c \in Settings : Configure(c) BY <1>2, ConfigureInv
<1>3. CASE \E c \in Cards : StartRun(c) BY <1>3, StartRunInv
<1>4. CASE ScanFile BY <1>4, ScanFileInv
<1>5. CASE ScanEnds BY <1>5, ScanEndsInv
<1>6. CASE CopyFile BY <1>6, CopyFileInv
<1>7. CASE RunEnds BY <1>7, RunEndsInv
<1>8. CASE \E j \in jobs : Mirror(j) BY <1>8, MirrorInv
<1> QED BY <1>1, <1>2, <1>3, <1>4, <1>5, <1>6, <1>7, <1>8 DEF RouteNext

LEMMA RouteAlways == RouteSpec => []RouteIInv
BY RouteInitInv, RouteStepInv, PTL DEF RouteSpec

-----------------------------------------------------------------------------
(* Theorems.                                                               *)

\* Every recorded file is where the ledger says it is, under one safe component,
\* and no file that was there is replaced, whatever texts the templates, the
\* cards and the settings hold and however names collide (render_name,
\* resolve_collision, record).
THEOREM NamesKept == RouteSpec => []RouteInv
<1>1. RouteIInv => RouteInv
  <2> SUFFICES ASSUME RouteIInv PROVE RouteInv
    OBVIOUS
  <2> USE DEF RouteIInv
  <2>1. RouteTypes
    <3>1. \A p \in run.plan : p.file \in Files /\ ~IsImported(p.file) BY DEF RunInv, PlanInv
    <3>2. \A n \in DOMAIN disk : disk[n] \in Files \cup {0} BY DEF DiskInv
    <3>3. \A j \in jobs : j.file \in Files /\ IsImported(j.file) BY DEF JobInv
    <3>4. \A x \in DOMAIN objects : IsImported(objects[x]) BY DEF ObjectInv
    <3>5. run.at \in {"idle", "scan", "copy"} /\ run.todo \subseteq Files BY DEF RunInv
    <3>6. config \in Settings /\ edits \in 0..MaxEdits BY DEF RunInv
    <3>7. DOMAIN ledger \subseteq {Key(f) : f \in Files} BY DEF DiskInv
    <3> QED BY <3>1, <3>2, <3>3, <3>4, <3>5, <3>6, <3>7 DEF RouteTypes
  <2>2. NamesAreKept
    <3>1. \A n \in Strangers : disk[n] = 0 BY DEF DiskInv
    <3>2. ASSUME NEW k \in DOMAIN ledger
          PROVE  LET n == ledger[k] IN n \in DOMAIN disk /\ Safe(n) /\ disk[n] # 0 /\ Key(disk[n]) = k
      <4>1. PICK f \in Files : k = Key(f) BY DEF DiskInv
      <4>2. IsName(ledger[k]) /\ ledger[k] \in DOMAIN disk /\ disk[ledger[k]] = f
        BY <4>1 DEF DiskInv, IsImported
      <4>3. Safe(ledger[k]) BY <4>2, NameIsSafe
      <4>4. f # 0 BY CardsAssumption
      <4> QED BY <4>1, <4>2, <4>3, <4>4
    <3> QED BY <3>1, <3>2 DEF NamesAreKept
  <2> QED BY <2>1, <2>2 DEF RouteInv
<1> QED BY <1>1, RouteAlways, PTL

\* A done job points at its own file under its name, whatever the roots and the
\* users were when it was queued and when it is uploaded, and whatever its name
\* means in a URL (remote_path_for, remote_rel, files_url).
THEOREM ObjectsKept == RouteSpec => []ObjectIsItsFile
<1>1. RouteIInv => ObjectIsItsFile
  <2> SUFFICES ASSUME RouteIInv, NEW j \in jobs, j.done
               PROVE  objects[j.url[2]] = j.file /\ IsSuffix(<<"|">> \o j.name, j.url[2])
    BY DEF ObjectIsItsFile
  <2> USE DEF RouteIInv
  <2> DEFINE x == j.url[2]
             g == objects[x]
  <2>1. /\ j.file \in Files /\ IsImported(j.file) /\ ledger[Key(j.file)] = j.name
        /\ x \in DOMAIN objects /\ EndsIn(x, j.name)
    BY DEF JobInv
  <2>2. g \in Files /\ IsImported(g) /\ EndsIn(x, ledger[Key(g)]) BY <2>1 DEF ObjectInv
  <2> HIDE DEF x, g
  <2>3. IsName(j.name) /\ disk[j.name] = j.file BY <2>1 DEF DiskInv
  <2>4. IsName(ledger[Key(g)]) /\ disk[ledger[Key(g)]] = g BY <2>2 DEF DiskInv
  <2>5. j.name \in Seq(Plain) /\ ledger[Key(g)] \in Seq(Plain) BY <2>3, <2>4, NameIsSafe
  <2>6. PICK o \in Seq(Letters) : x = (o \o <<"|">>) \o j.name BY <2>1 DEF EndsIn
  <2>7. PICK r \in Seq(Letters) : x = (r \o <<"|">>) \o ledger[Key(g)] BY <2>2 DEF EndsIn
  <2>8. j.name = ledger[Key(g)] BY <2>5, <2>6, <2>7, PathTellsName
  <2>9. g = j.file BY <2>3, <2>4, <2>8
  <2>10. IsSuffix(<<"|">> \o j.name, x) BY <2>5, <2>6, SuffixOf
  <2> QED BY <2>9, <2>10 DEF x, g
<1> QED BY <1>1, RouteAlways, PTL

LEMMA SameEnd ==
  ASSUME NEW a \in Nat, NEW b \in Nat, 1..a = 1..b
  PROVE  a = b
<1>1. a < b => b \in 1..b /\ b \notin 1..a OBVIOUS
<1>2. b < a => a \in 1..a /\ a \notin 1..b OBVIOUS
<1> QED BY <1>1, <1>2

\* What the scan takes for a proxy or a thumbnail has the name of one.
LEMMA ProxyHasItsName ==
  ASSUME NEW f \in Files
  PROVE  /\ Classify(EntryName(f)) = "LowResProxy" => Last(Name[f]) \in {"LRV", "lrv"}
         /\ Classify(EntryName(f)) = "Thumbnail" => Last(Name[f]) = "THM"
<1> DEFINE name == EntryName(f)
           e == Ext(name)
           ext == [i \in DOMAIN e |-> Upper(e[i])]
<1>1. Name[f] \in Seq(Plain) BY TextsAssumption, TextIsPlain
<1>2. name \in Seq(Plain) BY EntryIsPlain
<1>3. DOMAIN name = DOMAIN Name[f] /\ \A i \in DOMAIN name :
        name[i] = IF Name[f][i] = "bad byte" THEN "U+FFFD" ELSE Name[f][i]
  BY DEF EntryName
<1>4. Len(name) = Len(Name[f])
  <2> HIDE DEF name
  <2>1. /\ DOMAIN name = 1..Len(name) /\ Len(name) \in Nat
        /\ DOMAIN Name[f] = 1..Len(Name[f]) /\ Len(Name[f]) \in Nat
    BY <1>1, <1>2, LenProperties
  <2> QED BY <1>3, <2>1, SameEnd
<1>5. /\ Classify(name) = "LowResProxy" => Dot(name) # 0 /\ ext = <<"LRV">>
      /\ Classify(name) = "Thumbnail" => Dot(name) # 0 /\ ext = <<"THM">>
  <2> HIDE DEF name
  <2>1. CASE Dot(name) = 0
    <3>1. e = <<>> BY <2>1 DEF Ext
    <3>2. \A w : ext # <<w>>
      <4>1. DOMAIN ext = {} BY <3>1
      <4>2. \A w : 1 \in DOMAIN <<w>> OBVIOUS
      <4> HIDE DEF ext
      <4> QED BY <4>1, <4>2
    <3> QED BY <2>1, <3>2 DEF Classify
  <2>2. CASE Dot(name) # 0 /\ ext = <<"MP4">> BY <2>2 DEF Classify
  <2>3. CASE Dot(name) # 0 /\ ext \in {<<"JPG">>, <<"JPEG">>} BY <2>3 DEF Classify
  <2>4. CASE Dot(name) # 0 /\ ext \notin {<<"MP4">>, <<"JPG">>, <<"JPEG">>} BY <2>4 DEF Classify
  <2> QED BY <2>1, <2>2, <2>3, <2>4
<1> HIDE DEF name
<1>6. ASSUME NEW w, ext = <<w>>, Dot(name) # 0, w # "U+FFFD"
      PROVE  Upper(Last(Name[f])) = w
  <2>1. e \in Seq(Plain) /\ Dot(name) \in 0..Len(name) /\ Len(name) \in Nat
        /\ Len(e) = Len(name) - Dot(name) /\ \A i \in 1..Len(e) : e[i] = name[Dot(name) + i]
    BY <1>2, <1>6, StemAndExt
  <2> HIDE DEF e
  <2>2. Len(e) \in Nat /\ DOMAIN e = 1..Len(e) BY <2>1, LenProperties
  <2>3. DOMAIN ext = 1..Len(e) /\ DOMAIN <<w>> = 1..1 BY <2>2
  <2>4. Len(e) = 1 BY <1>6, <2>2, <2>3
  <2>5. ext[1] = Upper(e[1]) /\ ext[1] = w
    <3>1. 1 \in DOMAIN e BY <2>2, <2>4
    <3> QED BY <1>6, <3>1
  <2>6. e[1] = name[Len(name)] /\ Len(name) \in DOMAIN name
    <3>1. 1 \in 1..Len(e) /\ Dot(name) + 1 = Len(name)
      <4>1. 1 = Len(name) - Dot(name) BY <2>1, <2>4
      <4> QED BY <2>1, <2>4, <4>1
    <3>2. e[1] = name[Len(name)] BY <2>1, <3>1
    <3>3. Len(name) \in 1..Len(name) BY <2>1, <3>1
    <3> QED BY <1>2, <3>2, <3>3, LenProperties
  <2>7. Upper(name[Len(name)]) = w BY <2>5, <2>6
  <2>8. Name[f][Len(name)] = "bad byte" => name[Len(name)] = "U+FFFD" BY <1>3, <2>6
  <2>9. name[Len(name)] # "U+FFFD" BY <1>6, <2>7 DEF Upper
  <2> QED BY <1>3, <1>4, <2>6, <2>7, <2>8, <2>9 DEF Last
<1>7. \A p : /\ Upper(p) = "LRV" => p \in {"LRV", "lrv"}
             /\ Upper(p) = "THM" => p = "THM"
  BY DEF Upper
<1>8. ASSUME Classify(name) = "LowResProxy" PROVE Upper(Last(Name[f])) = "LRV"
  <2> HIDE DEF ext
  <2> QED BY <1>5, <1>6, <1>8
<1>9. ASSUME Classify(name) = "Thumbnail" PROVE Upper(Last(Name[f])) = "THM"
  <2> HIDE DEF ext
  <2> QED BY <1>5, <1>6, <1>9
<1> QED BY <1>7, <1>8, <1>9 DEF name

\* A run that ends has imported every file of its card's media folders but the
\* proxies and thumbnails it was told to leave (classify, scan_with_skips).
THEOREM NoneForgotten == RouteSpec => []NothingIsForgotten
<1>1. RouteIInv => NothingIsForgotten
  <2> SUFFICES ASSUME RouteIInv, run.at = "copy", run.plan = {},
                      NEW f \in Files, OnCard[f] = run.card, IsGoproMediaFolder(Folder[f])
               PROVE  \/ IsImported(f)
                      \/ /\ <<f, run.with>> \in leftOut
                         /\ \/ Last(Name[f]) \in {"LRV", "lrv"} /\ ~run.with.proxies
                            \/ Last(Name[f]) = "THM" /\ ~run.with.thumbnails
    BY DEF NothingIsForgotten
  <2>1. \/ IsImported(f)
        \/ <<f, run.with>> \in leftOut /\ Unwanted(Classify(EntryName(f)))
    BY DEF RouteIInv, RunInv, LeftInv
  <2> QED BY <2>1, ProxyHasItsName DEF Unwanted
<1> QED BY <1>1, RouteAlways, PTL

==============================================================================
