-------------------------- MODULE ChunkFormatProofs --------------------------
(* Proofs about ChunkFormat, for every chunk, tag, header and file size. *)
EXTENDS ChunkFormat, TLAPS

\* The defining property of div_ceil ...
LEMMA CeilBounds ==
    ASSUME NEW a \in Nat, NEW d \in Nat \ {0}
    PROVE  /\ div_ceil(a, d) \in Nat
           /\ div_ceil(a, d) * d >= a
           /\ (div_ceil(a, d) - 1) * d < a
BY DEF div_ceil

\* ... determines it.
LEMMA CeilUnique ==
    ASSUME NEW a \in Nat, NEW d \in Nat \ {0}, NEW m \in Nat, a <= m * d, (m - 1) * d < a
    PROVE  div_ceil(a, d) = m
BY DEF div_ceil

\* A file has at least one chunk, all but the last of them are full, and the
\* last is empty only in the empty file.
LEMMA ChunkBounds ==
    ASSUME NEW p \in Nat
    PROVE  /\ chunks(p) \in Nat \ {0}
           /\ (chunks(p) - 1) * Chunk <= p
           /\ p <= chunks(p) * Chunk
<1> USE FormatAssumption
<1>1. CASE p = 0
  BY <1>1 DEF chunks
<1>2. CASE p # 0
  <2>1. chunks(p) = div_ceil(p, Chunk)
    BY <1>2 DEF chunks
  <2>2. /\ div_ceil(p, Chunk) \in Nat
        /\ div_ceil(p, Chunk) * Chunk >= p
        /\ (div_ceil(p, Chunk) - 1) * Chunk < p
    BY CeilBounds
  <2>3. div_ceil(p, Chunk) # 0
    <3> SUFFICES ASSUME div_ceil(p, Chunk) = 0 PROVE FALSE
      OBVIOUS
    <3>1. 0 * Chunk >= p
      BY <2>2
    <3> QED BY <3>1, <1>2
  <2> DEFINE n == div_ceil(p, Chunk)
  <2>4. (n - 1) * Chunk \in Int
    BY <2>2
  <2> QED BY <2>1, <2>2, <2>3, <2>4
<1> QED BY <1>1, <1>2

\* The body of the ciphertext of p bytes ends in its chunk number chunks(p).
LEMMA BodyBounds ==
    ASSUME NEW p \in Nat
    PROVE  LET n == chunks(p)  body == p + chunks(p) * Tag IN
           /\ body \in Nat
           /\ body <= n * CipherChunk
           /\ (n - 1) * CipherChunk + Tag <= body
<1> USE FormatAssumption
<1> DEFINE n == chunks(p)
<1>1. n \in Nat \ {0} /\ (n - 1) * Chunk <= p /\ p <= n * Chunk
  BY ChunkBounds
<1> HIDE DEF n
<1>2. n * CipherChunk = n * Chunk + n * Tag
  BY <1>1 DEF CipherChunk
<1>3. (n - 1) * CipherChunk = (n - 1) * Chunk + n * Tag - Tag
  BY <1>1 DEF CipherChunk
<1>4. n * Tag \in Nat /\ n * Chunk \in Nat /\ (n - 1) * Chunk \in Nat
  BY <1>1
<1>5. /\ p + n * Tag \in Nat
      /\ p + n * Tag <= n * CipherChunk
      /\ (n - 1) * CipherChunk + Tag <= p + n * Tag
  BY <1>1, <1>2, <1>3, <1>4
<1> QED BY <1>5 DEF n

\* chunk_layout counts the chunks that encrypted_size has counted tags for.
LEMMA BodyChunks ==
    ASSUME NEW p \in Nat
    PROVE  div_ceil(p + chunks(p) * Tag, CipherChunk) = chunks(p)
<1> USE FormatAssumption
<1> DEFINE n == chunks(p)
           body == p + chunks(p) * Tag
<1>1. n \in Nat \ {0}
  BY ChunkBounds
<1>2. body \in Nat /\ body <= n * CipherChunk /\ (n - 1) * CipherChunk + Tag <= body
  BY BodyBounds
<1>3. CipherChunk \in Nat \ {0}
  BY DEF CipherChunk
<1> HIDE DEF n, body
<1>4. (n - 1) * CipherChunk \in Nat
  BY <1>1, <1>3
<1>5. (n - 1) * CipherChunk < body
  BY <1>2, <1>4
<1>6. div_ceil(body, CipherChunk) = n
  BY <1>1, <1>2, <1>3, <1>5, CeilUnique
<1> QED BY <1>6 DEF n, body

\* wire_len, which announces the length of an upload, and encrypted_size, from
\* which a download computes its layout, are one function.
THEOREM WireLenIsEncryptedSize ==
    ASSUME NEW p \in Nat
    PROVE  wire_len(p) = encrypted_size(p)
<1> USE FormatAssumption
<1>1. CASE p = 0
  <2>1. div_ceil(0, Chunk) = 0
    BY CeilUnique
  <2> QED BY <1>1, <2>1 DEF wire_len, encrypted_size, chunks
<1>2. CASE p # 0
  <2>1. chunks(p) = div_ceil(p, Chunk) /\ chunks(p) \in Nat \ {0}
    BY <1>2, ChunkBounds DEF chunks
  <2> QED BY <2>1 DEF wire_len, encrypted_size
<1> QED BY <1>1, <1>2

\* chunk_layout accepts the length of every encrypted file and finds its chunks.
THEOREM LayoutOfEncryptedSize ==
    ASSUME NEW p \in Nat
    PROVE  /\ layout_ok(encrypted_size(p))
           /\ layout_chunks(encrypted_size(p)) = chunks(p)
           /\ layout_last(encrypted_size(p)) = p - (chunks(p) - 1) * Chunk + Tag
<1> USE FormatAssumption
<1> DEFINE n == chunks(p)
           body == p + chunks(p) * Tag
<1>1. n \in Nat \ {0}
  BY ChunkBounds
<1>2. body \in Nat /\ (n - 1) * CipherChunk + Tag <= body
  BY BodyBounds
<1>3. encrypted_size(p) = Header + body
  BY <1>1 DEF encrypted_size
<1>4. div_ceil(body, CipherChunk) = n
  BY BodyChunks
<1>a. body = p + n * Tag
  OBVIOUS
<1> HIDE DEF n, body
<1>5. encrypted_size(p) - Header = body
  BY <1>2, <1>3
<1>6. layout_chunks(encrypted_size(p)) = n
  BY <1>1, <1>4, <1>5 DEF layout_chunks
<1>7. layout_last(encrypted_size(p)) = body - (n - 1) * CipherChunk
  BY <1>5, <1>6 DEF layout_last
<1>8. CipherChunk \in Nat /\ (n - 1) * CipherChunk \in Nat
  BY <1>1 DEF CipherChunk
<1>9. layout_last(encrypted_size(p)) >= Tag /\ encrypted_size(p) >= Header + Tag
  BY <1>2, <1>3, <1>7, <1>8
<1>10. (n - 1) * CipherChunk = (n - 1) * Chunk + n * Tag - Tag
  BY <1>1 DEF CipherChunk
<1>11. (n - 1) * Chunk \in Nat /\ n * Tag \in Nat
  BY <1>1
<1>12. layout_last(encrypted_size(p)) = p - (n - 1) * Chunk + Tag
  BY <1>a, <1>7, <1>10, <1>11
<1> QED BY <1>6, <1>9, <1>12 DEF layout_ok, n

\* Counting the full chunks and then the rest is counting with div_ceil.
LEMMA CeilFromFloor ==
    ASSUME NEW a \in Nat, NEW d \in Nat \ {0}
    PROVE  a \div d + (IF a % d > 0 THEN 1 ELSE 0) = div_ceil(a, d)
<1> DEFINE q == a \div d
           r == a % d
<1>1. q \in Nat /\ r \in 0 .. d - 1 /\ a = q * d + r
  OBVIOUS
<1> HIDE DEF q, r
<1>2. q * d \in Nat
  BY <1>1
<1>3. CASE r = 0
  <2>1. (q - 1) * d = q * d - d
    BY <1>1
  <2> QED BY <1>1, <1>2, <1>3, <2>1, CeilUnique DEF q, r
<1>4. CASE r > 0
  <2>1. (q + 1) * d = q * d + d
    BY <1>1
  <2>2. a <= (q + 1) * d /\ ((q + 1) - 1) * d < a
    BY <1>1, <1>2, <1>4, <2>1
  <2>3. div_ceil(a, d) = q + 1
    BY <1>1, <2>2, CeilUnique
  <2> QED BY <1>4, <2>3 DEF q, r
<1> QED BY <1>1, <1>3, <1>4

\* plaintext_of_ciphertext is the inverse of encrypted_size.
THEOREM PlaintextOfEncryptedSize ==
    ASSUME NEW p \in Nat
    PROVE  plaintext_of_ciphertext(encrypted_size(p)) = p
<1> USE FormatAssumption
<1> DEFINE n == chunks(p)
           body == p + chunks(p) * Tag
<1>1. n \in Nat \ {0}
  BY ChunkBounds
<1>2. body \in Nat /\ (n - 1) * CipherChunk + Tag <= body
  BY BodyBounds
<1>3. encrypted_size(p) = Header + body
  BY <1>1 DEF encrypted_size
<1>4. div_ceil(body, CipherChunk) = n
  BY BodyChunks
<1>a. body = p + n * Tag
  OBVIOUS
<1>b. CipherChunk \in Nat \ {0}
  BY DEF CipherChunk
<1> HIDE DEF n, body
<1>5. body \div CipherChunk + (IF body % CipherChunk > 0 THEN 1 ELSE 0) = n
  BY <1>2, <1>4, <1>b, CeilFromFloor
<1>6. encrypted_size(p) - Header = body /\ ~(encrypted_size(p) < Header)
  BY <1>2, <1>3
<1>7. (n - 1) * CipherChunk \in Nat /\ n * Tag \in Nat
  BY <1>1, <1>b
<1>8. ~(body < Tag) /\ ~(body < n * Tag) /\ body - n * Tag = p
  BY <1>2, <1>7, <1>a
<1>9. ~(n < 1)
  BY <1>1
<1> QED BY <1>5, <1>6, <1>8, <1>9 DEF plaintext_of_ciphertext
=============================================================================
