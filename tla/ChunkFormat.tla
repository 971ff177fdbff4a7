----------------------------- MODULE ChunkFormat -----------------------------
(***************************************************************************)
(* The sizes of the encrypted file format (src/src/crypto.rs) and the two  *)
(* other places that compute with them (src/src/worker.rs: wire_len and    *)
(* plaintext_of_ciphertext).  A file is a header and then its plaintext in *)
(* chunks of Chunk bytes, each followed by a tag; the empty file has one   *)
(* empty chunk.                                                            *)
(***************************************************************************)
EXTENDS Integers

CONSTANTS Chunk,   \* CHUNK, 2^20
          Tag,     \* TAG, 16
          Header   \* HEADER_LEN, 24

ASSUME FormatAssumption == Chunk \in Nat \ {0} /\ Tag \in Nat \ {0} /\ Header \in Nat

CipherChunk == Chunk + Tag

\* u64::div_ceil
div_ceil(a, d) == (a + d - 1) \div d

chunks(plain) == IF plain = 0 THEN 1 ELSE div_ceil(plain, Chunk)

encrypted_size(plain) == Header + plain + chunks(plain) * Tag

\* Fault: no tag for the chunk of an empty file.
WireLenNoEmptyChunk(plain) == Header + plain + div_ceil(plain, Chunk) * Tag

\* The same size once more: .max(1) in the place of the test for zero.
wire_len(plain) == LET n == div_ceil(plain, Chunk) IN
                   Header + plain + (IF n < 1 THEN 1 ELSE n) * Tag

\* chunk_layout: the number of chunks and the length of the last one ...
layout_chunks(len) == LET n == div_ceil(len - Header, CipherChunk) IN IF n < 1 THEN 1 ELSE n
layout_last(len) == len - Header - (layout_chunks(len) - 1) * CipherChunk

\* ... unless it reports "too short" or "invalid chunk framing".
layout_ok(len) == len >= Header + Tag /\ layout_last(len) >= Tag

plaintext_of_ciphertext(len) ==
    LET body == len - Header
        full == body \div CipherChunk
        n == full + (IF body % CipherChunk > 0 THEN 1 ELSE 0)
        tags == (IF n < 1 THEN 1 ELSE n) * Tag
    IN IF len < Header \/ body < Tag THEN 0
       ELSE IF body < tags THEN 0 ELSE body - tags
=============================================================================
