---------------------------- MODULE DownloadProofs ----------------------------
(***************************************************************************)
(* Proofs about Download, for every chunk and tag size, every object size  *)
(* and any number of attempts, failures, crashes and changes.              *)
(*                                                                         *)
(* That every byte is in place is not inductive by itself: it also takes   *)
(* that the stream of a plain file, and the chunk number of an encrypted   *)
(* one, stand where the part file will end when the buffer is written.     *)
(***************************************************************************)
EXTENDS Download, ChunkFormatProofs, SequenceTheorems

\* The bytes on their way to the part file will land in their places.
BufInv == \A k \in 1 .. Len(buf) : buf[k][1] \in Version /\ buf[k][2] = Len(part) + k

\* The stream stands where the file will end.
PositionInv ==
    /\ pc \in {"header", "copy", "write"} => reader.ver \in Version
    /\ pc = "header" => encrypted
    /\ pc \in {"open", "header"} /\ encrypted => Len(part) = completed * Chunk
    /\ pc \in {"copy", "write"} /\ ~encrypted => reader.pos = Len(part) + Len(buf)
    /\ pc \in {"copy", "write"} /\ encrypted =>
          next >= n_chunks \/ next * Chunk = Len(part) + Len(buf)

DownloadInv == TypeOK /\ Places(part) /\ Places(out) /\ BufInv /\ PositionInv

-----------------------------------------------------------------------------

\* A prefix of a file has the bytes of the file.
LEMMA PrefixFacts ==
    ASSUME NEW s \in Seq(Byte), NEW n \in 0 .. Len(s)
    PROVE  /\ SubSeq(s, 1, n) \in Seq(Byte)
           /\ Len(SubSeq(s, 1, n)) = n
           /\ \A k \in 1 .. n : SubSeq(s, 1, n)[k] = s[k]
OBVIOUS

\* What is read of version v between two offsets.
LEMMA BytesFacts ==
    ASSUME NEW v \in Nat, NEW from \in Nat, NEW to \in Nat, from <= to
    PROVE  /\ Bytes(v, from, to) \in Seq(Byte)
           /\ Len(Bytes(v, from, to)) = to - from
           /\ \A k \in 1 .. (to - from) : Bytes(v, from, to)[k] = <<v, from + k>>
<1>1. to - from \in Nat
  OBVIOUS
<1>2. \A k \in 1 .. (to - from) : <<v, from + k>> \in Byte
  BY DEF Byte
<1> QED BY <1>1, <1>2 DEF Bytes

\* The number of whole chunks on disk.
LEMMA WholeChunks ==
    ASSUME NEW n \in Nat
    PROVE  LET w == n - (n % Chunk) IN w \in 0 .. n /\ w = (w \div Chunk) * Chunk
<1> USE FormatAssumption
<1> DEFINE q == n \div Chunk
           r == n % Chunk
<1>1. q \in Nat /\ r \in 0 .. Chunk - 1 /\ n = q * Chunk + r
  OBVIOUS
<1>2. n - r = q * Chunk /\ n - r \in 0 .. n
  BY <1>1
<1>3. (q * Chunk) \div Chunk = q
  BY <1>1
<1> QED BY <1>2, <1>3

\* The layout of the file that is expected.
LEMMA LayoutFacts ==
    ASSUME TypeOK
    PROVE  /\ n_chunks \in Nat \ {0}
           /\ clen \in Nat /\ clen >= Tag
           /\ ~last => clen = Chunk + Tag
<1> USE FormatAssumption
<1>1. expected \in Nat
  BY DEF TypeOK
<1>2. chunks(expected) \in Nat \ {0} /\ (chunks(expected) - 1) * Chunk <= expected
  BY <1>1, ChunkBounds
<1>3. n_chunks = chunks(expected)
  BY <1>1, LayoutOfEncryptedSize DEF n_chunks
<1>4. layout_last(encrypted_size(expected)) = expected - (chunks(expected) - 1) * Chunk + Tag
  BY <1>1, LayoutOfEncryptedSize
<1>5. (chunks(expected) - 1) * Chunk \in Nat
  BY <1>2
<1>6. layout_last(encrypted_size(expected)) \in Nat /\ layout_last(encrypted_size(expected)) >= Tag
  BY <1>1, <1>2, <1>4, <1>5
<1> QED BY <1>2, <1>3, <1>6 DEF clen, CipherChunk

-----------------------------------------------------------------------------

LEMMA SizeType == TypeOK => \A v \in Version : sizes[v] \in Nat
BY SMTT(30) DEF TypeOK, Version

LEMMA DownloadInit == Init => DownloadInv
<1> USE DownloadAssumption, FormatAssumption
<1> SUFFICES ASSUME Init PROVE DownloadInv
  OBVIOUS
<1>0. sizes \in Seq(Nat) /\ sizes # <<>> /\ Len(sizes) = 1
  <2>1. PICK n \in Sizes : sizes = <<n>>
    BY DEF Init
  <2>2. n \in Nat
    OBVIOUS
  <2> QED BY <2>1, <2>2
<1>a. <<>> \in Seq(Byte)
  OBVIOUS
<1>b. reader \in [ver : 0 .. Len(sizes), pos : Nat] /\ header \in 0 .. Len(sizes)
  BY <1>0 DEF Init
<1>e. encrypted \in BOOLEAN /\ saved \in BOOLEAN /\ cancelled \in BOOLEAN
  BY DEF Init
<1>c. /\ attempt \in 0 .. Retries /\ expected \in Nat /\ next \in Nat
      /\ runs \in 0 .. MaxRuns /\ errors \in 0 .. MaxErrors /\ crashes \in 0 .. MaxCrashes
  BY DEF Init
<1>d. part = <<>> /\ out = <<>> /\ buf = <<>> /\ pc = "idle" /\ outcome = "none"
  BY DEF Init
<1>1. TypeOK
  BY <1>0, <1>a, <1>b, <1>c, <1>d, <1>e DEF TypeOK
<1> QED BY <1>1 DEF Init, DownloadInv, Places, BufInv, PositionInv

\* A step that leaves the files alone and does not enter the copying keeps all
\* that is said of bytes; types are for the caller to show.
LEMMA QuietStep ==
    ASSUME DownloadInv, TypeOK',
           UNCHANGED <<part, out, encrypted, sizes>>,
           buf' = buf \/ buf' = <<>>,
           pc' \notin {"open", "header", "copy", "write"}
    PROVE  DownloadInv'
<1> USE DEF DownloadInv, PositionInv, BufInv, Places, Version
<1>1. Places(part)' /\ Places(out)'
  OBVIOUS
<1>2. BufInv'
  BY DEF TypeOK
<1>3. PositionInv'
  OBVIOUS
<1> QED BY <1>1, <1>2, <1>3

LEMMA ControlSteps ==
    ASSUME DownloadInv, Start \/ Retry \/ CancelledFirst \/ EndPlain \/ EndChunks \/ CancelledCopy \/ Fault \/ Crash
    PROVE  DownloadInv'
<1> USE DownloadAssumption
<1>1. TypeOK'
  <2>1. CASE Start
    <3>1. \A v \in Version : sizes[v] \in Nat
      BY SizeType DEF DownloadInv
    <3>2. expected' \in Nat
      BY <2>1, <3>1 DEF Start
    <3>3. runs' \in 0 .. MaxRuns
      BY <2>1 DEF DownloadInv, Start, TypeOK
    <3>4. attempt' \in 0 .. Retries
      BY <2>1 DEF Start
    <3> QED BY <2>1, <3>2, <3>3, <3>4 DEF DownloadInv, Start, TypeOK, disk
  <2>2. CASE Retry
    BY <2>2 DEF DownloadInv, Retry, MayRetry, TypeOK, disk, bounds
  <2>3. CASE CancelledFirst
    BY <2>3 DEF DownloadInv, CancelledFirst, Fails, TypeOK, disk, bounds
  <2>4. CASE EndPlain
    BY <2>4 DEF DownloadInv, EndPlain, TypeOK, disk, bounds
  <2>5. CASE EndChunks
    BY <2>5 DEF DownloadInv, EndChunks, TypeOK, disk, bounds
  <2>6. CASE CancelledCopy
    BY <2>6 DEF DownloadInv, CancelledCopy, Fails, TypeOK, disk, bounds
  <2>7. CASE Fault
    BY <2>7 DEF DownloadInv, Fault, Fails, TypeOK, disk
  <2>8. CASE Crash
    BY <2>8 DEF DownloadInv, Crash, TypeOK, disk
  <2> QED BY <2>1, <2>2, <2>3, <2>4, <2>5, <2>6, <2>7, <2>8
<1>2. /\ UNCHANGED <<part, out, encrypted, sizes>>
      /\ buf' = buf \/ buf' = <<>>
      /\ pc' \notin {"open", "header", "copy", "write"}
  BY DEF Start, Retry, CancelledFirst, EndPlain, EndChunks, CancelledCopy, Fault, Crash, Fails, disk, bounds
<1> QED BY <1>1, <1>2, QuietStep

LEMMA CancelStep == ASSUME DownloadInv, Cancel PROVE DownloadInv'
<1>1. TypeOK'
  BY DEF DownloadInv, Cancel, TypeOK, disk, bounds
<1>2. Places(part)' /\ Places(out)' /\ BufInv' /\ PositionInv'
  BY DEF DownloadInv, Cancel, disk, bounds, Places, BufInv, PositionInv, Version, completed, n_chunks
<1> QED BY <1>1, <1>2 DEF DownloadInv

\* The versions there were are still there when a new one comes.
LEMMA OverwriteStep == ASSUME DownloadInv, Overwrite PROVE DownloadInv'
<1> USE DownloadAssumption
<1>1. PICK n \in Sizes : sizes' = Append(sizes, n)
  BY DEF Overwrite
<1>2. sizes \in Seq(Nat) /\ n \in Nat
  BY DEF DownloadInv, TypeOK
<1>3. sizes' \in Seq(Nat) /\ sizes' # <<>> /\ Len(sizes') = Len(sizes) + 1
  BY <1>1, <1>2, AppendProperties
<1>4. TypeOK'
  BY <1>2, <1>3, SMTT(30) DEF DownloadInv, Overwrite, TypeOK, disk, task, bounds
<1>5. \A v \in Version : v \in Version'
  BY <1>2, <1>3 DEF Version
<1>6. UNCHANGED <<part, out, buf, pc, encrypted, expected, reader, next>>
  BY DEF Overwrite, disk, task
<1>7. Places(part)' /\ Places(out)' /\ BufInv'
  BY <1>5, <1>6 DEF DownloadInv, Places, BufInv
<1>8. PositionInv'
  BY <1>5, <1>6 DEF DownloadInv, PositionInv, completed, n_chunks
<1> QED BY <1>4, <1>7, <1>8 DEF DownloadInv

\* Giving up removes the part file; renaming makes it the file.
LEMMA EndSteps == ASSUME DownloadInv, GiveUp \/ Rename PROVE DownloadInv'
<1>1. TypeOK'
  BY DEF DownloadInv, GiveUp, Rename, TypeOK, bounds
<1>2. Places(part)' /\ Places(out)'
  BY DEF DownloadInv, GiveUp, Rename, Places, Version, bounds
<1>3. buf' = <<>> /\ pc' = "idle"
  BY DEF DownloadInv, GiveUp, Rename, TypeOK
<1> QED BY <1>1, <1>2, <1>3 DEF DownloadInv, BufInv, PositionInv

\* The whole chunks of the part file, or all of a plain one.
LEMMA KeptFacts ==
    ASSUME DownloadInv
    PROVE  /\ Kept \in Seq(Byte) /\ Places(Kept)
           /\ encrypted => Len(Kept) = (Len(Kept) \div Chunk) * Chunk
<1>1. part \in Seq(Byte) /\ Len(part) \in Nat /\ encrypted \in BOOLEAN
  BY DEF DownloadInv, TypeOK
<1>2. CASE encrypted
  <2> DEFINE w == Len(part) - (Len(part) % Chunk)
  <2>1. w \in 0 .. Len(part) /\ w = (w \div Chunk) * Chunk
    BY <1>1, WholeChunks
  <2> HIDE DEF w
  <2>2. /\ SubSeq(part, 1, w) \in Seq(Byte)
        /\ Len(SubSeq(part, 1, w)) = w
        /\ \A k \in 1 .. w : SubSeq(part, 1, w)[k] = part[k]
    BY <1>1, <2>1, PrefixFacts
  <2>3. Kept = SubSeq(part, 1, w)
    BY <1>2 DEF Kept, w
  <2>4. Places(Kept)
    BY <1>1, <2>1, <2>2, <2>3 DEF DownloadInv, Places
  <2> QED BY <1>2, <2>1, <2>2, <2>3, <2>4
<1>3. CASE ~encrypted
  BY <1>1, <1>3 DEF Kept, DownloadInv
<1> QED BY <1>1, <1>2, <1>3

LEMMA PrepareStep == ASSUME DownloadInv, Prepare PROVE DownloadInv'
<1>1. /\ Kept \in Seq(Byte) /\ Places(Kept)
      /\ encrypted => Len(Kept) = (Len(Kept) \div Chunk) * Chunk
  BY KeptFacts
<1>2. part' = Kept /\ pc' = "open" /\ buf = <<>>
  BY DEF Prepare, DownloadInv, TypeOK
<1>3. TypeOK'
  BY <1>1, <1>2 DEF DownloadInv, Prepare, TypeOK, bounds
<1>4. Places(part)' /\ Places(out)'
  BY <1>1, <1>2 DEF DownloadInv, Prepare, Places, Version
<1>5. BufInv'
  BY <1>2 DEF Prepare, BufInv
<1>6. PositionInv'
  BY <1>1, <1>2 DEF Prepare, PositionInv, completed
<1> QED BY <1>3, <1>4, <1>5, <1>6 DEF DownloadInv

LEMMA FinalizeStep == ASSUME DownloadInv, Finalize PROVE DownloadInv'
<1>1. Kept \in Seq(Byte) /\ Places(Kept) /\ Len(Kept) \in Nat
  BY KeptFacts
<1>2. expected \in 0 .. Len(Kept)
  BY <1>1 DEF Finalize, Complete, DownloadInv, TypeOK
<1>3. /\ SubSeq(Kept, 1, expected) \in Seq(Byte)
      /\ Len(SubSeq(Kept, 1, expected)) = expected
      /\ \A k \in 1 .. expected : SubSeq(Kept, 1, expected)[k] = Kept[k]
  BY <1>1, <1>2, PrefixFacts
<1>4. part' = SubSeq(Kept, 1, expected) /\ pc' = "rename" /\ buf = <<>>
  BY DEF Finalize, DownloadInv, TypeOK
<1>5. TypeOK'
  BY <1>3, <1>4 DEF DownloadInv, Finalize, TypeOK, bounds
<1>6. Places(SubSeq(Kept, 1, expected))
  BY <1>1, <1>2, <1>3 DEF Places
<1>7. Places(part)' /\ Places(out)'
  BY <1>4, <1>6 DEF DownloadInv, Finalize, Places, Version
<1>8. BufInv' /\ PositionInv'
  BY <1>4 DEF Finalize, BufInv, PositionInv
<1> QED BY <1>5, <1>7, <1>8 DEF DownloadInv

\* There is a current version.
LEMMA CurrentFact == TypeOK => Current \in Version
<1> SUFFICES ASSUME TypeOK PROVE Current \in Version
  OBVIOUS
<1>1. sizes \in Seq(Nat) /\ sizes # <<>>
  BY DEF TypeOK
<1>2. Len(sizes) \in Nat \ {0}
  BY <1>1, EmptySeq
<1> QED BY <1>2 DEF Current, Version

LEMMA CompletedType == TypeOK => Len(part) \in Nat /\ completed \in Nat
<1> SUFFICES ASSUME TypeOK PROVE Len(part) \in Nat /\ completed \in Nat
  OBVIOUS
<1>1. Len(part) \in Nat
  BY DEF TypeOK
<1>2. \A n \in Nat : n \div Chunk \in Nat
  BY FormatAssumption
<1> QED BY <1>1, <1>2 DEF completed

LEMMA OpenStep == ASSUME DownloadInv, Open PROVE DownloadInv'
<1> USE FormatAssumption
<1>1. Len(part) \in Nat /\ completed \in Nat
  BY CompletedType DEF DownloadInv
<1>2. Current \in Version
  BY CurrentFact DEF DownloadInv
<1>3. completed * CipherChunk \in Nat
  BY <1>1 DEF CipherChunk
<1>4. ResumeOffset \in Nat /\ (~encrypted => ResumeOffset = Len(part))
  BY <1>1, <1>3 DEF ResumeOffset
<1>5. reader' = [ver |-> Current, pos |-> ResumeOffset] /\ buf = <<>>
  BY DEF Open, DownloadInv, TypeOK
<1>6. Current \in 0 .. Len(sizes)
  BY <1>2 DEF Version
<1>7. reader' \in [ver : 0 .. Len(sizes), pos : Nat]
  BY <1>4, <1>5, <1>6
<1>8. TypeOK'
  BY <1>7 DEF DownloadInv, Open, TypeOK, disk, bounds
<1>9. Places(part)' /\ Places(out)' /\ BufInv'
  BY DEF DownloadInv, Open, disk, Places, BufInv, Version
<1>10. PositionInv'
  BY <1>1, <1>2, <1>4, <1>5 DEF DownloadInv, Open, disk, PositionInv, completed, Version
<1> QED BY <1>8, <1>9, <1>10 DEF DownloadInv

\* An open stream yields versions that exist.
LEMMA SourceFacts ==
    ASSUME DownloadInv, pc \in {"header", "copy"}, NEW v \in Sources
    PROVE  v \in Version /\ v \in Nat /\ v \in 0 .. Len(sizes)
<1>1. Current \in Version
  BY CurrentFact DEF DownloadInv
<1>2. reader.ver \in Version
  BY DEF DownloadInv, PositionInv
<1>3. v \in Version
  BY <1>1, <1>2 DEF Sources
<1> QED BY <1>3 DEF Version

LEMMA ReadHeaderStep == ASSUME DownloadInv, ReadHeader PROVE DownloadInv'
<1> USE FormatAssumption
<1>0. Len(part) \in Nat /\ completed \in Nat
  BY CompletedType DEF DownloadInv
<1>1. pc = "header" /\ pc' = "copy" /\ buf = <<>> /\ Len(part) \in Nat /\ completed \in Nat
  BY <1>0 DEF ReadHeader, DownloadInv, TypeOK
<1>2. reader'.ver \in Version /\ reader' \in [ver : 0 .. Len(sizes), pos : Nat]
  <2>1. CASE completed = 0
    <3>1. PICK v \in Sources : reader' = [ver |-> v, pos |-> reader.pos + Header]
      BY <2>1 DEF ReadHeader
    <3>2. v \in Version /\ v \in 0 .. Len(sizes)
      BY <1>1, SourceFacts
    <3>3. reader.pos + Header \in Nat
      BY DEF DownloadInv, TypeOK
    <3> QED BY <3>1, <3>2, <3>3
  <2>2. CASE completed # 0
    BY <1>1, <2>2 DEF ReadHeader, DownloadInv, TypeOK, PositionInv
  <2> QED BY <2>1, <2>2
<1>3. header' \in 0 .. Len(sizes)
  <2>1. Current \in 0 .. Len(sizes)
    BY DEF Current, DownloadInv, TypeOK
  <2> QED BY <1>1, <2>1, SourceFacts DEF ReadHeader
<1>4. TypeOK'
  BY <1>1, <1>2, <1>3 DEF DownloadInv, ReadHeader, TypeOK, disk, bounds
<1>5. Places(part)' /\ Places(out)' /\ BufInv'
  BY DEF DownloadInv, ReadHeader, disk, Places, BufInv, Version
<1>6. PositionInv'
  <2>1. encrypted /\ Len(part) = completed * Chunk
    BY <1>1 DEF DownloadInv, PositionInv
  <2>2. next' = completed /\ part' = part /\ buf' = buf /\ encrypted' = encrypted /\ sizes' = sizes
    BY DEF ReadHeader, disk
  <2>3. Len(part') + Len(buf') = completed * Chunk
    BY <1>1, <2>1, <2>2
  <2> QED BY <1>1, <1>2, <2>1, <2>2, <2>3 DEF PositionInv, Version
<1> QED BY <1>4, <1>5, <1>6 DEF DownloadInv

LEMMA CopyPlainStep == ASSUME DownloadInv, CopyPlain PROVE DownloadInv'
<1>1. PICK v \in Sources, n \in 1 .. ReadSize :
        /\ buf' = Bytes(v, reader.pos, reader.pos + n)
        /\ reader' = [ver |-> v, pos |-> reader.pos + n]
  BY DEF CopyPlain
<1>2. v \in Version /\ v \in Nat /\ v \in 0 .. Len(sizes)
  BY SourceFacts DEF CopyPlain
<1>3. n \in Nat /\ reader.pos \in Nat /\ Len(part) \in Nat
  BY DownloadAssumption DEF DownloadInv, TypeOK
<1>4. buf = <<>> /\ ~encrypted /\ pc = "copy" /\ pc' = "write"
  BY DEF CopyPlain, DownloadInv, TypeOK
<1>5. reader.pos = Len(part)
  BY <1>3, <1>4 DEF DownloadInv, PositionInv
<1>6. /\ buf' \in Seq(Byte) /\ Len(buf') = n
      /\ \A k \in 1 .. n : buf'[k] = <<v, reader.pos + k>>
  <2>1. reader.pos + n \in Nat /\ reader.pos <= reader.pos + n /\ reader.pos + n - reader.pos = n
    BY <1>3
  <2> DEFINE start == reader.pos
             end == reader.pos + n
  <2>2. start \in Nat /\ end \in Nat /\ start <= end /\ end - start = n
    BY <1>3, <2>1
  <2>3. buf' = Bytes(v, start, end)
    BY <1>1
  <2> HIDE DEF start, end
  <2>4. /\ Bytes(v, start, end) \in Seq(Byte)
        /\ Len(Bytes(v, start, end)) = end - start
        /\ \A k \in 1 .. (end - start) : Bytes(v, start, end)[k] = <<v, start + k>>
    BY <1>2, <2>2, BytesFacts
  <2> QED BY <2>2, <2>3, <2>4 DEF start
<1>7. reader' \in [ver : 0 .. Len(sizes), pos : Nat]
  BY <1>1, <1>2, <1>3
<1>8. TypeOK'
  BY <1>4, <1>6, <1>7 DEF DownloadInv, CopyPlain, TypeOK, disk, bounds
<1>9. part' = part /\ out' = out /\ sizes' = sizes /\ encrypted' = encrypted
  BY DEF CopyPlain, disk
<1>10. Places(part)' /\ Places(out)'
  BY <1>9 DEF DownloadInv, Places, Version
<1>11. BufInv'
  BY <1>2, <1>5, <1>6, <1>9, SMTT(30) DEF BufInv, Version
<1>12. PositionInv'
  BY <1>1, <1>2, <1>3, <1>4, <1>5, <1>6, <1>9 DEF PositionInv, Version
<1> QED BY <1>8, <1>10, <1>11, <1>12 DEF DownloadInv

\* The next chunk opens, or the attempt fails.
LEMMA CopyChunkStep == ASSUME DownloadInv, CopyChunk PROVE DownloadInv'
<1> USE FormatAssumption
<1>1. PICK v \in Sources :
        /\ reader' = [ver |-> v, pos |-> reader.pos + clen]
        /\ \/ pc' = "write" /\ buf' = Bytes(v, next * Chunk, next * Chunk + clen - Tag)
           \/ Fails
  BY DEF CopyChunk
<1>2. v \in Version /\ v \in Nat /\ v \in 0 .. Len(sizes)
  BY SourceFacts DEF CopyChunk
<1>3. reader.pos \in Nat /\ next \in Nat /\ Len(part) \in Nat
  BY DEF DownloadInv, TypeOK
<1>4. n_chunks \in Nat \ {0} /\ clen \in Nat /\ clen >= Tag /\ (~last => clen = Chunk + Tag)
  BY LayoutFacts DEF DownloadInv
<1>5. buf = <<>> /\ encrypted /\ pc = "copy" /\ next < n_chunks /\ next' = next + 1
  BY DEF CopyChunk, DownloadInv, TypeOK
<1>6. part' = part /\ out' = out /\ sizes' = sizes /\ encrypted' = encrypted /\ expected' = expected
  BY DEF CopyChunk, disk
<1>7. reader' \in [ver : 0 .. Len(sizes), pos : Nat]
  BY <1>1, <1>2, <1>3, <1>4
<1>8. CASE Fails
  <2>1. TypeOK'
    BY <1>3, <1>5, <1>7, <1>8 DEF DownloadInv, CopyChunk, Fails, TypeOK, disk, bounds
  <2> QED BY <1>6, <1>8, <2>1, QuietStep DEF Fails
<1>9. CASE pc' = "write" /\ buf' = Bytes(v, next * Chunk, next * Chunk + clen - Tag)
  <2> DEFINE start == next * Chunk
             end == next * Chunk + clen - Tag
  <2>1. start \in Nat
    BY <1>3
  <2>2. start = Len(part)
    BY <1>3, <1>4, <1>5 DEF DownloadInv, PositionInv
  <2>3. end \in Nat /\ start <= end /\ end - start = clen - Tag
    BY <1>4, <2>1
  <2> HIDE DEF start, end
  <2>4. buf' = Bytes(v, start, end)
    BY <1>9 DEF start, end
  <2>5. /\ buf' \in Seq(Byte) /\ Len(buf') = clen - Tag
        /\ \A k \in 1 .. (clen - Tag) : buf'[k] = <<v, start + k>>
    <3>1. /\ Bytes(v, start, end) \in Seq(Byte)
          /\ Len(Bytes(v, start, end)) = end - start
          /\ \A k \in 1 .. (end - start) : Bytes(v, start, end)[k] = <<v, start + k>>
      BY <1>2, <2>1, <2>3, BytesFacts, ZenonT(60)
    <3> QED BY <2>3, <2>4, <3>1
  <2>6. TypeOK'
    <3>1. /\ encrypted' = encrypted /\ sizes' = sizes /\ part' = part /\ out' = out /\ saved' = saved
          /\ expected' = expected /\ attempt' = attempt /\ cancelled' = cancelled /\ outcome' = outcome
          /\ header' = header /\ runs' = runs /\ errors' = errors /\ crashes' = crashes
      BY DEF CopyChunk, disk, bounds
    <3>2. next' \in Nat BY <1>3, <1>5
    <3>3. TypeOK BY DEF DownloadInv
    <3> QED BY <1>7, <1>9, <2>5, <3>1, <3>2, <3>3 DEF TypeOK
  <2>7. Places(part)' /\ Places(out)'
    BY <1>6 DEF DownloadInv, Places, Version
  <2>8. BufInv'
    <3>1. Version' = Version
      BY <1>6 DEF Version
    <3>2. Len(buf') = clen - Tag
      BY <2>5
    <3>3. ASSUME NEW k \in 1 .. (clen - Tag)
          PROVE  buf'[k][1] = v /\ buf'[k][2] = Len(part') + k
      <4>1. buf'[k] = <<v, start + k>>
        BY <2>5
      <4> QED BY <1>6, <2>2, <4>1
    <3> QED BY <1>2, <3>1, <3>2, <3>3 DEF BufInv
  <2>9. n_chunks' = n_chunks
    BY <1>6 DEF n_chunks
  <2>10. next' >= n_chunks \/ next' * Chunk = Len(part) + Len(buf')
    <3>1. CASE last
      BY <1>3, <1>4, <1>5, <3>1 DEF last
    <3>2. CASE ~last
      <4>1. Len(buf') = Chunk
        BY <1>4, <2>5, <3>2
      <4>2. (next + 1) * Chunk = next * Chunk + Chunk
        BY <1>3
      <4> QED BY <1>5, <2>2, <4>1, <4>2 DEF start
    <3> QED BY <3>1, <3>2
  <2>11. PositionInv'
    BY <1>1, <1>2, <1>5, <1>6, <1>9, <2>9, <2>10 DEF PositionInv, Version
  <2> QED BY <2>6, <2>7, <2>8, <2>11 DEF DownloadInv
<1> QED BY <1>1, <1>8, <1>9

LEMMA WriteByteStep == ASSUME DownloadInv, WriteByte PROVE DownloadInv'
<1>1. part \in Seq(Byte) /\ buf \in Seq(Byte) /\ buf # <<>> /\ pc = "write"
  BY DEF DownloadInv, TypeOK, WriteByte
<1>2. part' = Append(part, Head(buf)) /\ buf' = Tail(buf)
  BY DEF WriteByte
<1>3. /\ Head(buf) \in Byte /\ Tail(buf) \in Seq(Byte) /\ Len(Tail(buf)) = Len(buf) - 1
      /\ \A i \in 1 .. Len(Tail(buf)) : Tail(buf)[i] = buf[i + 1]
  BY <1>1, HeadTailProperties
<1>4. Head(buf) = buf[1] /\ Len(buf) \in Nat \ {0} /\ Len(part) \in Nat
  BY <1>1, EmptySeq
<1>5. /\ part' \in Seq(Byte) /\ Len(part') = Len(part) + 1
      /\ \A i \in 1 .. Len(part) : part'[i] = part[i]
      /\ part'[Len(part) + 1] = Head(buf)
  BY <1>1, <1>2, <1>3, AppendProperties
<1>6. /\ out' = out /\ sizes' = sizes /\ encrypted' = encrypted /\ pc' = pc /\ reader' = reader
      /\ next' = next /\ expected' = expected
  BY DEF WriteByte
<1>7. TypeOK'
  BY <1>1, <1>2, <1>3, <1>5 DEF DownloadInv, WriteByte, TypeOK, bounds
<1>8. Places(part)'
  <2>1. Head(buf)[1] \in Version /\ Head(buf)[2] = Len(part) + 1
    BY <1>4 DEF DownloadInv, BufInv
  <2>2. DOMAIN part' = 1 .. (Len(part) + 1) /\ DOMAIN part = 1 .. Len(part)
    BY <1>1, <1>5
  <2> QED BY <1>4, <1>5, <1>6, <2>1, <2>2 DEF DownloadInv, Places, Version
<1>9. Places(out)'
  BY <1>6 DEF DownloadInv, Places, Version
<1>10. BufInv'
  BY <1>2, <1>3, <1>4, <1>5, <1>6 DEF DownloadInv, BufInv, Version
<1>11. PositionInv'
  <2>1. Len(part') + Len(buf') = Len(part) + Len(buf)
    BY <1>2, <1>3, <1>4, <1>5
  <2>2. n_chunks' = n_chunks
    BY <1>6 DEF n_chunks
  <2> QED BY <1>1, <1>6, <2>1, <2>2 DEF DownloadInv, PositionInv, Version
<1> QED BY <1>7, <1>8, <1>9, <1>10, <1>11 DEF DownloadInv

LEMMA WrittenStep == ASSUME DownloadInv, Written PROVE DownloadInv'
<1>1. TypeOK'
  BY DEF DownloadInv, Written, TypeOK, disk, bounds
<1>2. Places(part)' /\ Places(out)' /\ BufInv'
  BY DEF DownloadInv, Written, disk, Places, BufInv, Version
<1>3. PositionInv'
  BY DEF DownloadInv, Written, disk, PositionInv, Version, n_chunks
<1> QED BY <1>1, <1>2, <1>3 DEF DownloadInv

LEMMA DownloadNext == DownloadInv /\ [Next]_vars => DownloadInv'
<1> SUFFICES ASSUME DownloadInv, [Next]_vars PROVE DownloadInv'
  OBVIOUS
<1>1. CASE Next
  BY <1>1, ControlSteps, CancelStep, OverwriteStep, EndSteps, PrepareStep, FinalizeStep, OpenStep,
     ReadHeaderStep, CopyPlainStep, CopyChunkStep, WriteByteStep, WrittenStep DEF Next, Step
<1>2. CASE UNCHANGED vars
  <2>1. TypeOK'
    BY <1>2 DEF DownloadInv, TypeOK, vars, disk, task, bounds
  <2>2. Places(part)' /\ Places(out)' /\ BufInv'
    BY <1>2 DEF DownloadInv, vars, disk, task, Places, BufInv, Version
  <2>3. PositionInv'
    BY <1>2 DEF DownloadInv, vars, disk, task, PositionInv, Version, completed, n_chunks
  <2> QED BY <2>1, <2>2, <2>3 DEF DownloadInv
<1> QED BY <1>1, <1>2

\* The variables of a download have their types; an attempt that ends leaves
\* nothing in the buffer.
THEOREM DownloadTypeCorrect == Spec => []TypeOK
<1>1. DownloadInv => TypeOK
  BY DEF DownloadInv
<1> QED BY DownloadInit, DownloadNext, <1>1, PTL DEF Spec

\* Every byte of the part file and of the finished file is at the place it has
\* in a version of the object: download_one resumes exactly where it stopped.
THEOREM BytesInPlace == Spec => []EveryByteInPlace
<1>1. DownloadInv => EveryByteInPlace
  BY DEF DownloadInv, EveryByteInPlace
<1> QED BY DownloadInit, DownloadNext, <1>1, PTL DEF Spec

\* The four computations of sizes agree for every version there ever is.
THEOREM SizesAlwaysAgree == Spec => []SizesAgree
<1>1. DownloadInv => SizesAgree
  <2> SUFFICES ASSUME DownloadInv, NEW v \in Version
               PROVE  LET p == sizes[v]
                          c == encrypted_size(p)
                      IN /\ wire_len(p) = c
                         /\ layout_ok(c) /\ layout_chunks(c) = chunks(p)
                         /\ layout_last(c) = p - (chunks(p) - 1) * Chunk + Tag
                         /\ plaintext_of_ciphertext(c) = p
    BY DEF SizesAgree
  <2>1. sizes[v] \in Nat
    BY SizeType DEF DownloadInv
  <2> QED BY <2>1, WireLenIsEncryptedSize, LayoutOfEncryptedSize, PlaintextOfEncryptedSize
<1> QED BY DownloadInit, DownloadNext, <1>1, PTL DEF Spec

-----------------------------------------------------------------------------
(* The length of the file.                                                   *)

\* The length that is expected is one the object had.
Expecting == pc # "idle" => \E v \in Version : expected = sizes[v]

\* An encrypted file grows chunk by chunk to the expected length.
Growing == encrypted =>
    /\ pc \in {"open", "header"} => Len(part) = 0 \/ Len(part) < expected
    /\ pc \in {"copy", "write"} => \/ next < n_chunks /\ next * Chunk = Len(part) + Len(buf)
                                   \/ next = n_chunks /\ expected = Len(part) + Len(buf)
    /\ pc = "rename" => Len(part) = expected

\* A plain file of an object that stays as it is never gets longer than the object.
PlainLength == ~encrypted /\ Len(sizes) = 1 =>
    Len(part) + Len(buf) <= sizes[1] /\ (pc = "rename" => Len(part) = sizes[1])

LEMMA StepFrames ==
    ASSUME [Next]_vars
    PROVE  /\ encrypted' = encrypted
           /\ sizes' = sizes \/ Overwrite
           /\ expected' = expected \/ Start
           /\ UNCHANGED <<out, saved>> \/ Rename
           /\ Overwrite => UNCHANGED <<disk, task, bounds>>
<1>1. CASE Start \/ Retry \/ GiveUp \/ CancelledFirst \/ Finalize \/ Prepare \/ Open \/ ReadHeader
  BY <1>1 DEF Start, Retry, GiveUp, CancelledFirst, Finalize, Prepare, Open, ReadHeader, Overwrite, disk, task, bounds
<1>2. CASE CopyPlain \/ EndPlain \/ CopyChunk \/ WriteByte \/ Written \/ EndChunks \/ Rename \/ CancelledCopy
  BY <1>2 DEF CopyPlain, EndPlain, CopyChunk, WriteByte, Written, EndChunks, Rename, CancelledCopy,
              Overwrite, disk, task, bounds
<1>3. CASE Fault \/ Cancel \/ Crash \/ Overwrite \/ UNCHANGED vars
  BY <1>3 DEF Fault, Cancel, Crash, Overwrite, vars, disk, task, bounds
<1> QED BY <1>1, <1>2, <1>3 DEF Next, Step

LEMMA VersionsStay ==
    ASSUME DownloadInv, [Next]_vars
    PROVE  /\ \A v \in Version : v \in Version' /\ sizes'[v] = sizes[v]
           /\ Len(sizes') = 1 => sizes' = sizes
<1>1. sizes \in Seq(Nat) /\ Len(sizes) \in Nat \ {0}
  BY EmptySeq DEF DownloadInv, TypeOK
<1>2. CASE sizes' = sizes
  BY <1>2 DEF Version
<1>3. CASE Overwrite
  <2>1. PICK n \in Sizes : sizes' = Append(sizes, n)
    BY <1>3 DEF Overwrite
  <2>2. n \in Nat
    BY DownloadAssumption
  <2>3. Len(sizes') = Len(sizes) + 1 /\ \A i \in 1 .. Len(sizes) : sizes'[i] = sizes[i]
    BY <1>1, <2>1, <2>2, AppendProperties
  <2> QED BY <1>1, <2>3 DEF Version
<1> QED BY <1>2, <1>3, StepFrames

LEMMA ExpectingStep == DownloadInv /\ Expecting /\ [Next]_vars => Expecting'
<1> SUFFICES ASSUME DownloadInv, Expecting, [Next]_vars, pc' # "idle" PROVE \E v \in Version' : expected' = sizes'[v]
  BY DEF Expecting
<1>1. CASE Start
  BY <1>1, VersionsStay DEF Start
<1>2. CASE ~Start
  <2>1. pc # "idle"
    BY <1>2 DEF Next, Step, Retry, GiveUp, CancelledFirst, Finalize, Prepare, Open, ReadHeader, CopyPlain, EndPlain,
         CopyChunk, WriteByte, Written, EndChunks, Rename, CancelledCopy, Fault, Cancel, Crash, Overwrite, vars, task
  <2>2. expected' = expected
    BY <1>2, StepFrames
  <2> QED BY <2>1, <2>2, VersionsStay DEF Expecting
<1> QED BY <1>1, <1>2

\* The expected layout, in plaintext bytes.
LEMMA ExpectedLayout ==
    ASSUME TypeOK
    PROVE  /\ n_chunks = chunks(expected) /\ n_chunks \in Nat \ {0} /\ expected \in Nat
           /\ (n_chunks - 1) * Chunk <= expected /\ expected <= n_chunks * Chunk
           /\ last => clen - Tag = expected - (n_chunks - 1) * Chunk
           /\ ~last => clen - Tag = Chunk
           /\ clen - Tag \in 0 .. Chunk
<1> USE FormatAssumption
<1>1. expected \in Nat
  BY DEF TypeOK
<1>2. n_chunks = chunks(expected)
  BY <1>1, LayoutOfEncryptedSize DEF n_chunks
<1>3. n_chunks \in Nat \ {0} /\ (n_chunks - 1) * Chunk <= expected /\ expected <= n_chunks * Chunk
  BY <1>1, <1>2, ChunkBounds
<1>4. last => clen = expected - (n_chunks - 1) * Chunk + Tag
  BY <1>1, <1>2, LayoutOfEncryptedSize DEF clen
<1>5. ~last => clen = Chunk + Tag
  BY DEF clen, CipherChunk
<1> DEFINE m == (n_chunks - 1) * Chunk
<1>6. m \in Nat /\ n_chunks * Chunk = m + Chunk
  BY <1>3
<1>7. last => clen = expected - m + Tag
  BY <1>4
<1>8. m <= expected /\ expected <= m + Chunk
  BY <1>3, <1>6
<1> HIDE DEF m
<1>9. clen - Tag \in 0 .. Chunk /\ (~last => clen - Tag = Chunk) /\ (last => clen - Tag = expected - m)
  BY <1>1, <1>5, <1>6, <1>7, <1>8
<1> QED BY <1>1, <1>2, <1>3, <1>9 DEF m

\* A chunk that opens is read into the buffer.
LEMMA OpenedChunk ==
    ASSUME DownloadInv, CopyChunk, pc' # "failed"
    PROVE  \E v \in Version :
             /\ pc' = "write" /\ reader'.ver = v /\ buf = <<>> /\ Len(buf') = clen - Tag
             /\ \A k \in 1 .. Len(buf') : buf'[k][1] = v
<1> USE FormatAssumption
<1>1. PICK v \in Sources :
        /\ reader' = [ver |-> v, pos |-> reader.pos + clen]
        /\ pc' = "write" /\ buf' = Bytes(v, next * Chunk, next * Chunk + clen - Tag)
  BY DEF CopyChunk, Fails
<1>2. v \in Version /\ v \in Nat
  BY SourceFacts DEF CopyChunk
<1>3. next \in Nat /\ clen \in Nat /\ clen >= Tag /\ buf = <<>>
  BY LayoutFacts DEF DownloadInv, TypeOK, CopyChunk
<1> DEFINE start == next * Chunk
           end == next * Chunk + clen - Tag
<1>4. start \in Nat /\ end \in Nat /\ start <= end /\ end - start = clen - Tag
  BY <1>3
<1>5. buf' = Bytes(v, start, end)
  BY <1>1
<1> HIDE DEF start, end
<1>6. Len(buf') = clen - Tag /\ \A k \in 1 .. (clen - Tag) : buf'[k] = <<v, start + k>>
  <2>1. /\ Bytes(v, start, end) \in Seq(Byte)
        /\ Len(Bytes(v, start, end)) = end - start
        /\ \A k \in 1 .. (end - start) : Bytes(v, start, end)[k] = <<v, start + k>>
    BY <1>2, <1>4, BytesFacts, ZenonT(60)
  <2> QED BY <1>4, <1>5, <2>1
<1>7. \A k \in 1 .. Len(buf') : buf'[k][1] = v
  BY <1>6
<1> QED BY <1>1, <1>2, <1>3, <1>6, <1>7

\* The bytes of the buffer go over to the file one by one.
LEMMA WriteLength ==
    ASSUME DownloadInv, WriteByte
    PROVE  Len(part') = Len(part) + 1 /\ Len(buf') = Len(buf) - 1 /\ Len(part) \in Nat /\ Len(buf) \in Nat \ {0}
<1>1. part \in Seq(Byte) /\ buf \in Seq(Byte) /\ buf # <<>>
  BY DEF DownloadInv, TypeOK, WriteByte
<1>2. Head(buf) \in Byte /\ Len(Tail(buf)) = Len(buf) - 1
  BY <1>1, HeadTailProperties
<1> QED BY <1>1, <1>2, AppendProperties, EmptySeq DEF WriteByte

LEMMA FinalizedLength ==
    ASSUME DownloadInv, Finalize
    PROVE  Len(part') = expected
<1>1. Kept \in Seq(Byte) /\ expected \in 0 .. Len(Kept)
  BY KeptFacts DEF Finalize, Complete, DownloadInv, TypeOK
<1> QED BY <1>1, PrefixFacts DEF Finalize

LEMMA GrowingStep == DownloadInv /\ Growing /\ [Next]_vars => Growing'
<1> SUFFICES ASSUME DownloadInv, Growing, [Next]_vars, encrypted'
             PROVE  /\ pc' \in {"open", "header"} => Len(part') = 0 \/ Len(part') < expected'
                    /\ pc' \in {"copy", "write"} =>
                          \/ next' < n_chunks' /\ next' * Chunk = Len(part') + Len(buf')
                          \/ next' = n_chunks' /\ expected' = Len(part') + Len(buf')
                    /\ pc' = "rename" => Len(part') = expected'
  BY DEF Growing
<1> USE FormatAssumption
<1>1. /\ encrypted /\ Len(part) \in Nat /\ Len(buf) \in Nat /\ next \in Nat /\ Len(<<>>) = 0
      /\ n_chunks \in Nat \ {0} /\ expected \in Nat
  <2>1. encrypted
    BY StepFrames
  <2>2. Len(part) \in Nat /\ Len(buf) \in Nat /\ next \in Nat /\ Len(<<>>) = 0
    BY DEF DownloadInv, TypeOK
  <2>3. n_chunks \in Nat \ {0} /\ expected \in Nat
    BY ExpectedLayout DEF DownloadInv
  <2> QED BY <2>1, <2>2, <2>3
<1>2. CASE UNCHANGED <<pc, part, buf, next, expected>>
  BY <1>1, <1>2 DEF Growing, n_chunks
<1>3. CASE pc' \in {"idle", "attempt", "failed"}
  BY <1>3
<1>4. CASE Prepare
  <2>1. part' = Kept /\ pc' = "open" /\ expected' = expected /\ Len(Kept) \in Nat /\ ~Complete
    BY <1>4, KeptFacts DEF Prepare
  <2> QED BY <1>1, <2>1 DEF Complete
<1>5. CASE Finalize
  BY <1>5, FinalizedLength DEF Finalize
<1>6. CASE Open
  BY <1>1, <1>6 DEF Open, disk, Growing
<1>7. CASE ReadHeader
  <2>1. /\ pc = "header" /\ pc' = "copy" /\ next' = completed /\ UNCHANGED <<part, buf, expected>> /\ buf = <<>>
        /\ Len(part) = completed * Chunk /\ completed \in Nat /\ (Len(part) = 0 \/ Len(part) < expected)
    BY <1>1, <1>7, CompletedType DEF ReadHeader, disk, DownloadInv, TypeOK, PositionInv, Growing
  <2>2. completed < n_chunks
    <3>1. CASE Len(part) = 0
      <4>1. completed = 0
        BY <3>1 DEF completed
      <4> QED BY <1>1, <4>1
    <3>2. CASE Len(part) < expected
      <4>1. expected <= n_chunks * Chunk
        BY ExpectedLayout DEF DownloadInv
      <4>2. completed * Chunk < n_chunks * Chunk
        BY <1>1, <2>1, <3>2, <4>1
      <4> QED BY <1>1, <2>1, <4>2
    <3> QED BY <2>1, <3>1, <3>2
  <2>3. n_chunks' = n_chunks
    BY <2>1 DEF n_chunks
  <2> QED BY <1>1, <2>1, <2>2, <2>3
<1>8. CASE CopyChunk /\ pc' # "failed"
  <2>1. pc' = "write" /\ buf = <<>> /\ Len(buf') = clen - Tag
    BY <1>8, OpenedChunk
  <2>2. pc = "copy" /\ next < n_chunks /\ next' = next + 1 /\ part' = part /\ expected' = expected
    BY <1>8 DEF CopyChunk, disk
  <2>3. next * Chunk = Len(part)
    BY <1>1, <2>1, <2>2 DEF Growing
  <2>4. n_chunks' = n_chunks
    BY <2>2 DEF n_chunks
  <2>5. CASE last
    <3>1. next = n_chunks - 1 /\ Len(buf') = expected - (n_chunks - 1) * Chunk
      BY <2>1, <2>5, ExpectedLayout DEF DownloadInv, last
    <3>2. (n_chunks - 1) * Chunk = Len(part)
      BY <2>3, <3>1
    <3>3. Len(part') + Len(buf') = expected /\ next' = n_chunks
      BY <1>1, <2>2, <3>1, <3>2
    <3> QED BY <2>1, <2>2, <2>4, <3>3
  <2>6. CASE ~last
    <3>1. Len(buf') = Chunk /\ next # n_chunks - 1
      BY <2>1, <2>6, ExpectedLayout DEF DownloadInv, last
    <3>2. (next + 1) * Chunk = next * Chunk + Chunk
      BY <1>1
    <3>3. next' < n_chunks /\ next' * Chunk = Len(part') + Len(buf')
      BY <1>1, <2>2, <2>3, <3>1, <3>2
    <3> QED BY <2>1, <2>4, <3>3
  <2> QED BY <2>5, <2>6
<1>9. CASE WriteByte
  <2>1. Len(part') + Len(buf') = Len(part) + Len(buf)
    BY <1>9, WriteLength
  <2>2. UNCHANGED <<pc, next, expected>> /\ pc = "write"
    BY <1>9 DEF WriteByte
  <2> QED BY <1>1, <2>1, <2>2 DEF Growing, n_chunks
<1>10. CASE Written
  BY <1>1, <1>10 DEF Written, disk, Growing, n_chunks
<1>11. CASE EndChunks
  <2>1. pc = "copy" /\ pc' = "rename" /\ next >= n_chunks /\ UNCHANGED <<part, expected>> /\ buf = <<>>
    BY <1>11 DEF EndChunks, disk, DownloadInv, TypeOK
  <2> QED BY <1>1, <2>1 DEF Growing
<1>12. CASE Start \/ Retry \/ GiveUp \/ CancelledFirst \/ CopyPlain \/ EndPlain \/ Rename \/ CancelledCopy
            \/ Fault \/ Cancel \/ Crash \/ Overwrite \/ (CopyChunk /\ pc' = "failed") \/ UNCHANGED vars
  BY <1>1, <1>2, <1>3, <1>12 DEF Start, Retry, GiveUp, CancelledFirst, CopyPlain, EndPlain, Rename, CancelledCopy,
       Fault, Cancel, Crash, Overwrite, Fails, vars, disk, task
<1> QED BY <1>4, <1>5, <1>6, <1>7, <1>8, <1>9, <1>10, <1>11, <1>12 DEF Next, Step

LEMMA PlainLengthStep == DownloadInv /\ Expecting /\ PlainLength /\ [Next]_vars => PlainLength'
<1> SUFFICES ASSUME DownloadInv, Expecting, PlainLength, [Next]_vars, ~encrypted', Len(sizes') = 1
             PROVE  Len(part') + Len(buf') <= sizes'[1] /\ (pc' = "rename" => Len(part') = sizes'[1])
  BY DEF PlainLength
<1>1. /\ ~encrypted /\ sizes' = sizes /\ Len(sizes) = 1 /\ sizes[1] \in Nat /\ Version = {1}
      /\ Len(part) \in Nat /\ Len(buf) \in Nat /\ Len(<<>>) = 0
  BY StepFrames, VersionsStay, SMTT(30) DEF DownloadInv, TypeOK, Version
<1>2. Len(part) + Len(buf) <= sizes[1] /\ (pc = "rename" => Len(part) = sizes[1])
  BY <1>1 DEF PlainLength
<1>3. CASE UNCHANGED <<part, buf, pc>>
  BY <1>1, <1>2, <1>3
<1>4. CASE UNCHANGED part /\ buf' \in {buf, <<>>} /\ pc' # "rename"
  BY <1>1, <1>2, <1>4
<1>5. CASE part' = <<>> /\ UNCHANGED buf /\ pc' = "idle"
  BY <1>1, <1>2, <1>5
<1>6. CASE Prepare
  BY <1>1, <1>2, <1>6 DEF Prepare, Kept
<1>7. CASE Finalize
  <2>1. Len(part') = expected /\ buf' = <<>>
    BY <1>7, FinalizedLength DEF Finalize, DownloadInv, TypeOK
  <2>2. expected = sizes[1]
    BY <1>1, <1>7 DEF Finalize, Expecting
  <2> QED BY <1>1, <2>1, <2>2
<1>8. CASE CopyPlain
  <2>1. PICK v \in Sources, n \in 1 .. ReadSize :
          reader.pos + n <= sizes[v] /\ buf' = Bytes(v, reader.pos, reader.pos + n)
    BY <1>8 DEF CopyPlain
  <2>2. pc = "copy" /\ pc' = "write" /\ part' = part /\ buf = <<>> /\ v \in Version
    BY <1>8, SourceFacts DEF CopyPlain, disk, DownloadInv, TypeOK
  <2>3. reader.pos = Len(part) /\ n \in Nat
    BY <1>1, <2>2, DownloadAssumption DEF DownloadInv, PositionInv
  <2>4. Len(buf') = n
    <3> DEFINE start == reader.pos
               end == reader.pos + n
    <3>1. start \in Nat /\ end \in Nat /\ start <= end /\ end - start = n /\ v \in Nat
      BY <1>1, <2>2, <2>3 DEF Version
    <3>2. buf' = Bytes(v, start, end)
      BY <2>1
    <3> HIDE DEF start, end
    <3>3. Len(Bytes(v, start, end)) = end - start
      BY <3>1, BytesFacts, Zenon
    <3> QED BY <3>1, <3>2, <3>3
  <2>5. v = 1
    BY <1>1, <2>2
  <2> QED BY <1>1, <2>1, <2>2, <2>3, <2>4, <2>5
<1>9. CASE EndPlain
  <2>1. PICK v \in Sources : reader.pos >= sizes[v]
    BY <1>9 DEF EndPlain
  <2>2. pc = "copy" /\ part' = part /\ buf' = buf /\ buf = <<>> /\ v \in Version
    BY <1>9, SourceFacts DEF EndPlain, disk, DownloadInv, TypeOK
  <2>3. reader.pos = Len(part)
    BY <1>1, <2>2 DEF DownloadInv, PositionInv
  <2>4. v = 1
    BY <1>1, <2>2
  <2> QED BY <1>1, <1>2, <2>1, <2>2, <2>3, <2>4
<1>10. CASE WriteByte
  <2>1. Len(part') + Len(buf') = Len(part) + Len(buf)
    BY <1>10, WriteLength, SMTT(30)
  <2> QED BY <1>1, <1>2, <1>10, <2>1 DEF WriteByte
<1>11. CASE Start \/ Retry \/ CancelledFirst \/ Open \/ ReadHeader \/ CancelledCopy \/ Fault \/ Crash \/ Written
  BY <1>4, <1>11 DEF Start, Retry, CancelledFirst, Open, ReadHeader, CancelledCopy, Fault, Crash, Fails, Written, disk
<1>12. CASE GiveUp \/ Rename
  BY <1>5, <1>12 DEF GiveUp, Rename
<1>13. CASE Cancel \/ Overwrite \/ UNCHANGED vars
  BY <1>3, <1>13 DEF Cancel, Overwrite, vars, disk, task
<1>14. ~CopyChunk /\ ~EndChunks
  BY <1>1 DEF CopyChunk, EndChunks
<1> QED BY <1>6, <1>7, <1>8, <1>9, <1>10, <1>11, <1>12, <1>13, <1>14 DEF Next, Step

LEMMA OutStep ==
    DownloadInv /\ Expecting /\ Growing /\ PlainLength /\ OutIsWhole /\ [Next]_vars => OutIsWhole'
<1> SUFFICES ASSUME DownloadInv, Expecting, Growing, PlainLength, OutIsWhole, [Next]_vars,
                    saved', encrypted' \/ Len(sizes') = 1
             PROVE  \E v \in Version' : Len(out') = sizes'[v]
  BY DEF OutIsWhole
<1>1. encrypted' = encrypted /\ (encrypted \/ (Len(sizes) = 1 /\ sizes' = sizes))
  BY StepFrames, VersionsStay
<1>2. CASE UNCHANGED <<out, saved>>
  <2>1. PICK v \in Version : Len(out) = sizes[v]
    BY <1>1, <1>2 DEF OutIsWhole
  <2> QED BY <1>2, <2>1, VersionsStay
<1>3. CASE Rename
  <2>1. pc = "rename" /\ out' = part /\ sizes' = sizes
    BY <1>3 DEF Rename
  <2>2. \E v \in Version : Len(part) = sizes[v]
    <3>1. CASE encrypted
      BY <2>1, <3>1 DEF Growing, Expecting
    <3>2. CASE ~encrypted
      <4>1. Len(sizes) = 1 /\ 1 \in Version
        BY <1>1, <3>2 DEF Version
      <4> QED BY <2>1, <3>2, <4>1 DEF PlainLength
    <3> QED BY <3>1, <3>2
  <2> QED BY <2>1, <2>2 DEF Version
<1> QED BY <1>2, <1>3, StepFrames

LEMMA LengthInit == Init => Expecting /\ Growing /\ PlainLength /\ OutIsWhole
<1> SUFFICES ASSUME Init PROVE Expecting /\ Growing /\ PlainLength /\ OutIsWhole
  OBVIOUS
<1>1. pc = "idle" /\ saved = FALSE /\ part = <<>> /\ buf = <<>> /\ \E n \in Sizes : sizes = <<n>>
  BY DEF Init
<1>2. sizes[1] \in Nat
  BY <1>1, DownloadAssumption
<1>3. Len(part) + Len(buf) = 0
  BY <1>1
<1> QED BY <1>1, <1>2, <1>3 DEF Expecting, Growing, PlainLength, OutIsWhole

\* The inductive invariant: types, the places of the bytes, and where the stream of
\* download_one stands.
THEOREM DownloadHolds == Spec => []DownloadInv
BY DownloadInit, DownloadNext, PTL DEF Spec

\* Through any number of attempts, crashes and changes of the object: a file that
\* run_download puts in place is as long as the object was at some time, or, when it is a
\* plain file of an object that was left alone, as long as the object.
THEOREM OutAlwaysWhole == Spec => []OutIsWhole
BY LengthInit, ExpectingStep, GrowingStep, PlainLengthStep, OutStep, DownloadHolds, PTL DEF Spec

-----------------------------------------------------------------------------
(* The versions in a chunk.                                                  *)

\* Bytes of one chunk are of one version.
Whole(file) == \A j, k \in DOMAIN file : (j - 1) \div Chunk = (k - 1) \div Chunk => file[j][1] = file[k][1]

\* The chunk that is being written is all of the version it was opened from, in
\* the file and in the buffer, and does not reach beyond its end.
Filling == pc = "write" =>
    /\ next >= 1 /\ (next - 1) * Chunk <= Len(part) /\ Len(part) + Len(buf) <= next * Chunk
    /\ \A k \in DOMAIN part : k > (next - 1) * Chunk => part[k][1] = reader.ver
    /\ \A k \in 1 .. Len(buf) : buf[k][1] = reader.ver

ChunkInv == encrypted => Whole(part) /\ Whole(out) /\ Filling

\* A byte of the chunk of a byte past m chunks is past them, too.
LEMMA SameChunk ==
    ASSUME NEW m \in Nat, NEW a \in Nat, NEW b \in Nat, m * Chunk <= a, a \div Chunk = b \div Chunk
    PROVE  m * Chunk <= b
<1> USE FormatAssumption
<1> DEFINE q == a \div Chunk
<1>1. q \in Nat /\ a < (q + 1) * Chunk /\ q * Chunk <= b
  BY DEF q
<1>2. m * Chunk < (q + 1) * Chunk
  BY <1>1
<1> HIDE DEF q
<1>3. m < q + 1
  BY <1>1, <1>2
<1>4. m * Chunk <= q * Chunk
  BY <1>1, <1>3
<1>5. m * Chunk \in Nat /\ q * Chunk \in Nat
  BY <1>1
<1> QED BY <1>1, <1>4, <1>5

LEMMA WholePrefix ==
    ASSUME NEW f \in Seq(Byte), NEW n \in 0 .. Len(f), Whole(f)
    PROVE  Whole(SubSeq(f, 1, n))
<1>1. /\ SubSeq(f, 1, n) \in Seq(Byte) /\ Len(SubSeq(f, 1, n)) = n
      /\ \A k \in 1 .. n : SubSeq(f, 1, n)[k] = f[k]
  BY PrefixFacts
<1>2. DOMAIN SubSeq(f, 1, n) = 1 .. n /\ DOMAIN f = 1 .. Len(f) /\ 1 .. n \subseteq 1 .. Len(f)
  BY <1>1
<1> SUFFICES ASSUME NEW j \in 1 .. n, NEW k \in 1 .. n, (j - 1) \div Chunk = (k - 1) \div Chunk
             PROVE  SubSeq(f, 1, n)[j][1] = SubSeq(f, 1, n)[k][1]
  BY <1>2, ZenonT(60) DEF Whole
<1>3. f[j][1] = f[k][1]
  BY <1>2, Zenon DEF Whole
<1> QED BY <1>1, <1>3

\* Two prefixes are taken of a part: its whole chunks, and the expected length of them.
LEMMA KeptWhole ==
    ASSUME DownloadInv, encrypted, Whole(part)
    PROVE  Whole(Kept) /\ (Finalize => Whole(part'))
<1>1. part \in Seq(Byte) /\ Len(part) \in Nat
  BY DEF DownloadInv, TypeOK
<1>2. Len(part) - (Len(part) % Chunk) \in 0 .. Len(part)
  BY <1>1, WholeChunks
<1>3. Whole(Kept)
  <2> DEFINE w == Len(part) - (Len(part) % Chunk)
  <2>1. Kept = SubSeq(part, 1, w)
    BY DEF Kept
  <2>2. w \in 0 .. Len(part)
    BY <1>2
  <2> HIDE DEF w
  <2> QED BY <1>1, <2>1, <2>2, WholePrefix
<1>4. ASSUME Finalize PROVE Whole(part')
  <2>1. Kept \in Seq(Byte) /\ expected \in 0 .. Len(Kept)
    BY <1>4, KeptFacts DEF Finalize, Complete, DownloadInv, TypeOK
  <2>2. part' = SubSeq(Kept, 1, expected)
    BY <1>4 DEF Finalize
  <2> QED BY <1>3, <2>1, <2>2, WholePrefix
<1> QED BY <1>3, <1>4

LEMMA WriteWhole ==
    ASSUME DownloadInv, ChunkInv, encrypted, WriteByte
    PROVE  Whole(part') /\ Filling'
<1> USE FormatAssumption
<1>1. part \in Seq(Byte) /\ buf \in Seq(Byte) /\ buf # <<>> /\ pc = "write" /\ next \in Nat
  BY DEF DownloadInv, TypeOK, WriteByte
<1>2. UNCHANGED <<pc, next, reader>> /\ part' = Append(part, Head(buf)) /\ buf' = Tail(buf)
  BY DEF WriteByte
<1>3. /\ Head(buf) \in Byte /\ Len(Tail(buf)) = Len(buf) - 1
      /\ \A i \in 1 .. Len(Tail(buf)) : Tail(buf)[i] = buf[i + 1]
  BY <1>1, HeadTailProperties
<1>4. Head(buf) = buf[1] /\ Len(buf) \in Nat \ {0} /\ Len(part) \in Nat
  BY <1>1, EmptySeq
<1>5. /\ Len(part') = Len(part) + 1 /\ DOMAIN part' = 1 .. (Len(part) + 1) /\ DOMAIN part = 1 .. Len(part)
      /\ \A i \in 1 .. Len(part) : part'[i] = part[i]
      /\ part'[Len(part) + 1] = Head(buf)
  BY <1>1, <1>2, <1>3, AppendProperties
<1>6. /\ next >= 1 /\ (next - 1) * Chunk <= Len(part) /\ Len(part) + Len(buf) <= next * Chunk
      /\ \A k \in DOMAIN part : k > (next - 1) * Chunk => part[k][1] = reader.ver
      /\ \A k \in 1 .. Len(buf) : buf[k][1] = reader.ver
  BY <1>1 DEF ChunkInv, Filling
<1> DEFINE m == next - 1
           base == (next - 1) * Chunk
           top == next * Chunk
           L == Len(part)
<1>7. m \in Nat /\ base \in Nat /\ base = m * Chunk
  BY <1>1, <1>6
<1>8. Head(buf)[1] = reader.ver
  BY <1>4, <1>6
<1>9. \A k \in 1 .. L : m * Chunk <= k - 1 => part[k][1] = reader.ver
  <2>1. \A k \in 1 .. L : base <= k - 1 => k > base
    BY <1>4, <1>7
  <2> QED BY <1>5, <1>6, <1>7, <2>1
<1>10. \A j \in 1 .. L : (j - 1) \div Chunk = L \div Chunk => part[j][1] = reader.ver
  <2> SUFFICES ASSUME NEW j \in 1 .. L, (j - 1) \div Chunk = L \div Chunk PROVE part[j][1] = reader.ver
    OBVIOUS
  <2>1. j - 1 \in Nat /\ L \in Nat /\ m * Chunk <= L
    BY <1>4, <1>6, <1>7
  <2> HIDE DEF m, L
  <2>2. m * Chunk <= j - 1
    BY <1>7, <2>1, SameChunk
  <2> QED BY <1>9, <2>2
<1>11. Whole(part')
  <2> SUFFICES ASSUME NEW j \in 1 .. (L + 1), NEW k \in 1 .. (L + 1), (j - 1) \div Chunk = (k - 1) \div Chunk
               PROVE  part'[j][1] = part'[k][1]
    BY <1>5 DEF Whole
  <2>0. Whole(part)
    BY DEF ChunkInv
  <2>1. CASE j \in 1 .. L /\ k \in 1 .. L
    <3>1. part[j][1] = part[k][1]
      BY <1>5, <2>0, <2>1, ZenonT(60) DEF Whole
    <3> QED BY <1>5, <2>1, <3>1
  <2>2. CASE j = L + 1 /\ k = L + 1
    BY <2>2
  <2>3. CASE j = L + 1 /\ k \in 1 .. L
    <3>1. (k - 1) \div Chunk = L \div Chunk
      <4>1. j - 1 = L
        BY <1>4, <2>3
      <4> QED BY <4>1
    <3> QED BY <1>5, <1>8, <1>10, <2>3, <3>1
  <2>4. CASE k = L + 1 /\ j \in 1 .. L
    <3>1. (j - 1) \div Chunk = L \div Chunk
      <4>1. k - 1 = L
        BY <1>4, <2>4
      <4> QED BY <4>1
    <3> QED BY <1>5, <1>8, <1>10, <2>4, <3>1
  <2>5. \A i \in 1 .. (L + 1) : i = L + 1 \/ i \in 1 .. L
    BY <1>4
  <2> QED BY <2>1, <2>2, <2>3, <2>4, <2>5
<1>12. Filling'
  <2>1. base <= Len(part') /\ Len(part') + Len(buf') <= top
    <3>1. L + Len(buf) <= top /\ base <= L
      BY <1>6
    <3>2. top \in Nat
      BY <1>1
    <3> HIDE DEF base, top
    <3> QED BY <1>2, <1>3, <1>4, <1>5, <1>7, <3>1, <3>2
  <2>2. \A k \in DOMAIN part' : k > base => part'[k][1] = reader.ver
    <3>1. \A k \in 1 .. (L + 1) : k = L + 1 \/ k \in DOMAIN part
      BY <1>4, <1>5
    <3> QED BY <1>5, <1>6, <1>8, <3>1
  <2>3. \A k \in 1 .. Len(buf') : buf'[k][1] = reader.ver
    <3>1. \A k \in 1 .. Len(Tail(buf)) : k + 1 \in 1 .. Len(buf)
      BY <1>3, <1>4
    <3> QED BY <1>2, <1>3, <1>6, <3>1
  <2> QED BY <1>2, <1>6, <2>1, <2>2, <2>3 DEF Filling
<1> QED BY <1>11, <1>12

LEMMA ChunkStep == DownloadInv /\ Growing /\ ChunkInv /\ [Next]_vars => ChunkInv'
<1> SUFFICES ASSUME DownloadInv, Growing, ChunkInv, [Next]_vars, encrypted'
             PROVE  Whole(part') /\ Whole(out') /\ Filling'
  BY DEF ChunkInv, Whole
<1> USE FormatAssumption
<1>1. encrypted /\ Whole(part) /\ Whole(out) /\ Filling
  BY StepFrames DEF ChunkInv
<1>2. Whole(out')
  <2>1. out' = out \/ Rename
    BY StepFrames
  <2> QED BY <1>1, <2>1 DEF Rename
<1>3. Whole(<<>>)
  BY DEF Whole
<1>4. CASE WriteByte
  BY <1>1, <1>2, <1>4, WriteWhole
<1>5. CASE CopyChunk
  <2>1. part' = part /\ pc = "copy" /\ next < n_chunks /\ next' = next + 1
    BY <1>5 DEF CopyChunk, disk
  <2>2. CASE pc' = "failed"
    BY <1>1, <1>2, <2>1, <2>2 DEF Filling
  <2>3. CASE pc' # "failed"
    <3>1. PICK v \in Version : /\ reader'.ver = v /\ buf = <<>> /\ Len(buf') = clen - Tag
                               /\ \A k \in 1 .. Len(buf') : buf'[k][1] = v
      BY <1>5, <2>3, OpenedChunk
    <3>2. next \in Nat /\ part \in Seq(Byte) /\ Len(part) \in Nat /\ n_chunks \in Nat
      BY ExpectedLayout DEF DownloadInv, TypeOK
    <3>3. next * Chunk = Len(part)
      BY <1>1, <2>1, <3>1, <3>2 DEF Growing
    <3>4. clen - Tag \in 0 .. Chunk
      BY ExpectedLayout DEF DownloadInv
    <3>5. next' >= 1 /\ next' - 1 = next /\ next' * Chunk = next * Chunk + Chunk
      BY <2>1, <3>2
    <3>6. (next' - 1) * Chunk <= Len(part') /\ Len(part') + Len(buf') <= next' * Chunk
      <4>1. (next' - 1) * Chunk = Len(part) /\ next' * Chunk = Len(part) + Chunk
        BY <3>3, <3>5
      <4> QED BY <2>1, <3>1, <3>2, <3>4, <4>1
    <3>7. \A k \in DOMAIN part' : ~(k > (next' - 1) * Chunk)
      <4>1. DOMAIN part' = 1 .. Len(part) /\ (next' - 1) * Chunk = Len(part)
        BY <2>1, <3>2, <3>3, <3>5
      <4> QED BY <3>2, <4>1
    <3> QED BY <1>1, <1>2, <2>1, <3>1, <3>5, <3>6, <3>7 DEF Filling
  <2> QED BY <2>2, <2>3
<1>6. CASE Prepare \/ Finalize
  <2>1. Whole(part')
    BY <1>1, <1>6, KeptWhole DEF Prepare
  <2>2. pc' # "write"
    BY <1>6 DEF Prepare, Finalize
  <2> QED BY <1>2, <2>1, <2>2 DEF Filling
<1>7. CASE Rename \/ GiveUp
  BY <1>2, <1>3, <1>7 DEF Rename, GiveUp, Filling
<1>8. CASE part' = part /\ pc' # "write"
  BY <1>1, <1>2, <1>8 DEF Filling
<1>9. CASE UNCHANGED <<part, pc, next, buf, reader>>
  BY <1>1, <1>2, <1>9 DEF Filling
<1>10. ~CopyPlain
  BY <1>1 DEF CopyPlain
<1>11. CASE \/ Start \/ Retry \/ CancelledFirst \/ Open \/ ReadHeader \/ EndPlain \/ Written \/ EndChunks
            \/ CancelledCopy \/ Fault \/ Crash
  BY <1>8, <1>11 DEF Start, Retry, CancelledFirst, Open, ReadHeader, EndPlain, Written, EndChunks, CancelledCopy,
       Fault, Crash, Fails, disk
<1>12. CASE Cancel \/ Overwrite \/ UNCHANGED vars
  BY <1>9, <1>12 DEF Cancel, Overwrite, vars, disk, task
<1> QED BY <1>4, <1>5, <1>6, <1>7, <1>10, <1>11, <1>12 DEF Next, Step

LEMMA ChunkInit == Init => ChunkInv
BY DEF Init, ChunkInv, Whole, Filling

\* However often the object is overwritten under a download, and wherever an attempt or
\* the program stopped: every chunk of a finished encrypted file is of one version, because
\* a half-written chunk is cut off before the download goes on.
THEOREM ChunksAlwaysWhole == Spec => []ChunksAreWhole
<1>1. ChunkInv => ChunksAreWhole
  BY DEF ChunkInv, ChunksAreWhole, Whole
<1> QED BY <1>1, LengthInit, ChunkInit, ExpectingStep, GrowingStep, ChunkStep, DownloadHolds, PTL DEF Spec

-----------------------------------------------------------------------------
(* Why a download is given up.                                               *)

\* The stream of an encrypted file stands at the chunk that is opened next.
Positioned == encrypted =>
    /\ pc = "header" => reader.pos = IF completed = 0 THEN 0 ELSE Header + completed * CipherChunk
    /\ pc \in {"copy", "write"} => /\ header \in Version
                                   /\ next < n_chunks => reader.pos = Header + next * CipherChunk

\* Every attempt before this one was ended by a failure of its own.
Caused == Len(sizes) = 1 =>
    /\ pc = "failed" => cancelled \/ errors > attempt
    /\ pc \notin {"idle", "failed"} => cancelled \/ errors >= attempt

LEMMA ResumesAtChunk == ASSUME DownloadInv, Open, encrypted
    PROVE reader'.pos = IF completed = 0 THEN 0 ELSE Header + completed * CipherChunk
<1> USE FormatAssumption
<1>1. Len(part) = completed * Chunk /\ completed \in Nat
  BY CompletedType DEF DownloadInv, PositionInv, Open
<1>2. Len(part) = 0 <=> completed = 0
  BY <1>1
<1> QED BY <1>2 DEF Open, ResumeOffset

LEMMA PositionedStep == DownloadInv /\ Positioned /\ [Next]_vars => Positioned'
<1> SUFFICES ASSUME DownloadInv, Positioned, [Next]_vars, encrypted'
             PROVE  /\ pc' = "header" => reader'.pos = IF completed' = 0 THEN 0 ELSE Header + completed' * CipherChunk
                    /\ pc' \in {"copy", "write"} =>
                          /\ header' \in Version'
                          /\ next' < n_chunks' => reader'.pos = Header + next' * CipherChunk
  BY DEF Positioned
<1> USE FormatAssumption
<1>1. encrypted
  BY StepFrames
<1>2. CASE pc' \in {"idle", "attempt", "failed", "open", "rename"}
  BY <1>2
<1>3. CASE UNCHANGED <<part, pc, next, reader, header, expected>>
  <2>1. completed' = completed /\ n_chunks' = n_chunks
    BY <1>3 DEF completed, n_chunks
  <2>2. \A v \in Version : v \in Version'
    BY VersionsStay
  <2> QED BY <1>1, <1>3, <2>1, <2>2 DEF Positioned
<1>4. CASE Open
  <2>1. completed' = completed /\ pc' = "header"
    BY <1>1, <1>4 DEF completed, Open, disk
  <2> QED BY <1>1, <1>4, <2>1, ResumesAtChunk
<1>5. CASE ReadHeader
  <2>1. pc = "header" /\ pc' = "copy" /\ next' = completed /\ sizes' = sizes
    BY <1>5 DEF ReadHeader
  <2>2. header' \in Version
    <3>1. Current \in Version
      BY CurrentFact DEF DownloadInv
    <3>2. CASE completed = 0
      <4>1. PICK v \in Sources : header' = v
        BY <1>5, <3>2 DEF ReadHeader
      <4> QED BY <2>1, <4>1, SourceFacts
    <3>3. CASE completed # 0
      BY <1>5, <3>1, <3>3 DEF ReadHeader
    <3> QED BY <3>2, <3>3
  <2>3. reader'.pos = Header + completed * CipherChunk
    <3>1. CASE completed = 0
      <4>1. reader.pos = 0 /\ reader'.pos = reader.pos + Header
        BY <1>1, <1>5, <2>1, <3>1 DEF ReadHeader, Positioned
      <4>2. completed * CipherChunk = 0
        BY <3>1 DEF CipherChunk
      <4> QED BY <4>1, <4>2
    <3>2. CASE completed # 0
      BY <1>1, <1>5, <2>1, <3>2 DEF ReadHeader, Positioned
    <3> QED BY <3>1, <3>2
  <2> QED BY <2>1, <2>2, <2>3 DEF Version
<1>6. CASE CopyChunk /\ pc' # "failed"
  <2>1. /\ pc = "copy" /\ next < n_chunks /\ next' = next + 1 /\ header' = header /\ sizes' = sizes
        /\ expected' = expected /\ reader'.pos = reader.pos + clen
    BY <1>6 DEF CopyChunk
  <2>2. n_chunks' = n_chunks /\ pc' = "write"
    BY <1>6, <2>1, OpenedChunk DEF n_chunks
  <2>3. reader.pos = Header + next * CipherChunk /\ header \in Version
    BY <1>1, <2>1 DEF Positioned
  <2>4. ASSUME next' < n_chunks PROVE reader'.pos = Header + next' * CipherChunk
    <3>1. next \in Nat /\ n_chunks \in Nat
      BY LayoutFacts DEF DownloadInv, TypeOK
    <3>2. ~last
      BY <2>1, <2>4, <3>1 DEF last
    <3>3. clen = CipherChunk
      BY <3>2 DEF clen
    <3>4. CipherChunk \in Nat
      BY DEF CipherChunk
    <3>5. (next + 1) * CipherChunk = next * CipherChunk + CipherChunk /\ next * CipherChunk \in Nat
      BY <3>1, <3>4
    <3> QED BY <2>1, <2>3, <3>3, <3>4, <3>5
  <2> QED BY <2>1, <2>2, <2>3, <2>4 DEF Version
<1>7. CASE WriteByte
  <2>1. UNCHANGED <<pc, next, reader, header, expected, sizes>> /\ pc = "write"
    BY <1>7 DEF WriteByte
  <2> QED BY <1>1, <2>1 DEF Positioned, n_chunks, Version
<1>8. CASE Written
  <2>1. UNCHANGED <<next, reader, header, expected, sizes>> /\ pc = "write" /\ pc' = "copy"
    BY <1>8 DEF Written
  <2> QED BY <1>1, <2>1 DEF Positioned, n_chunks, Version
<1>9. ~CopyPlain
  BY <1>1 DEF CopyPlain
<1>10. CASE \/ Start \/ Retry \/ GiveUp \/ CancelledFirst \/ Finalize \/ Prepare \/ EndPlain \/ EndChunks \/ Rename
            \/ CancelledCopy \/ Fault \/ Crash \/ (CopyChunk /\ pc' = "failed")
  BY <1>2, <1>10 DEF Start, Retry, GiveUp, CancelledFirst, Finalize, Prepare, EndPlain, EndChunks, Rename,
       CancelledCopy, Fault, Crash, Fails
<1>11. CASE Cancel \/ Overwrite \/ UNCHANGED vars
  BY <1>3, <1>11 DEF Cancel, Overwrite, vars, disk, task
<1> QED BY <1>4, <1>5, <1>6, <1>7, <1>8, <1>9, <1>10, <1>11 DEF Next, Step

\* The chunks of an object that nobody changes open.
LEMMA OpensAlone ==
    ASSUME DownloadInv, Expecting, Positioned, Len(sizes) = 1,
           pc = "copy", encrypted, next < n_chunks, NEW v \in Sources
    PROVE  Opens(v)
<1> USE FormatAssumption
<1>1. Version = {1}
  BY DEF Version
<1>2. v = 1 /\ header = 1 /\ expected = sizes[1]
  BY <1>1, SourceFacts DEF Positioned, Expecting
<1>3. reader.pos = Header + next * CipherChunk /\ next \in Nat
  BY DEF Positioned, DownloadInv, TypeOK
<1> DEFINE n == n_chunks
           full == (n - 1) * Chunk
           before == next * CipherChunk
           left == encrypted_size(sizes[v]) - reader.pos
<1>4. /\ n = chunks(expected) /\ n \in Nat \ {0} /\ expected \in Nat
      /\ full <= expected /\ expected <= n * Chunk
      /\ last => clen - Tag = expected - full
      /\ ~last => clen - Tag = Chunk
  BY ExpectedLayout DEF DownloadInv
<1>5. clen \in Nat /\ full \in Nat /\ before \in Nat
  <2>1. clen \in Nat
    BY LayoutFacts DEF DownloadInv
  <2> QED BY <1>3, <1>4, <2>1 DEF CipherChunk
<1>6. left = expected + n * Tag - before
  <2>1. encrypted_size(expected) = Header + expected + n * Tag /\ n * Tag \in Nat
    BY <1>4 DEF encrypted_size
  <2> QED BY <1>2, <1>3, <1>4, <1>5, <2>1
<1>7. clen = Least(left, CipherChunk)
  <2>1. CASE last
    <3>1. before = full + (n - 1) * Tag
      BY <1>4, <2>1 DEF last, CipherChunk
    <3>2. n * Tag = (n - 1) * Tag + Tag /\ (n - 1) * Tag \in Nat /\ n * Chunk = full + Chunk
      BY <1>4
    <3> DEFINE tags == (n - 1) * Tag
    <3>a. left = expected + (tags + Tag) - (full + tags) /\ tags \in Nat
      BY <1>6, <3>1, <3>2
    <3>b. clen - Tag = expected - full /\ expected <= full + Chunk /\ expected \in Nat
      BY <1>4, <2>1, <3>2
    <3> HIDE DEF n, full, before, left, tags
    <3>3. left = clen /\ clen <= CipherChunk
      BY <1>5, <3>a, <3>b DEF CipherChunk
    <3> QED BY <1>5, <3>3 DEF Least, CipherChunk
  <2>2. CASE ~last
    <3>1. next + 2 <= n
      BY <1>3, <1>4, <2>2 DEF last
    <3>2. next * Chunk + Chunk <= full
      BY <1>3, <1>4, <3>1
    <3>3. next * Tag + Tag <= n * Tag
      BY <1>3, <1>4, <3>1
    <3>4. before = next * Chunk + next * Tag /\ next * Chunk \in Nat /\ next * Tag \in Nat /\ n * Tag \in Nat
      BY <1>3, <1>4 DEF CipherChunk
    <3> HIDE DEF n, full, before, left
    <3>5. left >= CipherChunk /\ left \in Int
      BY <1>4, <1>5, <1>6, <3>2, <3>3, <3>4 DEF CipherChunk
    <3>6. clen = CipherChunk
      BY <2>2 DEF clen
    <3> QED BY <3>5, <3>6 DEF Least, CipherChunk
  <2> QED BY <2>1, <2>2
<1>8. last <=> (next = chunks(sizes[v]) - 1)
  BY <1>2, <1>4 DEF last
<1> QED BY <1>2, <1>3, <1>7, <1>8 DEF Opens

LEMMA CausedStep == DownloadInv /\ Expecting /\ Positioned /\ Caused /\ [Next]_vars => Caused'
<1> SUFFICES ASSUME DownloadInv, Expecting, Positioned, Caused, [Next]_vars, Len(sizes') = 1
             PROVE  /\ pc' = "failed" => cancelled' \/ errors' > attempt'
                    /\ pc' \notin {"idle", "failed"} => cancelled' \/ errors' >= attempt'
  BY DEF Caused
<1>1. sizes' = sizes /\ Len(sizes) = 1
  BY VersionsStay
<1>2. /\ pc = "failed" => cancelled \/ errors > attempt
      /\ pc \notin {"idle", "failed"} => cancelled \/ errors >= attempt
  BY <1>1 DEF Caused
<1>3. errors \in Nat /\ attempt \in Nat
  BY DownloadAssumption DEF DownloadInv, TypeOK
<1>4. CASE UNCHANGED <<attempt, cancelled, errors>> /\ pc' \notin {"idle", "failed"} /\ pc \notin {"idle", "failed"}
  BY <1>2, <1>4
<1>5. CASE pc' = "idle"
  BY <1>5
<1>6. CASE CancelledFirst \/ CancelledCopy
  BY <1>6 DEF CancelledFirst, CancelledCopy, Fails
<1>7. CASE Start \/ Retry
  BY <1>2, <1>3, <1>7 DEF Start, Retry, MayRetry, bounds
<1>8. CASE Fault
  BY <1>2, <1>3, <1>8 DEF Fault, Fails
<1>9. CASE CopyChunk
  <2>1. pc = "copy" /\ encrypted /\ next < n_chunks
    BY <1>9 DEF CopyChunk
  <2>2. \A v \in Sources : Opens(v)
    BY <1>1, <2>1, OpensAlone
  <2>3. pc' = "write" /\ UNCHANGED <<attempt, cancelled, errors>>
    BY <1>9, <2>2 DEF CopyChunk, bounds
  <2> QED BY <1>4, <2>1, <2>3
<1>10. CASE \/ Finalize \/ Prepare \/ Open \/ ReadHeader \/ CopyPlain \/ EndPlain \/ WriteByte \/ Written \/ EndChunks
  BY <1>4, <1>10 DEF Finalize, Prepare, Open, ReadHeader, CopyPlain, EndPlain, WriteByte, Written, EndChunks, bounds
<1>11. CASE GiveUp \/ Rename \/ Crash
  BY <1>5, <1>11 DEF GiveUp, Rename, Crash
<1>12. CASE Cancel
  BY <1>12 DEF Cancel
<1>13. CASE Overwrite \/ UNCHANGED vars
  BY <1>2, <1>13 DEF Overwrite, vars, task, bounds
<1> QED BY <1>6, <1>7, <1>8, <1>9, <1>10, <1>11, <1>12, <1>13 DEF Next, Step

LEMMA CauseStep == DownloadInv /\ Caused /\ GivesUpForCause /\ [Next]_vars => GivesUpForCause'
<1> SUFFICES ASSUME DownloadInv, Caused, GivesUpForCause, [Next]_vars, outcome' = "err", Len(sizes') = 1
             PROVE  cancelled' \/ errors' > Retries
  BY DEF GivesUpForCause
<1>1. sizes' = sizes /\ Len(sizes) = 1
  BY VersionsStay
<1>2. errors \in Nat /\ attempt \in 0 .. Retries /\ Retries \in Nat
  BY DownloadAssumption DEF DownloadInv, TypeOK
<1>3. CASE GiveUp
  BY <1>1, <1>2, <1>3 DEF GiveUp, MayRetry, Caused, bounds
<1>4. CASE outcome' = outcome /\ (cancelled' = cancelled \/ cancelled') /\ (errors' = errors \/ errors' = errors + 1)
  <2>1. cancelled \/ errors > Retries
    BY <1>1, <1>4 DEF GivesUpForCause
  <2> QED BY <1>2, <1>4, <2>1
<1>5. ~Start /\ ~Rename
  BY DEF Start, Rename
<1>6. CASE \/ Retry \/ CancelledFirst \/ Finalize \/ Prepare \/ Open \/ ReadHeader \/ CopyPlain
  BY <1>4, <1>6 DEF Retry, CancelledFirst, Finalize, Prepare, Open, ReadHeader, CopyPlain, bounds
<1>7. CASE \/ EndPlain \/ CopyChunk \/ WriteByte \/ Written \/ EndChunks \/ CancelledCopy
  BY <1>4, <1>7 DEF EndPlain, CopyChunk, WriteByte, Written, EndChunks, CancelledCopy, bounds
<1>8. CASE Fault \/ Cancel \/ Crash \/ Overwrite \/ UNCHANGED vars
  BY <1>4, <1>8 DEF Fault, Cancel, Crash, Overwrite, vars, task, bounds
<1> QED BY <1>3, <1>5, <1>6, <1>7, <1>8 DEF Next, Step

LEMMA CauseInit == Init => Positioned /\ Caused /\ GivesUpForCause
BY DEF Init, Positioned, Caused, GivesUpForCause

\* A download of an object that nobody changes ends in an error only when the user
\* cancelled it or when more attempts failed than there are retries: resuming from any part
\* file finds a chunk that opens.
THEOREM AlwaysGivesUpForCause == Spec => []GivesUpForCause
BY LengthInit, CauseInit, ExpectingStep, PositionedStep, CausedStep, CauseStep, DownloadHolds, PTL DEF Spec

=============================================================================
