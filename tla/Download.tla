------------------------------- MODULE Download -------------------------------
(***************************************************************************)
(* Downloads of one remote object to one local path: download_one and the  *)
(* retry loop of run_download around it (src/src/worker.rs).  The bytes    *)
(* arrived so far are kept in the .rse-part file, from which the next      *)
(* attempt, or a later run of the program, goes on.                        *)
(*                                                                         *)
(* A byte is a pair of the version of the object it comes from and its     *)
(* place in the plaintext, so that both a splice and a shift show.         *)
(***************************************************************************)
EXTENDS ChunkFormat, Sequences

CONSTANTS Sizes,       \* plaintext lengths the object may have
          Retries,     \* Settings::retries
          ReadSize,    \* bytes that one read of a plain file may return
          MaxRuns,     \* bound: downloads the user starts
          MaxErrors,   \* bound: I/O errors and stalls, local or remote
          MaxCrashes,  \* bound: times the program ends in the middle
          MaxChanges   \* bound: times the remote object is overwritten

ASSUME DownloadAssumption == /\ Sizes \subseteq Nat /\ Retries \in Nat /\ ReadSize \in Nat
                             /\ MaxRuns \in Nat /\ MaxErrors \in Nat
                             /\ MaxCrashes \in Nat /\ MaxChanges \in Nat

VARIABLES encrypted,   \* the session has keys
          sizes,       \* plaintext length of every version of the object so far
          part,        \* content of the .rse-part file; a missing one is an empty one
          out, saved,  \* content of the file at out_path, and whether it was written
          pc, expected, attempt, cancelled, outcome,
          reader,      \* the stream: version, and offset of the next byte
          header,      \* version whose header the decryptor was made from
          next,        \* i: the chunk to open next
          buf,         \* bytes handed to write_all that are not in the file yet
          runs, errors, crashes

task == <<pc, expected, attempt, cancelled, outcome, reader, header, next, buf>>
disk == <<part, out, saved>>
bounds == <<runs, errors, crashes>>
vars == <<encrypted, sizes, disk, task, bounds>>

Version == 1 .. Len(sizes)
Current == Len(sizes)
Byte == Nat \X Nat
Bytes(v, from, to) == [k \in 1 .. (to - from) |-> <<v, from + k>>]
Least(a, b) == IF a < b THEN a ELSE b

Init == /\ encrypted \in BOOLEAN
        /\ \E n \in Sizes : sizes = <<n>>
        /\ part = <<>> /\ out = <<>> /\ saved = FALSE
        /\ pc = "idle" /\ expected = 0 /\ attempt = 0 /\ cancelled = FALSE /\ outcome = "none"
        /\ reader = [ver |-> 0, pos |-> 0] /\ header = 0 /\ next = 0 /\ buf = <<>>
        /\ runs = 0 /\ errors = 0 /\ crashes = 0

-----------------------------------------------------------------------------
(* run_download *)

\* The task of a file whose length was listed when the object had version v.
Start == /\ pc = "idle" /\ runs < MaxRuns
         /\ \E v \in Version : expected' = sizes[v]
         /\ pc' = "attempt" /\ attempt' = 0 /\ cancelled' = FALSE /\ outcome' = "none"
         /\ runs' = runs + 1
         /\ UNCHANGED <<encrypted, sizes, disk, reader, header, next, buf, errors, crashes>>

\* Fault: one retry too many.
MayRetryOnceMore == attempt <= Retries /\ ~cancelled
MayRetry == attempt < Retries /\ ~cancelled

\* Fault: the attempts are not counted.
RetryUncounted == /\ pc = "failed" /\ MayRetry
                  /\ pc' = "attempt"
                  /\ UNCHANGED <<encrypted, sizes, disk, expected, attempt, cancelled, outcome,
                                 reader, header, next, buf, bounds>>

\* The pause and the reconnection before the next attempt are in Connection.
Retry == /\ pc = "failed" /\ MayRetry
         /\ attempt' = attempt + 1 /\ pc' = "attempt"
         /\ UNCHANGED <<encrypted, sizes, disk, expected, cancelled, outcome, reader, header, next, buf, bounds>>

GiveUp == /\ pc = "failed" /\ ~MayRetry
          /\ part' = <<>>
          /\ pc' = "idle" /\ outcome' = "err"
          /\ UNCHANGED <<encrypted, sizes, out, saved, expected, attempt, cancelled, reader, header, next, buf, bounds>>

-----------------------------------------------------------------------------
(* download_one *)

\* An error: the bytes that write_all has not put into the file are lost.
Fails == pc' = "failed" /\ buf' = <<>>

CancelledFirst == /\ pc = "attempt" /\ cancelled
                  /\ Fails
                  /\ UNCHANGED <<encrypted, sizes, disk, expected, attempt, cancelled, outcome, reader, header, next, bounds>>

\* Fault: a half-written chunk is kept.
KeptAll == part

\* What an attempt keeps of the bytes on disk: whole chunks of an encrypted file.
Kept == IF encrypted THEN SubSeq(part, 1, Len(part) - (Len(part) % Chunk)) ELSE part

Complete == Len(Kept) > 0 /\ Len(Kept) >= expected

\* Fault: a part that is longer than the file is not cut.
FinalizeUncut == /\ pc = "attempt" /\ ~cancelled /\ Complete
                 /\ part' = Kept
                 /\ pc' = "rename"
                 /\ UNCHANGED <<encrypted, sizes, out, saved, expected, attempt, cancelled, outcome,
                                reader, header, next, buf, bounds>>

Finalize == /\ pc = "attempt" /\ ~cancelled /\ Complete
            /\ part' = SubSeq(Kept, 1, expected)
            /\ pc' = "rename"
            /\ UNCHANGED <<encrypted, sizes, out, saved, expected, attempt, cancelled, outcome,
                           reader, header, next, buf, bounds>>

Prepare == /\ pc = "attempt" /\ ~cancelled /\ ~Complete
           /\ part' = Kept
           /\ pc' = "open"
           /\ UNCHANGED <<encrypted, sizes, out, saved, expected, attempt, cancelled, outcome,
                          reader, header, next, buf, bounds>>

\* Chunks on disk when the attempt goes to the network.
completed == Len(part) \div Chunk

\* Fault: the tags before the resumption point are not counted.
ResumeOffsetPlain == IF Len(part) = 0 THEN 0
                     ELSE IF encrypted THEN Header + completed * Chunk ELSE Len(part)

\* Where the remote read goes on.
ResumeOffset == IF Len(part) = 0 THEN 0
                ELSE IF encrypted THEN Header + completed * CipherChunk ELSE Len(part)

\* get_stream or get_range
Open == /\ pc = "open"
        /\ reader' = [ver |-> Current, pos |-> ResumeOffset]
        /\ pc' = IF encrypted THEN "header" ELSE "copy"
        /\ UNCHANGED <<encrypted, sizes, disk, expected, attempt, cancelled, outcome, header, next, buf, bounds>>

\* An open stream goes on with its version or, on a backend that reads in
\* place, with the one that has replaced it.
Sources == {reader.ver, Current}

\* The header is the start of the stream or, past it, a read of its own.
ReadHeader == /\ pc = "header" /\ layout_ok(encrypted_size(expected))
              /\ IF completed = 0
                 THEN \E v \in Sources : /\ header' = v
                                         /\ reader' = [ver |-> v, pos |-> reader.pos + Header]
                 ELSE header' = Current /\ UNCHANGED reader
              /\ next' = completed /\ pc' = "copy"
              /\ UNCHANGED <<encrypted, sizes, disk, expected, attempt, cancelled, outcome, buf, bounds>>

CopyPlain == /\ pc = "copy" /\ ~encrypted /\ ~cancelled
             /\ \E v \in Sources, n \in 1 .. ReadSize :
                  /\ reader.pos + n <= sizes[v]
                  /\ buf' = Bytes(v, reader.pos, reader.pos + n)
                  /\ reader' = [ver |-> v, pos |-> reader.pos + n]
             /\ pc' = "write"
             /\ UNCHANGED <<encrypted, sizes, disk, expected, attempt, cancelled, outcome, header, next, bounds>>

\* A read that returns nothing ends a plain file.
EndPlain == /\ pc = "copy" /\ ~encrypted /\ ~cancelled
            /\ \E v \in Sources : reader.pos >= sizes[v]
            /\ pc' = "rename"
            /\ UNCHANGED <<encrypted, sizes, disk, expected, attempt, cancelled, outcome, reader, header, next, buf, bounds>>

n_chunks == layout_chunks(encrypted_size(expected))
last == next = n_chunks - 1
clen == IF last THEN layout_last(encrypted_size(expected)) ELSE CipherChunk

\* The ciphertext read is chunk number `next` of version v, and it is the last
\* one of that version exactly when it is the last one that is expected.
Opens(v) == /\ header = v
            /\ reader.pos = Header + next * CipherChunk
            /\ LET left == encrypted_size(sizes[v]) - reader.pos IN
               /\ clen = Least(left, CipherChunk)
               /\ last <=> (next = chunks(sizes[v]) - 1)

\* read_exact and open_chunk
CopyChunk == /\ pc = "copy" /\ encrypted /\ ~cancelled /\ next < n_chunks
             /\ \E v \in Sources :
                  /\ reader' = [ver |-> v, pos |-> reader.pos + clen]
                  /\ IF Opens(v)
                     THEN /\ buf' = Bytes(v, next * Chunk, next * Chunk + clen - Tag)
                          /\ pc' = "write"
                     ELSE Fails
             /\ next' = next + 1
             /\ UNCHANGED <<encrypted, sizes, disk, expected, attempt, cancelled, outcome, header, bounds>>

\* write_all may be interrupted after every byte; an empty chunk writes none.
WriteByte == /\ pc = "write" /\ buf # <<>>
             /\ part' = Append(part, Head(buf)) /\ buf' = Tail(buf)
             /\ UNCHANGED <<encrypted, sizes, out, saved, pc, expected, attempt, cancelled, outcome,
                            reader, header, next, bounds>>

Written == /\ pc = "write" /\ buf = <<>>
           /\ pc' = "copy"
           /\ UNCHANGED <<encrypted, sizes, disk, expected, attempt, cancelled, outcome, reader, header, next, buf, bounds>>

\* All chunks are there.
EndChunks == /\ pc = "copy" /\ encrypted /\ next >= n_chunks
             /\ pc' = "rename"
             /\ UNCHANGED <<encrypted, sizes, disk, expected, attempt, cancelled, outcome, reader, header, next, buf, bounds>>

Rename == /\ pc = "rename"
          /\ out' = part /\ part' = <<>> /\ saved' = TRUE
          /\ pc' = "idle" /\ outcome' = "ok"
          /\ UNCHANGED <<encrypted, sizes, expected, attempt, cancelled, reader, header, next, buf, bounds>>

CancelledCopy == /\ pc = "copy" /\ cancelled /\ (encrypted => next < n_chunks)
                 /\ Fails
                 /\ UNCHANGED <<encrypted, sizes, disk, expected, attempt, cancelled, outcome, reader, header, next, bounds>>

\* A request, a read or a write fails, or a watchdog gives the attempt up.
Fault == /\ pc \in {"attempt", "open", "header", "copy", "write", "rename"} /\ errors < MaxErrors
         /\ Fails
         /\ errors' = errors + 1
         /\ UNCHANGED <<encrypted, sizes, disk, expected, attempt, cancelled, outcome, reader, header, next,
                        runs, crashes>>

-----------------------------------------------------------------------------
(* The rest of the world *)

Cancel == /\ pc # "idle" /\ ~cancelled
          /\ cancelled' = TRUE
          /\ UNCHANGED <<encrypted, sizes, disk, pc, expected, attempt, outcome, reader, header, next, buf, bounds>>

Crash == /\ pc # "idle" /\ crashes < MaxCrashes
         /\ crashes' = crashes + 1
         /\ pc' = "idle" /\ buf' = <<>>
         /\ UNCHANGED <<encrypted, sizes, disk, expected, attempt, cancelled, outcome, reader, header, next,
                        runs, errors>>

Overwrite == /\ Len(sizes) <= MaxChanges
             /\ \E n \in Sizes : sizes' = Append(sizes, n)
             /\ UNCHANGED <<encrypted, disk, task, bounds>>

\* What the task does by itself.
Step == \/ Retry \/ GiveUp \/ CancelledFirst \/ Finalize \/ Prepare \/ Open \/ ReadHeader
        \/ CopyPlain \/ EndPlain \/ CopyChunk \/ WriteByte \/ Written \/ EndChunks \/ Rename \/ CancelledCopy

Next == Start \/ Step \/ Fault \/ Cancel \/ Crash \/ Overwrite

Spec == Init /\ [][Next]_vars

\* The runtime polls the task until it ends.
FairSpec == Spec /\ WF_vars(Step)

-----------------------------------------------------------------------------

Places(file) == \A k \in DOMAIN file : file[k][1] \in Version /\ file[k][2] = k

\* Type correctness, and what a pc implies of the other variables.
TypeOK == /\ encrypted \in BOOLEAN /\ saved \in BOOLEAN /\ cancelled \in BOOLEAN
          /\ sizes \in Seq(Nat) /\ sizes # <<>>
          /\ part \in Seq(Byte) /\ out \in Seq(Byte) /\ buf \in Seq(Byte)
          /\ pc \in {"idle", "attempt", "open", "header", "copy", "write", "rename", "failed"}
          /\ expected \in Nat /\ attempt \in 0 .. Retries /\ outcome \in {"none", "ok", "err"}
          /\ reader \in [ver : 0 .. Len(sizes), pos : Nat] /\ header \in 0 .. Len(sizes)
          /\ next \in Nat
          /\ runs \in 0 .. MaxRuns /\ errors \in 0 .. MaxErrors /\ crashes \in 0 .. MaxCrashes
          /\ pc # "write" => buf = <<>>

\* However many attempts, crashes and changes of the object a file is put
\* together from, every byte of it is at the place it has in some version:
\* resuming neither repeats nor skips one.
EveryByteInPlace == Places(part) /\ Places(out)

\* A file that is put in place is as long as some version of the object.  (A
\* plain file is read up to wherever the object ends, so it needs the object to
\* stay as it is; the length of an encrypted one is authenticated.)
OutIsWhole == saved /\ (encrypted \/ Len(sizes) = 1) => \E v \in Version : Len(out) = sizes[v]

\* No chunk of an encrypted file mixes two versions.
ChunksAreWhole == encrypted =>
    \A j, k \in DOMAIN out : (j - 1) \div Chunk = (k - 1) \div Chunk => out[j][1] = out[k][1]

\* An object that nobody changes is given up only when the user cancels or
\* after one failure more than there are retries: no resumption fails of
\* itself.
GivesUpForCause == outcome = "err" /\ Len(sizes) = 1 => cancelled \/ errors > Retries

\* Every size the program computes for an object agrees with what it uploads:
\* the length announced for an upload, the layout that a download reads and the
\* size shown for a folder.
SizesAgree == \A v \in Version :
    LET p == sizes[v]
        c == encrypted_size(p)
    IN /\ wire_len(p) = c
       /\ layout_ok(c) /\ layout_chunks(c) = chunks(p)
       /\ layout_last(c) = p - (chunks(p) - 1) * Chunk + Tag
       /\ plaintext_of_ciphertext(c) = p

\* "Already complete (e.g. crashed between flush and rename): just finalize":
\* a part that is put in place without a look at the object is a complete
\* download of some version of it.
FinalizedIsComplete ==
    [][pc = "attempt" /\ pc' = "rename" => \E v \in Version : part' = Bytes(v, 0, sizes[v])]_vars

\* Every download ends.
EveryDownloadEnds == (pc = "attempt") ~> (pc = "idle")
=============================================================================
