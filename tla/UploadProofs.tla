---------------------------- MODULE UploadProofs ----------------------------
(***************************************************************************)
(* Proofs about Upload, for every kind of backend, body length, threshold, *)
(* part size, number of retries and of faults: an upload that succeeds has *)
(* put a whole object there and is credited with each byte once, on S3 no  *)
(* reader ever finds a torn one, and an abort leaves nothing behind.       *)
(***************************************************************************)
EXTENDS Upload, TLAPS

\* The first n chunks that attempt a seals of file f.
Body(f, a, n) == [i \in 1 .. n |-> <<IF f.e2ee THEN a ELSE 0, i>>]

\* The shape of the records, which the EXCEPTs need.
FileOK == file \in [kind : Kinds, e2ee : BOOLEAN, len : Nat \ {0}, plain : Nat]
JobOK == /\ DOMAIN job = {"pc", "attempt", "sent", "body", "high", "throttled", "paced", "hung"}
         /\ job.attempt \in Nat /\ job.sent \in Nat /\ job.body \in Nat
IsStore(st) == DOMAIN st = {"obj", "unstable", "pend", "open"}
StoreOK == IsStore(store)
Shape == FileOK /\ JobOK /\ StoreOK

\* Which phases there are for a file system and for S3, for a small body and for parts.
Phase == /\ job.pc \in {"put", "write", "close"} => FS
         /\ job.pc = "stream" => ~FS
         /\ job.pc \in {"put", "close"} => small
         /\ job.pc \in {"create", "read", "part", "complete"} => ~small
         /\ ~FS => store.unstable = {}
         /\ job.hung => InOp

\* How far the attempt is.
Count == /\ job.attempt <= retries + 1
         /\ job.pc = "start" => job.attempt <= retries
         /\ job.pc \notin {"start", "err"} => job.attempt >= 1
         /\ job.sent <= file.len
         /\ job.pc \in {"prepare", "put", "create"} => job.sent = 0 /\ job.body = 0
         /\ job.pc \in {"write", "stream"} => job.body <= Size /\ (small => job.sent = 0)
         /\ job.pc \in {"close", "complete"} => job.sent = file.len

\* What a file system has of the attempt is the start of its body.
Place == FS /\ ~rebooted =>
         /\ job.pc = "write" => store.obj = {Body(file, job.attempt, job.sent + job.body)}
         /\ job.pc \in {"read", "part", "close", "complete"} => store.obj = {Body(file, job.attempt, job.sent)}
         /\ job.pc = "ok" => store.obj = {Body(file, job.attempt, file.len)}

\* S3 has the old object or a whole new one, and has it when the upload succeeded.
Torn == ~FS => /\ \/ store.obj = {} \/ store.obj = {Old}
                  \/ \E a \in 1 .. retries + 1 : store.obj = {Body(file, a, file.len)}
               /\ job.pc = "ok" => store.obj = {Body(file, job.attempt, file.len)}

UploadInv == Shape /\ Phase /\ Count /\ Place /\ Torn

-----------------------------------------------------------------------------

\* The bodies of Upload are those of the invariant.
LEMMA UptoIsBody == \A a, n : Upto(a, n) = Body(file, a, n)
  BY DEF Upto, Cell, Body

\* A body is a sequence of its length.
LEMMA BodyLen ==
  ASSUME NEW f, NEW a \in Nat, NEW n \in Nat
  PROVE  Body(f, a, n) \in Seq(Nat \X Nat) /\ Len(Body(f, a, n)) = n /\ DOMAIN Body(f, a, n) = 1 .. n
  <1>1. \A i \in 1 .. n : <<IF f.e2ee THEN a ELSE 0, i>> \in Nat \X Nat
    OBVIOUS
  <1>2. Body(f, a, n) \in [1 .. n -> Nat \X Nat]
    BY <1>1 DEF Body
  <1> QED
    BY <1>2

\* An empty body, and one chunk more.
LEMMA BodyEmpty ==
  ASSUME NEW f, NEW a \in Nat
  PROVE  Body(f, a, 0) = <<>>
  <1>1. Body(f, a, 0) \in Seq(Nat \X Nat) /\ Len(Body(f, a, 0)) = 0
    BY BodyLen
  <1> QED
    BY <1>1

LEMMA BodyGrows ==
  ASSUME NEW st, NEW a \in Nat, NEW n \in Nat, st.obj = {Body(file, a, n)}, IsStore(st)
  PROVE  write_at(st, n + 1, Cell(a, n + 1)).obj = {Body(file, a, n + 1)}
  <1> DEFINE s == Body(file, a, n)
             t == [k \in 1 .. (IF Len(s) < n + 1 THEN n + 1 ELSE Len(s)) |-> IF k = n + 1 THEN Cell(a, n + 1) ELSE s[k]]
  <1>1. Len(s) = n
    BY BodyLen
  <1>2. \A k \in 1 .. n : s[k] = <<IF file.e2ee THEN a ELSE 0, k>>
    BY DEF Body
  <1>3. t = Body(file, a, n + 1)
    BY <1>1, <1>2 DEF Body, Cell
  <1>4. write_at(st, n + 1, Cell(a, n + 1)).obj = {t}
    BY DEF write_at, IsStore
  <1> QED
    BY <1>3, <1>4

-----------------------------------------------------------------------------
(* What the calls of a backend do to the object.                             *)

LEMMA FourKinds == FileOK => file.kind \in {"s3", "sftp", "smb", "nfs"}
  BY UploadAssumption DEF FileOK

LEMMA PutEffect ==
  ASSUME NEW st, IsStore(st), FileOK, FS
  PROVE  LET new == put_throttled(st) IN IsStore(new) /\ new.obj = {<<>>} /\ new.unstable = st.unstable
  BY FourKinds DEF put_throttled, sftp_put_throttled, smb_put_throttled, nfs_put_throttled, create_truncated,
                   Truncated, IsStore, FS

LEMMA CreateEffect ==
  ASSUME NEW st, NEW id, IsStore(st), FileOK
  PROVE  LET new == create_multipart(st, id)
         IN  IsStore(new) /\ new.obj = (IF FS THEN {<<>>} ELSE st.obj) /\ new.unstable = st.unstable
  <1>1. CASE file.kind = "s3"
    BY <1>1 DEF create_multipart, s3_create_multipart, IsStore, FS
  <1>2. CASE file.kind = "sftp"
    BY <1>2 DEF create_multipart, sftp_create_multipart, Opened, Truncated, IsStore, FS
  <1>3. CASE file.kind = "smb"
    BY <1>3 DEF create_multipart, smb_create_multipart, Opened, Truncated, IsStore, FS
  <1>4. CASE file.kind = "nfs"
    BY <1>4 DEF create_multipart, nfs_create_multipart, create_truncated, Truncated, IsStore, FS
  <1> QED
    BY <1>1, <1>2, <1>3, <1>4, FourKinds

LEMMA WriteEffect ==
  ASSUME NEW st, NEW i, NEW c, IsStore(st), FileOK
  PROVE  IsStore(write_at(st, i, c)) /\ (file.kind # "nfs" => write_at(st, i, c).unstable = st.unstable)
  BY DEF write_at, IsStore

LEMMA FailedEffect ==
  ASSUME NEW st, NEW id, IsStore(st), FileOK
  PROVE  LET new == part_failed(st, id) IN IsStore(new) /\ new.obj = st.obj /\ new.unstable = st.unstable
  BY FourKinds DEF part_failed, sftp_part_failed, smb_part_failed, nfs_part_failed, IsStore

LEMMA ClosedEffect ==
  ASSUME NEW st, NEW id, IsStore(st)
  PROVE  LET new == Closed(st, id) IN IsStore(new) /\ new.obj = st.obj /\ new.unstable = st.unstable
  BY DEF Closed, IsStore

LEMMA CommitEffect ==
  ASSUME NEW st, IsStore(st)
  PROVE  IsStore(commit(st)) /\ commit(st).obj = st.obj /\ commit(st).unstable = {}
  BY DEF commit, IsStore

LEMMA CompleteEffect ==
  ASSUME NEW st, NEW id, NEW body, IsStore(st), FileOK
  PROVE  LET new == complete_multipart(st, id, body)
         IN  IsStore(new) /\ new.obj = (IF FS THEN st.obj ELSE {body}) /\ new.unstable \in {{}, st.unstable}
  <1>1. CASE file.kind = "s3"
    BY <1>1 DEF complete_multipart, s3_complete_multipart, IsStore, FS
  <1>2. CASE file.kind = "sftp"
    BY <1>2, ClosedEffect DEF complete_multipart, sftp_complete_multipart, FS
  <1>3. CASE file.kind = "smb"
    BY <1>3, ClosedEffect DEF complete_multipart, smb_complete_multipart, FS
  <1>4. CASE file.kind = "nfs"
    BY <1>4, ClosedEffect, CommitEffect DEF complete_multipart, nfs_complete_multipart, FS
  <1> QED
    BY <1>1, <1>2, <1>3, <1>4, FourKinds

LEMMA AbortEffect ==
  ASSUME NEW st, NEW id, IsStore(st), FileOK
  PROVE  LET new == abort_multipart(st, id)
         IN  IsStore(new) /\ new.unstable = st.unstable /\ (~FS => new.obj = st.obj)
  <1>1. IsStore(Removed(st, id)) /\ Removed(st, id).unstable = st.unstable
    BY DEF Removed, Closed, IsStore
  <1>2. CASE file.kind = "s3"
    BY <1>2 DEF abort_multipart, s3_abort_multipart, IsStore, FS
  <1>3. CASE file.kind # "s3"
    BY <1>1, <1>3, FourKinds DEF abort_multipart, sftp_abort_multipart, smb_abort_multipart, nfs_abort_multipart, FS
  <1> QED
    BY <1>2, <1>3

-----------------------------------------------------------------------------
(* Every action preserves the invariant.                                     *)

LEMMA StartKeeps == UploadInv /\ Start => UploadInv'
  <1> SUFFICES ASSUME UploadInv, Start PROVE UploadInv'
    OBVIOUS
  <1>1. job.pc = "start" /\ file' = file /\ rebooted' = rebooted /\ FileOK /\ JobOK /\ IsStore(store)
    BY DEF UploadInv, Shape, StoreOK, Start, bounds
  <1>2. CASE cancelled /\ To("err")
    <2>1. JobOK' /\ job'.pc = "err" /\ job'.attempt = job.attempt /\ job'.sent = job.sent /\
          job'.body = job.body /\ job'.hung = job.hung
      BY <1>1, <1>2, UploadAssumption DEF UploadInv, Shape, StoreOK, JobOK, At, FileOK, To, Start, bounds
    <2>2. IsStore(store') /\ store'.obj = store.obj /\ store'.unstable = store.unstable
      BY <1>1, <1>2 DEF UploadInv, Shape, StoreOK, JobOK, At, IsStore, Start, bounds
    <2>3. Shape'
      BY <1>1, <2>1, <2>2 DEF Shape, FileOK, StoreOK
    <2>4. Phase'
      BY <1>1, <1>2, <2>1, <2>2 DEF UploadInv, FileOK, JobOK, Phase, FS, small, InOp, At
    <2>5. Count'
      BY <1>1, <1>2, <2>1, <2>2, UploadAssumption
         DEF UploadInv, FileOK, JobOK, Count, FS, small, At, Phase, Size, PartLen
    <2>6. Place'
      BY <1>1, <1>2, <2>1, <2>2 DEF UploadInv, FileOK, JobOK, Place, FS, small, At, Phase, Count
    <2>7. Torn'
      BY <1>1, <1>2, <2>1, <2>2, UploadAssumption
         DEF UploadInv, FileOK, JobOK, Torn, FS, small, At, Phase, Count
    <2> QED
      BY <2>3, <2>4, <2>5, <2>6, <2>7 DEF UploadInv
  <1>3. CASE ~cancelled /\ job' = [NewJob EXCEPT !.pc = "prepare", !.attempt = job.attempt + 1]
    <2>1. JobOK' /\ job'.pc = "prepare" /\ job'.attempt = job.attempt + 1 /\ job'.sent = 0 /\ job'.body = 0 /\
          job'.hung = FALSE
      BY <1>1, <1>3, UploadAssumption DEF UploadInv, Shape, StoreOK, JobOK, At, FileOK, NewJob, Start, bounds
    <2>2. IsStore(store') /\ store'.obj = store.obj /\ store'.unstable = store.unstable
      BY <1>1, <1>3 DEF UploadInv, Shape, StoreOK, JobOK, At, IsStore, Start, bounds
    <2>3. Shape'
      BY <1>1, <2>1, <2>2 DEF Shape, FileOK, StoreOK
    <2>4. Phase'
      BY <1>1, <1>3, <2>1, <2>2 DEF UploadInv, FileOK, JobOK, Phase, FS, small, InOp, At
    <2>5. Count'
      BY <1>1, <1>3, <2>1, <2>2, UploadAssumption
         DEF UploadInv, FileOK, JobOK, Count, FS, small, At, Phase, Size, PartLen
    <2>6. Place'
      BY <1>1, <1>3, <2>1, <2>2 DEF UploadInv, FileOK, JobOK, Place, FS, small, At, Phase, Count
    <2>7. Torn'
      BY <1>1, <1>3, <2>1, <2>2, UploadAssumption
         DEF UploadInv, FileOK, JobOK, Torn, FS, small, At, Phase, Count
    <2> QED
      BY <2>3, <2>4, <2>5, <2>6, <2>7 DEF UploadInv
  <1> QED
    BY <1>2, <1>3 DEF Start, bounds

LEMMA prepare_parentsKeeps == UploadInv /\ prepare_parents => UploadInv'
  <1> SUFFICES ASSUME UploadInv, prepare_parents PROVE UploadInv'
    OBVIOUS
  <1>1. Shape'
    BY UploadAssumption
       DEF UploadInv, Shape, FileOK, JobOK, StoreOK, IsStore, prepare_parents, At, To, Fault, bounds, history
  <1>2. Phase'
    BY UploadAssumption
       DEF UploadInv, Shape, FileOK, JobOK, StoreOK, IsStore, Phase, FS, small, InOp, prepare_parents, At, To,
           Fault, bounds, history
  <1>3. Count'
    BY UploadAssumption
       DEF UploadInv, Shape, FileOK, JobOK, StoreOK, IsStore, Phase, InOp, Count, FS, small, Size, PartLen,
           prepare_parents, At, To, Fault, bounds, history
  <1>4. Place'
    BY UploadAssumption
       DEF UploadInv, Shape, FileOK, JobOK, StoreOK, IsStore, Phase, InOp, Count, Place, FS, small, Size,
           PartLen, prepare_parents, At, To, Fault, bounds, history
  <1>5. Torn'
    BY UploadAssumption
       DEF UploadInv, Shape, FileOK, JobOK, StoreOK, IsStore, Phase, InOp, Count, Torn, FS, small, Size,
           PartLen, prepare_parents, At, To, Fault, bounds, history
  <1> QED
    BY <1>1, <1>2, <1>3, <1>4, <1>5 DEF UploadInv

LEMMA PutOpenKeeps == UploadInv /\ PutOpen => UploadInv'
  <1> SUFFICES ASSUME UploadInv, PutOpen PROVE UploadInv'
    OBVIOUS
  <1>1. At("put") /\ file' = file /\ rebooted' = rebooted /\ FileOK /\ JobOK /\ IsStore(store)
    BY DEF UploadInv, Shape, StoreOK, PutOpen
  <1>2. CASE store' = put_throttled(store) /\ To("write")
    <2>1. {<<>>} = {Body(file, job.attempt, job.sent + job.body)}
      <3>1. job.attempt \in Nat /\ job.sent + job.body = 0
        BY <1>1 DEF UploadInv, Count, JobOK, At
      <3> QED
        BY <3>1, BodyEmpty
    <2>2. JobOK' /\ job'.pc = "write" /\ job'.attempt = job.attempt /\ job'.sent = job.sent /\
          job'.body = job.body /\ job'.hung = job.hung
      BY <1>1, <1>2, UploadAssumption DEF UploadInv, Shape, StoreOK, JobOK, At, FileOK, To
    <2>3. IsStore(store') /\ store'.obj = {<<>>} /\ store'.unstable = store.unstable
      BY <1>1, <1>2, <2>1, PutEffect DEF UploadInv, Shape, StoreOK, JobOK, At, IsStore, Phase
    <2>4. Shape'
      BY <1>1, <2>2, <2>3 DEF Shape, FileOK, StoreOK
    <2>5. Phase'
      BY <1>1, <1>2, <2>2, <2>3, <2>1 DEF UploadInv, FileOK, JobOK, Phase, FS, small, InOp, At
    <2>6. Count'
      BY <1>1, <1>2, <2>2, <2>3, <2>1, UploadAssumption
         DEF UploadInv, FileOK, JobOK, Count, FS, small, At, Phase, Size, PartLen
    <2>7. Place'
      BY <1>1, <1>2, <2>2, <2>3, <2>1, BodyEmpty
         DEF UploadInv, FileOK, JobOK, Place, FS, small, At, Phase, Count
    <2>8. Torn'
      BY <1>1, <1>2, <2>2, <2>3, <2>1, UploadAssumption
         DEF UploadInv, FileOK, JobOK, Torn, FS, small, At, Phase, Count
    <2> QED
      BY <2>4, <2>5, <2>6, <2>7, <2>8 DEF UploadInv
  <1>3. CASE Fault /\ store' \in {store, put_throttled(store)} /\ To("failed")
    <2>1. JobOK' /\ job'.pc = "failed" /\ job'.attempt = job.attempt /\ job'.sent = job.sent /\
          job'.body = job.body /\ job'.hung = job.hung
      BY <1>1, <1>3, UploadAssumption DEF UploadInv, Shape, StoreOK, JobOK, At, FileOK, To
    <2>2. FS /\ IsStore(store') /\ store'.unstable = store.unstable
      BY <1>1, <1>3, PutEffect DEF UploadInv, Shape, StoreOK, JobOK, At, IsStore, Phase
    <2>3. Shape'
      BY <1>1, <2>1, <2>2 DEF Shape, FileOK, StoreOK
    <2>4. Phase'
      BY <1>1, <1>3, <2>1, <2>2 DEF UploadInv, FileOK, JobOK, Phase, FS, small, InOp, At
    <2>5. Count'
      BY <1>1, <1>3, <2>1, <2>2, UploadAssumption
         DEF UploadInv, FileOK, JobOK, Count, FS, small, At, Phase, Size, PartLen
    <2>6. Place'
      BY <1>1, <1>3, <2>1, <2>2 DEF UploadInv, FileOK, JobOK, Place, FS, small, At, Phase, Count
    <2>7. Torn'
      BY <1>1, <1>3, <2>1, <2>2, UploadAssumption
         DEF UploadInv, FileOK, JobOK, Torn, FS, small, At, Phase, Count
    <2> QED
      BY <2>3, <2>4, <2>5, <2>6, <2>7 DEF UploadInv
  <1> QED
    BY <1>2, <1>3 DEF PutOpen

LEMMA PutCloseKeeps == UploadInv /\ PutClose => UploadInv'
  <1> SUFFICES ASSUME UploadInv, PutClose PROVE UploadInv'
    OBVIOUS
  <1>1. Shape'
    BY UploadAssumption, CommitEffect
       DEF UploadInv, Shape, FileOK, JobOK, StoreOK, IsStore, PutClose, At, To, Fault, bounds, history
  <1>2. Phase'
    BY UploadAssumption, CommitEffect
       DEF UploadInv, Shape, FileOK, JobOK, StoreOK, IsStore, Phase, FS, small, InOp, PutClose, At, To, Fault,
           bounds, history
  <1>3. Count'
    BY UploadAssumption, CommitEffect
       DEF UploadInv, Shape, FileOK, JobOK, StoreOK, IsStore, Phase, InOp, Count, FS, small, Size, PartLen,
           PutClose, At, To, Fault, bounds, history
  <1>4. Place'
    BY UploadAssumption, CommitEffect
       DEF UploadInv, Shape, FileOK, JobOK, StoreOK, IsStore, Phase, InOp, Count, Place, FS, small, Size,
           PartLen, PutClose, At, To, Fault, bounds, history
  <1>5. Torn'
    BY UploadAssumption, CommitEffect
       DEF UploadInv, Shape, FileOK, JobOK, StoreOK, IsStore, Phase, InOp, Count, Torn, FS, small, Size,
           PartLen, PutClose, At, To, Fault, bounds, history
  <1> QED
    BY <1>1, <1>2, <1>3, <1>4, <1>5 DEF UploadInv

LEMMA createKeeps == UploadInv /\ create => UploadInv'
  <1> SUFFICES ASSUME UploadInv, create PROVE UploadInv'
    OBVIOUS
  <1>1. Shape'
    BY UploadAssumption, CreateEffect
       DEF UploadInv, Shape, FileOK, JobOK, StoreOK, IsStore, create, At, To, Fault, bounds, Id
  <1>2. Phase'
    BY UploadAssumption, CreateEffect
       DEF UploadInv, Shape, FileOK, JobOK, StoreOK, IsStore, Phase, FS, small, InOp, create, At, To, Fault,
           bounds, Id
  <1>3. Count'
    BY UploadAssumption, CreateEffect
       DEF UploadInv, Shape, FileOK, JobOK, StoreOK, IsStore, Phase, InOp, Count, FS, small, Size, PartLen,
           create, At, To, Fault, bounds, Id
  <1>4. Place'
    BY UploadAssumption, BodyEmpty, CreateEffect
       DEF UploadInv, Shape, FileOK, JobOK, StoreOK, IsStore, Phase, InOp, Count, Place, FS, small, Size,
           PartLen, create, At, To, Fault, bounds, Id
  <1>5. Torn'
    BY UploadAssumption, CreateEffect
       DEF UploadInv, Shape, FileOK, JobOK, StoreOK, IsStore, Phase, InOp, Count, Torn, FS, small, Size,
           PartLen, create, At, To, Fault, bounds, Id
  <1> QED
    BY <1>1, <1>2, <1>3, <1>4, <1>5 DEF UploadInv

LEMMA ReadPartKeeps == UploadInv /\ ReadPart => UploadInv'
  <1> SUFFICES ASSUME UploadInv, ReadPart PROVE UploadInv'
    OBVIOUS
  <1>1. Shape'
    BY UploadAssumption DEF UploadInv, Shape, FileOK, JobOK, StoreOK, IsStore, ReadPart, At, To, bounds, history
  <1>2. Phase'
    BY UploadAssumption
       DEF UploadInv, Shape, FileOK, JobOK, StoreOK, IsStore, Phase, FS, small, InOp, ReadPart, At, To, bounds,
           history
  <1>3. Count'
    BY UploadAssumption
       DEF UploadInv, Shape, FileOK, JobOK, StoreOK, IsStore, Phase, InOp, Count, FS, small, Size, PartLen,
           ReadPart, At, To, bounds, history
  <1>4. Place'
    BY UploadAssumption
       DEF UploadInv, Shape, FileOK, JobOK, StoreOK, IsStore, Phase, InOp, Count, Place, FS, small, Size,
           PartLen, ReadPart, At, To, bounds, history
  <1>5. Torn'
    BY UploadAssumption
       DEF UploadInv, Shape, FileOK, JobOK, StoreOK, IsStore, Phase, InOp, Count, Torn, FS, small, Size,
           PartLen, ReadPart, At, To, bounds, history
  <1> QED
    BY <1>1, <1>2, <1>3, <1>4, <1>5 DEF UploadInv

LEMMA upload_partKeeps == UploadInv /\ upload_part => UploadInv'
  <1> SUFFICES ASSUME UploadInv, upload_part PROVE UploadInv'
    OBVIOUS
  <1>1. At("part") /\ file' = file /\ rebooted' = rebooted /\ FileOK /\ JobOK /\ IsStore(store)
    BY DEF UploadInv, Shape, StoreOK, upload_part, bounds, history
  <1>2. CASE FS /\ store' = Closed(store, Id) /\ job' = [job EXCEPT !.pc = "write", !.body = 0]
    <2>1. JobOK' /\ job'.pc = "write" /\ job'.attempt = job.attempt /\ job'.sent = job.sent /\ job'.body = 0 /\
          job'.hung = job.hung
      BY <1>1, <1>2, UploadAssumption DEF UploadInv, Shape, StoreOK, JobOK, At, FileOK
    <2>2. IsStore(store') /\ store'.obj = store.obj /\ store'.unstable = store.unstable
      BY <1>1, <1>2, ClosedEffect DEF UploadInv, Shape, StoreOK, JobOK, At, IsStore, Id
    <2>3. Shape'
      BY <1>1, <2>1, <2>2 DEF Shape, FileOK, StoreOK
    <2>4. Phase'
      BY <1>1, <1>2, <2>1, <2>2 DEF UploadInv, FileOK, JobOK, Phase, FS, small, InOp, At
    <2>5. Count'
      BY <1>1, <1>2, <2>1, <2>2, UploadAssumption
         DEF UploadInv, FileOK, JobOK, Count, FS, small, At, Phase, Size, PartLen
    <2>6. Place'
      BY <1>1, <1>2, <2>1, <2>2 DEF UploadInv, FileOK, JobOK, Place, FS, small, At, Phase, Count
    <2>7. Torn'
      BY <1>1, <1>2, <2>1, <2>2, UploadAssumption
         DEF UploadInv, FileOK, JobOK, Torn, FS, small, At, Phase, Count
    <2> QED
      BY <2>3, <2>4, <2>5, <2>6, <2>7 DEF UploadInv
  <1>3. CASE ~FS /\ store' = store /\
             job' = [job EXCEPT !.pc = "stream", !.body = 0, !.high = 0, !.throttled = limited, !.paced = limited]
    <2>1. JobOK' /\ job'.pc = "stream" /\ job'.attempt = job.attempt /\ job'.sent = job.sent /\
          job'.body = 0 /\ job'.hung = job.hung
      BY <1>1, <1>3, UploadAssumption DEF UploadInv, Shape, StoreOK, JobOK, At, FileOK
    <2>2. IsStore(store') /\ store'.obj = store.obj /\ store'.unstable = store.unstable
      BY <1>1, <1>3 DEF UploadInv, Shape, StoreOK, JobOK, At, IsStore
    <2>3. Shape'
      BY <1>1, <2>1, <2>2 DEF Shape, FileOK, StoreOK
    <2>4. Phase'
      BY <1>1, <1>3, <2>1, <2>2 DEF UploadInv, FileOK, JobOK, Phase, FS, small, InOp, At
    <2>5. Count'
      BY <1>1, <1>3, <2>1, <2>2, UploadAssumption
         DEF UploadInv, FileOK, JobOK, Count, FS, small, At, Phase, Size, PartLen
    <2>6. Place'
      BY <1>1, <1>3, <2>1, <2>2 DEF UploadInv, FileOK, JobOK, Place, FS, small, At, Phase, Count
    <2>7. Torn'
      BY <1>1, <1>3, <2>1, <2>2, UploadAssumption
         DEF UploadInv, FileOK, JobOK, Torn, FS, small, At, Phase, Count
    <2> QED
      BY <2>3, <2>4, <2>5, <2>6, <2>7 DEF UploadInv
  <1> QED
    BY <1>2, <1>3 DEF upload_part, bounds, history

LEMMA throttled_bytestreamKeeps == UploadInv /\ throttled_bytestream => UploadInv'
  <1> SUFFICES ASSUME UploadInv, throttled_bytestream PROVE UploadInv'
    OBVIOUS
  <1>1. Shape'
    BY UploadAssumption DEF UploadInv, Shape, FileOK, JobOK, StoreOK, IsStore, throttled_bytestream, At
  <1>2. Phase'
    BY UploadAssumption
       DEF UploadInv, Shape, FileOK, JobOK, StoreOK, IsStore, Phase, FS, small, InOp, throttled_bytestream, At
  <1>3. Count'
    BY UploadAssumption
       DEF UploadInv, Shape, FileOK, JobOK, StoreOK, IsStore, Phase, InOp, Count, FS, small, Size, PartLen,
           throttled_bytestream, At
  <1>4. Place'
    BY UploadAssumption
       DEF UploadInv, Shape, FileOK, JobOK, StoreOK, IsStore, Phase, InOp, Count, Place, FS, small, Size,
           PartLen, throttled_bytestream, At
  <1>5. Torn'
    BY UploadAssumption
       DEF UploadInv, Shape, FileOK, JobOK, StoreOK, IsStore, Phase, InOp, Count, Torn, FS, small, Size,
           PartLen, throttled_bytestream, At
  <1> QED
    BY <1>1, <1>2, <1>3, <1>4, <1>5 DEF UploadInv

LEMMA WriteChunkKeeps == UploadInv /\ WriteChunk => UploadInv'
  <1> SUFFICES ASSUME UploadInv, WriteChunk PROVE UploadInv'
    OBVIOUS
  <1>1. At("write") /\ file' = file /\ rebooted' = rebooted /\ FileOK /\ JobOK /\ IsStore(store)
    BY DEF UploadInv, Shape, StoreOK, WriteChunk
  <1>2. CASE job.body < Size /\
             store' = write_at(store, job.sent + job.body + 1, Cell(job.attempt, job.sent + job.body + 1)) /\
             job' = [job EXCEPT !.body = @ + 1]
    <2>1. JobOK' /\ job'.pc = "write" /\ job'.attempt = job.attempt /\ job'.sent = job.sent /\
          job'.body = job.body + 1 /\ job'.hung = job.hung
      BY <1>1, <1>2, UploadAssumption DEF UploadInv, Shape, StoreOK, JobOK, At, FileOK
    <2>2. FS /\ IsStore(store') /\ (file.kind # "nfs" => store'.unstable = store.unstable)
      BY <1>1, <1>2, WriteEffect DEF UploadInv, Shape, StoreOK, JobOK, At, IsStore, Phase
    <2>3. Shape'
      BY <1>1, <2>1, <2>2 DEF Shape, FileOK, StoreOK
    <2>4. Phase'
      BY <1>1, <1>2, <2>1, <2>2 DEF UploadInv, FileOK, JobOK, Phase, FS, small, InOp, At
    <2>5. Count'
      BY <1>1, <1>2, <2>1, <2>2, UploadAssumption
         DEF UploadInv, FileOK, JobOK, Count, FS, small, At, Phase, Size, PartLen
    <2>6. Place'
      BY <1>1, <1>2, <2>1, <2>2, BodyGrows DEF UploadInv, FileOK, JobOK, Place, FS, small, At, Phase, Count
    <2>7. Torn'
      BY <1>1, <1>2, <2>1, <2>2, UploadAssumption
         DEF UploadInv, FileOK, JobOK, Torn, FS, small, At, Phase, Count
    <2> QED
      BY <2>3, <2>4, <2>5, <2>6, <2>7 DEF UploadInv
  <1>3. CASE job.body = Size /\
             job' = [job EXCEPT !.pc = IF small THEN "close" ELSE "read", !.sent = @ + Size] /\
             store' = IF small THEN store ELSE [store EXCEPT !.open = @ \cup {Id}]
    <2>1. JobOK' /\ job'.pc = (IF small THEN "close" ELSE "read") /\ job'.attempt = job.attempt /\
          job'.sent = job.sent + Size /\ job'.body = job.body /\ job'.hung = job.hung
      BY <1>1, <1>3, UploadAssumption
         DEF UploadInv, Shape, StoreOK, JobOK, At, FileOK, Size, PartLen, small, Count
    <2>2. IsStore(store') /\ store'.obj = store.obj /\ store'.unstable = store.unstable
      BY <1>1, <1>3 DEF UploadInv, Shape, StoreOK, JobOK, At, IsStore
    <2>3. Shape'
      BY <1>1, <2>1, <2>2 DEF Shape, FileOK, StoreOK
    <2>4. Phase'
      BY <1>1, <1>3, <2>1, <2>2 DEF UploadInv, FileOK, JobOK, Phase, FS, small, InOp, At
    <2>5. Count'
      BY <1>1, <1>3, <2>1, <2>2, UploadAssumption
         DEF UploadInv, FileOK, JobOK, Count, FS, small, At, Phase, Size, PartLen
    <2>6. Place'
      BY <1>1, <1>3, <2>1, <2>2 DEF UploadInv, FileOK, JobOK, Place, FS, small, At, Phase, Count
    <2>7. Torn'
      BY <1>1, <1>3, <2>1, <2>2, UploadAssumption
         DEF UploadInv, FileOK, JobOK, Torn, FS, small, At, Phase, Count
    <2> QED
      BY <2>3, <2>4, <2>5, <2>6, <2>7 DEF UploadInv
  <1>4. CASE Fault /\ store' = (IF small THEN store ELSE part_failed(store, Id)) /\
             To(IF small THEN "failed" ELSE "abort")
    <2>1. JobOK' /\ job'.pc = (IF small THEN "failed" ELSE "abort") /\ job'.attempt = job.attempt /\
          job'.sent = job.sent /\ job'.body = job.body /\ job'.hung = job.hung
      BY <1>1, <1>4, UploadAssumption DEF UploadInv, Shape, StoreOK, JobOK, At, FileOK, To
    <2>2. IsStore(store') /\ store'.obj = store.obj /\ store'.unstable = store.unstable
      BY <1>1, <1>4, FailedEffect DEF UploadInv, Shape, StoreOK, JobOK, At, IsStore
    <2>3. Shape'
      BY <1>1, <2>1, <2>2 DEF Shape, FileOK, StoreOK
    <2>4. Phase'
      BY <1>1, <1>4, <2>1, <2>2 DEF UploadInv, FileOK, JobOK, Phase, FS, small, InOp, At
    <2>5. Count'
      BY <1>1, <1>4, <2>1, <2>2, UploadAssumption
         DEF UploadInv, FileOK, JobOK, Count, FS, small, At, Phase, Size, PartLen
    <2>6. Place'
      BY <1>1, <1>4, <2>1, <2>2 DEF UploadInv, FileOK, JobOK, Place, FS, small, At, Phase, Count
    <2>7. Torn'
      BY <1>1, <1>4, <2>1, <2>2, UploadAssumption
         DEF UploadInv, FileOK, JobOK, Torn, FS, small, At, Phase, Count
    <2> QED
      BY <2>3, <2>4, <2>5, <2>6, <2>7 DEF UploadInv
  <1> QED
    BY <1>2, <1>3, <1>4 DEF WriteChunk

LEMMA PacedBodyKeeps == UploadInv /\ PacedBody => UploadInv'
  <1> SUFFICES ASSUME UploadInv, PacedBody PROVE UploadInv'
    OBVIOUS
  <1>1. At("stream") /\ file' = file /\ rebooted' = rebooted /\ FileOK /\ JobOK /\ IsStore(store)
    BY DEF UploadInv, Shape, StoreOK, PacedBody
  <1>2. CASE job.body < Size /\
             job' = [job EXCEPT !.body = @ + 1, !.high = IF job.body + 1 > @ THEN job.body + 1 ELSE @]
    <2>1. JobOK' /\ job'.pc = "stream" /\ job'.attempt = job.attempt /\ job'.sent = job.sent /\
          job'.body = job.body + 1 /\ job'.hung = job.hung
      BY <1>1, <1>2, UploadAssumption DEF UploadInv, Shape, StoreOK, JobOK, At, FileOK, PacedBody
    <2>2. IsStore(store') /\ store'.obj = store.obj /\ store'.unstable = store.unstable
      BY <1>1, <1>2 DEF UploadInv, Shape, StoreOK, JobOK, At, IsStore, PacedBody
    <2>3. Shape'
      BY <1>1, <2>1, <2>2 DEF Shape, FileOK, StoreOK
    <2>4. Phase'
      BY <1>1, <1>2, <2>1, <2>2 DEF UploadInv, FileOK, JobOK, Phase, FS, small, InOp, At
    <2>5. Count'
      BY <1>1, <1>2, <2>1, <2>2, UploadAssumption
         DEF UploadInv, FileOK, JobOK, Count, FS, small, At, Phase, Size, PartLen
    <2>6. Place'
      BY <1>1, <1>2, <2>1, <2>2 DEF UploadInv, FileOK, JobOK, Place, FS, small, At, Phase, Count
    <2>7. Torn'
      BY <1>1, <1>2, <2>1, <2>2, UploadAssumption
         DEF UploadInv, FileOK, JobOK, Torn, FS, small, At, Phase, Count
    <2> QED
      BY <2>3, <2>4, <2>5, <2>6, <2>7 DEF UploadInv
  <1>3. CASE Fault /\ job' = [job EXCEPT !.body = 0]
    <2>1. JobOK' /\ job'.pc = "stream" /\ job'.attempt = job.attempt /\ job'.sent = job.sent /\
          job'.body = 0 /\ job'.hung = job.hung
      BY <1>1, <1>3, UploadAssumption DEF UploadInv, Shape, StoreOK, JobOK, At, FileOK, PacedBody
    <2>2. IsStore(store') /\ store'.obj = store.obj /\ store'.unstable = store.unstable
      BY <1>1, <1>3 DEF UploadInv, Shape, StoreOK, JobOK, At, IsStore, PacedBody
    <2>3. Shape'
      BY <1>1, <2>1, <2>2 DEF Shape, FileOK, StoreOK
    <2>4. Phase'
      BY <1>1, <1>3, <2>1, <2>2 DEF UploadInv, FileOK, JobOK, Phase, FS, small, InOp, At
    <2>5. Count'
      BY <1>1, <1>3, <2>1, <2>2, UploadAssumption
         DEF UploadInv, FileOK, JobOK, Count, FS, small, At, Phase, Size, PartLen
    <2>6. Place'
      BY <1>1, <1>3, <2>1, <2>2 DEF UploadInv, FileOK, JobOK, Place, FS, small, At, Phase, Count
    <2>7. Torn'
      BY <1>1, <1>3, <2>1, <2>2, UploadAssumption
         DEF UploadInv, FileOK, JobOK, Torn, FS, small, At, Phase, Count
    <2> QED
      BY <2>3, <2>4, <2>5, <2>6, <2>7 DEF UploadInv
  <1> QED
    BY <1>2, <1>3 DEF PacedBody

LEMMA AnswerKeeps == UploadInv /\ Answer => UploadInv'
  <1> SUFFICES ASSUME UploadInv, Answer PROVE UploadInv'
    OBVIOUS
  <1>1. At("stream") /\ job.body = Size /\ file' = file /\ rebooted' = rebooted /\ FileOK /\ JobOK /\
        IsStore(store)
    BY DEF UploadInv, Shape, StoreOK, Answer, history
  <1>2. CASE store' = (IF small THEN s3_put_throttled(store, Whole(job.attempt)) ELSE store) /\
             job' = [job EXCEPT !.pc = IF small THEN "ok" ELSE "read", !.sent = @ + Size]
    <2>1. JobOK' /\ job'.pc = (IF small THEN "ok" ELSE "read") /\ job'.attempt = job.attempt /\
          job'.sent = job.sent + Size /\ job'.body = job.body /\ job'.hung = job.hung
      BY <1>1, <1>2, UploadAssumption
         DEF UploadInv, Shape, StoreOK, JobOK, At, FileOK, Size, PartLen, small, Count
    <2>2. ~FS /\ IsStore(store') /\ store'.unstable = store.unstable /\
          store'.obj = IF small THEN {Body(file, job.attempt, file.len)} ELSE store.obj
      BY <1>1, <1>2, UptoIsBody
         DEF UploadInv, Shape, StoreOK, JobOK, At, IsStore, Phase, s3_put_throttled, Whole
    <2>3. Shape'
      BY <1>1, <2>1, <2>2 DEF Shape, FileOK, StoreOK
    <2>4. Phase'
      BY <1>1, <1>2, <2>1, <2>2 DEF UploadInv, FileOK, JobOK, Phase, FS, small, InOp, At
    <2>5. Count'
      BY <1>1, <1>2, <2>1, <2>2, UploadAssumption
         DEF UploadInv, FileOK, JobOK, Count, FS, small, At, Phase, Size, PartLen
    <2>6. Place'
      BY <1>1, <1>2, <2>1, <2>2 DEF UploadInv, FileOK, JobOK, Place, FS, small, At, Phase, Count
    <2>7. Torn'
      BY <1>1, <1>2, <2>1, <2>2, UploadAssumption
         DEF UploadInv, FileOK, JobOK, Torn, FS, small, At, Phase, Count
    <2> QED
      BY <2>3, <2>4, <2>5, <2>6, <2>7 DEF UploadInv
  <1>3. CASE Fault /\
             store' \in {store, IF small THEN s3_put_throttled(store, Whole(job.attempt)) ELSE store} /\
             To(IF small THEN "failed" ELSE "abort")
    <2>1. JobOK' /\ job'.pc = (IF small THEN "failed" ELSE "abort") /\ job'.attempt = job.attempt /\
          job'.sent = job.sent /\ job'.body = job.body /\ job'.hung = job.hung
      BY <1>1, <1>3, UploadAssumption DEF UploadInv, Shape, StoreOK, JobOK, At, FileOK, To
    <2>2. ~FS /\ IsStore(store') /\ store'.unstable = store.unstable /\
          store'.obj \in {store.obj, {Body(file, job.attempt, file.len)}}
      BY <1>1, <1>3, UptoIsBody
         DEF UploadInv, Shape, StoreOK, JobOK, At, IsStore, Phase, s3_put_throttled, Whole
    <2>3. Shape'
      BY <1>1, <2>1, <2>2 DEF Shape, FileOK, StoreOK
    <2>4. Phase'
      BY <1>1, <1>3, <2>1, <2>2 DEF UploadInv, FileOK, JobOK, Phase, FS, small, InOp, At
    <2>5. Count'
      BY <1>1, <1>3, <2>1, <2>2, UploadAssumption
         DEF UploadInv, FileOK, JobOK, Count, FS, small, At, Phase, Size, PartLen
    <2>6. Place'
      BY <1>1, <1>3, <2>1, <2>2 DEF UploadInv, FileOK, JobOK, Place, FS, small, At, Phase, Count
    <2>7. Torn'
      BY <1>1, <1>3, <2>1, <2>2, UploadAssumption
         DEF UploadInv, FileOK, JobOK, Torn, FS, small, At, Phase, Count
    <2> QED
      BY <2>3, <2>4, <2>5, <2>6, <2>7 DEF UploadInv
  <1> QED
    BY <1>2, <1>3 DEF Answer, history

LEMMA completeKeeps == UploadInv /\ complete => UploadInv'
  <1> SUFFICES ASSUME UploadInv, complete PROVE UploadInv'
    OBVIOUS
  <1>1. At("complete") /\ file' = file /\ rebooted' = rebooted /\ FileOK /\ JobOK /\ IsStore(store)
    BY DEF UploadInv, Shape, StoreOK, complete, history
  <1>2. CASE store' = complete_multipart(store, Id, Upto(job.attempt, job.sent)) /\ To("ok")
    <2>1. Upto(job.attempt, job.sent) = Body(file, job.attempt, file.len)
      BY <1>1, UptoIsBody DEF UploadInv, Count, At
    <2>2. LET new == complete_multipart(store, Id, Upto(job.attempt, job.sent))
          IN  IsStore(new) /\ new.obj = (IF FS THEN store.obj ELSE {Upto(job.attempt, job.sent)}) /\ new.unstable \in {{}, store.unstable}
      BY <1>1, CompleteEffect
    <2>3. JobOK' /\ job'.pc = "ok" /\ job'.attempt = job.attempt /\ job'.sent = job.sent /\
          job'.body = job.body /\ job'.hung = job.hung
      BY <1>1, <1>2, UploadAssumption DEF UploadInv, Shape, StoreOK, JobOK, At, FileOK, To
    <2>4. IsStore(store') /\ store'.unstable \in {{}, store.unstable} /\
          store'.obj = IF FS THEN store.obj ELSE {Body(file, job.attempt, file.len)}
      BY <1>1, <1>2, <2>1, <2>2
    <2>5. Shape'
      BY <1>1, <2>3, <2>4 DEF Shape, FileOK, StoreOK
    <2>6. Phase'
      BY <1>1, <1>2, <2>3, <2>4, <2>1, <2>2 DEF UploadInv, FileOK, JobOK, Phase, FS, small, InOp, At
    <2>7. Count'
      BY <1>1, <1>2, <2>3, <2>4, <2>1, <2>2, UploadAssumption
         DEF UploadInv, FileOK, JobOK, Count, FS, small, At, Phase, Size, PartLen
    <2>8. Place'
      BY <1>1, <1>2, <2>3, <2>4, <2>1, <2>2 DEF UploadInv, FileOK, JobOK, Place, FS, small, At, Phase, Count
    <2>9. Torn'
      BY <1>1, <1>2, <2>3, <2>4, <2>1, <2>2, UploadAssumption
         DEF UploadInv, FileOK, JobOK, Torn, FS, small, At, Phase, Count
    <2> QED
      BY <2>5, <2>6, <2>7, <2>8, <2>9 DEF UploadInv
  <1>3. CASE Fault /\
             store' \in {complete_multipart(store, Id, Upto(job.attempt, job.sent)), Closed(store, Id)} /\
             To("abort")
    <2>1. Upto(job.attempt, job.sent) = Body(file, job.attempt, file.len)
      BY <1>1, UptoIsBody DEF UploadInv, Count, At
    <2>2. LET new == complete_multipart(store, Id, Upto(job.attempt, job.sent))
          IN  IsStore(new) /\ new.obj = (IF FS THEN store.obj ELSE {Upto(job.attempt, job.sent)}) /\ new.unstable \in {{}, store.unstable}
      BY <1>1, CompleteEffect
    <2>3. JobOK' /\ job'.pc = "abort" /\ job'.attempt = job.attempt /\ job'.sent = job.sent /\
          job'.body = job.body /\ job'.hung = job.hung
      BY <1>1, <1>3, UploadAssumption DEF UploadInv, Shape, StoreOK, JobOK, At, FileOK, To
    <2>4. IsStore(store') /\ store'.unstable \in {{}, store.unstable} /\
          (~FS => store'.obj \in {store.obj, {Body(file, job.attempt, file.len)}})
      BY <1>1, <1>3, <2>1, <2>2, ClosedEffect
    <2>5. Shape'
      BY <1>1, <2>3, <2>4 DEF Shape, FileOK, StoreOK
    <2>6. Phase'
      BY <1>1, <1>3, <2>3, <2>4, <2>1, <2>2 DEF UploadInv, FileOK, JobOK, Phase, FS, small, InOp, At
    <2>7. Count'
      BY <1>1, <1>3, <2>3, <2>4, <2>1, <2>2, UploadAssumption
         DEF UploadInv, FileOK, JobOK, Count, FS, small, At, Phase, Size, PartLen
    <2>8. Place'
      BY <1>1, <1>3, <2>3, <2>4, <2>1, <2>2 DEF UploadInv, FileOK, JobOK, Place, FS, small, At, Phase, Count
    <2>9. Torn'
      BY <1>1, <1>3, <2>3, <2>4, <2>1, <2>2, UploadAssumption
         DEF UploadInv, FileOK, JobOK, Torn, FS, small, At, Phase, Count
    <2> QED
      BY <2>5, <2>6, <2>7, <2>8, <2>9 DEF UploadInv
  <1> QED
    BY <1>2, <1>3 DEF complete, history

LEMMA abortKeeps == UploadInv /\ abort => UploadInv'
  <1> SUFFICES ASSUME UploadInv, abort PROVE UploadInv'
    OBVIOUS
  <1>1. Shape'
    BY UploadAssumption, AbortEffect, ClosedEffect
       DEF UploadInv, Shape, FileOK, JobOK, StoreOK, IsStore, abort, At, To, Fault, bounds, Id
  <1>2. Phase'
    BY UploadAssumption, AbortEffect, ClosedEffect
       DEF UploadInv, Shape, FileOK, JobOK, StoreOK, IsStore, Phase, FS, small, InOp, abort, At, To, Fault,
           bounds, Id
  <1>3. Count'
    BY UploadAssumption, AbortEffect, ClosedEffect
       DEF UploadInv, Shape, FileOK, JobOK, StoreOK, IsStore, Phase, InOp, Count, FS, small, Size, PartLen,
           abort, At, To, Fault, bounds, Id
  <1>4. Place'
    BY UploadAssumption, AbortEffect, ClosedEffect
       DEF UploadInv, Shape, FileOK, JobOK, StoreOK, IsStore, Phase, InOp, Count, Place, FS, small, Size,
           PartLen, abort, At, To, Fault, bounds, Id
  <1>5. Torn'
    BY UploadAssumption, AbortEffect, ClosedEffect
       DEF UploadInv, Shape, FileOK, JobOK, StoreOK, IsStore, Phase, InOp, Count, Torn, FS, small, Size,
           PartLen, abort, At, To, Fault, bounds, Id
  <1> QED
    BY <1>1, <1>2, <1>3, <1>4, <1>5 DEF UploadInv

LEMMA RetryKeeps == UploadInv /\ Retry => UploadInv'
  <1> SUFFICES ASSUME UploadInv, Retry PROVE UploadInv'
    OBVIOUS
  <1>1. Shape'
    BY UploadAssumption DEF UploadInv, Shape, FileOK, JobOK, StoreOK, IsStore, Retry, To, history
  <1>2. Phase'
    BY UploadAssumption
       DEF UploadInv, Shape, FileOK, JobOK, StoreOK, IsStore, Phase, FS, small, InOp, Retry, To, history
  <1>3. Count'
    BY UploadAssumption
       DEF UploadInv, Shape, FileOK, JobOK, StoreOK, IsStore, Phase, InOp, Count, FS, small, Size, PartLen,
           Retry, To, history
  <1>4. Place'
    BY UploadAssumption
       DEF UploadInv, Shape, FileOK, JobOK, StoreOK, IsStore, Phase, InOp, Count, Place, FS, small, Size,
           PartLen, Retry, To, history
  <1>5. Torn'
    BY UploadAssumption
       DEF UploadInv, Shape, FileOK, JobOK, StoreOK, IsStore, Phase, InOp, Count, Torn, FS, small, Size,
           PartLen, Retry, To, history
  <1> QED
    BY <1>1, <1>2, <1>3, <1>4, <1>5 DEF UploadInv

LEMMA PollKeeps == UploadInv /\ Poll => UploadInv'
  <1> SUFFICES ASSUME UploadInv, Poll PROVE UploadInv'
    OBVIOUS
  <1>1. Shape'
    BY UploadAssumption DEF UploadInv, Shape, FileOK, JobOK, StoreOK, IsStore, Poll, history
  <1>2. Phase'
    BY UploadAssumption
       DEF UploadInv, Shape, FileOK, JobOK, StoreOK, IsStore, Phase, FS, small, InOp, Poll, history
  <1>3. Count'
    BY UploadAssumption
       DEF UploadInv, Shape, FileOK, JobOK, StoreOK, IsStore, Phase, InOp, Count, FS, small, Size, PartLen,
           Poll, history
  <1>4. Place'
    BY UploadAssumption
       DEF UploadInv, Shape, FileOK, JobOK, StoreOK, IsStore, Phase, InOp, Count, Place, FS, small, Size,
           PartLen, Poll, history
  <1>5. Torn'
    BY UploadAssumption
       DEF UploadInv, Shape, FileOK, JobOK, StoreOK, IsStore, Phase, InOp, Count, Torn, FS, small, Size,
           PartLen, Poll, history
  <1> QED
    BY <1>1, <1>2, <1>3, <1>4, <1>5 DEF UploadInv

LEMMA StalledKeeps == UploadInv /\ Stalled => UploadInv'
  <1> SUFFICES ASSUME UploadInv, Stalled PROVE UploadInv'
    OBVIOUS
  <1>1. Shape'
    BY UploadAssumption DEF UploadInv, Shape, FileOK, JobOK, StoreOK, IsStore, Stalled, InOp
  <1>2. Phase'
    BY UploadAssumption DEF UploadInv, Shape, FileOK, JobOK, StoreOK, IsStore, Phase, FS, small, InOp, Stalled
  <1>3. Count'
    BY UploadAssumption
       DEF UploadInv, Shape, FileOK, JobOK, StoreOK, IsStore, Phase, InOp, Count, FS, small, Size, PartLen,
           Stalled
  <1>4. Place'
    BY UploadAssumption
       DEF UploadInv, Shape, FileOK, JobOK, StoreOK, IsStore, Phase, InOp, Count, Place, FS, small, Size,
           PartLen, Stalled
  <1>5. Torn'
    BY UploadAssumption
       DEF UploadInv, Shape, FileOK, JobOK, StoreOK, IsStore, Phase, InOp, Count, Torn, FS, small, Size,
           PartLen, Stalled
  <1> QED
    BY <1>1, <1>2, <1>3, <1>4, <1>5 DEF UploadInv

LEMMA with_timeoutKeeps == UploadInv /\ with_timeout => UploadInv'
  <1> SUFFICES ASSUME UploadInv, with_timeout PROVE UploadInv'
    OBVIOUS
  <1>1. Shape'
    BY UploadAssumption, FailedEffect, ClosedEffect
       DEF UploadInv, Shape, FileOK, JobOK, StoreOK, IsStore, with_timeout, Id
  <1>2. Phase'
    BY UploadAssumption, FailedEffect, ClosedEffect
       DEF UploadInv, Shape, FileOK, JobOK, StoreOK, IsStore, Phase, FS, small, InOp, with_timeout, Id
  <1>3. Count'
    BY UploadAssumption, FailedEffect, ClosedEffect
       DEF UploadInv, Shape, FileOK, JobOK, StoreOK, IsStore, Phase, InOp, Count, FS, small, Size, PartLen,
           with_timeout, Id
  <1>4. Place'
    BY UploadAssumption, FailedEffect, ClosedEffect
       DEF UploadInv, Shape, FileOK, JobOK, StoreOK, IsStore, Phase, InOp, Count, Place, FS, small, Size,
           PartLen, with_timeout, Id
  <1>5. Torn'
    BY UploadAssumption, FailedEffect, ClosedEffect
       DEF UploadInv, Shape, FileOK, JobOK, StoreOK, IsStore, Phase, InOp, Count, Torn, FS, small, Size,
           PartLen, with_timeout, Id
  <1> QED
    BY <1>1, <1>2, <1>3, <1>4, <1>5 DEF UploadInv

LEMMA HangKeeps == UploadInv /\ Hang => UploadInv'
  <1> SUFFICES ASSUME UploadInv, Hang PROVE UploadInv'
    OBVIOUS
  <1>1. Shape'
    BY UploadAssumption DEF UploadInv, Shape, FileOK, JobOK, StoreOK, IsStore, Hang, InOp, Fault, history
  <1>2. Phase'
    BY UploadAssumption
       DEF UploadInv, Shape, FileOK, JobOK, StoreOK, IsStore, Phase, FS, small, InOp, Hang, Fault, history
  <1>3. Count'
    BY UploadAssumption
       DEF UploadInv, Shape, FileOK, JobOK, StoreOK, IsStore, Phase, InOp, Count, FS, small, Size, PartLen,
           Hang, Fault, history
  <1>4. Place'
    BY UploadAssumption
       DEF UploadInv, Shape, FileOK, JobOK, StoreOK, IsStore, Phase, InOp, Count, Place, FS, small, Size,
           PartLen, Hang, Fault, history
  <1>5. Torn'
    BY UploadAssumption
       DEF UploadInv, Shape, FileOK, JobOK, StoreOK, IsStore, Phase, InOp, Count, Torn, FS, small, Size,
           PartLen, Hang, Fault, history
  <1> QED
    BY <1>1, <1>2, <1>3, <1>4, <1>5 DEF UploadInv

LEMMA CancelKeeps == UploadInv /\ Cancel => UploadInv'
  <1> SUFFICES ASSUME UploadInv, Cancel PROVE UploadInv'
    OBVIOUS
  <1>1. Shape'
    BY UploadAssumption DEF UploadInv, Shape, FileOK, JobOK, StoreOK, IsStore, Cancel, history
  <1>2. Phase'
    BY UploadAssumption
       DEF UploadInv, Shape, FileOK, JobOK, StoreOK, IsStore, Phase, FS, small, InOp, Cancel, history
  <1>3. Count'
    BY UploadAssumption
       DEF UploadInv, Shape, FileOK, JobOK, StoreOK, IsStore, Phase, InOp, Count, FS, small, Size, PartLen,
           Cancel, history
  <1>4. Place'
    BY UploadAssumption
       DEF UploadInv, Shape, FileOK, JobOK, StoreOK, IsStore, Phase, InOp, Count, Place, FS, small, Size,
           PartLen, Cancel, history
  <1>5. Torn'
    BY UploadAssumption
       DEF UploadInv, Shape, FileOK, JobOK, StoreOK, IsStore, Phase, InOp, Count, Torn, FS, small, Size,
           PartLen, Cancel, history
  <1> QED
    BY <1>1, <1>2, <1>3, <1>4, <1>5 DEF UploadInv

LEMMA SetRateKeeps == UploadInv /\ SetRate => UploadInv'
  <1> SUFFICES ASSUME UploadInv, SetRate PROVE UploadInv'
    OBVIOUS
  <1>1. Shape'
    BY UploadAssumption DEF UploadInv, Shape, FileOK, JobOK, StoreOK, IsStore, SetRate, history
  <1>2. Phase'
    BY UploadAssumption
       DEF UploadInv, Shape, FileOK, JobOK, StoreOK, IsStore, Phase, FS, small, InOp, SetRate, history
  <1>3. Count'
    BY UploadAssumption
       DEF UploadInv, Shape, FileOK, JobOK, StoreOK, IsStore, Phase, InOp, Count, FS, small, Size, PartLen,
           SetRate, history
  <1>4. Place'
    BY UploadAssumption
       DEF UploadInv, Shape, FileOK, JobOK, StoreOK, IsStore, Phase, InOp, Count, Place, FS, small, Size,
           PartLen, SetRate, history
  <1>5. Torn'
    BY UploadAssumption
       DEF UploadInv, Shape, FileOK, JobOK, StoreOK, IsStore, Phase, InOp, Count, Torn, FS, small, Size,
           PartLen, SetRate, history
  <1> QED
    BY <1>1, <1>2, <1>3, <1>4, <1>5 DEF UploadInv

LEMMA ServerRestartKeeps == UploadInv /\ ServerRestart => UploadInv'
  <1> SUFFICES ASSUME UploadInv, ServerRestart PROVE UploadInv'
    OBVIOUS
  <1>1. Shape'
    BY UploadAssumption DEF UploadInv, Shape, FileOK, JobOK, StoreOK, IsStore, ServerRestart, InOp, Fault
  <1>2. Phase'
    BY UploadAssumption
       DEF UploadInv, Shape, FileOK, JobOK, StoreOK, IsStore, Phase, FS, small, InOp, ServerRestart, Fault
  <1>3. Count'
    BY UploadAssumption
       DEF UploadInv, Shape, FileOK, JobOK, StoreOK, IsStore, Phase, InOp, Count, FS, small, Size, PartLen,
           ServerRestart, Fault
  <1>4. Place'
    BY UploadAssumption
       DEF UploadInv, Shape, FileOK, JobOK, StoreOK, IsStore, Phase, InOp, Count, Place, FS, small, Size,
           PartLen, ServerRestart, Fault
  <1>5. Torn'
    BY UploadAssumption
       DEF UploadInv, Shape, FileOK, JobOK, StoreOK, IsStore, Phase, InOp, Count, Torn, FS, small, Size,
           PartLen, ServerRestart, Fault
  <1> QED
    BY <1>1, <1>2, <1>3, <1>4, <1>5 DEF UploadInv

LEMMA CrashKeeps == UploadInv /\ Crash => UploadInv'
  <1> SUFFICES ASSUME UploadInv, Crash PROVE UploadInv'
    OBVIOUS
  <1>1. Shape'
    BY UploadAssumption DEF UploadInv, Shape, FileOK, JobOK, StoreOK, IsStore, Crash, InOp, Fault
  <1>2. Phase'
    BY UploadAssumption
       DEF UploadInv, Shape, FileOK, JobOK, StoreOK, IsStore, Phase, FS, small, InOp, Crash, Fault
  <1>3. Count'
    BY UploadAssumption
       DEF UploadInv, Shape, FileOK, JobOK, StoreOK, IsStore, Phase, InOp, Count, FS, small, Size, PartLen,
           Crash, Fault
  <1>4. Place'
    BY UploadAssumption
       DEF UploadInv, Shape, FileOK, JobOK, StoreOK, IsStore, Phase, InOp, Count, Place, FS, small, Size,
           PartLen, Crash, Fault
  <1>5. Torn'
    BY UploadAssumption
       DEF UploadInv, Shape, FileOK, JobOK, StoreOK, IsStore, Phase, InOp, Count, Torn, FS, small, Size,
           PartLen, Crash, Fault
  <1> QED
    BY <1>1, <1>2, <1>3, <1>4, <1>5 DEF UploadInv

LEMMA InitHolds == Init => UploadInv
  <1> SUFFICES ASSUME Init PROVE UploadInv
    OBVIOUS
  <1>1. job = NewJob /\ rebooted = FALSE /\ store.unstable = {} /\ StoreOK /\ (store.obj = {} \/ store.obj = {Old})
    BY DEF Init, StoreOK, IsStore
  <1>2. FileOK
    <2>1. PICK kind \in Kinds, e \in Modes, n \in Lengths :
             \E plain \in IF e /\ n > 1 THEN {n, n - 1} ELSE {n} :
                file = [kind |-> kind, e2ee |-> e, len |-> n, plain |-> plain]
      BY DEF Init
    <2>2. e \in BOOLEAN /\ n \in Nat \ {0}
      BY UploadAssumption
    <2> QED
      BY <2>1, <2>2 DEF FileOK
  <1>3. JobOK /\ job.pc = "start" /\ job.attempt = 0 /\ job.sent = 0 /\ job.hung = FALSE
    BY <1>1 DEF NewJob, JobOK
  <1> QED
    BY <1>1, <1>2, <1>3, UploadAssumption
       DEF UploadInv, Shape, FileOK, Phase, Count, Place, Torn

LEMMA StepHolds == UploadInv /\ [Next]_vars => UploadInv'
  <1> SUFFICES ASSUME UploadInv, [Next]_vars PROVE UploadInv'
    OBVIOUS
  <1>1. CASE Task
    BY <1>1, StartKeeps, prepare_parentsKeeps, PutOpenKeeps, PutCloseKeeps, createKeeps, ReadPartKeeps,
       upload_partKeeps, throttled_bytestreamKeeps, WriteChunkKeeps, PacedBodyKeeps, AnswerKeeps, completeKeeps, abortKeeps, RetryKeeps DEF Task
  <1>2. CASE Guard
    BY <1>2, PollKeeps, StalledKeeps, with_timeoutKeeps DEF Guard
  <1>3. CASE Hang \/ Cancel \/ SetRate \/ ServerRestart \/ Crash
    BY <1>3, HangKeeps, CancelKeeps, SetRateKeeps, ServerRestartKeeps, CrashKeeps
  <1>4. CASE UNCHANGED vars
    BY <1>4 DEF vars, history, UploadInv, Shape, FileOK, JobOK, StoreOK, IsStore, Phase, InOp, Count, Place,
                Torn, FS, small, Size, PartLen
  <1> QED
    BY <1>1, <1>2, <1>3, <1>4 DEF Next

\* The inductive invariant of upload_one, upload_small and upload_multipart: how far the
\* attempt is, and what the backend has of it.
THEOREM UploadInvariant == Spec => []UploadInv
  BY InitHolds, StepHolds, PTL DEF Spec

-----------------------------------------------------------------------------

\* Whatever fails, hangs, is retried, cancelled or sent twice, an upload that
\* reports success (upload_small, upload_multipart of any backend) has left at the
\* key the whole body that its last attempt sealed, unless an NFS server lost writes.
THEOREM UploadSucceedsWhole == Spec => []SuccessIsWhole
  <1>1. UploadInv => SuccessIsWhole
    BY UptoIsBody DEF UploadInv, Place, Torn, SuccessIsWhole, Whole
  <1> QED
    BY <1>1, UploadInvariant, PTL

\* On S3 nobody ever reads a part of an upload or a mix of two attempts: put_object
\* and complete_multipart_upload replace the object in one step, and are only
\* called with the whole body.
THEOREM S3ReaderNeverTorn == Spec => []S3NeverTorn
  <1>1. UploadInv => S3NeverTorn
    BY UptoIsBody DEF UploadInv, Torn, S3NeverTorn, Wholes, Whole, FS
  <1> QED
    BY <1>1, UploadInvariant, PTL

-----------------------------------------------------------------------------
(* What is credited to the file.                                             *)

Pcs == {"start", "prepare", "put", "write", "close", "create", "read", "part", "stream", "complete",
        "abort", "failed", "ok", "err"}

\* The types of the counters; what guard_stall saw was there.
Metered == /\ DOMAIN meter = {"done", "seen", "armed"} /\ meter.done \in Nat /\ meter.seen \in Nat
           /\ meter.seen <= meter.done
           /\ job.high \in Nat /\ job.body <= file.len /\ file.plain <= file.len
           /\ job.pc \in Pcs

\* What was credited is what was sent: chunk by chunk by a file system and by a paced
\* body up to its high-water mark, part by part otherwise, and a small file at its end.
Credit ==
    /\ meter.done <= file.len
    /\ small => /\ InOp /\ job.pc # "abort" => meter.done = 0
                /\ job.pc = "ok" => meter.done = file.plain
    /\ ~small => /\ job.pc \in {"prepare", "create", "read", "part", "complete"} => meter.done = job.sent
                 /\ job.pc = "write" => meter.done = job.sent + job.body
                 /\ job.pc = "stream" => /\ job.throttled = job.paced /\ job.body <= job.high /\ job.high <= Size
                                         /\ meter.done = job.sent + (IF job.paced THEN job.high ELSE 0)
                 /\ job.pc = "ok" => meter.done = file.len

MeterInv == Metered /\ (~toggled => Credit)

\* What is left of the file, or of a part of it.
LEMMA SizeFacts ==
  ASSUME UploadInv
  PROVE  /\ Size \in Nat /\ Size <= file.len /\ file.len \in Nat \ {0} /\ file.plain \in Nat
         /\ job.sent \in Nat /\ job.body \in Nat /\ job.sent <= file.len
         /\ small => Size = file.len
         /\ ~small => job.sent + Size <= file.len
  <1>1. /\ file.len \in Nat \ {0} /\ file.plain \in Nat /\ job.sent \in Nat /\ job.body \in Nat
        /\ job.sent <= file.len
    BY DEF UploadInv, Shape, FileOK, JobOK, Count
  <1> QED
    BY <1>1, UploadAssumption DEF Size, PartLen

LEMMA ToEffect ==
  ASSUME JobOK, NEW p, To(p)
  PROVE  /\ job'.pc = p /\ job'.attempt = job.attempt /\ job'.sent = job.sent /\ job'.body = job.body
         /\ job'.high = job.high /\ job'.throttled = job.throttled /\ job'.paced = job.paced
  BY DEF JobOK, To

LEMMA TickEffect ==
  ASSUME Metered, NEW n \in Nat, Ticks(n)
  PROVE  /\ meter'.done = meter.done + n /\ meter'.seen = meter.seen
         /\ DOMAIN meter' = {"done", "seen", "armed"} /\ meter'.done \in Nat /\ meter'.seen \in Nat
         /\ meter'.seen <= meter'.done
  <1>1. meter' = [meter EXCEPT !.done = @ + n]
    BY DEF Ticks
  <1>2. meter'.done = meter.done + n /\ meter'.seen = meter.seen /\ DOMAIN meter' = {"done", "seen", "armed"}
    BY <1>1 DEF Metered
  <1> QED
    BY <1>2 DEF Metered

\* Once the attempt is over or is being cleaned up, only a bound is said.
LEMMA MeterRests ==
  ASSUME MeterInv, UNCHANGED <<file, meter, toggled>>, job'.pc \in {"failed", "abort", "err", "start"},
         job'.body = job.body, job'.high = job.high
  PROVE  MeterInv'
  <1>1. Metered'
    BY DEF MeterInv, Metered, Pcs
  <1>2. ~toggled' => Credit'
    BY DEF MeterInv, Credit, small, InOp
  <1> QED
    BY <1>1, <1>2 DEF MeterInv

\* A step that is not the task's.
LEMMA MeterSame ==
  ASSUME MeterInv, UNCHANGED <<file, toggled>>, meter'.done = meter.done, Metered',
         job'.pc = job.pc, job'.sent = job.sent, job'.body = job.body, job'.high = job.high,
         job'.throttled = job.throttled, job'.paced = job.paced
  PROVE  MeterInv'
  BY DEF MeterInv, Credit, small, InOp, Size, PartLen

LEMMA OthersMeter ==
  ASSUME UploadInv, MeterInv, Hang \/ Cancel \/ SetRate \/ ServerRestart \/ Poll \/ UNCHANGED vars
  PROVE  MeterInv'
  <1>1. UNCHANGED <<file, toggled>>
    BY DEF Hang, Cancel, SetRate, ServerRestart, Poll, vars, history
  <1>2. /\ job'.pc = job.pc /\ job'.sent = job.sent /\ job'.body = job.body /\ job'.high = job.high
        /\ job'.throttled = job.throttled /\ job'.paced = job.paced
    BY DEF Hang, Cancel, SetRate, ServerRestart, Poll, vars, UploadInv, Shape, JobOK
  <1>3. meter'.done = meter.done /\ Metered'
    <2>1. CASE meter' = meter
      BY <1>1, <1>2, <2>1 DEF MeterInv, Metered
    <2>2. CASE Poll
      <3>1. /\ DOMAIN meter = {"done", "seen", "armed"} /\ meter.done \in Nat /\ meter.seen \in Nat
            /\ meter.seen <= meter.done
        BY DEF MeterInv, Metered
      <3>2. \/ meter' = [meter EXCEPT !.armed = TRUE]
            \/ meter' = [meter EXCEPT !.seen = meter.done, !.armed = FALSE]
        BY <2>2 DEF Poll
      <3>3. /\ DOMAIN meter' = {"done", "seen", "armed"} /\ meter'.done = meter.done
            /\ meter'.seen \in {meter.seen, meter.done}
        BY <3>1, <3>2
      <3> QED
        BY <1>1, <1>2, <3>1, <3>3 DEF MeterInv, Metered
    <2> QED
      BY <2>1, <2>2 DEF Hang, Cancel, SetRate, ServerRestart, vars
  <1> QED
    BY <1>1, <1>2, <1>3, MeterSame

LEMMA EndsMeter ==
  ASSUME UploadInv, MeterInv, abort \/ Retry \/ Stalled \/ with_timeout \/ Crash
  PROVE  MeterInv'
  <1>1. UNCHANGED <<file, meter, toggled>>
    BY DEF abort, Retry, Stalled, with_timeout, Crash, history
  <1>2. JobOK
    BY DEF UploadInv, Shape
  <1>3. job'.pc \in {"failed", "abort", "err", "start"} /\ job'.body = job.body /\ job'.high = job.high
    <2>1. CASE abort \/ Retry
      BY <1>2, <2>1, ToEffect DEF abort, Retry
    <2>2. CASE Stalled \/ with_timeout \/ Crash
      BY <1>2, <2>2 DEF Stalled, with_timeout, Crash, JobOK
    <2> QED
      BY <2>1, <2>2
  <1> QED
    BY <1>1, <1>3, MeterRests

LEMMA StartMeter ==
  ASSUME UploadInv, MeterInv, Start
  PROVE  MeterInv'
  <1>1. UNCHANGED <<file, toggled>>
    BY DEF Start
  <1>2. CASE To("err") /\ UNCHANGED meter
    BY <1>1, <1>2, ToEffect, MeterRests DEF UploadInv, Shape
  <1>3. CASE /\ job' = [NewJob EXCEPT !.pc = "prepare", !.attempt = job.attempt + 1]
             /\ meter' = [done |-> 0, seen |-> 0, armed |-> FALSE]
    <2>1. job'.pc = "prepare" /\ job'.sent = 0 /\ job'.body = 0 /\ job'.high = 0
      BY <1>3 DEF NewJob
    <2>2. meter'.done = 0 /\ meter'.seen = 0 /\ DOMAIN meter' = {"done", "seen", "armed"}
      BY <1>3
    <2>3. Metered'
      BY <1>1, <2>1, <2>2, SizeFacts DEF MeterInv, Metered, Pcs
    <2>4. Credit'
      BY <1>1, <2>1, <2>2, SizeFacts DEF Credit
    <2> QED
      BY <2>3, <2>4 DEF MeterInv
  <1> QED
    BY <1>2, <1>3 DEF Start

\* A step to the next phase that sends nothing.
LEMMA PassMeter ==
  ASSUME UploadInv, MeterInv, UNCHANGED <<file, meter, toggled>>, NEW p \in Pcs, To(p),
         \/ job.pc = "prepare" /\ p = IF ~small THEN "create" ELSE IF FS THEN "put" ELSE "stream"
         \/ job.pc = "put" /\ p = "write"
         \/ job.pc = "create" /\ p = "read"
         \/ job.pc = "read" /\ p \in {"complete", "part"}
         \/ job.pc = "complete" /\ p = "ok"
  PROVE  MeterInv'
  <1>1. /\ job'.pc = p /\ job'.sent = job.sent /\ job'.body = job.body /\ job'.high = job.high
    BY ToEffect DEF UploadInv, Shape
  <1>2. Metered'
    BY <1>1 DEF MeterInv, Metered
  <1>3. ASSUME ~toggled PROVE Credit'
    <2>1. Credit
      BY <1>3 DEF MeterInv
    <2>2. /\ job.pc = "put" => small
          /\ job.pc \in {"create", "read", "complete"} => ~small
          /\ job.pc = "complete" => job.sent = file.len
      BY DEF UploadInv, Phase, Count
    <2> QED
      BY <1>1, <2>1, <2>2 DEF Credit, small, InOp
  <1> QED
    BY <1>2, <1>3 DEF MeterInv

LEMMA PassesMeter ==
  ASSUME UploadInv, MeterInv, prepare_parents \/ PutOpen \/ create \/ ReadPart \/ complete
  PROVE  MeterInv'
  <1>1. UNCHANGED <<file, meter, toggled>> /\ JobOK
    BY DEF prepare_parents, PutOpen, create, ReadPart, complete, history, UploadInv, Shape
  <1>2. CASE To("failed") \/ To("abort")
    BY <1>1, <1>2, ToEffect, MeterRests
  <1>3. CASE prepare_parents
    <2>1. CASE To(IF ~small THEN "create" ELSE IF FS THEN "put" ELSE "stream")
      <3> DEFINE p == IF ~small THEN "create" ELSE IF FS THEN "put" ELSE "stream"
      <3>1. p \in Pcs /\ job.pc = "prepare" /\ To(p)
        BY <1>3, <2>1 DEF prepare_parents, At, Pcs
      <3> QED
        BY <1>1, <3>1, PassMeter
    <2> QED
      BY <1>2, <1>3, <2>1 DEF prepare_parents
  <1>4. CASE PutOpen /\ To("write")
    BY <1>1, <1>4, PassMeter DEF PutOpen, At, Pcs
  <1>5. CASE create /\ To("read")
    BY <1>1, <1>5, PassMeter DEF create, At, Pcs
  <1>6. CASE ReadPart
    <2>1. CASE To("complete")
      BY <1>1, <1>6, <2>1, PassMeter DEF ReadPart, At, Pcs
    <2>2. CASE To("part")
      BY <1>1, <1>6, <2>2, PassMeter DEF ReadPart, At, Pcs
    <2> QED
      BY <1>2, <1>6, <2>1, <2>2 DEF ReadPart
  <1>7. CASE complete /\ To("ok")
    BY <1>1, <1>7, PassMeter DEF complete, At, Pcs
  <1> QED
    BY <1>2, <1>3, <1>4, <1>5, <1>6, <1>7 DEF PutOpen, create, complete

LEMMA PutCloseMeter ==
  ASSUME UploadInv, MeterInv, PutClose
  PROVE  MeterInv'
  <1>1. UNCHANGED <<file, toggled>> /\ JobOK /\ job.pc = "close" /\ small
    BY DEF PutClose, history, UploadInv, Shape, At, Phase
  <1>2. CASE To("failed") /\ UNCHANGED meter
    BY <1>1, <1>2, ToEffect, MeterRests
  <1>3. CASE To("ok") /\ Ticks(file.plain)
    <2>1. job'.pc = "ok" /\ job'.body = job.body /\ job'.high = job.high
      BY <1>1, <1>3, ToEffect
    <2>2. /\ meter'.done = meter.done + file.plain
          /\ DOMAIN meter' = {"done", "seen", "armed"} /\ meter'.done \in Nat /\ meter'.seen \in Nat
          /\ meter'.seen <= meter'.done
      BY <1>3, SizeFacts, TickEffect DEF MeterInv
    <2>3. Metered'
      BY <1>1, <2>1, <2>2 DEF MeterInv, Metered, Pcs
    <2>4. ASSUME ~toggled PROVE Credit'
      <3>1. meter.done = 0 /\ file.plain <= file.len
        BY <1>1, <2>4 DEF MeterInv, Metered, Credit, InOp
      <3> QED
        BY <1>1, <2>1, <2>2, <3>1, SizeFacts DEF Credit, small, InOp
    <2> QED
      BY <1>1, <2>3, <2>4 DEF MeterInv
  <1> QED
    BY <1>2, <1>3 DEF PutClose

LEMMA PartMeter ==
  ASSUME UploadInv, MeterInv, upload_part
  PROVE  MeterInv'
  <1>1. UNCHANGED <<file, meter, toggled>> /\ JobOK /\ job.pc = "part" /\ ~small
    BY DEF upload_part, history, UploadInv, Shape, At, Phase
  <1>2. /\ job'.sent = job.sent /\ job'.body = 0 /\ job'.high \in {0, job.high}
        /\ job'.pc \in {"write", "stream"}
        /\ job'.pc = "stream" => job'.high = 0 /\ job'.throttled = job'.paced
    BY <1>1 DEF upload_part, JobOK
  <1>3. Metered'
    BY <1>1, <1>2, SizeFacts DEF MeterInv, Metered, Pcs
  <1>4. ASSUME ~toggled PROVE Credit'
    <2>1. meter.done = job.sent /\ meter.done <= file.len
      BY <1>1, <1>4 DEF MeterInv, Credit
    <2>2. Size' = Size /\ small' = small
      BY <1>1, <1>2 DEF Size, PartLen, small
    <2> QED
      BY <1>1, <1>2, <2>1, <2>2, SizeFacts DEF Credit
  <1> QED
    BY <1>1, <1>3, <1>4 DEF MeterInv

LEMMA StreamMeter ==
  ASSUME UploadInv, MeterInv, throttled_bytestream
  PROVE  MeterInv'
  <1>1. UNCHANGED <<file, meter>> /\ toggled' /\ job'.pc = job.pc /\ job'.body = job.body /\ job'.high = job.high
    BY DEF throttled_bytestream, UploadInv, Shape, JobOK
  <1> QED
    BY <1>1 DEF MeterInv, Metered

LEMMA WriteMeter ==
  ASSUME UploadInv, MeterInv, WriteChunk
  PROVE  MeterInv'
  <1>1. UNCHANGED <<file, toggled>> /\ JobOK /\ job.pc = "write"
    BY DEF WriteChunk, UploadInv, Shape, At
  <1>2. CASE job.body < Size /\ job' = [job EXCEPT !.body = @ + 1] /\ IF small THEN UNCHANGED meter ELSE Ticks(1)
    <2>1. job'.pc = "write" /\ job'.sent = job.sent /\ job'.body = job.body + 1 /\ job'.high = job.high
      BY <1>1, <1>2 DEF JobOK
    <2>2. /\ meter'.done = meter.done + (IF small THEN 0 ELSE 1)
          /\ DOMAIN meter' = {"done", "seen", "armed"} /\ meter'.done \in Nat /\ meter'.seen \in Nat
          /\ meter'.seen <= meter'.done
      <3>1. CASE small
        BY <1>2, <3>1 DEF MeterInv, Metered
      <3>2. CASE ~small
        BY <1>2, <3>2, TickEffect DEF MeterInv
      <3> QED
        BY <3>1, <3>2
    <2>3. Metered'
      BY <1>1, <1>2, <2>1, <2>2, SizeFacts DEF MeterInv, Metered, Pcs
    <2>4. ASSUME ~toggled PROVE Credit'
      <3>1. CASE small
        <4>1. meter.done = 0
          BY <1>1, <2>4, <3>1 DEF MeterInv, Credit, InOp
        <4> QED
          BY <1>1, <2>1, <2>2, <3>1, <4>1, SizeFacts DEF Credit, small, InOp
      <3>2. CASE ~small
        <4>1. meter.done = job.sent + job.body
          BY <1>1, <2>4, <3>2 DEF MeterInv, Credit
        <4>2. meter'.done = job'.sent + job'.body /\ meter'.done <= file.len
          BY <1>2, <2>1, <2>2, <3>2, <4>1, SizeFacts
        <4> QED
          BY <1>1, <2>1, <3>2, <4>2 DEF Credit, small
      <3> QED
        BY <3>1, <3>2
    <2> QED
      BY <1>1, <2>3, <2>4 DEF MeterInv
  <1>3. CASE /\ job.body = Size /\ job' = [job EXCEPT !.pc = IF small THEN "close" ELSE "read", !.sent = @ + Size]
             /\ UNCHANGED meter
    <2>1. /\ job'.pc = (IF small THEN "close" ELSE "read") /\ job'.sent = job.sent + Size
          /\ job'.body = job.body /\ job'.high = job.high
      BY <1>1, <1>3 DEF JobOK
    <2>2. Metered'
      BY <1>1, <1>3, <2>1 DEF MeterInv, Metered, Pcs
    <2>3. ASSUME ~toggled PROVE Credit'
      <3>1. CASE small
        BY <1>1, <1>3, <2>1, <2>3, <3>1 DEF MeterInv, Credit, InOp, small
      <3>2. CASE ~small
        <4>1. meter.done = job.sent + job.body /\ meter.done <= file.len
          BY <1>1, <2>3, <3>2 DEF MeterInv, Credit
        <4>2. meter'.done = job'.sent /\ job'.pc = "read"
          BY <1>3, <2>1, <3>2, <4>1
        <4> QED
          BY <1>1, <1>3, <3>2, <4>1, <4>2 DEF Credit, small
      <3> QED
        BY <3>1, <3>2
    <2> QED
      BY <1>1, <2>2, <2>3 DEF MeterInv
  <1>4. CASE To(IF small THEN "failed" ELSE "abort") /\ UNCHANGED meter
    <2>1. job'.pc \in {"failed", "abort", "err", "start"} /\ job'.body = job.body /\ job'.high = job.high
      BY <1>1, <1>4, ToEffect
    <2> QED
      BY <1>1, <1>4, <2>1, MeterRests
  <1> QED
    BY <1>2, <1>3, <1>4 DEF WriteChunk

LEMMA PacedMeter ==
  ASSUME UploadInv, MeterInv, PacedBody
  PROVE  MeterInv'
  <1>1. UNCHANGED <<file, toggled>> /\ JobOK /\ job.pc = "stream" /\ job.high \in Nat
    BY DEF PacedBody, UploadInv, Shape, At, MeterInv, Metered
  <1>2. CASE /\ job.body < Size
             /\ job' = [job EXCEPT !.body = @ + 1, !.high = IF job.body + 1 > @ THEN job.body + 1 ELSE @]
             /\ IF small \/ ~job.paced THEN UNCHANGED meter ELSE Ticks(PacedCredit(job.body + 1))
    <2> DEFINE top == IF job.body + 1 > job.high THEN job.body + 1 ELSE job.high
    <2>1. /\ job'.pc = "stream" /\ job'.sent = job.sent /\ job'.body = job.body + 1 /\ job'.high = top
          /\ job'.throttled = job.throttled /\ job'.paced = job.paced
      BY <1>1, <1>2 DEF JobOK
    <2>2. top \in Nat /\ top >= job.body + 1 /\ top >= job.high /\ PacedCredit(job.body + 1) = top - job.high
      BY <1>1, SizeFacts DEF PacedCredit
    <2>3. top - job.high \in Nat
      BY <1>1, <2>2
    <2> HIDE DEF top
    <2>4. /\ meter'.done = meter.done + (IF small \/ ~job.paced THEN 0 ELSE top - job.high)
          /\ DOMAIN meter' = {"done", "seen", "armed"} /\ meter'.done \in Nat /\ meter'.seen \in Nat
          /\ meter'.seen <= meter'.done
      <3>1. CASE small \/ ~job.paced
        BY <1>2, <3>1 DEF MeterInv, Metered
      <3>2. CASE ~(small \/ ~job.paced)
        <4>1. Ticks(top - job.high)
          BY <1>2, <2>2, <3>2
        <4> QED
          BY <2>3, <3>2, <4>1, TickEffect DEF MeterInv
      <3> QED
        BY <3>1, <3>2
    <2>5. Metered'
      BY <1>1, <1>2, <2>1, <2>2, <2>4, SizeFacts DEF MeterInv, Metered, Pcs
    <2>6. ASSUME ~toggled PROVE Credit'
      <3>1. CASE small
        <4>1. meter.done = 0
          BY <1>1, <2>6, <3>1 DEF MeterInv, Credit, InOp
        <4> QED
          BY <1>1, <2>1, <2>4, <3>1, <4>1, SizeFacts DEF Credit, small, InOp
      <3>2. CASE ~small
        <4>1. /\ job.throttled = job.paced /\ job.body <= job.high /\ job.high <= Size
              /\ meter.done = job.sent + (IF job.paced THEN job.high ELSE 0) /\ meter.done <= file.len
          BY <1>1, <2>6, <3>2 DEF MeterInv, Credit
        <4>2. top <= Size
          BY <1>1, <1>2, <4>1, SizeFacts DEF top
        <4>3. meter'.done = job.sent + (IF job.paced THEN top ELSE 0)
          <5>1. CASE job.paced
            BY <1>1, <2>2, <2>4, <3>2, <4>1, <5>1, SizeFacts
          <5>2. CASE ~job.paced
            BY <2>4, <4>1, <5>2, SizeFacts
          <5> QED
            BY <5>1, <5>2
        <4>4. meter'.done <= file.len
          BY <2>2, <3>2, <4>2, <4>3, SizeFacts
        <4>5. Size' = Size /\ small' = small
          BY <1>1, <2>1 DEF Size, PartLen, small
        <4> QED
          BY <1>1, <2>1, <2>2, <3>2, <4>1, <4>2, <4>3, <4>4, <4>5 DEF Credit
      <3> QED
        BY <3>1, <3>2
    <2> QED
      BY <1>1, <2>5, <2>6 DEF MeterInv
  <1>3. CASE job' = [job EXCEPT !.body = 0] /\ UNCHANGED meter
    <2>1. /\ job'.pc = "stream" /\ job'.sent = job.sent /\ job'.body = 0 /\ job'.high = job.high
          /\ job'.throttled = job.throttled /\ job'.paced = job.paced
      BY <1>1, <1>3 DEF JobOK
    <2>2. Metered'
      BY <1>1, <1>3, <2>1, SizeFacts DEF MeterInv, Metered, Pcs
    <2>3. Size' = Size /\ small' = small
      BY <1>1, <2>1 DEF Size, PartLen, small
    <2>4. ASSUME ~toggled PROVE Credit'
      BY <1>1, <1>3, <2>1, <2>3, <2>4, SizeFacts DEF MeterInv, Credit, InOp
    <2> QED
      BY <1>1, <2>2, <2>4 DEF MeterInv
  <1> QED
    BY <1>2, <1>3 DEF PacedBody

LEMMA AnswerMeter ==
  ASSUME UploadInv, MeterInv, Answer
  PROVE  MeterInv'
  <1>1. UNCHANGED <<file, toggled>> /\ JobOK /\ job.pc = "stream" /\ job.body = Size /\ job.high \in Nat
    BY DEF Answer, history, UploadInv, Shape, At, MeterInv, Metered
  <1>2. CASE /\ job' = [job EXCEPT !.pc = IF small THEN "ok" ELSE "read", !.sent = @ + Size]
             /\ IF small THEN Ticks(file.plain) ELSE IF job.throttled THEN UNCHANGED meter ELSE Ticks(Size)
    <2> DEFINE n == IF small THEN file.plain ELSE IF job.throttled THEN 0 ELSE Size
    <2>1. /\ job'.pc = (IF small THEN "ok" ELSE "read") /\ job'.sent = job.sent + Size
          /\ job'.body = job.body /\ job'.high = job.high
      BY <1>1, <1>2 DEF JobOK
    <2>2. /\ meter'.done = meter.done + n
          /\ DOMAIN meter' = {"done", "seen", "armed"} /\ meter'.done \in Nat /\ meter'.seen \in Nat
          /\ meter'.seen <= meter'.done
      <3>1. CASE ~small /\ job.throttled
        BY <1>2, <3>1 DEF MeterInv, Metered
      <3>2. CASE ~(~small /\ job.throttled)
        <4>1. n \in Nat /\ Ticks(n)
          BY <1>2, <3>2, SizeFacts
        <4> HIDE DEF n
        <4> QED
          BY <4>1, TickEffect DEF MeterInv
      <3> QED
        BY <3>1, <3>2
    <2>3. Metered'
      BY <1>1, <2>1, <2>2 DEF MeterInv, Metered, Pcs
    <2>4. ASSUME ~toggled PROVE Credit'
      <3>1. CASE small
        <4>1. meter.done = 0 /\ file.plain <= file.len
          BY <1>1, <2>4, <3>1 DEF MeterInv, Metered, Credit, InOp
        <4>2. meter'.done = file.plain
          BY <2>2, <3>1, <4>1, SizeFacts
        <4> QED
          BY <1>1, <2>1, <3>1, <4>1, <4>2, SizeFacts DEF Credit, small, InOp
      <3>2. CASE ~small
        <4>1. /\ job.throttled = job.paced /\ job.body <= job.high /\ job.high <= Size
              /\ meter.done = job.sent + (IF job.paced THEN job.high ELSE 0)
          BY <1>1, <2>4, <3>2 DEF MeterInv, Credit
        <4>2. job.high = Size
          BY <1>1, <4>1, SizeFacts
        <4>3. meter'.done = job.sent + Size
          <5>1. CASE job.throttled
            BY <2>2, <3>2, <4>1, <4>2, <5>1, SizeFacts
          <5>2. CASE ~job.throttled
            BY <2>2, <3>2, <4>1, <5>2, SizeFacts
          <5> QED
            BY <5>1, <5>2
        <4>4. meter'.done <= file.len
          BY <3>2, <4>3, SizeFacts
        <4> QED
          BY <1>1, <2>1, <3>2, <4>3, <4>4 DEF Credit, small
      <3> QED
        BY <3>1, <3>2
    <2> QED
      BY <1>1, <2>3, <2>4 DEF MeterInv
  <1>3. CASE To(IF small THEN "failed" ELSE "abort") /\ UNCHANGED meter
    <2>1. job'.pc \in {"failed", "abort", "err", "start"} /\ job'.body = job.body /\ job'.high = job.high
      BY <1>1, <1>3, ToEffect
    <2> QED
      BY <1>1, <1>3, <2>1, MeterRests
  <1> QED
    BY <1>2, <1>3 DEF Answer

LEMMA MeterInit == Init => MeterInv
  <1> SUFFICES ASSUME Init PROVE MeterInv
    OBVIOUS
  <1>1. job.pc = "start" /\ job.sent = 0 /\ job.body = 0 /\ job.high = 0 /\ meter = [done |-> 0, seen |-> 0, armed |-> FALSE]
    BY DEF Init, NewJob
  <1>2. file.len \in Nat \ {0} /\ file.plain \in Nat /\ file.plain <= file.len
    <2>1. PICK kind \in Kinds, e \in Modes, n \in Lengths :
             \E plain \in IF e /\ n > 1 THEN {n, n - 1} ELSE {n} :
                file = [kind |-> kind, e2ee |-> e, len |-> n, plain |-> plain]
      BY DEF Init
    <2>2. n \in Nat \ {0}
      BY UploadAssumption
    <2> QED
      BY <2>1, <2>2
  <1>3. meter.done = 0 /\ meter.seen = 0 /\ DOMAIN meter = {"done", "seen", "armed"}
    BY <1>1
  <1> QED
    BY <1>1, <1>2, <1>3 DEF MeterInv, Metered, Credit, Pcs, InOp

LEMMA MeterStep == UploadInv /\ MeterInv /\ [Next]_vars => MeterInv'
  <1> SUFFICES ASSUME UploadInv, MeterInv, [Next]_vars PROVE MeterInv'
    OBVIOUS
  <1> QED
    BY OthersMeter, EndsMeter, StartMeter, PassesMeter, PutCloseMeter, PartMeter, StreamMeter, WriteMeter,
       PacedMeter, AnswerMeter DEF Next, Task, Guard

\* The inductive invariant of the progress of a file: what is credited at every phase.
THEOREM MeterInvariant == Spec => []MeterInv
  BY MeterInit, MeterStep, UploadInvariant, PTL DEF Spec

\* Upload's types, for every value of the constants; among them that no more is credited
\* to a file than it has, though the SDK sends bodies twice and attempts start over,
\* unless the cap was switched while a part was under way.
THEOREM UploadTypeCorrect == Spec => []TypeOK
  <1>1. UploadInv /\ MeterInv => TypeOK
    <2> SUFFICES ASSUME UploadInv, MeterInv PROVE TypeOK
      OBVIOUS
    <2>1. job.attempt \in 0 .. retries + 1
      BY UploadAssumption DEF UploadInv, Shape, JobOK, Count
    <2>2. job.sent \in 0 .. file.len /\ job.body \in 0 .. file.len
      BY SizeFacts DEF MeterInv, Metered
    <2>3. toggled \/ meter.done \in 0 .. file.len
      BY SizeFacts DEF MeterInv, Metered, Credit
    <2> QED
      BY <2>1, <2>2, <2>3 DEF MeterInv, Metered, Pcs, TypeOK
  <1> QED
    BY <1>1, UploadInvariant, MeterInvariant, PTL

\* Each byte of an upload that succeeds is credited to it exactly once, by every backend,
\* however often its body or all of it had to be sent again (FileTrack::done, the
\* high-water mark of PacedBody).
THEOREM CreditAlwaysExact == Spec => []CreditExact
  <1>1. MeterInv => CreditExact
    BY DEF MeterInv, Credit, CreditExact
  <1> QED
    BY <1>1, MeterInvariant, PTL

-----------------------------------------------------------------------------
(* What a failed upload leaves behind.                                       *)

Untorn(f, obj) == obj = {} \/ obj = {Old} \/ \E a \in 1 .. retries + 1 : obj = {Body(f, a, f.len)}

\* Between attempts there is no multipart upload, no entry in a table and no part of a
\* file; during one there is at most its own, which its abort finds unless the object is
\* whole already.
Clean ==
    /\ FS => store.pend = {}
    /\ ~FS => store.open = {} /\ store.pend \subseteq {Id}
    /\ job.pc \in {"start", "prepare", "create", "failed", "ok", "err"} =>
          store.pend = {} /\ store.open = {} /\ Untorn(file, store.obj)
    /\ FS => /\ job.pc \in {"read", "part", "complete"} => store.open = {Id}
             /\ job.pc = "write" => store.open = {}
             /\ job.pc = "abort" => store.open = {Id} \/ (store.open = {} /\ Untorn(file, store.obj))

CleanInv == ~small /\ ~leak /\ ~rebooted => Clean

\* What the calls of a backend do to its uploads.
LEMMA CreateTables ==
  ASSUME NEW st, NEW id, IsStore(st), FileOK
  PROVE  LET new == create_multipart(st, id)
         IN  /\ FS => new.open = st.open \cup {id} /\ new.pend = st.pend
             /\ ~FS => new.open = st.open /\ new.pend = st.pend \cup {id}
  <1>1. CASE file.kind = "s3"
    BY <1>1 DEF create_multipart, s3_create_multipart, IsStore, FS
  <1>2. CASE file.kind = "sftp"
    BY <1>2 DEF create_multipart, sftp_create_multipart, Opened, Truncated, IsStore, FS
  <1>3. CASE file.kind = "smb"
    BY <1>3 DEF create_multipart, smb_create_multipart, Opened, Truncated, IsStore, FS
  <1>4. CASE file.kind = "nfs"
    BY <1>4 DEF create_multipart, nfs_create_multipart, create_truncated, Truncated, IsStore, FS
  <1> QED
    BY <1>1, <1>2, <1>3, <1>4, FourKinds

LEMMA WriteTables ==
  ASSUME NEW st, NEW i, NEW c, IsStore(st)
  PROVE  write_at(st, i, c).open = st.open /\ write_at(st, i, c).pend = st.pend
  BY DEF write_at, IsStore

LEMMA FailedTables ==
  ASSUME NEW st, NEW id, IsStore(st), FileOK
  PROVE  LET new == part_failed(st, id)
         IN  /\ new.pend = st.pend /\ new.open \in {st.open, st.open \cup {id}}
             /\ file.kind = "sftp" => new.open = st.open \cup {id}
  BY FourKinds DEF part_failed, sftp_part_failed, smb_part_failed, nfs_part_failed, IsStore

LEMMA ClosedTables ==
  ASSUME NEW st, NEW id, IsStore(st)
  PROVE  Closed(st, id).open = st.open \ {id} /\ Closed(st, id).pend = st.pend
  BY DEF Closed, IsStore

LEMMA CompleteTables ==
  ASSUME NEW st, NEW id, NEW body, IsStore(st), FileOK
  PROVE  LET new == complete_multipart(st, id, body)
         IN  /\ FS => new.open = st.open \ {id} /\ new.pend = st.pend
             /\ ~FS => new.open = st.open /\ new.pend = st.pend \ {id}
  <1>1. CASE file.kind = "s3"
    BY <1>1 DEF complete_multipart, s3_complete_multipart, IsStore, FS
  <1>2. CASE file.kind = "sftp"
    BY <1>2, ClosedTables DEF complete_multipart, sftp_complete_multipart, FS
  <1>3. CASE file.kind = "smb"
    BY <1>3, ClosedTables DEF complete_multipart, smb_complete_multipart, FS
  <1>4. CASE file.kind = "nfs"
    <2>1. IsStore(Closed(st, id))
      BY ClosedEffect
    <2>2. commit(Closed(st, id)).open = Closed(st, id).open /\ commit(Closed(st, id)).pend = Closed(st, id).pend
      BY <2>1 DEF commit, IsStore
    <2> QED
      BY <1>4, <2>2, ClosedTables DEF complete_multipart, nfs_complete_multipart, FS
  <1> QED
    BY <1>1, <1>2, <1>3, <1>4, FourKinds

LEMMA AbortTables ==
  ASSUME NEW st, NEW id, IsStore(st), FileOK
  PROVE  LET new == abort_multipart(st, id)
         IN  /\ FS /\ id \in st.open => new.open = st.open \ {id} /\ new.pend = st.pend /\ new.obj = {}
             /\ FS /\ id \notin st.open => new = st
             /\ ~FS => new.open = st.open /\ new.pend = st.pend \ {id} /\ new.obj = st.obj
  <1>1. /\ id \in st.open => /\ Removed(st, id).open = st.open \ {id} /\ Removed(st, id).pend = st.pend
                             /\ Removed(st, id).obj = {}
        /\ id \notin st.open => Removed(st, id) = st
    BY DEF Removed, Closed, IsStore
  <1>2. CASE file.kind = "s3"
    BY <1>2 DEF abort_multipart, s3_abort_multipart, IsStore, FS
  <1>3. CASE file.kind # "s3"
    BY <1>1, <1>3, FourKinds DEF abort_multipart, sftp_abort_multipart, smb_abort_multipart, nfs_abort_multipart, FS
  <1> QED
    BY <1>2, <1>3

\* A whole object of the attempt is not a torn one.
LEMMA WholeUntorn ==
  ASSUME UploadInv, job.attempt >= 1, store.obj = {Body(file, job.attempt, file.len)}
  PROVE  Untorn(file, store.obj)
  <1>1. job.attempt \in 1 .. retries + 1
    BY UploadAssumption DEF UploadInv, Shape, JobOK, Count
  <1> QED
    BY <1>1 DEF Untorn

LEMMA CleanFrame ==
  ASSUME [Next]_vars
  PROVE  file' = file /\ (leak => leak') /\ (rebooted => rebooted')
  <1>1. CASE Start \/ prepare_parents \/ PutOpen \/ PutClose \/ create \/ ReadPart \/ upload_part
    BY <1>1 DEF Start, prepare_parents, PutOpen, PutClose, create, ReadPart, upload_part, history
  <1>2. CASE throttled_bytestream \/ PacedBody \/ Answer \/ complete \/ abort \/ Retry
    BY <1>2 DEF throttled_bytestream, PacedBody, Answer, complete, abort, Retry, history
  <1>3. CASE Poll \/ Stalled \/ Hang \/ Cancel \/ SetRate \/ ServerRestart \/ Crash \/ UNCHANGED vars
    BY <1>3 DEF Poll, Stalled, Hang, Cancel, SetRate, ServerRestart, Crash, vars, history
  <1>4. CASE WriteChunk
    <2>1. file' = file /\ rebooted' = rebooted
      BY <1>4 DEF WriteChunk
    <2>2. leak' = leak \/ leak' = (leak \/ Id \notin store'.open)
      BY <1>4, Zenon DEF WriteChunk
    <2>3. leak => leak'
      BY <2>2, Zenon
    <2> QED
      BY <2>1, <2>3
  <1>5. CASE with_timeout
    <2>1. file' = file /\ rebooted' = rebooted
      BY <1>5 DEF with_timeout
    <2>2. leak' = (leak \/ small \/ job.pc = "create")
      BY <1>5, Zenon DEF with_timeout
    <2>3. leak => leak'
      BY <2>2, Zenon
    <2> QED
      BY <2>1, <2>3
  <1> QED
    BY <1>1, <1>2, <1>3, <1>4, <1>5 DEF Next, Task, Guard

\* Steps that leave the store alone.
LEMMA SameClean ==
  ASSUME UploadInv, Clean, ~small, UNCHANGED <<file, store>>,
         \/ throttled_bytestream \/ PacedBody \/ Poll \/ Hang \/ Cancel \/ SetRate \/ UNCHANGED job
  PROVE  Clean'
  <1>1. JobOK
    BY DEF UploadInv, Shape
  <1>2. job'.pc = job.pc /\ job'.attempt = job.attempt
    BY <1>1 DEF throttled_bytestream, PacedBody, Poll, Hang, Cancel, SetRate, JobOK, At
  <1> QED
    BY <1>2 DEF Clean, FS, Id

LEMMA MovesClean ==
  ASSUME UploadInv, Clean, ~small, UNCHANGED <<file, store>>, Start \/ prepare_parents \/ ReadPart \/ Retry
  PROVE  Clean'
  <1>1. JobOK
    BY DEF UploadInv, Shape
  <1>2. CASE Start
    <2>1. job.pc = "start" /\ job'.pc \in {"err", "prepare"}
      BY <1>1, <1>2, ToEffect DEF Start, NewJob
    <2> QED
      BY <2>1 DEF Clean, FS, Id
  <1>3. CASE prepare_parents
    <2>1. job.pc = "prepare" /\ job'.pc \in {"create", "failed"} /\ job'.attempt = job.attempt
      BY <1>1, <1>3, ToEffect DEF prepare_parents, At
    <2> QED
      BY <2>1 DEF Clean, FS, Id
  <1>4. CASE ReadPart
    <2>1. job.pc = "read" /\ job'.pc \in {"complete", "abort", "part"} /\ job'.attempt = job.attempt
      BY <1>1, <1>4, ToEffect DEF ReadPart, At
    <2> QED
      BY <2>1 DEF Clean, FS, Id
  <1>5. CASE Retry
    <2>1. job.pc = "failed" /\ job'.pc \in {"start", "err"} /\ job'.attempt = job.attempt
      BY <1>1, <1>5, ToEffect DEF Retry
    <2> QED
      BY <2>1 DEF Clean, FS, Id
  <1> QED
    BY <1>2, <1>3, <1>4, <1>5

LEMMA createClean ==
  ASSUME UploadInv, Clean, create, ~leak'
  PROVE  Clean'
  <1>1. /\ JobOK /\ FileOK /\ IsStore(store) /\ file' = file /\ job.pc = "create"
        /\ store' = create_multipart(store, Id) /\ To("read")
    BY DEF UploadInv, Shape, StoreOK, create, At
  <1>2. job'.pc = "read" /\ job'.attempt = job.attempt
    BY <1>1, ToEffect
  <1>3. /\ FS => store'.open = store.open \cup {Id} /\ store'.pend = store.pend
        /\ ~FS => store'.open = store.open /\ store'.pend = store.pend \cup {Id}
    BY <1>1, CreateTables
  <1>4. store.pend = {} /\ store.open = {}
    BY <1>1 DEF Clean
  <1> QED
    BY <1>1, <1>2, <1>3, <1>4 DEF Clean, FS, Id

LEMMA upload_partClean ==
  ASSUME UploadInv, Clean, upload_part
  PROVE  Clean'
  <1>1. JobOK /\ FileOK /\ IsStore(store) /\ file' = file /\ job.pc = "part"
    BY DEF UploadInv, Shape, StoreOK, upload_part, At
  <1>2. CASE FS
    <2>1. store' = Closed(store, Id) /\ job'.pc = "write" /\ job'.attempt = job.attempt
      BY <1>1, <1>2 DEF upload_part, JobOK
    <2>2. store'.open = store.open \ {Id} /\ store'.pend = store.pend
      BY <1>1, <2>1, ClosedTables
    <2> QED
      BY <1>1, <1>2, <2>1, <2>2 DEF Clean, FS, Id
  <1>3. CASE ~FS
    <2>1. store' = store /\ job'.pc = "stream" /\ job'.attempt = job.attempt
      BY <1>1, <1>3 DEF upload_part, JobOK
    <2> QED
      BY <1>1, <1>3, <2>1 DEF Clean, FS, Id
  <1> QED
    BY <1>2, <1>3

LEMMA WriteClean ==
  ASSUME UploadInv, Clean, ~small, WriteChunk, ~leak'
  PROVE  Clean'
  <1>1. JobOK /\ FileOK /\ IsStore(store) /\ file' = file /\ job.pc = "write" /\ FS
    BY DEF UploadInv, Shape, StoreOK, WriteChunk, At, Phase
  <1>2. store.open = {} /\ store.pend = {}
    BY <1>1 DEF Clean
  <1>3. CASE /\ store' = write_at(store, job.sent + job.body + 1, Cell(job.attempt, job.sent + job.body + 1))
             /\ job' = [job EXCEPT !.body = @ + 1]
    <2>1. job'.pc = "write" /\ job'.attempt = job.attempt
      BY <1>1, <1>3 DEF JobOK
    <2>2. store'.open = {} /\ store'.pend = {}
      BY <1>1, <1>2, <1>3, WriteTables
    <2> QED
      BY <1>1, <2>1, <2>2 DEF Clean, FS, Id
  <1>4. CASE /\ job' = [job EXCEPT !.pc = IF small THEN "close" ELSE "read", !.sent = @ + Size]
             /\ store' = IF small THEN store ELSE [store EXCEPT !.open = @ \cup {Id}]
    <2>1. job'.pc = "read" /\ job'.attempt = job.attempt
      BY <1>1, <1>4 DEF JobOK
    <2>2. store'.open = {Id} /\ store'.pend = {}
      BY <1>1, <1>2, <1>4 DEF IsStore
    <2> QED
      BY <1>1, <2>1, <2>2 DEF Clean, FS, Id
  <1>5. CASE /\ store' = IF small THEN store ELSE part_failed(store, Id)
             /\ To(IF small THEN "failed" ELSE "abort")
             /\ leak' = (leak \/ Id \notin store'.open)
    <2>1. job'.pc = "abort" /\ job'.attempt = job.attempt
      BY <1>1, <1>5, ToEffect
    <2>2. store'.pend = store.pend /\ store'.open \in {store.open, store.open \cup {Id}} /\ Id \in store'.open
      BY <1>1, <1>5, FailedTables
    <2>3. store'.open = {Id} /\ store'.pend = {}
      BY <1>2, <2>2
    <2> QED
      BY <1>1, <2>1, <2>3 DEF Clean, FS, Id
  <1> QED
    BY <1>3, <1>4, <1>5 DEF WriteChunk

LEMMA AnswerClean ==
  ASSUME UploadInv, Clean, ~small, Answer
  PROVE  Clean'
  <1>1. JobOK /\ file' = file /\ job.pc = "stream" /\ ~FS /\ store' = store
    BY DEF UploadInv, Shape, Answer, At, Phase
  <1>2. job'.pc \in {"read", "abort"} /\ job'.attempt = job.attempt
    BY <1>1, ToEffect DEF Answer, JobOK
  <1> QED
    BY <1>1, <1>2 DEF Clean, FS, Id

LEMMA completeClean ==
  ASSUME UploadInv, UploadInv', Clean, ~small, ~rebooted, complete
  PROVE  Clean'
  <1>1. JobOK /\ FileOK /\ IsStore(store) /\ file' = file /\ job.pc = "complete" /\ rebooted' = rebooted
    BY DEF UploadInv, Shape, StoreOK, complete, At, history
  <1>2. job'.pc \in {"ok", "abort"} /\ job'.attempt = job.attempt /\ job.attempt >= 1
    BY <1>1, ToEffect DEF complete, UploadInv, Count
  <1> DEFINE done == complete_multipart(store, Id, Upto(job.attempt, job.sent))
  <1>3. /\ FS => done.open = store.open \ {Id} /\ done.pend = store.pend
        /\ ~FS => done.open = store.open /\ done.pend = store.pend \ {Id}
    BY <1>1, CompleteTables
  <1>4. store' = done \/ (job'.pc = "abort" /\ store' = Closed(store, Id))
    BY <1>1, ToEffect DEF complete
  <1>5. Closed(store, Id).open = store.open \ {Id} /\ Closed(store, Id).pend = store.pend
    BY <1>1, ClosedTables
  <1>6. CASE FS
    <2>1. store'.open = {} /\ store'.pend = {}
      BY <1>1, <1>3, <1>4, <1>5, <1>6 DEF Clean
    <2>2. store.obj = {Body(file, job.attempt, file.len)}
      BY <1>1, <1>6 DEF UploadInv, Place, Count
    <2>3. store'.obj = store.obj
      BY <1>1, <1>4, <1>6, CompleteEffect, ClosedEffect
    <2>4. Untorn(file, store'.obj)
      BY <1>2, <2>2, <2>3, WholeUntorn
    <2> QED
      BY <1>1, <1>2, <1>6, <2>1, <2>4 DEF Clean, FS, Id
  <1>7. CASE ~FS
    <2>1. store'.open = {} /\ store'.pend \subseteq {Id} /\ (job'.pc = "ok" => store'.pend = {})
      BY <1>1, <1>3, <1>4, <1>5, <1>7 DEF Clean
    <2>2. Untorn(file, store'.obj)
      BY <1>1, <1>7 DEF UploadInv, Torn, Untorn, FS
    <2> QED
      BY <1>1, <1>2, <1>7, <2>1, <2>2 DEF Clean, FS, Id
  <1> QED
    BY <1>6, <1>7

LEMMA abortClean ==
  ASSUME UploadInv, Clean, abort, ~leak'
  PROVE  Clean'
  <1>1. /\ JobOK /\ FileOK /\ IsStore(store) /\ file' = file /\ job.pc = "abort"
        /\ store' = abort_multipart(store, Id) /\ To("failed")
    BY DEF UploadInv, Shape, StoreOK, abort, At
  <1>2. job'.pc = "failed" /\ job'.attempt = job.attempt
    BY <1>1, ToEffect
  <1>3. /\ FS /\ Id \in store.open => store'.open = store.open \ {Id} /\ store'.pend = store.pend /\ store'.obj = {}
        /\ FS /\ Id \notin store.open => store' = store
        /\ ~FS => store'.open = store.open /\ store'.pend = store.pend \ {Id} /\ store'.obj = store.obj
    BY <1>1, AbortTables
  <1>4. store'.open = {} /\ store'.pend = {} /\ Untorn(file, store'.obj)
    <2>1. CASE FS /\ store.open = {Id}
      BY <1>1, <1>3, <2>1 DEF Clean, Untorn
    <2>2. CASE FS /\ store.open = {} /\ Untorn(file, store.obj)
      BY <1>1, <1>3, <2>2 DEF Clean
    <2>3. CASE ~FS
      <3>1. Untorn(file, store.obj)
        BY <2>3 DEF UploadInv, Torn, Untorn
      <3> QED
        BY <1>1, <1>3, <2>3, <3>1 DEF Clean
    <2> QED
      BY <1>1, <2>1, <2>2, <2>3 DEF Clean
  <1> QED
    BY <1>1, <1>2, <1>4 DEF Clean, FS, Id

LEMMA with_timeoutClean ==
  ASSUME UploadInv, Clean, ~small, ~rebooted, with_timeout, ~leak'
  PROVE  Clean'
  <1>1. /\ JobOK /\ FileOK /\ IsStore(store) /\ file' = file /\ FS /\ file.kind = "sftp"
        /\ job.pc # "create" /\ job.pc # "abort" /\ job.hung
    BY DEF UploadInv, Shape, StoreOK, with_timeout, FS
  <1>2. job.pc \in {"prepare", "write", "read", "part", "complete"}
    BY <1>1 DEF UploadInv, Phase, InOp
  <1>3. job'.pc = (IF job.pc = "prepare" THEN "failed" ELSE "abort") /\ job'.attempt = job.attempt
    BY <1>1 DEF with_timeout, JobOK
  <1>4. CASE job.pc \in {"prepare", "read", "part"}
    <2>1. store' = store
      BY <1>4 DEF with_timeout
    <2> QED
      BY <1>1, <1>3, <1>4, <2>1 DEF Clean, FS, Id
  <1>5. CASE job.pc = "write"
    <2>1. store' = part_failed(store, Id)
      BY <1>5 DEF with_timeout
    <2>2. store'.open = store.open \cup {Id} /\ store'.pend = store.pend
      BY <1>1, <2>1, FailedTables
    <2> QED
      BY <1>1, <1>3, <1>5, <2>2 DEF Clean, FS, Id
  <1>6. CASE job.pc = "complete"
    <2>1. store' = Closed(store, Id)
      BY <1>6 DEF with_timeout
    <2>2. store'.open = store.open \ {Id} /\ store'.pend = store.pend /\ store'.obj = store.obj
      BY <1>1, <2>1, ClosedTables, ClosedEffect
    <2>3. job.attempt >= 1 /\ store.obj = {Body(file, job.attempt, file.len)}
      BY <1>1, <1>6 DEF UploadInv, Place, Count
    <2>4. Untorn(file, store'.obj)
      BY <2>2, <2>3, WholeUntorn
    <2> QED
      BY <1>1, <1>3, <1>6, <2>2, <2>4 DEF Clean, FS, Id
  <1> QED
    BY <1>2, <1>4, <1>5, <1>6

LEMMA CleanInit == Init => CleanInv
  <1> SUFFICES ASSUME Init PROVE Clean
    BY DEF CleanInv
  <1>1. job.pc = "start" /\ store.pend = {} /\ store.open = {} /\ (store.obj = {} \/ store.obj = {Old})
    BY DEF Init, NewJob
  <1> QED
    BY <1>1 DEF Clean, Untorn

LEMMA CleanStep == UploadInv /\ UploadInv' /\ CleanInv /\ [Next]_vars => CleanInv'
  <1> SUFFICES ASSUME UploadInv, UploadInv', CleanInv, [Next]_vars, ~small', ~leak', ~rebooted' PROVE Clean'
    BY DEF CleanInv
  <1>1. file' = file /\ ~small /\ ~leak /\ ~rebooted
    BY CleanFrame DEF small
  <1>2. Clean
    BY <1>1 DEF CleanInv
  <1>3. CASE throttled_bytestream \/ PacedBody \/ Poll \/ Hang \/ Cancel \/ SetRate \/ UNCHANGED vars
    <2>1. store' = store
      BY <1>3 DEF throttled_bytestream, PacedBody, Poll, Hang, Cancel, SetRate, vars
    <2> QED
      BY <1>1, <1>2, <1>3, <2>1, SameClean DEF vars
  <1>4. CASE Start \/ prepare_parents \/ ReadPart \/ Retry
    <2>1. store' = store
      BY <1>4 DEF Start, prepare_parents, ReadPart, Retry
    <2> QED
      BY <1>1, <1>2, <1>4, <2>1, MovesClean
  <1>5. ~PutOpen /\ ~PutClose
    BY <1>1 DEF UploadInv, Phase, PutOpen, PutClose, At
  <1>6. ~Stalled /\ ~Crash /\ ~ServerRestart
    BY DEF Stalled, Crash, ServerRestart
  <1> QED
    BY <1>1, <1>2, <1>3, <1>4, <1>5, <1>6, createClean, upload_partClean, WriteClean, AnswerClean, completeClean,
       abortClean, with_timeoutClean DEF Next, Task, Guard

\* An upload in parts that ended, in whatever way and after however many attempts, leaves
\* no multipart upload, no entry of an uploads table and no part of a file behind, if its
\* aborts were let run and could be asked for (abort_multipart of every backend).
THEOREM AbortAlwaysCleansUp == Spec => []AbortCleansUp
  <1>1. CleanInv => AbortCleansUp
    BY UptoIsBody DEF CleanInv, Clean, Untorn, AbortCleansUp, Ended, Wholes, Whole
  <1> QED
    BY <1>1, CleanInit, CleanStep, UploadInvariant, PTL DEF Spec

=============================================================================
