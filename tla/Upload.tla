------------------------------- MODULE Upload -------------------------------
(***************************************************************************)
(* One file on its way to the backend: upload_one, upload_small,           *)
(* upload_multipart and the stall watchdog around them (src/src/worker.rs) *)
(* and the writing half of the S3, SFTP, SMB and NFS backends.             *)
(*                                                                         *)
(* The unit is the write chunk (256 KiB, or 64 KiB of a paced S3 body); a  *)
(* chunk is a pair of the attempt that sealed it and its index.  Every     *)
(* attempt encrypts under a new random prefix, so a whole object has       *)
(* chunks of one attempt; without encryption they are all alike.           *)
(***************************************************************************)
EXTENDS Naturals, Sequences

CONSTANTS Kinds, Modes,
          Lengths,       \* sizes of the body, in chunks
          Threshold,     \* multipart_threshold: longer bodies go in parts
          PartSize,      \* chunks of a part
          retries,       \* Settings::retries
          MaxFaults,     \* bound: requests that fail, hang or are sent again by the SDK
          MaxToggles     \* bound: times the upload cap is set or removed

ASSUME UploadAssumption ==
    /\ Kinds \subseteq {"s3", "sftp", "smb", "nfs"} /\ Modes \subseteq BOOLEAN
    /\ Lengths \subseteq Nat \ {0} /\ Threshold \in Nat /\ PartSize \in Nat \ {0}
    /\ retries \in Nat /\ MaxFaults \in Nat /\ MaxToggles \in Nat

VARIABLES file,      \* kind of backend, e2ee, chunks of the body, plain_len in chunks
          store,     \* the object, what is not committed, open multiparts and the uploads table
          job,       \* the task: see NewJob
          meter,     \* FileTrack::done and the locals of guard_stall
          limited,   \* the upload limiter has a cap
          cancelled, faults, toggles,
          \* history:
          leak,      \* nobody was left to clean up
          toggled,   \* the cap changed between the two looks at it
          rebooted   \* the NFS server lost writes before they were committed

bounds == <<faults, toggles>>
history == <<leak, toggled, rebooted>>
vars == <<file, store, job, meter, limited, cancelled, bounds, history>>

small == file.len <= Threshold
FS == file.kind # "s3"

Cell(a, i) == <<IF file.e2ee THEN a ELSE 0, i>>
Upto(a, n) == [i \in 1 .. n |-> Cell(a, i)]
Whole(a) == Upto(a, file.len)
Old == <<<<retries + 2, 1>>, <<retries + 2, 2>>, <<retries + 2, 3>>, <<retries + 2, 4>>>>
Hole == <<retries + 3, 0>>

-----------------------------------------------------------------------------
(* The backends.  store.obj has at most one element, the object at the key;  *)
(* store.pend are the multipart uploads S3 holds, store.open the keys of the *)
(* `uploads` table of the others.                                            *)

Truncated(st) == [st EXCEPT !.obj = {<<>>}]
Opened(st, id) == [Truncated(st) EXCEPT !.open = @ \cup {id}]

\* Fault: an existing file is written over from its start.
CreateUntruncated(st) == IF st.obj = {} THEN [st EXCEPT !.obj = {<<>>}] ELSE st

create_truncated(st) == Truncated(st)
sftp_put_throttled(st) == Truncated(st)
smb_put_throttled(st) == Truncated(st)
nfs_put_throttled(st) == create_truncated(st)
put_throttled(st) == CASE file.kind = "sftp" -> sftp_put_throttled(st)
                       [] file.kind = "smb" -> smb_put_throttled(st)
                       [] file.kind = "nfs" -> nfs_put_throttled(st)

\* The object is there when S3 has all of its body, and not before.
s3_put_throttled(st, body) == [st EXCEPT !.obj = {body}]

s3_create_multipart(st, id) == [st EXCEPT !.pend = @ \cup {id}]
sftp_create_multipart(st, id) == Opened(st, id)
smb_create_multipart(st, id) == Opened(st, id)
nfs_create_multipart(st, id) == [create_truncated(st) EXCEPT !.open = @ \cup {id}]
create_multipart(st, id) == CASE file.kind = "s3" -> s3_create_multipart(st, id)
                              [] file.kind = "sftp" -> sftp_create_multipart(st, id)
                              [] file.kind = "smb" -> smb_create_multipart(st, id)
                              [] file.kind = "nfs" -> nfs_create_multipart(st, id)

\* One chunk at its offset; NFS may keep it in memory until commit.
write_at(st, i, c) ==
    [st EXCEPT !.obj = {[k \in 1 .. (IF Len(s) < i THEN i ELSE Len(s)) |-> IF k = i THEN c ELSE s[k]] : s \in @},
               !.unstable = IF file.kind = "nfs" THEN @ \cup {i} ELSE @]
commit(st) == [st EXCEPT !.unstable = {}]

\* upload_part takes its entry out of the table and puts it back when it is done;
\* SFTP also does so when it failed.
smb_part_failed(st, id) == st
nfs_part_failed(st, id) == st
sftp_part_failed(st, id) == [st EXCEPT !.open = @ \cup {id}]
part_failed(st, id) == CASE file.kind = "s3" -> st
                         [] file.kind = "sftp" -> sftp_part_failed(st, id)
                         [] file.kind = "smb" -> smb_part_failed(st, id)
                         [] file.kind = "nfs" -> nfs_part_failed(st, id)

Closed(st, id) == [st EXCEPT !.open = @ \ {id}]
s3_complete_multipart(st, id, body) == [st EXCEPT !.obj = {body}, !.pend = @ \ {id}]
sftp_complete_multipart(st, id) == Closed(st, id)
smb_complete_multipart(st, id) == Closed(st, id)
nfs_complete_multipart(st, id) == commit(Closed(st, id))
complete_multipart(st, id, body) == CASE file.kind = "s3" -> s3_complete_multipart(st, id, body)
                                      [] file.kind = "sftp" -> sftp_complete_multipart(st, id)
                                      [] file.kind = "smb" -> smb_complete_multipart(st, id)
                                      [] file.kind = "nfs" -> nfs_complete_multipart(st, id)

\* Only who finds its entry in the table removes the file.
Removed(st, id) == IF id \in st.open THEN [Closed(st, id) EXCEPT !.obj = {}] ELSE st
s3_abort_multipart(st, id) == [st EXCEPT !.pend = @ \ {id}]
sftp_abort_multipart(st, id) == Removed(st, id)
smb_abort_multipart(st, id) == Removed(st, id)
nfs_abort_multipart(st, id) == Removed(st, id)
abort_multipart(st, id) == CASE file.kind = "s3" -> s3_abort_multipart(st, id)
                             [] file.kind = "sftp" -> sftp_abort_multipart(st, id)
                             [] file.kind = "smb" -> smb_abort_multipart(st, id)
                             [] file.kind = "nfs" -> nfs_abort_multipart(st, id)

-----------------------------------------------------------------------------
(* The task. sent: chunks of complete parts, or of a small body; body: chunks *)
(* of the part under way; high: `reported`, the high-water mark of its body; *)
(* throttled and paced: what upload_part and throttled_bytestream saw.       *)

NewJob == [pc |-> "start", attempt |-> 0, sent |-> 0, body |-> 0, high |-> 0,
           throttled |-> FALSE, paced |-> FALSE, hung |-> FALSE]

Init == /\ \E kind \in Kinds, e \in Modes, n \in Lengths :
              \E plain \in IF e /\ n > 1 THEN {n, n - 1} ELSE {n} :
                 file = [kind |-> kind, e2ee |-> e, len |-> n, plain |-> plain]
        /\ \E obj \in {{}, {Old}} : store = [obj |-> obj, unstable |-> {}, pend |-> {}, open |-> {}]
        /\ job = NewJob /\ meter = [done |-> 0, seen |-> 0, armed |-> FALSE]
        /\ limited \in BOOLEAN /\ cancelled = FALSE /\ faults = 0 /\ toggles = 0
        /\ leak = FALSE /\ toggled = FALSE /\ rebooted = FALSE

Id == job.attempt
PartLen == IF file.len - job.sent < PartSize THEN file.len - job.sent ELSE PartSize
InOp == job.pc \in {"prepare", "put", "write", "close", "create", "read", "part", "stream", "complete", "abort"}
At(pc) == job.pc = pc /\ ~job.hung
To(pc) == job' = [job EXCEPT !.pc = pc]
Ticks(n) == meter' = [meter EXCEPT !.done = @ + n]
Fault == faults < MaxFaults /\ faults' = faults + 1 /\ UNCHANGED toggles

\* Fault: the file's counter goes on from the last attempt.
StartUncounted ==
    /\ job.pc = "start"
    /\ IF cancelled THEN To("err") /\ UNCHANGED meter
       ELSE /\ job' = [NewJob EXCEPT !.pc = "prepare", !.attempt = job.attempt + 1]
            /\ meter' = [meter EXCEPT !.armed = FALSE]
    /\ UNCHANGED <<file, store, limited, cancelled, bounds, leak, toggled, rebooted>>

\* The head of the loop: file_start, and guard_stall reads the counter.
Start ==
    /\ job.pc = "start"
    /\ IF cancelled THEN To("err") /\ UNCHANGED meter
       ELSE /\ job' = [NewJob EXCEPT !.pc = "prepare", !.attempt = job.attempt + 1]
            /\ meter' = [done |-> 0, seen |-> 0, armed |-> FALSE]
    /\ UNCHANGED <<file, store, limited, cancelled, bounds, leak, toggled, rebooted>>

prepare_parents ==
    /\ At("prepare")
    /\ \/ To(IF ~small THEN "create" ELSE IF FS THEN "put" ELSE "stream") /\ UNCHANGED bounds
       \/ Fault /\ To("failed")
    /\ UNCHANGED <<file, store, meter, limited, cancelled, history>>

\* put_throttled of a file system: create or truncate, write, close.
PutOpen ==
    /\ At("put")
    /\ \/ store' = put_throttled(store) /\ To("write") /\ UNCHANGED <<bounds, leak>>
       \/ Fault /\ store' \in {store, put_throttled(store)} /\ To("failed") /\ leak' = TRUE
    /\ UNCHANGED <<file, meter, limited, cancelled, toggled, rebooted>>

PutClose ==
    /\ At("close")
    /\ \/ store' = commit(store) /\ To("ok") /\ Ticks(file.plain) /\ UNCHANGED bounds
       \/ Fault /\ To("failed") /\ UNCHANGED <<store, meter>>
    /\ UNCHANGED <<file, limited, cancelled, history>>

create ==
    /\ At("create")
    /\ \/ store' = create_multipart(store, Id) /\ To("read") /\ UNCHANGED <<bounds, leak>>
       \/ Fault /\ store' \in {store, [create_multipart(store, Id) EXCEPT !.open = store.open]} /\ To("failed") /\ leak' = TRUE
    /\ UNCHANGED <<file, meter, limited, cancelled, toggled, rebooted>>

\* Fault: a cancel ends the loop, and what has been sent is completed.
ReadThenComplete ==
    /\ At("read")
    /\ To(IF cancelled \/ job.sent = file.len THEN "complete" ELSE "part")
    /\ UNCHANGED <<file, store, meter, limited, cancelled, bounds, history>>

\* The loop that fills a part; the error of a cancel is met by the abort below.
ReadPart ==
    /\ At("read")
    /\ To(IF job.sent = file.len THEN "complete" ELSE IF cancelled THEN "abort" ELSE "part")
    /\ UNCHANGED <<file, store, meter, limited, cancelled, bounds, history>>

\* upload_part: S3 first looks whether there is a cap.
upload_part ==
    /\ At("part")
    /\ IF FS THEN /\ store' = Closed(store, Id)
                  /\ job' = [job EXCEPT !.pc = "write", !.body = 0]
       ELSE /\ job' = [job EXCEPT !.pc = "stream", !.body = 0, !.high = 0, !.throttled = limited, !.paced = limited]
            /\ UNCHANGED store
    /\ UNCHANGED <<file, meter, limited, cancelled, bounds, history>>

\* throttled_bytestream looks again.
throttled_bytestream ==
    /\ At("stream") /\ ~small /\ job.body = 0 /\ job.high = 0 /\ job.paced # limited
    /\ job' = [job EXCEPT !.paced = limited] /\ toggled' = TRUE
    /\ UNCHANGED <<file, store, meter, limited, cancelled, bounds, leak, rebooted>>

Size == IF small THEN file.len ELSE PartLen

\* A chunk of a file is written: each is credited, but those of a small file.
WriteChunk ==
    /\ At("write")
    /\ \/ /\ job.body < Size
          /\ store' = write_at(store, job.sent + job.body + 1, Cell(job.attempt, job.sent + job.body + 1))
          /\ job' = [job EXCEPT !.body = @ + 1]
          /\ IF small THEN UNCHANGED meter ELSE Ticks(1)
          /\ UNCHANGED <<bounds, leak>>
       \/ /\ job.body = Size
          /\ job' = [job EXCEPT !.pc = IF small THEN "close" ELSE "read", !.sent = @ + Size]
          /\ store' = IF small THEN store ELSE [store EXCEPT !.open = @ \cup {Id}]
          /\ UNCHANGED <<meter, bounds, leak>>
       \/ /\ Fault /\ job.body < Size
          /\ store' = IF small THEN store ELSE part_failed(store, Id)
          /\ To(IF small THEN "failed" ELSE "abort")
          /\ leak' = (leak \/ Id \notin store'.open)
          /\ UNCHANGED meter
    /\ UNCHANGED <<file, limited, cancelled, toggled, rebooted>>

\* Fault: every chunk of every try is reported.
CreditAll(n) == 1
\* PacedBody reports what is past the high-water mark.
PacedCredit(n) == IF n > job.high THEN n - job.high ELSE 0

\* The body goes out; the SDK may send it once more from its start.
PacedBody ==
    /\ At("stream")
    /\ \/ /\ job.body < Size
          /\ job' = [job EXCEPT !.body = @ + 1, !.high = IF job.body + 1 > @ THEN job.body + 1 ELSE @]
          /\ IF small \/ ~job.paced THEN UNCHANGED meter ELSE Ticks(PacedCredit(job.body + 1))
          /\ UNCHANGED bounds
       \/ job.body > 0 /\ Fault /\ job' = [job EXCEPT !.body = 0] /\ UNCHANGED meter
    /\ UNCHANGED <<file, store, limited, cancelled, leak, toggled, rebooted>>

\* The answer to a put or to a part of S3, or an error, before or after its effect.
Answer ==
    /\ At("stream") /\ job.body = Size
    /\ \/ /\ store' = IF small THEN s3_put_throttled(store, Whole(job.attempt)) ELSE store
          /\ job' = [job EXCEPT !.pc = IF small THEN "ok" ELSE "read", !.sent = @ + Size]
          /\ IF small THEN Ticks(file.plain) ELSE IF job.throttled THEN UNCHANGED meter ELSE Ticks(Size)
          /\ UNCHANGED bounds
       \/ /\ Fault /\ store' \in {store, IF small THEN s3_put_throttled(store, Whole(job.attempt)) ELSE store}
          /\ To(IF small THEN "failed" ELSE "abort") /\ UNCHANGED meter
    /\ UNCHANGED <<file, limited, cancelled, history>>

complete ==
    LET done == complete_multipart(store, Id, Upto(job.attempt, job.sent)) IN
    /\ At("complete")
    /\ \/ store' = done /\ To("ok") /\ UNCHANGED bounds
       \/ Fault /\ store' \in {done, Closed(store, Id)} /\ To("abort")
    /\ UNCHANGED <<file, meter, limited, cancelled, history>>

abort ==
    /\ At("abort") /\ To("failed")
    /\ \/ store' = abort_multipart(store, Id) /\ UNCHANGED <<bounds, leak>>
       \/ Fault /\ leak' = TRUE /\ store' = Closed(store, Id)
    /\ UNCHANGED <<file, meter, limited, cancelled, toggled, rebooted>>

\* upload_one: one more attempt, once the connection is healthy, or the error.
Retry ==
    /\ job.pc = "failed"
    /\ To(IF job.attempt <= retries /\ ~cancelled THEN "start" ELSE "err")
    /\ UNCHANGED <<file, store, meter, limited, cancelled, bounds, history>>

-----------------------------------------------------------------------------
(* guard_stall *)

Still == meter.done < file.plain /\ meter.done = meter.seen

\* Fault: no poll ever arms it.
PollUnarmed ==
    /\ InOp /\ meter.done # meter.seen
    /\ meter' = [meter EXCEPT !.seen = meter.done, !.armed = FALSE]
    /\ UNCHANGED <<file, store, job, limited, cancelled, bounds, leak, toggled, rebooted>>

\* A poll: bytes have moved, or all have; or the clock is started.
Poll ==
    /\ InOp
    /\ IF Still THEN ~meter.armed /\ meter' = [meter EXCEPT !.armed = TRUE]
       ELSE /\ meter.armed \/ meter.seen # meter.done
            /\ meter' = [meter EXCEPT !.seen = meter.done, !.armed = FALSE]
    /\ UNCHANGED <<file, store, job, limited, cancelled, bounds, leak, toggled, rebooted>>

\* The budget is used up: the operation is dropped where it stands.
Stalled ==
    /\ InOp /\ Still /\ meter.armed
    /\ job' = [job EXCEPT !.pc = "failed", !.hung = FALSE]
    /\ leak' = TRUE
    /\ UNCHANGED <<file, store, meter, limited, cancelled, bounds, toggled, rebooted>>

\* with_timeout of SFTP.
with_timeout ==
    /\ job.hung /\ file.kind = "sftp" /\ job.pc # "abort"
    /\ job' = [job EXCEPT !.hung = FALSE, !.pc = IF small \/ job.pc \in {"prepare", "create"} THEN "failed" ELSE "abort"]
    /\ store' = CASE job.pc = "write" /\ ~small -> part_failed(store, Id)
                  [] job.pc = "complete" -> Closed(store, Id)
                  [] OTHER -> store
    /\ leak' = (leak \/ small \/ job.pc = "create")
    /\ UNCHANGED <<file, meter, limited, cancelled, bounds, toggled, rebooted>>

-----------------------------------------------------------------------------
(* The rest of the world. *)

\* A request of which nothing more is heard.
Hang == /\ InOp /\ ~job.hung /\ job.pc \notin {"read", "part"} /\ Fault
        /\ job' = [job EXCEPT !.hung = TRUE]
        /\ UNCHANGED <<file, store, meter, limited, cancelled, history>>

Cancel == /\ ~cancelled /\ job.pc \notin {"ok", "err"} /\ cancelled' = TRUE
          /\ UNCHANGED <<file, store, job, meter, limited, bounds, history>>

SetRate == /\ toggles < MaxToggles /\ toggles' = toggles + 1 /\ limited' = ~limited /\ ~FS /\ InOp
           /\ UNCHANGED <<file, store, job, meter, cancelled, faults, history>>

\* The NFS server forgets what was not committed; commit does not compare verifiers.
ServerRestart ==
    /\ store.unstable # {} /\ InOp /\ Fault /\ rebooted' = TRUE
    /\ store' = [store EXCEPT !.obj = {[i \in DOMAIN s |-> IF i \in store.unstable THEN Hole ELSE s[i]] : s \in @},
                              !.unstable = {}]
    /\ UNCHANGED <<file, job, meter, limited, cancelled, leak, toggled>>

\* The program ends.
Crash == /\ InOp /\ Fault /\ job' = [job EXCEPT !.pc = "err", !.hung = FALSE]
         /\ leak' = TRUE /\ store' = [store EXCEPT !.open = {}]
         /\ UNCHANGED <<file, meter, limited, cancelled, toggled, rebooted>>

Task == \/ Start \/ prepare_parents \/ PutOpen \/ PutClose \/ create \/ ReadPart \/ upload_part \/ throttled_bytestream
        \/ WriteChunk \/ PacedBody \/ Answer \/ complete \/ abort \/ Retry
Guard == Poll \/ Stalled \/ with_timeout
Next == Task \/ Guard \/ Hang \/ Cancel \/ SetRate \/ ServerRestart \/ Crash

Spec == Init /\ [][Next]_vars

\* The runtime polls the task and its timers; time passes, so an armed watchdog
\* whose file stays still fires.
FairSpec == Spec /\ WF_vars(Task) /\ WF_vars(Poll) /\ WF_vars(Stalled) /\ WF_vars(with_timeout)

-----------------------------------------------------------------------------

Ended == job.pc \in {"ok", "err"}
Wholes == {Whole(a) : a \in 1 .. retries + 1}

\* Types; no more is credited to a file than was sent of it, whatever is retried.
TypeOK == /\ job.pc \in {"start", "prepare", "put", "write", "close", "create", "read", "part", "stream", "complete",
                         "abort", "failed", "ok", "err"}
          /\ job.attempt \in 0 .. retries + 1 /\ job.sent \in 0 .. file.len /\ job.body \in 0 .. file.len
          /\ toggled \/ meter.done \in 0 .. file.len
          /\ meter.seen <= meter.done

\* An upload that reports success has put a whole object there, sealed by one
\* attempt (upload_small, upload_multipart), unless an NFS server lost writes.
SuccessIsWhole == job.pc = "ok" /\ ~rebooted => store.obj = {Whole(job.attempt)}

\* On S3 a reader finds the old object or a whole new one, at any time.
S3NeverTorn == file.kind = "s3" => store.obj \in {{}, {Old}} \cup {{w} : w \in Wholes}

\* An upload in parts that failed or was cancelled leaves no part of a file, no
\* multipart upload and no entry in a table, if it was let run its abort and the
\* backend could be asked to (SMB and NFS lose their entry when a write fails).
AbortCleansUp == Ended /\ ~small /\ ~leak /\ ~rebooted =>
    store.pend = {} /\ store.open = {} /\ store.obj \in {{}, {Old}} \cup {{w} : w \in Wholes}

\* Each byte of a successful upload is credited to the file exactly once, though
\* the SDK may send a body twice (the high-water mark of PacedBody).
CreditExact == job.pc = "ok" /\ ~toggled => meter.done = IF small THEN file.plain ELSE file.len

\* Every upload ends, in whatever way requests fail or hang; except that nothing
\* watches over a request once the file's bytes are all credited.
Unwatched == job.hung /\ meter.done >= file.plain /\ (file.kind # "sftp" \/ job.pc = "abort")
EveryUploadEnds == <>(Ended \/ Unwatched)
=============================================================================
