---------------------------- MODULE TransferHub ----------------------------
(***************************************************************************)
(* The transfer hub of src/src/worker.rs: the single live batch that all   *)
(* uploads and downloads share.  A job is one run of run_upload or         *)
(* run_download (one drop, one download request); each runs as a task of   *)
(* its own, admits its files to the batch, announces them to the UI and    *)
(* spawns one task per file.  The last file task to finish closes the      *)
(* batch.  Tasks run on several threads; a step is one critical section or *)
(* one event sent.                                                         *)
(*                                                                         *)
(* The moving of the bytes (retries, stalls and reconnects included) is    *)
(* one step here, with a successful or a failed outcome.                   *)
(***************************************************************************)
EXTENDS Integers, Sequences, FiniteSets

CONSTANTS Jobs,        \* calls of run_upload and run_download
          Files,       \* ids drawn from next_id
          JobOf,       \* the job that transfers a file
          KindOf,      \* "Upload" or "Download", per job
          Parallelism, \* per job and kind: upload_parallelism and
                       \* download_parallelism of the settings it was given
          MaxCancels   \* bound: presses of the cancel buttons

Kinds == {"Upload", "Download"}
FilesOf(j) == {f \in Files : JobOf[f] = j}

ASSUME HubAssumption ==
    /\ IsFiniteSet(Files)
    /\ JobOf \in [Files -> Jobs]
    /\ KindOf \in [Jobs -> Kinds]
    /\ Parallelism \in [Jobs -> [Kinds -> Nat]]
    /\ \A j \in Jobs : FilesOf(j) # {}

VARIABLES
    \* BatchState; `batch` numbers the batches and so names the Progress,
    \* the semaphores and the cancellation token that belong to one:
    status,       \* "open" or "closed"
    outstanding,
    totalFiles,
    batch,
    sems,         \* permits of upload_sem and download_sem
    \* jobs:
    jpc,          \* "new", "announce", "spawn"
    admission,    \* what admit handed to the job
    \* file tasks:
    fpc,
    registered,   \* the keys of file_cancels
    cancelled,    \* files whose own token is cancelled
    stopped,      \* batches whose token is cancelled
    \* Progress and the error list, as the files counted in them:
    done, failed, errors,
    \* the event channel, with everything ever sent on it:
    ev

hubVars == <<status, outstanding, totalFiles, batch, sems>>
jobVars == <<jpc, admission>>
tokens == <<registered, cancelled, stopped>>
results == <<done, failed, errors>>
vars == <<hubVars, jobVars, fpc, tokens, results, ev>>

FilePcs == {"none", "admitted", "queued", "running", "ending", "leaving", "emitting", "gone"}
Semaphores == [Kinds -> Nat \ {0}]
NoSems == [k \in Kinds |-> 1]
Admissions == [fresh : BOOLEAN, batch : Nat, total : Nat, sems : Semaphores]
NoAdmission == [fresh |-> FALSE, batch |-> 0, total |-> 0, sems |-> NoSems]

BatchOf(f) == admission[JobOf[f]].batch
Kind(f) == KindOf[JobOf[f]]

\* Admitted and not yet through task_done.
Live == {f \in Files : fpc[f] \in {"admitted", "queued", "running", "ending", "leaving"}}

\* is_cancelled of the file's token, a child of its batch's.
IsCancelled(f) == f \in cancelled \/ BatchOf(f) \in stopped

\* The permits of the two new semaphores of a fresh batch: .max(1).
NewSems(j) == [k \in Kinds |-> IF Parallelism[j][k] = 0 THEN 1 ELSE Parallelism[j][k]]

\* A permit is dropped at the very end of the task, after task_done.
Holders(b, k) == {f \in Files : /\ fpc[f] \in {"running", "ending", "leaving", "emitting"}
                                /\ BatchOf(f) = b /\ Kind(f) = k}

Init ==
    /\ status = "closed" /\ outstanding = 0 /\ totalFiles = 0 /\ batch = 0
    /\ sems = NoSems
    /\ jpc = [j \in Jobs |-> "new"]
    /\ admission = [j \in Jobs |-> NoAdmission]
    /\ fpc = [f \in Files |-> "none"]
    /\ registered = {} /\ cancelled = {} /\ stopped = {}
    /\ done = {} /\ failed = {} /\ errors = {}
    /\ ev = <<>>

-----------------------------------------------------------------------------
(* run_upload, run_download *)

\* Fault: an extending job brings semaphores of its own.
BatchSemsOwn(j) == NewSems(j)

\* The semaphores a job's files will share.
BatchSems(j) == IF status = "closed" THEN NewSems(j) ELSE sems

\* admit: the fresh/extend decision and the outstanding bump, under one lock.
Admit(j) ==
    LET fresh == status = "closed"
        count == Cardinality(FilesOf(j))
        total == (IF fresh THEN 0 ELSE totalFiles) + count
        b == IF fresh THEN batch + 1 ELSE batch
    IN
    /\ jpc[j] = "new"
    /\ status' = "open"
    /\ outstanding' = (IF fresh THEN 0 ELSE outstanding) + count
    /\ totalFiles' = total
    /\ batch' = b
    /\ sems' = BatchSems(j)
    /\ registered' = IF fresh THEN {} ELSE registered
    /\ admission' = [admission EXCEPT ![j] = [fresh |-> fresh, batch |-> b, total |-> total,
                                            sems |-> BatchSems(j)]]
    /\ jpc' = [jpc EXCEPT ![j] = "announce"]
    /\ fpc' = [f \in Files |-> IF f \in FilesOf(j) THEN "admitted" ELSE fpc[f]]
    /\ UNCHANGED <<cancelled, stopped, results, ev>>

\* TransferStarted or TransferExtended, sent after the lock is released.
Announce(j) ==
    LET a == admission[j] IN
    /\ jpc[j] = "announce"
    /\ ev' = Append(ev, [type |-> IF a.fresh THEN "Started" ELSE "Extended",
                         batch |-> a.batch, files |-> FilesOf(j), total |-> a.total])
    /\ jpc' = [jpc EXCEPT ![j] = "spawn"]
    /\ UNCHANGED <<hubVars, admission, fpc, tokens, results>>

\* register_file and tokio::spawn, for one file of the job's loop.
Spawn(f) ==
    /\ fpc[f] = "admitted" /\ jpc[JobOf[f]] = "spawn"
    /\ registered' = registered \cup {f}
    /\ fpc' = [fpc EXCEPT ![f] = "queued"]
    /\ UNCHANGED <<hubVars, jobVars, cancelled, stopped, results, ev>>

-----------------------------------------------------------------------------
(* one file task *)

\* Fault: a cancelled file's task returns without its closing steps.
AfterAcquireReturns(f) == IF IsCancelled(f) THEN "gone" ELSE "running"

AfterAcquire(f) == IF IsCancelled(f) THEN "ending" ELSE "running"

\* Fault: no cancel while queued is counted.
SettlesNone(f) == FALSE

\* A per-file cancel while queued settles the row; a batch cancel does not.
Settles(f) == f \in cancelled /\ BatchOf(f) \notin stopped

\* The semaphore has a permit.  The transfer begins unless it is cancelled.
Acquire(f) ==
    /\ fpc[f] = "queued"
    /\ Cardinality(Holders(BatchOf(f), Kind(f))) < admission[JobOf[f]].sems[Kind(f)]
    /\ fpc' = [fpc EXCEPT ![f] = AfterAcquire(f)]
    /\ failed' = IF Settles(f) THEN failed \cup {f} ELSE failed
    /\ UNCHANGED <<hubVars, jobVars, tokens, done, errors, ev>>

\* The transfer succeeds (it may, even if a cancel has just come in).
Succeed(f) ==
    /\ fpc[f] = "running"
    /\ done' = done \cup {f}
    /\ fpc' = [fpc EXCEPT ![f] = "ending"]
    /\ UNCHANGED <<hubVars, jobVars, tokens, failed, errors, ev>>

\* It fails for good, or gives up because of a cancel.
Fail(f) ==
    /\ fpc[f] = "running"
    /\ failed' = failed \cup {f}
    /\ errors' = IF IsCancelled(f) THEN errors ELSE errors \cup {f}
    /\ fpc' = [fpc EXCEPT ![f] = "ending"]
    /\ UNCHANGED <<hubVars, jobVars, tokens, done, ev>>

\* Fault: the token is left behind.
UnregisterForgotten(f) ==
    /\ fpc[f] = "ending"
    /\ fpc' = [fpc EXCEPT ![f] = "leaving"]
    /\ UNCHANGED <<hubVars, jobVars, tokens, results, ev>>

Unregister(f) ==
    /\ fpc[f] = "ending"
    /\ registered' = registered \ {f}
    /\ fpc' = [fpc EXCEPT ![f] = "leaving"]
    /\ UNCHANGED <<hubVars, jobVars, cancelled, stopped, results, ev>>

\* Fault: the batch is closed when one task is still outstanding.
DrainsEarly(left) == status = "open" /\ left <= 1

Drains(left) == status = "open" /\ left = 0

\* task_done, its critical section.
TaskDone(f) ==
    LET left == IF outstanding = 0 THEN 0 ELSE outstanding - 1 IN
    /\ fpc[f] = "leaving"
    /\ outstanding' = left
    /\ status' = IF Drains(left) THEN "closed" ELSE status
    /\ fpc' = [fpc EXCEPT ![f] = IF Drains(left) THEN "emitting" ELSE "gone"]
    /\ UNCHANGED <<totalFiles, batch, sems, jobVars, tokens, results, ev>>

\* ... and the event it sends after the lock is released.
EmitFinished(f) ==
    LET b == BatchOf(f) IN
    /\ fpc[f] = "emitting"
    /\ ev' = Append(ev, [type |-> "Finished", batch |-> b,
                         done |-> Cardinality({g \in done : BatchOf(g) = b}),
                         failed |-> Cardinality({g \in failed : BatchOf(g) = b})])
    /\ fpc' = [fpc EXCEPT ![f] = "gone"]
    /\ UNCHANGED <<hubVars, jobVars, tokens, results>>

-----------------------------------------------------------------------------
(* commands *)

MayCancel == Cardinality(cancelled) + Cardinality(stopped) < MaxCancels

\* CancelTransfers, and Disconnect: the token of the batch that is current.
CancelAll == /\ MayCancel
             /\ stopped' = stopped \cup {batch}
             /\ UNCHANGED <<hubVars, jobVars, fpc, registered, cancelled, results, ev>>

\* CancelFile: only a file whose token is in the map can be reached.
CancelFile(f) == /\ MayCancel
                 /\ f \in registered
                 /\ cancelled' = cancelled \cup {f}
                 /\ UNCHANGED <<hubVars, jobVars, fpc, registered, stopped, results, ev>>

JobStep(j) == Admit(j) \/ Announce(j)
TaskStep(f) == \/ Spawn(f) \/ Acquire(f) \/ Succeed(f) \/ Fail(f)
               \/ Unregister(f) \/ TaskDone(f) \/ EmitFinished(f)

Next == \/ \E j \in Jobs : JobStep(j)
        \/ \E f \in Files : TaskStep(f) \/ CancelFile(f)
        \/ CancelAll

Spec == Init /\ [][Next]_vars

\* A job that has begun and every file task run on; a transfer ends, one way
\* or the other.  Nothing is assumed of the user.
Fairness == /\ \A j \in Jobs : WF_vars(Announce(j))
            /\ \A f \in Files : WF_vars(TaskStep(f))

FairSpec == Spec /\ Fairness

-----------------------------------------------------------------------------
(* Properties *)

\* Every variable has its type, and a token stays in file_cancels exactly as
\* long as its task may still be cancelled.
TypeOK ==
    /\ status \in {"open", "closed"}
    /\ outstanding \in Nat /\ totalFiles \in Nat /\ batch \in Nat
    /\ sems \in Semaphores
    /\ jpc \in [Jobs -> {"new", "announce", "spawn"}]
    /\ admission \in [Jobs -> Admissions]
    /\ fpc \in [Files -> FilePcs]
    /\ registered = {f \in Files : fpc[f] \in {"queued", "running", "ending"}}
    /\ cancelled \subseteq Files /\ stopped \subseteq Nat
    /\ done \subseteq Files /\ failed \subseteq Files /\ errors \subseteq Files

\* "a late merge can never race the drain": a file that is admitted and not
\* through belongs to the open batch, which counts exactly these files and is
\* closed exactly when there are none.
NoDrainRace ==
    /\ outstanding = Cardinality(Live)
    /\ status = "open" <=> Live # {}
    /\ \A f \in Live : BatchOf(f) = batch

\* However many jobs extend a batch, at most as many files of a kind move at
\* once as the settings of the job that opened the batch allow.
ParallelismBound ==
    \A j \in Jobs, k \in Kinds : admission[j].fresh =>
        Cardinality(Holders(admission[j].batch, k)) <= NewSems(j)[k]

FinishedOf(b) == {i \in DOMAIN ev : ev[i].type = "Finished" /\ ev[i].batch = b}
AdmittedTo(b) == {f \in Files : fpc[f] # "none" /\ BatchOf(f) = b}

\* A batch reports its end at most once, when all its files are through, and
\* the report accounts for every one of them unless the batch was cancelled.
FinishedReport ==
    \A i \in DOMAIN ev : ev[i].type = "Finished" =>
        LET b == ev[i].batch IN
        /\ FinishedOf(b) = {i}
        /\ \A f \in AdmittedTo(b) : fpc[f] = "gone"
        /\ ev[i].done + ev[i].failed = Cardinality(AdmittedTo(b)) \/ b \in stopped

\* Every file that is admitted is followed by the report of its batch.
EveryBatchFinishes ==
    \A f \in Files : (fpc[f] = "admitted") ~> (FinishedOf(BatchOf(f)) # {})
=============================================================================
