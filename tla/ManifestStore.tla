--------------------------- MODULE ManifestStore ---------------------------
(***************************************************************************)
(* The in-memory buffer of the per-directory ".rse" manifests and its      *)
(* write-back to the backend (src/src/manifest_store.rs), used by many     *)
(* tokio tasks at once: every upload edits it when its file has landed,    *)
(* every listing loads from it, every metadata operation edits and then    *)
(* flushes it, the task that waits for an upload batch flushes it, and one *)
(* timer task flushes what has been quiet for an interval.                 *)
(*                                                                         *)
(* The buffer sits behind one mutex, but no operation holds it across a    *)
(* network call, so load, edit and flush are several steps each: a step    *)
(* here is one critical section or one backend request.                    *)
(*                                                                         *)
(* A manifest is the set of segments it has an entry for.  Its fingerprint *)
(* is a hash of its content and is modelled by that content.               *)
(***************************************************************************)
EXTENDS Naturals

CONSTANTS Dirs,       \* directory prefixes
          Names,      \* encrypted path segments
          Tasks,      \* tokio tasks that use the store
          Timer,      \* the one that runs the flush timer
          NoObject,   \* result of a get for a key that does not exist
          MaxCalls,   \* bound: calls of load, edit and take_entry
          MaxFaults,  \* bound: backend requests that fail, and crashes
          MaxChanges  \* bound: changes of the flush interval

Manifest == SUBSET Names
Workers == Tasks \ {Timer}
Ops == {"load", "upsert", "remove", "take"}
Calls == [op : Ops, dir : Dirs, name : Names]
Reasons == {"Timer", "Forced"}

ASSUME ConstantsAssumption ==
    /\ Timer \in Tasks
    /\ Dirs # {} /\ Names # {}
    /\ \A m \in Manifest : m # NoObject
    /\ {MaxCalls, MaxFaults, MaxChanges} \subseteq Nat

VARIABLES
    backend,    \* the ".rse" object of each directory, or NoObject
    \* HashMap<String, DirState>, one variable per field:
    buffered,   \* the directories in the map
    manifest,   \* DirState.manifest
    written,    \* DirState.written_fingerprint
    dirty,      \* the directories with DirState.dirty set
    quiet,      \* those whose last_change is at least `interval` ago
    \* the tasks:
    pc,         \* what the task does next
    call,       \* the load, edit or take_entry it is in
    fetched,    \* the manifest its load has read from the backend
    todo,       \* the directories its flush has still to write and record
    snap,       \* the blobs its flush took under the lock
    landed,     \* the directory whose put has returned, not yet recorded
    calls, faults, changes,
    \* history:
    seen,       \* the contents a directory has had since the last crash
    overlapped, \* directories two flushes had in hand at the same time
    unacked     \* directories whose last put failed after taking effect

bufVars == <<buffered, manifest, written, dirty, quiet>>
flushVars == <<todo, snap, landed>>
loadVars == <<call, fetched>>
taskVars == <<pc, loadVars, flushVars>>
bounds == <<calls, faults, changes>>
history == <<seen, overlapped, unacked>>
vars == <<backend, bufVars, taskVars, bounds, history>>

\* A get that finds nothing yields Manifest::default().
Decode(obj) == IF obj = NoObject THEN {} ELSE obj
Disk(d) == Decode(backend[d])

\* What a caller of load is given for d.
View(d) == IF d \in buffered THEN manifest[d] ELSE Disk(d)

InFlight(d) == \E t \in Tasks : d \in todo[t]

NoCall == CHOOSE c \in Calls : TRUE
NoSnap == [d \in Dirs |-> {}]

Init ==
    /\ backend \in [Dirs -> {NoObject} \cup Manifest]
    /\ buffered = {} /\ dirty = {} /\ quiet = {}
    /\ manifest = [d \in Dirs |-> {}]
    /\ written = [d \in Dirs |-> {}]
    /\ pc = [t \in Tasks |-> "idle"]
    /\ call = [t \in Tasks |-> NoCall]
    /\ fetched = [t \in Tasks |-> {}]
    /\ todo = [t \in Tasks |-> {}]
    /\ snap = [t \in Tasks |-> NoSnap]
    /\ landed = [t \in Tasks |-> {}]
    /\ calls = 0 /\ faults = 0 /\ changes = 0
    /\ seen = [d \in Dirs |-> {Disk(d)}]
    /\ overlapped = {} /\ unacked = {}

-----------------------------------------------------------------------------
(* load, edit, take_entry *)

\* Return from the call: the task is free for its next one.
Return(t) == /\ pc' = [pc EXCEPT ![t] = "idle"]
             /\ call' = [call EXCEPT ![t] = NoCall]
             /\ fetched' = [fetched EXCEPT ![t] = {}]

\* The first critical section of load finds the directory in the map.  A bare
\* load returns the copy; an edit goes on to its own critical section.
LoadHit(t, c) ==
    /\ pc[t] = "idle" /\ calls < MaxCalls
    /\ c.dir \in buffered /\ c.op # "load"
    /\ pc' = [pc EXCEPT ![t] = "apply"]
    /\ call' = [call EXCEPT ![t] = c]
    /\ calls' = calls + 1
    /\ UNCHANGED <<backend, bufVars, fetched, flushVars, faults, changes, history>>

\* The directory is not in the map: the lock is dropped before the fetch.
LoadMiss(t, c) ==
    /\ pc[t] = "idle" /\ calls < MaxCalls
    /\ c.dir \notin buffered
    /\ pc' = [pc EXCEPT ![t] = "fetch"]
    /\ call' = [call EXCEPT ![t] = c]
    /\ calls' = calls + 1
    /\ UNCHANGED <<backend, bufVars, fetched, flushVars, faults, changes, history>>

LoadFetch(t) ==
    /\ pc[t] = "fetch"
    /\ fetched' = [fetched EXCEPT ![t] = Disk(call[t].dir)]
    /\ pc' = [pc EXCEPT ![t] = "insert"]
    /\ UNCHANGED <<backend, bufVars, call, flushVars, bounds, history>>

\* Fault: the error is taken for an object that is not there.
LoadFetchErrAbsent(t) ==
    /\ pc[t] = "fetch" /\ faults < MaxFaults
    /\ faults' = faults + 1
    /\ fetched' = [fetched EXCEPT ![t] = {}]
    /\ pc' = [pc EXCEPT ![t] = "insert"]
    /\ UNCHANGED <<backend, bufVars, call, flushVars, calls, changes, history>>

\* The get fails: load returns the error, and so does the edit around it.
LoadFetchErr(t) ==
    /\ pc[t] = "fetch" /\ faults < MaxFaults
    /\ faults' = faults + 1
    /\ Return(t)
    /\ UNCHANGED <<backend, bufVars, flushVars, calls, changes, history>>

\* The second critical section: the fetched manifest goes in only if no other
\* task has put one there meanwhile.
LoadInsert(t) ==
    LET d == call[t].dir IN
    /\ pc[t] = "insert"
    /\ buffered' = buffered \cup {d}
    /\ IF d \in buffered
       THEN UNCHANGED <<manifest, written, dirty, quiet>>
       ELSE /\ manifest' = [manifest EXCEPT ![d] = fetched[t]]
            /\ written' = [written EXCEPT ![d] = fetched[t]]
            /\ dirty' = dirty \ {d}
            /\ quiet' = quiet \ {d}
    /\ IF call[t].op = "load" THEN Return(t)
       ELSE pc' = [pc EXCEPT ![t] = "apply"] /\ UNCHANGED loadVars
    /\ UNCHANGED <<backend, flushVars, bounds, history>>

Edited(c, m) == IF c.op = "upsert" THEN m \cup {c.name} ELSE m \ {c.name}

\* An edit always marks the directory dirty, even one that changes nothing;
\* take_entry only does so if it found the entry.
Touches(c, m) == c.op = "take" => c.name \in m

\* The critical section of edit and take_entry.
EditApply(t) ==
    LET d == call[t].dir
        m == Edited(call[t], manifest[d])
    IN
    /\ pc[t] = "apply"
    /\ IF d \in buffered
       THEN /\ manifest' = [manifest EXCEPT ![d] = m]
            /\ seen' = [seen EXCEPT ![d] = @ \cup {m}]
            /\ IF Touches(call[t], manifest[d])
               THEN dirty' = dirty \cup {d} /\ quiet' = quiet \ {d}
               ELSE UNCHANGED <<dirty, quiet>>
       ELSE UNCHANGED <<manifest, seen, dirty, quiet>>
    /\ Return(t)
    /\ UNCHANGED <<backend, buffered, written, flushVars, bounds, overlapped, unacked>>

-----------------------------------------------------------------------------
(* flush *)

\* Fault: the quiet test the wrong way round.
SelectNotQuiet(reason) ==
    {d \in buffered \cap dirty : /\ manifest[d] # written[d]
                                 /\ reason = "Forced" \/ d \notin quiet}

\* FlushPlan::select over the dirty directories.
Select(reason) ==
    {d \in buffered \cap dirty : /\ manifest[d] # written[d]
                                 /\ reason = "Forced" \/ d \in quiet}

\* Phase 1, under the lock.  (With nothing to write, flush returns at once.)
FlushSnapshot(t, reason) ==
    LET chosen == Select(reason) IN
    /\ pc[t] = "idle" /\ chosen # {}
    /\ pc' = [pc EXCEPT ![t] = "flush"]
    /\ todo' = [todo EXCEPT ![t] = chosen]
    /\ snap' = [snap EXCEPT ![t] =
                  [d \in Dirs |-> IF d \in chosen THEN manifest[d] ELSE {}]]
    /\ overlapped' = overlapped \cup {d \in chosen : InFlight(d)}
    /\ UNCHANGED <<backend, bufVars, loadVars, landed, bounds, seen, unacked>>

\* Phase 2: one put, without the lock.  The order over the directories is a
\* hash map's, so any of those left may be next.
FlushPut(t, d) ==
    /\ d \in todo[t] /\ landed[t] = {}
    /\ backend' = [backend EXCEPT ![d] = snap[t][d]]
    /\ landed' = [landed EXCEPT ![t] = {d}]
    /\ UNCHANGED <<bufVars, pc, loadVars, todo, snap, bounds, history>>

\* Fault: the error of one put is ignored and the loop stays where it is.
FlushAbortKeepsTodo(t) == /\ pc' = [pc EXCEPT ![t] = "idle"]
                          /\ UNCHANGED <<todo, snap>>

\* `?` leaves the loop: the directories that were still to come are dropped.
FlushAbort(t) == /\ pc' = [pc EXCEPT ![t] = "idle"]
                 /\ todo' = [todo EXCEPT ![t] = {}]
                 /\ snap' = [snap EXCEPT ![t] = NoSnap]

\* The put fails without an effect ...
FlushPutErr(t, d) ==
    /\ d \in todo[t] /\ landed[t] = {} /\ faults < MaxFaults
    /\ faults' = faults + 1
    /\ FlushAbort(t)
    /\ UNCHANGED <<backend, bufVars, loadVars, landed, calls, changes, history>>

\* ... or takes effect and only its answer is lost.
FlushPutLostAck(t, d) ==
    /\ d \in todo[t] /\ landed[t] = {} /\ faults < MaxFaults
    /\ faults' = faults + 1
    /\ backend' = [backend EXCEPT ![d] = snap[t][d]]
    /\ unacked' = unacked \cup {d}
    /\ FlushAbort(t)
    /\ UNCHANGED <<bufVars, loadVars, landed, calls, changes, seen, overlapped>>

\* Fault: dirty is cleared without comparing the fingerprints again.
CleanedBlindly(t, d) == dirty \ {d}

\* Phase 3 leaves the directory dirty if it changed again during the put.
Cleaned(t, d) == IF manifest[d] = snap[t][d] THEN dirty \ {d} ELSE dirty

\* Phase 3, under the lock.
FlushRecord(t, d) ==
    LET rest == todo[t] \ {d} IN
    /\ d \in landed[t]
    /\ IF d \in buffered
       THEN /\ written' = [written EXCEPT ![d] = snap[t][d]]
            /\ dirty' = Cleaned(t, d)
       ELSE UNCHANGED <<written, dirty>>
    /\ landed' = [landed EXCEPT ![t] = {}]
    /\ todo' = [todo EXCEPT ![t] = rest]
    /\ IF rest = {}
       THEN pc' = [pc EXCEPT ![t] = "idle"] /\ snap' = [snap EXCEPT ![t] = NoSnap]
       ELSE UNCHANGED <<pc, snap>>
    /\ unacked' = unacked \ {d}
    /\ UNCHANGED <<backend, buffered, manifest, quiet, loadVars, bounds, seen, overlapped>>

-----------------------------------------------------------------------------
(* the clock, the settings, the process *)

\* `interval` has passed since the directory last changed.
Elapse(d) == /\ d \in buffered /\ d \notin quiet
             /\ quiet' = quiet \cup {d}
             /\ UNCHANGED <<backend, buffered, manifest, written, dirty, taskVars, bounds, history>>

\* set_interval: a longer one makes directories wait again (a shorter one is
\* an Elapse of some of them).
SetInterval == /\ changes < MaxChanges
               /\ changes' = changes + 1
               /\ quiet' = {}
               /\ UNCHANGED <<backend, buffered, manifest, written, dirty, taskVars,
                              calls, faults, history>>

\* The process dies: the tasks and the map are gone, the objects stay.
Crash ==
    /\ faults < MaxFaults /\ faults' = faults + 1
    /\ buffered' = {} /\ dirty' = {} /\ quiet' = {}
    /\ manifest' = [d \in Dirs |-> {}]
    /\ written' = [d \in Dirs |-> {}]
    /\ pc' = [t \in Tasks |-> "idle"]
    /\ call' = [t \in Tasks |-> NoCall]
    /\ fetched' = [t \in Tasks |-> {}]
    /\ todo' = [t \in Tasks |-> {}]
    /\ snap' = [t \in Tasks |-> NoSnap]
    /\ landed' = [t \in Tasks |-> {}]
    /\ seen' = [d \in Dirs |-> {Disk(d)}]
    /\ overlapped' = {} /\ unacked' = {}
    /\ UNCHANGED <<backend, calls, changes>>

LoadStep(t) == LoadFetch(t) \/ LoadInsert(t) \/ EditApply(t)
FlushStep(t) == \E d \in Dirs : FlushPut(t, d) \/ FlushRecord(t, d)
FaultStep(t) == \/ LoadFetchErr(t)
                \/ \E d \in Dirs : FlushPutErr(t, d) \/ FlushPutLostAck(t, d)
CallStep(t) == \/ \E c \in Calls : LoadHit(t, c) \/ LoadMiss(t, c)
               \/ FlushSnapshot(t, "Forced")

Next == \/ \E t \in Workers : CallStep(t)
        \/ FlushSnapshot(Timer, "Timer")
        \/ \E t \in Tasks : LoadStep(t) \/ FlushStep(t) \/ FaultStep(t)
        \/ \E d \in Dirs : Elapse(d)
        \/ SetInterval
        \/ Crash

Spec == Init /\ [][Next]_vars

\* Tasks run on; time passes; the timer task loops forever.  Nothing is
\* assumed of the user, of the forced flushes, or of faults.
Fairness == /\ \A t \in Tasks : WF_vars(LoadStep(t)) /\ WF_vars(FlushStep(t))
            /\ \A d \in Dirs : WF_vars(Elapse(d))
            /\ WF_vars(FlushSnapshot(Timer, "Timer"))

FairSpec == Spec /\ Fairness

-----------------------------------------------------------------------------
(* Properties *)

\* Every variable has its type, and a task has a list of directories to write
\* exactly while it is in a flush: an aborted flush leaves nothing behind.
TypeOK ==
    /\ backend \in [Dirs -> {NoObject} \cup Manifest]
    /\ buffered \subseteq Dirs /\ dirty \subseteq buffered /\ quiet \subseteq buffered
    /\ manifest \in [Dirs -> Manifest]
    /\ written \in [Dirs -> Manifest]
    /\ pc \in [Tasks -> {"idle", "fetch", "insert", "apply", "flush"}]
    /\ call \in [Tasks -> Calls]
    /\ fetched \in [Tasks -> Manifest]
    /\ todo \in [Tasks -> SUBSET Dirs]
    /\ snap \in [Tasks -> [Dirs -> Manifest]]
    /\ landed \in [Tasks -> SUBSET Dirs]
    /\ \A t \in Tasks : landed[t] \subseteq todo[t]
    /\ \A t \in Tasks : pc[t] = "flush" <=> todo[t] # {}
    /\ calls \in Nat /\ faults \in Nat /\ changes \in Nat
    /\ seen \in [Dirs -> SUBSET Manifest]
    /\ overlapped \subseteq Dirs /\ unacked \subseteq Dirs

\* An update that is in memory only is never stranded there: a flush has the
\* directory in hand, or the next forced flush will select it.  (It takes the
\* dirty flag and the written fingerprint of DirState to be right together.)
\* Two cases are excepted: two flushes of the directory have overlapped, or
\* its last put took effect and reported an error.
NothingStranded ==
    \A d \in buffered \ (overlapped \cup unacked) :
        manifest[d] # Disk(d) => InFlight(d) \/ d \in Select("Forced")

\* The same without the exceptions, as the comment in flush puts it: a manifest
\* that changed again during the put is left dirty "so the next flush picks it
\* up" (src/src/manifest_store.rs, phase 3).
NextFlushPicksItUp ==
    \A d \in buffered :
        manifest[d] # Disk(d) => InFlight(d) \/ d \in Select("Forced")

Register == INSTANCE ManifestRegister
              WITH view <- [d \in Dirs |-> View(d)],
                   disk <- [d \in Dirs |-> Disk(d)],
                   seen <- seen

\* However loads, edits, flushes, failures and crashes interleave, the store is
\* a register per directory: a late fetch never undoes an edit, edits act one
\* at a time on the newest content, and only contents the directory really had
\* are written.
ImplementsRegister == Register!Spec

\* Every change reaches the backend, by the timer alone: the object of a
\* directory catches up with its buffer (or the process restarted, or one of
\* the two exceptions of NothingStranded happened).
EventuallyWritten ==
    \A d \in Dirs : []<>(View(d) = Disk(d) \/ d \in overlapped \cup unacked)
=============================================================================
