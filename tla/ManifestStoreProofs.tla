------------------------ MODULE ManifestStoreProofs ------------------------
(***************************************************************************)
(* For every set of directories, names and tasks: the manifest store       *)
(* strands no update (outside its two known exceptions) and implements     *)
(* the register of ManifestRegister.                                       *)
(***************************************************************************)
EXTENDS ManifestStore, TLAPS

-----------------------------------------------------------------------------
(* The inductive invariant *)

\* A flush only has directories in hand that are in the map, and what it is
\* about to write is something they have contained; it writes one at a time.
FlightInv ==
    \A t \in Tasks : /\ \A d \in todo[t] : d \in buffered /\ snap[t][d] \in seen[d]
                     /\ \A d, e \in landed[t] : d = e

\* The object and the buffer hold contents the directory has had.
SeenInv == \A d \in Dirs : /\ Disk(d) \in seen[d]
                           /\ d \in buffered => manifest[d] \in seen[d]

\* What a load has fetched is still current as long as its insert would count.
\* A task about to apply an edit finds the directory in the map.
LoadOK(t) == /\ pc[t] = "insert" /\ call[t].dir \notin buffered
                   => fetched[t] = Disk(call[t].dir)
             /\ pc[t] = "apply" => call[t].dir \in buffered

LoadInv == \A t \in Tasks : LoadOK(t)

\* As long as the flushes of d have not overlapped: at most one task has d in
\* hand, d is dirty until that task records it, and between the put and the
\* record the object is what the task wrote.
SoleInv ==
    \A d \in Dirs \ overlapped : \A t \in Tasks :
        /\ d \in todo[t] => d \in dirty
        /\ d \in landed[t] => Disk(d) = snap[t][d]
        /\ \A u \in Tasks : d \in todo[t] /\ d \in todo[u] => t = u

\* A clean directory is on the backend as it is in memory.
CleanInv == \A d \in buffered \ overlapped : d \notin dirty => manifest[d] = Disk(d)

\* The written fingerprint is that of the object, except between a put and its
\* record or after a put whose answer was lost.
WrittenInv ==
    \A d \in buffered \ (overlapped \cup unacked) :
        (\A t \in Tasks : d \notin landed[t]) => written[d] = Disk(d)

StoreInv == /\ TypeOK /\ FlightInv /\ SeenInv /\ LoadInv
            /\ SoleInv /\ CleanInv /\ WrittenInv

-----------------------------------------------------------------------------
(* Type correctness *)

LEMMA NoCallType == NoCall \in Calls
  <1>1. \E c \in Calls : TRUE
    <2>1. PICK d \in Dirs, n \in Names : TRUE
      BY ConstantsAssumption
    <2>2. [op |-> "load", dir |-> d, name |-> n] \in Calls
      BY <2>1 DEF Calls, Ops
    <2> QED BY <2>2
  <1> QED BY <1>1 DEF NoCall

LEMMA DecodeType ==
  ASSUME NEW obj \in {NoObject} \cup Manifest
  PROVE  Decode(obj) \in Manifest
  BY DEF Decode, Manifest

LEMMA DiskType == TypeOK => \A d \in Dirs : Disk(d) \in Manifest
  BY DecodeType DEF TypeOK, Disk

LEMMA InitType == Init => TypeOK
  <1> SUFFICES ASSUME Init PROVE TypeOK
    OBVIOUS
  <1> USE DEF Init
  <1>1. seen \in [Dirs -> SUBSET Manifest]
    BY DecodeType DEF Disk
  <1>2. snap \in [Tasks -> [Dirs -> Manifest]]
    BY DEF NoSnap, Manifest
  <1>3. call \in [Tasks -> Calls]
    BY NoCallType
  <1> QED BY <1>1, <1>2, <1>3 DEF TypeOK, Manifest

LEMMA LoadCallType ==
  ASSUME TypeOK, NEW t \in Tasks, NEW c \in Calls, LoadHit(t, c) \/ LoadMiss(t, c)
  PROVE  TypeOK'
  <1>1. pc[t] = "idle" /\ (pc' = [pc EXCEPT ![t] = "apply"] \/ pc' = [pc EXCEPT ![t] = "fetch"])
    BY DEF LoadHit, LoadMiss
  <1>2. /\ pc' \in [Tasks -> {"idle", "fetch", "insert", "apply", "flush"}]
        /\ \A u \in Tasks : pc'[u] = "flush" <=> pc[u] = "flush"
    BY <1>1 DEF TypeOK
  <1>3. call' = [call EXCEPT ![t] = c] /\ calls' = calls + 1
    BY DEF LoadHit, LoadMiss
  <1>5. call' \in [Tasks -> Calls] /\ calls' \in Nat
    BY <1>3 DEF TypeOK
  <1>4. UNCHANGED <<backend, bufVars, fetched, flushVars, faults, changes, history>>
    BY DEF LoadHit, LoadMiss
  <1> QED BY <1>2, <1>4, <1>5 DEF TypeOK, bufVars, flushVars, history

LEMMA ReturnType ==
  ASSUME TypeOK, NEW t \in Tasks, Return(t), pc[t] # "flush"
  PROVE  /\ pc' \in [Tasks -> {"idle", "fetch", "insert", "apply", "flush"}]
         /\ call' \in [Tasks -> Calls]
         /\ fetched' \in [Tasks -> Manifest]
         /\ \A u \in Tasks : pc'[u] = "flush" <=> pc[u] = "flush"
  <1>1. {} \in Manifest
    BY DEF Manifest
  <1>2. call' \in [Tasks -> Calls]
    BY NoCallType DEF TypeOK, Return
  <1>3. fetched' \in [Tasks -> Manifest]
    BY <1>1 DEF TypeOK, Return
  <1>4. /\ pc' \in [Tasks -> {"idle", "fetch", "insert", "apply", "flush"}]
        /\ \A u \in Tasks : pc'[u] = "flush" <=> pc[u] = "flush"
    BY DEF TypeOK, Return
  <1> QED BY <1>2, <1>3, <1>4

LEMMA LoadStepType ==
  ASSUME TypeOK, NEW t \in Tasks, LoadStep(t)
  PROVE  TypeOK'
  <1>1. CASE LoadFetch(t)
    <2>1. Disk(call[t].dir) \in Manifest
      BY DiskType DEF TypeOK, Calls
    <2> QED BY <1>1, <2>1 DEF TypeOK, LoadFetch, bufVars, flushVars, bounds, history
  <1>2. CASE LoadInsert(t)
    <2>1. call[t].dir \in Dirs
      BY DEF TypeOK, Calls
    <2>2. /\ pc' \in [Tasks -> {"idle", "fetch", "insert", "apply", "flush"}]
          /\ call' \in [Tasks -> Calls]
          /\ fetched' \in [Tasks -> Manifest]
          /\ \A u \in Tasks : pc'[u] = "flush" <=> pc[u] = "flush"
      <3>1. CASE call[t].op = "load"
        BY <1>2, <3>1, ReturnType DEF LoadInsert
      <3>2. CASE call[t].op # "load"
        BY <1>2, <3>2 DEF TypeOK, LoadInsert, loadVars
      <3> QED BY <3>1, <3>2
    <2>3. /\ manifest' \in [Dirs -> Manifest]
          /\ written' \in [Dirs -> Manifest]
          /\ buffered' \subseteq Dirs /\ dirty' \subseteq buffered' /\ quiet' \subseteq buffered'
      BY <1>2, <2>1 DEF TypeOK, LoadInsert
    <2> QED BY <1>2, <2>2, <2>3 DEF TypeOK, LoadInsert, flushVars, bounds, history
  <1>3. CASE EditApply(t)
    <2>1. call[t].dir \in Dirs /\ call[t].name \in Names
      BY DEF TypeOK, Calls
    <2>2. \A m \in Manifest : Edited(call[t], m) \in Manifest
      BY <2>1 DEF Edited, Manifest
    <2>3. /\ pc' \in [Tasks -> {"idle", "fetch", "insert", "apply", "flush"}]
          /\ call' \in [Tasks -> Calls]
          /\ fetched' \in [Tasks -> Manifest]
          /\ \A u \in Tasks : pc'[u] = "flush" <=> pc[u] = "flush"
      BY <1>3, ReturnType DEF EditApply
    <2>4. /\ manifest' \in [Dirs -> Manifest]
          /\ seen' \in [Dirs -> SUBSET Manifest]
          /\ dirty' \subseteq buffered' /\ quiet' \subseteq buffered'
      <3> DEFINE d == call[t].dir
                 m == Edited(call[t], manifest[d])
      <3>1. m \in Manifest
        BY <2>1, <2>2 DEF TypeOK
      <3>2. CASE d \in buffered
        <4>1. manifest' = [manifest EXCEPT ![d] = m] /\ seen' = [seen EXCEPT ![d] = @ \cup {m}]
          BY <1>3, <3>2 DEF EditApply
        <4>2. seen' \in [Dirs -> SUBSET Manifest]
          <5>1. seen[d] \cup {m} \in SUBSET Manifest
            BY <2>1, <3>1 DEF TypeOK
          <5> QED BY <2>1, <4>1, <5>1 DEF TypeOK
        <4>3. dirty' \subseteq buffered' /\ quiet' \subseteq buffered'
          BY <1>3, <3>2 DEF TypeOK, EditApply
        <4> QED BY <2>1, <3>1, <4>1, <4>2, <4>3 DEF TypeOK
      <3>3. CASE d \notin buffered
        BY <1>3, <3>3 DEF TypeOK, EditApply
      <3> QED BY <3>2, <3>3
    <2> QED BY <1>3, <2>3, <2>4 DEF TypeOK, EditApply, flushVars, bounds
  <1> QED BY <1>1, <1>2, <1>3 DEF LoadStep

LEMMA SelectType == Select("Forced") \subseteq buffered /\ Select("Timer") \subseteq buffered
  BY DEF Select

LEMMA FlushSnapshotType ==
  ASSUME TypeOK, NEW t \in Tasks, NEW reason \in Reasons, FlushSnapshot(t, reason)
  PROVE  TypeOK'
  <1> DEFINE chosen == Select(reason)
             blobs == [d \in Dirs |-> IF d \in chosen THEN manifest[d] ELSE {}]
  <1>1. chosen \subseteq Dirs
    BY SelectType DEF TypeOK, Reasons
  <1>2. blobs \in [Dirs -> Manifest]
    BY DEF TypeOK, Manifest
  <1>3. snap' \in [Tasks -> [Dirs -> Manifest]]
    BY <1>2 DEF TypeOK, FlushSnapshot
  <1>4. \A u \in Tasks : landed'[u] \subseteq todo'[u]
    BY <1>1 DEF TypeOK, FlushSnapshot
  <1> QED BY <1>1, <1>3, <1>4 DEF TypeOK, FlushSnapshot, bufVars, loadVars, bounds

LEMMA FlushAbortType ==
  ASSUME TypeOK, NEW t \in Tasks, FlushAbort(t), landed[t] = {}, landed' = landed
  PROVE  /\ pc' \in [Tasks -> {"idle", "fetch", "insert", "apply", "flush"}]
         /\ todo' \in [Tasks -> SUBSET Dirs]
         /\ snap' \in [Tasks -> [Dirs -> Manifest]]
         /\ \A u \in Tasks : landed'[u] \subseteq todo'[u]
         /\ \A u \in Tasks : pc'[u] = "flush" <=> todo'[u] # {}
  <1>1. NoSnap \in [Dirs -> Manifest]
    BY DEF NoSnap, Manifest
  <1> QED BY <1>1 DEF TypeOK, FlushAbort

LEMMA FlushStepType ==
  ASSUME TypeOK, NEW t \in Tasks, NEW d \in Dirs, FlushPut(t, d) \/ FlushRecord(t, d)
  PROVE  TypeOK'
  <1>1. CASE FlushPut(t, d)
    <2>1. snap[t][d] \in Manifest
      BY DEF TypeOK
    <2> QED BY <1>1, <2>1 DEF TypeOK, FlushPut, bufVars, loadVars, bounds, history
  <1>2. CASE FlushRecord(t, d)
    <2>1. NoSnap \in [Dirs -> Manifest]
      BY DEF NoSnap, Manifest
    <2>2. snap[t][d] \in Manifest
      BY DEF TypeOK
    <2>5. pc[t] = "flush"
      BY <1>2 DEF TypeOK, FlushRecord
    <2>3. /\ pc' \in [Tasks -> {"idle", "fetch", "insert", "apply", "flush"}]
          /\ snap' \in [Tasks -> [Dirs -> Manifest]]
          /\ \A u \in Tasks : landed'[u] \subseteq todo'[u]
          /\ \A u \in Tasks : pc'[u] = "flush" <=> todo'[u] # {}
      <3>1. CASE todo[t] \ {d} = {}
        <4>1. /\ pc' = [pc EXCEPT ![t] = "idle"] /\ snap' = [snap EXCEPT ![t] = NoSnap]
              /\ todo' = [todo EXCEPT ![t] = {}] /\ landed' = [landed EXCEPT ![t] = {}]
          BY <1>2, <3>1 DEF FlushRecord
        <4> QED BY <2>1, <4>1 DEF TypeOK
      <3>2. CASE todo[t] \ {d} # {}
        BY <1>2, <2>5, <3>2 DEF TypeOK, FlushRecord
      <3> QED BY <3>1, <3>2
    <2>4. written' \in [Dirs -> Manifest] /\ dirty' \subseteq buffered
      BY <1>2, <2>2 DEF TypeOK, FlushRecord, Cleaned
    <2> QED BY <1>2, <2>3, <2>4 DEF TypeOK, FlushRecord, loadVars, bounds
  <1> QED BY <1>1, <1>2

LEMMA FaultStepType ==
  ASSUME TypeOK, NEW t \in Tasks, FaultStep(t)
  PROVE  TypeOK'
  <1>1. CASE LoadFetchErr(t)
    BY <1>1, NoCallType DEF TypeOK, LoadFetchErr, Return, Manifest, bufVars, flushVars, history
  <1>2. ASSUME NEW d \in Dirs, FlushPutErr(t, d) PROVE TypeOK'
    BY <1>2, FlushAbortType DEF TypeOK, FlushPutErr, bufVars, loadVars, history
  <1>3. ASSUME NEW d \in Dirs, FlushPutLostAck(t, d) PROVE TypeOK'
    <2>1. snap[t][d] \in Manifest
      BY DEF TypeOK
    <2> QED BY <1>3, <2>1, FlushAbortType DEF TypeOK, FlushPutLostAck, bufVars, loadVars
  <1> QED BY <1>1, <1>2, <1>3 DEF FaultStep

LEMMA CrashType == TypeOK /\ Crash => TypeOK'
  <1> SUFFICES ASSUME TypeOK, Crash PROVE TypeOK'
    OBVIOUS
  <1>1. NoSnap \in [Dirs -> Manifest]
    BY DEF NoSnap, Manifest
  <1>2. seen' \in [Dirs -> SUBSET Manifest]
    BY DiskType DEF Crash
  <1> QED BY <1>1, <1>2, NoCallType DEF TypeOK, Crash, Manifest

LEMMA NextType == TypeOK /\ [Next]_vars => TypeOK'
  <1> SUFFICES ASSUME TypeOK, [Next]_vars PROVE TypeOK'
    OBVIOUS
  <1>1. ASSUME NEW t \in Workers, CallStep(t) PROVE TypeOK'
    BY <1>1, LoadCallType, FlushSnapshotType DEF CallStep, Workers, Reasons
  <1>2. CASE FlushSnapshot(Timer, "Timer")
    BY <1>2, FlushSnapshotType, ConstantsAssumption DEF Reasons
  <1>3. ASSUME NEW t \in Tasks, LoadStep(t) \/ FlushStep(t) \/ FaultStep(t) PROVE TypeOK'
    BY <1>3, LoadStepType, FlushStepType, FaultStepType DEF FlushStep
  <1>4. CASE (\E d \in Dirs : Elapse(d)) \/ SetInterval
    BY <1>4 DEF TypeOK, Elapse, SetInterval, taskVars, loadVars, flushVars, bounds, history
  <1>5. CASE Crash
    BY <1>5, CrashType
  <1>6. CASE UNCHANGED vars
    BY <1>6 DEF TypeOK, vars, bufVars, taskVars, loadVars, flushVars, bounds, history
  <1> QED BY <1>1, <1>2, <1>3, <1>4, <1>5, <1>6 DEF Next

\* Every variable of the store keeps its type and no flush, finished or
\* aborted, leaves directories in hand.
THEOREM StoreTypeCorrect == Spec => []TypeOK
  BY InitType, NextType, PTL DEF Spec

-----------------------------------------------------------------------------
(* Preservation of the invariant, one lemma per kind of step *)

LEMMA InitInv == Init => StoreInv
  <1> SUFFICES ASSUME Init PROVE StoreInv
    OBVIOUS
  <1>1. TypeOK
    BY InitType
  <1>2. SeenInv
    BY DEF Init, SeenInv
  <1>3. FlightInv /\ LoadInv /\ SoleInv /\ CleanInv /\ WrittenInv
    BY DEF Init, FlightInv, LoadInv, LoadOK, SoleInv, CleanInv, WrittenInv
  <1> QED BY <1>1, <1>2, <1>3 DEF StoreInv

LEMMA LoadCallInv ==
  ASSUME StoreInv, NEW t \in Tasks, NEW c \in Calls, LoadHit(t, c) \/ LoadMiss(t, c)
  PROVE  StoreInv'
  <1>1. TypeOK'
    BY LoadCallType DEF StoreInv
  <1>2. UNCHANGED <<backend, bufVars, fetched, flushVars, history>>
    BY DEF LoadHit, LoadMiss
  <1>3. LoadInv'
    <2> SUFFICES ASSUME NEW u \in Tasks PROVE LoadOK(u)'
      BY DEF LoadInv
    <2>1. CASE u = t
      BY <1>2, <2>1 DEF StoreInv, TypeOK, LoadHit, LoadMiss, LoadOK, bufVars
    <2>2. CASE u # t
      <3>1. pc'[u] = pc[u] /\ call'[u] = call[u]
        BY <2>2 DEF StoreInv, TypeOK, LoadHit, LoadMiss
      <3> QED BY <1>2, <3>1 DEF StoreInv, LoadInv, LoadOK, Disk, bufVars
    <2> QED BY <2>1, <2>2
  <1>4. FlightInv' /\ SeenInv' /\ SoleInv' /\ CleanInv' /\ WrittenInv'
    BY <1>2 DEF StoreInv, FlightInv, SeenInv, SoleInv, CleanInv, WrittenInv, Disk,
                bufVars, flushVars, history
  <1> QED BY <1>1, <1>3, <1>4 DEF StoreInv

LEMMA LoadFetchInv ==
  ASSUME StoreInv, NEW t \in Tasks, LoadFetch(t)
  PROVE  StoreInv'
  <1>1. TypeOK'
    BY LoadStepType DEF StoreInv, LoadStep
  <1>2. UNCHANGED <<backend, bufVars, call, flushVars, history>>
    BY DEF LoadFetch
  <1>3. LoadInv'
    BY <1>2 DEF LoadFetch, StoreInv, TypeOK, LoadInv, LoadOK, Disk, bufVars
  <1>4. FlightInv' /\ SeenInv' /\ SoleInv' /\ CleanInv' /\ WrittenInv'
    BY <1>2 DEF StoreInv, FlightInv, SeenInv, SoleInv, CleanInv, WrittenInv, Disk,
                bufVars, flushVars, history
  <1> QED BY <1>1, <1>3, <1>4 DEF StoreInv

LEMMA LoadInsertInv ==
  ASSUME StoreInv, NEW t \in Tasks, LoadInsert(t)
  PROVE  StoreInv'
  <1> DEFINE d == call[t].dir
  <1>1. TypeOK'
    BY LoadStepType DEF StoreInv, LoadStep
  <1>2. UNCHANGED <<backend, flushVars, history>> /\ buffered' = buffered \cup {d} /\ d \in Dirs
    BY DEF LoadInsert, StoreInv, TypeOK, Calls
  <1>3. LoadInv'
    <2> SUFFICES ASSUME NEW u \in Tasks PROVE LoadOK(u)'
      BY DEF LoadInv
    <2>1. CASE u = t
      BY <1>2, <2>1 DEF StoreInv, TypeOK, LoadInsert, LoadOK, Return, loadVars
    <2>2. CASE u # t
      <3>1. pc'[u] = pc[u] /\ call'[u] = call[u] /\ fetched'[u] = fetched[u]
        BY <2>2 DEF StoreInv, TypeOK, LoadInsert, Return, loadVars
      <3> QED BY <1>2, <3>1 DEF StoreInv, LoadInv, LoadOK, Disk
    <2> QED BY <2>1, <2>2
  <1>4. CASE d \in buffered
    <2>1. UNCHANGED <<backend, bufVars, flushVars, history>>
      BY <1>2, <1>4 DEF LoadInsert, bufVars
    <2>2. FlightInv' /\ SeenInv' /\ SoleInv' /\ CleanInv' /\ WrittenInv'
      BY <2>1 DEF StoreInv, FlightInv, SeenInv, SoleInv, CleanInv, WrittenInv, Disk,
                  bufVars, flushVars, history
    <2> QED BY <1>1, <1>3, <2>2 DEF StoreInv
  <1>5. CASE d \notin buffered
    <2>1. /\ manifest' = [manifest EXCEPT ![d] = fetched[t]]
          /\ written' = [written EXCEPT ![d] = fetched[t]]
          /\ dirty' = dirty \ {d}
      BY <1>5 DEF LoadInsert
    <2>9. dirty' = dirty
      BY <1>5, <2>1 DEF StoreInv, TypeOK
    <2>2. fetched[t] = Disk(d)
      BY <1>5 DEF StoreInv, LoadInv, LoadOK, LoadInsert
    <2>3. /\ \A x \in Dirs : Disk(x)' = Disk(x)
          /\ todo' = todo /\ snap' = snap /\ landed' = landed
          /\ seen' = seen /\ overlapped' = overlapped /\ unacked' = unacked
      BY <1>2 DEF Disk, flushVars, history
    <2>4. FlightInv'
      BY <1>2, <2>3 DEF StoreInv, FlightInv
    <2>5. SeenInv'
      BY <1>2, <2>1, <2>2, <2>3 DEF StoreInv, TypeOK, SeenInv
    <2>6. SoleInv'
      BY <2>3, <2>9 DEF StoreInv, SoleInv
    <2>7. CleanInv'
      BY <1>2, <2>1, <2>2, <2>3, <2>9 DEF StoreInv, TypeOK, CleanInv
    <2>8. WrittenInv'
      BY <1>2, <2>1, <2>2, <2>3 DEF StoreInv, TypeOK, WrittenInv
    <2> QED BY <1>1, <1>3, <2>4, <2>5, <2>6, <2>7, <2>8 DEF StoreInv
  <1> QED BY <1>4, <1>5

LEMMA EditApplyInv ==
  ASSUME StoreInv, NEW t \in Tasks, EditApply(t)
  PROVE  StoreInv'
  <1> DEFINE d == call[t].dir
             m == Edited(call[t], manifest[d])
  <1>1. TypeOK'
    BY LoadStepType DEF StoreInv, LoadStep
  <1>2. /\ d \in buffered /\ d \in Dirs
        /\ manifest' = [manifest EXCEPT ![d] = m]
        /\ seen' = [seen EXCEPT ![d] = @ \cup {m}]
        /\ UNCHANGED <<backend, buffered, written, flushVars, overlapped, unacked>>
    BY DEF EditApply, StoreInv, TypeOK, LoadInv, LoadOK, Calls
  <1>3. /\ \A x \in Dirs : Disk(x)' = Disk(x)
        /\ todo' = todo /\ snap' = snap /\ landed' = landed
    BY <1>2 DEF Disk, flushVars
  <1>4. /\ dirty \subseteq dirty'
        /\ d \in dirty' \/ (m = manifest[d] /\ dirty' = dirty)
    <2>1. CASE Touches(call[t], manifest[d])
      BY <1>2, <2>1 DEF EditApply
    <2>2. CASE ~Touches(call[t], manifest[d])
      <3>1. dirty' = dirty
        BY <1>2, <2>2 DEF EditApply
      <3>2. m = manifest[d] \ {call[t].name} /\ call[t].name \notin manifest[d]
        BY <2>2 DEF Touches, Edited
      <3> QED BY <3>1, <3>2
    <2> QED BY <2>1, <2>2
  <1>5. \A x \in Dirs : seen[x] \subseteq seen'[x] /\ (x = d => m \in seen'[x])
    BY <1>2 DEF StoreInv, TypeOK
  <1>6. LoadInv'
    <2> SUFFICES ASSUME NEW u \in Tasks PROVE LoadOK(u)'
      BY DEF LoadInv
    <2>1. CASE u = t
      BY <2>1 DEF StoreInv, TypeOK, EditApply, LoadOK, Return
    <2>2. CASE u # t
      <3>1. pc'[u] = pc[u] /\ call'[u] = call[u] /\ fetched'[u] = fetched[u]
        BY <2>2 DEF StoreInv, TypeOK, EditApply, Return
      <3> QED BY <1>2, <3>1 DEF StoreInv, LoadInv, LoadOK, Disk
    <2> QED BY <2>1, <2>2
  <1>7. FlightInv'
    BY <1>2, <1>3, <1>5 DEF StoreInv, TypeOK, FlightInv
  <1>8. SeenInv'
    BY <1>2, <1>3, <1>5 DEF StoreInv, TypeOK, SeenInv
  <1>9. SoleInv'
    BY <1>2, <1>3, <1>4 DEF StoreInv, SoleInv
  <1>10. CleanInv'
    <2> SUFFICES ASSUME NEW x \in buffered \ overlapped, x \notin dirty'
                 PROVE  manifest'[x] = Disk(x)
      BY <1>1, <1>2, <1>3 DEF CleanInv, StoreInv, TypeOK
    <2>1. x \notin dirty /\ x \in Dirs
      BY <1>4 DEF StoreInv, TypeOK
    <2>2. manifest[x] = Disk(x)
      BY <2>1 DEF StoreInv, CleanInv
    <2> QED BY <1>2, <1>4, <2>1, <2>2 DEF StoreInv, TypeOK
  <1>11. WrittenInv'
    BY <1>1, <1>2, <1>3 DEF StoreInv, TypeOK, WrittenInv
  <1> QED BY <1>1, <1>6, <1>7, <1>8, <1>9, <1>10, <1>11 DEF StoreInv

LEMMA FlushSnapshotInv ==
  ASSUME StoreInv, NEW t \in Tasks, NEW reason \in Reasons, FlushSnapshot(t, reason)
  PROVE  StoreInv'
  <1> DEFINE chosen == Select(reason)
  <1>1. TypeOK'
    BY FlushSnapshotType DEF StoreInv
  <1>2. /\ chosen \subseteq buffered /\ chosen \subseteq dirty /\ chosen \subseteq Dirs
        /\ todo' = [todo EXCEPT ![t] = chosen]
        /\ overlapped' = overlapped \cup {d \in chosen : InFlight(d)}
        /\ UNCHANGED <<backend, bufVars, loadVars, landed, seen, unacked>>
        /\ pc' = [pc EXCEPT ![t] = "flush"]
    BY DEF FlushSnapshot, Select, StoreInv, TypeOK
  <1>3. /\ \A d \in Dirs : Disk(d)' = Disk(d)
        /\ buffered' = buffered /\ manifest' = manifest
        /\ written' = written /\ dirty' = dirty
        /\ landed' = landed /\ seen' = seen /\ unacked' = unacked
    BY <1>2 DEF Disk, bufVars
  <1>4. \A d \in chosen : snap'[t][d] = manifest[d]
    BY <1>2 DEF FlushSnapshot, StoreInv, TypeOK
  <1>5. \A u \in Tasks \ {t} : snap'[u] = snap[u] /\ todo'[u] = todo[u]
    BY DEF FlushSnapshot, StoreInv, TypeOK
  <1>6. todo'[t] = chosen /\ landed[t] = {} /\ todo[t] = {}
    BY <1>2 DEF FlushSnapshot, StoreInv, TypeOK
  <1>7. FlightInv'
    BY <1>2, <1>3, <1>4, <1>5, <1>6 DEF StoreInv, FlightInv, SeenInv
  <1>8. SeenInv'
    BY <1>3 DEF StoreInv, SeenInv
  <1>9. LoadInv'
    BY <1>2, <1>3 DEF StoreInv, TypeOK, LoadInv, LoadOK, Disk, loadVars
  <1>10. SoleInv'
    <2> SUFFICES ASSUME NEW d \in Dirs, d \notin overlapped', NEW u \in Tasks
                 PROVE  /\ d \in todo'[u] => d \in dirty
                        /\ d \in landed[u] => Disk(d) = snap'[u][d]
                        /\ \A v \in Tasks : d \in todo'[u] /\ d \in todo'[v] => u = v
      BY <1>3 DEF SoleInv
    <2>1. d \notin overlapped /\ (d \in chosen => ~InFlight(d))
      BY <1>2
    <2>2. d \in todo'[u] => d \in dirty
      BY <1>2, <1>5, <1>6, <2>1 DEF StoreInv, SoleInv
    <2>3. d \in landed[u] => Disk(d) = snap'[u][d]
      BY <1>5, <1>6, <2>1 DEF StoreInv, SoleInv
    <2>4. ASSUME NEW v \in Tasks, d \in todo'[u], d \in todo'[v] PROVE u = v
      BY <1>5, <1>6, <2>1, <2>4 DEF StoreInv, SoleInv, InFlight
    <2> QED BY <2>2, <2>3, <2>4
  <1>11. CleanInv'
    BY <1>1, <1>2, <1>3 DEF StoreInv, TypeOK, CleanInv
  <1>12. WrittenInv'
    BY <1>1, <1>2, <1>3 DEF StoreInv, TypeOK, WrittenInv
  <1> QED BY <1>1, <1>7, <1>8, <1>9, <1>10, <1>11, <1>12 DEF StoreInv

\* What a put does to the object, whether or not its answer arrives.
LEMMA PutDisk ==
  ASSUME TypeOK, NEW t \in Tasks, NEW d \in Dirs,
         backend' = [backend EXCEPT ![d] = snap[t][d]]
  PROVE  /\ Disk(d)' = snap[t][d]
         /\ \A x \in Dirs \ {d} : Disk(x)' = Disk(x)
  <1>1. snap[t][d] \in Manifest
    BY DEF TypeOK
  <1>2. backend'[d] = snap[t][d] /\ \A x \in Dirs \ {d} : backend'[x] = backend[x]
    BY DEF TypeOK
  <1> QED BY <1>1, <1>2, ConstantsAssumption DEF Disk, Decode

LEMMA FlushPutInv ==
  ASSUME StoreInv, NEW t \in Tasks, NEW d \in Dirs, FlushPut(t, d)
  PROVE  StoreInv'
  <1>1. TypeOK'
    BY FlushStepType DEF StoreInv
  <1>2. /\ Disk(d)' = snap[t][d]
        /\ \A x \in Dirs \ {d} : Disk(x)' = Disk(x)
    BY PutDisk DEF FlushPut, StoreInv
  <1>3. /\ d \in todo[t] /\ d \in buffered /\ snap[t][d] \in seen[d]
        /\ landed' = [landed EXCEPT ![t] = {d}]
        /\ buffered' = buffered /\ manifest' = manifest /\ written' = written /\ dirty' = dirty
        /\ pc' = pc /\ call' = call /\ fetched' = fetched /\ todo' = todo /\ snap' = snap
        /\ seen' = seen /\ overlapped' = overlapped /\ unacked' = unacked
    BY DEF FlushPut, StoreInv, FlightInv, bufVars, loadVars, history
  <1>4. FlightInv'
    <2>1. \A u \in Tasks : \A x, y \in landed'[u] : x = y
      BY <1>3 DEF StoreInv, TypeOK, FlightInv
    <2> QED BY <1>3, <2>1 DEF StoreInv, FlightInv
  <1>5. SeenInv'
    BY <1>2, <1>3 DEF StoreInv, SeenInv
  <1>6. LoadInv'
    <2> SUFFICES ASSUME NEW u \in Tasks PROVE LoadOK(u)'
      BY DEF LoadInv
    <2>1. call[u].dir \in Dirs
      BY DEF StoreInv, TypeOK, Calls
    <2>2. call[u].dir \notin buffered => Disk(call[u].dir)' = Disk(call[u].dir)
      BY <1>2, <1>3, <2>1
    <2> QED BY <1>3, <2>2 DEF StoreInv, LoadInv, LoadOK, Disk
  <1>7. SoleInv'
    <2> SUFFICES ASSUME NEW x \in Dirs, x \notin overlapped, NEW u \in Tasks
                 PROVE  /\ x \in todo[u] => x \in dirty
                        /\ x \in landed'[u] => Disk(x)' = snap[u][x]
                        /\ \A v \in Tasks : x \in todo[u] /\ x \in todo[v] => u = v
      BY <1>3 DEF SoleInv
    <2>1. x \in landed'[u] => Disk(x)' = snap[u][x]
      <3>1. CASE u = t
        BY <1>2, <1>3, <3>1 DEF StoreInv, TypeOK
      <3>2. CASE u # t
        <4>1. landed'[u] = landed[u] /\ landed[u] \subseteq todo[u]
          BY <1>3, <3>2 DEF StoreInv, TypeOK
        <4>2. x \in landed[u] => x # d
          BY <1>3, <3>2, <4>1 DEF StoreInv, SoleInv
        <4> QED BY <1>2, <4>1, <4>2 DEF StoreInv, SoleInv
      <3> QED BY <3>1, <3>2
    <2> QED BY <2>1 DEF StoreInv, SoleInv
  <1>8. CleanInv'
    <2> SUFFICES ASSUME NEW x \in buffered \ overlapped, x \notin dirty
                 PROVE  manifest[x] = Disk(x)'
      BY <1>3 DEF CleanInv
    <2>1. x \in Dirs /\ x # d
      BY <1>3 DEF StoreInv, TypeOK, SoleInv
    <2> QED BY <1>2, <2>1 DEF StoreInv, CleanInv
  <1>9. WrittenInv'
    <2> SUFFICES ASSUME NEW x \in buffered \ (overlapped \cup unacked),
                        \A u \in Tasks : x \notin landed'[u]
                 PROVE  written[x] = Disk(x)'
      BY <1>3 DEF WrittenInv
    <2>1. x \in Dirs /\ x # d
      BY <1>3 DEF StoreInv, TypeOK
    <2>2. \A u \in Tasks : x \notin landed[u]
      BY <1>3, <2>1 DEF StoreInv, TypeOK, FlushPut
    <2> QED BY <1>2, <2>1, <2>2 DEF StoreInv, WrittenInv
  <1> QED BY <1>1, <1>4, <1>5, <1>6, <1>7, <1>8, <1>9 DEF StoreInv

LEMMA FlushRecordInv ==
  ASSUME StoreInv, NEW t \in Tasks, NEW d \in Dirs, FlushRecord(t, d)
  PROVE  StoreInv'
  <1>1. TypeOK'
    BY FlushStepType DEF StoreInv
  <1>2. /\ d \in landed[t] /\ d \in todo[t] /\ d \in buffered
        /\ written' = [written EXCEPT ![d] = snap[t][d]]
        /\ dirty' = Cleaned(t, d)
        /\ landed' = [landed EXCEPT ![t] = {}]
        /\ todo' = [todo EXCEPT ![t] = todo[t] \ {d}]
        /\ unacked' = unacked \ {d}
        /\ backend' = backend /\ buffered' = buffered /\ manifest' = manifest
        /\ call' = call /\ fetched' = fetched
        /\ seen' = seen /\ overlapped' = overlapped
    BY DEF FlushRecord, StoreInv, TypeOK, FlightInv, loadVars
  <1>3. \A u \in Tasks : \A x \in todo'[u] : x \in todo[u] /\ snap'[u] = snap[u]
    BY DEF FlushRecord, StoreInv, TypeOK
  <1>4. \A u \in Tasks : u # t => landed'[u] = landed[u] /\ todo'[u] = todo[u]
    BY <1>2 DEF StoreInv, TypeOK
  <1>5. \A x \in Dirs : Disk(x)' = Disk(x)
    BY <1>2 DEF Disk
  <1>6. \A x \in Dirs \ {d} : x \in dirty' <=> x \in dirty
    BY <1>2 DEF Cleaned
  <1>7. FlightInv'
    <2>1. \A u \in Tasks : \A x, y \in landed'[u] : x = y
      BY <1>2, <1>4 DEF StoreInv, TypeOK, FlightInv
    <2> QED BY <1>2, <1>3, <2>1 DEF StoreInv, FlightInv
  <1>8. SeenInv'
    BY <1>2, <1>5 DEF StoreInv, SeenInv
  <1>9. LoadInv'
    <2> SUFFICES ASSUME NEW u \in Tasks PROVE LoadOK(u)'
      BY DEF LoadInv
    <2>1. pc'[u] \in {"insert", "apply"} => pc'[u] = pc[u]
      BY DEF FlushRecord, StoreInv, TypeOK
    <2> QED BY <1>2, <2>1 DEF StoreInv, LoadInv, LoadOK, Disk
  <1>10. SoleInv'
    <2> SUFFICES ASSUME NEW x \in Dirs, x \notin overlapped, NEW u \in Tasks
                 PROVE  /\ x \in todo'[u] => x \in dirty'
                        /\ x \in landed'[u] => Disk(x) = snap'[u][x]
                        /\ \A v \in Tasks : x \in todo'[u] /\ x \in todo'[v] => u = v
      BY <1>2, <1>5 DEF SoleInv
    <2>1. x \in todo'[u] => x # d
      BY <1>2, <1>4 DEF StoreInv, TypeOK, SoleInv
    <2>2. x \in todo'[u] => x \in dirty'
      BY <1>3, <1>6, <2>1 DEF StoreInv, SoleInv
    <2>3. x \in landed'[u] => Disk(x) = snap'[u][x]
      <3>1. x \in landed'[u] => u # t /\ x \in landed[u] /\ x \in todo'[u]
        BY <1>1, <1>2, <1>4 DEF StoreInv, TypeOK
      <3> QED BY <1>3, <3>1 DEF StoreInv, SoleInv
    <2> QED BY <1>3, <2>2, <2>3 DEF StoreInv, SoleInv
  <1>11. CleanInv'
    <2> SUFFICES ASSUME NEW x \in buffered \ overlapped, x \notin dirty'
                 PROVE  manifest[x] = Disk(x)
      BY <1>2, <1>5 DEF CleanInv, StoreInv, TypeOK
    <2>0. x \in Dirs
      BY DEF StoreInv, TypeOK
    <2>1. CASE x = d
      <3>1. Disk(d) = snap[t][d]
        BY <1>2, <2>1 DEF StoreInv, SoleInv
      <3>2. CASE manifest[d] = snap[t][d]
        BY <2>1, <3>1, <3>2
      <3>3. CASE manifest[d] # snap[t][d]
        BY <1>2, <2>1, <3>3 DEF Cleaned, StoreInv, CleanInv
      <3> QED BY <3>2, <3>3
    <2>2. CASE x # d
      BY <1>6, <2>0, <2>2 DEF StoreInv, CleanInv
    <2> QED BY <2>1, <2>2
  <1>12. WrittenInv'
    <2> SUFFICES ASSUME NEW x \in buffered \ (overlapped \cup unacked'),
                        \A u \in Tasks : x \notin landed'[u]
                 PROVE  written'[x] = Disk(x)
      BY <1>2, <1>5 DEF WrittenInv, StoreInv, TypeOK
    <2>0. x \in Dirs
      BY DEF StoreInv, TypeOK
    <2>1. CASE x = d
      BY <1>2, <2>1 DEF StoreInv, TypeOK, SoleInv
    <2>2. CASE x # d
      <3>1. landed[t] = {d}
        BY <1>2 DEF StoreInv, FlightInv
      <3>2. \A u \in Tasks : x \notin landed[u]
        BY <1>4, <2>2, <3>1
      <3> QED BY <1>2, <2>0, <2>2, <3>2 DEF StoreInv, TypeOK, WrittenInv
    <2> QED BY <2>1, <2>2
  <1> QED BY <1>1, <1>7, <1>8, <1>9, <1>10, <1>11, <1>12 DEF StoreInv

LEMMA LoadFetchErrInv ==
  ASSUME StoreInv, NEW t \in Tasks, LoadFetchErr(t)
  PROVE  StoreInv'
  <1>1. TypeOK'
    BY FaultStepType DEF StoreInv, FaultStep
  <1>2. UNCHANGED <<backend, bufVars, flushVars, history>>
    BY DEF LoadFetchErr
  <1>3. LoadInv'
    BY <1>2 DEF LoadFetchErr, Return, StoreInv, TypeOK, LoadInv, LoadOK, Disk, bufVars
  <1>4. FlightInv' /\ SeenInv' /\ SoleInv' /\ CleanInv' /\ WrittenInv'
    BY <1>2 DEF StoreInv, FlightInv, SeenInv, SoleInv, CleanInv, WrittenInv, Disk,
                bufVars, flushVars, history
  <1> QED BY <1>1, <1>3, <1>4 DEF StoreInv

LEMMA FlushPutErrInv ==
  ASSUME StoreInv, NEW t \in Tasks, NEW d \in Dirs, FlushPutErr(t, d)
  PROVE  StoreInv'
  <1>1. TypeOK'
    BY FaultStepType DEF StoreInv, FaultStep
  <1>2. /\ \A x \in Dirs : Disk(x)' = Disk(x)
        /\ buffered' = buffered /\ manifest' = manifest /\ written' = written /\ dirty' = dirty
        /\ landed' = landed /\ call' = call /\ fetched' = fetched /\ backend' = backend
        /\ seen' = seen /\ overlapped' = overlapped /\ unacked' = unacked
    BY DEF FlushPutErr, bufVars, loadVars, history, Disk
  <1>3. /\ \A u \in Tasks : \A x \in todo'[u] : x \in todo[u] /\ snap'[u] = snap[u]
        /\ \A u \in Tasks : \A x \in landed[u] : snap'[u] = snap[u]
        /\ \A u \in Tasks : pc'[u] \in {"insert", "apply"} => pc'[u] = pc[u]
    BY DEF FlushPutErr, FlushAbort, StoreInv, TypeOK
  <1>4. FlightInv'
    BY <1>2, <1>3 DEF StoreInv, FlightInv
  <1>5. LoadInv'
    BY <1>2, <1>3 DEF StoreInv, LoadInv, LoadOK, Disk
  <1>6. SoleInv'
    BY <1>2, <1>3 DEF StoreInv, SoleInv
  <1>7. SeenInv' /\ CleanInv' /\ WrittenInv'
    BY <1>2 DEF StoreInv, TypeOK, SeenInv, CleanInv, WrittenInv
  <1> QED BY <1>1, <1>4, <1>5, <1>6, <1>7 DEF StoreInv

LEMMA FlushPutLostAckInv ==
  ASSUME StoreInv, NEW t \in Tasks, NEW d \in Dirs, FlushPutLostAck(t, d)
  PROVE  StoreInv'
  <1>1. TypeOK'
    BY FaultStepType DEF StoreInv, FaultStep
  <1>2. /\ Disk(d)' = snap[t][d]
        /\ \A x \in Dirs \ {d} : Disk(x)' = Disk(x)
    BY PutDisk DEF FlushPutLostAck, StoreInv
  <1>3. /\ d \in todo[t] /\ d \in buffered /\ snap[t][d] \in seen[d] /\ landed[t] = {}
        /\ buffered' = buffered /\ manifest' = manifest /\ written' = written /\ dirty' = dirty
        /\ landed' = landed /\ call' = call /\ fetched' = fetched
        /\ seen' = seen /\ overlapped' = overlapped /\ unacked' = unacked \cup {d}
    BY DEF FlushPutLostAck, StoreInv, FlightInv, bufVars, loadVars
  <1>4. /\ \A u \in Tasks : \A x \in todo'[u] : x \in todo[u] /\ snap'[u] = snap[u]
        /\ \A u \in Tasks : \A x \in landed[u] : snap'[u] = snap[u] /\ u # t
        /\ \A u \in Tasks : pc'[u] \in {"insert", "apply"} => pc'[u] = pc[u]
    BY <1>3 DEF FlushPutLostAck, FlushAbort, StoreInv, TypeOK
  <1>5. FlightInv'
    BY <1>3, <1>4 DEF StoreInv, FlightInv
  <1>6. SeenInv'
    BY <1>2, <1>3 DEF StoreInv, SeenInv
  <1>7. LoadInv'
    <2> SUFFICES ASSUME NEW u \in Tasks PROVE LoadOK(u)'
      BY DEF LoadInv
    <2>1. call[u].dir \in Dirs
      BY DEF StoreInv, TypeOK, Calls
    <2>2. call[u].dir \notin buffered => Disk(call[u].dir)' = Disk(call[u].dir)
      BY <1>2, <1>3, <2>1
    <2> QED BY <1>3, <1>4, <2>2 DEF StoreInv, LoadInv, LoadOK, Disk
  <1>8. SoleInv'
    <2> SUFFICES ASSUME NEW x \in Dirs, x \notin overlapped, NEW u \in Tasks
                 PROVE  /\ x \in todo'[u] => x \in dirty
                        /\ x \in landed[u] => Disk(x)' = snap'[u][x]
                        /\ \A v \in Tasks : x \in todo'[u] /\ x \in todo'[v] => u = v
      BY <1>3 DEF SoleInv
    <2>1. x \in landed[u] => Disk(x)' = snap'[u][x]
      <3>1. x \in landed[u] => u # t /\ x \in todo[u] /\ snap'[u] = snap[u]
        BY <1>4 DEF StoreInv, TypeOK
      <3>2. x \in landed[u] => x # d
        BY <1>3, <3>1 DEF StoreInv, SoleInv
      <3> QED BY <1>2, <3>1, <3>2 DEF StoreInv, SoleInv
    <2> QED BY <1>4, <2>1 DEF StoreInv, SoleInv
  <1>9. CleanInv'
    <2> SUFFICES ASSUME NEW x \in buffered \ overlapped, x \notin dirty
                 PROVE  manifest[x] = Disk(x)'
      BY <1>3 DEF CleanInv
    <2>1. x \in Dirs /\ x # d
      BY <1>3 DEF StoreInv, TypeOK, SoleInv
    <2> QED BY <1>2, <2>1 DEF StoreInv, CleanInv
  <1>10. WrittenInv'
    BY <1>2, <1>3 DEF StoreInv, TypeOK, WrittenInv
  <1> QED BY <1>1, <1>5, <1>6, <1>7, <1>8, <1>9, <1>10 DEF StoreInv

LEMMA ClockInv ==
  ASSUME StoreInv, (\E d \in Dirs : Elapse(d)) \/ SetInterval
  PROVE  StoreInv'
  <1>1. TypeOK'
    BY NextType DEF StoreInv, Next
  <1>2. UNCHANGED <<backend, buffered, manifest, written, dirty, taskVars, history>>
    BY DEF Elapse, SetInterval
  <1>3. FlightInv' /\ SeenInv' /\ LoadInv' /\ SoleInv' /\ CleanInv' /\ WrittenInv'
    BY <1>2 DEF StoreInv, FlightInv, SeenInv, LoadInv, LoadOK, SoleInv, CleanInv, WrittenInv,
                Disk, taskVars, loadVars, flushVars, history
  <1> QED BY <1>1, <1>3 DEF StoreInv

LEMMA CrashInv == StoreInv /\ Crash => StoreInv'
  <1> SUFFICES ASSUME StoreInv, Crash PROVE StoreInv'
    OBVIOUS
  <1>1. TypeOK'
    BY CrashType DEF StoreInv
  <1>2. SeenInv'
    BY DEF Crash, SeenInv, Disk
  <1>3. FlightInv' /\ LoadInv' /\ SoleInv' /\ CleanInv' /\ WrittenInv'
    BY DEF Crash, FlightInv, LoadInv, LoadOK, SoleInv, CleanInv, WrittenInv
  <1> QED BY <1>1, <1>2, <1>3 DEF StoreInv

LEMMA NextInv == StoreInv /\ [Next]_vars => StoreInv'
  <1> SUFFICES ASSUME StoreInv, [Next]_vars PROVE StoreInv'
    OBVIOUS
  <1>1. ASSUME NEW t \in Workers, CallStep(t) PROVE StoreInv'
    BY <1>1, LoadCallInv, FlushSnapshotInv DEF CallStep, Workers, Reasons
  <1>2. CASE FlushSnapshot(Timer, "Timer")
    BY <1>2, FlushSnapshotInv, ConstantsAssumption DEF Reasons
  <1>3. ASSUME NEW t \in Tasks, LoadStep(t) PROVE StoreInv'
    BY <1>3, LoadFetchInv, LoadInsertInv, EditApplyInv DEF LoadStep
  <1>4. ASSUME NEW t \in Tasks, FlushStep(t) PROVE StoreInv'
    BY <1>4, FlushPutInv, FlushRecordInv DEF FlushStep
  <1>5. ASSUME NEW t \in Tasks, FaultStep(t) PROVE StoreInv'
    BY <1>5, LoadFetchErrInv, FlushPutErrInv, FlushPutLostAckInv DEF FaultStep
  <1>6. CASE (\E d \in Dirs : Elapse(d)) \/ SetInterval
    BY <1>6, ClockInv
  <1>7. CASE Crash
    BY <1>7, CrashInv
  <1>8. CASE UNCHANGED vars
    <2>1. TypeOK'
      BY <1>8, NextType DEF StoreInv
    <2>2. FlightInv' /\ SeenInv' /\ LoadInv' /\ SoleInv' /\ CleanInv' /\ WrittenInv'
      BY <1>8 DEF StoreInv, FlightInv, SeenInv, LoadInv, LoadOK, SoleInv, CleanInv, WrittenInv,
                  Disk, vars, bufVars, taskVars, loadVars, flushVars, history
    <2> QED BY <2>1, <2>2 DEF StoreInv
  <1> QED BY <1>1, <1>2, <1>3, <1>4, <1>5, <1>6, <1>7, <1>8 DEF Next

\* The invariant holds in every reachable state.
THEOREM StoreInvariant == Spec => []StoreInv
  BY InitInv, NextInv, PTL DEF Spec

-----------------------------------------------------------------------------
(* What it is for *)

LEMMA InvNothingStranded == StoreInv => NothingStranded
  <1> SUFFICES ASSUME StoreInv, NEW d \in buffered \ (overlapped \cup unacked),
                      manifest[d] # Disk(d), ~InFlight(d)
               PROVE  d \in Select("Forced")
    BY DEF NothingStranded
  <1>1. d \in Dirs /\ d \in dirty
    BY DEF StoreInv, TypeOK, CleanInv
  <1>2. \A t \in Tasks : d \notin landed[t]
    BY DEF InFlight, StoreInv, TypeOK
  <1>3. written[d] = Disk(d)
    BY <1>2 DEF StoreInv, WrittenInv
  <1> QED BY <1>1, <1>3 DEF Select

\* No update is left in memory with nothing that will write it, for any number
\* of directories, names and tasks: the flush of manifest_store.rs loses none
\* unless two flushes of one directory overlapped or a put's answer was lost.
THEOREM NoUpdateStranded == Spec => []NothingStranded
  BY StoreInvariant, InvNothingStranded, PTL

-----------------------------------------------------------------------------
(* Refinement of ManifestRegister *)

views == [d \in Dirs |-> View(d)]
disks == [d \in Dirs |-> Disk(d)]

LEMMA InitRefines == Init => Register!Init
  <1> SUFFICES ASSUME Init PROVE Register!Init
    OBVIOUS
  <1>1. disks \in [Dirs -> Manifest]
    BY InitType, DiskType DEF disks
  <1>2. views = disks
    BY DEF views, disks, View, Init
  <1>3. seen = [d \in Dirs |-> {disks[d]}]
    BY DEF Init, disks
  <1> QED BY <1>1, <1>2, <1>3 DEF Register!Init, Register!Manifest, Manifest, views, disks

\* A step that changes neither the objects nor any view is a stutter.
LEMMA StutterRefines ==
  ASSUME \A d \in Dirs : View(d)' = View(d) /\ Disk(d)' = Disk(d), seen' = seen
  PROVE  UNCHANGED Register!vars
  BY DEF Register!vars

LEMMA LoadInsertRefines ==
  ASSUME StoreInv, NEW t \in Tasks, LoadInsert(t)
  PROVE  UNCHANGED Register!vars
  <1> DEFINE d == call[t].dir
  <1>1. d \in Dirs /\ buffered' = buffered \cup {d} /\ backend' = backend /\ seen' = seen
    BY DEF LoadInsert, StoreInv, TypeOK, Calls, history
  <1>2. d \notin buffered => manifest' = [manifest EXCEPT ![d] = Disk(d)]
    BY DEF LoadInsert, StoreInv, LoadInv, LoadOK
  <1>3. d \in buffered => manifest' = manifest
    BY DEF LoadInsert
  <1>4. \A x \in Dirs : Disk(x)' = Disk(x)
    BY <1>1 DEF Disk
  <1>5. \A x \in Dirs : View(x)' = View(x)
    BY <1>1, <1>2, <1>3, <1>4 DEF View, StoreInv, TypeOK
  <1> QED BY <1>1, <1>4, <1>5, StutterRefines

LEMMA EditApplyRefines ==
  ASSUME StoreInv, NEW t \in Tasks, EditApply(t)
  PROVE  \E d \in Dirs : Register!Edit(d)
  <1> DEFINE d == call[t].dir
             n == call[t].name
             m == Edited(call[t], manifest[d])
  <1>1. /\ d \in Dirs /\ d \in buffered /\ n \in Names
        /\ manifest' = [manifest EXCEPT ![d] = m]
        /\ seen' = [seen EXCEPT ![d] = @ \cup {m}]
        /\ backend' = backend /\ buffered' = buffered
    BY DEF EditApply, StoreInv, TypeOK, LoadInv, LoadOK, Calls
  <1>2. m = views[d] \cup {n} \/ m = views[d] \ {n}
    BY <1>1 DEF Edited, views, View
  <1>3. disks' = disks
    BY <1>1 DEF disks, Disk
  <1>4. views' = [views EXCEPT ![d] = m]
    <2>1. \A x \in Dirs : View(x)' = IF x = d THEN m ELSE View(x)
      BY <1>1 DEF View, Disk, StoreInv, TypeOK
    <2> QED BY <1>1, <2>1 DEF views
  <1>5. views'[d] = m
    BY <1>1, <1>4 DEF views
  <1> HIDE DEF d, n, m
  <1>6. \E k \in Names : views' \in {[views EXCEPT ![d] = @ \cup {k}], [views EXCEPT ![d] = @ \ {k}]}
    <2>1. views' \in {[views EXCEPT ![d] = views[d] \cup {n}], [views EXCEPT ![d] = views[d] \ {n}]}
      BY <1>2, <1>4
    <2> QED BY <1>1, <2>1
  <1>7. seen' = [seen EXCEPT ![d] = @ \cup {views'[d]}]
    BY <1>1, <1>5
  <1>8. Register!Edit(d)
    BY <1>3, <1>6, <1>7 DEF Register!Edit, views, disks
  <1> QED BY <1>1, <1>8

LEMMA PutRefines ==
  ASSUME StoreInv, NEW t \in Tasks, NEW d \in Dirs, FlushPut(t, d) \/ FlushPutLostAck(t, d)
  PROVE  Register!WriteBack(d)
  <1>1. /\ d \in todo[t] /\ d \in buffered /\ snap[t][d] \in seen[d]
        /\ backend' = [backend EXCEPT ![d] = snap[t][d]]
        /\ buffered' = buffered /\ manifest' = manifest /\ seen' = seen
    BY DEF FlushPut, FlushPutLostAck, StoreInv, FlightInv, bufVars, history
  <1>2. /\ Disk(d)' = snap[t][d]
        /\ \A x \in Dirs \ {d} : Disk(x)' = Disk(x)
    BY <1>1, PutDisk DEF StoreInv
  <1>3. disks' = [disks EXCEPT ![d] = snap[t][d]]
    BY <1>2 DEF disks
  <1>4. views' = views
    BY <1>1, <1>2 DEF views, View
  <1> QED BY <1>1, <1>3, <1>4 DEF Register!WriteBack, views, disks

LEMMA CrashRefines ==
  ASSUME StoreInv, Crash
  PROVE  Register!Crash
  <1>1. disks' = disks /\ views' = disks
    BY DEF Crash, disks, views, View, Disk
  <1>2. seen' = [d \in Dirs |-> {disks[d]}]
    BY DEF Crash, disks
  <1> QED BY <1>1, <1>2 DEF Register!Crash, views, disks

\* The remaining steps touch neither the objects nor the contents of the map.
LEMMA SilentRefines ==
  ASSUME UNCHANGED <<backend, buffered, manifest, seen>>
  PROVE  UNCHANGED Register!vars
  BY StutterRefines DEF View, Disk

LEMMA NextRefines == StoreInv /\ [Next]_vars => [Register!Next]_(Register!vars)
  <1> SUFFICES ASSUME StoreInv, [Next]_vars PROVE Register!Next \/ UNCHANGED Register!vars
    OBVIOUS
  <1>1. ASSUME NEW t \in Workers, CallStep(t) PROVE UNCHANGED Register!vars
    BY <1>1, SilentRefines DEF CallStep, LoadHit, LoadMiss, FlushSnapshot, bufVars, history
  <1>2. CASE FlushSnapshot(Timer, "Timer")
    BY <1>2, SilentRefines DEF FlushSnapshot, bufVars
  <1>3. ASSUME NEW t \in Tasks, LoadStep(t) PROVE Register!Next \/ UNCHANGED Register!vars
    <2>1. CASE LoadFetch(t)
      BY <2>1, SilentRefines DEF LoadFetch, bufVars, history
    <2>2. CASE LoadInsert(t)
      BY <2>2, LoadInsertRefines
    <2>3. CASE EditApply(t)
      BY <2>3, EditApplyRefines DEF Register!Next
    <2> QED BY <1>3, <2>1, <2>2, <2>3 DEF LoadStep
  <1>4. ASSUME NEW t \in Tasks, NEW d \in Dirs,
               FlushPut(t, d) \/ FlushPutLostAck(t, d) \/ FlushPutErr(t, d) \/ FlushRecord(t, d)
        PROVE  Register!Next \/ UNCHANGED Register!vars
    <2>1. CASE FlushPut(t, d) \/ FlushPutLostAck(t, d)
      BY <2>1, PutRefines DEF Register!Next
    <2>2. CASE FlushPutErr(t, d) \/ FlushRecord(t, d)
      BY <2>2, SilentRefines DEF FlushPutErr, FlushRecord, bufVars, history
    <2> QED BY <1>4, <2>1, <2>2
  <1>5. ASSUME NEW t \in Tasks, LoadFetchErr(t) PROVE UNCHANGED Register!vars
    BY <1>5, SilentRefines DEF LoadFetchErr, bufVars, history
  <1>6. CASE (\E d \in Dirs : Elapse(d)) \/ SetInterval
    BY <1>6, SilentRefines DEF Elapse, SetInterval, history
  <1>7. CASE Crash
    BY <1>7, CrashRefines DEF Register!Next
  <1>8. CASE UNCHANGED vars
    BY <1>8, SilentRefines DEF vars, bufVars, history
  <1>9. ASSUME NEW t \in Tasks, FlushStep(t) \/ FaultStep(t)
        PROVE  Register!Next \/ UNCHANGED Register!vars
    BY <1>4, <1>5, <1>9 DEF FlushStep, FaultStep
  <1> QED BY <1>1, <1>2, <1>3, <1>6, <1>7, <1>8, <1>9 DEF Next

\* The manifest store implements one register per directory, for any number of
\* directories, names and tasks: concurrent edits are serialised, a late load
\* never overwrites them, only contents the directory had are ever stored, and
\* a crash loses exactly what had not been written back.
THEOREM StoreImplementsRegister == Spec => ImplementsRegister
  <1>1. Init => Register!Init
    BY InitRefines
  <1>2. StoreInv /\ [Next]_vars => [Register!Next]_(Register!vars)
    BY NextRefines
  <1> QED BY <1>1, <1>2, StoreInvariant, PTL DEF Spec, ImplementsRegister, Register!Spec
=============================================================================
