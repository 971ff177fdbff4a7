------------------------- MODULE TransferHubProofs -------------------------
(* Proofs about TransferHub and TransferBar, for any number of jobs, files and permits. *)
EXTENDS TransferBar, FiniteSetTheorems, SequenceTheorems, TLAPS

-----------------------------------------------------------------------------
(* The inductive invariant *)

\* A job's files enter the hub with it: none before its admit, all still
\* waiting while it has not announced them.
JobInv ==
    /\ \A f \in Files : jpc[JobOf[f]] = "new" <=> fpc[f] = "none"
    /\ \A f \in Files : jpc[JobOf[f]] = "announce" => fpc[f] = "admitted"

HubInv == TypeOK /\ JobInv /\ NoDrainRace

-----------------------------------------------------------------------------

\* Every set of files the hub counts is finite, so its cardinality is a number.
LEMMA FileSets == \A S \in SUBSET Files : IsFiniteSet(S) /\ Cardinality(S) \in Nat
<1> TAKE S \in SUBSET Files
<1>1. IsFiniteSet(S) BY FS_Subset, HubAssumption DEF HubAssumption
<1>2. Cardinality(S) \in Nat BY <1>1, FS_CardinalityType
<1> QED BY <1>1, <1>2

\* Before the first job, the hub is closed and counts nothing.
LEMMA HubInit == Init => HubInv
<1> SUFFICES ASSUME Init PROVE HubInv OBVIOUS
<1> USE HubAssumption DEF HubAssumption
<1>1. NoSems \in Semaphores BY DEF NoSems, Semaphores
<1>2. NoAdmission \in Admissions BY <1>1 DEF NoAdmission, Admissions
<1>3. TypeOK BY <1>1, <1>2 DEF Init, TypeOK, FilePcs
<1>4. JobInv BY DEF Init, JobInv
<1>5. Live = {} BY DEF Init, Live
<1>6. NoDrainRace BY <1>5, FS_EmptySet DEF Init, NoDrainRace
<1> QED BY <1>3, <1>4, <1>6 DEF HubInv

\* The types of the semaphores a job is handed.
LEMMA SemsType == ASSUME TypeOK, NEW j \in Jobs PROVE BatchSems(j) \in Semaphores
<1> USE HubAssumption DEF HubAssumption
<1>1. NewSems(j) \in Semaphores BY DEF NewSems, Semaphores
<1>2. sems \in Semaphores BY DEF TypeOK
<1> QED BY <1>1, <1>2 DEF BatchSems

\* admit: the files of the job become live, together, in the batch it is given.
LEMMA AdmitStep == ASSUME HubInv, NEW j \in Jobs, Admit(j) PROVE HubInv'
<1> USE HubAssumption DEF HubAssumption
<1> DEFINE F == FilesOf(j)
           n == Cardinality(F)
           fresh == status = "closed"
           b == IF fresh THEN batch + 1 ELSE batch
           total == (IF fresh THEN 0 ELSE totalFiles) + n
           rec == [fresh |-> fresh, batch |-> b, total |-> total, sems |-> BatchSems(j)]
<1>0. TypeOK /\ JobInv /\ NoDrainRace BY DEF HubInv
<1>1. F \subseteq Files /\ F # {} /\ n \in Nat /\ IsFiniteSet(F)
  BY FileSets DEF FilesOf
<1>2. b \in Nat /\ total \in Nat BY <1>0, <1>1 DEF TypeOK
<1>3. rec \in Admissions
  <2>1. fresh \in BOOLEAN OBVIOUS
  <2>2. BatchSems(j) \in Semaphores BY <1>0, SemsType
  <2> HIDE DEF fresh, b, total
  <2> QED BY <1>2, <2>1, <2>2 DEF Admissions
<1>4. admission' = [admission EXCEPT ![j] = rec] BY DEF Admit
<1>5. \A f \in Files : f \in F <=> JobOf[f] = j BY DEF FilesOf
<1>6. \A f \in F : fpc[f] = "none" BY <1>0, <1>1, <1>5 DEF JobInv, Admit
<1>7. \A f \in Files : fpc'[f] = IF f \in F THEN "admitted" ELSE fpc[f] BY DEF Admit
<1>8. Live' = Live \cup F /\ Live \cap F = {} BY <1>1, <1>6, <1>7 DEF Live
<1>9. fresh => Live = {} /\ outstanding = 0 BY <1>0, FS_EmptySet DEF NoDrainRace
<1>10. registered' = {f \in Files : fpc'[f] \in {"queued", "running", "ending"}}
  <2>1. registered' = registered BY <1>0, <1>9 DEF Admit, TypeOK, Live
  <2> QED BY <2>1, <1>0, <1>6, <1>7 DEF TypeOK
<1>11. outstanding' = Cardinality(Live')
  <2>1. Live \in SUBSET Files BY DEF Live
  <2>2. Cardinality(Live') = Cardinality(Live) + n
    <3>1. Cardinality(Live \cap F) = 0 BY <1>8, FS_EmptySet
    <3>2. IsFiniteSet(Live) /\ Cardinality(Live) \in Nat BY <2>1, FileSets
    <3>3. Cardinality(Live \cup F) = Cardinality(Live) + Cardinality(F) - Cardinality(Live \cap F)
      BY <1>1, <3>2, FS_Union
    <3> QED BY <1>1, <1>8, <3>1, <3>2, <3>3
  <2> QED BY <2>2, <1>0, <1>9 DEF NoDrainRace, Admit
<1>12. \A f \in Live' : BatchOf(f)' = batch'
  <2>1. batch' = b BY DEF Admit
  <2>2. ASSUME NEW f \in F PROVE BatchOf(f)' = b
    BY <1>0, <1>1, <1>4, <1>5 DEF TypeOK, BatchOf
  <2>3. ASSUME NEW f \in Live, f \notin F PROVE BatchOf(f)' = b
    <3>1. f \in Files /\ JobOf[f] # j /\ ~fresh BY <2>3, <1>5, <1>9 DEF Live
    <3>2. admission'[JobOf[f]] = admission[JobOf[f]] BY <1>0, <1>4, <3>1 DEF TypeOK
    <3> QED BY <1>0, <2>3, <3>1, <3>2 DEF NoDrainRace, BatchOf
  <2> QED BY <2>1, <2>2, <2>3, <1>8
<1>13. NoDrainRace'
  <2>1. status' = "open" /\ Live' # {} BY <1>1, <1>8 DEF Admit
  <2> QED BY <2>1, <1>11, <1>12 DEF NoDrainRace
<1>14. JobInv'
  <2>1. \A f \in Files : jpc'[JobOf[f]] = IF f \in F THEN "announce" ELSE jpc[JobOf[f]]
    BY <1>0, <1>5 DEF TypeOK, Admit
  <2> QED BY <1>0, <1>7, <2>1 DEF JobInv
<1>15. TypeOK'
  <2>1. sems' \in Semaphores BY <1>0, SemsType DEF Admit
  <2>2. admission' \in [Jobs -> Admissions] BY <1>0, <1>3, <1>4 DEF TypeOK
  <2>3. outstanding' \in Nat /\ totalFiles' \in Nat /\ batch' \in Nat
    BY <1>0, <1>1, <1>2 DEF TypeOK, Admit
  <2>4. fpc' \in [Files -> FilePcs] BY <1>0, <1>7 DEF TypeOK, Admit, FilePcs
  <2> QED BY <1>0, <1>10, <2>1, <2>2, <2>3, <2>4 DEF TypeOK, Admit, results
<1> QED BY <1>13, <1>14, <1>15 DEF HubInv

\* The steps of one file's task, and of the job, that leave it live (or not):
\* the count and the batch do not move.
LEMMA SameLive ==
    ASSUME HubInv, UNCHANGED <<hubVars, admission>>, Live' = Live
    PROVE  NoDrainRace'
BY DEF HubInv, NoDrainRace, hubVars, BatchOf

LEMMA QuietStep ==
    ASSUME HubInv, NEW f \in Files,
           Spawn(f) \/ Acquire(f) \/ Succeed(f) \/ Fail(f) \/ Unregister(f) \/ EmitFinished(f)
    PROVE  HubInv'
<1> USE HubAssumption DEF HubAssumption
<1>0. TypeOK /\ JobInv /\ NoDrainRace BY DEF HubInv
<1>1. UNCHANGED <<hubVars, jobVars>>
  BY DEF Spawn, Acquire, Succeed, Fail, Unregister, EmitFinished
<1>2. PICK p \in FilePcs : /\ fpc' = [fpc EXCEPT ![f] = p]
                           /\ fpc[f] # "none" /\ p # "none"
                           /\ jpc[JobOf[f]] # "announce" \/ fpc[f] # "admitted"
                           /\ f \in Live <=> p \in FilePcs \ {"none", "emitting", "gone"}
                           /\ registered' = IF p \in {"queued", "running", "ending"}
                                            THEN registered \cup {f} ELSE registered \ {f}
  BY <1>0 DEF Spawn, Acquire, Succeed, Fail, Unregister, EmitFinished, TypeOK, FilePcs, Live,
              tokens, AfterAcquire
<1>3. \A g \in Files : fpc'[g] = IF g = f THEN p ELSE fpc[g] BY <1>0, <1>2 DEF TypeOK
<1>4. Live' = Live BY <1>2, <1>3 DEF Live, FilePcs
<1>5. NoDrainRace' BY <1>1, <1>4, SameLive DEF jobVars
<1>6. JobInv' BY <1>0, <1>1, <1>2, <1>3 DEF JobInv, jobVars
<1>7. TypeOK'
  <2>1. fpc' \in [Files -> FilePcs] BY <1>0, <1>2 DEF TypeOK
  <2>2. registered' = {g \in Files : fpc'[g] \in {"queued", "running", "ending"}}
    BY <1>0, <1>2, <1>3 DEF TypeOK
  <2>3. done' \subseteq Files /\ failed' \subseteq Files /\ errors' \subseteq Files
        /\ cancelled' = cancelled /\ stopped' = stopped
    BY <1>0 DEF TypeOK, Spawn, Acquire, Succeed, Fail, Unregister, EmitFinished, tokens, results
  <2> QED BY <1>0, <1>1, <2>1, <2>2, <2>3 DEF TypeOK, hubVars, jobVars
<1> QED BY <1>5, <1>6, <1>7 DEF HubInv

\* task_done: one file fewer, and the batch is closed with the last.
LEMMA TaskDoneStep == ASSUME HubInv, NEW f \in Files, TaskDone(f) PROVE HubInv'
<1> USE HubAssumption DEF HubAssumption
<1>0. TypeOK /\ JobInv /\ NoDrainRace BY DEF HubInv
<1>1. f \in Live /\ Live \in SUBSET Files BY DEF TaskDone, Live
<1>2. outstanding \in Nat \ {0} /\ status = "open"
  <2>1. Cardinality(Live) # 0 BY <1>1, FileSets, FS_EmptySet
  <2> QED BY <2>1, <1>0, <1>1, FileSets DEF NoDrainRace, TypeOK
<1>3. outstanding' = outstanding - 1 BY <1>2 DEF TaskDone
<1>4. PICK p \in {"emitting", "gone"} : fpc' = [fpc EXCEPT ![f] = p]
  BY DEF TaskDone
<1>5. \A g \in Files : fpc'[g] = IF g = f THEN p ELSE fpc[g] BY <1>0, <1>4 DEF TypeOK
<1>6. Live' = Live \ {f} BY <1>4, <1>5 DEF Live
<1>7. outstanding' = Cardinality(Live')
  BY <1>0, <1>1, <1>3, <1>6, FileSets, FS_RemoveElement DEF NoDrainRace
<1>8. status' = IF outstanding' = 0 THEN "closed" ELSE "open"
  BY <1>2, <1>3 DEF TaskDone, Drains
<1>9. status' = "open" <=> Live' # {}
  <2>1. Live' \in SUBSET Files BY <1>1, <1>6
  <2>2. Cardinality(Live') = 0 <=> Live' = {} BY <2>1, FileSets, FS_EmptySet
  <2> QED BY <2>2, <1>7, <1>8
<1>10. NoDrainRace'
  <2>1. UNCHANGED <<batch, admission>> BY DEF TaskDone, jobVars
  <2> QED BY <1>0, <1>6, <1>7, <1>9, <2>1 DEF NoDrainRace, BatchOf
<1>11. JobInv' BY <1>0, <1>4, <1>5 DEF JobInv, TaskDone, jobVars
<1>12. TypeOK'
  <2>1. fpc' \in [Files -> FilePcs] BY <1>0, <1>4 DEF TypeOK, FilePcs
  <2>2. registered' = {g \in Files : fpc'[g] \in {"queued", "running", "ending"}}
    BY <1>0, <1>4, <1>5 DEF TypeOK, TaskDone, tokens
  <2>3. outstanding' \in Nat BY <1>2, <1>3
  <2>4. status' \in {"open", "closed"} BY <1>8
  <2> QED BY <1>0, <2>1, <2>2, <2>3, <2>4 DEF TypeOK, TaskDone, jobVars, tokens, results
<1> QED BY <1>10, <1>11, <1>12 DEF HubInv

\* The announcement and the cancel commands leave the files where they are.
LEMMA StillStep ==
    ASSUME HubInv,
           (\E j \in Jobs : Announce(j)) \/ CancelAll \/ (\E f \in Files : CancelFile(f))
    PROVE  HubInv'
<1> USE HubAssumption DEF HubAssumption
<1>0. TypeOK /\ JobInv /\ NoDrainRace BY DEF HubInv
<1>1. UNCHANGED <<hubVars, admission, fpc, registered, results>>
  BY DEF Announce, CancelAll, CancelFile, jobVars, tokens
<1>2. NoDrainRace' BY <1>1, SameLive DEF Live
<1>3. jpc' \in [Jobs -> {"new", "announce", "spawn"}] /\ JobInv'
  <2>1. CASE \E j \in Jobs : Announce(j)
    BY <2>1, <1>0, <1>1 DEF Announce, TypeOK, JobInv
  <2>2. CASE CancelAll \/ \E f \in Files : CancelFile(f)
    BY <2>2, <1>0, <1>1 DEF CancelAll, CancelFile, TypeOK, JobInv, jobVars
  <2> QED BY <2>1, <2>2
<1>4. cancelled' \subseteq Files /\ stopped' \subseteq Nat
  BY <1>0 DEF TypeOK, Announce, CancelAll, CancelFile, tokens
<1>5. TypeOK' BY <1>0, <1>1, <1>3, <1>4 DEF TypeOK, hubVars, results
<1> QED BY <1>2, <1>3, <1>5 DEF HubInv

\* Every step of the hub keeps the invariant.
LEMMA HubNext == HubInv /\ [Next]_vars => HubInv'
<1> SUFFICES ASSUME HubInv, [Next]_vars PROVE HubInv' OBVIOUS
<1>1. ASSUME NEW j \in Jobs, Admit(j) PROVE HubInv' BY <1>1, AdmitStep
<1>2. ASSUME NEW j \in Jobs, Announce(j) PROVE HubInv' BY <1>2, StillStep
<1>3. ASSUME NEW f \in Files, TaskStep(f) PROVE HubInv'
  BY <1>3, QuietStep, TaskDoneStep DEF TaskStep
<1>4. ASSUME NEW f \in Files, CancelFile(f) PROVE HubInv' BY <1>4, StillStep
<1>5. CASE CancelAll BY <1>5, StillStep
<1>6. CASE UNCHANGED vars
  BY <1>6 DEF vars, hubVars, jobVars, tokens, results, HubInv, TypeOK, JobInv, NoDrainRace,
              Live, BatchOf
<1> QED BY <1>1, <1>2, <1>3, <1>4, <1>5, <1>6 DEF Next, JobStep

-----------------------------------------------------------------------------

\* The invariant holds in every behaviour of the hub.
THEOREM HubInvariant == Spec => []HubInv
BY HubInit, HubNext, PTL DEF Spec

\* The hub's variables keep their types, and file_cancels holds exactly the
\* tokens of the files that are spawned and not yet unregistered, for any
\* number of jobs and files.
THEOREM HubTypeCorrect == Spec => []TypeOK
BY HubInvariant, PTL DEF HubInv

\* The comment on admit, for any number of jobs, files and permits: a late
\* merge never races the drain.
THEOREM MergeNeverRacesDrain == Spec => []NoDrainRace
BY HubInvariant, PTL DEF HubInv

-----------------------------------------------------------------------------
(* The parallelism bound *)

\* All jobs of a batch have been handed the same semaphores, those of the job
\* that opened it.
SemInv ==
    /\ \A j \in Jobs : admission[j].batch <= batch
    /\ \A j \in Jobs : jpc[j] = "new" <=> admission[j].batch = 0
    /\ \A i, j \in Jobs : admission[i].batch = admission[j].batch
                          => admission[i].sems = admission[j].sems
    /\ status = "open" => batch > 0
    /\ \A j \in Jobs : status = "open" /\ admission[j].batch = batch
                       => admission[j].sems = sems
    /\ \A j \in Jobs : admission[j].fresh => admission[j].sems = NewSems(j)

\* No semaphore has given out more permits than it has.
PermitInv ==
    \A j \in Jobs, k \in Kinds :
        Cardinality(Holders(admission[j].batch, k)) <= admission[j].sems[k]

\* Before the first job, nobody holds a permit.
LEMMA PermitInit == Init => SemInv /\ PermitInv
<1> SUFFICES ASSUME Init PROVE SemInv /\ PermitInv OBVIOUS
<1>1. \A j \in Jobs : admission[j] = NoAdmission BY DEF Init
<1>2. SemInv BY <1>1 DEF Init, SemInv, NoAdmission
<1>3. \A b, k : Holders(b, k) = {} BY DEF Init, Holders
<1>4. \A j \in Jobs, k \in Kinds : admission[j].sems[k] = 1
  BY <1>1 DEF NoAdmission, NoSems
<1> QED BY <1>2, <1>3, <1>4, FS_EmptySet DEF PermitInv

\* A step that admits nobody and lets nobody acquire keeps both.
LEMMA PermitKept ==
    ASSUME HubInv, SemInv, PermitInv, UNCHANGED <<batch, sems, admission>>,
           \A j \in Jobs : jpc'[j] = "new" <=> jpc[j] = "new",
           status' = "open" => status = "open",
           \A b, k : Holders(b, k)' \subseteq Holders(b, k)
    PROVE  SemInv' /\ PermitInv'
<1>1. SemInv' BY DEF SemInv, NewSems
<1>2. ASSUME NEW j \in Jobs, NEW k \in Kinds
      PROVE  Cardinality(Holders(admission[j].batch, k)') <= admission[j].sems[k]
  <2> DEFINE H == Holders(admission[j].batch, k)
             G == Holders(admission[j].batch, k)'
  <2>1. H \in SUBSET Files BY DEF Holders
  <2>2. G \subseteq H OBVIOUS
  <2>3. IsFiniteSet(H) /\ Cardinality(H) \in Nat BY <2>1, FileSets
  <2>4. Cardinality(G) \in Nat /\ Cardinality(G) <= Cardinality(H)
    BY <2>2, <2>3, FS_Subset, FS_CardinalityType
  <2>5. Cardinality(H) <= admission[j].sems[k] BY DEF PermitInv
  <2>6. admission[j].sems[k] \in Nat BY DEF HubInv, TypeOK, Admissions, Semaphores
  <2> QED BY <2>3, <2>4, <2>5, <2>6
<1> QED BY <1>1, <1>2 DEF PermitInv

\* A permit is taken only while one is free.
LEMMA PermitAcquire ==
    ASSUME HubInv, SemInv, PermitInv, NEW f \in Files, Acquire(f)
    PROVE  SemInv' /\ PermitInv'
<1> USE HubAssumption DEF HubAssumption
<1>1. UNCHANGED <<hubVars, jobVars>> BY DEF Acquire
<1>2. SemInv' BY <1>1 DEF SemInv, hubVars, jobVars, NewSems
<1>3. \A g \in Files : g # f => fpc'[g] = fpc[g] BY DEF Acquire, HubInv, TypeOK
<1>4. ASSUME NEW b, NEW k PROVE Holders(b, k)' \subseteq Holders(b, k) \cup {f}
  BY <1>1, <1>3 DEF Holders, BatchOf, Kind, jobVars
<1>5. ASSUME NEW b, NEW k, b # BatchOf(f) \/ k # Kind(f)
      PROVE Holders(b, k)' \subseteq Holders(b, k)
  BY <1>1, <1>3, <1>5 DEF Holders, BatchOf, Kind, jobVars
<1>6. ASSUME NEW j \in Jobs, NEW k \in Kinds
      PROVE  Cardinality(Holders(admission[j].batch, k)') <= admission[j].sems[k]
  <2> DEFINE b == admission[j].batch
             H == Holders(b, k)
             G == Holders(b, k)'
             s == admission[j].sems[k]
  <2>1. H \in SUBSET Files BY DEF Holders
  <2>2. IsFiniteSet(H) /\ Cardinality(H) \in Nat BY <2>1, FileSets
  <2>3. s \in Nat BY DEF HubInv, TypeOK, Admissions, Semaphores
  <2>4. Cardinality(H) <= s BY DEF PermitInv
  <2>5. CASE b = BatchOf(f) /\ k = Kind(f)
    <3>1. JobOf[f] \in Jobs OBVIOUS
    <3>2. Cardinality(H) < s
      BY <2>5, <3>1 DEF Acquire, SemInv, BatchOf
    <3>3. G \subseteq H \cup {f} BY <1>1, <1>4 DEF jobVars
    <3>4. IsFiniteSet(H \cup {f}) /\ Cardinality(H \cup {f}) <= Cardinality(H) + 1
          /\ Cardinality(H \cup {f}) \in Nat
      <4>1. IsFiniteSet(H \cup {f}) /\ Cardinality(H \cup {f}) \in Nat
        BY <2>2, FS_AddElement, FS_CardinalityType
      <4>2. Cardinality(H \cup {f}) \in {Cardinality(H), Cardinality(H) + 1}
        BY <2>2, FS_AddElement
      <4> HIDE DEF H
      <4> QED BY <4>1, <4>2, <2>2
    <3>5. Cardinality(G) <= Cardinality(H \cup {f}) /\ Cardinality(G) \in Nat
      BY <3>3, <3>4, FS_Subset, FS_CardinalityType
    <3> QED BY <2>2, <2>3, <3>2, <3>4, <3>5
  <2>6. CASE b # BatchOf(f) \/ k # Kind(f)
    <3>1. G \subseteq H BY <1>1, <1>5, <2>6 DEF jobVars
    <3>2. Cardinality(G) <= Cardinality(H) /\ Cardinality(G) \in Nat
      BY <3>1, <2>2, FS_Subset, FS_CardinalityType
    <3> QED BY <2>2, <2>3, <2>4, <3>2
  <2> QED BY <2>5, <2>6
<1>7. PermitInv' BY <1>1, <1>6 DEF PermitInv, jobVars
<1> QED BY <1>2, <1>7

\* A new batch has semaphores of its own, and an extending job gets the old ones.
LEMMA PermitAdmit ==
    ASSUME HubInv, SemInv, PermitInv, NEW j \in Jobs, Admit(j)
    PROVE  SemInv' /\ PermitInv'
<1> USE HubAssumption DEF HubAssumption
<1> DEFINE b == IF status = "closed" THEN batch + 1 ELSE batch
<1>0. TypeOK /\ JobInv BY DEF HubInv
<1>1. \A i \in Jobs : admission[i].batch \in Nat /\ admission[i].batch <= batch
  BY <1>0 DEF TypeOK, Admissions, SemInv
<1>2. batch \in Nat /\ batch' = b /\ b \in Nat \ {0} BY <1>0 DEF Admit, TypeOK, SemInv
<1>3. \A i \in Jobs : i # j => admission'[i] = admission[i] /\ jpc'[i] = jpc[i]
  BY <1>0 DEF Admit, TypeOK
<1>4. /\ admission'[j].batch = b /\ admission'[j].sems = sems'
      /\ admission'[j].fresh = (status = "closed")
      /\ sems' = BatchSems(j) /\ jpc'[j] = "announce" /\ status' = "open"
  BY <1>0 DEF Admit, TypeOK
<1>5. \A i \in Jobs : i # j /\ admission[i].batch = b => status = "open" /\ admission[i].sems = sems'
  BY <1>0, <1>1, <1>2, <1>4 DEF SemInv, BatchSems, TypeOK
<1>6. SemInv'
  <2>1. \A i \in Jobs : admission'[i].batch <= batch' BY <1>1, <1>2, <1>3, <1>4
  <2>2. \A i \in Jobs : jpc'[i] = "new" <=> admission'[i].batch = 0
    BY <1>2, <1>3, <1>4 DEF SemInv
  <2>3. \A i \in Jobs : admission'[i].batch = batch' => admission'[i].sems = sems'
    BY <1>2, <1>3, <1>4, <1>5
  <2>4. ASSUME NEW i \in Jobs, NEW l \in Jobs, admission'[i].batch = admission'[l].batch
        PROVE  admission'[i].sems = admission'[l].sems
    <3>1. CASE i = j \/ l = j BY <3>1, <2>3, <2>4, <1>2, <1>4
    <3>2. CASE i # j /\ l # j
      <4>1. admission'[i] = admission[i] /\ admission'[l] = admission[l] BY <3>2, <1>3
      <4> QED BY <4>1, <2>4 DEF SemInv
    <3> QED BY <3>1, <3>2
  <2>5. \A i \in Jobs : admission'[i].fresh => admission'[i].sems = NewSems(i)
    BY <1>3, <1>4 DEF SemInv, BatchSems
  <2>6. batch' > 0 BY <1>2
  <2> QED BY <2>1, <2>2, <2>3, <2>4, <2>5, <2>6 DEF SemInv, NewSems
<1>7. ASSUME NEW c, NEW k PROVE Holders(c, k)' = Holders(c, k)
  <2>1. ASSUME NEW f \in Files PROVE f \in Holders(c, k)' <=> f \in Holders(c, k)
    <3>1. CASE JobOf[f] = j
      BY <3>1, <1>0 DEF Holders, JobInv, Admit, FilesOf
    <3>2. CASE JobOf[f] # j
      BY <3>2, <1>3 DEF Holders, BatchOf, Kind, Admit, FilesOf
    <3> QED BY <3>1, <3>2
  <2>2. Holders(c, k) \subseteq Files /\ Holders(c, k)' \subseteq Files BY DEF Holders
  <2> QED BY <2>1, <2>2
<1>8. ASSUME NEW k \in Kinds PROVE Cardinality(Holders(b, k)) <= sems'[k]
  <2>1. CASE \E i \in Jobs : i # j /\ admission[i].batch = b
    <3>1. PICK i \in Jobs : i # j /\ admission[i].batch = b BY <2>1
    <3>2. Cardinality(Holders(admission[i].batch, k)) <= admission[i].sems[k] BY DEF PermitInv
    <3> QED BY <3>1, <3>2, <1>5
  <2>2. CASE \A i \in Jobs : i # j => admission[i].batch # b
    <3>1. admission[j].batch = 0 BY DEF SemInv, Admit
    <3>2. Holders(b, k) = {} BY <2>2, <3>1, <1>2 DEF Holders, BatchOf
    <3>3. sems' \in Semaphores BY <1>0, <1>4, SemsType
    <3>4. sems'[k] \in Nat \ {0} BY <3>3 DEF Semaphores
    <3>5. Cardinality(Holders(b, k)) = 0 BY <3>2, FS_EmptySet
    <3> QED BY <3>4, <3>5
  <2> QED BY <2>1, <2>2
<1>9. ASSUME NEW i \in Jobs, NEW k \in Kinds
      PROVE  Cardinality(Holders(admission'[i].batch, k)) <= admission'[i].sems[k]
  <2>1. CASE i = j BY <2>1, <1>4, <1>8
  <2>2. CASE i # j BY <2>2, <1>3 DEF PermitInv
  <2> QED BY <2>1, <2>2
<1>10. PermitInv' BY <1>7, <1>9 DEF PermitInv
<1> QED BY <1>6, <1>10

\* Every step keeps the count of permits.
LEMMA PermitNext == HubInv /\ SemInv /\ PermitInv /\ [Next]_vars => SemInv' /\ PermitInv'
<1> SUFFICES ASSUME HubInv, SemInv, PermitInv, [Next]_vars PROVE SemInv' /\ PermitInv'
  OBVIOUS
<1> USE HubAssumption DEF HubAssumption
<1>0. TypeOK /\ JobInv BY DEF HubInv
<1>1. ASSUME NEW j \in Jobs, Admit(j) PROVE SemInv' /\ PermitInv' BY <1>1, PermitAdmit
<1>2. ASSUME NEW j \in Jobs, Announce(j) PROVE SemInv' /\ PermitInv'
  <2>1. \A i \in Jobs : jpc'[i] = "new" <=> jpc[i] = "new" BY <1>2, <1>0 DEF Announce, TypeOK
  <2>2. UNCHANGED <<hubVars, admission, fpc>> BY <1>2 DEF Announce
  <2>3. \A b, k : Holders(b, k)' \subseteq Holders(b, k) BY <2>2 DEF Holders, BatchOf, Kind
  <2> QED BY <2>1, <2>2, <2>3, PermitKept DEF hubVars
<1>3. ASSUME NEW f \in Files, Acquire(f) PROVE SemInv' /\ PermitInv' BY <1>3, PermitAcquire
<1>4. ASSUME NEW f \in Files,
             Spawn(f) \/ Succeed(f) \/ Fail(f) \/ Unregister(f) \/ TaskDone(f) \/ EmitFinished(f)
      PROVE  SemInv' /\ PermitInv'
  <2>1. UNCHANGED <<batch, sems, jobVars>> /\ (status' = "open" => status = "open")
    BY <1>4 DEF Spawn, Succeed, Fail, Unregister, TaskDone, EmitFinished, hubVars
  <2>2. PICK p : /\ fpc' = [fpc EXCEPT ![f] = p]
                 /\ \/ p \notin {"running", "ending", "leaving", "emitting"}
                    \/ fpc[f] \in {"running", "ending", "leaving", "emitting"}
    BY <1>4 DEF Spawn, Succeed, Fail, Unregister, TaskDone, EmitFinished
  <2>3. \A g \in Files : fpc'[g] = IF g = f THEN p ELSE fpc[g] BY <1>0, <2>2 DEF TypeOK
  <2>4. \A b, k : Holders(b, k)' \subseteq Holders(b, k)
    BY <2>1, <2>2, <2>3 DEF Holders, BatchOf, Kind, jobVars
  <2> QED BY <2>1, <2>4, PermitKept DEF jobVars
<1>5. ASSUME UNCHANGED <<hubVars, jobVars, fpc>> PROVE SemInv' /\ PermitInv'
  <2>1. \A b, k : Holders(b, k)' \subseteq Holders(b, k)
    BY <1>5 DEF Holders, BatchOf, Kind, jobVars
  <2> QED BY <2>1, <1>5, PermitKept DEF hubVars, jobVars
<1>6. CASE CancelAll \/ \E f \in Files : CancelFile(f)
  BY <1>6, <1>5 DEF CancelAll, CancelFile
<1>7. CASE UNCHANGED vars BY <1>7, <1>5 DEF vars
<1> QED BY <1>1, <1>2, <1>3, <1>4, <1>6, <1>7 DEF Next, JobStep, TaskStep

\* However many jobs extend a batch, its transfers of a kind never outnumber
\* the parallelism of the settings it was opened with.
THEOREM ParallelismKept == Spec => []ParallelismBound
<1>1. SemInv /\ PermitInv => ParallelismBound
  BY DEF SemInv, PermitInv, ParallelismBound
<1> QED BY <1>1, HubInvariant, PermitInit, PermitNext, PTL DEF Spec

-----------------------------------------------------------------------------
(* The report of a batch *)

Finish == [type : {"Finished"}, batch : Nat, done : Nat, failed : Nat]
Notice == [type : {"Started", "Extended"}, batch : Nat, files : SUBSET Files, total : Nat]
EvOK == ev \in Seq(Finish \cup Notice)

\* A file whose transfer is over is counted once, unless the batch was cancelled.
Past == {"ending", "leaving", "emitting", "gone"}
Counted ==
    /\ \A f \in Files : fpc[f] \in Past => f \in done \cup failed \/ BatchOf(f) \in stopped
    /\ done \cap failed = {}
    /\ \A f \in done \cup failed : fpc[f] \in Past

\* The task that will send the report is the last of its batch, and the first to.
Once ==
    /\ \A i \in DOMAIN ev : ev[i].type = "Finished" => ev[i].batch <= batch
    /\ \A f \in Files : fpc[f] = "emitting" =>
          /\ \A g \in AdmittedTo(BatchOf(f)) : g # f => fpc[g] = "gone"
          /\ FinishedOf(BatchOf(f)) = {}

ReportInv == EvOK /\ Counted /\ Once /\ FinishedReport

\* What every step but an admission keeps.
LEMMA TaskFrame ==
    ASSUME HubInv, [Next]_vars, \A j \in Jobs : ~Admit(j)
    PROVE  /\ admission' = admission /\ batch' = batch /\ stopped \subseteq stopped'
           /\ \A f \in Files : BatchOf(f)' = BatchOf(f)
           /\ \A f \in Files : fpc'[f] = "none" <=> fpc[f] = "none"
           /\ \A f \in Files : fpc[f] = "gone" => fpc'[f] = "gone"
           /\ \A b : AdmittedTo(b)' = AdmittedTo(b)
<1>0. fpc \in [Files -> FilePcs] BY DEF HubInv, TypeOK
<1>1. /\ admission' = admission /\ batch' = batch /\ stopped \subseteq stopped'
      /\ \A f \in Files : fpc'[f] = "none" <=> fpc[f] = "none"
      /\ \A f \in Files : fpc[f] = "gone" => fpc'[f] = "gone"
  <2>1. ASSUME NEW f \in Files, TaskStep(f)
        PROVE  /\ admission' = admission /\ batch' = batch /\ stopped' = stopped
               /\ \A g \in Files : fpc'[g] = "none" <=> fpc[g] = "none"
               /\ \A g \in Files : fpc[g] = "gone" => fpc'[g] = "gone"
    <3>1. CASE Spawn(f) \/ Acquire(f) \/ Succeed(f) \/ Fail(f)
      BY <1>0, <3>1 DEF Spawn, Acquire, Succeed, Fail, AfterAcquire, hubVars, jobVars, tokens
    <3>2. CASE Unregister(f) \/ TaskDone(f) \/ EmitFinished(f)
      BY <1>0, <3>2 DEF Unregister, TaskDone, EmitFinished, hubVars, jobVars, tokens
    <3> QED BY <2>1, <3>1, <3>2 DEF TaskStep
  <2>2. CASE CancelAll \/ (\E j \in Jobs : Announce(j)) \/ (\E f \in Files : CancelFile(f)) \/ UNCHANGED vars
    BY <2>2 DEF CancelAll, Announce, CancelFile, vars, hubVars, jobVars, tokens
  <2> QED BY <2>1, <2>2 DEF Next, JobStep
<1>2. \A f \in Files : BatchOf(f)' = BatchOf(f) BY <1>1 DEF BatchOf
<1>3. \A b : AdmittedTo(b)' = AdmittedTo(b) BY <1>1, <1>2 DEF AdmittedTo
<1> QED BY <1>1, <1>2, <1>3

\* What an admission does to the files.
LEMMA AdmitFrame ==
    ASSUME HubInv, SemInv, NEW j \in Jobs, Admit(j)
    PROVE  /\ \A f \in Files : JobOf[f] = j => fpc[f] = "none" /\ fpc'[f] = "admitted" /\ BatchOf(f)' = batch'
           /\ \A f \in Files : JobOf[f] # j => fpc'[f] = fpc[f] /\ BatchOf(f)' = BatchOf(f)
           /\ batch' = (IF status = "closed" THEN batch + 1 ELSE batch) /\ batch \in Nat
           /\ UNCHANGED <<done, failed, stopped, ev>>
<1> USE HubAssumption DEF HubAssumption
<1>0. TypeOK /\ JobInv BY DEF HubInv
<1>1. \A f \in Files : JobOf[f] = j => fpc[f] = "none" /\ fpc'[f] = "admitted"
  BY <1>0 DEF Admit, JobInv, FilesOf
<1>2. \A f \in Files : JobOf[f] # j => fpc'[f] = fpc[f]
  BY <1>0 DEF Admit, FilesOf
<1>3. \A i \in Jobs : i # j => admission'[i] = admission[i] BY <1>0 DEF Admit, TypeOK
<1>4. admission'[j].batch = batch' /\ batch' = (IF status = "closed" THEN batch + 1 ELSE batch)
  BY <1>0 DEF Admit, TypeOK
<1>5. \A f \in Files : JobOf[f] # j => BatchOf(f)' = BatchOf(f) BY <1>3 DEF BatchOf
<1>6. \A f \in Files : JobOf[f] = j => BatchOf(f)' = batch' BY <1>4 DEF BatchOf
<1>7. UNCHANGED <<done, failed, stopped, ev>> /\ batch \in Nat BY <1>0 DEF Admit, results, TypeOK
<1> QED BY <1>1, <1>2, <1>4, <1>5, <1>6, <1>7

LEMMA CountedStep == HubInv /\ SemInv /\ Counted /\ [Next]_vars => Counted'
<1> SUFFICES ASSUME HubInv, SemInv, Counted, [Next]_vars PROVE Counted' OBVIOUS
<1>0. /\ fpc \in [Files -> FilePcs] /\ done \subseteq Files /\ failed \subseteq Files
  BY DEF HubInv, TypeOK
<1>1. ASSUME NEW j \in Jobs, Admit(j) PROVE Counted'
  <2>1. /\ \A f \in Files : JobOf[f] = j => fpc[f] = "none" /\ fpc'[f] = "admitted"
        /\ \A f \in Files : JobOf[f] # j => fpc'[f] = fpc[f] /\ BatchOf(f)' = BatchOf(f)
        /\ UNCHANGED <<done, failed, stopped>>
    BY <1>1, AdmitFrame
  <2>2. \A f \in Files : fpc'[f] \in Past => f \in done' \cup failed' \/ BatchOf(f)' \in stopped'
    BY <2>1 DEF Counted, Past
  <2>3. \A f \in done' \cup failed' : fpc'[f] \in Past
    BY <1>0, <2>1 DEF Counted, Past
  <2> QED BY <2>1, <2>2, <2>3 DEF Counted
<1>2. CASE \A j \in Jobs : ~Admit(j)
  <2>1. stopped \subseteq stopped' /\ \A f \in Files : BatchOf(f)' = BatchOf(f)
    BY <1>2, TaskFrame
  <2>2. CASE UNCHANGED <<fpc, done, failed>>
    BY <2>1, <2>2 DEF Counted
  <2>3. ASSUME NEW f \in Files, Spawn(f) \/ Unregister(f) \/ TaskDone(f) \/ EmitFinished(f) PROVE Counted'
    <3>1. PICK p \in FilePcs : /\ fpc' = [fpc EXCEPT ![f] = p]
                               /\ p \in Past <=> fpc[f] \in Past
      BY <2>3 DEF Spawn, Unregister, TaskDone, EmitFinished, Past, FilePcs
    <3>2. UNCHANGED <<done, failed>> BY <2>3 DEF Spawn, Unregister, TaskDone, EmitFinished, results
    <3>3. \A g \in Files : fpc'[g] \in Past <=> fpc[g] \in Past BY <1>0, <3>1
    <3> QED BY <1>0, <2>1, <3>2, <3>3 DEF Counted
  <2>4. ASSUME NEW f \in Files, Acquire(f) PROVE Counted'
    <3>1. fpc' = [fpc EXCEPT ![f] = AfterAcquire(f)] /\ fpc[f] = "queued" /\ UNCHANGED <<done, stopped>>
      BY <2>4 DEF Acquire, tokens
    <3>2. f \notin done /\ f \notin failed BY <3>1 DEF Counted, Past
    <3>3. \A g \in Files : g # f => fpc'[g] = fpc[g] BY <1>0, <3>1
    <3>4. fpc'[f] = AfterAcquire(f) BY <1>0, <3>1
    <3>5. CASE Settles(f)
      <4>1. failed' = failed \cup {f} /\ fpc'[f] = "ending"
        BY <2>4, <3>4, <3>5 DEF Acquire, Settles, AfterAcquire, IsCancelled
      <4> QED BY <1>0, <2>1, <3>1, <3>2, <3>3, <4>1 DEF Counted, Past
    <3>6. CASE ~Settles(f)
      <4>1. failed' = failed BY <2>4, <3>6 DEF Acquire
      <4>2. fpc'[f] = "running" \/ BatchOf(f) \in stopped
        BY <3>4, <3>6 DEF Settles, AfterAcquire, IsCancelled
      <4> QED BY <1>0, <2>1, <3>1, <3>2, <3>3, <4>1, <4>2 DEF Counted, Past
    <3> QED BY <3>5, <3>6
  <2>5. ASSUME NEW f \in Files, Succeed(f) \/ Fail(f) PROVE Counted'
    <3>1. fpc' = [fpc EXCEPT ![f] = "ending"] /\ fpc[f] = "running"
      BY <2>5 DEF Succeed, Fail
    <3>2. f \notin done /\ f \notin failed BY <3>1 DEF Counted, Past
    <3>3. fpc'[f] = "ending" /\ \A g \in Files : g # f => fpc'[g] = fpc[g] BY <1>0, <3>1
    <3>4. \/ done' = done \cup {f} /\ failed' = failed
          \/ done' = done /\ failed' = failed \cup {f}
      BY <2>5 DEF Succeed, Fail
    <3> QED BY <1>0, <2>1, <3>2, <3>3, <3>4 DEF Counted, Past
  <2>6. CASE CancelAll \/ (\E j \in Jobs : Announce(j)) \/ (\E f \in Files : CancelFile(f)) \/ UNCHANGED vars
    BY <2>2, <2>6 DEF CancelAll, Announce, CancelFile, vars, results
  <2> QED BY <1>2, <2>3, <2>4, <2>5, <2>6 DEF Next, JobStep, TaskStep
<1> QED BY <1>1, <1>2

\* The counters of a batch add up when its last task reads them.
LEMMA CountsAddUp ==
    ASSUME HubInv, Counted, NEW f \in Files, fpc[f] = "emitting",
           \A g \in AdmittedTo(BatchOf(f)) : g # f => fpc[g] = "gone"
    PROVE  LET b == BatchOf(f)
               D == {g \in done : BatchOf(g) = b}
               F == {g \in failed : BatchOf(g) = b}
           IN /\ Cardinality(D) \in Nat /\ Cardinality(F) \in Nat
              /\ Cardinality(D) + Cardinality(F) = Cardinality(AdmittedTo(b)) \/ b \in stopped
<1> DEFINE b == BatchOf(f)
           D == {g \in done : BatchOf(g) = b}
           F == {g \in failed : BatchOf(g) = b}
<1>1. D \in SUBSET Files /\ F \in SUBSET Files BY DEF HubInv, TypeOK
<1>2. IsFiniteSet(D) /\ IsFiniteSet(F) /\ Cardinality(D) \in Nat /\ Cardinality(F) \in Nat
  BY <1>1, FileSets
<1>3. ASSUME b \notin stopped PROVE Cardinality(D) + Cardinality(F) = Cardinality(AdmittedTo(b))
  <2>1. \A g \in AdmittedTo(b) : g \in done \cup failed
    BY <1>3 DEF Counted, Past, AdmittedTo
  <2>2. AdmittedTo(b) \subseteq D \cup F
    BY <2>1 DEF AdmittedTo
  <2>3. D \cup F \subseteq AdmittedTo(b)
    BY <1>1 DEF Counted, Past, AdmittedTo
  <2>4. D \cup F = AdmittedTo(b) BY <2>2, <2>3
  <2>5. D \cap F = {} BY DEF Counted
  <2>6. Cardinality(D \cup F) = Cardinality(D) + Cardinality(F) - Cardinality(D \cap F)
    BY <1>2, FS_Union
  <2>7. Cardinality(D \cap F) = 0 BY <2>5, FS_EmptySet
  <2>8. Cardinality(D \cup F) = Cardinality(AdmittedTo(b)) BY <2>4
  <2> HIDE DEF D, F, b
  <2> QED BY <1>2, <2>6, <2>7, <2>8
<1> QED BY <1>2, <1>3

\* A step after which nobody new is about to report.
LEMMA ReportKept ==
    ASSUME HubInv, EvOK, Once, FinishedReport, batch' = batch, stopped \subseteq stopped',
           \A f \in Files : BatchOf(f)' = BatchOf(f),
           \A f \in Files : fpc'[f] = "emitting" => fpc[f] = "emitting",
           \A f \in Files : fpc[f] = "gone" => fpc'[f] = "gone",
           \A b : AdmittedTo(b)' = AdmittedTo(b),
           ev' = ev \/ \E e \in Notice : ev' = Append(ev, e)
    PROVE  EvOK' /\ Once' /\ FinishedReport'
<1>1. /\ EvOK' /\ \A i \in DOMAIN ev : i \in DOMAIN ev' /\ ev'[i] = ev[i]
      /\ \A i \in DOMAIN ev' : ev'[i].type = "Finished" => i \in DOMAIN ev
  <2>1. CASE ev' = ev BY <2>1 DEF EvOK
  <2>2. ASSUME NEW e \in Notice, ev' = Append(ev, e)
        PROVE  /\ EvOK' /\ \A i \in DOMAIN ev : i \in DOMAIN ev' /\ ev'[i] = ev[i]
               /\ \A i \in DOMAIN ev' : ev'[i].type = "Finished" => i \in DOMAIN ev
    <3>1. ev \in Seq(Finish \cup Notice) /\ e \in Finish \cup Notice BY <2>2 DEF EvOK
    <3>2. /\ ev' \in Seq(Finish \cup Notice) /\ Len(ev') = Len(ev) + 1
          /\ \A i \in 1 .. Len(ev) : ev'[i] = ev[i]
          /\ ev'[Len(ev) + 1] = e
      BY <2>2, <3>1, AppendProperties
    <3>3. DOMAIN ev = 1 .. Len(ev) /\ DOMAIN ev' = 1 .. (Len(ev) + 1) /\ Len(ev) \in Nat BY <3>1, <3>2
    <3>4. e.type # "Finished" BY <2>2 DEF Notice
    <3>5. \A i \in 1 .. (Len(ev) + 1) : i \in 1 .. Len(ev) \/ i = Len(ev) + 1 BY <3>3
    <3> QED BY <3>2, <3>3, <3>4, <3>5 DEF EvOK
  <2> QED BY <2>1, <2>2
<1>2. \A b : FinishedOf(b)' = FinishedOf(b) BY <1>1 DEF FinishedOf
<1>3. Once'
  <2>1. \A i \in DOMAIN ev' : ev'[i].type = "Finished" => ev'[i].batch <= batch' BY <1>1 DEF Once
  <2>2. ASSUME NEW f \in Files, fpc'[f] = "emitting"
        PROVE  /\ \A g \in AdmittedTo(BatchOf(f))' : g # f => fpc'[g] = "gone"
               /\ FinishedOf(BatchOf(f))' = {}
    <3>1. fpc[f] = "emitting" /\ AdmittedTo(BatchOf(f))' = AdmittedTo(BatchOf(f))
          /\ FinishedOf(BatchOf(f))' = FinishedOf(BatchOf(f))
      BY <1>1, <2>2 DEF AdmittedTo, FinishedOf
    <3> QED BY <3>1 DEF Once, AdmittedTo
  <2> QED BY <2>1, <2>2 DEF Once
<1>4. ASSUME NEW i \in DOMAIN ev', ev'[i].type = "Finished", NEW b, b = ev'[i].batch
      PROVE  /\ FinishedOf(b)' = {i}
             /\ \A f \in AdmittedTo(b)' : fpc'[f] = "gone"
             /\ ev'[i].done + ev'[i].failed = Cardinality(AdmittedTo(b)') \/ b \in stopped'
  <2>1. i \in DOMAIN ev /\ ev'[i] = ev[i] /\ ev[i].type = "Finished" /\ b = ev[i].batch BY <1>1, <1>4
  <2>2. /\ FinishedOf(b) = {i} /\ \A f \in AdmittedTo(b) : fpc[f] = "gone"
        /\ ev[i].done + ev[i].failed = Cardinality(AdmittedTo(b)) \/ b \in stopped
    BY <2>1 DEF FinishedReport
  <2>3. FinishedOf(b)' = FinishedOf(b) /\ AdmittedTo(b)' = AdmittedTo(b) BY <1>2
  <2>4. AdmittedTo(b) \subseteq Files BY DEF AdmittedTo
  <2> QED BY <2>1, <2>2, <2>3, <2>4
<1>5. FinishedReport' BY <1>4 DEF FinishedReport, FinishedOf, AdmittedTo, BatchOf
<1> QED BY <1>1, <1>3, <1>5

\* A batch that reported, or is about to, gets no more files.
LEMMA ReportAdmit ==
    ASSUME HubInv, SemInv, EvOK, Once, FinishedReport, NEW j \in Jobs, Admit(j)
    PROVE  EvOK' /\ Once' /\ FinishedReport'
<1> USE HubAssumption DEF HubAssumption
<1>0. /\ \A f \in Files : JobOf[f] = j => fpc[f] = "none" /\ fpc'[f] = "admitted" /\ BatchOf(f)' = batch'
      /\ \A f \in Files : JobOf[f] # j => fpc'[f] = fpc[f] /\ BatchOf(f)' = BatchOf(f)
      /\ batch' = (IF status = "closed" THEN batch + 1 ELSE batch) /\ batch \in Nat
      /\ UNCHANGED <<stopped, ev>>
  BY AdmitFrame
<1>1. \A f \in Files : BatchOf(f) \in Nat /\ BatchOf(f) <= batch
  BY DEF HubInv, TypeOK, Admissions, SemInv, BatchOf
<1>2. \A i \in DOMAIN ev : ev[i].type = "Finished" => ev[i].batch \in Nat
  BY DEF EvOK, Finish, Notice
<1>3. status = "open" => \E g \in Files : g \in Live /\ BatchOf(g) = batch /\ fpc[g] # "none"
  BY DEF HubInv, NoDrainRace, Live
<1>4. \A i \in DOMAIN ev : ev[i].type = "Finished" => ev[i].batch # batch'
  <2>1. CASE status = "closed" BY <1>0, <1>2, <2>1 DEF Once
  <2>2. CASE status # "closed"
    <3>1. PICK g \in Files : g \in Live /\ BatchOf(g) = batch /\ fpc[g] # "none"
      BY <1>3, <2>2 DEF HubInv, TypeOK
    <3>2. g \in AdmittedTo(batch) /\ fpc[g] # "gone" BY <3>1 DEF AdmittedTo, Live
    <3> QED BY <1>0, <2>2, <3>2 DEF FinishedReport
  <2> QED BY <2>1, <2>2
<1>5. \A f \in Files : fpc[f] = "emitting" => BatchOf(f) # batch'
  <2>1. CASE status = "closed" BY <1>0, <1>1, <2>1
  <2>2. CASE status # "closed"
    <3>1. PICK g \in Files : g \in Live /\ BatchOf(g) = batch /\ fpc[g] # "none"
      BY <1>3, <2>2 DEF HubInv, TypeOK
    <3>2. g \in AdmittedTo(batch) /\ fpc[g] # "gone" /\ fpc[g] # "emitting" BY <3>1 DEF AdmittedTo, Live
    <3> QED BY <1>0, <2>2, <3>2 DEF Once
  <2> QED BY <2>1, <2>2
<1>6. \A b : b # batch' => AdmittedTo(b)' = AdmittedTo(b)
  BY <1>0 DEF AdmittedTo
<1>7. \A b : FinishedOf(b)' = FinishedOf(b) BY <1>0 DEF FinishedOf
<1>8. EvOK' BY <1>0 DEF EvOK
<1>9. Once'
  <2>1. \A i \in DOMAIN ev' : ev'[i].type = "Finished" => ev'[i].batch <= batch'
    BY <1>0, <1>2 DEF Once
  <2>2. ASSUME NEW f \in Files, fpc'[f] = "emitting", NEW b, b = BatchOf(f)'
        PROVE  /\ \A g \in AdmittedTo(b)' : g # f => fpc'[g] = "gone"
               /\ FinishedOf(b)' = {}
    <3>1. JobOf[f] # j /\ fpc[f] = "emitting" /\ b = BatchOf(f) BY <1>0, <2>2
    <3>2. AdmittedTo(b)' = AdmittedTo(b) BY <1>5, <1>6, <3>1
    <3>3. \A g \in AdmittedTo(b) : g \in Files /\ fpc[g] # "none" BY DEF AdmittedTo
    <3>4. \A g \in AdmittedTo(b) : fpc'[g] = fpc[g] BY <1>0, <3>3
    <3> QED BY <1>7, <3>1, <3>2, <3>4 DEF Once
  <2> QED BY <2>1, <2>2 DEF Once, AdmittedTo, FinishedOf, BatchOf
<1>10. ASSUME NEW i \in DOMAIN ev', ev'[i].type = "Finished", NEW b, b = ev'[i].batch
      PROVE  /\ FinishedOf(b)' = {i}
             /\ \A f \in AdmittedTo(b)' : fpc'[f] = "gone"
             /\ ev'[i].done + ev'[i].failed = Cardinality(AdmittedTo(b)') \/ b \in stopped'
  <2>1. i \in DOMAIN ev /\ ev'[i] = ev[i] /\ ev[i].type = "Finished" /\ b = ev[i].batch BY <1>0, <1>10
  <2>2. /\ FinishedOf(b) = {i} /\ \A f \in AdmittedTo(b) : fpc[f] = "gone"
        /\ ev[i].done + ev[i].failed = Cardinality(AdmittedTo(b)) \/ b \in stopped
    BY <2>1 DEF FinishedReport
  <2>3. FinishedOf(b)' = FinishedOf(b) /\ AdmittedTo(b)' = AdmittedTo(b) BY <1>4, <1>6, <1>7, <2>1
  <2>4. \A f \in AdmittedTo(b) : f \in Files /\ fpc[f] # "none" BY DEF AdmittedTo
  <2>5. \A f \in AdmittedTo(b) : fpc'[f] = fpc[f] BY <1>0, <2>4
  <2> QED BY <1>0, <2>1, <2>2, <2>3, <2>5
<1>11. FinishedReport' BY <1>10 DEF FinishedReport, FinishedOf, AdmittedTo, BatchOf
<1> QED BY <1>8, <1>9, <1>11

\* The task that drains the batch is the last of it.
LEMMA ReportDrain ==
    ASSUME HubInv, HubInv', SemInv, EvOK, Once, FinishedReport, NEW f \in Files, TaskDone(f), fpc'[f] = "emitting",
           \A g \in Files : BatchOf(g)' = BatchOf(g), \A b : AdmittedTo(b)' = AdmittedTo(b)
    PROVE  EvOK' /\ Once' /\ FinishedReport'
<1>0. fpc \in [Files -> FilePcs] /\ fpc[f] = "leaving" /\ UNCHANGED <<batch, stopped, ev>>
  BY DEF HubInv, TypeOK, TaskDone, tokens
<1>1. \A g \in Files : g # f => fpc'[g] = fpc[g] BY <1>0 DEF TaskDone
<1>2. status' # "open" /\ Live' = {}
  <2>1. status' # "open" BY <1>0 DEF TaskDone, Drains
  <2> QED BY <2>1 DEF HubInv, NoDrainRace
<1>3. \A b : f \in AdmittedTo(b) => /\ FinishedOf(b) = {}
                                    /\ \A h \in Files : fpc[h] = "emitting" => BatchOf(h) # b
  <2>1. ASSUME NEW b, f \in AdmittedTo(b), NEW i \in FinishedOf(b) PROVE FALSE
    <3>1. i \in DOMAIN ev /\ ev[i].type = "Finished" /\ ev[i].batch = b BY <2>1 DEF FinishedOf
    <3> QED BY <1>0, <2>1, <3>1 DEF FinishedReport
  <2>2. ASSUME NEW b, f \in AdmittedTo(b), NEW h \in Files, fpc[h] = "emitting", BatchOf(h) = b PROVE FALSE
    BY <1>0, <2>2 DEF Once
  <2> QED BY <2>1, <2>2
<1>4. f \in AdmittedTo(BatchOf(f)) BY <1>0 DEF AdmittedTo
<1>5. EvOK' BY <1>0 DEF EvOK
<1>6. \A b : FinishedOf(b)' = FinishedOf(b) BY <1>0 DEF FinishedOf
<1>7. Once'
  <2>1. \A i \in DOMAIN ev' : ev'[i].type = "Finished" => ev'[i].batch <= batch' BY <1>0 DEF Once
  <2>2. ASSUME NEW h \in Files, fpc'[h] = "emitting", NEW b, b = BatchOf(h)'
        PROVE  /\ \A g \in AdmittedTo(b)' : g # h => fpc'[g] = "gone"
               /\ FinishedOf(b)' = {}
    <3>1. b = BatchOf(h) /\ AdmittedTo(b)' = AdmittedTo(b) /\ FinishedOf(b)' = FinishedOf(b)
      BY <1>6, <2>2
    <3>2. CASE h = f
      <4>1. \A g \in AdmittedTo(b) : g \in Files /\ BatchOf(g) = b /\ fpc[g] # "none" BY DEF AdmittedTo
      <4>2. \A g \in Files : fpc'[g] \notin {"admitted", "queued", "running", "ending", "leaving"}
        BY <1>2 DEF Live
      <4>3. fpc' \in [Files -> FilePcs] BY DEF HubInv, TypeOK
      <4>4. \A g \in AdmittedTo(b) : g # f => fpc'[g] # "emitting" /\ fpc'[g] # "none"
        BY <1>1, <1>3, <1>4, <3>1, <3>2, <4>1
      <4>5. \A g \in AdmittedTo(b) : g # f => fpc'[g] = "gone"
        BY <4>1, <4>2, <4>3, <4>4 DEF FilePcs
      <4> QED BY <1>3, <1>4, <3>1, <3>2, <4>5
    <3>3. CASE h # f
      <4>1. fpc[h] = "emitting" BY <1>1, <2>2, <3>3
      <4>2. f \notin AdmittedTo(b) BY <1>3, <3>1, <4>1
      <4>3. \A g \in AdmittedTo(b) : g \in Files /\ g # f BY <4>2 DEF AdmittedTo
      <4> QED BY <1>1, <3>1, <4>1, <4>3 DEF Once
    <3> QED BY <3>2, <3>3
  <2> QED BY <2>1, <2>2 DEF Once, AdmittedTo, FinishedOf, BatchOf
<1>8. ASSUME NEW i \in DOMAIN ev', ev'[i].type = "Finished", NEW b, b = ev'[i].batch
      PROVE  /\ FinishedOf(b)' = {i}
             /\ \A g \in AdmittedTo(b)' : fpc'[g] = "gone"
             /\ ev'[i].done + ev'[i].failed = Cardinality(AdmittedTo(b)') \/ b \in stopped'
  <2>1. i \in DOMAIN ev /\ ev'[i] = ev[i] /\ ev[i].type = "Finished" /\ b = ev[i].batch BY <1>0, <1>8
  <2>2. /\ FinishedOf(b) = {i} /\ \A g \in AdmittedTo(b) : fpc[g] = "gone"
        /\ ev[i].done + ev[i].failed = Cardinality(AdmittedTo(b)) \/ b \in stopped
    BY <2>1 DEF FinishedReport
  <2>3. FinishedOf(b)' = FinishedOf(b) /\ AdmittedTo(b)' = AdmittedTo(b) BY <1>6
  <2>4. \A g \in AdmittedTo(b) : g \in Files /\ g # f BY <1>0, <2>2 DEF AdmittedTo
  <2> QED BY <1>0, <1>1, <2>1, <2>2, <2>3, <2>4
<1>9. FinishedReport' BY <1>8 DEF FinishedReport, FinishedOf, AdmittedTo, BatchOf
<1> QED BY <1>5, <1>7, <1>9

\* The report itself.
LEMMA ReportEmit ==
    ASSUME HubInv, SemInv, EvOK, Counted, Once, FinishedReport, NEW f \in Files, EmitFinished(f),
           \A g \in Files : BatchOf(g)' = BatchOf(g), \A b : AdmittedTo(b)' = AdmittedTo(b)
    PROVE  EvOK' /\ Once' /\ FinishedReport'
<1> USE HubAssumption DEF HubAssumption
<1>0. fpc \in [Files -> FilePcs] /\ fpc[f] = "emitting" /\ UNCHANGED <<batch, stopped>>
  BY DEF HubInv, TypeOK, EmitFinished, hubVars, tokens
<1>1. fpc'[f] = "gone" /\ \A g \in Files : g # f => fpc'[g] = fpc[g] BY <1>0 DEF EmitFinished
<1>2. PICK c : c = BatchOf(f) OBVIOUS
<1>3. c \in Nat /\ c <= batch BY <1>2 DEF HubInv, TypeOK, Admissions, SemInv, BatchOf
<1>4. /\ \A g \in AdmittedTo(c) : g # f => fpc[g] = "gone"
      /\ FinishedOf(c) = {}
  BY <1>0, <1>2 DEF Once
<1> DEFINE nd == Cardinality({g \in done : BatchOf(g) = c})
           nf == Cardinality({g \in failed : BatchOf(g) = c})
           e == [type |-> "Finished", batch |-> c, done |-> nd, failed |-> nf]
           n == Len(ev) + 1
<1>5. nd \in Nat /\ nf \in Nat /\ (nd + nf = Cardinality(AdmittedTo(c)) \/ c \in stopped)
  BY <1>0, <1>2, <1>4, CountsAddUp
<1>6. ev' = Append(ev, e) BY <1>2 DEF EmitFinished
<1> HIDE DEF nd, nf
<1>7. e \in Finish BY <1>3, <1>5 DEF Finish
<1>8. /\ EvOK' /\ Len(ev) \in Nat /\ DOMAIN ev = 1 .. Len(ev) /\ DOMAIN ev' = 1 .. n
      /\ \A i \in 1 .. Len(ev) : ev'[i] = ev[i]
      /\ ev'[n] = e
  <2>1. ev \in Seq(Finish \cup Notice) /\ e \in Finish \cup Notice BY <1>7 DEF EvOK
  <2> HIDE DEF e
  <2>2. /\ ev' \in Seq(Finish \cup Notice) /\ Len(ev') = Len(ev) + 1
        /\ \A i \in 1 .. Len(ev) : ev'[i] = ev[i]
        /\ ev'[Len(ev) + 1] = e
    BY <1>6, <2>1, AppendProperties
  <2>3. Len(ev) \in Nat /\ DOMAIN ev = 1 .. Len(ev) BY <2>1
  <2>4. DOMAIN ev' = 1 .. Len(ev') BY <2>2
  <2> QED BY <2>2, <2>3, <2>4 DEF EvOK
<1>9. e.type = "Finished" /\ e.batch = c /\ e.done = nd /\ e.failed = nf OBVIOUS
<1> HIDE DEF e
<1>10. \A i \in DOMAIN ev' : i = n \/ i \in DOMAIN ev BY <1>8
<1>11. n \notin DOMAIN ev /\ n \in DOMAIN ev' /\ DOMAIN ev \subseteq DOMAIN ev' BY <1>8
<1> HIDE DEF n
<1>12. FinishedOf(c)' = {n} /\ \A b : b # c => FinishedOf(b)' = FinishedOf(b)
  BY <1>4, <1>8, <1>9, <1>10, <1>11 DEF FinishedOf
<1>13. Once'
  <2>1. ASSUME NEW i \in DOMAIN ev', ev'[i].type = "Finished" PROVE ev'[i].batch <= batch'
    BY <1>0, <1>3, <1>8, <1>9, <1>10, <2>1 DEF Once
  <2>2. ASSUME NEW h \in Files, fpc'[h] = "emitting", NEW b, b = BatchOf(h)'
        PROVE  /\ \A g \in AdmittedTo(b)' : g # h => fpc'[g] = "gone"
               /\ FinishedOf(b)' = {}
    <3>1. b = BatchOf(h) /\ AdmittedTo(b)' = AdmittedTo(b) /\ h # f /\ fpc[h] = "emitting"
      BY <1>1, <2>2
    <3>2. h \in AdmittedTo(b) BY <3>1 DEF AdmittedTo
    <3>3. b # c BY <1>4, <3>1, <3>2
    <3>4. \A g \in AdmittedTo(b) : g \in Files BY DEF AdmittedTo
    <3>5. \A g \in AdmittedTo(b) : g # h => fpc[g] = "gone" BY <3>1 DEF Once
    <3>6. FinishedOf(b)' = {} BY <1>12, <3>1, <3>3 DEF Once
    <3> QED BY <1>1, <3>1, <3>4, <3>5, <3>6
  <2> QED BY <2>1, <2>2 DEF Once, AdmittedTo, FinishedOf, BatchOf
<1>14. ASSUME NEW i \in DOMAIN ev', ev'[i].type = "Finished", NEW b, b = ev'[i].batch
      PROVE  /\ FinishedOf(b)' = {i}
             /\ \A g \in AdmittedTo(b)' : fpc'[g] = "gone"
             /\ ev'[i].done + ev'[i].failed = Cardinality(AdmittedTo(b)') \/ b \in stopped'
  <2>0. AdmittedTo(b)' = AdmittedTo(b) /\ \A g \in AdmittedTo(b) : g \in Files BY DEF AdmittedTo
  <2>1. CASE i = n
    <3>1. b = c /\ ev'[i] = e BY <1>8, <1>9, <1>14, <2>1
    <3> QED BY <1>0, <1>1, <1>4, <1>5, <1>9, <1>12, <2>0, <2>1, <3>1
  <2>2. CASE i # n
    <3>1. i \in DOMAIN ev /\ ev'[i] = ev[i] /\ ev[i].type = "Finished" /\ b = ev[i].batch
      BY <1>8, <1>10, <1>14, <2>2
    <3>2. /\ FinishedOf(b) = {i} /\ \A g \in AdmittedTo(b) : fpc[g] = "gone"
          /\ ev[i].done + ev[i].failed = Cardinality(AdmittedTo(b)) \/ b \in stopped
      BY <3>1 DEF FinishedReport
    <3>3. b # c BY <1>4, <3>2
    <3>4. FinishedOf(b)' = {i} BY <1>12, <3>2, <3>3
    <3> QED BY <1>0, <1>1, <2>0, <3>1, <3>2, <3>4
  <2> QED BY <2>1, <2>2
<1>15. FinishedReport' BY <1>14 DEF FinishedReport, FinishedOf, AdmittedTo, BatchOf
<1> QED BY <1>8, <1>13, <1>15

LEMMA NoticeEvent == ASSUME HubInv, NEW j \in Jobs, Announce(j) PROVE \E e \in Notice : ev' = Append(ev, e)
<1> DEFINE a == admission[j]
           e == [type |-> IF a.fresh THEN "Started" ELSE "Extended",
                 batch |-> a.batch, files |-> FilesOf(j), total |-> a.total]
<1>1. a \in Admissions BY DEF HubInv, TypeOK
<1>2. a.batch \in Nat /\ a.total \in Nat BY <1>1 DEF Admissions
<1>3. FilesOf(j) \in SUBSET Files BY DEF FilesOf
<1>4. ev' = Append(ev, e) BY DEF Announce
<1>5. e \in Notice BY <1>2, <1>3 DEF Notice
<1> QED BY <1>4, <1>5

LEMMA ReportStep == HubInv /\ HubInv' /\ SemInv /\ ReportInv /\ [Next]_vars => ReportInv'
<1> SUFFICES ASSUME HubInv, HubInv', SemInv, ReportInv, [Next]_vars PROVE EvOK' /\ Once' /\ FinishedReport'
  BY CountedStep DEF ReportInv
<1>0. EvOK /\ Counted /\ Once /\ FinishedReport BY DEF ReportInv
<1>1. ASSUME NEW j \in Jobs, Admit(j) PROVE EvOK' /\ Once' /\ FinishedReport'
  BY <1>0, <1>1, ReportAdmit
<1>2. CASE \A j \in Jobs : ~Admit(j)
  <2>1. /\ batch' = batch /\ stopped \subseteq stopped'
        /\ \A f \in Files : BatchOf(f)' = BatchOf(f)
        /\ \A f \in Files : fpc[f] = "gone" => fpc'[f] = "gone"
        /\ \A b : AdmittedTo(b)' = AdmittedTo(b)
    BY <1>2, TaskFrame
  <2>2. ASSUME NEW f \in Files, EmitFinished(f) PROVE EvOK' /\ Once' /\ FinishedReport'
    BY <1>0, <2>1, <2>2, ReportEmit
  <2>3. ASSUME NEW f \in Files, TaskDone(f), fpc'[f] = "emitting" PROVE EvOK' /\ Once' /\ FinishedReport'
    BY <1>0, <2>1, <2>3, ReportDrain
  <2>4. ASSUME NEW f \in Files,
               Spawn(f) \/ Acquire(f) \/ Succeed(f) \/ Fail(f) \/ Unregister(f) \/ (TaskDone(f) /\ fpc'[f] # "emitting")
        PROVE  EvOK' /\ Once' /\ FinishedReport'
    <3>1. ev' = ev BY <2>4 DEF Spawn, Acquire, Succeed, Fail, Unregister, TaskDone
    <3>2. fpc \in [Files -> FilePcs] BY DEF HubInv, TypeOK
    <3>3. \A g \in Files : fpc'[g] = "emitting" => fpc[g] = "emitting"
      BY <2>4, <3>2 DEF Spawn, Acquire, Succeed, Fail, Unregister, TaskDone, AfterAcquire
    <3> QED BY <1>0, <2>1, <3>1, <3>3, ReportKept
  <2>5. ASSUME NEW j \in Jobs, Announce(j) PROVE EvOK' /\ Once' /\ FinishedReport'
    <3>1. fpc' = fpc BY <2>5 DEF Announce
    <3> QED BY <1>0, <2>1, <2>5, <3>1, NoticeEvent, ReportKept
  <2>6. CASE CancelAll \/ (\E f \in Files : CancelFile(f)) \/ UNCHANGED vars
    <3>1. fpc' = fpc /\ ev' = ev BY <2>6 DEF CancelAll, CancelFile, vars
    <3> QED BY <1>0, <2>1, <3>1, ReportKept
  <2> QED BY <1>2, <2>2, <2>3, <2>4, <2>5, <2>6 DEF Next, JobStep, TaskStep
<1> QED BY <1>1, <1>2

LEMMA ReportInit == Init => ReportInv
<1> SUFFICES ASSUME Init PROVE ReportInv OBVIOUS
<1>1. ev = <<>> /\ done = {} /\ failed = {} /\ \A f \in Files : fpc[f] = "none" BY DEF Init
<1>2. EvOK /\ DOMAIN ev = {} BY <1>1 DEF EvOK
<1> QED BY <1>1, <1>2 DEF ReportInv, Counted, Once, FinishedReport, Past

\* However the tasks of however many batches interleave, and whatever is cancelled: a batch
\* sends TransferFinished at most once, after its last file and for all of them, and unless
\* it was cancelled as a whole the counts it carries are those of its files.
THEOREM ReportsAlwaysExact == Spec => []FinishedReport
<1>1. ReportInv => FinishedReport BY DEF ReportInv
<1> QED BY <1>1, HubInvariant, PermitInit, PermitNext, ReportInit, ReportStep, PTL DEF Spec

-----------------------------------------------------------------------------
(* The progress bar *)

\* Somebody has yet to send TransferFinished: a file is live, or its report is on its way.
Pending == Live # {} \/ \E f \in Files : fpc[f] = "emitting"

\* The last event sent is a TransferFinished unless one is still to come.
Awaited == Len(ev) > 0 /\ ev[Len(ev)].type # "Finished" => Pending

\* The bar is down whenever the last event it handled is a TransferFinished, or it handled none.
Shown == /\ cursor \in 0 .. Len(ev)
         /\ cursor = 0 \/ ev[cursor].type = "Finished" => bar = "hidden" /\ rows = {}

\* Sending an event leaves the earlier ones where they are.
LEMMA SentLast ==
    ASSUME NEW S, NEW s \in Seq(S), NEW e
    PROVE  /\ Len(s) \in Nat /\ Len(Append(s, e)) = Len(s) + 1
           /\ \A i \in 1 .. Len(s) : Append(s, e)[i] = s[i]
           /\ Append(s, e)[Len(s) + 1] = e
<1>1. s \in Seq(S \cup {e}) /\ e \in S \cup {e} OBVIOUS
<1> QED BY <1>1, AppendProperties, LenProperties

\* A step of the hub sends one event or none.
LEMMA HubSends == ASSUME [Next]_vars PROVE ev' = ev \/ \E e : ev' = Append(ev, e)
<1>1. ASSUME NEW j \in Jobs, JobStep(j) PROVE ev' = ev \/ \E e : ev' = Append(ev, e)
  BY <1>1 DEF JobStep, Admit, Announce
<1>2. ASSUME NEW f \in Files, TaskStep(f) PROVE ev' = ev \/ \E e : ev' = Append(ev, e)
  BY <1>2 DEF TaskStep, Spawn, Acquire, Succeed, Fail, Unregister, TaskDone, EmitFinished
<1>3. CASE CancelAll \/ (\E f \in Files : CancelFile(f)) \/ UNCHANGED vars
  BY <1>3 DEF CancelAll, CancelFile, vars
<1> QED BY <1>1, <1>2, <1>3 DEF Next

\* Only the sending of TransferFinished itself ends the wait for it.
LEMMA PendingStep ==
    ASSUME HubInv, HubInv', [Next]_vars, \A f \in Files : ~EmitFinished(f), Pending
    PROVE  Pending'
<1>0. TypeOK /\ NoDrainRace /\ NoDrainRace' BY DEF HubInv
<1>1. fpc \in [Files -> FilePcs] BY <1>0 DEF TypeOK
<1>2. CASE status' = "open" BY <1>0, <1>2 DEF NoDrainRace, Pending
<1>3. ASSUME NEW f \in Files, TaskDone(f), status' # "open" PROVE Pending'
  <2>1. f \in Live /\ status = "open" BY <1>0, <1>3 DEF TaskDone, Live, NoDrainRace
  <2>2. fpc'[f] = "emitting" BY <1>1, <1>3, <2>1 DEF TaskDone
  <2> QED BY <2>2 DEF Pending
<1>4. ASSUME \A f \in Files : ~TaskDone(f), \A j \in Jobs : ~Admit(j) PROVE Pending'
  <2>1. status' = status
    BY <1>4 DEF Next, JobStep, TaskStep, Announce, Spawn, Acquire, Succeed, Fail, Unregister, EmitFinished,
                CancelAll, CancelFile, vars, hubVars
  <2>2. ASSUME NEW f \in Files, fpc[f] = "emitting" PROVE fpc'[f] = "emitting"
    BY <1>1, <1>4, <2>2 DEF Next, JobStep, TaskStep, Announce, Spawn, Acquire, Succeed, Fail, Unregister,
                            CancelAll, CancelFile, vars
  <2> QED BY <1>0, <2>1, <2>2 DEF NoDrainRace, Pending
<1>5. ASSUME NEW j \in Jobs, Admit(j) PROVE status' = "open" BY <1>5 DEF Admit
<1> QED BY <1>2, <1>3, <1>4, <1>5

LEMMA AwaitedStep == HubInv /\ HubInv' /\ EvOK /\ Awaited /\ [Next]_vars => Awaited'
<1> SUFFICES ASSUME HubInv, HubInv', EvOK, Awaited, [Next]_vars PROVE Awaited' OBVIOUS
<1>0. ev \in Seq(Finish \cup Notice) BY DEF EvOK
<1>1. ASSUME NEW f \in Files, EmitFinished(f) PROVE Awaited'
  <2> DEFINE b == BatchOf(f)
             e == [type |-> "Finished", batch |-> b,
                   done |-> Cardinality({g \in done : BatchOf(g) = b}),
                   failed |-> Cardinality({g \in failed : BatchOf(g) = b})]
  <2>1. ev' = Append(ev, e) /\ e.type = "Finished" BY <1>1 DEF EmitFinished
  <2> HIDE DEF e
  <2>2. ev'[Len(ev')] = e BY <1>0, <2>1, SentLast
  <2> QED BY <2>1, <2>2 DEF Awaited
<1>2. ASSUME NEW j \in Jobs, Announce(j) PROVE Awaited'
  <2>1. PICK f \in Files : JobOf[f] = j BY HubAssumption DEF HubAssumption, FilesOf
  <2>2. fpc[f] = "admitted" BY <1>2, <2>1 DEF HubInv, JobInv, Announce
  <2>3. fpc' = fpc BY <1>2 DEF Announce
  <2> QED BY <2>2, <2>3 DEF Awaited, Pending, Live
<1>3. ASSUME \A f \in Files : ~EmitFinished(f), \A j \in Jobs : ~Announce(j) PROVE Awaited'
  <2>1. ev' = ev
    BY <1>3 DEF Next, JobStep, TaskStep, Admit, Spawn, Acquire, Succeed, Fail, Unregister, TaskDone,
                CancelAll, CancelFile, vars
  <2> QED BY <1>3, <2>1, PendingStep DEF Awaited
<1> QED BY <1>1, <1>2, <1>3

\* A hub step adds to what the bar has not handled yet; a step of the bar handles the next event.
LEMMA ShownStep == EvOK /\ Shown /\ [BarNext]_barVars => Shown'
<1> SUFFICES ASSUME EvOK, Shown, [BarNext]_barVars PROVE Shown' OBVIOUS
<1>0. ev \in Seq(Finish \cup Notice) /\ Len(ev) \in Nat BY DEF EvOK
<1>1. CASE BarStep
  <2>1. ev' = ev BY <1>1 DEF BarStep, transfer_started, transfer_extended, transfer_finished, vars
  <2>2. cursor \in 0 .. Len(ev) /\ cursor < Len(ev) /\ cursor' = cursor + 1
    BY <1>1 DEF Shown, BarStep, transfer_started, transfer_extended, transfer_finished, Received
  <2>3. cursor' \in 0 .. Len(ev) /\ cursor' # 0 BY <1>0, <2>2
  <2>4. ev[cursor'].type = "Finished" => bar' = "hidden" /\ rows' = {}
    BY <1>1, <2>2 DEF BarStep, transfer_started, transfer_extended, transfer_finished, Received
  <2> QED BY <2>1, <2>3, <2>4 DEF Shown
<1>2. CASE [Next]_vars /\ UNCHANGED uiVars
  <2>1. cursor' = cursor /\ bar' = bar /\ rows' = rows BY <1>2 DEF uiVars
  <2>2. CASE ev' = ev BY <2>1, <2>2 DEF Shown
  <2>3. ASSUME NEW e, ev' = Append(ev, e) PROVE Shown'
    <3>1. Len(ev') = Len(ev) + 1 /\ \A i \in 1 .. Len(ev) : ev'[i] = ev[i] BY <1>0, <2>3, SentLast
    <3>2. cursor \in 0 .. Len(ev) BY DEF Shown
    <3>3. cursor \in 0 .. Len(ev') /\ (cursor = 0 \/ ev'[cursor] = ev[cursor]) BY <1>0, <3>1, <3>2
    <3> QED BY <2>1, <3>3 DEF Shown
  <2> QED BY <1>2, <2>2, <2>3, HubSends
<1> QED BY <1>1, <1>2 DEF BarNext, barVars

\* The bar only watches: it adds nothing to what the hub may do.
LEMMA BarWatches == [BarNext]_barVars => [Next]_vars
BY DEF BarNext, BarStep, transfer_started, transfer_extended, transfer_finished, barVars

\* In whatever order the tasks of whatever batches send their events: once every event is
\* handled and no batch is open, the bar is hidden and has no row left.
THEOREM BarAlwaysHiddenAtRest == BarSpec => []BarHiddenAtRest
<1> DEFINE BarInv == HubInv /\ SemInv /\ PermitInv /\ ReportInv /\ Awaited /\ Shown
<1>1. BarInit => BarInv
  <2> SUFFICES ASSUME BarInit PROVE Awaited /\ Shown BY HubInit, PermitInit, ReportInit DEF BarInit
  <2>1. ev = <<>> /\ cursor = 0 /\ bar = "hidden" /\ rows = {} BY DEF BarInit, Init
  <2>2. Len(ev) = 0 BY <2>1
  <2> QED BY <2>1, <2>2 DEF Awaited, Shown
<1>2. BarInv /\ [BarNext]_barVars => BarInv'
  <2> SUFFICES ASSUME BarInv, [BarNext]_barVars PROVE BarInv' OBVIOUS
  <2>1. [Next]_vars BY BarWatches
  <2>2. EvOK BY DEF ReportInv
  <2>3. HubInv' BY <2>1, HubNext
  <2> QED BY <2>1, <2>2, <2>3, PermitNext, ReportStep, AwaitedStep, ShownStep
<1>3. BarInv => BarHiddenAtRest
  <2> SUFFICES ASSUME BarInv, Settled, status = "closed" PROVE bar = "hidden" /\ rows = {}
    BY DEF BarHiddenAtRest
  <2>1. Live = {} BY DEF HubInv, NoDrainRace
  <2>2. ~Pending BY <2>1 DEF Pending, Settled
  <2>3. Len(ev) \in Nat /\ cursor = Len(ev) BY DEF ReportInv, EvOK, Settled
  <2>4. cursor = 0 \/ ev[cursor].type = "Finished" BY <2>2, <2>3 DEF Awaited
  <2> QED BY <2>4 DEF Shown
<1> QED BY <1>1, <1>2, <1>3, PTL DEF BarSpec

=============================================================================
