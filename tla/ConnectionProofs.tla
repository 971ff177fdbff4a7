-------------------------- MODULE ConnectionProofs --------------------------
(* Proofs about Connection, for any number of tasks, retries and failures. *)
EXTENDS Connection, TLAPS

\* The generation lags behind the installed connection exactly while the task
\* that installed it has not reported it.
LagInv ==
    /\ \A t \in Tasks : pc[t] = "bump" => backend = generation + 1
    /\ (\A t \in Tasks : pc[t] # "bump") => backend = generation

\* What a task has noted down is never ahead of the shared state.  A waiting
\* task's complaint is covered by the generation it read, unless it read it in
\* the gap.
NotesInv ==
    \A t \in Tasks :
        /\ conn[t] <= backend
        /\ gen[t] <= generation
        /\ pc[t] \in {"lock", "dial", "sleep"} /\ t \notin raced => conn[t] <= gen[t]
        /\ pc[t] \in {"dial", "sleep"} => gen[t] = generation
        /\ pc[t] = "bump" /\ t \notin raced => conn[t] < backend

ConnInv == TypeOK /\ LagInv /\ NotesInv /\ HealedIsNewer

\* The first connection is numbered zero and everyone may use it.
LEMMA ConnInit == Init => ConnInv
BY ConnectionAssumption
   DEF ConnectionAssumption, Init, ConnInv, TypeOK, Pcs, LagInv, NotesInv, HealedIsNewer

\* Steps of one task that change neither the shared state nor the lock: it
\* moves between places outside the lock, or from "dial" to "sleep" and back.
LEMMA MoveStep ==
    ASSUME ConnInv, NEW t \in Tasks,
           \/ Begin(t) \/ OpOk(t) \/ OpErr(t) \/ OpStall(t) \/ Rest(t)
           \/ ProbeSend(t) \/ ProbeEnd(t) \/ DialErr(t) \/ SleepOver(t)
    PROVE  ConnInv'
<1> USE ConnectionAssumption DEF ConnectionAssumption
<1>0. TypeOK /\ LagInv /\ NotesInv /\ HealedIsNewer BY DEF ConnInv
<1>1. UNCHANGED <<world, shared, gen, cancelled, raced>>
  BY DEF Begin, OpOk, OpErr, OpStall, Rest, ProbeSend, ProbeEnd, DialErr, SleepOver
<1>2. PICK p \in Pcs : /\ pc' = [pc EXCEPT ![t] = p]
                       /\ p \notin {"lock", "healed", "bump"} /\ pc[t] # "bump"
                       /\ p \in {"dial", "sleep"} <=> pc[t] \in {"dial", "sleep"}
                       /\ p \in {"dial", "sleep"} => conn' = conn
  BY DEF Begin, OpOk, OpErr, OpStall, Rest, ProbeSend, ProbeEnd, DialErr, SleepOver, Goto, Pcs
<1>3. conn' = conn \/ conn' = [conn EXCEPT ![t] = backend]
  BY DEF Begin, OpOk, OpErr, OpStall, Rest, ProbeSend, ProbeEnd, DialErr, SleepOver
<1>4. \A u \in Tasks : pc'[u] = IF u = t THEN p ELSE pc[u] BY <1>0, <1>2 DEF TypeOK
<1>5. \A u \in Tasks : u # t => conn'[u] = conn[u] BY <1>0, <1>3 DEF TypeOK
<1>6. conn' \in [Tasks -> Nat] /\ conn'[t] \in {conn[t], backend} BY <1>0, <1>3 DEF TypeOK
<1>7. attempt' \in [Tasks -> Nat] /\ stalls' \in [Tasks -> Nat] /\ forced' \subseteq Tasks
  BY <1>0 DEF TypeOK, Begin, OpOk, OpErr, OpStall, Rest, ProbeSend, ProbeEnd, DialErr, SleepOver,
              counters
<1>8. TypeOK' BY <1>0, <1>1, <1>2, <1>4, <1>6, <1>7 DEF TypeOK, world, shared
<1>9. LagInv' BY <1>0, <1>1, <1>2, <1>4 DEF LagInv, shared
<1>10. NotesInv'
  <2> SUFFICES ASSUME NEW u \in Tasks
               PROVE  /\ conn'[u] <= backend
                      /\ gen[u] <= generation
                      /\ pc'[u] \in {"lock", "dial", "sleep"} /\ u \notin raced => conn'[u] <= gen[u]
                      /\ pc'[u] \in {"dial", "sleep"} => gen[u] = generation
                      /\ pc'[u] = "bump" /\ u \notin raced => conn'[u] < backend
    BY <1>1 DEF NotesInv, shared
  <2>1. CASE u = t
    <3>1. pc'[t] = p /\ conn'[t] <= backend /\ gen[t] <= generation
      BY <1>0, <1>4, <1>6 DEF NotesInv, TypeOK
    <3>2. CASE p \in {"dial", "sleep"}
      <4>1. conn' = conn /\ pc[t] \in {"dial", "sleep"} BY <3>2, <1>2
      <4> QED BY <4>1, <3>1, <3>2, <2>1, <1>0 DEF NotesInv
    <3>3. CASE p \notin {"dial", "sleep"} BY <3>1, <3>3, <2>1, <1>2
    <3> QED BY <3>2, <3>3
  <2>2. CASE u # t BY <2>2, <1>0, <1>4, <1>5 DEF NotesInv
  <2> QED BY <2>1, <2>2
<1>11. HealedIsNewer' BY <1>0, <1>1, <1>2, <1>4, <1>5 DEF HealedIsNewer, shared
<1> QED BY <1>8, <1>9, <1>10, <1>11 DEF ConnInv

\* Reading the generation covers the complaint, except in the gap.
LEMMA ReadStep == ASSUME ConnInv, NEW t \in Tasks, ReadGeneration(t) PROVE ConnInv'
<1> USE ConnectionAssumption DEF ConnectionAssumption
<1>0. TypeOK /\ LagInv /\ NotesInv /\ HealedIsNewer BY DEF ConnInv
<1>1. UNCHANGED <<world, shared, conn, counters, forced, cancelled>> BY DEF ReadGeneration
<1>2. \A u \in Tasks : pc'[u] = IF u = t THEN "lock" ELSE pc[u]
  BY <1>0 DEF TypeOK, ReadGeneration, Goto
<1>3. \A u \in Tasks : gen'[u] = IF u = t THEN generation ELSE gen[u]
  BY <1>0 DEF TypeOK, ReadGeneration
<1>4. \A u \in Tasks : u # t => (u \in raced' <=> u \in raced) BY DEF ReadGeneration
<1>5. t \notin raced' => generation = backend BY DEF ReadGeneration
<1>6. TypeOK'
  BY <1>0, <1>1, <1>2 DEF TypeOK, ReadGeneration, Goto, Pcs, world, shared, counters
<1>7. LagInv' BY <1>0, <1>1, <1>2 DEF LagInv, shared, ReadGeneration
<1>8. NotesInv'
  <2> SUFFICES ASSUME NEW u \in Tasks
               PROVE  /\ conn[u] <= backend
                      /\ gen'[u] <= generation
                      /\ pc'[u] \in {"lock", "dial", "sleep"} /\ u \notin raced' => conn[u] <= gen'[u]
                      /\ pc'[u] \in {"dial", "sleep"} => gen'[u] = generation
                      /\ pc'[u] = "bump" /\ u \notin raced' => conn[u] < backend
    BY <1>1 DEF NotesInv, shared
  <2>1. CASE u = t BY <2>1, <1>0, <1>2, <1>3, <1>5 DEF NotesInv, TypeOK
  <2>2. CASE u # t BY <2>2, <1>0, <1>2, <1>3, <1>4 DEF NotesInv
  <2> QED BY <2>1, <2>2
<1>9. HealedIsNewer' BY <1>0, <1>1, <1>2, <1>4 DEF HealedIsNewer, shared
<1> QED BY <1>6, <1>7, <1>8, <1>9 DEF ConnInv

\* The lock is taken only when nobody has it, and the generation decides.
LEMMA LockStep == ASSUME ConnInv, NEW t \in Tasks, Lock(t) PROVE ConnInv'
<1> USE ConnectionAssumption DEF ConnectionAssumption
<1>0. TypeOK /\ LagInv /\ NotesInv /\ HealedIsNewer BY DEF ConnInv
<1>1. UNCHANGED <<world, backend, generation, conn, gen, counters, cancelled, raced>> BY DEF Lock
<1>2. \A u \in Tasks : pc[u] # "bump" BY <1>0 DEF Lock, TypeOK
<1>3. backend = generation BY <1>0, <1>2 DEF LagInv
<1>4. \A u \in Tasks : pc'[u] = IF u = t THEN (IF Rebuilt(t) THEN "healed" ELSE "dial") ELSE pc[u]
  BY <1>0 DEF Lock, Goto, TypeOK
<1>5. TypeOK'
  BY <1>0, <1>1, <1>4 DEF TypeOK, Lock, Goto, Pcs, world, counters
<1>6. LagInv' BY <1>1, <1>2, <1>3, <1>4 DEF LagInv
<1>7. NotesInv'
  BY <1>0, <1>1, <1>4 DEF NotesInv, Lock, Rebuilt
<1>8. HealedIsNewer'
  <2>1. Rebuilt(t) /\ t \notin raced => conn[t] < backend
    BY <1>0, <1>3 DEF Rebuilt, NotesInv, Lock, TypeOK
  <2> QED BY <2>1, <1>0, <1>1, <1>4 DEF HealedIsNewer
<1> QED BY <1>5, <1>6, <1>7, <1>8 DEF ConnInv

\* The holder of the lock leaves, or replaces the connection, or reports it.
LEMMA HolderStep ==
    ASSUME ConnInv, NEW t \in Tasks, GiveUp(t) \/ Install(t) \/ Bump(t) PROVE ConnInv'
<1> USE ConnectionAssumption DEF ConnectionAssumption
<1>0. TypeOK /\ LagInv /\ NotesInv /\ HealedIsNewer BY DEF ConnInv
<1>1. lock = t BY <1>0 DEF TypeOK, GiveUp, Install, Bump
<1>2. \A u \in Tasks : u # t => pc[u] \notin {"dial", "sleep", "bump"} BY <1>0, <1>1 DEF TypeOK
<1>3. CASE GiveUp(t)
  <2>1. \A u \in Tasks : pc'[u] = IF u = t THEN "rest" ELSE pc[u] BY <1>0, <1>3 DEF GiveUp, Goto, TypeOK
  <2>2. TypeOK' BY <1>0, <1>1, <1>2, <1>3, <2>1 DEF TypeOK, GiveUp, Goto, Pcs, world, counters
  <2>3. LagInv' BY <1>0, <1>2, <1>3, <2>1 DEF LagInv, GiveUp
  <2>4. NotesInv' BY <1>0, <1>3, <2>1 DEF NotesInv, GiveUp
  <2>5. HealedIsNewer' BY <1>0, <1>3, <2>1 DEF HealedIsNewer, GiveUp
  <2> QED BY <2>2, <2>3, <2>4, <2>5 DEF ConnInv
<1>4. CASE Install(t)
  <2>1. \A u \in Tasks : pc'[u] = IF u = t THEN "bump" ELSE pc[u] BY <1>0, <1>4 DEF Install, Goto, TypeOK
  <2>2. backend = generation BY <1>0, <1>2, <1>4 DEF LagInv, Install
  <2>3. TypeOK' BY <1>0, <1>4, <2>1 DEF TypeOK, Install, Goto, Pcs, world, counters
  <2>4. LagInv' BY <1>0, <1>4, <2>1, <2>2 DEF LagInv, Install, TypeOK
  <2>5. NotesInv' BY <1>0, <1>2, <1>4, <2>1, <2>2 DEF NotesInv, Install, TypeOK
  <2>6. HealedIsNewer' BY <1>0, <1>4, <2>1 DEF HealedIsNewer, Install, TypeOK
  <2> QED BY <2>3, <2>4, <2>5, <2>6 DEF ConnInv
<1>5. CASE Bump(t)
  <2>1. \A u \in Tasks : pc'[u] = IF u = t THEN "healed" ELSE pc[u] BY <1>0, <1>5 DEF Bump, Goto, TypeOK
  <2>2. backend = generation + 1 BY <1>0, <1>5 DEF LagInv, Bump
  <2>3. TypeOK' BY <1>0, <1>1, <1>2, <1>5, <2>1 DEF TypeOK, Bump, Goto, Pcs, world, counters
  <2>4. LagInv' BY <1>2, <1>5, <2>1, <2>2 DEF LagInv, Bump
  <2>5. NotesInv' BY <1>0, <1>2, <1>5, <2>1 DEF NotesInv, Bump, TypeOK
  <2>6. HealedIsNewer' BY <1>0, <1>5, <2>1 DEF HealedIsNewer, NotesInv, Bump
  <2> QED BY <2>3, <2>4, <2>5, <2>6 DEF ConnInv
<1> QED BY <1>3, <1>4, <1>5

\* The user and the world do not touch the session's bookkeeping.
LEMMA WorldStep ==
    ASSUME ConnInv, (\E t \in Tasks : Cancel(t)) \/ Break \/ OutageBegins \/ OutageEnds
    PROVE  ConnInv'
<1> USE ConnectionAssumption DEF ConnectionAssumption
<1>0. TypeOK /\ LagInv /\ NotesInv /\ HealedIsNewer BY DEF ConnInv
<1>1. UNCHANGED <<shared, pc, conn, gen, counters, forced, raced>>
  BY DEF Cancel, Break, OutageBegins, OutageEnds
<1>2. /\ server' \in {"up", "down"} /\ dead' \subseteq Nat /\ wedged' \subseteq Nat
      /\ breaks' \in Nat /\ outages' \in Nat /\ cancelled' \subseteq Tasks
  <2>1. CASE \E t \in Tasks : Cancel(t) BY <2>1, <1>0 DEF TypeOK, Cancel, world
  <2>2. CASE Break
    <3>1. dead' \in {dead, dead \cup {backend}} /\ wedged' \in {wedged, wedged \cup {backend}}
      BY <2>2 DEF Break
    <3>2. dead' \subseteq Nat /\ wedged' \subseteq Nat BY <3>1, <1>0 DEF TypeOK
    <3>3. breaks' \in Nat /\ UNCHANGED <<server, outages, cancelled>>
      BY <2>2, <1>0 DEF TypeOK, Break
    <3> QED BY <3>2, <3>3, <1>0 DEF TypeOK
  <2>3. CASE OutageBegins BY <2>3, <1>0 DEF TypeOK, OutageBegins
  <2>4. CASE OutageEnds BY <2>4, <1>0 DEF TypeOK, OutageEnds
  <2> QED BY <2>1, <2>2, <2>3, <2>4
<1>3. TypeOK' BY <1>0, <1>1, <1>2 DEF TypeOK, shared, counters
<1>4. LagInv' /\ NotesInv' /\ HealedIsNewer'
  BY <1>0, <1>1 DEF LagInv, NotesInv, HealedIsNewer, shared
<1> QED BY <1>3, <1>4 DEF ConnInv

\* Every step of the session keeps the invariant.
LEMMA ConnNext == ConnInv /\ [Next]_vars => ConnInv'
<1> SUFFICES ASSUME ConnInv, [Next]_vars PROVE ConnInv' OBVIOUS
<1>1. ASSUME NEW t \in Tasks, TaskStep(t) PROVE ConnInv'
  BY <1>1, MoveStep, ReadStep, HolderStep DEF TaskStep
<1>2. ASSUME NEW t \in Tasks, Lock(t) PROVE ConnInv' BY <1>2, LockStep
<1>3. ASSUME NEW t \in Tasks, Cancel(t) PROVE ConnInv' BY <1>3, WorldStep
<1>4. CASE Break \/ OutageBegins \/ OutageEnds BY <1>4, WorldStep
<1>5. CASE UNCHANGED vars
  BY <1>5 DEF vars, world, shared, counters, ConnInv, TypeOK, LagInv, NotesInv, HealedIsNewer
<1> QED BY <1>1, <1>2, <1>3, <1>4, <1>5 DEF Next

\* For any number of tasks, retries, breakdowns and outages: the types are
\* kept, and the reconnect lock is held by exactly the task that rebuilds.
THEOREM ConnTypeCorrect == Spec => []TypeOK
BY ConnInit, ConnNext, PTL DEF Spec, ConnInv

\* For any number of them: a task that comes back from rebuild has a newer
\* connection than the one it complained about, unless it read the generation
\* in the gap between installation and increment.
THEOREM RebuildGivesNewer == Spec => []HealedIsNewer
BY ConnInit, ConnNext, PTL DEF Spec, ConnInv
=============================================================================
