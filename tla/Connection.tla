----------------------------- MODULE Connection -----------------------------
(***************************************************************************)
(* The shared backend connection of a session and its repair               *)
(* (src/src/worker.rs: Session, Conn, the retry loops of upload_one and    *)
(* run_download, and "heal it and retry once" of the commands).            *)
(*                                                                         *)
(* All tasks of a session use the connection in Conn.backend.  A task      *)
(* whose operation fails probes the connection and rebuilds it if need be, *)
(* one task at a time; the generation counter tells the tasks that waited  *)
(* for the lock that the work has been done for them.                      *)
(*                                                                         *)
(* Connections are numbered in the order in which they are installed.  A   *)
(* dead one fails every request; a wedged one answers small requests, the  *)
(* health probe among them, and moves no file data.                        *)
(***************************************************************************)
EXTENDS Integers

CONSTANTS Tasks,
          Commands,   \* the tasks that run a command; the others move a file
          NoTask,
          Retries,    \* settings.retries
          MaxBreaks,  \* bound: connections that die or get wedged
          MaxOutages  \* bound: times the server cannot be reached

ASSUME ConnectionAssumption ==
    /\ Commands \subseteq Tasks
    /\ NoTask \notin Tasks
    /\ {Retries, MaxBreaks, MaxOutages} \subseteq Nat

VARIABLES
    server,      \* "up" or "down"
    dead, wedged,
    \* Conn:
    backend,     \* the number of the connection in Conn.backend
    generation,
    lock,        \* who holds Conn.reconnect
    \* the tasks:
    pc,
    conn,        \* the connection the task used or probed last
    gen,         \* the generation it read on entering rebuild
    attempt, stalls,
    forced,      \* tasks in force_reconnect
    cancelled,
    breaks, outages,
    \* history:
    raced        \* tasks that read the generation between the installation
                 \* of a connection and the increment that reports it

world == <<server, dead, wedged, breaks, outages>>
shared == <<backend, generation, lock>>
counters == <<attempt, stalls>>
vars == <<world, shared, pc, conn, gen, counters, forced, cancelled, raced>>

Pcs == {"ready", "op", "probe", "probing", "gen", "lock", "dial", "sleep", "bump",
        "rest", "healed", "done", "failed"}

Init ==
    /\ server = "up" /\ dead = {} /\ wedged = {} /\ breaks = 0 /\ outages = 0
    /\ backend = 0 /\ generation = 0 /\ lock = NoTask
    /\ pc = [t \in Tasks |-> "ready"]
    /\ conn = [t \in Tasks |-> 0]
    /\ gen = [t \in Tasks |-> 0]
    /\ attempt = [t \in Tasks |-> 0]
    /\ stalls = [t \in Tasks |-> 0]
    /\ forced = {} /\ cancelled = {} /\ raced = {}

Goto(t, p) == pc' = [pc EXCEPT ![t] = p]

-----------------------------------------------------------------------------
(* an operation and its retries *)

\* One attempt begins, with the connection of this moment; a cancelled file
\* does not begin another.
Begin(t) ==
    /\ pc[t] = "ready"
    /\ IF t \in cancelled
       THEN Goto(t, "failed") /\ UNCHANGED conn
       ELSE Goto(t, "op") /\ conn' = [conn EXCEPT ![t] = backend]
    /\ UNCHANGED <<world, shared, gen, counters, forced, cancelled, raced>>

OpOk(t) ==
    /\ pc[t] = "op" /\ conn[t] \notin dead
    /\ conn[t] \in wedged => t \in Commands
    /\ Goto(t, "done")
    /\ UNCHANGED <<world, shared, conn, gen, counters, forced, cancelled, raced>>

\* A command retries once, a file settings.retries times unless cancelled.
MayRetry(t) == IF t \in Commands THEN attempt[t] = 0
               ELSE attempt[t] < Retries /\ t \notin cancelled

OpErr(t) ==
    /\ pc[t] = "op" /\ conn[t] \in dead
    /\ IF MayRetry(t)
       THEN /\ attempt' = [attempt EXCEPT ![t] = @ + 1]
            /\ stalls' = [stalls EXCEPT ![t] = 0]
            /\ Goto(t, "probe")
       ELSE Goto(t, "failed") /\ UNCHANGED counters
    /\ UNCHANGED <<world, shared, conn, gen, forced, cancelled, raced>>

\* guard_stall drops a transfer that moves nothing.  The second stall in a row
\* forces a reconnect, whatever a probe would say.
OpStall(t) ==
    LET again == stalls[t] + 1 >= 2 IN
    /\ pc[t] = "op" /\ conn[t] \in wedged \cup dead /\ t \notin Commands
    /\ IF MayRetry(t)
       THEN /\ attempt' = [attempt EXCEPT ![t] = @ + 1]
            /\ stalls' = [stalls EXCEPT ![t] = IF again THEN 0 ELSE 1]
            /\ forced' = IF again THEN forced \cup {t} ELSE forced
            /\ Goto(t, IF again THEN "gen" ELSE "probe")
       ELSE Goto(t, "failed") /\ UNCHANGED <<counters, forced>>
    /\ UNCHANGED <<world, shared, conn, gen, cancelled, raced>>

\* The delay before the next attempt (none for a command).
Rest(t) ==
    /\ pc[t] \in {"rest", "healed"}
    /\ Goto(t, "ready")
    /\ UNCHANGED <<world, shared, conn, gen, counters, forced, cancelled, raced>>

-----------------------------------------------------------------------------
(* wait_until_healthy and rebuild *)

ProbeSend(t) ==
    /\ pc[t] = "probe"
    /\ conn' = [conn EXCEPT ![t] = backend]
    /\ Goto(t, "probing")
    /\ UNCHANGED <<world, shared, gen, counters, forced, cancelled, raced>>

\* The answer, or the timeout of ten seconds.
ProbeEnd(t) ==
    /\ pc[t] = "probing"
    /\ Goto(t, IF conn[t] \in dead THEN "gen" ELSE "rest")
    /\ UNCHANGED <<world, shared, conn, gen, counters, forced, cancelled, raced>>

ReadGeneration(t) ==
    /\ pc[t] = "gen"
    /\ gen' = [gen EXCEPT ![t] = generation]
    /\ raced' = IF generation = backend THEN raced \ {t} ELSE raced \cup {t}
    /\ Goto(t, "lock")
    /\ UNCHANGED <<world, shared, conn, counters, forced, cancelled>>

\* Fault: the test of the generation holds even if nobody reconnected.
RebuiltAlways(t) == generation >= gen[t]

\* "another task already reconnected while we waited"
Rebuilt(t) == generation # gen[t]

Lock(t) ==
    /\ pc[t] = "lock" /\ lock = NoTask
    /\ IF Rebuilt(t)
       THEN Goto(t, "healed") /\ forced' = forced \ {t} /\ UNCHANGED lock
       ELSE Goto(t, "dial") /\ lock' = t /\ UNCHANGED forced
    /\ UNCHANGED <<world, backend, generation, conn, gen, counters, cancelled, raced>>

\* Fault: the lock stays taken.
GiveUpLocked(t) ==
    /\ pc[t] \in {"dial", "sleep"} /\ t \in cancelled
    /\ forced' = forced \ {t}
    /\ Goto(t, "rest")
    /\ UNCHANGED <<world, shared, conn, gen, counters, cancelled, raced>>

\* Leaving rebuild early, because of a cancel, drops the lock.
GiveUp(t) ==
    /\ pc[t] \in {"dial", "sleep"} /\ t \in cancelled
    /\ lock' = NoTask /\ forced' = forced \ {t}
    /\ Goto(t, "rest")
    /\ UNCHANGED <<world, backend, generation, conn, gen, counters, cancelled, raced>>

\* connect_backend succeeds, and the new connection replaces the old one ...
Install(t) ==
    /\ pc[t] = "dial" /\ t \notin cancelled /\ server = "up"
    /\ backend' = backend + 1
    /\ Goto(t, "bump")
    /\ UNCHANGED <<world, generation, lock, conn, gen, counters, forced, cancelled, raced>>

\* ... which the generation reports a moment later.
Bump(t) ==
    /\ pc[t] = "bump"
    /\ generation' = generation + 1
    /\ lock' = NoTask /\ forced' = forced \ {t}
    /\ Goto(t, "healed")
    /\ UNCHANGED <<world, backend, conn, gen, counters, cancelled, raced>>

DialErr(t) ==
    /\ pc[t] = "dial" /\ t \notin cancelled /\ server = "down"
    /\ Goto(t, "sleep")
    /\ UNCHANGED <<world, shared, conn, gen, counters, forced, cancelled, raced>>

SleepOver(t) ==
    /\ pc[t] = "sleep" /\ t \notin cancelled
    /\ Goto(t, "dial")
    /\ UNCHANGED <<world, shared, conn, gen, counters, forced, cancelled, raced>>

-----------------------------------------------------------------------------
(* the user and the world *)

Cancel(t) ==
    /\ t \notin Commands \cup cancelled /\ pc[t] \notin {"done", "failed"}
    /\ cancelled' = cancelled \cup {t}
    /\ UNCHANGED <<world, shared, pc, conn, gen, counters, forced, raced>>

Break ==
    /\ breaks < MaxBreaks
    /\ breaks' = breaks + 1
    /\ \/ dead' = dead \cup {backend} /\ UNCHANGED wedged
       \/ wedged' = wedged \cup {backend} /\ UNCHANGED dead
    /\ UNCHANGED <<server, outages, shared, pc, conn, gen, counters, forced, cancelled, raced>>

\* An outage also kills the connection in use.
OutageBegins ==
    /\ server = "up" /\ outages < MaxOutages
    /\ server' = "down" /\ outages' = outages + 1
    /\ dead' = dead \cup {backend}
    /\ UNCHANGED <<wedged, breaks, shared, pc, conn, gen, counters, forced, cancelled, raced>>

OutageEnds ==
    /\ server = "down" /\ server' = "up"
    /\ UNCHANGED <<dead, wedged, breaks, outages, shared, pc, conn, gen, counters, forced,
                   cancelled, raced>>

TaskStep(t) == \/ Begin(t) \/ OpOk(t) \/ OpErr(t) \/ OpStall(t) \/ Rest(t)
               \/ ProbeSend(t) \/ ProbeEnd(t) \/ ReadGeneration(t) \/ GiveUp(t)
               \/ Install(t) \/ Bump(t) \/ DialErr(t) \/ SleepOver(t)

Next == \/ \E t \in Tasks : TaskStep(t) \/ Lock(t) \/ Cancel(t)
        \/ Break \/ OutageBegins \/ OutageEnds

Spec == Init /\ [][Next]_vars

\* Every task runs on.  The tokio mutex is first come, first served, so a task
\* that waits for it gets it: strong fairness.  Nothing is assumed of the world.
Fairness == \A t \in Tasks : WF_vars(TaskStep(t)) /\ SF_vars(Lock(t))

FairSpec == Spec /\ Fairness

-----------------------------------------------------------------------------
(* Properties *)

\* Every variable has its type, and the lock is held by exactly the task that
\* is inside the rebuild loop.
TypeOK ==
    /\ server \in {"up", "down"}
    /\ dead \subseteq Nat /\ wedged \subseteq Nat
    /\ breaks \in Nat /\ outages \in Nat
    /\ backend \in Nat /\ generation \in Nat
    /\ lock \in Tasks \cup {NoTask}
    /\ pc \in [Tasks -> Pcs]
    /\ \A t \in Tasks : pc[t] \in {"dial", "sleep", "bump"} <=> lock = t
    /\ conn \in [Tasks -> Nat] /\ gen \in [Tasks -> Nat]
    /\ attempt \in [Tasks -> Nat] /\ stalls \in [Tasks -> Nat]
    /\ forced \subseteq Tasks /\ cancelled \subseteq Tasks /\ raced \subseteq Tasks

\* A task that comes back from rebuild, having waited for another or having
\* done it itself, finds a newer connection than the one it complained about.
\* (Excepted: it read the generation in the instant between the installation
\* of a connection and the increment of the generation.)
HealedIsNewer == \A t \in Tasks \ raced : pc[t] = "healed" => conn[t] < backend

\* Once the server stays up, every operation ends: no task is left waiting for
\* the lock, for a probe or for another attempt, however often the connection
\* broke before and whoever was cancelled meanwhile.
EveryOperationEnds ==
    <>[](server = "up") => \A t \in Tasks : <>(pc[t] \in {"done", "failed"})
=============================================================================
