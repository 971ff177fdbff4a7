------------------------- MODULE ManifestRegister -------------------------
(***************************************************************************)
(* What the manifest buffer promises to the rest of the worker, stated     *)
(* without locks, fetches or flush phases.  Every directory has a logical  *)
(* content, `view`, on which each edit acts atomically, and a content on   *)
(* the backend, `disk`, which is only ever overwritten with something the  *)
(* directory really contained at some moment of this session (`seen`).  A  *)
(* crash falls back to what is on the backend.                             *)
(***************************************************************************)

CONSTANTS Dirs,      \* directory prefixes that carry a ".rse" manifest
          Names      \* encrypted path segments: the keys of a manifest

VARIABLES view,      \* the content a reader of the store is given
          disk,      \* the content of the ".rse" objects
          seen       \* every content the directory has had this session

vars == <<view, disk, seen>>

Manifest == SUBSET Names

Init == /\ disk \in [Dirs -> Manifest]
        /\ view = disk
        /\ seen = [d \in Dirs |-> {disk[d]}]

\* One edit reads the logical content and changes at most one entry of it.
Edit(d) ==
    /\ \E n \in Names : view' \in {[view EXCEPT ![d] = @ \cup {n}],
                                   [view EXCEPT ![d] = @ \ {n}]}
    /\ seen' = [seen EXCEPT ![d] = @ \cup {view'[d]}]
    /\ UNCHANGED disk

\* A write-back stores one of the contents the directory has had.
WriteBack(d) == /\ \E m \in seen[d] : disk' = [disk EXCEPT ![d] = m]
                /\ UNCHANGED <<view, seen>>

\* The process dies: what was not written back is gone, and nothing else.
Crash == /\ view' = disk
         /\ seen' = [d \in Dirs |-> {disk[d]}]
         /\ UNCHANGED disk

Next == \/ \E d \in Dirs : Edit(d) \/ WriteBack(d)
        \/ Crash

Spec == Init /\ [][Next]_vars
=============================================================================
