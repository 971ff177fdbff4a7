----------------------------- MODULE TransferBar -----------------------------
(***************************************************************************)
(* The progress bar of src/src/ui/browser_page.rs, composed with the hub.  *)
(* The UI takes the hub's events one at a time from the channel, in the    *)
(* order they were sent (src/src/ui/window.rs), and shows or hides the bar *)
(* and its rows accordingly.                                               *)
(***************************************************************************)
EXTENDS TransferHub

VARIABLES cursor,    \* events handled so far; the rest of ev is in the channel
          bar,       \* the revealer: "shown" or "hidden"
          rows,      \* transfer_store: the files with a row
          barTotal   \* total_files

uiVars == <<cursor, bar, rows, barTotal>>
barVars == <<vars, uiVars>>

BarInit == Init /\ cursor = 0 /\ bar = "hidden" /\ rows = {} /\ barTotal = 0

Received(type) == cursor < Len(ev) /\ ev[cursor + 1].type = type

transfer_started ==
    /\ Received("Started")
    /\ bar' = "shown" /\ rows' = ev[cursor + 1].files /\ barTotal' = ev[cursor + 1].total
    /\ cursor' = cursor + 1
    /\ UNCHANGED vars

transfer_extended ==
    /\ Received("Extended")
    /\ bar' = "shown" /\ rows' = rows \cup ev[cursor + 1].files
    /\ barTotal' = ev[cursor + 1].total
    /\ cursor' = cursor + 1
    /\ UNCHANGED vars

\* Fault: the bar is left as it is.
FinishedKeepsBar ==
    /\ Received("Finished")
    /\ rows' = {}
    /\ cursor' = cursor + 1
    /\ UNCHANGED <<vars, bar, barTotal>>

transfer_finished ==
    /\ Received("Finished")
    /\ bar' = "hidden" /\ rows' = {}
    /\ cursor' = cursor + 1
    /\ UNCHANGED <<vars, barTotal>>

BarStep == transfer_started \/ transfer_extended \/ transfer_finished

BarNext == (Next /\ UNCHANGED uiVars) \/ BarStep

BarSpec == BarInit /\ [][BarNext]_barVars

\* As FairSpec, and the main loop of the UI handles what it receives.
BarFairSpec == BarSpec /\ Fairness /\ WF_barVars(BarStep)

-----------------------------------------------------------------------------
(* Properties *)

\* Every event that was sent has been handled, and nobody is about to send one.
Settled == /\ cursor = Len(ev)
           /\ \A j \in Jobs : jpc[j] # "announce"
           /\ \A f \in Files : fpc[f] # "emitting"

\* Whatever order the tasks of two batches send their events in, the bar is
\* gone when the last batch is over: it never stays up for a transfer that
\* does not exist.
BarHiddenAtRest == Settled /\ status = "closed" => bar = "hidden" /\ rows = {}
=============================================================================
