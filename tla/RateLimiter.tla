----------------------------- MODULE RateLimiter -----------------------------
(***************************************************************************)
(* The token bucket that paces the transfers of a session                  *)
(* (src/src/ratelimit.rs), with the downloads that draw on it.  Time goes  *)
(* in ticks; budget is counted in a unit that divides all sizes.  Elapsed  *)
(* time is kept up to the point where any more would refill a full bucket. *)
(***************************************************************************)
EXTENDS Integers

CONSTANTS Tasks,
          Rates,       \* the rates the user sets; 0 is unlimited
          BurstFloor,  \* BURST_FLOOR
          Chunk,       \* crypto::CHUNK
          Tag,         \* crypto::TAG
          ReadSize,    \* the read buffer of a plain download
          MaxIdle      \* bound: ticks that are remembered between refills

VARIABLES rate, tokens,
          idle,        \* ticks since last_refill
          pc, need,
          wake         \* ticks until the task's sleep is over

vars == <<rate, tokens, idle, pc, need, wake>>

\* What download_one asks for: a read of a plain file, or one sealed chunk.
Charges == 1 .. ReadSize \cup {Chunk + Tag}

Capacity == IF rate > BurstFloor THEN rate ELSE BurstFloor
Refilled == LET sum == tokens + idle * rate IN IF sum < Capacity THEN sum ELSE Capacity
CeilDiv(a, b) == (a + b - 1) \div b

Init == /\ rate \in Rates /\ tokens = 0 /\ idle = 0
        /\ pc = [t \in Tasks |-> "idle"]
        /\ need = [t \in Tasks |-> 0]
        /\ wake = [t \in Tasks |-> 0]

\* A chunk has been read and acquire is called with its length.
Call(t) == /\ pc[t] = "idle"
           /\ \E n \in Charges : need' = [need EXCEPT ![t] = n]
           /\ pc' = [pc EXCEPT ![t] = "check"]
           /\ UNCHANGED <<rate, tokens, idle, wake>>

Return(t) == pc' = [pc EXCEPT ![t] = "idle"] /\ need' = [need EXCEPT ![t] = 0]

\* One turn of acquire's loop.
Unlimited(t) == /\ pc[t] = "check" /\ rate = 0
                /\ Return(t)
                /\ UNCHANGED <<rate, tokens, idle, wake>>

Grant(t) == /\ pc[t] = "check" /\ rate > 0 /\ Refilled >= need[t]
            /\ tokens' = Refilled - need[t] /\ idle' = 0
            /\ Return(t)
            /\ UNCHANGED <<rate, wake>>

Wait(t) == /\ pc[t] = "check" /\ rate > 0 /\ Refilled < need[t]
           /\ tokens' = Refilled /\ idle' = 0
           /\ wake' = [wake EXCEPT ![t] = CeilDiv(need[t] - Refilled, rate)]
           /\ pc' = [pc EXCEPT ![t] = "sleep"]
           /\ UNCHANGED <<rate, need>>

Wake(t) == /\ pc[t] = "sleep" /\ wake[t] = 0
           /\ pc' = [pc EXCEPT ![t] = "check"]
           /\ UNCHANGED <<rate, tokens, idle, need, wake>>

Tick == /\ idle' = IF idle < MaxIdle THEN idle + 1 ELSE idle
        /\ wake' = [t \in Tasks |-> IF wake[t] > 0 THEN wake[t] - 1 ELSE 0]
        /\ UNCHANGED <<rate, tokens, pc, need>>

set_rate == /\ rate' \in Rates
            /\ UNCHANGED <<tokens, idle, pc, need, wake>>

AcquireStep(t) == Unlimited(t) \/ Grant(t) \/ Wait(t) \/ Wake(t)

Next == (\E t \in Tasks : Call(t) \/ AcquireStep(t)) \/ Tick \/ set_rate

Spec == Init /\ [][Next]_vars

\* The task runs on and time passes.
FairSpec == Spec /\ WF_vars(Tick) /\ \A t \in Tasks : WF_vars(AcquireStep(t))

-----------------------------------------------------------------------------

\* "`need <= capacity` is guaranteed by BURST_FLOOR, so this always eventually
\* makes progress": acquire returns.
AcquireReturns == \A t \in Tasks : (pc[t] = "check") ~> (pc[t] = "idle")
=============================================================================
