-------------------------- MODULE ConnectionBudget --------------------------
(***************************************************************************)
(* What the pool promises to the database server and to its borrowers,     *)
(* without the counter, the queue, the wake-ups or the order of the atomic *)
(* accesses: at most MaxSize connections are open or being opened; one is  *)
(* opened only within that budget and only until the pool is closed; a     *)
(* connection is idle or lent to one borrower, and is lent only from the   *)
(* idle ones or to the task that opened it.                                *)
(***************************************************************************)
EXTENDS Naturals

CONSTANT MaxSize

VARIABLES
    opening,  \* connections being opened
    lent,     \* connections in the hands of borrowers
    idle,     \* connections that wait for a borrower
    closed

vars == <<opening, lent, idle, closed>>

Init == opening = 0 /\ lent = 0 /\ idle = 0 /\ closed = FALSE

\* A new connection is begun within the budget of an open pool.
Open ==
    /\ ~closed
    /\ opening + lent + idle < MaxSize
    /\ opening' = opening + 1
    /\ UNCHANGED <<lent, idle, closed>>

Opened ==
    /\ opening > 0
    /\ opening' = opening - 1
    /\ lent' = lent + 1
    /\ UNCHANGED <<idle, closed>>

\* The attempt fails, or the task that made it goes away.
OpenFails ==
    /\ opening > 0
    /\ opening' = opening - 1
    /\ UNCHANGED <<lent, idle, closed>>

Lend ==
    /\ idle > 0
    /\ idle' = idle - 1
    /\ lent' = lent + 1
    /\ UNCHANGED <<opening, closed>>

GiveBack ==
    /\ lent > 0
    /\ lent' = lent - 1
    /\ idle' = idle + 1
    /\ UNCHANGED <<opening, closed>>

\* A borrower's connection is dropped, or leaves the pool with it.
DropLent ==
    /\ lent > 0
    /\ lent' = lent - 1
    /\ UNCHANGED <<opening, idle, closed>>

\* An idle connection is found dead, or drained by close().
DropIdle ==
    /\ idle > 0
    /\ idle' = idle - 1
    /\ UNCHANGED <<opening, lent, closed>>

Close ==
    /\ closed' = TRUE
    /\ UNCHANGED <<opening, lent, idle>>

Next == \/ Open \/ Opened \/ OpenFails \/ Lend \/ GiveBack
        \/ DropLent \/ DropIdle \/ Close

Spec == Init /\ [][Next]_vars
=============================================================================
