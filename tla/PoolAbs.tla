------------------------------ MODULE PoolAbs ------------------------------
(***************************************************************************)
(* What a Pool promises its users, without threads, Mutex or free list:    *)
(* a set of buffers of which each is available or held, that can be closed *)
(* once, and whose memory is reclaimed in the very step in which the last  *)
(* held buffer of a closed pool is given back.  A panic inside Pool::get   *)
(* breaks the pool: from then on nothing can be taken, and what is given   *)
(* back is lost.                                                           *)
(***************************************************************************)
CONSTANT Buffers

VARIABLES avail, held, closed, broken, reclaimed

absVars == <<avail, held, closed, broken, reclaimed>>

Init ==
    /\ avail = Buffers
    /\ held = {}
    /\ closed = FALSE
    /\ broken = FALSE
    /\ reclaimed = FALSE

Take ==
    /\ ~closed /\ ~broken
    /\ \E b \in avail : avail' = avail \ {b} /\ held' = held \cup {b}
    /\ UNCHANGED <<closed, broken, reclaimed>>

Give ==
    /\ ~broken
    /\ \E b \in held : held' = held \ {b} /\ avail' = avail \cup {b}
    /\ reclaimed' = (closed /\ held' = {})
    /\ UNCHANGED <<closed, broken>>

Lose ==
    /\ broken
    /\ \E b \in held : held' = held \ {b}
    /\ UNCHANGED <<avail, closed, broken, reclaimed>>

Close ==
    /\ ~closed /\ ~broken
    /\ closed' = TRUE
    /\ UNCHANGED <<avail, held, broken, reclaimed>>

\* Only an exhausted pool allocates under its lock, and so only an exhausted
\* pool can break.
Break ==
    /\ ~closed /\ ~broken
    /\ avail = {}
    /\ broken' = TRUE
    /\ UNCHANGED <<avail, held, closed, reclaimed>>

Next == Take \/ Give \/ Lose \/ Close \/ Break

Spec == Init /\ [][Next]_absVars
=============================================================================
