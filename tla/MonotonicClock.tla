--------------------------- MODULE MonotonicClock ---------------------------
(***************************************************************************)
(* ms_monotonic (lib.rs) called by several threads.  The start time is set *)
(* by the first call under double-checked locking: a read of the cell      *)
(* under the read lock, whose guard ends with the statement, and, if that  *)
(* found nothing, get_or_insert under the write lock.  Calls race with one *)
(* another and with the clock of the system, which ticks more finely than  *)
(* the milliseconds that are returned.  The RwLock is std's on Linux: new  *)
(* readers wait behind a writer that waits.                                *)
(***************************************************************************)
EXTENDS Integers

CONSTANTS
    Threads,
    TicksPerMs,  \* ticks of std::time::Instant in a millisecond
    MaxNow,      \* a bound on the clock
    None         \* no thread, no Instant

ASSUME ClockAssumption ==
    /\ TicksPerMs \in Nat \ {0}
    /\ MaxNow \in Nat
    /\ None \notin Threads \cup Int

VARIABLES
    now,      \* the clock of the system
    startup,  \* the Instant in STARTUP_INSTANT, or None
    readers,  \* the threads that hold the read lock
    writer,   \* the thread that holds the write lock, or None
    pc,       \* where each thread is
    si,       \* what each call found in STARTUP_INSTANT or put there
    fetched,  \* the Instant::now() of a call under the write lock
    ret,      \* what each thread's last call returned
    floor,    \* the largest result that had been returned when the call began
    high      \* the largest result returned so far

vars == <<now, startup, readers, writer, pc, si, fetched, ret, floor, high>>

PCs == {"idle", "read", "copy", "elapsed", "write", "queued", "fetch", "insert", "unlock"}

\* Points at which a thread holds the write lock.
Holding == {"fetch", "insert", "unlock"}

Init ==
    /\ now = 0
    /\ startup = None
    /\ readers = {}
    /\ writer = None
    /\ pc = [t \in Threads |-> "idle"]
    /\ si = [t \in Threads |-> None]
    /\ fetched = [t \in Threads |-> None]
    /\ ret = [t \in Threads |-> 0]
    /\ floor = [t \in Threads |-> 0]
    /\ high = 0

Goto(t, from, to) ==
    /\ pc[t] = from
    /\ pc' = [pc EXCEPT ![t] = to]

\* Instant is monotonic.  The modelled clock stops at its bound.
Tick ==
    /\ now' = IF now < MaxNow THEN now + 1 ELSE now
    /\ UNCHANGED <<startup, readers, writer, pc, si, fetched, ret, floor, high>>

Call(t) ==
    /\ Goto(t, "idle", "read")
    /\ floor' = [floor EXCEPT ![t] = high]
    /\ UNCHANGED <<now, startup, readers, writer, si, fetched, ret, high>>

ReadLock(t) ==
    /\ writer = None
    /\ \A u \in Threads : pc[u] # "queued"
    /\ Goto(t, "read", "copy")
    /\ readers' = readers \cup {t}
    /\ UNCHANGED <<now, startup, writer, si, fetched, ret, floor, high>>

\* let si = *STARTUP_INSTANT.read().unwrap(): the guard is a temporary, so it
\* ends with the statement and is gone when the write lock is asked for.
StillReading_InElse(t) == IF startup = None THEN readers ELSE readers \ {t}
StillReading(t) == readers \ {t}

Read(t) ==
    /\ Goto(t, "copy", IF startup = None THEN "write" ELSE "elapsed")
    /\ si' = [si EXCEPT ![t] = startup]
    /\ readers' = StillReading(t)
    /\ UNCHANGED <<now, startup, writer, fetched, ret, floor, high>>

\* si.elapsed().as_millis()
Elapsed(t) == (now - si[t]) \div TicksPerMs

Return(t) ==
    /\ ret' = [ret EXCEPT ![t] = Elapsed(t)]
    /\ high' = IF Elapsed(t) > high THEN Elapsed(t) ELSE high
    /\ si' = [si EXCEPT ![t] = None]
    /\ fetched' = [fetched EXCEPT ![t] = None]
    /\ floor' = [floor EXCEPT ![t] = 0]

FastReturn(t) ==
    /\ Goto(t, "elapsed", "idle")
    /\ Return(t)
    /\ UNCHANGED <<now, startup, readers, writer>>

WriteCall(t) ==
    /\ Goto(t, "write", "queued")
    /\ UNCHANGED <<now, startup, readers, writer, si, fetched, ret, floor, high>>

WriteLock(t) ==
    /\ writer = None /\ readers = {}
    /\ Goto(t, "queued", "fetch")
    /\ writer' = t
    /\ UNCHANGED <<now, startup, readers, si, fetched, ret, floor, high>>

\* The argument of get_or_insert is evaluated under the lock.
Fetch(t) ==
    /\ Goto(t, "fetch", "insert")
    /\ fetched' = [fetched EXCEPT ![t] = now]
    /\ UNCHANGED <<now, startup, readers, writer, si, ret, floor, high>>

\* Option::get_or_insert.
Kept_Replaced(t) == fetched[t]
Kept(t) == IF startup = None THEN fetched[t] ELSE startup

Insert(t) ==
    /\ Goto(t, "insert", "unlock")
    /\ startup' = Kept(t)
    /\ si' = [si EXCEPT ![t] = Kept(t)]
    /\ UNCHANGED <<now, readers, writer, fetched, ret, floor, high>>

\* elapsed(), and the end of the write guard with the expression.
SlowReturn(t) ==
    /\ Goto(t, "unlock", "idle")
    /\ Return(t)
    /\ writer' = None
    /\ UNCHANGED <<now, startup, readers>>

Step(t) ==
    \/ ReadLock(t) \/ Read(t) \/ FastReturn(t)
    \/ WriteCall(t) \/ WriteLock(t) \/ Fetch(t) \/ Insert(t) \/ SlowReturn(t)

Next == Tick \/ \E t \in Threads : Call(t) \/ Step(t)

Spec == Init /\ [][Next]_vars

\* A thread goes on with a call it has begun.  Nothing more is assumed of the
\* RwLock than that readers do not overtake waiting writers: which writer
\* goes first is open.
FairSpec == Spec /\ \A t \in Threads : WF_vars(Step(t))

-----------------------------------------------------------------------------
\* Every variable keeps its type.
TypeOK ==
    /\ now \in Nat /\ high \in Nat
    /\ startup \in Nat \cup {None}
    /\ readers \subseteq Threads
    /\ writer \in Threads \cup {None}
    /\ pc \in [Threads -> PCs]
    /\ si \in [Threads -> Nat \cup {None}]
    /\ fetched \in [Threads -> Nat \cup {None}]
    /\ ret \in [Threads -> Nat]
    /\ floor \in [Threads -> Nat]

\* The documented guarantee, between threads as well as within one: a call
\* never returns less than a call that had returned before it began, although
\* the first callers race to set the start time.
Monotonic ==
    [][\A t \in Threads : pc[t] # "idle" /\ pc'[t] = "idle" => ret'[t] >= floor[t]]_vars

\* Every call returns, the first ones included.
CallsReturn == \A t \in Threads : pc[t] = "read" ~> pc[t] = "idle"

-----------------------------------------------------------------------------
\* Readers and the writer are where they hold their locks, and exclude each
\* other.
LockInv ==
    /\ \A t \in Threads : /\ pc[t] = "copy" <=> t \in readers
                         /\ pc[t] \in Holding <=> writer = t
    /\ writer # None => readers = {}

\* Once a thread has a start time it is the one in the cell, and the results
\* so far were measured from it; before, nothing has been returned.
ClockInv ==
    /\ startup = None => high = 0
    /\ startup # None => startup <= now /\ high <= (now - startup) \div TicksPerMs
    /\ \A t \in Threads :
         /\ pc[t] \in {"elapsed", "unlock"} => startup # None /\ si[t] = startup
         /\ pc[t] = "insert" => fetched[t] \in Nat /\ fetched[t] <= now
         /\ floor[t] <= high

\* The inductive invariant behind Monotonic.
IndInv == TypeOK /\ LockInv /\ ClockInv
=============================================================================
