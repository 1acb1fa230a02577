------------------------------ MODULE BufPool ------------------------------
(***************************************************************************)
(* The concurrent life of a Pool and of the Bufs taken from it (buf.rs).   *)
(*                                                                         *)
(* A Pool is one contiguous allocation: PoolInner (with the Mutex around   *)
(* the free-list cursor and the dropped flag), the array of free-list      *)
(* slots, and the buffers.  Threads call Pool::get and pool_remaining on a *)
(* shared Pool, pass Bufs to each other, and drop Bufs and the Pool in any *)
(* order; whoever comes last is meant to free the allocation.              *)
(*                                                                         *)
(* A call is split where another thread can run: taking the Mutex, the     *)
(* body under it, its release, and the deallocation after the release.     *)
(* The Mutex is std's: it blocks, and a panic under it poisons it.         *)
(***************************************************************************)
EXTENDS Integers, FiniteSets

CONSTANTS
    Threads,       \* threads of the process
    PoolCapacity,  \* pool_capacity of Pool::new
    Heap,          \* addresses the allocator has for standalone Bufs
    None           \* no thread, no buffer

\* Pooled buffers are named by their position in the allocation; the free
\* list has as many slots, numbered the same way from pool_start.
Pooled == 0 .. (PoolCapacity - 1)

ASSUME CapacityAssumption == PoolCapacity \in Nat \ {0}
ASSUME HeapAssumption == Heap \cap Pooled = {}
ASSUME NoneAssumption == None \notin Threads \cup Heap \cup Pooled

VARIABLES
    slots,      \* the free-list array; entries below cursor are free buffers
    cursor,     \* pool.0 - pool_start, guarded by the Mutex
    dropped,    \* pool.1, guarded by the Mutex
    lock,       \* the thread that holds the Mutex, or None
    poisoned,   \* the Mutex's poison flag
    freed,      \* the Pool's allocation has been deallocated
    handle,     \* the Pool value still exists (Pool::drop has not begun)
    live,       \* standalone Bufs currently allocated
    filled,     \* pooled buffers whose length header is not zero
    own,        \* the Bufs each thread owns
    dropping,   \* the pooled Buf each thread is dropping, until it is pushed
    pc,         \* where each thread is
    unwinding,  \* threads that are panicking
    aborted     \* a panic while panicking has aborted the process

vars == <<slots, cursor, dropped, lock, poisoned, freed, handle, live, filled,
          own, dropping, pc, unwinding, aborted>>

GetPCs   == {"get.lock", "get.body", "get.unlock"}
RemPCs   == {"rem.lock", "rem.unlock"}
DropPCs  == {"drop.lock", "drop.body", "drop.unlock"}
ClosePCs == {"close.lock", "close.body", "close.unlock"}
LastPCs  == {"last.unlock", "last.dealloc"}
PCs == {"idle"} \cup GetPCs \cup RemPCs \cup DropPCs \cup ClosePCs \cup LastPCs

\* Points at which a thread is about to call lock().unwrap().
Waiting == {"get.lock", "rem.lock", "drop.lock", "close.lock"}
\* Points at which a thread holds the MutexGuard.
Holding == {"get.body", "get.unlock", "rem.unlock", "drop.body", "drop.unlock",
            "close.body", "close.unlock", "last.unlock"}

\* The buffers on the free list.
FreeBufs == {slots[i] : i \in 0 .. (cursor - 1)}

-----------------------------------------------------------------------------
\* Pool::new: every slot points at its own buffer, every buffer is empty and
\* carries the pooled flag, and the cursor stands at pool_end.
Init ==
    /\ slots = [i \in Pooled |-> i]
    /\ cursor = PoolCapacity
    /\ dropped = FALSE
    /\ lock = None
    /\ poisoned = FALSE
    /\ freed = FALSE
    /\ handle = TRUE
    /\ live = {}
    /\ filled = {}
    /\ own = [t \in Threads |-> {}]
    /\ dropping = [t \in Threads |-> None]
    /\ pc = [t \in Threads |-> "idle"]
    /\ unwinding = {}
    /\ aborted = FALSE

Goto(t, from, to) ==
    /\ pc[t] = from
    /\ pc' = [pc EXCEPT ![t] = to]

\* Mutex::lock on a Mutex that is free and not poisoned.
Acquire(t, from, to) ==
    /\ Goto(t, from, to)
    /\ lock = None
    /\ ~poisoned
    /\ lock' = t
    /\ UNCHANGED <<slots, cursor, dropped, poisoned, freed, handle, live,
                   filled, own, dropping, unwinding, aborted>>

\* The end of a MutexGuard's scope.
Release(t, from, to) ==
    /\ Goto(t, from, to)
    /\ lock' = None
    /\ UNCHANGED <<slots, cursor, dropped, poisoned, freed, handle, live,
                   filled, own, dropping, unwinding, aborted>>

\* A panic: the thread leaves the call and starts to unwind, or, if it was
\* unwinding already, takes the process down.
Panic(t) ==
    /\ pc' = [pc EXCEPT ![t] = "idle"]
    /\ unwinding' = unwinding \cup {t}
    /\ aborted' = (t \in unwinding)

\* lock().unwrap() on a poisoned Mutex panics.  A Buf that was being dropped
\* is never pushed, and a Pool that was being dropped is never flagged.
LockPoisoned(t) ==
    /\ pc[t] \in Waiting
    /\ lock = None
    /\ poisoned
    /\ Panic(t)
    /\ dropping' = [dropping EXCEPT ![t] = None]
    /\ UNCHANGED <<slots, cursor, dropped, lock, poisoned, freed, handle, live,
                   filled, own>>

-----------------------------------------------------------------------------
\* Pool::get, called through a shared reference to a Pool that exists.
GetCall(t) ==
    /\ handle
    /\ t \notin unwinding
    /\ Goto(t, "idle", "get.lock")
    /\ UNCHANGED <<slots, cursor, dropped, lock, poisoned, freed, handle, live,
                   filled, own, dropping, unwinding, aborted>>

GetLock(t) == Acquire(t, "get.lock", "get.body")

\* What the cursor points at once it has been stepped back.
Top_First == slots[0]
Top == slots[cursor - 1]

\* The pool is not empty: step the cursor back and hand out that slot.
GetPooled(t) ==
    /\ Goto(t, "get.body", "get.unlock")
    /\ cursor # 0
    /\ cursor' = cursor - 1
    /\ own' = [own EXCEPT ![t] = @ \cup {Top}]
    /\ UNCHANGED <<slots, dropped, lock, poisoned, freed, handle, live, filled,
                   dropping, unwinding, aborted>>

\* The pool is empty: allocate a standalone Buf, still under the Mutex.
GetStandalone(t) ==
    /\ Goto(t, "get.body", "get.unlock")
    /\ cursor = 0
    /\ \E h \in Heap \ live :
         /\ live' = live \cup {h}
         /\ own' = [own EXCEPT ![t] = @ \cup {h}]
    /\ UNCHANGED <<slots, cursor, dropped, lock, poisoned, freed, handle,
                   filled, dropping, unwinding, aborted>>

\* The pool is empty and the allocator returns null: Buf::new's assertion
\* panics while the guard is alive, which poisons the Mutex.
GetOutOfMemory(t) ==
    /\ pc[t] = "get.body"
    /\ cursor = 0
    /\ live = Heap
    /\ Panic(t)
    /\ lock' = None
    /\ poisoned' = TRUE
    /\ UNCHANGED <<slots, cursor, dropped, freed, handle, live, filled, own,
                   dropping>>

GetReturn(t) == Release(t, "get.unlock", "idle")

-----------------------------------------------------------------------------
\* Pool::pool_remaining reads the cursor under the Mutex.
RemainingCall(t) ==
    /\ handle
    /\ t \notin unwinding
    /\ Goto(t, "idle", "rem.lock")
    /\ UNCHANGED <<slots, cursor, dropped, lock, poisoned, freed, handle, live,
                   filled, own, dropping, unwinding, aborted>>

RemainingLock(t) == Acquire(t, "rem.lock", "rem.unlock")
pool_remaining == cursor
RemainingReturn(t) == Release(t, "rem.unlock", "idle")

-----------------------------------------------------------------------------
\* Buf::clear.
Cleared_Not(b) == filled
Cleared(b) == filled \ {b}

\* Buf::drop of a pooled Buf clears its length before it takes the Mutex.
DropPooled_Kept(t, b) ==
    /\ Goto(t, "idle", "drop.lock")
    /\ b \in own[t] \cap Pooled
    /\ filled' = Cleared(b)
    /\ dropping' = [dropping EXCEPT ![t] = b]
    /\ UNCHANGED <<slots, cursor, dropped, lock, poisoned, freed, handle, live,
                   own, unwinding, aborted>>
DropPooled(t, b) ==
    /\ Goto(t, "idle", "drop.lock")
    /\ b \in own[t] \cap Pooled
    /\ filled' = Cleared(b)
    /\ own' = [own EXCEPT ![t] = @ \ {b}]
    /\ dropping' = [dropping EXCEPT ![t] = b]
    /\ UNCHANGED <<slots, cursor, dropped, lock, poisoned, freed, handle, live,
                   unwinding, aborted>>

DropLock(t) == Acquire(t, "drop.lock", "drop.body")

\* The cursor after the push.
Pushed_Twice == cursor + 2
Pushed == cursor + 1

\* The push fills a pool that has been dropped.
LastHome_AnyPool == Pushed = PoolCapacity
LastHome_BeforePush == cursor = PoolCapacity /\ dropped
LastHome == Pushed = PoolCapacity /\ dropped

\* Push the buffer; the thread that fills a dropped pool goes on to free it.
\* The first conjunct is the code's assert_ne!.
DropPush(t) ==
    /\ cursor # PoolCapacity
    /\ Goto(t, "drop.body", IF LastHome THEN "last.unlock" ELSE "drop.unlock")
    /\ slots' = [slots EXCEPT ![cursor] = dropping[t]]
    /\ cursor' = Pushed
    /\ dropping' = [dropping EXCEPT ![t] = None]
    /\ UNCHANGED <<dropped, lock, poisoned, freed, handle, live, filled, own,
                   unwinding, aborted>>

DropReturn(t) == Release(t, "drop.unlock", "idle")

\* drop(pool) before PoolInner::dealloc.
LastUnlock(t) == Release(t, "last.unlock", "last.dealloc")

\* PoolInner::dealloc.
Dealloc(t) ==
    /\ Goto(t, "last.dealloc", "idle")
    /\ freed' = TRUE
    /\ UNCHANGED <<slots, cursor, dropped, lock, poisoned, handle, live, filled,
                   own, dropping, unwinding, aborted>>

\* Buf::drop of a standalone Buf frees its own allocation.
DropStandalone(t, b) ==
    /\ pc[t] = "idle"
    /\ b \in own[t] \cap Heap
    /\ live' = live \ {b}
    /\ own' = [own EXCEPT ![t] = @ \ {b}]
    /\ UNCHANGED <<slots, cursor, dropped, lock, poisoned, freed, handle,
                   filled, dropping, pc, unwinding, aborted>>

-----------------------------------------------------------------------------
\* Pool::drop has the Pool to itself: no call through a reference is running.
Unshared_Ignored == TRUE
Unshared == \A u \in Threads : pc[u] \notin GetPCs \cup RemPCs

CloseCall(t) ==
    /\ handle
    /\ Unshared
    /\ Goto(t, "idle", "close.lock")
    /\ handle' = FALSE
    /\ UNCHANGED <<slots, cursor, dropped, lock, poisoned, freed, live, filled,
                   own, dropping, unwinding, aborted>>

CloseLock(t) == Acquire(t, "close.lock", "close.body")

\* The body of Pool::drop: free the pool if it is full and already flagged,
\* set the flag otherwise.
CloseBody(t) ==
    LET reclaim == cursor = PoolCapacity /\ dropped
    IN  /\ Goto(t, "close.body",
                IF reclaim THEN "last.unlock" ELSE "close.unlock")
        /\ dropped' = (reclaim => dropped)
        /\ UNCHANGED <<slots, cursor, lock, poisoned, freed, handle, live,
                       filled, own, dropping, unwinding, aborted>>

CloseReturn(t) == Release(t, "close.unlock", "idle")

-----------------------------------------------------------------------------
\* Buf::new, Clone for Buf and Buf::create_from: a standalone Buf.
NewBuf(t) ==
    /\ pc[t] = "idle"
    /\ t \notin unwinding
    /\ \E h \in Heap \ live :
         /\ live' = live \cup {h}
         /\ own' = [own EXCEPT ![t] = @ \cup {h}]
    /\ UNCHANGED <<slots, cursor, dropped, lock, poisoned, freed, handle,
                   filled, dropping, pc, unwinding, aborted>>

\* Buf::new's assertions on the capacity and on the allocation: a panic that
\* holds no lock.
NewBufPanic(t) ==
    /\ pc[t] = "idle"
    /\ t \notin unwinding
    /\ Panic(t)
    /\ UNCHANGED <<slots, cursor, dropped, lock, poisoned, freed, handle, live,
                   filled, own, dropping>>

\* The owner writes to a pooled Buf (append, push, repeat, resize, ...).
Fill(t, b) ==
    /\ pc[t] = "idle"
    /\ t \notin unwinding
    /\ b \in own[t] \cap Pooled
    /\ filled' = filled \cup {b}
    /\ UNCHANGED <<slots, cursor, dropped, lock, poisoned, freed, handle, live,
                   own, dropping, pc, unwinding, aborted>>

\* Buf is Send: ownership moves to another thread.
Send(t, u, b) ==
    /\ t # u
    /\ pc[t] = "idle" /\ pc[u] = "idle"
    /\ t \notin unwinding /\ u \notin unwinding
    /\ b \in own[t]
    /\ own' = [own EXCEPT ![t] = @ \ {b}, ![u] = @ \cup {b}]
    /\ UNCHANGED <<slots, cursor, dropped, lock, poisoned, freed, handle, live,
                   filled, dropping, pc, unwinding, aborted>>

\* The panic is caught, or the thread is replaced.  Frames above the catch may
\* still own Bufs.
UnwindDone(t) ==
    /\ t \in unwinding
    /\ pc[t] = "idle"
    /\ unwinding' = unwinding \ {t}
    /\ UNCHANGED <<slots, cursor, dropped, lock, poisoned, freed, handle, live,
                   filled, own, dropping, pc, aborted>>

\* What a thread does inside a call, which it never leaves half done.
Step(t) ==
    \/ LockPoisoned(t)
    \/ GetLock(t) \/ GetPooled(t) \/ GetStandalone(t) \/ GetOutOfMemory(t)
    \/ GetReturn(t)
    \/ RemainingLock(t) \/ RemainingReturn(t)
    \/ DropLock(t) \/ DropPush(t) \/ DropReturn(t)
    \/ LastUnlock(t) \/ Dealloc(t)
    \/ CloseLock(t) \/ CloseBody(t) \/ CloseReturn(t)

\* What the program around the library decides to do.
Client(t) ==
    \/ GetCall(t) \/ RemainingCall(t) \/ CloseCall(t)
    \/ NewBuf(t) \/ NewBufPanic(t) \/ UnwindDone(t)
    \/ \E b \in own[t] : \/ DropPooled(t, b) \/ DropStandalone(t, b)
                         \/ Fill(t, b)
                         \/ \E u \in Threads : Send(t, u, b)

Run ==
    /\ ~aborted
    /\ \E t \in Threads : Step(t) \/ Client(t)

\* An aborted process does nothing more.
Aborted == aborted /\ UNCHANGED vars

Next == Run \/ Aborted

Spec == Init /\ [][Next]_vars

\* A running thread goes on with a call it has begun (weakly fair: nothing is
\* assumed about whom the Mutex favours), and the program eventually drops
\* every pooled Buf it holds, however often it moves it between threads.
Fairness ==
    /\ \A t \in Threads : WF_vars(~aborted /\ Step(t))
    /\ \A b \in Pooled :
         SF_vars(~aborted /\ \E t \in Threads : DropPooled(t, b))

FairSpec == Spec /\ Fairness

-----------------------------------------------------------------------------
\* Pooled buffers that are out: owned by a thread or on their way home.
Out == {b \in Pooled : \E t \in Threads : b \in own[t] \/ b = dropping[t]}

\* Every variable keeps its type; in particular the cursor never leaves
\* pool_start .. pool_end.
TypeOK ==
    /\ slots \in [Pooled -> Pooled]
    /\ cursor \in 0 .. PoolCapacity
    /\ dropped \in BOOLEAN /\ poisoned \in BOOLEAN /\ freed \in BOOLEAN
    /\ handle \in BOOLEAN /\ aborted \in BOOLEAN
    /\ lock \in Threads \cup {None}
    /\ live \subseteq Heap
    /\ filled \subseteq Pooled
    /\ own \in [Threads -> SUBSET (Heap \cup Pooled)]
    /\ dropping \in [Threads -> Pooled \cup {None}]
    /\ pc \in [Threads -> PCs]
    /\ unwinding \subseteq Threads

\* A buffer is in one place at a time: on the free list once, with one owner,
\* or on its way home with one thread.  Two threads never write to the same
\* memory through Bufs got from Pool::get, and a standalone Buf's memory is
\* allocated for as long as the Buf exists.
ExclusiveOwnership ==
    /\ \A i, j \in 0 .. (cursor - 1) : slots[i] = slots[j] => i = j
    /\ \A t \in Threads :
         /\ own[t] \cap FreeBufs = {}
         /\ dropping[t] \notin FreeBufs
         /\ own[t] \cap Heap \subseteq live
    /\ \A t, u \in Threads :
         /\ dropping[t] \notin own[u]
         /\ t # u => /\ own[t] \cap own[u] = {}
                     /\ dropping[t] = dropping[u] => dropping[t] = None

\* After PoolInner::dealloc no thread is inside a call on the pool, waits for
\* its Mutex, or owns a buffer that lies in the freed memory.
NoUseAfterFree ==
    freed => /\ ~handle
             /\ lock = None
             /\ \A t \in Threads : pc[t] = "idle" /\ own[t] \cap Pooled = {}

\* Memory that has been deallocated is neither written nor freed again.
UntouchedAfterFree ==
    [][freed => UNCHANGED <<slots, cursor, dropped, lock, poisoned, filled,
                            freed>>]_vars

\* Buf::drop's assert_ne!(pool.0, pool_end) never fires.
NeverOverfull == \A t \in Threads : pc[t] = "drop.body" => cursor # PoolCapacity

\* Pool::get never hands out a buffer whose length is not zero, although
\* Buf::drop clears it before it holds the Mutex: nobody writes in between.
FreeBufsCleared ==
    /\ FreeBufs \cap filled = {}
    /\ \A t \in Threads : dropping[t] \notin filled

\* pool_remaining counts the buffers that are not out, whatever the other
\* threads are doing; a panic under the Mutex is the only way to lose one.
RemainingAccurate == ~poisoned => pool_remaining = PoolCapacity - Cardinality(Out)

\* Once Pool::drop has set the flag no thread can panic under the Mutex, so
\* the flag is never stranded behind a poisoned lock.
FlagNeverPoisoned == dropped => ~poisoned /\ ~aborted

-----------------------------------------------------------------------------
\* The thread that holds the Mutex is the one inside a critical section, and
\* a poisoned Mutex is never held again.
LockInv ==
    /\ \A t \in Threads : pc[t] \in Holding <=> lock = t
    /\ poisoned => lock = None

\* A buffer is on its way home exactly between clear() and the push.
DroppingInv ==
    \A t \in Threads : dropping[t] # None <=> pc[t] \in {"drop.lock", "drop.body"}

\* The Pool is dropped at most once, and only when no call on it is running.
CloseInv ==
    /\ handle => ~dropped
    /\ \A t \in Threads :
         /\ pc[t] \in GetPCs \cup RemPCs => handle
         /\ pc[t] \in ClosePCs => ~handle
         /\ pc[t] \in {"close.lock", "close.body"} => ~dropped
    /\ \A t, u \in Threads :
         pc[t] \in ClosePCs /\ pc[u] \in ClosePCs => t = u

\* One thread at most reclaims the pool, once, with every buffer home.
ReclaimInv ==
    /\ freed => dropped /\ cursor = PoolCapacity /\ lock = None
    /\ \A t \in Threads : pc[t] \in LastPCs =>
         /\ dropped /\ cursor = PoolCapacity /\ ~freed
         /\ pc[t] = "last.dealloc" => lock = None
         /\ \A u \in Threads : pc[u] \in LastPCs => u = t

\* Every buffer the free list and the threads do not have is lost to a panic.
AllAccountedFor == ~poisoned => Pooled = FreeBufs \cup Out

\* The inductive invariant that the proofs rest on: it adds to exclusive
\* ownership where each thread may be while the pool is closed and reclaimed.
IndInv ==
    /\ TypeOK /\ ExclusiveOwnership /\ FreeBufsCleared /\ FlagNeverPoisoned
    /\ LockInv /\ DroppingInv /\ CloseInv /\ ReclaimInv /\ AllAccountedFor
    /\ aborted => poisoned

\* A pool dropped while buffers are out is deallocated once they are dropped,
\* with no fairness assumed of the Mutex.
EventuallyFreed == (dropped /\ cursor < PoolCapacity) ~> freed

\* What Pool::drop's comment implies: the flag is for pools with buffers out,
\* a pool whose buffers are all home is deallocated.
NoPoolAbandoned ==
    dropped /\ cursor = PoolCapacity =>
        freed \/ \E t \in Threads : pc[t] \in LastPCs

\* The pool as its users see it.  Every operation takes effect in its body
\* under the Mutex, whatever the other threads do around it.
Abs == INSTANCE PoolAbs WITH
    Buffers   <- Pooled,
    avail     <- FreeBufs,
    held      <- Out,
    closed    <- dropped,
    broken    <- poisoned,
    reclaimed <- freed \/ \E t \in Threads : pc[t] \in LastPCs

\* BufPool implements PoolAbs: buffers are never duplicated or lost while the
\* Mutex is healthy, and exactly the return of the last one to a dropped pool
\* reclaims it.
ImplementsAbs == Abs!Spec
=============================================================================
