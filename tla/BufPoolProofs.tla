--------------------------- MODULE BufPoolProofs ---------------------------
(***************************************************************************)
(* Proofs about BufPool, for any threads, pool capacity and heap.          *)
(***************************************************************************)
EXTENDS BufPool, FiniteSetTheorems, TLAPS

\* The type of the free list.
ListType == slots \in [Pooled -> Pooled] /\ cursor \in 0 .. PoolCapacity

\* Slots below the cursor hold distinct buffers.
Distinct == \A i, j \in 0 .. (cursor - 1) : slots[i] = slots[j] => i = j

\* The free list holds pooled buffers only.
LEMMA FreeBufsPooled ==
  ASSUME ListType
  PROVE  FreeBufs \subseteq Pooled
<1>1. \A i \in 0 .. (cursor - 1) : i \in Pooled
  BY CapacityAssumption DEF ListType, Pooled
<1> QED
  BY <1>1 DEF ListType, FreeBufs

\* A full free list holds every buffer: there are as many slots as buffers.
LEMMA FullList ==
  ASSUME ListType, Distinct, cursor = PoolCapacity
  PROVE  FreeBufs = Pooled
<1>1. slots \in Injection(Pooled, Pooled)
  BY CapacityAssumption DEF ListType, Distinct, Pooled, Injection, IsInjective
<1>2. IsFiniteSet(Pooled)
  BY CapacityAssumption, FS_Interval DEF Pooled
<1>3. slots \in Surjection(Pooled, Pooled)
  BY <1>1, <1>2, FS_Injection
<1> QED
  BY <1>3 DEF FreeBufs, Pooled, Surjection, ListType

\* Stepping the cursor back takes the top buffer, and only that one, off.
LEMMA PoppedList ==
  ASSUME ListType, Distinct, cursor # 0, cursor' = cursor - 1, slots' = slots
  PROVE  /\ Top \in FreeBufs /\ Top \in Pooled
         /\ FreeBufs' = FreeBufs \ {Top}
         /\ Distinct'
<1> cursor - 1 \in 0 .. (cursor - 1) /\ cursor \in 1 .. PoolCapacity
  BY CapacityAssumption DEF ListType
<1>1. Top \in FreeBufs /\ Top \in Pooled
  BY CapacityAssumption DEF ListType, FreeBufs, Top, Pooled
<1>2. \A i \in 0 .. (cursor - 1) : slots[i] # Top <=> i \in 0 .. (cursor' - 1)
  BY CapacityAssumption DEF Distinct, Top
<1>3. FreeBufs' = FreeBufs \ {Top}
  <2>1. \A i \in 0 .. (cursor' - 1) : i \in 0 .. (cursor - 1)
    BY CapacityAssumption
  <2>2. FreeBufs' \subseteq FreeBufs \ {Top}
    BY <1>2, <2>1 DEF FreeBufs
  <2>3. FreeBufs \ {Top} \subseteq FreeBufs'
    BY <1>2 DEF FreeBufs
  <2> QED
    BY <2>2, <2>3
<1>4. Distinct'
  BY CapacityAssumption DEF Distinct
<1> QED
  BY <1>1, <1>3, <1>4

\* Pushing a buffer that is not on the list puts it, and only it, on.
LEMMA PushedList ==
  ASSUME ListType, Distinct, cursor # PoolCapacity,
         NEW b \in Pooled, b \notin FreeBufs,
         cursor' = cursor + 1, slots' = [slots EXCEPT ![cursor] = b]
  PROVE  /\ FreeBufs' = FreeBufs \cup {b}
         /\ Distinct'
<1> cursor \in Pooled /\ cursor \in Nat /\ slots \in [Pooled -> Pooled]
  <2>1. slots \in [Pooled -> Pooled] /\ cursor \in 0 .. PoolCapacity /\ PoolCapacity \in Nat
    BY CapacityAssumption DEF ListType
  <2>2. cursor \in Pooled
    BY <2>1 DEF Pooled
  <2> QED
    BY <2>1, <2>2
<1>1. slots'[cursor] = b
  OBVIOUS
<1>2. \A i \in 0 .. (cursor - 1) : slots'[i] = slots[i] /\ slots[i] # b
  <2> SUFFICES ASSUME NEW i \in 0 .. (cursor - 1) PROVE slots'[i] = slots[i] /\ slots[i] # b
    OBVIOUS
  <2>1. i \in Pooled /\ i # cursor
    BY CapacityAssumption DEF Pooled
  <2>2. slots[i] # b
    BY DEF FreeBufs
  <2> QED
    BY <2>1, <2>2
<1>3. 0 .. (cursor' - 1) = (0 .. (cursor - 1)) \cup {cursor}
  OBVIOUS
<1>4. FreeBufs' = FreeBufs \cup {b}
  <2>1. FreeBufs' \subseteq FreeBufs \cup {b}
    BY <1>1, <1>2, <1>3 DEF FreeBufs
  <2>2. FreeBufs \cup {b} \subseteq FreeBufs'
    BY <1>1, <1>2, <1>3 DEF FreeBufs
  <2> QED
    BY <2>1, <2>2
<1>5. Distinct'
  BY <1>1, <1>2, <1>3 DEF Distinct
<1> QED
  BY <1>4, <1>5
-----------------------------------------------------------------------------
\* The two halves of the inductive invariant: where the buffers are, and
\* where the threads are.
MemInv == ExclusiveOwnership /\ FreeBufsCleared /\ AllAccountedFor
CtlInv ==
  /\ LockInv /\ DroppingInv /\ CloseInv /\ ReclaimInv /\ FlagNeverPoisoned
  /\ aborted => poisoned

\* The first half does not depend on where the threads are.
LEMMA MemKept ==
  ASSUME MemInv,
         UNCHANGED <<slots, cursor, live, filled, own, dropping, poisoned>>
  PROVE  MemInv'
BY DEF MemInv, ExclusiveOwnership, FreeBufsCleared, AllAccountedFor, FreeBufs,
       Out

\* While a thread waits for the Mutex the pool is neither freed nor about to
\* be: a buffer on its way home is missing from the free list, and any other
\* call needs a pool that is not flagged yet.
LEMMA WaitingKeepsPool ==
  ASSUME IndInv, NEW t \in Threads, pc[t] \in Waiting
  PROVE  ~freed /\ \A u \in Threads : pc[u] \notin LastPCs
<1>1. CASE pc[t] = "drop.lock"
  <2>1. dropping[t] \in Pooled /\ dropping[t] \notin FreeBufs
    BY <1>1 DEF IndInv, TypeOK, DroppingInv, ExclusiveOwnership
  <2>2. cursor # PoolCapacity
    BY <2>1, FullList DEF IndInv, TypeOK, ListType, Distinct, ExclusiveOwnership
  <2> QED
    BY <2>2 DEF IndInv, ReclaimInv
<1>2. CASE pc[t] # "drop.lock"
  <2>1. ~dropped
    BY <1>2 DEF IndInv, CloseInv, Waiting, GetPCs, RemPCs, ClosePCs
  <2> QED
    BY <2>1 DEF IndInv, ReclaimInv
<1> QED
  BY <1>1, <1>2

\* Calls, lock acquisitions and releases, and the steps that only set a flag.
LEMMA ControlStep ==
  ASSUME IndInv, NEW t \in Threads,
         \/ GetCall(t) \/ GetLock(t) \/ GetReturn(t)
         \/ RemainingCall(t) \/ RemainingLock(t) \/ RemainingReturn(t)
         \/ DropLock(t) \/ DropReturn(t) \/ LastUnlock(t) \/ Dealloc(t)
         \/ CloseCall(t) \/ CloseLock(t) \/ CloseBody(t) \/ CloseReturn(t)
  PROVE  IndInv'
<1> USE NoneAssumption DEF PCs, GetPCs, RemPCs, DropPCs, ClosePCs, LastPCs,
                           Holding, Waiting
<1>0. MemInv'
  BY MemKept DEF IndInv, MemInv, GetCall, GetLock, GetReturn, RemainingCall,
     RemainingLock, RemainingReturn, DropLock, DropReturn, LastUnlock, Dealloc,
     CloseCall, CloseLock, CloseBody, CloseReturn, Acquire, Release
<1>1. CASE GetCall(t)
  <2>1. TypeOK'
    BY <1>1 DEF IndInv, TypeOK, GetCall, Goto
  <2>2. CtlInv'
    BY <1>1, SMTT(30) DEF GetCall, Goto,
         IndInv, TypeOK, CtlInv, LockInv, DroppingInv, CloseInv, ReclaimInv,
         FlagNeverPoisoned
  <2> QED
    BY <1>0, <2>1, <2>2 DEF IndInv, MemInv, CtlInv
<1>2. CASE GetLock(t)
  <2>1. TypeOK'
    BY <1>2 DEF IndInv, TypeOK, GetLock, Acquire, Goto
  <2>2. CtlInv'
    BY <1>2, WaitingKeepsPool, SMTT(30) DEF GetLock, Acquire, Goto,
         IndInv, TypeOK, CtlInv, LockInv, DroppingInv, CloseInv, ReclaimInv,
         FlagNeverPoisoned
  <2> QED
    BY <1>0, <2>1, <2>2 DEF IndInv, MemInv, CtlInv
<1>3. CASE GetReturn(t)
  <2>1. TypeOK'
    BY <1>3 DEF IndInv, TypeOK, GetReturn, Release, Goto
  <2>2. CtlInv'
    BY <1>3, SMTT(30) DEF GetReturn, Release, Goto,
         IndInv, TypeOK, CtlInv, LockInv, DroppingInv, CloseInv, ReclaimInv,
         FlagNeverPoisoned
  <2> QED
    BY <1>0, <2>1, <2>2 DEF IndInv, MemInv, CtlInv
<1>4. CASE RemainingCall(t)
  <2>1. TypeOK'
    BY <1>4 DEF IndInv, TypeOK, RemainingCall, Goto
  <2>2. CtlInv'
    BY <1>4, SMTT(30) DEF RemainingCall, Goto,
         IndInv, TypeOK, CtlInv, LockInv, DroppingInv, CloseInv, ReclaimInv,
         FlagNeverPoisoned
  <2> QED
    BY <1>0, <2>1, <2>2 DEF IndInv, MemInv, CtlInv
<1>5. CASE RemainingLock(t)
  <2>1. TypeOK'
    BY <1>5 DEF IndInv, TypeOK, RemainingLock, Acquire, Goto
  <2>2. CtlInv'
    BY <1>5, WaitingKeepsPool, SMTT(30) DEF RemainingLock, Acquire, Goto,
         IndInv, TypeOK, CtlInv, LockInv, DroppingInv, CloseInv, ReclaimInv,
         FlagNeverPoisoned
  <2> QED
    BY <1>0, <2>1, <2>2 DEF IndInv, MemInv, CtlInv
<1>6. CASE RemainingReturn(t)
  <2>1. TypeOK'
    BY <1>6 DEF IndInv, TypeOK, RemainingReturn, Release, Goto
  <2>2. CtlInv'
    BY <1>6, SMTT(30) DEF RemainingReturn, Release, Goto,
         IndInv, TypeOK, CtlInv, LockInv, DroppingInv, CloseInv, ReclaimInv,
         FlagNeverPoisoned
  <2> QED
    BY <1>0, <2>1, <2>2 DEF IndInv, MemInv, CtlInv
<1>7. CASE DropLock(t)
  <2>1. TypeOK'
    BY <1>7 DEF IndInv, TypeOK, DropLock, Acquire, Goto
  <2>2. CtlInv'
    BY <1>7, WaitingKeepsPool, SMTT(30) DEF DropLock, Acquire, Goto,
         IndInv, TypeOK, CtlInv, LockInv, DroppingInv, CloseInv, ReclaimInv,
         FlagNeverPoisoned
  <2> QED
    BY <1>0, <2>1, <2>2 DEF IndInv, MemInv, CtlInv
<1>8. CASE DropReturn(t)
  <2>1. TypeOK'
    BY <1>8 DEF IndInv, TypeOK, DropReturn, Release, Goto
  <2>2. CtlInv'
    BY <1>8, SMTT(30) DEF DropReturn, Release, Goto,
         IndInv, TypeOK, CtlInv, LockInv, DroppingInv, CloseInv, ReclaimInv,
         FlagNeverPoisoned
  <2> QED
    BY <1>0, <2>1, <2>2 DEF IndInv, MemInv, CtlInv
<1>9. CASE LastUnlock(t)
  <2>1. TypeOK'
    BY <1>9 DEF IndInv, TypeOK, LastUnlock, Release, Goto
  <2>2. CtlInv'
    BY <1>9, SMTT(30) DEF LastUnlock, Release, Goto,
         IndInv, TypeOK, CtlInv, LockInv, DroppingInv, CloseInv, ReclaimInv,
         FlagNeverPoisoned
  <2> QED
    BY <1>0, <2>1, <2>2 DEF IndInv, MemInv, CtlInv
<1>10. CASE Dealloc(t)
  <2>1. TypeOK'
    BY <1>10 DEF IndInv, TypeOK, Dealloc, Goto
  <2>2. CtlInv'
    BY <1>10, SMTT(30) DEF Dealloc, Goto,
         IndInv, TypeOK, CtlInv, LockInv, DroppingInv, CloseInv, ReclaimInv,
         FlagNeverPoisoned
  <2> QED
    BY <1>0, <2>1, <2>2 DEF IndInv, MemInv, CtlInv
<1>11. CASE CloseCall(t)
  <2>1. TypeOK'
    BY <1>11 DEF IndInv, TypeOK, CloseCall, Goto, Unshared
  <2>2. CtlInv'
    BY <1>11, SMTT(30) DEF CloseCall, Goto, Unshared,
         IndInv, TypeOK, CtlInv, LockInv, DroppingInv, CloseInv, ReclaimInv,
         FlagNeverPoisoned
  <2> QED
    BY <1>0, <2>1, <2>2 DEF IndInv, MemInv, CtlInv
<1>12. CASE CloseLock(t)
  <2>1. TypeOK'
    BY <1>12 DEF IndInv, TypeOK, CloseLock, Acquire, Goto
  <2>2. CtlInv'
    BY <1>12, WaitingKeepsPool, SMTT(30) DEF CloseLock, Acquire, Goto,
         IndInv, TypeOK, CtlInv, LockInv, DroppingInv, CloseInv, ReclaimInv,
         FlagNeverPoisoned
  <2> QED
    BY <1>0, <2>1, <2>2 DEF IndInv, MemInv, CtlInv
<1>13. CASE CloseBody(t)
  <2>1. TypeOK'
    BY <1>13 DEF IndInv, TypeOK, CloseBody, Goto
  <2>2. CtlInv'
    BY <1>13, SMTT(30) DEF CloseBody, Goto,
         IndInv, TypeOK, CtlInv, LockInv, DroppingInv, CloseInv, ReclaimInv,
         FlagNeverPoisoned
  <2> QED
    BY <1>0, <2>1, <2>2 DEF IndInv, MemInv, CtlInv
<1>14. CASE CloseReturn(t)
  <2>1. TypeOK'
    BY <1>14 DEF IndInv, TypeOK, CloseReturn, Release, Goto
  <2>2. CtlInv'
    BY <1>14, SMTT(30) DEF CloseReturn, Release, Goto,
         IndInv, TypeOK, CtlInv, LockInv, DroppingInv, CloseInv, ReclaimInv,
         FlagNeverPoisoned
  <2> QED
    BY <1>0, <2>1, <2>2 DEF IndInv, MemInv, CtlInv
<1> QED
  BY <1>1, <1>2, <1>3, <1>4, <1>5, <1>6, <1>7, <1>8, <1>9, <1>10, <1>11, <1>12, <1>13, <1>14

\* Panics and the end of unwinding: no buffer moves, one may be lost.
LEMMA PanicStep ==
  ASSUME IndInv, NEW t \in Threads,
         LockPoisoned(t) \/ GetOutOfMemory(t) \/ NewBufPanic(t) \/ UnwindDone(t)
  PROVE  IndInv'
<1> USE NoneAssumption DEF PCs, GetPCs, RemPCs, DropPCs, ClosePCs, LastPCs,
                           Holding, Waiting
<1>00. FreeBufs \subseteq Pooled
  BY FreeBufsPooled DEF IndInv, TypeOK, ListType
<1>0. FreeBufs' = FreeBufs
  BY DEF LockPoisoned, GetOutOfMemory, NewBufPanic, UnwindDone, FreeBufs
<1>1. CASE LockPoisoned(t)
  <2>1. TypeOK'
    BY <1>1 DEF IndInv, TypeOK, LockPoisoned, Panic
  <2>2. CtlInv'
    BY <1>1, SMTT(30) DEF LockPoisoned, Panic,
         IndInv, TypeOK, CtlInv, LockInv, DroppingInv, CloseInv, ReclaimInv,
         FlagNeverPoisoned
  <2>3. ExclusiveOwnership'
    BY <1>00, <1>0, <1>1 DEF IndInv, TypeOK, ExclusiveOwnership, LockPoisoned, Panic
  <2>4. FreeBufsCleared' /\ AllAccountedFor'
    BY <1>0, <1>1 DEF IndInv, TypeOK, FreeBufsCleared, FlagNeverPoisoned,
         AllAccountedFor, Out, LockPoisoned, Panic
  <2> QED
    BY <2>1, <2>2, <2>3, <2>4 DEF IndInv, CtlInv
<1>2. CASE GetOutOfMemory(t)
  <2>1. TypeOK'
    BY <1>2 DEF IndInv, TypeOK, GetOutOfMemory, Panic
  <2>2. CtlInv'
    BY <1>2, SMTT(30) DEF GetOutOfMemory, Panic,
         IndInv, TypeOK, CtlInv, LockInv, DroppingInv, CloseInv, ReclaimInv,
         FlagNeverPoisoned
  <2>3. ExclusiveOwnership'
    BY <1>0, <1>2 DEF IndInv, TypeOK, ExclusiveOwnership, GetOutOfMemory, Panic
  <2>4. FreeBufsCleared' /\ AllAccountedFor'
    BY <1>0, <1>2 DEF IndInv, TypeOK, FreeBufsCleared, FlagNeverPoisoned,
         AllAccountedFor, Out, GetOutOfMemory, Panic
  <2> QED
    BY <2>1, <2>2, <2>3, <2>4 DEF IndInv, CtlInv
<1>3. CASE NewBufPanic(t)
  <2>1. TypeOK'
    BY <1>3 DEF IndInv, TypeOK, NewBufPanic, Panic
  <2>2. CtlInv'
    BY <1>3, SMTT(30) DEF NewBufPanic, Panic,
         IndInv, TypeOK, CtlInv, LockInv, DroppingInv, CloseInv, ReclaimInv,
         FlagNeverPoisoned
  <2>3. ExclusiveOwnership'
    BY <1>0, <1>3 DEF IndInv, TypeOK, ExclusiveOwnership, NewBufPanic, Panic
  <2>4. FreeBufsCleared' /\ AllAccountedFor'
    BY <1>0, <1>3 DEF IndInv, TypeOK, FreeBufsCleared, FlagNeverPoisoned,
         AllAccountedFor, Out, NewBufPanic, Panic
  <2> QED
    BY <2>1, <2>2, <2>3, <2>4 DEF IndInv, CtlInv
<1>4. CASE UnwindDone(t)
  <2>1. TypeOK'
    BY <1>4 DEF IndInv, TypeOK, UnwindDone
  <2>2. CtlInv'
    BY <1>4, SMTT(30) DEF UnwindDone,
         IndInv, TypeOK, CtlInv, LockInv, DroppingInv, CloseInv, ReclaimInv,
         FlagNeverPoisoned
  <2>3. ExclusiveOwnership'
    BY <1>0, <1>4 DEF IndInv, TypeOK, ExclusiveOwnership, UnwindDone
  <2>4. FreeBufsCleared' /\ AllAccountedFor'
    BY <1>0, <1>4 DEF IndInv, TypeOK, FreeBufsCleared, FlagNeverPoisoned,
         AllAccountedFor, Out, UnwindDone
  <2> QED
    BY <2>1, <2>2, <2>3, <2>4 DEF IndInv, CtlInv
<1> QED
  BY <1>1, <1>2, <1>3, <1>4

\* What owners do with their Bufs.
LEMMA OwnerStep ==
  ASSUME IndInv, NEW t \in Threads, NEW b, NEW u \in Threads,
         \/ GetStandalone(t) \/ NewBuf(t) \/ DropStandalone(t, b)
         \/ DropPooled(t, b) \/ Fill(t, b) \/ Send(t, u, b)
  PROVE  IndInv'
<1> USE NoneAssumption, HeapAssumption
    DEF PCs, GetPCs, RemPCs, DropPCs, ClosePCs, LastPCs, Holding, Waiting
<1>00. FreeBufs \subseteq Pooled
  BY FreeBufsPooled DEF IndInv, TypeOK, ListType
<1>0. FreeBufs' = FreeBufs
  BY DEF GetStandalone, NewBuf, DropStandalone, DropPooled, Fill, Send, FreeBufs
<1>1. CASE GetStandalone(t)
  <2>1. TypeOK'
    BY <1>1 DEF IndInv, TypeOK, GetStandalone, Goto
  <2>2. CtlInv'
    BY <1>1, SMTT(30) DEF GetStandalone, Goto,
         IndInv, TypeOK, CtlInv, LockInv, DroppingInv, CloseInv, ReclaimInv,
         FlagNeverPoisoned
  <2>3. ExclusiveOwnership'
    BY <1>00, <1>0, <1>1 DEF IndInv, TypeOK, ExclusiveOwnership, GetStandalone, Goto
  <2>4. FreeBufsCleared' /\ AllAccountedFor'
    BY <1>0, <1>1 DEF IndInv, TypeOK, FreeBufsCleared, FlagNeverPoisoned,
         AllAccountedFor, Out, GetStandalone, Goto
  <2> QED
    BY <2>1, <2>2, <2>3, <2>4 DEF IndInv, CtlInv
<1>2. CASE NewBuf(t)
  <2>1. TypeOK'
    BY <1>2 DEF IndInv, TypeOK, NewBuf
  <2>2. CtlInv'
    BY <1>2, SMTT(30) DEF NewBuf,
         IndInv, TypeOK, CtlInv, LockInv, DroppingInv, CloseInv, ReclaimInv,
         FlagNeverPoisoned
  <2>3. ExclusiveOwnership'
    BY <1>00, <1>0, <1>2 DEF IndInv, TypeOK, ExclusiveOwnership, NewBuf
  <2>4. FreeBufsCleared' /\ AllAccountedFor'
    BY <1>0, <1>2 DEF IndInv, TypeOK, FreeBufsCleared, FlagNeverPoisoned,
         AllAccountedFor, Out, NewBuf
  <2> QED
    BY <2>1, <2>2, <2>3, <2>4 DEF IndInv, CtlInv
<1>3. CASE DropStandalone(t, b)
  <2>1. TypeOK'
    BY <1>3 DEF IndInv, TypeOK, DropStandalone
  <2>2. CtlInv'
    BY <1>3, SMTT(30) DEF DropStandalone,
         IndInv, TypeOK, CtlInv, LockInv, DroppingInv, CloseInv, ReclaimInv,
         FlagNeverPoisoned
  <2>3. ExclusiveOwnership'
    BY <1>0, <1>3 DEF IndInv, TypeOK, ExclusiveOwnership, DropStandalone
  <2>4. FreeBufsCleared' /\ AllAccountedFor'
    BY <1>0, <1>3 DEF IndInv, TypeOK, FreeBufsCleared, FlagNeverPoisoned,
         AllAccountedFor, Out, DropStandalone
  <2> QED
    BY <2>1, <2>2, <2>3, <2>4 DEF IndInv, CtlInv
<1>4. CASE DropPooled(t, b)
  <2>1. TypeOK'
    BY <1>4 DEF IndInv, TypeOK, DropPooled, Goto, Cleared
  <2>2. CtlInv'
    BY <1>4, SMTT(30) DEF DropPooled, Goto, Cleared,
         IndInv, TypeOK, CtlInv, LockInv, DroppingInv, CloseInv, ReclaimInv,
         FlagNeverPoisoned
  <2>3. ExclusiveOwnership'
    BY <1>0, <1>4 DEF IndInv, TypeOK, ExclusiveOwnership, DropPooled, Goto, Cleared
  <2>4. FreeBufsCleared'
    BY <1>0, <1>4 DEF IndInv, FreeBufsCleared, DropPooled, Cleared
  <2>5. Out' = Out
    <3>1. dropping[t] = None
      BY <1>4 DEF IndInv, DroppingInv, DropPooled, Goto
    <3>2. /\ own \in [Threads -> SUBSET (Heap \cup Pooled)]
          /\ dropping \in [Threads -> Pooled \cup {None}]
      BY DEF IndInv, TypeOK
    <3>3. /\ b \in own[t] /\ b \in Pooled
          /\ own' = [own EXCEPT ![t] = own[t] \ {b}]
          /\ dropping' = [dropping EXCEPT ![t] = b]
      BY <1>4 DEF DropPooled
    <3>4. \A x \in Pooled : x \in Out' <=> x \in Out
      BY <3>1, <3>2, <3>3 DEF Out
    <3> QED
      BY <3>4 DEF Out
  <2>6. AllAccountedFor'
    BY <1>0, <1>4, <2>5 DEF IndInv, AllAccountedFor, DropPooled
  <2> QED
    BY <2>1, <2>2, <2>3, <2>4, <2>6 DEF IndInv, CtlInv
<1>5. CASE Fill(t, b)
  <2>1. TypeOK'
    BY <1>5 DEF IndInv, TypeOK, Fill
  <2>2. CtlInv'
    BY <1>5, SMTT(30) DEF Fill,
         IndInv, TypeOK, CtlInv, LockInv, DroppingInv, CloseInv, ReclaimInv,
         FlagNeverPoisoned
  <2>3. ExclusiveOwnership'
    BY <1>0, <1>5 DEF IndInv, TypeOK, ExclusiveOwnership, Fill
  <2>4. FreeBufsCleared' /\ AllAccountedFor'
    BY <1>0, <1>5 DEF IndInv, TypeOK, ExclusiveOwnership, FreeBufsCleared,
         AllAccountedFor, Out, Fill
  <2> QED
    BY <2>1, <2>2, <2>3, <2>4 DEF IndInv, CtlInv
<1>6. CASE Send(t, u, b)
  <2>1. TypeOK'
    BY <1>6 DEF IndInv, TypeOK, Send
  <2>2. CtlInv'
    BY <1>6, SMTT(30) DEF Send,
         IndInv, TypeOK, CtlInv, LockInv, DroppingInv, CloseInv, ReclaimInv,
         FlagNeverPoisoned
  <2>3. ExclusiveOwnership'
    BY <1>0, <1>6 DEF IndInv, TypeOK, ExclusiveOwnership, Send
  <2>4. FreeBufsCleared' /\ AllAccountedFor'
    BY <1>0, <1>6 DEF IndInv, TypeOK, FreeBufsCleared, FlagNeverPoisoned,
         AllAccountedFor, Out, Send
  <2> QED
    BY <2>1, <2>2, <2>3, <2>4 DEF IndInv, CtlInv
<1> QED
  BY <1>1, <1>2, <1>3, <1>4, <1>5, <1>6

\* Pool::get takes the top of the free list.
LEMMA GetPooledStep ==
  ASSUME IndInv, NEW t \in Threads, GetPooled(t)
  PROVE  IndInv'
<1> USE NoneAssumption, HeapAssumption
    DEF PCs, GetPCs, RemPCs, DropPCs, ClosePCs, LastPCs, Holding
<1>1. /\ Top \in FreeBufs /\ Top \in Pooled
      /\ FreeBufs' = FreeBufs \ {Top}
      /\ Distinct'
  BY PoppedList DEF IndInv, TypeOK, ListType, ExclusiveOwnership, Distinct,
                    GetPooled
<1>2. /\ own \in [Threads -> SUBSET (Heap \cup Pooled)]
      /\ own' = [own EXCEPT ![t] = own[t] \cup {Top}]
      /\ dropping' = dropping /\ live' = live /\ filled' = filled
  BY DEF IndInv, TypeOK, GetPooled
<1>3. TypeOK'
  BY <1>1, CapacityAssumption DEF IndInv, TypeOK, GetPooled, Goto
<1>4. CtlInv'
  BY SMTT(30) DEF GetPooled, Goto, IndInv, TypeOK, CtlInv, LockInv, DroppingInv,
                  CloseInv, ReclaimInv, FlagNeverPoisoned
<1>5. ExclusiveOwnership'
  BY <1>1, <1>2 DEF IndInv, ExclusiveOwnership, Distinct
<1>6. FreeBufsCleared'
  BY <1>1, <1>2 DEF IndInv, FreeBufsCleared
<1>7. Out' = Out \cup {Top}
  <2>1. \A x \in Pooled : x \in Out' <=> x \in Out \/ x = Top
    BY <1>2 DEF Out
  <2> QED
    BY <1>1, <2>1 DEF Out
<1>8. AllAccountedFor'
  BY <1>1, <1>7 DEF IndInv, AllAccountedFor, GetPooled
<1> QED
  BY <1>3, <1>4, <1>5, <1>6, <1>8 DEF IndInv, CtlInv

\* Buf::drop's push finds room: the buffer being pushed is not on the list.
LEMMA RoomToPush ==
  ASSUME IndInv, NEW t \in Threads, pc[t] = "drop.body"
  PROVE  /\ dropping[t] \in Pooled /\ dropping[t] \notin FreeBufs
         /\ cursor # PoolCapacity
<1>1. dropping[t] \in Pooled /\ dropping[t] \notin FreeBufs
  BY DEF IndInv, TypeOK, DroppingInv, ExclusiveOwnership
<1> QED
  BY <1>1, FullList DEF IndInv, TypeOK, ListType, Distinct, ExclusiveOwnership

\* Buf::drop pushes the buffer.
LEMMA DropPushStep ==
  ASSUME IndInv, NEW t \in Threads, DropPush(t)
  PROVE  IndInv'
<1> USE NoneAssumption
    DEF PCs, GetPCs, RemPCs, DropPCs, ClosePCs, LastPCs, Holding
<1> DEFINE b == dropping[t]
<1>0. pc[t] = "drop.body" /\ b \in Pooled /\ b \notin FreeBufs
  BY RoomToPush DEF DropPush, Goto
<1>1. FreeBufs' = FreeBufs \cup {b} /\ Distinct'
  BY <1>0, PushedList DEF IndInv, TypeOK, ListType, ExclusiveOwnership,
                          Distinct, DropPush, Pushed
<1>2. /\ dropping \in [Threads -> Pooled \cup {None}]
      /\ dropping' = [dropping EXCEPT ![t] = None]
      /\ own' = own /\ live' = live /\ filled' = filled
  BY DEF IndInv, TypeOK, DropPush
<1>3. TypeOK'
  <2>1. /\ ListType
        /\ slots' = [slots EXCEPT ![cursor] = b]
        /\ cursor # PoolCapacity /\ cursor' = cursor + 1
    BY DEF IndInv, TypeOK, ListType, DropPush, Pushed
  <2>2. slots' \in [Pooled -> Pooled]
    BY <1>0, <2>1 DEF ListType
  <2>3. cursor' \in 0 .. PoolCapacity
    BY <2>1, CapacityAssumption DEF ListType
  <2> QED
    BY <2>2, <2>3 DEF IndInv, TypeOK, DropPush, Goto
<1>4. CtlInv'
  <2>1. ~freed /\ \A u \in Threads : pc[u] \notin LastPCs
    BY DEF IndInv, ReclaimInv, DropPush
  <2> QED
    BY <2>1, <1>0, SMTT(30) DEF DropPush, Pushed, LastHome, Goto, IndInv, TypeOK,
         CtlInv, LockInv, DroppingInv, CloseInv, ReclaimInv, FlagNeverPoisoned
<1>5. \A x \in Threads : b \notin own[x] /\ (x # t => b # dropping[x])
  BY <1>0 DEF IndInv, ExclusiveOwnership
<1>6. FreeBufs' \subseteq Pooled
  BY <1>0, <1>1, FreeBufsPooled DEF IndInv, TypeOK, ListType
<1>7. ExclusiveOwnership'
  <2>1. None \notin FreeBufs' /\ \A x \in Threads : None \notin own[x]
    BY <1>6 DEF IndInv, TypeOK
  <2> QED
    BY <1>1, <1>2, <1>5, <2>1 DEF IndInv, ExclusiveOwnership, Distinct
<1>8. FreeBufsCleared'
  BY <1>1, <1>2 DEF IndInv, TypeOK, FreeBufsCleared
<1>9. Out' = Out \ {b}
  <2>1. \A x \in Pooled : x \in Out' <=> x \in Out /\ x # b
    BY <1>0, <1>2, <1>5 DEF Out
  <2> QED
    BY <1>0, <2>1 DEF Out
<1>10. AllAccountedFor'
  BY <1>0, <1>1, <1>9 DEF IndInv, AllAccountedFor, DropPush
<1> QED
  BY <1>3, <1>4, <1>7, <1>8, <1>10 DEF IndInv, CtlInv

-----------------------------------------------------------------------------
\* IndInv holds when Pool::new returns.
LEMMA InitInv == Init => IndInv
<1> SUFFICES ASSUME Init PROVE IndInv
  OBVIOUS
<1> USE NoneAssumption DEF Init
<1>1. FreeBufs = Pooled
  BY CapacityAssumption DEF FreeBufs, Pooled
<1>2. TypeOK
  <2>1. ListType
    BY CapacityAssumption DEF ListType, Pooled
  <2> QED
    BY <2>1 DEF ListType, TypeOK, PCs
<1>3. ExclusiveOwnership
  BY <1>1, CapacityAssumption DEF ExclusiveOwnership, Pooled
<1>4. MemInv
  BY <1>1, <1>3 DEF MemInv, FreeBufsCleared, AllAccountedFor, Out
<1>5. CtlInv
  BY DEF CtlInv, LockInv, DroppingInv, CloseInv, ReclaimInv, FlagNeverPoisoned,
         Holding, GetPCs, RemPCs, ClosePCs, LastPCs
<1> QED
  BY <1>2, <1>4, <1>5 DEF IndInv, MemInv, CtlInv

\* IndInv is inductive: no step of any thread breaks it.
LEMMA NextInv == IndInv /\ [Next]_vars => IndInv'
<1> SUFFICES ASSUME IndInv, [Next]_vars PROVE IndInv'
  OBVIOUS
<1>1. ASSUME NEW t \in Threads, Step(t) PROVE IndInv'
  BY <1>1, ControlStep, PanicStep, OwnerStep, GetPooledStep, DropPushStep DEF Step
<1>2. ASSUME NEW t \in Threads, Client(t) PROVE IndInv'
  BY <1>2, ControlStep, PanicStep, OwnerStep DEF Client
<1>3. CASE UNCHANGED vars
  <2>1. MemInv'
    BY <1>3, MemKept DEF vars, IndInv, MemInv
  <2>2. TypeOK' /\ CtlInv'
    BY <1>3 DEF vars, IndInv, TypeOK, CtlInv, LockInv, DroppingInv, CloseInv,
                ReclaimInv, FlagNeverPoisoned
  <2> QED
    BY <2>1, <2>2 DEF IndInv, MemInv, CtlInv
<1> QED
  BY <1>1, <1>2, <1>3 DEF Next, Run, Aborted

\* In every behaviour of the pool the inductive invariant holds.
THEOREM Invariance == Spec => []IndInv
BY InitInv, NextInv, PTL DEF Spec

\* The cursor stays between pool_start and pool_end, and every other variable
\* keeps its type.
THEOREM TypeCorrect == Spec => []TypeOK
<1>1. IndInv => TypeOK
  BY DEF IndInv
<1> QED
  BY Invariance, <1>1, PTL

\* No buffer is ever in two hands, however many threads get, send and drop.
THEOREM BuffersExclusive == Spec => []ExclusiveOwnership
<1>1. IndInv => ExclusiveOwnership
  BY DEF IndInv
<1> QED
  BY Invariance, <1>1, PTL

\* Buf::drop clears the length before the buffer can be seen on the free list,
\* and nothing writes to it from then until the next get.
THEOREM FreshBufsEmpty == Spec => []FreeBufsCleared
<1>1. IndInv => FreeBufsCleared
  BY DEF IndInv
<1> QED
  BY Invariance, <1>1, PTL

\* Once Pool::drop has set its flag, no panic under the Mutex can keep the last
\* Buf::drop from reclaiming the pool.
THEOREM ReclaimableOnceDropped == Spec => []FlagNeverPoisoned
<1>1. IndInv => FlagNeverPoisoned
  BY DEF IndInv
<1> QED
  BY Invariance, <1>1, PTL

\* Buf::drop's assertion never fires.
THEOREM AssertHolds == Spec => []NeverOverfull
<1>1. IndInv => NeverOverfull
  BY RoomToPush DEF NeverOverfull
<1> QED
  BY Invariance, <1>1, PTL

\* Nothing is inside the pool's memory when it is deallocated.
LEMMA FreedIsQuiet == IndInv => NoUseAfterFree
<1> SUFFICES ASSUME IndInv, freed PROVE NoUseAfterFree
  BY DEF NoUseAfterFree
<1>1. dropped /\ cursor = PoolCapacity /\ lock = None /\ ~handle
  BY DEF IndInv, ReclaimInv, CloseInv, TypeOK
<1>2. FreeBufs = Pooled
  BY <1>1, FullList DEF IndInv, TypeOK, ListType, ExclusiveOwnership, Distinct
<1>3. ASSUME NEW t \in Threads PROVE pc[t] = "idle" /\ own[t] \cap Pooled = {}
  <2>1. own[t] \cap Pooled = {}
    BY <1>2 DEF IndInv, ExclusiveOwnership
  <2>2. pc[t] \notin Waiting /\ pc[t] \notin LastPCs
    BY WaitingKeepsPool DEF IndInv, ReclaimInv
  <2>3. pc[t] \notin Holding
    BY <1>1, NoneAssumption DEF IndInv, LockInv
  <2>4. pc[t] \in PCs
    BY DEF IndInv, TypeOK
  <2> QED
    BY <2>1, <2>2, <2>3, <2>4 DEF PCs, GetPCs, RemPCs, DropPCs, ClosePCs,
       LastPCs, Waiting, Holding
<1> QED
  BY <1>1, <1>3 DEF NoUseAfterFree

\* Dropping the Pool and its Bufs in any order, from any threads, never leaves
\* a thread or a Buf behind in memory that has been deallocated.
THEOREM SafeReclamation == Spec => []NoUseAfterFree
BY Invariance, FreedIsQuiet, PTL

\* No step reads the lock word, moves the cursor, writes a slot or a buffer
\* header, or deallocates, once the pool has been deallocated.
THEOREM FreedOnce == Spec => UntouchedAfterFree
<1> DEFINE Kept == UNCHANGED <<slots, cursor, dropped, lock, poisoned, filled,
                               freed>>
<1>1. ASSUME IndInv, [Next]_vars, freed PROVE Kept
  <2> USE <1>1
  <2>1. ~handle /\ \A t \in Threads : pc[t] = "idle" /\ own[t] \cap Pooled = {}
    BY FreedIsQuiet DEF NoUseAfterFree
  <2>2. ASSUME NEW t \in Threads, Step(t) PROVE Kept
    BY <2>1, <2>2 DEF Step, LockPoisoned, GetLock, GetPooled, GetStandalone,
       GetOutOfMemory, GetReturn, RemainingLock, RemainingReturn, DropLock,
       DropPush, DropReturn, LastUnlock, Dealloc, CloseLock, CloseBody,
       CloseReturn, Acquire, Release, Goto, Waiting
  <2>3. ASSUME NEW t \in Threads, Client(t) PROVE Kept
    BY <2>1, <2>3 DEF Client, GetCall, RemainingCall, CloseCall, NewBuf,
       NewBufPanic, UnwindDone, DropPooled, DropStandalone, Fill, Send, Goto
  <2> QED
    BY <2>2, <2>3 DEF Next, Run, Aborted, vars
<1>2. IndInv /\ [Next]_vars => [freed => Kept]_vars
  BY <1>1
<1> QED
  BY Invariance, <1>2, PTL DEF Spec, UntouchedAfterFree

\* The number of slots below the cursor is the number of free buffers.
LEMMA FreeCount ==
  ASSUME ListType, Distinct
  PROVE  IsFiniteSet(FreeBufs) /\ Cardinality(FreeBufs) = cursor
<1> DEFINE S == 0 .. (cursor - 1)
           f == [i \in S |-> slots[i]]
<1>1. IsFiniteSet(S) /\ Cardinality(S) = cursor
  BY FS_Interval, CapacityAssumption DEF ListType
<1>2. f \in Injection(S, FreeBufs) /\ f \in Surjection(S, FreeBufs)
  BY DEF Distinct, FreeBufs, Injection, IsInjective, Surjection
<1> QED
  BY <1>1, <1>2, FS_Surjection

\* A buffer that is not out is on the free list, once.
LEMMA OutCount ==
  IndInv /\ ~poisoned =>
    /\ cursor = PoolCapacity - Cardinality(Out)
    /\ Out = {} <=> cursor = PoolCapacity
<1> SUFFICES ASSUME IndInv, ~poisoned
             PROVE  /\ cursor = PoolCapacity - Cardinality(Out)
                    /\ Out = {} <=> cursor = PoolCapacity
  OBVIOUS
<1>1. IsFiniteSet(FreeBufs) /\ Cardinality(FreeBufs) = cursor /\ cursor \in Nat
  BY FreeCount DEF IndInv, TypeOK, ListType, ExclusiveOwnership, Distinct
<1>2. IsFiniteSet(Pooled) /\ Cardinality(Pooled) = PoolCapacity
  BY FS_Interval, CapacityAssumption DEF Pooled
<1>3. Pooled = FreeBufs \cup Out /\ FreeBufs \cap Out = {}
  BY DEF IndInv, AllAccountedFor, ExclusiveOwnership, Out
<1>4. IsFiniteSet(Out) /\ Cardinality(Out) \in Nat
  BY <1>2, FS_Subset, FS_CardinalityType DEF Out
<1>5. PoolCapacity = cursor + Cardinality(Out)
  <2>1. Cardinality(FreeBufs \cup Out) =
          Cardinality(FreeBufs) + Cardinality(Out) - Cardinality(FreeBufs \cap Out)
    BY <1>1, <1>4, FS_Union
  <2>2. Cardinality(FreeBufs \cap Out) = 0
    BY <1>3, FS_EmptySet
  <2>3. Cardinality(FreeBufs \cup Out) = PoolCapacity
    BY <1>2, <1>3
  <2> QED
    BY <1>1, <1>4, <2>1, <2>2, <2>3, CapacityAssumption
<1>6. Out = {} <=> Cardinality(Out) = 0
  BY <1>4, FS_EmptySet
<1> QED
  BY <1>1, <1>4, <1>5, <1>6, CapacityAssumption

\* The same of the state a step leads to.
FullIffNoneOut == ~poisoned => (Out = {} <=> cursor = PoolCapacity)
LEMMA OutCountNext == IndInv' => FullIffNoneOut'
<1>1. IndInv => FullIffNoneOut
  BY OutCount DEF FullIffNoneOut
<1> QED
  BY <1>1, PTL

\* pool_remaining is right in every state in which the Mutex can be taken.
THEOREM RemainingCorrect == Spec => []RemainingAccurate
<1>1. IndInv => RemainingAccurate
  BY OutCount DEF RemainingAccurate, pool_remaining
<1> QED
  BY Invariance, <1>1, PTL

-----------------------------------------------------------------------------
\* Implementation of PoolAbs: each step is one abstract step or leaves the
\* abstract pool alone.
AbsReclaimed == freed \/ \E t \in Threads : pc[t] \in LastPCs
AbsSame == UNCHANGED <<FreeBufs, Out, dropped, poisoned, AbsReclaimed>>

\* Steps outside the operations' bodies do not show.
LEMMA AbsControlStep ==
  ASSUME IndInv, NEW t \in Threads,
         \/ GetCall(t) \/ GetLock(t) \/ GetReturn(t)
         \/ RemainingCall(t) \/ RemainingLock(t) \/ RemainingReturn(t)
         \/ DropLock(t) \/ DropReturn(t) \/ LastUnlock(t) \/ Dealloc(t)
         \/ CloseCall(t) \/ CloseLock(t) \/ CloseReturn(t)
         \/ NewBufPanic(t) \/ UnwindDone(t)
  PROVE  AbsSame
<1>1. UNCHANGED <<slots, cursor, own, dropping, dropped, poisoned>>
  BY DEF GetCall, GetLock, GetReturn, RemainingCall, RemainingLock,
     RemainingReturn, DropLock, DropReturn, LastUnlock, Dealloc, CloseCall,
     CloseLock, CloseReturn, NewBufPanic, UnwindDone, Acquire, Release
<1>2. UNCHANGED <<FreeBufs, Out>>
  BY <1>1 DEF FreeBufs, Out
<1>3. AbsReclaimed' = AbsReclaimed
  <2>1. pc \in [Threads -> PCs]
    BY DEF IndInv, TypeOK
  <2>2. CASE LastUnlock(t)
    BY <2>1, <2>2 DEF LastUnlock, Release, Goto, AbsReclaimed, LastPCs
  <2>3. CASE Dealloc(t)
    BY <2>1, <2>3 DEF Dealloc, Goto, AbsReclaimed, LastPCs
  <2>4. CASE ~LastUnlock(t) /\ ~Dealloc(t)
    <3>1. /\ freed' = freed
          /\ pc[t] \notin LastPCs /\ pc'[t] \notin LastPCs
          /\ \A u \in Threads : u # t => pc'[u] = pc[u]
      BY <2>1, <2>4 DEF GetCall, GetLock, GetReturn, RemainingCall,
         RemainingLock, RemainingReturn, DropLock, DropReturn, CloseCall,
         CloseLock, CloseReturn, NewBufPanic, UnwindDone, Acquire, Release,
         Goto, Panic, LastPCs
    <3> QED
      BY <3>1 DEF AbsReclaimed
  <2> QED
    BY <2>2, <2>3, <2>4
<1> QED
  BY <1>1, <1>2, <1>3 DEF AbsSame

\* Owners may pass Bufs around and make standalone ones: the set of pooled
\* buffers that are out stays the same.
LEMMA AbsOwnerStep ==
  ASSUME IndInv, NEW t \in Threads, NEW b, NEW u \in Threads,
         \/ GetStandalone(t) \/ NewBuf(t) \/ DropStandalone(t, b)
         \/ DropPooled(t, b) \/ Fill(t, b) \/ Send(t, u, b)
  PROVE  AbsSame
<1> USE NoneAssumption, HeapAssumption
<1>0. /\ own \in [Threads -> SUBSET (Heap \cup Pooled)]
      /\ dropping \in [Threads -> Pooled \cup {None}]
      /\ pc \in [Threads -> PCs]
  BY DEF IndInv, TypeOK
<1>1. UNCHANGED <<FreeBufs, dropped, poisoned>>
  BY DEF FreeBufs, GetStandalone, NewBuf, DropStandalone, DropPooled, Fill, Send
<1>2. AbsReclaimed' = AbsReclaimed
  <2>1. /\ freed' = freed
        /\ pc[t] \notin LastPCs /\ pc'[t] \notin LastPCs
        /\ \A x \in Threads : x # t => pc'[x] = pc[x]
    BY <1>0 DEF GetStandalone, NewBuf, DropStandalone, DropPooled, Fill, Send,
                Goto, LastPCs
  <2> QED
    BY <2>1 DEF AbsReclaimed
<1>3. \A x \in Pooled : x \in Out' <=> x \in Out
  <2>1. CASE GetStandalone(t) \/ NewBuf(t)
    <3>1. PICK h \in Heap : /\ own' = [own EXCEPT ![t] = own[t] \cup {h}]
                            /\ dropping' = dropping
      BY <2>1 DEF GetStandalone, NewBuf
    <3> QED
      BY <1>0, <3>1 DEF Out
  <2>2. CASE DropStandalone(t, b)
    BY <1>0, <2>2 DEF Out, DropStandalone
  <2>3. CASE DropPooled(t, b)
    <3>1. dropping[t] = None
      BY <2>3 DEF IndInv, DroppingInv, DropPooled, Goto
    <3> QED
      BY <1>0, <2>3, <3>1 DEF Out, DropPooled
  <2>4. CASE Fill(t, b)
    BY <2>4 DEF Out, Fill
  <2>5. CASE Send(t, u, b)
    BY <1>0, <2>5 DEF Out, Send
  <2> QED
    BY <2>1, <2>2, <2>3, <2>4, <2>5
<1>4. Out' = Out
  BY <1>3 DEF Out
<1> QED
  BY <1>1, <1>2, <1>4 DEF AbsSame

\* BufPool implements PoolAbs for every capacity and any number of threads.
THEOREM Refinement == Spec => ImplementsAbs
<1> USE NoneAssumption DEF AbsReclaimed
<1>1. Init => Abs!Init
  BY CapacityAssumption DEF Init, Abs!Init, FreeBufs, Out, LastPCs, Pooled
<1>2. ASSUME IndInv, [Next]_vars PROVE [Abs!Next]_(Abs!absVars)
  <2> USE <1>2
  <2>0. AbsSame => [Abs!Next]_(Abs!absVars)
    BY DEF AbsSame, Abs!absVars
  <2>a. pc \in [Threads -> PCs] /\ dropping \in [Threads -> Pooled \cup {None}]
    BY DEF IndInv, TypeOK
  <2>b. ~poisoned' => (Out' = {} <=> cursor' = PoolCapacity)
    BY NextInv, OutCountNext DEF FullIffNoneOut
  <2>1. ASSUME NEW t \in Threads, GetPooled(t) PROVE Abs!Take
    <3>1. /\ Top \in FreeBufs /\ FreeBufs' = FreeBufs \ {Top}
          /\ Out' = Out \cup {Top}
      <4>1. Top \in FreeBufs /\ Top \in Pooled /\ FreeBufs' = FreeBufs \ {Top}
        BY <2>1, PoppedList DEF IndInv, TypeOK, ListType, ExclusiveOwnership,
                                Distinct, GetPooled
      <4>2. /\ own \in [Threads -> SUBSET (Heap \cup Pooled)]
            /\ own' = [own EXCEPT ![t] = own[t] \cup {Top}]
            /\ dropping' = dropping
        BY <2>1 DEF IndInv, TypeOK, GetPooled
      <4>3. \A x \in Pooled : x \in Out' <=> x \in Out \/ x = Top
        BY <4>2 DEF Out
      <4> QED
        BY <4>1, <4>3 DEF Out
    <3>2. ~dropped /\ ~poisoned
      BY <2>1 DEF IndInv, LockInv, CloseInv, GetPooled, Goto, Holding, GetPCs
    <3>3. AbsReclaimed' = AbsReclaimed /\ UNCHANGED <<dropped, poisoned>>
      BY <2>1, <2>a DEF GetPooled, Goto, LastPCs
    <3> QED
      BY <3>1, <3>2, <3>3 DEF Abs!Take
  <2>2. ASSUME NEW t \in Threads, DropPush(t) PROVE Abs!Give
    <3> DEFINE b == dropping[t]
    <3>1. /\ pc[t] = "drop.body" /\ b \in Pooled /\ b \notin FreeBufs
          /\ cursor # PoolCapacity
      BY <2>2, RoomToPush DEF DropPush, Goto
    <3>2. FreeBufs' = FreeBufs \cup {b}
      BY <2>2, <3>1, PushedList DEF IndInv, TypeOK, ListType,
         ExclusiveOwnership, Distinct, DropPush, Pushed
    <3>3. b \in Out /\ Out' = Out \ {b}
      <4>1. own' = own /\ dropping' = [dropping EXCEPT ![t] = None]
        BY <2>2 DEF DropPush
      <4>2. \A x \in Threads : b \notin own[x] /\ (x # t => b # dropping[x])
        BY <3>1 DEF IndInv, ExclusiveOwnership
      <4>3. \A x \in Pooled : x \in Out' <=> x \in Out /\ x # b
        BY <2>a, <3>1, <4>1, <4>2 DEF Out
      <4> QED
        BY <3>1, <4>3 DEF Out
    <3>4. ~poisoned /\ UNCHANGED <<dropped, poisoned>>
      BY <2>2 DEF IndInv, LockInv, DropPush, Goto, Holding
    <3>5. AbsReclaimed' = (dropped /\ cursor' = PoolCapacity)
      <4>1. ~freed /\ \A u \in Threads : pc[u] \notin LastPCs
        BY <3>1 DEF IndInv, ReclaimInv
      <4>2. dropped \in BOOLEAN
        BY DEF IndInv, TypeOK
      <4> QED
        BY <2>2, <2>a, <4>1, <4>2 DEF DropPush, Pushed, LastHome, Goto, LastPCs
    <3>6. Out' = {} <=> cursor' = PoolCapacity
      BY <2>b, <3>4
    <3> QED
      BY <3>2, <3>3, <3>4, <3>5, <3>6 DEF Abs!Give
  <2>3. ASSUME NEW t \in Threads, CloseBody(t) PROVE Abs!Close
    <3>1. ~dropped /\ ~poisoned
      BY <2>3 DEF IndInv, CloseInv, LockInv, CloseBody, Goto, Holding
    <3>2. UNCHANGED <<FreeBufs, Out, poisoned>> /\ dropped' = TRUE
      BY <2>3, <3>1 DEF CloseBody, FreeBufs, Out
    <3>3. AbsReclaimed' = AbsReclaimed
      BY <2>3, <2>a, <3>1 DEF CloseBody, Goto, LastPCs
    <3> QED
      BY <3>1, <3>2, <3>3 DEF Abs!Close
  <2>4. ASSUME NEW t \in Threads, GetOutOfMemory(t) PROVE Abs!Break
    <3>1. ~dropped /\ ~poisoned /\ poisoned' = TRUE
      BY <2>4 DEF IndInv, LockInv, CloseInv, GetOutOfMemory, Holding, GetPCs
    <3>2. UNCHANGED <<FreeBufs, Out, dropped>> /\ FreeBufs = {}
      BY <2>4 DEF GetOutOfMemory, FreeBufs, Out
    <3>3. AbsReclaimed' = AbsReclaimed
      BY <2>4, <2>a DEF GetOutOfMemory, Panic, LastPCs
    <3> QED
      BY <3>1, <3>2, <3>3 DEF Abs!Break
  <2>5. ASSUME NEW t \in Threads, LockPoisoned(t) PROVE [Abs!Next]_(Abs!absVars)
    <3>1. poisoned /\ UNCHANGED <<FreeBufs, dropped, poisoned>>
      BY <2>5 DEF LockPoisoned, FreeBufs
    <3>2. AbsReclaimed' = AbsReclaimed
      BY <2>5, <2>a DEF LockPoisoned, Panic, Waiting, LastPCs
    <3>3. \A x \in Pooled : x \in Out' <=> x \in Out /\ x # dropping[t]
      <4>1. own' = own /\ dropping' = [dropping EXCEPT ![t] = None]
        BY <2>5 DEF LockPoisoned
      <4>2. \A x \in Threads :
              dropping[t] \notin own[x] /\ (x # t => dropping[t] # dropping[x]
                                                    \/ dropping[t] = None)
        BY DEF IndInv, ExclusiveOwnership
      <4> QED
        BY <2>a, <4>1, <4>2 DEF Out
    <3>4. CASE dropping[t] = None
      BY <2>0, <3>1, <3>2, <3>3, <3>4 DEF AbsSame, Out
    <3>5. CASE dropping[t] # None
      <4>1. dropping[t] \in Out /\ Out' = Out \ {dropping[t]}
        BY <2>a, <3>3, <3>5 DEF Out
      <4> QED
        BY <3>1, <3>2, <4>1 DEF Abs!Next, Abs!Lose
    <3> QED
      BY <3>4, <3>5
  <2>6. ASSUME NEW t \in Threads, Step(t) PROVE [Abs!Next]_(Abs!absVars)
    BY <2>0, <2>1, <2>2, <2>3, <2>4, <2>5, <2>6, AbsControlStep, AbsOwnerStep
       DEF Step, Abs!Next
  <2>7. ASSUME NEW t \in Threads, Client(t) PROVE [Abs!Next]_(Abs!absVars)
    BY <2>0, <2>7, AbsControlStep, AbsOwnerStep DEF Client
  <2>8. CASE UNCHANGED vars
    BY <2>0, <2>8 DEF vars, AbsSame, FreeBufs, Out
  <2> QED
    BY <2>6, <2>7, <2>8 DEF Next, Run, Aborted
<1> QED
  BY Invariance, <1>1, <1>2, PTL DEF Spec, ImplementsAbs, Abs!Spec
=============================================================================
