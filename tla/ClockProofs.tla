---------------------------- MODULE ClockProofs ----------------------------
(***************************************************************************)
(* Proofs about ms_monotonic, for any threads, clock and tick, and about   *)
(* an IntervalGate fed by it, for any interval and a clock that stays      *)
(* below a quarter of the i64s.                                            *)
(***************************************************************************)
EXTENDS GatedClock, IntegerLemmas, TLAPS

\* Whole milliseconds, as as_millis() rounds them, do not decrease with the
\* time that is rounded.
LEMMA MillisMonotone ==
    ASSUME NEW a \in Nat, NEW b \in Nat, a <= b
    PROVE  /\ a \div TicksPerMs \in Nat
           /\ a \div TicksPerMs <= b \div TicksPerMs
BY ClockAssumption DEF ClockAssumption

\* The time since a start does not decrease while the clock goes on.
LEMMA ElapsedGrows ==
    ASSUME NEW start \in Nat, NEW t1 \in Nat, NEW t2 \in Nat, start <= t1, t1 <= t2
    PROVE  /\ t1 - start \in Nat /\ t2 - start \in Nat
           /\ t1 - start <= t2 - start /\ start <= t2
OBVIOUS

\* A thread that is about to return a result has a start time to measure from,
\* and the result is at least every result returned so far.
LEMMA ElapsedIsHighest ==
    ASSUME IndInv, NEW t \in Threads, pc[t] \in {"elapsed", "unlock"}
    PROVE  /\ startup \in Nat /\ si[t] = startup /\ startup <= now
           /\ Elapsed(t) = (now - startup) \div TicksPerMs
           /\ Elapsed(t) \in Nat
           /\ Elapsed(t) >= high
<1>1. startup # None /\ si[t] = startup
  BY DEF IndInv, ClockInv
<1>2. startup \in Nat /\ now \in Nat /\ startup <= now
  BY <1>1 DEF IndInv, TypeOK, ClockInv
<1>3. Elapsed(t) = (now - startup) \div TicksPerMs
  BY <1>1 DEF Elapsed
<1>4. Elapsed(t) \in Nat
  <2>1. now - startup \in Nat
    BY <1>2
  <2> QED
    BY <2>1, <1>3, MillisMonotone
<1>5. Elapsed(t) >= high
  BY <1>1, <1>3, <1>4 DEF IndInv, ClockInv, TypeOK
<1> QED
  BY <1>1, <1>2, <1>3, <1>4, <1>5

\* Both returns leave the clock's state as the invariant wants it.
LEMMA ReturnKeepsClock ==
    ASSUME IndInv, NEW t \in Threads, pc[t] \in {"elapsed", "unlock"}, Return(t),
           pc' = [pc EXCEPT ![t] = "idle"], UNCHANGED <<now, startup>>
    PROVE  /\ ClockInv'
           /\ high' = Elapsed(t)
           /\ ret' \in [Threads -> Nat] /\ floor' \in [Threads -> Nat]
           /\ si' \in [Threads -> Nat \cup {None}]
           /\ fetched' \in [Threads -> Nat \cup {None}]
<1>1. /\ startup \in Nat /\ startup <= now
      /\ Elapsed(t) = (now - startup) \div TicksPerMs
      /\ Elapsed(t) \in Nat /\ Elapsed(t) >= high
  BY ElapsedIsHighest
<1>2. high' = Elapsed(t)
  BY <1>1 DEF Return, IndInv, TypeOK
<1>3. startup # None
  BY <1>1, ClockAssumption DEF ClockAssumption
<1>4. \A u \in Threads : floor'[u] <= high'
  BY <1>1, <1>2 DEF Return, IndInv, TypeOK, ClockInv
<1>5. \A u \in Threads :
        /\ pc'[u] \in {"elapsed", "unlock"} => startup' # None /\ si'[u] = startup'
        /\ pc'[u] = "insert" => fetched'[u] \in Nat /\ fetched'[u] <= now'
  BY DEF Return, IndInv, TypeOK, ClockInv
<1>6. ClockInv'
  BY <1>1, <1>2, <1>3, <1>4, <1>5 DEF ClockInv
<1>7. /\ ret' \in [Threads -> Nat] /\ floor' \in [Threads -> Nat]
      /\ si' \in [Threads -> Nat \cup {None}]
      /\ fetched' \in [Threads -> Nat \cup {None}]
  BY <1>1 DEF Return, IndInv, TypeOK
<1> QED
  BY <1>2, <1>6, <1>7

\* IndInv is inductive: each call is followed through its critical sections.
LEMMA Inductive == IndInv /\ [Next]_vars => IndInv'
<1> SUFFICES ASSUME IndInv, [Next]_vars PROVE IndInv'
  OBVIOUS
<1> USE ClockAssumption DEF ClockAssumption
<1>1. ASSUME Tick PROVE IndInv'
  <2>1. TypeOK' /\ LockInv'
    BY <1>1 DEF Tick, IndInv, TypeOK, LockInv
  <2>2. now' \in Nat /\ now <= now'
    BY <1>1 DEF Tick, IndInv, TypeOK
  <2>3. startup # None =>
          startup <= now' /\ high <= (now' - startup) \div TicksPerMs
    <3> SUFFICES ASSUME startup # None
                 PROVE  startup <= now' /\ high <= (now' - startup) \div TicksPerMs
      OBVIOUS
    <3>1. now \in Nat /\ startup \in Nat /\ startup <= now /\ high \in Nat
      BY DEF IndInv, TypeOK, ClockInv
    <3>2. /\ now - startup \in Nat /\ now' - startup \in Nat
          /\ now - startup <= now' - startup
          /\ startup <= now'
      BY <3>1, <2>2, ElapsedGrows
    <3>3. /\ (now - startup) \div TicksPerMs \in Nat
          /\ (now' - startup) \div TicksPerMs \in Nat
          /\ (now - startup) \div TicksPerMs <= (now' - startup) \div TicksPerMs
      BY <3>2, MillisMonotone
    <3>4. high <= (now - startup) \div TicksPerMs
      BY DEF IndInv, ClockInv
    <3> QED
      BY <3>1, <3>2, <3>3, <3>4
  <2>4. ClockInv'
    BY <1>1, <2>2, <2>3 DEF Tick, IndInv, TypeOK, ClockInv
  <2> QED
    BY <2>1, <2>4 DEF IndInv
<1>2. ASSUME NEW t \in Threads, Call(t) PROVE IndInv'
  <2>1. TypeOK' /\ LockInv'
    BY <1>2 DEF Call, Goto, IndInv, TypeOK, LockInv, Holding, PCs
  <2>2. ClockInv'
    BY <1>2 DEF Call, Goto, IndInv, TypeOK, ClockInv
  <2> QED
    BY <2>1, <2>2 DEF IndInv
<1>3. ASSUME NEW t \in Threads, ReadLock(t) PROVE IndInv'
  <2>1. TypeOK' /\ LockInv'
    BY <1>3 DEF ReadLock, Goto, IndInv, TypeOK, LockInv, Holding, PCs
  <2>2. ClockInv'
    BY <1>3 DEF ReadLock, Goto, IndInv, TypeOK, ClockInv
  <2> QED
    BY <2>1, <2>2 DEF IndInv
<1>4. ASSUME NEW t \in Threads, Read(t) PROVE IndInv'
  <2>1. TypeOK' /\ LockInv'
    BY <1>4 DEF Read, Goto, StillReading, IndInv, TypeOK, LockInv, Holding, PCs
  <2>2. ClockInv'
    BY <1>4 DEF Read, Goto, StillReading, IndInv, TypeOK, ClockInv
  <2> QED
    BY <2>1, <2>2 DEF IndInv
<1>5. ASSUME NEW t \in Threads, FastReturn(t) PROVE IndInv'
  <2>1. /\ pc[t] = "elapsed" /\ pc' = [pc EXCEPT ![t] = "idle"] /\ Return(t)
        /\ UNCHANGED <<now, startup, readers, writer>>
    BY <1>5 DEF FastReturn, Goto
  <2>2. /\ ClockInv' /\ high' = Elapsed(t) /\ Elapsed(t) \in Nat
        /\ ret' \in [Threads -> Nat] /\ floor' \in [Threads -> Nat]
        /\ si' \in [Threads -> Nat \cup {None}]
        /\ fetched' \in [Threads -> Nat \cup {None}]
    BY <2>1, ReturnKeepsClock, ElapsedIsHighest
  <2>3. LockInv'
    BY <1>5, <2>1 DEF FastReturn, IndInv, TypeOK, LockInv, Holding, PCs
  <2>4. TypeOK'
    BY <1>5, <2>1, <2>2 DEF FastReturn, IndInv, TypeOK, PCs
  <2> QED
    BY <2>2, <2>3, <2>4 DEF IndInv
<1>6. ASSUME NEW t \in Threads, WriteCall(t) PROVE IndInv'
  <2>1. TypeOK' /\ LockInv'
    BY <1>6 DEF WriteCall, Goto, IndInv, TypeOK, LockInv, Holding, PCs
  <2>2. ClockInv'
    BY <1>6 DEF WriteCall, Goto, IndInv, TypeOK, ClockInv
  <2> QED
    BY <2>1, <2>2 DEF IndInv
<1>7. ASSUME NEW t \in Threads, WriteLock(t) PROVE IndInv'
  <2>1. TypeOK' /\ LockInv'
    BY <1>7 DEF WriteLock, Goto, IndInv, TypeOK, LockInv, Holding, PCs
  <2>2. ClockInv'
    BY <1>7 DEF WriteLock, Goto, IndInv, TypeOK, ClockInv
  <2> QED
    BY <2>1, <2>2 DEF IndInv
<1>8. ASSUME NEW t \in Threads, Fetch(t) PROVE IndInv'
  <2>1. TypeOK' /\ LockInv'
    BY <1>8 DEF Fetch, Goto, IndInv, TypeOK, LockInv, Holding, PCs
  <2>2. ClockInv'
    BY <1>8 DEF Fetch, Goto, IndInv, TypeOK, ClockInv
  <2> QED
    BY <2>1, <2>2 DEF IndInv
<1>9. ASSUME NEW t \in Threads, Insert(t) PROVE IndInv'
  <2>1. fetched[t] \in Nat /\ fetched[t] <= now /\ pc[t] = "insert"
    BY <1>9 DEF Insert, Goto, IndInv, ClockInv
  <2>2. Kept(t) \in Nat /\ Kept(t) <= now /\ (startup # None => Kept(t) = startup)
    BY <2>1 DEF Kept, IndInv, TypeOK, ClockInv
  <2>3. TypeOK' /\ LockInv'
    BY <1>9, <2>2 DEF Insert, Goto, IndInv, TypeOK, LockInv, Holding, PCs
  <2>4. startup' # None /\ startup' <= now' /\ high' <= (now' - startup') \div TicksPerMs
    <3>1. now - Kept(t) \in Nat /\ high \in Nat /\ startup' = Kept(t) /\ now' = now /\ high' = high
      BY <1>9, <2>2 DEF Insert, IndInv, TypeOK
    <3>2. (now - Kept(t)) \div TicksPerMs \in Nat
      BY <3>1, MillisMonotone
    <3>3. high <= (now - Kept(t)) \div TicksPerMs
      BY <3>1, <3>2, <2>2 DEF IndInv, ClockInv
    <3> QED
      BY <3>1, <3>3, <2>2
  <2>5. \A u \in Threads :
          /\ pc'[u] \in {"elapsed", "unlock"} => si'[u] = startup'
          /\ pc'[u] = "insert" => fetched'[u] \in Nat /\ fetched'[u] <= now'
          /\ floor'[u] <= high'
    BY <1>9, <2>2 DEF Insert, Goto, IndInv, TypeOK, ClockInv
  <2> QED
    BY <2>3, <2>4, <2>5 DEF IndInv, ClockInv
<1>10. ASSUME NEW t \in Threads, SlowReturn(t) PROVE IndInv'
  <2>1. /\ pc[t] = "unlock" /\ pc' = [pc EXCEPT ![t] = "idle"] /\ Return(t)
        /\ UNCHANGED <<now, startup, readers>>
    BY <1>10 DEF SlowReturn, Goto
  <2>2. /\ ClockInv' /\ high' = Elapsed(t) /\ Elapsed(t) \in Nat
        /\ ret' \in [Threads -> Nat] /\ floor' \in [Threads -> Nat]
        /\ si' \in [Threads -> Nat \cup {None}]
        /\ fetched' \in [Threads -> Nat \cup {None}]
    BY <2>1, ReturnKeepsClock, ElapsedIsHighest
  <2>3. LockInv'
    BY <1>10, <2>1 DEF SlowReturn, IndInv, TypeOK, LockInv, Holding, PCs
  <2>4. TypeOK'
    BY <1>10, <2>1, <2>2 DEF SlowReturn, IndInv, TypeOK, PCs
  <2> QED
    BY <2>2, <2>3, <2>4 DEF IndInv
<1>11. CASE UNCHANGED vars
  BY <1>11 DEF vars, IndInv, TypeOK, LockInv, ClockInv
<1> QED
  BY <1>1, <1>2, <1>3, <1>4, <1>5, <1>6, <1>7, <1>8, <1>9, <1>10, <1>11 DEF Next, Step

\* The inductive invariant holds in every state that threads calling
\* ms_monotonic can reach.
THEOREM ClockInvariance == Spec => []IndInv
<1>1. Init => IndInv
  BY ClockAssumption
     DEF ClockAssumption, Init, IndInv, TypeOK, LockInv, ClockInv, PCs, Holding
<1> QED
  BY <1>1, Inductive, PTL DEF Spec

\* ms_monotonic keeps its documented guarantee, however its first callers
\* race: no call returns less than one that had returned before it began.
THEOREM NeverGoesBack == Spec => Monotonic
<1> DEFINE NotBelow(t) == pc[t] # "idle" /\ pc'[t] = "idle" => ret'[t] >= floor[t]
<1>1. IndInv /\ [Next]_vars => [\A t \in Threads : NotBelow(t)]_vars
  <2> SUFFICES ASSUME IndInv, Next, NEW t \in Threads,
                      pc[t] # "idle", pc'[t] = "idle"
               PROVE  ret'[t] >= floor[t]
    OBVIOUS
  <2>1. FastReturn(t) \/ SlowReturn(t)
    BY DEF Next, Step, Tick, Call, ReadLock, Read, WriteCall, WriteLock, Fetch, Insert,
           FastReturn, SlowReturn, Goto, IndInv, TypeOK
  <2>2. pc[t] \in {"elapsed", "unlock"} /\ Return(t)
    BY <2>1 DEF FastReturn, SlowReturn, Goto
  <2>3. Elapsed(t) \in Nat /\ Elapsed(t) >= high
    BY <2>2, ElapsedIsHighest
  <2>4. ret'[t] = Elapsed(t)
    BY <2>2 DEF Return, IndInv, TypeOK
  <2>5. floor[t] \in Nat /\ high \in Nat /\ floor[t] <= high
    BY DEF IndInv, TypeOK, ClockInv
  <2> QED
    BY <2>3, <2>4, <2>5
<1> QED
  BY <1>1, ClockInvariance, PTL DEF Spec, Monotonic

-----------------------------------------------------------------------------
\* The distance of NEVER_HAPPENED_TICKS from 0.
Quarter == I64Values \div 4

\* The last millisecond the clock reaches.
LastMs == MaxNow \div TicksPerMs

\* No thread has a time the clock has not shown yet.
TimesInv ==
    /\ now <= MaxNow
    /\ high <= LastMs
    /\ \A t \in Threads : ret[t] <= high
    /\ due \subseteq Threads

\* Each time but the first that the gate has opened lies FREQ milliseconds
\* before the next, and the last of them is in the gate.
OpenInv ==
    /\ opened \in Nat
    /\ gate \in {NEVER_HAPPENED_TICKS} \cup 0 .. Quarter
    /\ opened >= 1 => /\ gate \in Nat /\ gate <= high
                      /\ (opened - 1) * FREQ <= gate
    /\ polled => gate # NEVER_HAPPENED_TICKS

\* The inductive invariant behind RateLimited and FirstPollPasses.
GateInv == IndInv /\ TimesInv /\ OpenInv

\* What GateAssumption and ClockAssumption say of the widths.
LEMMA Widths ==
    /\ I64Values = 4 * Quarter /\ Quarter \in Nat \ {0}
    /\ I64Values \div 2 = 2 * Quarter
    /\ NEVER_HAPPENED_TICKS = 0 - Quarter
    /\ FREQ \in 1 .. Quarter
    /\ LastMs \in Nat /\ LastMs < Quarter
<1>1. /\ I64Values = 4 * Quarter /\ Quarter \in Nat \ {0}
      /\ I64Values \div 2 = 2 * Quarter
      /\ NEVER_HAPPENED_TICKS = 0 - Quarter
      /\ FREQ \in 1 .. Quarter
  BY GateAssumption DEF GateAssumption, Quarter, NEVER_HAPPENED_TICKS
<1>2. LastMs \in Nat /\ LastMs < Quarter
  BY GateAssumption, ClockAssumption, MillisMonotone
     DEF GateAssumption, ClockAssumption, LastMs, Quarter
<1> QED
  BY <1>1, <1>2

\* The gate's subtraction does not wrap, also from the sentinel.
LEMMA MinusExact ==
    ASSUME NEW x \in 0 .. LastMs, NEW y \in {NEVER_HAPPENED_TICKS} \cup 0 .. Quarter
    PROVE  Minus(x, y) = x - y
<1>1. /\ x - y + 2 * Quarter \in Nat /\ x - y + 2 * Quarter < I64Values
      /\ I64Values \in Nat \ {0} /\ x - y \in Int
  BY Widths
<1>2. (x - y + 2 * Quarter) % I64Values = x - y + 2 * Quarter
  BY <1>1
<1>3. Minus(x, y) = ((x - y + 2 * Quarter) % I64Values) - 2 * Quarter
  BY Widths DEF Minus
<1> QED
  BY <1>1, <1>2, <1>3, Widths

\* The clock is used as its own specification says: what the gate adds does
\* not touch it.
LEMMA ClockStepKept == [GateNext]_<<vars, gateVars>> => [Next]_vars
BY DEF GateNext, ClockStep, Poll, Next, vars

\* ms_monotonic keeps its guarantee among callers that share a gate.
THEOREM NeverGoesBackGated == GateFairSpec => Monotonic
<1>1. GateInit => Init
  BY DEF GateInit
<1> QED
  BY <1>1, ClockStepKept, NeverGoesBack, PTL DEF GateFairSpec, Spec

\* A return gives the thread a time within the clock's bound.
LEMMA ReturnInv ==
    ASSUME IndInv, TimesInv, NEW t \in Threads, pc[t] \in {"elapsed", "unlock"}, Return(t),
           now' = now
    PROVE  /\ high' <= LastMs /\ high <= high'
           /\ \A u \in Threads : ret'[u] <= high'
<1>1. /\ startup \in Nat /\ startup <= now
      /\ Elapsed(t) = (now - startup) \div TicksPerMs
      /\ Elapsed(t) \in Nat /\ Elapsed(t) >= high
  BY ElapsedIsHighest
<1>2. /\ now - startup \in Nat /\ MaxNow \in Nat /\ now - startup <= MaxNow
  BY <1>1, ClockAssumption DEF IndInv, TypeOK, TimesInv, ClockAssumption
<1>3. Elapsed(t) <= LastMs
  BY <1>1, <1>2, MillisMonotone DEF LastMs
<1>4. high' = Elapsed(t) /\ high \in Nat
  BY <1>1 DEF Return, IndInv, TypeOK
<1>5. \A u \in Threads : ret'[u] = IF u = t THEN Elapsed(t) ELSE ret[u]
  BY DEF Return, IndInv, TypeOK
<1>6. \A u \in Threads : ret'[u] <= high'
  BY <1>1, <1>4, <1>5 DEF TimesInv, IndInv, TypeOK
<1> QED
  BY <1>1, <1>3, <1>4, <1>6

\* The clock's steps keep the times, and high does not fall.
LEMMA ClockTimes ==
    ASSUME GateInv, NEW t \in Threads, Step(t)
    PROVE  /\ now' <= MaxNow /\ high' <= LastMs /\ high <= high'
           /\ \A u \in Threads : ret'[u] <= high'
<1> USE DEF GateInv
<1>1. now' = now
  BY DEF Step, ReadLock, Read, FastReturn, WriteCall, WriteLock, Fetch, Insert, SlowReturn
<1>2. CASE FastReturn(t) \/ SlowReturn(t)
  <2>1. pc[t] \in {"elapsed", "unlock"} /\ Return(t)
    BY <1>2 DEF FastReturn, SlowReturn, Goto
  <2> QED
    BY <1>1, <2>1, ReturnInv DEF TimesInv
<1>3. CASE ~(FastReturn(t) \/ SlowReturn(t))
  <2>1. UNCHANGED <<now, ret, high>>
    BY <1>3 DEF Step, ReadLock, Read, WriteCall, WriteLock, Fetch, Insert
  <2> QED
    BY <2>1 DEF TimesInv, IndInv, TypeOK
<1> QED
  BY <1>2, <1>3

\* One more opening is one more interval.
LEMMA OneMore ==
    ASSUME NEW n \in Nat, NEW f \in Nat
    PROVE  n * f + f = (n + 1) * f /\ n * f \in Nat
OBVIOUS

\* Asking the gate.
LEMMA PollInv ==
    ASSUME GateInv, NEW t \in Threads, Poll(t)
    PROVE  OpenInv'
<1> USE DEF GateInv
<1> DEFINE time == ret[t]
<1>1. /\ time \in 0 .. LastMs /\ time <= high /\ high' = high /\ high \in Nat
      /\ gate \in {NEVER_HAPPENED_TICKS} \cup 0 .. Quarter /\ gate \in Int
      /\ opened \in Nat
  BY Widths DEF IndInv, TypeOK, TimesInv, OpenInv, Poll, vars
<1>2. Passes(time) <=> time - gate >= FREQ
  BY <1>1, MinusExact DEF Passes
<1>3. /\ gate' = IF Passes(time) THEN time ELSE gate
      /\ opened' = IF Passes(time) THEN opened + 1 ELSE opened
      /\ polled' = TRUE
  BY DEF Poll, Stored
<1> HIDE DEF time
<1>4. CASE ~Passes(time)
  <2>1. gate # NEVER_HAPPENED_TICKS
    BY <1>1, <1>2, <1>4, Widths
  <2> QED
    BY <1>1, <1>3, <1>4, <2>1 DEF OpenInv
<1>5. CASE Passes(time)
  <2>1. gate' = time /\ opened' = opened + 1 /\ time \in 0 .. Quarter
    BY <1>1, <1>3, <1>5, Widths
  <2>2. opened * FREQ <= time
    <3>1. CASE opened = 0
      BY <1>1, <3>1, Widths
    <3>2. CASE opened # 0
      <4>1. opened - 1 \in Nat /\ FREQ \in Nat /\ (opened - 1) + 1 = opened
        BY <1>1, <3>2, Widths
      <4>2. (opened - 1) * FREQ \in Nat /\ (opened - 1) * FREQ + FREQ = opened * FREQ
        BY <4>1, OneMore
      <4>3. (opened - 1) * FREQ <= gate
        BY <1>1, <3>2 DEF OpenInv
      <4> QED
        BY <1>1, <1>2, <1>5, <4>1, <4>2, <4>3
    <3> QED
      BY <3>1, <3>2
  <2>3. opened' - 1 = opened /\ gate' # NEVER_HAPPENED_TICKS
    BY <1>1, <2>1, Widths
  <2> QED
    BY <1>1, <2>1, <2>2, <2>3 DEF OpenInv
<1> QED
  BY <1>4, <1>5

\* The gate's state stays good while the clock goes on.
LEMMA OpenKept ==
    ASSUME GateInv, UNCHANGED <<gate, opened, polled>>, high' \in Nat, high <= high'
    PROVE  OpenInv'
BY DEF GateInv, IndInv, TypeOK, OpenInv

\* Ticks, calls, the steps of a call and polls keep the invariant.
LEMMA GateInductive == GateInv /\ [GateNext]_<<vars, gateVars>> => GateInv'
<1> SUFFICES ASSUME GateInv, [GateNext]_<<vars, gateVars>> PROVE GateInv'
  OBVIOUS
<1>0. IndInv' /\ high \in Nat /\ high' \in Nat
  BY Inductive, ClockStepKept DEF GateInv, IndInv, TypeOK
<1>1. ASSUME Tick, UNCHANGED gateVars PROVE GateInv'
  <2>1. now' <= MaxNow /\ UNCHANGED <<ret, high, due>>
    BY <1>1, ClockAssumption DEF Tick, gateVars, GateInv, TimesInv, IndInv, TypeOK, ClockAssumption
  <2>2. TimesInv'
    BY <2>1 DEF GateInv, TimesInv
  <2>3. OpenInv'
    BY <1>0, <1>1, <2>1, OpenKept DEF gateVars
  <2> QED
    BY <1>0, <2>2, <2>3 DEF GateInv
<1>2. ASSUME NEW t \in Threads, Call(t), UNCHANGED gateVars PROVE GateInv'
  <2>1. UNCHANGED <<now, ret, high, due>>
    BY <1>2 DEF Call, gateVars
  <2>2. TimesInv'
    BY <2>1 DEF GateInv, TimesInv
  <2>3. OpenInv'
    BY <1>0, <1>2, <2>1, OpenKept DEF gateVars
  <2> QED
    BY <1>0, <2>2, <2>3 DEF GateInv
<1>3. ASSUME NEW t \in Threads, ClockStep(t) PROVE GateInv'
  <2>1. /\ now' <= MaxNow /\ high' <= LastMs /\ high <= high'
        /\ \A u \in Threads : ret'[u] <= high'
    BY <1>3, ClockTimes DEF ClockStep
  <2>2. due' \subseteq Threads
    BY <1>3 DEF ClockStep, GateInv, TimesInv
  <2>3. TimesInv'
    BY <2>1, <2>2 DEF TimesInv, LastMs
  <2>4. OpenInv'
    BY <1>0, <1>3, <2>1, OpenKept DEF ClockStep
  <2> QED
    BY <1>0, <2>3, <2>4 DEF GateInv
<1>4. ASSUME NEW t \in Threads, Poll(t) PROVE GateInv'
  <2>1. TimesInv'
    BY <1>4 DEF Poll, vars, GateInv, TimesInv, LastMs
  <2>2. OpenInv'
    BY <1>4, PollInv
  <2> QED
    BY <1>0, <2>1, <2>2 DEF GateInv
<1>5. CASE UNCHANGED <<vars, gateVars>>
  <2>1. TimesInv'
    BY <1>5 DEF vars, gateVars, GateInv, TimesInv, LastMs
  <2>2. OpenInv'
    BY <1>0, <1>5, OpenKept DEF vars, gateVars
  <2> QED
    BY <1>0, <2>1, <2>2 DEF GateInv
<1> QED
  BY <1>1, <1>2, <1>3, <1>4, <1>5 DEF GateNext

\* IntervalGate::new and default() start with no time taken.
LEMMA GateInitInv == GateInit => GateInv
<1> SUFFICES ASSUME GateInit PROVE GateInv
  OBVIOUS
<1>1. IndInv
  BY ClockAssumption
     DEF ClockAssumption, GateInit, Init, IndInv, TypeOK, LockInv, ClockInv, PCs, Holding
<1>2. TimesInv
  BY Widths, ClockAssumption DEF GateInit, Init, TimesInv, ClockAssumption
<1>3. OpenInv
  BY Widths, GateAssumption DEF GateInit, OpenInv, GateAssumption, Quarter
<1> QED
  BY <1>1, <1>2, <1>3 DEF GateInv

\* The inductive invariant holds however clock, callers and pollers interleave.
THEOREM GateInvariance == GateFairSpec => []GateInv
BY GateInitInv, GateInductive, PTL DEF GateFairSpec

\* As many multiples of f as fit below h.
LEMMA Multiples ==
    ASSUME NEW n \in Nat, NEW f \in Nat \ {0}, NEW h \in Nat, n * f <= h
    PROVE  n <= h \div f
<1> DEFINE q == h \div f
           r == h % f
<1>1. q \in Int /\ r \in 0 .. (f - 1) /\ h = f * q + r
  BY DivMod
<1> HIDE DEF q, r
<1>2. SUFFICES ASSUME n > q PROVE FALSE
  BY <1>1 DEF q
<1>3. f * (n - q) >= f
  BY <1>1, <1>2, MulBound
<1>4. f * (n - q) = f * n - f * q /\ f * n = n * f /\ f * q \in Int /\ f * n \in Int
  BY <1>1, MulDiff
<1> QED
  BY <1>1, <1>3, <1>4

\* The gate opens at most once per FREQ milliseconds of the clock, and once
\* more, however late the threads come with the times they took.
THEOREM RateIsLimited == GateFairSpec => []RateLimited
<1>1. ASSUME GateInv PROVE RateLimited
  <2>1. high \in Nat /\ opened \in Nat /\ FREQ \in Nat \ {0}
    BY <1>1, Widths DEF GateInv, IndInv, TypeOK, OpenInv
  <2>2. high \div FREQ \in Nat
    BY <2>1
  <2>3. CASE opened = 0
    BY <2>1, <2>2, <2>3 DEF RateLimited
  <2>4. CASE opened # 0
    <3>1. opened - 1 \in Nat /\ (opened - 1) * FREQ \in Nat
      BY <2>1, <2>4, OneMore
    <3>2. (opened - 1) * FREQ <= high
      BY <1>1, <2>1, <2>4, <3>1 DEF GateInv, OpenInv
    <3>3. opened - 1 <= high \div FREQ
      BY <2>1, <3>1, <3>2, Multiples
    <3> QED
      BY <2>1, <2>2, <3>3 DEF RateLimited
  <2> QED
    BY <2>3, <2>4
<1> QED
  BY <1>1, GateInvariance, PTL

\* The first time shown to a default() gate passes: from the sentinel the
\* difference neither falls short of FREQ nor overflows an i64.
THEOREM FirstPasses == GateFairSpec => []FirstPollPasses
<1>1. GateInv => FirstPollPasses
  BY DEF GateInv, OpenInv, FirstPollPasses
<1> QED
  BY <1>1, GateInvariance, PTL
=============================================================================
