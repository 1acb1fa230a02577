----------------------------- MODULE GatedClock -----------------------------
(***************************************************************************)
(* One IntervalGate (gate.rs) that several threads share under a lock of   *)
(* the program's: each computes gate.gate(ms_monotonic()), so the time is  *)
(* taken before the gate is, and may be old when the gate sees it.         *)
(***************************************************************************)
EXTENDS MonotonicClock

CONSTANTS
    Pollers,    \* the threads that share the gate; the others only ask the time
    FREQ,       \* the const parameter of the type, in milliseconds
    I64Values,  \* the number of values of an i64
    InitialTs   \* arguments of IntervalGate::new

ASSUME GateAssumption ==
    /\ Pollers \subseteq Threads
    /\ I64Values \in Nat /\ I64Values % 4 = 0
    /\ FREQ \in 1 .. (I64Values \div 4)
    /\ InitialTs \subseteq 0 .. (I64Values \div 4)
    /\ MaxNow \div TicksPerMs < I64Values \div 4   \* fewer than 2^62 ms

VARIABLES
    gate,    \* the i64 in the IntervalGate
    due,     \* threads that have the time and not yet the gate
    opened,  \* how often the gate has returned true
    polled   \* the gate has been asked

gateVars == <<gate, due, opened, polled>>

\* i64::MIN / 2
NEVER_HAPPENED_TICKS_Min == -(I64Values \div 2)
NEVER_HAPPENED_TICKS == -(I64Values \div 4)

\* Subtraction in a build without overflow checks.
Minus(x, y) ==
    LET half == I64Values \div 2
    IN  ((x - y + half) % I64Values) - half

GateInit ==
    /\ Init
    /\ gate \in {NEVER_HAPPENED_TICKS} \cup InitialTs
    /\ due = {}
    /\ opened = 0
    /\ polled = FALSE

\* gate(time)
Passes(time) == Minus(time, gate) >= FREQ

Stored_Never(time) == gate
Stored(time) == IF Passes(time) THEN time ELSE gate

Poll(t) ==
    /\ t \in due
    /\ due' = due \ {t}
    /\ gate' = Stored(ret[t])
    /\ opened' = IF Passes(ret[t]) THEN opened + 1 ELSE opened
    /\ polled' = TRUE
    /\ UNCHANGED vars

\* A poller that has been given the time asks the gate before anything else.
ClockStep(t) ==
    /\ Step(t)
    /\ due' = IF t \in Pollers /\ pc'[t] = "idle" THEN due \cup {t} ELSE due
    /\ UNCHANGED <<gate, opened, polled>>

GateNext ==
    \/ Tick /\ UNCHANGED gateVars
    \/ \E t \in Threads \ due : Call(t) /\ UNCHANGED gateVars
    \/ \E t \in Threads : ClockStep(t) \/ Poll(t)

GateFairSpec ==
    /\ GateInit
    /\ [][GateNext]_<<vars, gateVars>>
    /\ \A t \in Threads : WF_<<vars, gateVars>>(ClockStep(t) \/ Poll(t))

-----------------------------------------------------------------------------
\* However late the threads come with the times they took, the gate lets no
\* more through than one per FREQ milliseconds of the clock, and one more.
RateLimited == opened <= 1 + high \div FREQ

\* The first time ever shown to a default() gate passes, whatever it is: the
\* sentinel is far enough from every clock value and near enough for the
\* difference to fit an i64.
FirstPollPasses == polled => gate # NEVER_HAPPENED_TICKS
=============================================================================
