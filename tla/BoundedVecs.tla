---------------------------- MODULE BoundedVecs ----------------------------
(***************************************************************************)
(* What the users of Buf and of ArrayVec may rely on: named vectors of     *)
(* fixed size whose contents are exactly what was written since they were  *)
(* created, with no trace of memory, of earlier tenants or of the pool.    *)
(* An operation that does not fit changes nothing and says so.             *)
(***************************************************************************)
EXTENDS Integers, Sequences

CONSTANT Names

VARIABLES
    size,  \* the capacity of each vector, 0 while it does not exist
    text,  \* its contents
    out    \* what the last operation reported

Copies(n, v) == [i \in 1 .. n |-> v]

Refused(reason) == out' = reason /\ UNCHANGED <<size, text>>

Create(b, c, s) ==
    /\ size[b] = 0 /\ c > 0 /\ Len(s) <= c
    /\ size' = [size EXCEPT ![b] = c]
    /\ text' = [text EXCEPT ![b] = s]
    /\ out' = "ok"

CreateAtLeast(b, c, s) == size'[b] >= c /\ Create(b, size'[b], s)

Destroy(b) ==
    /\ size[b] # 0
    /\ size' = [size EXCEPT ![b] = 0]
    /\ text' = [text EXCEPT ![b] = <<>>]
    /\ out' = "ok"

Become(b, s) ==
    /\ size[b] # 0
    /\ text' = [text EXCEPT ![b] = s]
    /\ out' = "ok"
    /\ UNCHANGED size

\* All of s, or nothing.
Extend(b, s) ==
    IF Len(text[b]) + Len(s) <= size[b] THEN Become(b, text[b] \o s)
                                        ELSE Refused("full")

Resize(b, n, v) ==
    IF n > size[b] THEN Refused("panic")
    ELSE Become(b, IF n <= Len(text[b]) THEN SubSeq(text[b], 1, n)
                   ELSE text[b] \o Copies(n - Len(text[b]), v))

Reset(b, n, v) == IF n > size[b] THEN Refused("panic") ELSE Become(b, Copies(n, v))

\* The n elements from position i on are copied to position j on; all of them
\* are read before any is written.
Move(b, i, n, j) ==
    IF i + n > Len(text[b]) \/ j + n > Len(text[b]) THEN Refused("panic")
    ELSE Become(b, [k \in 1 .. Len(text[b]) |->
                      IF k \in j + 1 .. j + n THEN text[b][k - j + i] ELSE text[b][k]])

Put(b, i, v) ==
    IF i >= Len(text[b]) THEN Refused("panic")
    ELSE Become(b, [text[b] EXCEPT ![i + 1] = v])
=============================================================================
