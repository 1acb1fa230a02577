---------------------------- MODULE BoundedFifo ----------------------------
(***************************************************************************)
(* A FIFO that keeps the most recent Size elements: adding to a full one   *)
(* pushes the oldest out.  It owns exactly the elements it holds.          *)
(***************************************************************************)
EXTENDS Integers, Sequences

CONSTANTS Size, Elements

VARIABLES
    window,  \* the elements, oldest first
    owned    \* the elements that are its to drop

absVars == <<window, owned>>

Init == window = <<>> /\ owned = {}

Add(o) ==
    LET full == Len(window) = Size
    IN  /\ o \notin owned
        /\ window' = IF full THEN Append(Tail(window), o) ELSE Append(window, o)
        /\ owned' = IF full THEN (owned \ {Head(window)}) \cup {o}
                            ELSE owned \cup {o}

Clear == window' = <<>> /\ owned' = {}

Next == Clear \/ \E o \in Elements : Add(o)

Spec == Init /\ [][Next]_absVars
=============================================================================
