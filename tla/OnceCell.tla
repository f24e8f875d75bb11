------------------------------- MODULE OnceCell -------------------------------
(***************************************************************************)
(* A lazily computed value that is settled at most once in the life of the *)
(* service that holds it.  Whoever asks during that life gets the one      *)
(* outcome, a value or a failure; only a new life may have another.        *)
(***************************************************************************)
CONSTANTS Cells, Callers, CellOf(_), Outcomes, None

VARIABLES cell,   \* cell[x]: the outcome x has settled on, or None
          out     \* out[c]: the last answer caller c got in this life, or None

vars == <<cell, out>>

Init ==
    /\ cell = [x \in Cells |-> None]
    /\ out = [c \in Callers |-> None]

\* Some cell settles on an outcome.
Settle(x, v) ==
    /\ cell[x] = None
    /\ cell' = [cell EXCEPT ![x] = v]
    /\ UNCHANGED out

\* A caller of a settled cell is answered.
Answer(c) ==
    /\ cell[CellOf(c)] # None
    /\ out' = [out EXCEPT ![c] = cell[CellOf(c)]]
    /\ UNCHANGED cell

\* The cells of S begin a new life; their callers are gone with the old one.
Restart(S) ==
    /\ cell' = [x \in Cells |-> IF x \in S THEN None ELSE cell[x]]
    /\ out' = [c \in Callers |-> IF CellOf(c) \in S THEN None ELSE out[c]]

Next ==
    \/ \E x \in Cells, v \in Outcomes : Settle(x, v)
    \/ \E c \in Callers : Answer(c)
    \/ \E S \in SUBSET Cells : Restart(S)

Spec == Init /\ [][Next]_vars
=============================================================================
