--------------------------- MODULE ReliableStream ---------------------------
(***************************************************************************)
(* What a mux session promises to the code above it (lockdown and AFC     *)
(* exchanges): a one-way stream of units, numbered as they are produced,   *)
(* that the reader takes in order, each once, in runs of any length. A run *)
(* for which the reader has no room loses its last units, never others.    *)
(***************************************************************************)
EXTENDS Integers, Sequences

CONSTANTS
    StreamLen,  \* bound on the units that are produced
    Rooms       \* the room that the reader may have for a run

VARIABLES
    produced,   \* how many units the writer has put in
    taken,      \* the units taken out, by number
    missed,     \* the places in taken that the reader had no room for
    up          \* the reader's end exists

vars == <<produced, taken, missed, up>>

Init == produced = 0 /\ taken = <<>> /\ missed = {} /\ up = TRUE

Produce ==
    /\ produced' \in (produced + 1)..StreamLen
    /\ UNCHANGED <<taken, missed, up>>

\* n more units are taken, of which the reader has room for the first r, or for
\* all of them
TakeRun ==
    /\ up
    /\ \E n \in 1..(produced - Len(taken)), r \in Rooms \cup {produced} :
          /\ taken' = taken \o [i \in 1..n |-> Len(taken) + i]
          /\ missed' = missed \cup {Len(taken) + i : i \in (r + 1)..n}
    /\ UNCHANGED <<produced, up>>

GoDown == up /\ up' = FALSE /\ UNCHANGED <<produced, taken, missed>>

Next == Produce \/ TakeRun \/ GoDown

Spec == Init /\ [][Next]_vars

FairSpec == Spec /\ WF_vars(TakeRun)
=============================================================================
