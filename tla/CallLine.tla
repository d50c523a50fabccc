------------------------------ MODULE CallLine ------------------------------
(***************************************************************************)
(* What a session promises those who share it, without engines, targets,   *)
(* exchanges or retries: one call at a time is inside, the others wait in  *)
(* the order in which they came, and closing calls off only those that     *)
(* the entry's unloading cancels.                                          *)
(***************************************************************************)
CONSTANTS
    Callers,
    Background   \* those that closing calls off

VARIABLES
    inside,    \* whose call is served: one at most
    waiting,   \* who waits
    before     \* before[c]: those of them who came before c

lineVars == <<inside, waiting, before>>

Init ==
    /\ inside = {}
    /\ waiting = {}
    /\ before = [c \in waiting |-> {}]

\* Nobody is there: served at once.
Enter(c) ==
    /\ inside = {} /\ waiting = {}
    /\ inside' = {c}
    /\ UNCHANGED <<waiting, before>>

Join(c) ==
    /\ c \notin inside \cup waiting
    /\ inside \cup waiting # {}
    /\ waiting' = waiting \cup {c}
    /\ before' = [d \in waiting' |-> IF d = c THEN waiting ELSE before[d]]
    /\ UNCHANGED inside

Serve(c) ==
    /\ c \in waiting
    /\ inside = {} /\ before[c] = {}
    /\ inside' = {c}
    /\ waiting' = waiting \ {c}
    /\ before' = [d \in waiting' |-> before[d] \ {c}]

End(c) ==
    /\ inside = {c}
    /\ inside' = {}
    /\ UNCHANGED <<waiting, before>>

CallOff ==
    /\ inside' = inside \ Background
    /\ waiting' = waiting \ Background
    /\ before' = [d \in waiting' |-> before[d] \ Background]

Next ==
    \/ \E c \in Callers : Enter(c) \/ Join(c) \/ Serve(c) \/ End(c)
    \/ CallOff

Spec == Init /\ [][Next]_lineVars
=============================================================================
