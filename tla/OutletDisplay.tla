--------------------------- MODULE OutletDisplay ---------------------------
(***************************************************************************)
(* What the switches of an entry promise, without session, polls, timers   *)
(* or debouncer: each outlet has a version, which every SET carried out    *)
(* for a caller moves on, and a display, which is only ever brought up to  *)
(* the version the outlet has at that moment.                              *)
(***************************************************************************)
EXTENDS Naturals

CONSTANT Outlets

VARIABLES
    version,   \* the SETs carried out on each outlet
    display    \* the version that is shown

displayVars == <<version, display>>

Init ==
    /\ version = [o \in Outlets |-> 0]
    /\ display = version

Switch(o) ==
    /\ version' = [version EXCEPT ![o] = @ + 1]
    /\ UNCHANGED display

\* A poll, or the optimistic write after a command: some outlets are shown
\* as they are.
Refresh(read) ==
    /\ display' = [o \in Outlets |-> IF o \in read THEN version[o] ELSE display[o]]
    /\ UNCHANGED version

Next ==
    \/ \E o \in Outlets : Switch(o)
    \/ \E read \in SUBSET Outlets : Refresh(read)

Spec == Init /\ [][Next]_displayVars

=============================================================================
