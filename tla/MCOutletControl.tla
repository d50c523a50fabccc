------------------------- MODULE MCOutletControl -------------------------
(* OutletControl with two outlets that a poll reads in different chunks.    *)
EXTENDS OutletControl, TLC

CONSTANTS poll, debounced, c1, c2, o1, o2

MCOutlets == {o1, o2}
MCChunk == o1 :> 1 @@ o2 :> 2
MCBackground == {poll}
MCTwoCommands == {poll, debounced, c1, c2}
=============================================================================
