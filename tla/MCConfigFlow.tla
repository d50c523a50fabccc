-------------------------- MODULE MCConfigFlow --------------------------
(* ConfigFlow with two dialogs and two hosts, so that both dialogs may add  *)
(* one PDU, which may be reached at both hosts; p3 says not who it is.  An  *)
(* address has four bits, two of them in its last octet.                    *)
EXTENDS ConfigFlow

CONSTANTS f1, f2, p1, p2, p3

MCFlows == {f1, f2}
MCHosts == {5, 10}
MCPdus == {p1, p2, p3}
MCAnonymous == {p3}

\* 6/1 (1 .. 6), 10/3 (both addresses), 9-3 (9 .. 11); refused: 0/0 as too
\* large, and a range that ends before it starts.
MCTargets ==
    {[kind |-> "network", address |-> 6, prefix |-> 1],
     [kind |-> "network", address |-> 10, prefix |-> 3],
     [kind |-> "octets", address |-> 9, last |-> 3],
     [kind |-> "network", address |-> 0, prefix |-> 0],
     [kind |-> "range", address |-> 11, end |-> 9]}
=============================================================================
