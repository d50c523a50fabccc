--------------------------- MODULE MCTopology ---------------------------
(* Topology with a PDU of two banks that reports serial and outlet count,   *)
(* one of a single bank that reports neither, and one with a serial only.   *)
EXTENDS Topology, TLC

CONSTANTS p1, p2, p3

MCPdus == {p1, p2, p3}
MCWithSerial == {p1, p3}
MCOutletTable ==
    p1 :> {<<1, 1>>, <<2, 2>>} @@ p2 :> {<<1, 1>>} @@ p3 :> {<<1, 1>>, <<2, 1>>}
MCLoadTable ==
    p1 :> {<<1, 0>>, <<2, 1>>, <<3, 2>>} @@ p2 :> {<<1, 1>>}
        @@ p3 :> {<<1, 1>>, <<2, 2>>}
MCOutletCount == p1 :> 2 @@ p2 :> 0 @@ p3 :> 0
=============================================================================
