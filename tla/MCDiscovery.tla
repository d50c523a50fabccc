--------------------------- MODULE MCDiscovery ---------------------------
(* Discovery with three addresses on two engines, so that two probes share  *)
(* one; p1 reports no serial number, p3 neither serial nor MAC.             *)
EXTENDS Discovery

CONSTANTS h1, h2, h3, p1, p2, p3

MCHosts == {h1, h2, h3}
MCPdus == {p1, p2, p3}
MCWithSerial == {p2}
MCWithMac == {p1, p2}
=============================================================================
