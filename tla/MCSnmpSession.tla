-------------------------- MODULE MCSnmpSession --------------------------
(* SnmpSession with four callers, one of which unloading cancels.          *)
EXTENDS SnmpSession

CONSTANTS poll, c1, c2, c3

MCCallers == {poll, c1, c2, c3}
MCBackground == {poll}
=============================================================================
