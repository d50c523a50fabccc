----------------------------- MODULE MCPolling -----------------------------
(* Polling of PDUs with a device row, with two banks and no device row, and  *)
(* with one row that stands for the PDU; GETs of six OIDs, two to a poll.    *)
EXTENDS Polling

DeviceRow == [outlets |-> {<<1, 1>>}, rows |-> {<<1, 0>>, <<2, 1>>}]
TwoBanks  == [outlets |-> {<<2, 1>>}, rows |-> {<<1, 1>>, <<2, 2>>}]
OneBank   == [outlets |-> {<<1, 1>>}, rows |-> {<<1, 1>>}]
MCLayouts == {DeviceRow, TwoBanks, OneBank}
=============================================================================
