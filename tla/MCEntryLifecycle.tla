------------------------ MODULE MCEntryLifecycle ------------------------
(* EntryLifecycle with two or three addresses and the intervals at which   *)
(* the backoff takes its courses: 15, 30, 60 s; at once 60.                *)
EXTENDS EntryLifecycle

CONSTANTS a1, a2, a3

MCAddresses == {a1, a2}
MCThreeAddresses == {a1, a2, a3}
MCScanned == {a1, a2}
MCIntervals == {15, 60}
MCNames == {a1}
MCNoNames == {}
=============================================================================
