------------------------------ MODULE Topology ------------------------------
(***************************************************************************)
(* What a setup of the entry learns about the PDU (coordinator.py,         *)
(* async_setup and _async_topology), what is stored of it, and the         *)
(* entities made from it (sensor.py, switch.py).                           *)
(*                                                                         *)
(* The identity is read in one exchange and both tables are walked row by  *)
(* row, so the PDU at the entry's host may go off, come back, or be        *)
(* another PDU between two of them; a PDU that boots may end a table       *)
(* early.  A table is a set of pairs: outlet index and bank, or load row   *)
(* and bank id.  Serial numbers and MACs are unique: the PDU itself stands *)
(* for either.                                                             *)
(***************************************************************************)
EXTENDS PduLayout

CONSTANTS
    Pdus,
    Nobody,        \* no PDU answers; also: a PDU without a serial, no cache
    WithSerial,    \* the PDUs that report a serial number
    OutletTable,   \* OutletTable[p]: its outlets
    LoadTable,     \* LoadTable[p]: its metering rows
    OutletCount,   \* OutletCount[p]: the number it reports, or 0 for none
    MaxShort, MaxSwaps, MaxLosses, MaxRestarts   \* bounds of the environment

ASSUME TopologyAssumption ==
    /\ Nobody \notin Pdus
    /\ WithSerial \subseteq Pdus
    /\ \A p \in Pdus :
          /\ OutletTable[p] \subseteq Nat \X Nat /\ OutletTable[p] # {}
          /\ LoadTable[p] \subseteq Nat \X Nat /\ LoadTable[p] # {}
          /\ IsFiniteSet(OutletTable[p]) /\ IsFiniteSet(LoadTable[p])
          /\ OutletCount[p] \in {0, Cardinality(OutletTable[p])}
    /\ {MaxShort, MaxSwaps, MaxLosses, MaxRestarts} \subseteq Nat

VARIABLES
    owner,    \* the PDU whose identity is the entry's unique id
    at,       \* the PDU at the entry's host
    stage,    \* where the setup has come to
    ident,    \* the PDU that answered the identity GET of this setup
    walked,   \* the rows read by the current walk
    outlets,  \* what the first walk of this setup read
    info,     \* coordinator.info: serial, outlets, load_rows
    cache,    \* the stored topology
    known,    \* the entities in the registry
    short, swaps, losses, restarts    \* what the bounds count

setupVars == <<stage, ident, walked, outlets, info>>
envVars   == <<short, swaps, losses, restarts>>
vars == <<owner, at, setupVars, cache, known, envVars>>

SerialOf(p) == IF p \in WithSerial THEN p ELSE Nobody

Pairs == Nat \X Nat
Layouts == [serial : Pdus \cup {Nobody}, outlets : SUBSET Pairs, rows : SUBSET Pairs]
Unread == [serial |-> Nobody, outlets |-> {}, rows |-> {}]

Stages == {"identity", "outlets", "rows", "save", "first", "loaded", "retry"}

\* What is kept of a setup or of a topology has outlets and metering rows.
TypeOK ==
    /\ owner \in Pdus
    /\ at \in Pdus \cup {Nobody}
    /\ stage \in Stages
    /\ ident \in Pdus \cup {Nobody}
    /\ walked \in SUBSET Pairs
    /\ outlets \in SUBSET Pairs
    /\ info \in Layouts
    /\ stage \in {"save", "first", "loaded"} => info.outlets # {} /\ info.rows # {}
    /\ cache \in Layouts
    /\ cache # Unread => cache.outlets # {} /\ cache.rows # {}
    /\ known \in SUBSET (Pdus \X {"outlet", "total", "bank"} \X Nat)

\* The first setup of an entry that was just made for the PDU at its host.
Init ==
    /\ owner \in Pdus /\ at = owner
    /\ stage = "identity" /\ ident = Nobody /\ walked = {} /\ outlets = {}
    /\ info = Unread /\ cache = Unread /\ known = {}
    /\ short = 0 /\ swaps = 0 /\ losses = 0 /\ restarts = 0

-----------------------------------------------------------------------------
(* The entities of a layout.                                                *)

\* Unique ids: the device's identity, then the outlet's index or the bank id.
Entities(p, layout) ==
    ({p} \X {"outlet"} \X {o[1] : o \in layout.outlets})
        \cup ({p} \X {"total"} \X TotalBank(layout.rows))
        \cup ({p} \X {"bank"} \X SensorBanks(layout.rows))

-----------------------------------------------------------------------------
(* The environment.                                                         *)

\* The PDU goes off or on again, or another one gets the entry's host.
Replace(q) ==
    /\ q # at
    /\ at' = q
    /\ IF q \in {owner, Nobody} /\ at \in {owner, Nobody}
       THEN swaps' = swaps
       ELSE swaps < MaxSwaps /\ swaps' = swaps + 1
    /\ UNCHANGED <<owner, setupVars, cache, known, short, losses, restarts>>

-----------------------------------------------------------------------------
(* async_setup and _async_topology.                                         *)

CachedAnyway(p) == cache # Unread
NeverCached(p) == FALSE
Cached(p) == cache # Unread /\ SerialOf(p) # Nobody /\ cache.serial = SerialOf(p)

ReadIdentity ==
    /\ stage = "identity" /\ at # Nobody
    /\ ident' = at
    /\ walked' = {} /\ outlets' = {}
    /\ IF Cached(at) THEN stage' = "first" /\ info' = cache
                     ELSE stage' = "outlets" /\ info' = info
    /\ UNCHANGED <<owner, at, cache, known, envVars>>

\* The rows of the walked table that come after those already read.
Table == IF stage = "outlets" THEN OutletTable[at] ELSE LoadTable[at]
Ahead == {r \in Table : \A q \in walked : q[1] < r[1]}

WalkRow ==
    /\ stage \in {"outlets", "rows"} /\ at # Nobody
    /\ \E r \in Ahead :
          /\ \A q \in Ahead : r[1] <= q[1]
          /\ walked' = walked \cup {r}
    /\ UNCHANGED <<owner, at, stage, ident, outlets, info, cache, known, envVars>>

\* The walk ends at the end of the table, or earlier.
WalkOver ==
    /\ at # Nobody
    /\ \/ Ahead = {} /\ short' = short
       \/ Ahead # {} /\ short < MaxShort /\ short' = short + 1

OutletsRead ==
    /\ stage = "outlets"
    /\ WalkOver
    /\ stage' = "rows"
    /\ outlets' = walked
    /\ walked' = {}
    /\ UNCHANGED <<owner, at, ident, info, cache, known, swaps, losses, restarts>>

IncompleteOnlyWhenEmpty == outlets = {} \/ walked = {}
IncompleteUncounted ==
    outlets = {} \/ Cardinality(outlets) # OutletCount[ident] \/ walked = {}
IncompleteOutlets ==
    outlets = {} \/ (OutletCount[ident] # 0 /\ Cardinality(outlets) # OutletCount[ident])

\* The guards after the walks: not ready without outlets, with a number of
\* outlets other than the one reported, or without a metering row.
Incomplete ==
    \/ outlets = {}
    \/ OutletCount[ident] # 0 /\ Cardinality(outlets) # OutletCount[ident]
    \/ walked = {}

RowsRead ==
    /\ stage = "rows"
    /\ WalkOver
    /\ IF Incomplete
       THEN stage' = "retry" /\ info' = info
       ELSE /\ stage' = IF SerialOf(ident) # Nobody THEN "save" ELSE "first"
            /\ info' = [serial |-> SerialOf(ident), outlets |-> outlets,
                        rows |-> LoadRows(walked)]
    /\ walked' = {}
    /\ UNCHANGED <<owner, at, ident, outlets, cache, known, swaps, losses, restarts>>

\* Home Assistant may stop before the store is written.
Save ==
    /\ stage = "save"
    /\ cache' = info
    /\ stage' = "first"
    /\ UNCHANGED <<owner, at, ident, walked, outlets, info, known, envVars>>

\* The first poll succeeds and the platforms add their entities.
FirstPoll ==
    /\ stage = "first" /\ at # Nobody
    /\ stage' = "loaded"
    /\ known' = known \cup Entities(ident, info)
    /\ UNCHANGED <<owner, at, ident, walked, outlets, info, cache, envVars>>

\* Nobody answers, or the answer is lost: ConfigEntryNotReady.
NotReady ==
    /\ stage \in {"identity", "outlets", "rows", "first"}
    /\ \/ at = Nobody /\ losses' = losses
       \/ at # Nobody /\ losses < MaxLosses /\ losses' = losses + 1
    /\ stage' = "retry"
    /\ UNCHANGED <<owner, at, ident, walked, outlets, info, cache, known, short,
                   swaps, restarts>>

\* A new coordinator.
Begin ==
    /\ stage' = "identity" /\ ident' = Nobody
    /\ walked' = {} /\ outlets' = {} /\ info' = Unread
    /\ UNCHANGED <<owner, at, cache, known, short, swaps, losses>>

SetupAgain == stage = "retry" /\ Begin /\ UNCHANGED restarts

Reload == stage = "loaded" /\ Begin /\ UNCHANGED restarts

Restart == restarts < MaxRestarts /\ restarts' = restarts + 1 /\ Begin

-----------------------------------------------------------------------------

Setup ==
    \/ ReadIdentity \/ WalkRow \/ OutletsRead \/ RowsRead
    \/ Save \/ FirstPoll \/ NotReady \/ SetupAgain

Next ==
    \/ Setup
    \/ Reload \/ Restart
    \/ \E q \in Pdus \cup {Nobody} : Replace(q)

\* Home Assistant goes on with a setup and retries one that was not ready.
Spec == Init /\ [][Next]_vars /\ WF_vars(Setup)

-----------------------------------------------------------------------------
(* Properties.                                                              *)

SetUp == stage \in {"first", "loaded"}

\* However the walks are cut short and retried, a PDU that reports its number
\* of outlets is set up with all of them (coordinator.py:278).
OutletsWhole ==
    SetUp /\ swaps = 0 /\ OutletCount[owner] # 0 => info.outlets = OutletTable[owner]

\* A coordinator of a PDU with a serial number uses exactly what is stored, so
\* that the next setup comes to the same layout, whatever PDUs came between.
CacheInUse ==
    SetUp /\ SerialOf(ident) # Nobody => cache = info /\ info.serial = SerialOf(ident)

\* "Reloads never re-derive (and never drop) your existing entities"
\* (README.md): while its host is only ever its own, a loaded entry provides
\* every entity that it has ever registered.
EntitiesKept ==
    stage = "loaded" /\ swaps = 0 /\ owner \in WithSerial => known \subseteq Entities(ident, info)

\* Setup is done again until a PDU that stays at the host has been set up.
SetupCompletes == <>[](at = owner) => []<>(stage = "loaded")

\* What coordinator.py:278 claims of partial walks ("so we never create a
\* truncated entity set"), of the metering rows.
SensorsWhole ==
    SetUp /\ swaps = 0 => info.rows = LoadRows(LoadTable[owner])

\* What README.md:111 claims ("identifies each PDU by its serial number ...
\* never by IP"): a loaded entry serves the PDU it was made for.
OwnPdu == stage = "loaded" => ident = owner
=============================================================================
