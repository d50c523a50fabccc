------------------------------ MODULE Polling ------------------------------
(***************************************************************************)
(* The polls of one coordinator, GET by GET (coordinator.py,               *)
(* _async_update_data; snmp.py, get), what the switches and sensors show   *)
(* of them, and the device's name in the registry.                         *)
(*                                                                         *)
(* A poll asks for some dozens of OIDs, ten at a time, while people rename *)
(* and switch outlets at the PDU and the load changes: no two GETs see the *)
(* PDU in the same state.  An OID is a pair of its column and the index of *)
(* an outlet or row.  A value names the OID it was read from and is a text *)
(* (0: blank), a state of an outlet (1: on, 2: off), or the n-th quantity  *)
(* of a metering column.                                                   *)
(***************************************************************************)
EXTENDS PduLayout, SequencesExt

CONSTANTS
    Layouts,       \* the layouts a PDU may have: records of outlets and rows
    MaxVarbinds,   \* SNMP_MAX_VARBINDS
    Changing,      \* bound: the columns whose values change
    MaxChanges, MaxTroubles, MaxReloads   \* bounds of the environment

ASSUME PollingAssumption ==
    /\ Layouts # {}
    /\ Layouts \subseteq [outlets : SUBSET (Nat \X Nat), rows : SUBSET (Nat \X Nat)]
    /\ \A l \in Layouts : Sound(l)
    /\ MaxVarbinds \in Nat \ {0}
    /\ {MaxChanges, MaxTroubles, MaxReloads} \subseteq Nat

VARIABLES
    layout,      \* coordinator.info
    pdu,         \* what the PDU would answer for each OID
    stage,       \* setup reads the identity; nothing is asked; a poll asks
    oids,        \* the OIDs that the poll asks for
    asked,       \* how many of them have been answered
    values,      \* values.get(oid) of the poll
    data,        \* coordinator.data
    available,   \* last_update_success
    deviceName,  \* coordinator.device_name
    registry,    \* the name of the device in the device registry
    seen,        \* what the PDU had at each OID since the poll began (a history)
    whole,       \* and whether every OID was answered (a history)
    changes, troubles, reloads   \* what the bounds count

envVars  == <<changes, troubles, reloads>>
pollVars == <<stage, oids, asked, values, seen, whole>>
shownVars == <<data, available, deviceName, registry>>
vars == <<layout, pdu, pollVars, shownVars, envVars>>

-----------------------------------------------------------------------------
(* OIDs and values.                                                         *)

NameOid == <<"name", 0>>
TotalColumns == {"current", "voltage", "power", "apparent", "pf", "energy"}
BankColumns  == {"current", "voltage", "power"}

Sorted(pairs) ==
    LET n == Cardinality(pairs) IN
    CHOOSE s \in [1 .. n -> pairs] : \A i, j \in 1 .. n : i < j => s[i][1] < s[j][1]

OutletOids(o) == << <<"state", o[1]>>, <<"label", o[1]>> >>

\* Apparent power, power factor and energy are asked of the total row only.
RowOids(r) ==
    << <<"current", r[1]>>, <<"voltage", r[1]>>, <<"power", r[1]>> >>
        \o IF r[2] \in TotalBank(layout.rows)
           THEN << <<"apparent", r[1]>>, <<"pf", r[1]>>, <<"energy", r[1]>> >>
           ELSE << >>

Requested ==
    LET outlets == Sorted(layout.outlets)  rows == Sorted(layout.rows) IN
    <<NameOid>>
        \o FlattenSeq([i \in DOMAIN outlets |-> OutletOids(outlets[i])])
        \o FlattenSeq([i \in DOMAIN rows |-> RowOids(rows[i])])

\* What this PDU can be asked for, and what it may answer.
OidsOf(l) ==
    {NameOid} \cup ({"state", "label"} \X {o[1] : o \in l.outlets})
              \cup (TotalColumns \X {r[1] : r \in l.rows})

Oids == DOMAIN pdu

Possible(oid) ==
    CASE oid[1] = "state" -> {1, 2}
      [] oid[1] \in {"name", "label"} -> {0, 1, 2}
      [] OTHER -> {0, 1}

Value(oid) == [oid |-> oid, at |-> pdu[oid]]
None == [oid |-> <<"none", 0>>, at |-> 0]

\* as_str(value) or a fallback: none, and blank, is no text.
Text(x, fallback) == IF x.at = 0 THEN fallback ELSE x

Default(column, i) == [oid |-> <<column, i>>, at |-> 0]
ModelName == Default("model", 0)     \* the system's name, or the model
NoDevice  == Default("no device", 0)

\* What a raw number counts: tenths, hundredths or units.
Divisor(column) ==
    CASE column \in {"current", "voltage", "energy"} -> 10
      [] column = "pf" -> 100
      [] OTHER -> 1

\* as_int(value), divided unless it is None.
Reading(column, x) == IF x = None THEN None
                      ELSE [oid |-> x.oid, at |-> x.at, over |-> Divisor(column)]

Nothing == [oid \in Oids |-> None]
Unseen  == [oid \in Oids |-> {}]

NoData == [states |-> << >>, names |-> << >>, banks |-> << >>]

Columns(bank) == IF bank \in TotalBank(layout.rows) THEN TotalColumns ELSE BankColumns

TypeOK ==
    /\ layout \in Layouts
    /\ pdu \in [OidsOf(layout) -> 0 .. 2]
    /\ stage \in {"identity", "idle", "asking"}
    /\ \A i \in DOMAIN oids : oids[i] \in Oids
    /\ asked \in 0 .. Len(oids)
    /\ stage = "asking" => asked < Len(oids)
    /\ DOMAIN values = Oids
    /\ \A oid \in Oids : values[oid] = None \/ values[oid].at \in 0 .. 2
    /\ data = NoData \/ /\ DOMAIN data.states = {o[1] : o \in layout.outlets}
                        /\ DOMAIN data.names = DOMAIN data.states
                        /\ DOMAIN data.banks = Banks(layout.rows)
    /\ available \in BOOLEAN
    /\ seen \in [Oids -> SUBSET (0 .. 2)]
    /\ whole \in BOOLEAN

\* The first setup, with the topology known (see Topology).
Init ==
    /\ layout \in Layouts
    /\ pdu = [oid \in OidsOf(layout) |-> 1]
    /\ stage = "identity" /\ oids = << >> /\ asked = 0 /\ values = Nothing
    /\ data = NoData /\ available = FALSE
    /\ deviceName = ModelName /\ registry = NoDevice
    /\ seen = Unseen /\ whole = FALSE
    /\ changes = 0 /\ troubles = 0 /\ reloads = 0

-----------------------------------------------------------------------------
(* The environment.                                                         *)

\* An outlet is switched or renamed, the device is renamed, a load changes.
Change(oid) ==
    /\ changes < MaxChanges /\ changes' = changes + 1
    /\ \E v \in Possible(oid) \ {pdu[oid]} : pdu' = [pdu EXCEPT ![oid] = v]
    /\ seen' = IF stage = "asking" THEN [seen EXCEPT ![oid] = @ \cup {pdu'[oid]}]
               ELSE seen
    /\ UNCHANGED <<layout, stage, oids, asked, values, whole, shownVars, troubles, reloads>>

Trouble == troubles < MaxTroubles /\ troubles' = troubles + 1

-----------------------------------------------------------------------------
(* Setup: the name of a new coordinator comes from the identity.            *)

ReadIdentity ==
    /\ stage = "identity"
    /\ deviceName' = Text(Value(NameOid), ModelName)
    /\ stage' = "idle"
    /\ UNCHANGED <<layout, pdu, oids, asked, values, seen, whole, data, available, registry,
                   envVars>>

\* A reload drops the coordinator and its data; the registry stays.
Reload ==
    /\ stage = "idle" /\ data # NoData
    /\ reloads < MaxReloads /\ reloads' = reloads + 1
    /\ stage' = "identity"
    /\ data' = NoData /\ available' = FALSE
    /\ UNCHANGED <<layout, pdu, oids, asked, values, seen, whole, deviceName, registry, changes,
                   troubles>>

-----------------------------------------------------------------------------
(* One poll.                                                                *)

StartPoll ==
    /\ stage = "idle"
    /\ stage' = "asking" /\ oids' = Requested /\ asked' = 0
    /\ values' = Nothing
    /\ seen' = [oid \in Oids |-> {pdu[oid]}] /\ whole' = TRUE
    /\ UNCHANGED <<layout, pdu, shownVars, envVars>>

\* The device registry is told of a new name if it has the device.
SyncNameUnregistered(name) == deviceName' = name /\ registry' = registry

SyncNameOfUnnamed(name) ==
    IF deviceName # ModelName THEN UNCHANGED <<deviceName, registry>>
    ELSE deviceName' = name /\ registry' = IF registry = NoDevice THEN registry ELSE name

SyncName(name) ==
    IF name = deviceName THEN UNCHANGED <<deviceName, registry>>
    ELSE deviceName' = name /\ registry' = IF registry = NoDevice THEN registry ELSE name

Measured(bank, row, vals) ==
    [c \in TotalColumns |->
        IF c \in Columns(bank) THEN Reading(c, vals[<<c, row>>]) ELSE None]

Snapshot(vals) ==
    [states |-> [i \in {o[1] : o \in layout.outlets} |-> vals[<<"state", i>>].at = 1],
     names |-> [i \in {o[1] : o \in layout.outlets} |->
                  Text(vals[<<"label", i>>], Default("Outlet", i))],
     banks |-> [b \in Banks(layout.rows) |->
                  Measured(b, (CHOOSE r \in layout.rows : r[2] = b)[1], vals)]]

\* The values of all OIDs are there.  After the first poll the entities are
\* added, with the device under its present name.
Publish(vals) ==
    /\ data' = Snapshot(vals)
    /\ available' = TRUE
    /\ IF data = NoData
       THEN /\ deviceName' = Text(vals[NameOid], deviceName)
            /\ registry' = deviceName'
       ELSE SyncName(Text(vals[NameOid], deviceName))

Lesser(a, b) == IF a <= b THEN a ELSE b

\* Where the next chunk of OIDs lies.
Chunk == asked + 1 .. Lesser(asked + MaxVarbinds, Len(oids))

\* What the chunk asked for and what was answered are put together in order:
\* the answer reaches to the n-th OID, and one of its values may be absent.
ZippedWithoutAbsent(n, gone) ==
    [oid \in Oids |->
        LET at == {i \in Chunk : i <= n /\ oids[i] = oid}
            from == {IF gone = 0 \/ i < gone THEN i ELSE i + 1 : i \in at} \cap Chunk IN
        IF at = {} THEN values[oid]
        ELSE IF from = {} THEN None ELSE Value(oids[CHOOSE i \in from : TRUE])]

Zipped(n, gone) ==
    [oid \in Oids |->
        LET at == {i \in Chunk : i <= n /\ oids[i] = oid} IN
        IF at = {} THEN values[oid] ELSE IF gone \in at THEN None ELSE Value(oid)]

\* The PDU answers a chunk in full, with a value absent, or cut short.
InFull == {Zipped(asked + MaxVarbinds, 0)}

InPart ==
    {Zipped(asked + MaxVarbinds, gone) : gone \in Chunk}
        \cup {Zipped(n, 0) : n \in asked .. asked + Cardinality(Chunk) - 1}

GetChunkPastEnd ==
    /\ stage = "asking" /\ asked + MaxVarbinds <= Len(oids)
    /\ \/ values' \in InFull /\ UNCHANGED <<whole, troubles>>
       \/ values' \in InPart /\ Trouble /\ whole' = FALSE
    /\ asked' = asked + MaxVarbinds
    /\ UNCHANGED <<layout, pdu, stage, oids, seen, shownVars, changes, reloads>>

GetChunk ==
    /\ stage = "asking" /\ asked + MaxVarbinds < Len(oids)
    /\ \/ values' \in InFull /\ UNCHANGED <<whole, troubles>>
       \/ values' \in InPart /\ Trouble /\ whole' = FALSE
    /\ asked' = asked + MaxVarbinds
    /\ UNCHANGED <<layout, pdu, stage, oids, seen, shownVars, changes, reloads>>

PollOver == oids' = << >> /\ asked' = 0 /\ values' = Nothing /\ seen' = Unseen

LastChunk ==
    /\ stage = "asking" /\ asked + MaxVarbinds >= Len(oids)
    /\ \/ (\E vals \in InFull : Publish(vals)) /\ UNCHANGED <<whole, troubles>>
       \/ (\E vals \in InPart : Publish(vals)) /\ Trouble /\ whole' = FALSE
    /\ stage' = "idle" /\ PollOver
    /\ UNCHANGED <<layout, pdu, changes, reloads>>

\* No answer, or an error status: the poll fails as a whole and the data of the
\* last one stay; without any, setup is not ready and starts again.
GetFails ==
    /\ stage = "asking"
    /\ Trouble
    /\ stage' = IF data = NoData THEN "identity" ELSE "idle"
    /\ available' = FALSE
    /\ whole' = FALSE /\ PollOver
    /\ UNCHANGED <<layout, pdu, data, deviceName, registry, changes, reloads>>

-----------------------------------------------------------------------------

Step == ReadIdentity \/ StartPoll \/ GetChunk \/ LastChunk

Next ==
    \/ Step
    \/ GetFails
    \/ Reload
    \/ \E oid \in {o \in Oids : o[1] \in Changing} : Change(oid)

\* Setup and polls go on.
Spec == Init /\ [][Next]_vars /\ WF_vars(Step)

-----------------------------------------------------------------------------
(* What the entities show.                                                  *)

Switches == {o[1] : o \in layout.outlets}

\* Total sensors for all six columns, bank sensors for power and current.
Sensors ==
    (TotalBank(layout.rows) \X TotalColumns)
        \cup (SensorBanks(layout.rows) \X {"power", "current"})

NativeValue(d, s) == d.banks[s[1]][s[2]]

RowOf(bank) == (CHOOSE r \in layout.rows : r[2] = bank)[1]

-----------------------------------------------------------------------------
(* Properties.                                                              *)

\* The quantity in the unit that the MIB gives the column (const.py: deci-amps,
\* deci-volts, percent, deci-kWh).
DeviceUnit == [current |-> 10, voltage |-> 10, power |-> 1,
               apparent |-> 1, pf |-> 100, energy |-> 10]

\* The PDU had this at some moment of the poll.
Had(oid, v) == oid \in Oids /\ v \in seen[oid]

TruthfulSwitch(d, full, i) ==
    /\ d.states[i] => Had(<<"state", i>>, 1)
    /\ ~d.states[i] => Had(<<"state", i>>, 2) \/ ~full
    /\ \/ d.names[i].oid = <<"label", i>> /\ Had(<<"label", i>>, d.names[i].at)
       \/ d.names[i] = Default("Outlet", i) /\ (Had(<<"label", i>>, 0) \/ ~full)

TruthfulSensor(d, full, s) ==
    LET shown == NativeValue(d, s) IN
    \/ /\ shown # None
       /\ shown.oid = <<s[2], RowOf(s[1])>> /\ shown.over = DeviceUnit[s[2]]
       /\ Had(shown.oid, shown.at)
    \/ shown = None /\ ~full

\* However the PDU changes during a poll, and whatever is missing from an
\* answer: all that a poll publishes is what the PDU had, in that place, while
\* the poll ran; only what was absent shows as off, as the outlet's number, or
\* as unknown.
PollsTruthful ==
    [][LastChunk => /\ \A i \in Switches : TruthfulSwitch(data', whole', i)
                    /\ \A s \in Sensors : TruthfulSensor(data', whole', s)]_vars

\* The registry has the device under the coordinator's name, through every
\* rename, failed poll and reload; a reloading one is told when it has polled.
RegistryNamed == data # NoData => registry = deviceName

Labelled(i, v) ==
    i \in Switches /\ data # NoData => data.names[i] = [oid |-> <<"label", i>>, at |-> v]

\* "Outlet labels (and the device name) are read every poll, so renaming ...
\* flows straight through" (README.md): names that stay come to be shown.
RenamesArrive ==
    \A v \in {1, 2} :
        /\ <>[](pdu[NameOid] = v) => <>[](registry = [oid |-> NameOid, at |-> v])
        /\ \A i \in UNION {{o[1] : o \in l.outlets} : l \in Layouts} :
              <>[](i \in Switches /\ pdu[<<"label", i>>] = v) => <>[]Labelled(i, v)
=============================================================================
