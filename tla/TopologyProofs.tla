--------------------------- MODULE TopologyProofs ---------------------------
(***************************************************************************)
(* What TLAPS proves of Topology for any PDUs, tables and bounds: setups   *)
(* cut short, caches and PDUs that trade places never lead to a truncated  *)
(* set of outlets, to a coordinator that differs from what is stored, or   *)
(* to the loss of an entity.                                               *)
(***************************************************************************)
EXTENDS Topology, FiniteSetTheorems, TLAPS

\* A walk of outlets and all that comes after it has an identity.
AfterIdentity == Stages \ {"identity", "retry"}

\* A walk goes upwards: the last row read has the greatest index.
LastRow == walked # {} => \E r \in walked : \A q \in walked : q[1] <= r[1]

\* While the host is only ever the owner's, nobody else is asked.
OwnHost ==
    swaps = 0 => /\ at \in {owner, Nobody}
                 /\ ident \in {owner, Nobody}

Identified == stage \in AfterIdentity => ident # Nobody

\* What is walked at the owner's is part of the owner's table, and nothing that
\* is kept of it lacks an outlet.
Walked ==
    swaps = 0 => /\ stage = "outlets" => walked \subseteq OutletTable[owner]
                 /\ stage = "rows" => outlets \subseteq OutletTable[owner]

Whole(layout) == layout.outlets = OutletTable[owner]

KeptWhole ==
    swaps = 0 /\ OutletCount[owner] # 0 =>
        /\ stage \in {"save", "first", "loaded"} => Whole(info)
        /\ cache # Unread => Whole(cache)

\* What is stored is what the setup has come to.
Stored ==
    /\ stage \in {"save", "first", "loaded"} => info.serial = SerialOf(ident)
    /\ stage \in {"first", "loaded"} /\ SerialOf(ident) # Nobody => cache = info
    /\ stage = "save" => SerialOf(ident) # Nobody

\* The owner's tables are walked only until they are stored, and no entity is
\* registered before.
Remembered ==
    swaps = 0 /\ owner \in WithSerial =>
        /\ cache # Unread => cache.serial = owner
        /\ stage \in {"outlets", "rows", "save"} => cache = Unread
        /\ known # {} => cache # Unread /\ known \subseteq Entities(owner, cache)

TypeAndBound == TypeOK /\ swaps \in Nat

LayoutInv ==
    /\ TypeAndBound /\ LastRow
    /\ OwnHost /\ Identified
    /\ Walked /\ KeptWhole
    /\ Stored
    /\ Remembered

-----------------------------------------------------------------------------

LEMMA OwnersAreSomebody == ASSUME TypeOK PROVE owner # Nobody /\ owner \in Pdus
  BY TopologyAssumption DEF TypeOK

LEMMA SerialOfType ==
    ASSUME NEW p \in Pdus
    PROVE  SerialOf(p) \in Pdus \cup {Nobody} /\ (p \in WithSerial <=> SerialOf(p) # Nobody)
                                              /\ (SerialOf(p) # Nobody => SerialOf(p) = p)
  BY TopologyAssumption DEF SerialOf

\* A walk that the guards let pass, of a PDU that reports its number of
\* outlets, has read them all.
LEMMA CountedIsWhole ==
    ASSUME NEW p \in Pdus, NEW read, read \subseteq OutletTable[p],
           OutletCount[p] # 0, Cardinality(read) = OutletCount[p]
    PROVE  read = OutletTable[p]
<1>1. IsFiniteSet(OutletTable[p]) /\ OutletCount[p] = Cardinality(OutletTable[p])
  BY TopologyAssumption
<1> QED
  BY <1>1, FS_Subset

LEMMA LoadRowsRemain ==
    ASSUME TypeOK, LastRow, walked # {}
    PROVE  LoadRows(walked) \in SUBSET Pairs /\ LoadRows(walked) # {}
<1>1. PICK r \in walked : \A q \in walked : q[1] <= r[1]
  BY DEF LastRow
<1>2. r \in LoadRows(walked)
  BY <1>1 DEF LoadRows
<1>3. LoadRows(walked) \subseteq walked /\ walked \in SUBSET Pairs
  BY DEF LoadRows, TypeOK
<1> QED
  BY <1>2, <1>3

LEMMA LayoutInvInit == Init => LayoutInv
<1> SUFFICES ASSUME Init PROVE LayoutInv
  OBVIOUS
<1>1. TypeAndBound
  <2>1. Unread \in Layouts
    BY DEF Unread, Layouts, Pairs
  <2> QED
    BY <2>1 DEF TypeAndBound, TypeOK, Init, Stages
<1>2. LastRow /\ OwnHost /\ Identified /\ Walked /\ KeptWhole /\ Stored /\ Remembered
  BY DEF Init, LastRow, OwnHost, Identified, AfterIdentity, Walked, KeptWhole, Stored, Remembered
<1> QED
  BY <1>1, <1>2 DEF LayoutInv

-----------------------------------------------------------------------------

\* Nothing but the host changes: another PDU there is counted.
LEMMA ReplaceKeeps ==
    ASSUME LayoutInv, NEW q \in Pdus \cup {Nobody}, Replace(q)
    PROVE  LayoutInv'
<1> USE DEF LayoutInv, setupVars
<1>1. TypeAndBound'
  BY DEF TypeAndBound, TypeOK, Replace
<1>2. swaps' = 0 => swaps = 0 /\ q \in {owner, Nobody}
  BY DEF Replace, TypeAndBound
<1>3. OwnHost' /\ Identified' /\ LastRow'
  BY <1>2 DEF Replace, OwnHost, Identified, LastRow
<1>4. Walked' /\ KeptWhole' /\ Stored' /\ Remembered'
  BY <1>2 DEF Replace, Walked, KeptWhole, Whole, Stored, Remembered
<1> QED
  BY <1>1, <1>3, <1>4

LEMMA ReadIdentityKeeps ==
    ASSUME LayoutInv, ReadIdentity
    PROVE  LayoutInv'
<1> USE DEF LayoutInv, envVars
<1>1. owner \in Pdus /\ owner # Nobody /\ at \in Pdus /\ at # Nobody
  BY OwnersAreSomebody DEF TypeAndBound, TypeOK, ReadIdentity
<1>2. CASE Cached(at)
  <2>1. /\ stage' = "first" /\ ident' = at /\ info' = cache
        /\ walked' = {} /\ outlets' = {}
        /\ UNCHANGED <<owner, at, cache, known, short, swaps, losses, restarts>>
        /\ cache # Unread /\ cache.serial = SerialOf(at) /\ SerialOf(at) # Nobody
    BY <1>2 DEF ReadIdentity, Cached
  <2>2. TypeAndBound'
    BY <2>1, <1>1 DEF TypeAndBound, TypeOK, Stages
  <2>3. LastRow' /\ OwnHost' /\ Identified' /\ Walked'
    BY <2>1, <1>1 DEF OwnHost, Identified, Walked, LastRow
  <2>4. KeptWhole' /\ Remembered'
    BY <2>1 DEF KeptWhole, Whole, Remembered
  <2>5. Stored'
    BY <2>1 DEF Stored, SerialOf
  <2> QED
    BY <2>2, <2>3, <2>4, <2>5
<1>3. CASE ~Cached(at)
  <2>1. /\ stage' = "outlets" /\ ident' = at /\ info' = info
        /\ walked' = {} /\ outlets' = {}
        /\ UNCHANGED <<owner, at, cache, known, short, swaps, losses, restarts>>
    BY <1>3 DEF ReadIdentity
  <2>2. TypeAndBound'
    BY <2>1, <1>1 DEF TypeAndBound, TypeOK, Stages
  <2>3. LastRow' /\ OwnHost' /\ Identified' /\ Walked'
    BY <2>1, <1>1 DEF OwnHost, Identified, Walked, LastRow
  <2>4. KeptWhole' /\ Stored'
    BY <2>1 DEF KeptWhole, Whole, Stored
  <2>5. swaps = 0 /\ owner \in WithSerial => cache = Unread
    BY <1>1, <1>3, SerialOfType DEF Cached, Remembered, OwnHost
  <2>6. Remembered'
    BY <2>1, <2>5 DEF Remembered, Entities
  <2> QED
    BY <2>2, <2>3, <2>4, <2>6
<1> QED
  BY <1>2, <1>3

LEMMA WalkRowKeeps ==
    ASSUME LayoutInv, WalkRow
    PROVE  LayoutInv'
<1> USE DEF LayoutInv, envVars
<1>1. owner \in Pdus /\ owner # Nobody /\ at \in Pdus
  BY OwnersAreSomebody DEF TypeAndBound, TypeOK, WalkRow
<1>2. PICK r \in Ahead : walked' = walked \cup {r}
  BY DEF WalkRow
<1>3. /\ stage \in {"outlets", "rows"} /\ at # Nobody
      /\ UNCHANGED <<owner, at, stage, ident, outlets, info, cache, known, swaps>>
  BY DEF WalkRow
<1>4. /\ r \in Table /\ Table \subseteq Pairs
      /\ \A q \in walked : q[1] < r[1]
  BY <1>1, TopologyAssumption DEF Ahead, Table, Pairs
<1>5. TypeAndBound'
  BY <1>2, <1>3, <1>4 DEF TypeAndBound, TypeOK
<1>6. LastRow'
  <2>1. r \in Pairs /\ walked \subseteq Pairs
    BY <1>4 DEF TypeAndBound, TypeOK
  <2>2. \A q \in Pairs : q[1] \in Nat
    BY DEF Pairs
  <2>3. \A q \in walked' : q[1] <= r[1]
    BY <1>2, <1>4, <2>1, <2>2
  <2> QED
    BY <1>2, <2>3 DEF LastRow
<1>7. OwnHost' /\ Identified' /\ KeptWhole' /\ Stored' /\ Remembered'
  BY <1>3 DEF OwnHost, Identified, KeptWhole, Whole, Stored, Remembered
<1>8. Walked'
  BY <1>1, <1>2, <1>3, <1>4 DEF Walked, Table, OwnHost
<1> QED
  BY <1>5, <1>6, <1>7, <1>8

LEMMA OutletsReadKeeps ==
    ASSUME LayoutInv, OutletsRead
    PROVE  LayoutInv'
<1> USE DEF LayoutInv
<1>1. /\ stage = "outlets" /\ stage' = "rows" /\ outlets' = walked /\ walked' = {}
      /\ UNCHANGED <<owner, at, ident, info, cache, known, swaps>>
  BY DEF OutletsRead
<1>2. TypeAndBound'
  BY <1>1 DEF TypeAndBound, TypeOK, Stages
<1>3. LastRow' /\ OwnHost' /\ Identified' /\ Walked'
  BY <1>1 DEF LastRow, OwnHost, Identified, AfterIdentity, Stages, Walked
<1>4. KeptWhole' /\ Stored' /\ Remembered'
  BY <1>1 DEF KeptWhole, Whole, Stored, Remembered
<1> QED
  BY <1>2, <1>3, <1>4

LEMMA RowsReadKeeps ==
    ASSUME LayoutInv, RowsRead
    PROVE  LayoutInv'
<1> USE DEF LayoutInv
<1>1. /\ stage = "rows" /\ walked' = {}
      /\ UNCHANGED <<owner, at, ident, outlets, cache, known, swaps>>
      /\ ident \in Pdus /\ ident # Nobody /\ owner \in Pdus
  BY OwnersAreSomebody DEF RowsRead, Identified, AfterIdentity, Stages, TypeAndBound, TypeOK
<1>2. CASE Incomplete
  <2>1. stage' = "retry" /\ info' = info
    BY <1>2 DEF RowsRead
  <2>2. TypeAndBound'
    BY <1>1, <2>1 DEF TypeAndBound, TypeOK, Stages
  <2>3. LastRow' /\ OwnHost' /\ Identified' /\ Walked'
    BY <1>1, <2>1 DEF LastRow, OwnHost, Identified, AfterIdentity, Walked
  <2>4. KeptWhole' /\ Stored' /\ Remembered'
    BY <1>1, <2>1 DEF KeptWhole, Whole, Stored, Remembered
  <2> QED
    BY <2>2, <2>3, <2>4
<1>3. CASE ~Incomplete
  <2>1. /\ stage' = IF SerialOf(ident) # Nobody THEN "save" ELSE "first"
        /\ info' = [serial |-> SerialOf(ident), outlets |-> outlets,
                    rows |-> LoadRows(walked)]
    BY <1>3 DEF RowsRead
  <2>2. outlets # {} /\ walked # {}
    BY <1>3 DEF Incomplete
  <2>3. LoadRows(walked) \in SUBSET Pairs /\ LoadRows(walked) # {}
    BY <2>2, LoadRowsRemain DEF TypeAndBound
  <2>4. info' \in Layouts /\ info'.outlets = outlets /\ info'.rows # {}
        /\ info'.serial = SerialOf(ident)
    BY <1>1, <2>1, <2>3, SerialOfType DEF Layouts, TypeAndBound, TypeOK
  <2>5. TypeAndBound'
    BY <1>1, <2>1, <2>2, <2>4 DEF TypeAndBound, TypeOK, Stages
  <2>6. LastRow' /\ OwnHost' /\ Identified' /\ Walked'
    BY <1>1, <2>1 DEF LastRow, OwnHost, Identified, Walked
  <2>7. swaps = 0 /\ OutletCount[owner] # 0 => outlets = OutletTable[owner]
    BY <1>1, <1>3, CountedIsWhole DEF Incomplete, OwnHost, Walked
  <2>8. KeptWhole'
    BY <1>1, <2>1, <2>4, <2>7 DEF KeptWhole, Whole
  <2>9. SerialOf(ident)' = SerialOf(ident)
    BY <1>1 DEF SerialOf
  <2>10. Stored'
    BY <2>1, <2>4, <2>9 DEF Stored
  <2>11. Remembered'
    BY <1>1, <2>1 DEF Remembered
  <2> QED
    BY <2>5, <2>6, <2>8, <2>10, <2>11
<1> QED
  BY <1>2, <1>3

LEMMA SaveKeeps ==
    ASSUME LayoutInv, Save
    PROVE  LayoutInv'
<1> USE DEF LayoutInv, envVars
<1>1. /\ stage = "save" /\ stage' = "first" /\ cache' = info
      /\ UNCHANGED <<owner, at, ident, walked, outlets, info, known, swaps>>
  BY DEF Save
<1>2. TypeAndBound'
  BY <1>1 DEF TypeAndBound, TypeOK, Stages
<1>3. LastRow' /\ OwnHost' /\ Identified' /\ Walked' /\ KeptWhole'
  BY <1>1 DEF LastRow, OwnHost, Identified, AfterIdentity, Stages, Walked, KeptWhole, Whole
<1>4. Stored'
  BY <1>1 DEF Stored, SerialOf
<1>5. Remembered'
  <2>1. SUFFICES ASSUME swaps = 0, owner \in WithSerial
                 PROVE  info.serial = owner /\ known = {}
    BY <1>1 DEF Remembered
  <2>2. ident = owner
    BY <1>1, <2>1 DEF OwnHost, Identified, AfterIdentity, Stages
  <2>3. owner \in Pdus
    BY DEF TypeAndBound, TypeOK
  <2> QED
    BY <1>1, <2>1, <2>2, <2>3, SerialOfType DEF Stored, Remembered
<1> QED
  BY <1>2, <1>3, <1>4, <1>5

LEMMA FirstPollKeeps ==
    ASSUME LayoutInv, FirstPoll
    PROVE  LayoutInv'
<1> USE DEF LayoutInv, envVars
<1>1. /\ stage = "first" /\ stage' = "loaded"
      /\ known' = known \cup Entities(ident, info)
      /\ UNCHANGED <<owner, at, ident, walked, outlets, info, cache, swaps>>
      /\ ident \in Pdus
  BY DEF FirstPoll, Identified, AfterIdentity, Stages, TypeAndBound, TypeOK
<1>2. TypeAndBound'
  <2>1. info.outlets \subseteq Pairs /\ info.rows \subseteq Pairs
    BY DEF TypeAndBound, TypeOK, Layouts
  <2>2. {o[1] : o \in info.outlets} \subseteq Nat /\ Banks(info.rows) \subseteq Nat
    BY <2>1 DEF Pairs, Banks
  <2>3. TotalBank(info.rows) \subseteq Nat /\ SensorBanks(info.rows) \subseteq Nat
    BY <2>2 DEF TotalBank, SensorBanks, BankIds
  <2>4. Entities(ident, info) \subseteq Pdus \X {"outlet", "total", "bank"} \X Nat
    BY <1>1, <2>2, <2>3 DEF Entities
  <2> QED
    BY <1>1, <2>4 DEF TypeAndBound, TypeOK, Stages
<1>3. LastRow' /\ OwnHost' /\ Identified' /\ Walked' /\ KeptWhole'
  BY <1>1 DEF LastRow, OwnHost, Identified, AfterIdentity, Stages, Walked, KeptWhole, Whole
<1>4. Stored'
  BY <1>1 DEF Stored, SerialOf
<1>5. Remembered'
  <2>1. SUFFICES ASSUME swaps = 0, owner \in WithSerial
                 PROVE  /\ cache # Unread => cache.serial = owner
                        /\ cache # Unread /\ known' \subseteq Entities(owner, cache)
    BY <1>1 DEF Remembered, Entities
  <2>2. ident = owner
    BY <1>1, <2>1 DEF OwnHost, Identified, AfterIdentity, Stages
  <2>3. cache = info /\ info.outlets # {}
    BY <1>1, <2>1, <2>2, SerialOfType DEF Stored, TypeAndBound, TypeOK
  <2>4. cache # Unread
    BY <2>3 DEF Unread
  <2> QED
    BY <1>1, <2>1, <2>2, <2>3, <2>4 DEF Remembered
<1> QED
  BY <1>2, <1>3, <1>4, <1>5

LEMMA NotReadyKeeps ==
    ASSUME LayoutInv, NotReady
    PROVE  LayoutInv'
<1> USE DEF LayoutInv
<1>1. /\ stage' = "retry"
      /\ UNCHANGED <<owner, at, ident, walked, outlets, info, cache, known, swaps>>
  BY DEF NotReady
<1>2. TypeAndBound'
  BY <1>1 DEF TypeAndBound, TypeOK, Stages
<1>3. LastRow' /\ OwnHost' /\ Identified' /\ Walked' /\ KeptWhole'
  BY <1>1 DEF LastRow, OwnHost, Identified, AfterIdentity, Walked, KeptWhole, Whole
<1>4. Stored' /\ Remembered'
  BY <1>1 DEF Stored, Remembered
<1> QED
  BY <1>2, <1>3, <1>4

LEMMA BeginKeeps ==
    ASSUME LayoutInv, Begin
    PROVE  LayoutInv'
<1> USE DEF LayoutInv
<1>1. /\ stage' = "identity" /\ ident' = Nobody
      /\ walked' = {} /\ outlets' = {} /\ info' = Unread
      /\ UNCHANGED <<owner, at, cache, known, swaps>>
  BY DEF Begin
<1>2. TypeAndBound'
  <2>1. Unread \in Layouts
    BY DEF Unread, Layouts, Pairs
  <2> QED
    BY <1>1, <2>1 DEF TypeAndBound, TypeOK, Stages
<1>3. LastRow' /\ OwnHost' /\ Identified' /\ Walked' /\ KeptWhole'
  BY <1>1 DEF LastRow, OwnHost, Identified, AfterIdentity, Walked, KeptWhole, Whole
<1>4. Stored' /\ Remembered'
  BY <1>1 DEF Stored, Remembered
<1> QED
  BY <1>2, <1>3, <1>4

LEMMA LayoutInvStep == LayoutInv /\ [Next]_vars => LayoutInv'
<1> SUFFICES ASSUME LayoutInv, [Next]_vars PROVE LayoutInv'
  OBVIOUS
<1>1. CASE Setup
  BY <1>1, ReadIdentityKeeps, WalkRowKeeps, OutletsReadKeeps, RowsReadKeeps, SaveKeeps,
     FirstPollKeeps, NotReadyKeeps, BeginKeeps DEF Setup, SetupAgain
<1>2. CASE Reload \/ Restart
  BY <1>2, BeginKeeps DEF Reload, Restart
<1>3. ASSUME NEW q \in Pdus \cup {Nobody}, Replace(q) PROVE LayoutInv'
  BY <1>3, ReplaceKeeps
<1>4. CASE UNCHANGED vars
  <2>1. UNCHANGED <<owner, at, stage, ident, walked, outlets, info, cache, known, swaps>>
    BY <1>4 DEF vars, setupVars, envVars
  <2>2. TypeAndBound' /\ LastRow' /\ OwnHost' /\ Identified'
    BY <2>1 DEF LayoutInv, TypeAndBound, TypeOK, LastRow, OwnHost, Identified
  <2>3. Walked' /\ KeptWhole' /\ Stored' /\ Remembered'
    BY <2>1 DEF LayoutInv, Walked, KeptWhole, Whole, Stored, Remembered
  <2> QED
    BY <2>2, <2>3 DEF LayoutInv
<1> QED
  BY <1>1, <1>2, <1>3, <1>4 DEF Next

THEOREM LayoutInvHolds == Spec => []LayoutInv
  BY LayoutInvInit, LayoutInvStep, PTL DEF Spec

-----------------------------------------------------------------------------
(* What follows from it.                                                    *)

\* Whatever setups read, store and drop has its type, and a coordinator never
\* comes without outlets or metering rows (coordinator.py, _async_topology).
THEOREM LayoutTypes == Spec => []TypeOK
<1>1. LayoutInv => TypeOK
  BY DEF LayoutInv, TypeAndBound
<1> QED
  BY <1>1, LayoutInvHolds, PTL

\* Walks that end early never truncate the outlets of a PDU that reports their
\* number (coordinator.py, the guard of _async_topology).
THEOREM OutletsNeverTruncated == Spec => []OutletsWhole
<1>1. LayoutInv => OutletsWhole
  BY DEF LayoutInv, KeptWhole, Whole, OutletsWhole, SetUp
<1> QED
  BY <1>1, LayoutInvHolds, PTL

\* What a coordinator works with is what the next setup will find in the store
\* (coordinator.py, _async_topology).
THEOREM StoredInUse == Spec => []CacheInUse
<1>1. LayoutInv => CacheInUse
  BY DEF LayoutInv, Stored, CacheInUse, SetUp
<1> QED
  BY <1>1, LayoutInvHolds, PTL

\* No reload, failed setup or restart costs an entity (README.md: "Reloads
\* never re-derive (and never drop) your existing entities").
THEOREM NoEntityLost == Spec => []EntitiesKept
<1>1. LayoutInv => EntitiesKept
  <2> SUFFICES ASSUME LayoutInv, stage = "loaded", swaps = 0, owner \in WithSerial
               PROVE  known \subseteq Entities(ident, info)
    BY DEF EntitiesKept
  <2>1. ident = owner /\ owner \in Pdus
    BY DEF LayoutInv, OwnHost, Identified, AfterIdentity, Stages, TypeAndBound, TypeOK
  <2>2. cache = info
    BY <2>1, SerialOfType DEF LayoutInv, Stored
  <2> QED
    BY <2>1, <2>2 DEF LayoutInv, Remembered
<1> QED
  BY <1>1, LayoutInvHolds, PTL

-----------------------------------------------------------------------------
(* What polls rely on.                                                      *)

\* Every walk reads a table, and what is used or stored was made of two.
TablesInv ==
    /\ IsTable(walked) /\ IsTable(outlets)
    /\ \A layout \in {info, cache} : layout # Unread => Sound(layout)

LEMMA EmptyTable == IsTable({})
  BY FS_EmptySet DEF IsTable

\* A row that is read lies behind all others.
LEMMA TableGrows ==
    ASSUME NEW table, IsTable(table), table \subseteq Pairs,
           NEW r \in Pairs, \A q \in table : q[1] < r[1]
    PROVE  IsTable(table \cup {r})
<1>1. IsFiniteSet(table \cup {r})
  BY FS_AddElement DEF IsTable
<1>2. \A q \in Pairs : q[1] \in Nat
  BY DEF Pairs
<1>3. \A q \in table : q[1] # r[1]
  BY <1>2
<1> QED
  BY <1>1, <1>3 DEF IsTable

\* Of the rows of a walk those stay that are the last of their bank.
LEMMA LoadRowsSettle ==
    ASSUME NEW w, IsTable(w)
    PROVE  IsTable(LoadRows(w)) /\ LoadRows(LoadRows(w)) = LoadRows(w)
<1>1. LoadRows(w) \subseteq w
  BY DEF LoadRows
<1>2. IsTable(LoadRows(w))
  BY <1>1, FS_Subset DEF IsTable
<1>3. LoadRows(LoadRows(w)) = LoadRows(w)
  BY DEF LoadRows
<1> QED
  BY <1>2, <1>3

LEMMA TablesInvStep == LayoutInv /\ TablesInv /\ [Next]_vars => TablesInv'
<1> SUFFICES ASSUME LayoutInv, TablesInv, [Next]_vars PROVE TablesInv'
  OBVIOUS
<1> USE DEF TablesInv, envVars, setupVars
<1>1. CASE ReadIdentity
  BY <1>1, EmptyTable DEF ReadIdentity
<1>2. CASE WalkRow
  <2>1. PICK r \in Ahead : walked' = walked \cup {r}
    BY <1>2 DEF WalkRow
  <2>2. at \in Pdus /\ walked \subseteq Pairs
    BY <1>2 DEF WalkRow, LayoutInv, TypeAndBound, TypeOK
  <2>3. r \in Pairs /\ \A q \in walked : q[1] < r[1]
    BY <2>2, TopologyAssumption DEF Ahead, Table, Pairs
  <2>4. IsTable(walked')
    BY <2>1, <2>2, <2>3, TableGrows
  <2> QED
    BY <1>2, <2>4 DEF WalkRow
<1>3. CASE OutletsRead
  BY <1>3, EmptyTable DEF OutletsRead
<1>4. CASE RowsRead
  <2>1. walked' = {} /\ UNCHANGED <<outlets, cache>>
    BY <1>4 DEF RowsRead
  <2>2. CASE info' = info
    BY <2>1, <2>2, EmptyTable
  <2>3. CASE ~Incomplete
    <3>1. info' = [serial |-> SerialOf(ident), outlets |-> outlets, rows |-> LoadRows(walked)]
      BY <1>4, <2>3 DEF RowsRead
    <3>2. walked # {} /\ TypeOK /\ LastRow
      BY <2>3 DEF Incomplete, LayoutInv, TypeAndBound
    <3>3. LoadRows(walked) # {}
      BY <3>2, LoadRowsRemain
    <3>4. IsTable(LoadRows(walked)) /\ LoadRows(LoadRows(walked)) = LoadRows(walked)
      BY LoadRowsSettle
    <3>5. Sound(info')
      BY <3>1, <3>3, <3>4 DEF Sound
    <3> QED
      BY <2>1, <3>5, EmptyTable
  <2> QED
    BY <1>4, <2>2, <2>3 DEF RowsRead
<1>5. CASE Save
  BY <1>5 DEF Save
<1>6. CASE FirstPoll \/ NotReady
  BY <1>6 DEF FirstPoll, NotReady
<1>7. CASE Begin
  BY <1>7, EmptyTable DEF Begin
<1>8. ASSUME NEW q \in Pdus \cup {Nobody}, Replace(q) PROVE TablesInv'
  BY <1>8 DEF Replace
<1>9. CASE UNCHANGED vars
  BY <1>9 DEF vars
<1> QED
  BY <1>1, <1>2, <1>3, <1>4, <1>5, <1>6, <1>7, <1>8, <1>9
     DEF Next, Setup, SetupAgain, Reload, Restart

\* What a setup hands to the polls, read now or stored earlier, has the layout
\* that Polling takes for granted of it: one row of an index, one row of a bank,
\* something to meter (coordinator.py, _async_topology), however often walks
\* were cut short and PDUs traded places.
THEOREM LayoutsFitPolls == Spec => [](SetUp => Sound(info))
<1>1. Init => TablesInv
  BY EmptyTable DEF Init, TablesInv
<1>2. LayoutInv /\ TablesInv => (SetUp => Sound(info))
  BY DEF LayoutInv, TypeAndBound, TypeOK, TablesInv, SetUp, Unread
<1> QED
  BY <1>1, <1>2, TablesInvStep, LayoutInvHolds, PTL DEF Spec
=============================================================================
