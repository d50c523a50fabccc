--------------------------- MODULE PollingProofs ---------------------------
(***************************************************************************)
(* What TLAPS proves of Polling for any layouts, chunk sizes and bounds:   *)
(* the device registry and the coordinator never part; and what a poll     *)
(* publishes for a switch or a sensor is what the PDU had in that place    *)
(* while the poll ran.                                                     *)
(*                                                                         *)
(* For the second, the list of OIDs has to be known: it is sorted and      *)
(* flattened, and the lemmas say that nothing gets lost in that.           *)
(***************************************************************************)
EXTENDS Polling, FiniteSetTheorems, NumberLemmas

\* A setup that still reads the identity has no data; a coordinator is never
\* named like a device that is not there.
FreshWithoutData == stage = "identity" => data = NoData
Named == deviceName # NoDevice

NameInv == RegistryNamed /\ FreshWithoutData /\ Named

LEMMA NamesDiffer == ModelName # NoDevice
  BY DEF ModelName, NoDevice, Default

LEMMA TextIsName ==
    ASSUME NEW x, NEW fallback, fallback # NoDevice
    PROVE  Text(x, fallback) # NoDevice
<1>1. NoDevice.at = 0
  BY DEF NoDevice, Default
<1> QED
  BY <1>1 DEF Text

LEMMA NameInvInit == Init => NameInv
  BY NamesDiffer DEF Init, NameInv, RegistryNamed, FreshWithoutData, Named

\* Publishing leaves the registry with the coordinator's name, whatever has
\* been answered.
LEMMA PublishNames ==
    ASSUME NameInv, NEW vals, Publish(vals)
    PROVE  registry' = deviceName' /\ Named'
<1> DEFINE name == Text(vals[NameOid], deviceName)
<1>1. name # NoDevice
  BY TextIsName DEF NameInv, Named
<1> HIDE DEF name
<1>2. CASE data = NoData
  BY <1>1, <1>2 DEF Publish, Named, name
<1>3. CASE data # NoData
  <2>1. registry = deviceName /\ deviceName # NoDevice
    BY <1>3 DEF NameInv, RegistryNamed, Named
  <2>2. SyncName(name)
    BY <1>3 DEF Publish, name
  <2> QED
    BY <1>1, <2>1, <2>2 DEF SyncName, Named
<1> QED
  BY <1>2, <1>3

LEMMA NameInvStep == NameInv /\ [Next]_vars => NameInv'
<1> SUFFICES ASSUME NameInv, [Next]_vars PROVE NameInv'
  OBVIOUS
<1> USE DEF NameInv, RegistryNamed, FreshWithoutData, Named, shownVars, pollVars
<1>1. CASE ReadIdentity
  <2>1. data = NoData
    BY <1>1 DEF ReadIdentity
  <2>2. deviceName' # NoDevice
    BY <1>1, NamesDiffer, TextIsName DEF ReadIdentity
  <2> QED
    BY <1>1, <2>1, <2>2 DEF ReadIdentity
<1>2. CASE StartPoll
  BY <1>2 DEF StartPoll
<1>3. CASE GetChunk
  BY <1>3 DEF GetChunk
<1>4. CASE LastChunk
  <2>1. stage' = "idle" /\ \E vals : Publish(vals)
    BY <1>4 DEF LastChunk
  <2> QED
    BY <2>1, PublishNames
<1>5. CASE GetFails
  BY <1>5 DEF GetFails
<1>6. CASE Reload
  BY <1>6 DEF Reload
<1>7. ASSUME NEW oid \in Oids, Change(oid) PROVE NameInv'
  BY <1>7 DEF Change
<1>8. CASE UNCHANGED vars
  BY <1>8 DEF vars
<1> QED
  BY <1>1, <1>2, <1>3, <1>4, <1>5, <1>6, <1>7, <1>8 DEF Next, Step

\* The device registry has the name that the coordinator has (coordinator.py,
\* _async_sync_device_name), through all renames, failed polls and reloads.
THEOREM RegistryFollowsName == Spec => []RegistryNamed
<1>1. NameInv => RegistryNamed
  BY DEF NameInv
<1> QED
  BY <1>1, NameInvInit, NameInvStep, PTL DEF Spec

-----------------------------------------------------------------------------
(* Sequences.                                                               *)

\* What is appended to a sequence, and where.
LEMMA Appended ==
    ASSUME NEW S, NEW s \in Seq(S), NEW t \in Seq(S)
    PROVE  /\ s \o t \in Seq(S) /\ Len(s \o t) = Len(s) + Len(t)
           /\ \A i \in 1 .. Len(s) : i \in 1 .. Len(s \o t) /\ (s \o t)[i] = s[i]
           /\ \A i \in 1 .. Len(t) : /\ Len(s) + i \in 1 .. Len(s \o t)
                                     /\ (s \o t)[Len(s) + i] = t[i]
  OBVIOUS

\* FlattenSeq goes through its sequences one by one.
LEMMA FlattenDefined ==
    ASSUME NEW S, NEW ss \in Seq(Seq(S)), ss # << >>
    PROVE  \E f \in [1 .. Len(ss) -> Seq(S)] :
              /\ f[1] = ss[1]
              /\ \A i \in 2 .. Len(ss) : f[i] = f[i - 1] \o ss[i]
              /\ FlattenSeq(ss) = f[Len(ss)]
<1> DEFINE n == Len(ss)
           step == [p \in Nat \X Seq(S) |->
                       IF p[1] + 2 <= n THEN p[2] \o ss[p[1] + 2] ELSE p[2]]
           Goes(f) == f = [i \in 1 .. n |-> IF i = 1 THEN ss[i] ELSE f[i - 1] \o ss[i]]
           flatten == CHOOSE f : Goes(f)
<1>1. n \in Nat \ {0} /\ \A i \in 1 .. n : ss[i] \in Seq(S)
  OBVIOUS
<1>2. FlattenSeq(ss) = flatten[n]
  BY <1>1 DEF FlattenSeq
<1>3. step \in [Nat \X Seq(S) -> Seq(S)]
  <2>1. ASSUME NEW p \in Nat \X Seq(S), p[1] + 2 <= n PROVE p[2] \o ss[p[1] + 2] \in Seq(S)
    <3>1. p[2] \in Seq(S) /\ ss[p[1] + 2] \in Seq(S)
      BY <1>1, <2>1
    <3> QED
      BY <3>1, Appended
  <2> HIDE DEF n
  <2> QED
    BY <2>1
<1>4. PICK g \in [Nat -> Seq(S)] : Iterates(g, ss[1], step)
  <2> HIDE DEF step, n
  <2> DEFINE Q == Seq(S)
  <2>1. ss[1] \in Q /\ step \in [Nat \X Q -> Q]
    BY <1>1, <1>3
  <2>2. \E f \in [Nat -> Q] : Iterates(f, ss[1], step)
    <3> HIDE DEF Q
    <3> QED
      BY <2>1, InductiveFunction
  <2> QED
    BY <2>2
<1> DEFINE f == [i \in 1 .. n |-> g[i - 1]]
<1>5. f \in [1 .. n -> Seq(S)] /\ f[1] = ss[1]
  <2> HIDE DEF n, step
  <2>1. \A i \in 1 .. n : i - 1 \in Nat
    BY <1>1
  <2>2. g[0] = ss[1] /\ f[1] = g[1 - 1] /\ 1 - 1 = 0
    BY <1>1, <1>4 DEF Iterates
  <2> QED
    BY <2>1, <2>2
<1>6. ASSUME NEW i \in 2 .. n PROVE f[i] = f[i - 1] \o ss[i]
  <2> DEFINE k == i - 2
  <2>1. k \in Nat /\ k + 2 = i /\ k + 2 <= n /\ i - 1 = k + 1 /\ (i - 1) - 1 = k
    BY <1>1
  <2>2. g[k + 1] = step[<<k, g[k]>>] /\ g[k] \in Seq(S)
    BY <1>4, <2>1 DEF Iterates
  <2>3. step[<<k, g[k]>>] = g[k] \o ss[i]
    <3> HIDE DEF k, n
    <3> QED
      BY <2>1, <2>2
  <2>4. f[i] = g[k + 1] /\ f[i - 1] = g[k]
    BY <1>1, <2>1
  <2> QED
    BY <2>2, <2>3, <2>4
<1>7. Goes(f)
  <2> HIDE DEF f, n
  <2>1. ASSUME NEW i \in 1 .. n
        PROVE  f[i] = IF i = 1 THEN ss[i] ELSE f[i - 1] \o ss[i]
    <3>1. i # 1 => i \in 2 .. n
      BY <1>1
    <3> QED
      BY <1>5, <1>6, <3>1
  <2>2. f = [i \in 1 .. n |-> f[i]]
    BY <1>5
  <2> QED
    BY <2>1, <2>2
<1>8. Goes(flatten)
  <2> HIDE DEF f, Goes
  <2> QED
    BY <1>7
<1>9. \A i \in 1 .. n : flatten[i] = f[i]
  <2> DEFINE T == {j \in Nat : j + 1 <= n => flatten[j + 1] = f[j + 1]}
  <2>1. flatten[1] = ss[1] /\ \A i \in 2 .. n : flatten[i] = flatten[i - 1] \o ss[i]
    <3> HIDE DEF flatten, n
    <3>1. flatten = [i \in 1 .. n |-> IF i = 1 THEN ss[i] ELSE flatten[i - 1] \o ss[i]]
      BY <1>8
    <3> HIDE DEF Goes
    <3>2. 1 \in 1 .. n /\ \A i \in 2 .. n : i \in 1 .. n /\ i # 1
      BY <1>1
    <3>3. ASSUME NEW i \in 1 .. n
          PROVE  flatten[i] = IF i = 1 THEN ss[i] ELSE flatten[i - 1] \o ss[i]
      BY <3>1, Zenon
    <3> QED
      BY <3>2, <3>3
  <2> HIDE DEF f, flatten, n
  <2>2. 0 \in T
    BY <1>5, <2>1
  <2>3. ASSUME NEW j \in Nat, j \in T PROVE j + 1 \in T
    <3> SUFFICES ASSUME (j + 1) + 1 <= n PROVE flatten[(j + 1) + 1] = f[(j + 1) + 1]
      OBVIOUS
    <3> DEFINE i == (j + 1) + 1
    <3>1. i \in 2 .. n /\ i - 1 = j + 1 /\ j + 1 <= n
      BY <1>1
    <3>2. flatten[i - 1] = f[i - 1]
      BY <2>3, <3>1
    <3> HIDE DEF i
    <3>3. flatten[i] = f[i]
      BY <1>6, <2>1, <3>1, <3>2
    <3> QED
      BY <3>3 DEF i
  <2>4. \A j \in Nat : j \in T
    <3> HIDE DEF T
    <3> QED
      BY <2>2, <2>3, SetInduction
  <2>5. ASSUME NEW i \in 1 .. n PROVE flatten[i] = f[i]
    <3>1. i - 1 \in Nat /\ (i - 1) + 1 = i /\ i <= n
      BY <1>1
    <3>2. i - 1 \in T
      BY <2>4, <3>1
    <3> QED
      BY <3>1, <3>2
  <2> QED
    BY <2>5
<1>10. FlattenSeq(ss) = f[n]
  <2>1. n \in 1 .. n
    BY <1>1
  <2> HIDE DEF f, flatten, n
  <2>2. flatten[n] = f[n]
    BY <1>9, <2>1, Zenon
  <2> QED
    BY <1>2, <2>2, Zenon
<1> HIDE DEF f
<1> QED
  BY <1>5, <1>6, <1>10

Has(s, x) == \E k \in 1 .. Len(s) : s[k] = x

LEMMA AppendedHas ==
    ASSUME NEW S, NEW s \in Seq(S), NEW t \in Seq(S), NEW x, Has(s, x) \/ Has(t, x)
    PROVE  Has(s \o t, x)
<1>1. CASE Has(s, x)
  BY <1>1, Appended DEF Has
<1>2. CASE Has(t, x)
  <2>1. PICK k \in 1 .. Len(t) : t[k] = x
    BY <1>2 DEF Has
  <2>2. Len(s) + k \in 1 .. Len(s \o t) /\ (s \o t)[Len(s) + k] = x
    BY <2>1, Appended
  <2> QED
    BY <2>2 DEF Has
<1> QED
  BY <1>1, <1>2

\* A flattened sequence has all members of its sequences.
LEMMA FlattenMembers ==
    ASSUME NEW S, NEW ss \in Seq(Seq(S))
    PROVE  /\ FlattenSeq(ss) \in Seq(S)
           /\ \A i \in 1 .. Len(ss) : \A x : Has(ss[i], x) => Has(FlattenSeq(ss), x)
<1>1. CASE ss = << >>
  <2>1. FlattenSeq(ss) = << >> /\ 1 .. Len(ss) = {}
    BY <1>1 DEF FlattenSeq
  <2>2. << >> \in Seq(S)
    OBVIOUS
  <2>3. FlattenSeq(ss) \in Seq(S)
    BY <2>1, <2>2, Zenon
  <2> QED
    BY <2>1, <2>3
<1>2. CASE ss # << >>
  <2> DEFINE n == Len(ss)
  <2>1. n \in Nat \ {0} /\ \A i \in 1 .. n : ss[i] \in Seq(S)
    BY <1>2
  <2>2. PICK f \in [1 .. n -> Seq(S)] :
             /\ f[1] = ss[1]
             /\ \A i \in 2 .. n : f[i] = f[i - 1] \o ss[i]
             /\ FlattenSeq(ss) = f[n]
    BY <1>2, FlattenDefined
  <2> DEFINE Through(m) == \A i \in 1 .. m : \A x : Has(ss[i], x) => Has(f[m], x)
             T == {m \in Nat : m + 1 <= n => Through(m + 1)}
  <2>3. 0 \in T
    <3>1. \A i \in 1 .. 0 + 1 : i = 1
      OBVIOUS
    <3>2. Through(0 + 1)
      BY <2>2, <3>1
    <3> QED
      BY <3>2
  <2>4. ASSUME NEW m \in Nat, m \in T PROVE m + 1 \in T
    <3> SUFFICES ASSUME (m + 1) + 1 <= n PROVE Through((m + 1) + 1)
      OBVIOUS
    <3> DEFINE k == (m + 1) + 1
    <3>1. k \in 2 .. n /\ k \in 1 .. n /\ k - 1 \in 1 .. n /\ k - 1 = m + 1 /\ m + 1 <= n
      BY <2>1
    <3>2. Through(k - 1)
      BY <2>4, <3>1
    <3> HIDE DEF k, n
    <3>3. f[k] = f[k - 1] \o ss[k] /\ f[k - 1] \in Seq(S) /\ ss[k] \in Seq(S)
      BY <2>1, <2>2, <3>1
    <3>4. ASSUME NEW i \in 1 .. k, NEW x, Has(ss[i], x) PROVE Has(f[k], x)
      <4>1. CASE i = k
        BY <3>3, <3>4, <4>1, AppendedHas
      <4>2. CASE i # k
        <5>1. i \in 1 .. k - 1
          BY <3>1, <4>2
        <5>2. Has(f[k - 1], x)
          BY <3>2, <3>4, <5>1
        <5> QED
          BY <3>3, <5>2, AppendedHas
      <4> QED
        BY <4>1, <4>2
    <3>5. Through(k)
      BY <3>4
    <3> HIDE DEF Through
    <3> QED
      BY <3>5 DEF k
  <2>5. \A m \in Nat : m \in T
    <3> HIDE DEF T
    <3> QED
      BY <2>3, <2>4, SetInduction
  <2>6. Through(n)
    <3>1. n - 1 \in Nat /\ (n - 1) + 1 = n
      BY <2>1
    <3> HIDE DEF n, Through
    <3>2. n - 1 \in T
      BY <2>5, <3>1
    <3> QED
      BY <3>1, <3>2
  <2>7. FlattenSeq(ss) \in Seq(S)
    <3> HIDE DEF n
    <3> QED
      BY <2>1, <2>2
  <2> QED
    BY <2>2, <2>6, <2>7
<1> QED
  BY <1>1, <1>2

-----------------------------------------------------------------------------
(* Sorted tables.                                                           *)

Rising(s, n) == \A i, j \in 1 .. n : i < j => s[i][1] < s[j][1]

LEMMA RisingListExists ==
    ASSUME NEW table, IsTable(table), table \subseteq Nat \X Nat
    PROVE  /\ Cardinality(table) \in Nat
           /\ \E s \in [1 .. Cardinality(table) -> table] : Rising(s, Cardinality(table))
<1> DEFINE Sortable(R, n) == \E s \in [1 .. n -> R] : Rising(s, n)
           T == {n \in Nat : \A R \in SUBSET table : Cardinality(R) = n => Sortable(R, n)}
<1>1. \A R \in SUBSET table : IsFiniteSet(R) /\ Cardinality(R) \in Nat
  BY FS_Subset, FS_CardinalityType DEF IsTable
<1>2. 0 \in T
  <2>1. ASSUME NEW R PROVE Sortable(R, 0)
    <3>1. 1 .. 0 = {} /\ << >> \in [1 .. 0 -> R]
      OBVIOUS
    <3>2. Rising(<< >>, 0)
      BY <3>1 DEF Rising
    <3> QED
      BY <3>1, <3>2
  <2> QED
    BY <2>1
<1>3. ASSUME NEW n \in Nat, n \in T PROVE n + 1 \in T
  <2> SUFFICES ASSUME NEW R \in SUBSET table, Cardinality(R) = n + 1
               PROVE  Sortable(R, n + 1)
    OBVIOUS
  <2> DEFINE indexes == {p[1] : p \in R}
  <2>1. R # {}
    BY FS_EmptySet
  <2>2. \E i \in indexes : \A j \in indexes : i <= j
    <3>1. indexes # {} /\ indexes \subseteq Nat
      BY <2>1
    <3> HIDE DEF indexes
    <3> QED
      BY <3>1, LeastNumber
  <2>3. PICK p \in R : \A q \in R : p[1] <= q[1]
    BY <2>2
  <2> DEFINE rest == R \ {p}
  <2>4. rest \in SUBSET table /\ Cardinality(rest) = n
    <3>1. Cardinality(rest) = Cardinality(R) - 1
      BY <1>1, FS_RemoveElement
    <3> QED
      BY <3>1
  <2>5. PICK s \in [1 .. n -> rest] : Rising(s, n)
    <3> HIDE DEF rest
    <3> QED
      BY <1>3, <2>4
  <2>6. \A q \in rest : p[1] < q[1]
    <3>1. \A q \in R : q[1] \in Nat
      OBVIOUS
    <3>2. \A q \in rest : p[1] # q[1]
      BY DEF IsTable
    <3> QED
      BY <2>3, <3>1, <3>2
  <2> DEFINE t == [i \in 1 .. n + 1 |-> IF i = 1 THEN p ELSE s[i - 1]]
  <2>7. \A i \in 1 .. n + 1 : i # 1 => i - 1 \in 1 .. n
    OBVIOUS
  <2>8. t \in [1 .. n + 1 -> R]
    BY <2>7
  <2>9. ASSUME NEW i \in 1 .. n + 1, NEW j \in 1 .. n + 1, i < j
        PROVE  t[i][1] < t[j][1]
    <3>1. j # 1 /\ t[j] = s[j - 1] /\ j - 1 \in 1 .. n /\ s[j - 1] \in rest
      BY <2>7, <2>9
    <3>2. CASE i = 1
      BY <2>6, <3>1, <3>2
    <3>3. CASE i # 1
      <4>1. t[i] = s[i - 1] /\ i - 1 \in 1 .. n /\ i - 1 < j - 1
        BY <2>7, <2>9, <3>3
      <4> HIDE DEF t
      <4> QED
        BY <2>5, <3>1, <4>1 DEF Rising
    <3> QED
      BY <3>2, <3>3
  <2> HIDE DEF t
  <2>10. Rising(t, n + 1)
    BY <2>9 DEF Rising
  <2> QED
    BY <2>8, <2>10
<1>4. \A n \in Nat : n \in T
  <2> HIDE DEF T
  <2> QED
    BY <1>2, <1>3, SetInduction
<1>5. Cardinality(table) \in Nat
  BY <1>1
<1> QED
  BY <1>4, <1>5

\* The sorted list of a table has all its pairs.
LEMMA SortedMembers ==
    ASSUME NEW table, IsTable(table), table \subseteq Nat \X Nat
    PROVE  /\ Sorted(table) \in Seq(table)
           /\ \A p \in table : Has(Sorted(table), p)
<1> DEFINE n == Cardinality(table)
           s == Sorted(table)
           range == {s[i] : i \in 1 .. n}
<1>1. n \in Nat /\ IsFiniteSet(table)
  BY RisingListExists DEF IsTable
<1>2. s \in [1 .. n -> table] /\ Rising(s, n)
  <2>1. \E l \in [1 .. n -> table] : \A i, j \in 1 .. n : i < j => l[i][1] < l[j][1]
    BY RisingListExists DEF Rising
  <2>2. s = CHOOSE l \in [1 .. n -> table] : \A i, j \in 1 .. n : i < j => l[i][1] < l[j][1]
    BY DEF Sorted
  <2> HIDE DEF s, n
  <2>3. s \in [1 .. n -> table] /\ \A i, j \in 1 .. n : i < j => s[i][1] < s[j][1]
    BY <2>1, <2>2
  <2> QED
    BY <2>3 DEF Rising
<1> HIDE DEF n, s
<1>3. s \in Seq(table) /\ Len(s) = n
  BY <1>1, <1>2
<1>4. ASSUME NEW i \in 1 .. n, NEW j \in 1 .. n, s[i] = s[j] PROVE i = j
  <2>1. s[i][1] \in Nat /\ s[j][1] \in Nat /\ s[i][1] = s[j][1]
    BY <1>2, <1>4
  <2>2. ~ (i < j) /\ ~ (j < i)
    BY <1>2, <2>1 DEF Rising
  <2> QED
    BY <1>1, <2>2
<1>5. IsFiniteSet(1 .. n) /\ Cardinality(1 .. n) = n
  BY <1>1, FS_Interval
<1>6. s \in Bijection(1 .. n, range)
  BY <1>2, <1>4 DEF Bijection, Injection, Surjection, IsInjective
<1> HIDE DEF range
<1>7. Cardinality(range) = n
  BY <1>5, <1>6, FS_Bijection DEF ExistsBijection
<1>8. range \subseteq table
  BY <1>2 DEF range
<1>9. range = table
  BY <1>1, <1>7, <1>8, FS_Subset DEF n
<1>10. ASSUME NEW p \in table PROVE Has(s, p)
  <2>1. PICK i \in 1 .. n : s[i] = p
    BY <1>9 DEF range
  <2> QED
    BY <1>3, <2>1 DEF Has
<1> QED
  BY <1>3, <1>10 DEF s

-----------------------------------------------------------------------------
(* What a poll asks for and has been answered.                              *)

\* The PDU answers what an OID may have; a poll goes through what is requested;
\* what it has been told, each in its place, is what the PDU had since it began;
\* and while every answer was whole, no OID so far is without a value.
PduPossible == \A oid \in Oids : pdu[oid] \in Possible(oid)

PollAsks == oids = IF stage = "asking" THEN Requested ELSE << >>

Answers(oid) == {None} \cup [oid : {oid}, at : seen[oid]]

AnswersSeen ==
    \A oid \in Oids :
        /\ seen[oid] \subseteq Possible(oid)
        /\ stage = "asking" => pdu[oid] \in seen[oid] /\ values[oid] \in Answers(oid)

WholeSoFar ==
    stage = "asking" /\ whole => \A i \in 1 .. asked : values[oids[i]] # None

PollInv == TypeOK /\ PduPossible /\ PollAsks /\ AnswersSeen /\ WholeSoFar

\* The columns that every row and only the total row are asked for, and the OIDs
\* that are requested of a layout.
MoreColumns == TotalColumns \ BankColumns

LEMMA ColumnsSplit ==
    /\ MoreColumns = {"apparent", "pf", "energy"} /\ BankColumns \subseteq TotalColumns
    /\ {"power", "current"} \subseteq BankColumns
  BY DEF MoreColumns, TotalColumns, BankColumns

LEMMA LayoutTables ==
    ASSUME layout \in Layouts
    PROVE  /\ IsTable(layout.outlets) /\ layout.outlets \subseteq Nat \X Nat
           /\ IsTable(layout.rows) /\ layout.rows \subseteq Nat \X Nat
  BY PollingAssumption DEF Sound

\* A list made of a few OIDs for each pair of a sorted table.
LEMMA TableOids ==
    ASSUME NEW table, IsTable(table), table \subseteq Nat \X Nat, NEW S,
           NEW of, of \in [table -> Seq(S)]
    PROVE  LET pairs == Sorted(table)
               list  == FlattenSeq([i \in DOMAIN pairs |-> of[pairs[i]]]) IN
           /\ list \in Seq(S)
           /\ \A p \in table : \A x : Has(of[p], x) => Has(list, x)
<1> DEFINE pairs == Sorted(table)
           ss == [i \in DOMAIN pairs |-> of[pairs[i]]]
           list == FlattenSeq(ss)
<1>1. pairs \in Seq(table) /\ \A p \in table : Has(pairs, p)
  BY SortedMembers
<1> HIDE DEF pairs
<1>2. DOMAIN pairs = 1 .. Len(pairs) /\ \A i \in 1 .. Len(pairs) : pairs[i] \in table
  BY <1>1
<1>3. ss \in Seq(Seq(S)) /\ Len(ss) = Len(pairs)
  <2>1. ss \in [1 .. Len(pairs) -> Seq(S)] /\ Len(pairs) \in Nat
    BY <1>1, <1>2
  <2> HIDE DEF ss
  <2> QED
    BY <2>1
<1>4. \A i \in 1 .. Len(pairs) : ss[i] = of[pairs[i]]
  BY <1>2
<1> HIDE DEF ss
<1>5. /\ list \in Seq(S)
      /\ \A i \in 1 .. Len(ss) : \A x : Has(ss[i], x) => Has(list, x)
  BY <1>3, FlattenMembers
<1> HIDE DEF list
<1>6. ASSUME NEW p \in table, NEW x, Has(of[p], x) PROVE Has(list, x)
  <2>1. PICK i \in 1 .. Len(pairs) : pairs[i] = p
    BY <1>1 DEF Has
  <2>2. Has(ss[i], x)
    BY <1>4, <1>6, <2>1
  <2> QED
    BY <1>3, <1>5, <2>1, <2>2
<1>7. list \in Seq(S) /\ \A p \in table : \A x : Has(of[p], x) => Has(list, x)
  BY <1>5, <1>6
<1> QED
  BY <1>7 DEF list, ss, pairs

LEMMA OutletOidsHave ==
    ASSUME NEW o \in Nat \X Nat, NEW S, {<<"state", o[1]>>, <<"label", o[1]>>} \subseteq S
    PROVE  /\ OutletOids(o) \in Seq(S)
           /\ Has(OutletOids(o), <<"state", o[1]>>) /\ Has(OutletOids(o), <<"label", o[1]>>)
<1> DEFINE s == <<"state", o[1]>>
           l == <<"label", o[1]>>
<1>1. OutletOids(o) = << s, l >> /\ s \in S /\ l \in S
  BY DEF OutletOids
<1> HIDE DEF s, l
<1>2. << s, l >> \in Seq(S) /\ Has(<< s, l >>, s) /\ Has(<< s, l >>, l)
  <2>1. Len(<< s, l >>) = 2 /\ << s, l >>[1] = s /\ << s, l >>[2] = l
    OBVIOUS
  <2>2. << s, l >> \in Seq(S)
    BY <1>1
  <2>3. 1 \in 1 .. 2 /\ 2 \in 1 .. 2
    OBVIOUS
  <2> QED
    BY <2>1, <2>2, <2>3 DEF Has
<1> QED
  BY <1>1, <1>2 DEF s, l

LEMMA ThreeHave ==
    ASSUME NEW S, NEW x \in S, NEW y \in S, NEW z \in S
    PROVE  /\ << x, y, z >> \in Seq(S)
           /\ Has(<< x, y, z >>, x) /\ Has(<< x, y, z >>, y) /\ Has(<< x, y, z >>, z)
<1>1. Len(<< x, y, z >>) = 3 /\ << x, y, z >>[1] = x /\ << x, y, z >>[2] = y
      /\ << x, y, z >>[3] = z /\ << x, y, z >> \in Seq(S)
  OBVIOUS
<1>2. 1 \in 1 .. 3 /\ 2 \in 1 .. 3 /\ 3 \in 1 .. 3
  OBVIOUS
<1> QED
  BY <1>1, <1>2 DEF Has

LEMMA RowOidsHave ==
    ASSUME NEW r \in Nat \X Nat, NEW S, {<<c, r[1]>> : c \in TotalColumns} \subseteq S
    PROVE  /\ RowOids(r) \in Seq(S)
           /\ \A c \in BankColumns : Has(RowOids(r), <<c, r[1]>>)
           /\ r[2] \in TotalBank(layout.rows) =>
                 \A c \in TotalColumns : Has(RowOids(r), <<c, r[1]>>)
<1> DEFINE oid(c) == <<c, r[1]>>
           three == << oid("current"), oid("voltage"), oid("power") >>
           more == << oid("apparent"), oid("pf"), oid("energy") >>
           rest == IF r[2] \in TotalBank(layout.rows) THEN more ELSE << >>
<1>1. \A c \in TotalColumns : oid(c) \in S
  OBVIOUS
<1>2. /\ {"current", "voltage", "power", "apparent", "pf", "energy"} = TotalColumns
      /\ {"current", "voltage", "power"} = BankColumns
  BY DEF TotalColumns, BankColumns
<1>3. RowOids(r) = three \o rest
  BY DEF RowOids
<1> HIDE DEF oid
<1>4. three \in Seq(S) /\ \A c \in BankColumns : Has(three, oid(c))
  <2>1. oid("current") \in S /\ oid("voltage") \in S /\ oid("power") \in S
    BY <1>1, <1>2
  <2> QED
    BY <1>2, <2>1, ThreeHave
<1>5. more \in Seq(S) /\ \A c \in MoreColumns : Has(more, oid(c))
  <2>1. oid("apparent") \in S /\ oid("pf") \in S /\ oid("energy") \in S
    BY <1>1, <1>2
  <2> QED
    BY <2>1, ThreeHave, ColumnsSplit
<1> HIDE DEF three, more
<1>6. rest \in Seq(S)
  <2>1. << >> \in Seq(S)
    OBVIOUS
  <2> QED
    BY <1>5, <2>1
<1>7. RowOids(r) \in Seq(S) /\ \A c \in BankColumns : Has(RowOids(r), oid(c))
  <2> HIDE DEF rest
  <2>1. three \o rest \in Seq(S)
    BY <1>4, <1>6, Appended
  <2>2. \A c \in BankColumns : Has(three \o rest, oid(c))
    BY <1>4, <1>6, AppendedHas
  <2> QED
    BY <1>3, <2>1, <2>2
<1>8. ASSUME r[2] \in TotalBank(layout.rows), NEW c \in MoreColumns
      PROVE  Has(RowOids(r), oid(c))
  <2>1. rest = more
    BY <1>8
  <2>2. Has(rest, oid(c))
    BY <1>5, <2>1
  <2> HIDE DEF rest
  <2> QED
    BY <1>3, <1>4, <1>6, <2>2, AppendedHas
<1>9. \A c \in TotalColumns : c \in BankColumns \/ c \in MoreColumns
  BY DEF MoreColumns
<1> QED
  BY <1>7, <1>8, <1>9 DEF oid

\* A poll asks for the name, for all states and labels, and for what the sensors
\* of the rows show; of nothing that the PDU does not have.
LEMMA RequestedOids ==
    ASSUME layout \in Layouts
    PROVE  /\ Requested \in Seq(OidsOf(layout)) /\ Len(Requested) >= 1
           /\ \A o \in layout.outlets : /\ Has(Requested, <<"state", o[1]>>)
                                        /\ Has(Requested, <<"label", o[1]>>)
           /\ \A r \in layout.rows : \A c \in BankColumns : Has(Requested, <<c, r[1]>>)
           /\ \A r \in layout.rows : r[2] \in TotalBank(layout.rows) =>
                 \A c \in TotalColumns : Has(Requested, <<c, r[1]>>)
<1> DEFINE S == OidsOf(layout)
           outlets == Sorted(layout.outlets)
           rows == Sorted(layout.rows)
           outletList == FlattenSeq([i \in DOMAIN outlets |-> OutletOids(outlets[i])])
           rowList == FlattenSeq([i \in DOMAIN rows |-> RowOids(rows[i])])
           ofOutlet == [o \in layout.outlets |-> OutletOids(o)]
           ofRow == [r \in layout.rows |-> RowOids(r)]
<1>1. Requested = (<<NameOid>> \o outletList) \o rowList
  BY DEF Requested
<1>2. /\ NameOid \in S
      /\ \A o \in layout.outlets : {<<"state", o[1]>>, <<"label", o[1]>>} \subseteq S
      /\ \A r \in layout.rows : {<<c, r[1]>> : c \in TotalColumns} \subseteq S
  BY DEF OidsOf
<1> HIDE DEF S
<1>3. /\ outletList \in Seq(S)
      /\ \A o \in layout.outlets : \A x : Has(OutletOids(o), x) => Has(outletList, x)
  <2>1. ofOutlet \in [layout.outlets -> Seq(S)]
    BY <1>2, OutletOidsHave, LayoutTables
  <2>2. \A p \in layout.outlets : ofOutlet[p] = OutletOids(p)
    OBVIOUS
  <2>3. outlets \in Seq(layout.outlets)
    BY LayoutTables, SortedMembers
  <2>4. [i \in DOMAIN outlets |-> OutletOids(outlets[i])]
          = [i \in DOMAIN outlets |-> ofOutlet[outlets[i]]]
    <3> HIDE DEF outlets
    <3>1. \A i \in DOMAIN outlets : outlets[i] \in layout.outlets
      BY <2>3
    <3> QED
      BY <2>2, <3>1
  <2> HIDE DEF ofOutlet
  <2>5. LET list == FlattenSeq([i \in DOMAIN outlets |-> ofOutlet[outlets[i]]]) IN
        /\ list \in Seq(S)
        /\ \A p \in layout.outlets : \A x : Has(ofOutlet[p], x) => Has(list, x)
    BY <2>1, LayoutTables, TableOids
  <2> QED
    BY <2>2, <2>4, <2>5
<1>4. /\ rowList \in Seq(S)
      /\ \A r \in layout.rows : \A x : Has(RowOids(r), x) => Has(rowList, x)
  <2>1. ofRow \in [layout.rows -> Seq(S)]
    BY <1>2, RowOidsHave, LayoutTables
  <2>2. \A p \in layout.rows : ofRow[p] = RowOids(p)
    OBVIOUS
  <2>3. rows \in Seq(layout.rows)
    BY LayoutTables, SortedMembers
  <2>4. [i \in DOMAIN rows |-> RowOids(rows[i])] = [i \in DOMAIN rows |-> ofRow[rows[i]]]
    <3> HIDE DEF rows
    <3>1. \A i \in DOMAIN rows : rows[i] \in layout.rows
      BY <2>3
    <3> QED
      BY <2>2, <3>1
  <2> HIDE DEF ofRow
  <2>5. LET list == FlattenSeq([i \in DOMAIN rows |-> ofRow[rows[i]]]) IN
        /\ list \in Seq(S)
        /\ \A p \in layout.rows : \A x : Has(ofRow[p], x) => Has(list, x)
    BY <2>1, LayoutTables, TableOids
  <2> QED
    BY <2>2, <2>4, <2>5
<1> HIDE DEF outletList, rowList, outlets, rows
<1> DEFINE first == <<NameOid>> \o outletList
<1>5. first \in Seq(S) /\ Len(first) >= 1 /\ \A x : Has(outletList, x) => Has(first, x)
  <2>1. <<NameOid>> \in Seq(S) /\ Len(<<NameOid>>) = 1
    BY <1>2
  <2>2. first \in Seq(S) /\ Len(first) = 1 + Len(outletList) /\ Len(outletList) \in Nat
    BY <1>3, <2>1, Appended
  <2>3. \A x : Has(outletList, x) => Has(first, x)
    BY <1>3, <2>1, AppendedHas
  <2> QED
    BY <2>2, <2>3
<1> HIDE DEF first
<1>6. /\ Requested \in Seq(S) /\ Len(Requested) >= 1
      /\ \A x : Has(first, x) \/ Has(rowList, x) => Has(Requested, x)
  <2>1. Requested = first \o rowList
    BY <1>1 DEF first
  <2>2. Requested \in Seq(S) /\ Len(Requested) = Len(first) + Len(rowList)
    BY <1>4, <1>5, <2>1, Appended
  <2>3. Len(first) \in Nat /\ Len(rowList) \in Nat
    BY <1>4, <1>5
  <2>4. \A x : Has(first, x) \/ Has(rowList, x) => Has(Requested, x)
    BY <1>4, <1>5, <2>1, AppendedHas
  <2> QED
    BY <1>5, <2>2, <2>3, <2>4
<1>7. ASSUME NEW o \in layout.outlets
      PROVE  Has(Requested, <<"state", o[1]>>) /\ Has(Requested, <<"label", o[1]>>)
  <2>1. Has(OutletOids(o), <<"state", o[1]>>) /\ Has(OutletOids(o), <<"label", o[1]>>)
    BY <1>2, LayoutTables, OutletOidsHave
  <2> QED
    BY <1>3, <1>5, <1>6, <2>1
<1>8. ASSUME NEW r \in layout.rows, NEW c, Has(RowOids(r), <<c, r[1]>>)
      PROVE  Has(Requested, <<c, r[1]>>)
  BY <1>4, <1>6, <1>8
<1>9. ASSUME NEW r \in layout.rows
      PROVE  /\ \A c \in BankColumns : Has(RowOids(r), <<c, r[1]>>)
             /\ r[2] \in TotalBank(layout.rows) =>
                   \A c \in TotalColumns : Has(RowOids(r), <<c, r[1]>>)
  BY <1>2, LayoutTables, RowOidsHave
<1> QED
  BY <1>6, <1>7, <1>8, <1>9 DEF S

-----------------------------------------------------------------------------
(* The invariant of the polls.                                              *)

LEMMA PossibleAnswers ==
    ASSUME NEW oid
    PROVE  Possible(oid) \subseteq 0 .. 2 /\ 1 \in Possible(oid)
<1>1. Possible(oid) \in {{1, 2}, {0, 1, 2}, {0, 1}}
  BY DEF Possible
<1> QED
  BY <1>1

LEMMA OidColumns ==
    ASSUME NEW l, NEW oid \in OidsOf(l)
    PROVE  oid # <<"none", 0>>
<1>1. oid = NameOid \/ oid[1] \in {"state", "label"} \cup TotalColumns
  BY DEF OidsOf
<1> QED
  BY <1>1 DEF NameOid, TotalColumns

LEMMA OidsOfLayout == ASSUME TypeOK PROVE Oids = OidsOf(layout)
  BY DEF TypeOK, Oids

LEMMA ValueIsAnswer ==
    ASSUME TypeOK, NEW oid \in Oids
    PROVE  Value(oid) # None /\ (pdu[oid] \in seen[oid] => Value(oid) \in Answers(oid))
<1>1. oid # <<"none", 0>>
  BY OidsOfLayout, OidColumns
<1>2. Value(oid).oid = oid /\ None.oid = <<"none", 0>>
  BY DEF Value, None
<1>3. pdu[oid] \in seen[oid] => Value(oid) \in [oid : {oid}, at : seen[oid]]
  BY DEF Value
<1> QED
  BY <1>1, <1>2, <1>3 DEF Answers

LEMMA AnswersTyped ==
    ASSUME NEW oid, seen[oid] \subseteq 0 .. 2, NEW x \in Answers(oid)
    PROVE  x = None \/ (x.oid = oid /\ x.at \in seen[oid] /\ x.at \in 0 .. 2)
  BY DEF Answers

Shaped(d) ==
    /\ DOMAIN d.states = {o[1] : o \in layout.outlets}
    /\ DOMAIN d.names = DOMAIN d.states
    /\ DOMAIN d.banks = Banks(layout.rows)

LEMMA SnapshotShape == ASSUME NEW vals PROVE Shaped(Snapshot(vals))
  BY DEF Shaped, Snapshot

\* What stays to be shown of the invariant when the layout and the PDU do not
\* change and no poll runs.
LEMMA IdleInv ==
    ASSUME PollInv, stage' # "asking", stage' \in {"identity", "idle"},
           UNCHANGED <<layout, pdu>>, oids' = << >>, asked' = 0,
           (values' = Nothing /\ seen' = Unseen) \/ UNCHANGED <<values, seen>>,
           data' = data \/ data' = NoData \/ \E vals : data' = Snapshot(vals),
           available' \in BOOLEAN, whole' \in BOOLEAN
    PROVE  PollInv'
<1> USE DEF PollInv
<1>1. Oids' = Oids /\ Oids = OidsOf(layout)
  BY OidsOfLayout DEF Oids
<1>2. Len(<< >>) = 0 /\ DOMAIN << >> = {} /\ 0 \in 0 .. 0
  OBVIOUS
<1>3. /\ DOMAIN values' = Oids
      /\ \A oid \in Oids : values'[oid] = None \/ values'[oid].at \in 0 .. 2
      /\ seen' \in [Oids -> SUBSET (0 .. 2)]
      /\ \A oid \in Oids : seen'[oid] \subseteq Possible(oid)
  BY DEF TypeOK, Nothing, Unseen, AnswersSeen
<1>4. data' = NoData \/ Shaped(data')
  <2>1. data = NoData \/ Shaped(data)
    BY DEF TypeOK, Shaped
  <2>2. \A vals : data' = Snapshot(vals) => Shaped(data')
    BY SnapshotShape
  <2> QED
    BY <2>1, <2>2
<1>5. TypeOK'
  BY <1>1, <1>2, <1>3, <1>4 DEF TypeOK, Shaped
<1>6. PduPossible' /\ PollAsks'
  BY <1>1 DEF PduPossible, PollAsks
<1>7. AnswersSeen' /\ WholeSoFar'
  BY <1>1, <1>3 DEF AnswersSeen, WholeSoFar
<1> QED
  BY <1>5, <1>6, <1>7

LEMMA PollInvInit == Init => PollInv
<1> SUFFICES ASSUME Init PROVE PollInv
  OBVIOUS
<1>1. Oids = OidsOf(layout)
  BY DEF Init, Oids
<1>2. Len(<< >>) = 0 /\ DOMAIN << >> = {} /\ 0 \in 0 .. 0
  OBVIOUS
<1>3. TypeOK
  <2>1. pdu \in [OidsOf(layout) -> 0 .. 2]
    BY DEF Init
  <2>2. DOMAIN values = Oids /\ \A oid \in Oids : values[oid] = None
    BY DEF Init, Nothing
  <2>3. seen \in [Oids -> SUBSET (0 .. 2)]
    BY DEF Init, Unseen
  <2>4. /\ \A i \in DOMAIN oids : oids[i] \in Oids
        /\ asked \in 0 .. Len(oids)
    BY <1>2 DEF Init
  <2> QED
    BY <2>1, <2>2, <2>3, <2>4 DEF Init, TypeOK
<1>4. PduPossible /\ PollAsks
  BY <1>1, PossibleAnswers DEF Init, PduPossible, PollAsks
<1>5. AnswersSeen /\ WholeSoFar
  BY DEF Init, AnswersSeen, WholeSoFar, Unseen
<1> QED
  BY <1>3, <1>4, <1>5 DEF PollInv

LEMMA ChangeKeeps ==
    ASSUME PollInv, NEW oid \in Oids, Change(oid)
    PROVE  PollInv'
<1> USE DEF PollInv
<1>1. PICK v \in Possible(oid) : pdu' = [pdu EXCEPT ![oid] = v]
  BY DEF Change
<1>2. pdu \in [Oids -> 0 .. 2] /\ Oids = OidsOf(layout) /\ v \in 0 .. 2
  BY OidsOfLayout, PossibleAnswers DEF TypeOK
<1>3. pdu' \in [Oids -> 0 .. 2] /\ Oids' = Oids
  BY <1>1, <1>2 DEF Oids
<1>4. /\ pdu'[oid] = v
      /\ \A o \in Oids : o # oid => pdu'[o] = pdu[o]
  BY <1>1, <1>2
<1>5. UNCHANGED <<layout, stage, oids, asked, values, whole, data, available>>
  BY DEF Change, shownVars
<1>6. /\ seen' \in [Oids -> SUBSET (0 .. 2)]
      /\ \A o \in Oids : seen[o] \subseteq seen'[o] /\ seen'[o] \subseteq Possible(o)
      /\ stage = "asking" => \A o \in Oids : pdu'[o] \in seen'[o]
  <2>1. seen \in [Oids -> SUBSET (0 .. 2)] /\ \A o \in Oids : seen[o] \subseteq Possible(o)
    BY DEF TypeOK, AnswersSeen
  <2>2. CASE stage = "asking"
    <3>1. seen' = [seen EXCEPT ![oid] = @ \cup {v}]
      BY <1>4, <2>2 DEF Change
    <3>2. seen'[oid] = seen[oid] \cup {v} /\ \A o \in Oids : o # oid => seen'[o] = seen[o]
      BY <2>1, <3>1
    <3>3. \A o \in Oids : pdu[o] \in seen[o]
      BY <2>2 DEF AnswersSeen
    <3> QED
      BY <1>2, <1>4, <2>1, <3>1, <3>2, <3>3
  <2>3. CASE stage # "asking"
    BY <2>1, <2>3 DEF Change
  <2> QED
    BY <2>2, <2>3
<1>7. TypeOK'
  BY <1>2, <1>3, <1>5, <1>6 DEF TypeOK
<1>8. PduPossible'
  BY <1>3, <1>4 DEF PduPossible
<1>9. PollAsks' /\ WholeSoFar'
  BY <1>5 DEF PollAsks, WholeSoFar, Requested, RowOids
<1>10. AnswersSeen'
  <2>1. \A o \in Oids : Answers(o) \subseteq Answers(o)'
    BY <1>6 DEF Answers
  <2>2. stage = "asking" => \A o \in Oids : values[o] \in Answers(o)
    BY DEF AnswersSeen
  <2> QED
    BY <1>3, <1>5, <1>6, <2>1, <2>2 DEF AnswersSeen
<1> QED
  BY <1>7, <1>8, <1>9, <1>10

LEMMA StartPollKeeps ==
    ASSUME PollInv, StartPoll
    PROVE  PollInv'
<1> USE DEF PollInv
<1>1. UNCHANGED <<layout, pdu, data, available>> /\ stage' = "asking"
  BY DEF StartPoll, shownVars
<1>2. Oids' = Oids /\ Oids = OidsOf(layout) /\ layout \in Layouts
  BY <1>1, OidsOfLayout DEF Oids, TypeOK
<1>3. oids' = Requested /\ asked' = 0 /\ values' = Nothing /\ whole' = TRUE
      /\ seen' = [oid \in Oids |-> {pdu[oid]}]
  BY DEF StartPoll
<1>4. Requested' = Requested
  BY <1>1 DEF Requested, RowOids
<1>5. oids' \in Seq(Oids) /\ Len(oids') \in Nat /\ asked' < Len(oids') /\ asked' \in 0 .. Len(oids')
  <2>1. Requested \in Seq(Oids) /\ Len(Requested) >= 1
    BY <1>2, RequestedOids
  <2>2. Len(Requested) \in Nat
    BY <2>1
  <2> QED
    BY <1>3, <2>1, <2>2
<1>6. \A oid \in Oids : seen'[oid] = {pdu[oid]} /\ values'[oid] = None /\ pdu[oid] \in 0 .. 2
  BY <1>2, <1>3 DEF Nothing, TypeOK
<1>7. TypeOK'
  <2>1. \A i \in DOMAIN oids' : oids'[i] \in Oids
    BY <1>5
  <2>2. DOMAIN values' = Oids /\ seen' \in [Oids -> SUBSET (0 .. 2)]
    BY <1>3, <1>6 DEF Nothing
  <2> QED
    BY <1>1, <1>2, <1>3, <1>5, <1>6, <2>1, <2>2 DEF TypeOK
<1>8. PduPossible' /\ PollAsks'
  BY <1>1, <1>2, <1>3, <1>4 DEF PduPossible, PollAsks
<1>9. AnswersSeen'
  BY <1>1, <1>2, <1>6 DEF AnswersSeen, PduPossible, Answers
<1>10. WholeSoFar'
  <2>1. 1 .. asked' = {}
    BY <1>3
  <2> QED
    BY <2>1 DEF WholeSoFar
<1> QED
  BY <1>7, <1>8, <1>9, <1>10

-----------------------------------------------------------------------------
(* The answer to a chunk.                                                   *)

\* What an answer does to the values, and that nothing is missing from a full
\* one.
Filled(vals) ==
    /\ DOMAIN vals = Oids
    /\ \A oid \in Oids : vals[oid] \in Answers(oid)

LEMMA ZippedFilled ==
    ASSUME PollInv, stage = "asking", NEW n, NEW gone
    PROVE  Filled(Zipped(n, gone))
<1>1. ASSUME NEW oid \in Oids PROVE Zipped(n, gone)[oid] \in Answers(oid)
  <2>1. Zipped(n, gone)[oid] \in {values[oid], None, Value(oid)}
    BY DEF Zipped
  <2>2. values[oid] \in Answers(oid) /\ pdu[oid] \in seen[oid]
    BY DEF PollInv, AnswersSeen
  <2>3. Value(oid) \in Answers(oid)
    BY <2>2, ValueIsAnswer DEF PollInv
  <2>4. None \in Answers(oid)
    BY DEF Answers
  <2> QED
    BY <2>1, <2>2, <2>3, <2>4
<1> QED
  BY <1>1 DEF Filled, Zipped

LEMMA AnsweredFilled ==
    ASSUME PollInv, stage = "asking", NEW vals \in InFull \cup InPart
    PROVE  Filled(vals)
  BY ZippedFilled DEF InFull, InPart

LEMMA AskedTypes ==
    ASSUME PollInv, stage = "asking"
    PROVE  /\ oids \in Seq(Oids) /\ oids = Requested /\ Len(oids) \in Nat
           /\ asked \in Nat /\ asked < Len(oids) /\ MaxVarbinds \in Nat \ {0}
<1>1. layout \in Layouts /\ Oids = OidsOf(layout) /\ oids = Requested
  BY OidsOfLayout DEF PollInv, TypeOK, PollAsks
<1>2. oids \in Seq(Oids)
  BY <1>1, RequestedOids
<1>3. asked \in 0 .. Len(oids) /\ asked < Len(oids)
  BY DEF PollInv, TypeOK
<1>4. Len(oids) \in Nat
  BY <1>2
<1> QED
  BY <1>1, <1>2, <1>3, <1>4, PollingAssumption

\* After a full answer all OIDs up to the end of the chunk have their values.
LEMMA FullLeavesNothing ==
    ASSUME PollInv, stage = "asking", whole, NEW vals \in InFull,
           NEW i \in 1 .. Lesser(asked + MaxVarbinds, Len(oids))
    PROVE  vals[oids[i]] # None
<1> DEFINE n == asked + MaxVarbinds
           oid == oids[i]
           at == {j \in Chunk : j <= n /\ oids[j] = oid}
<1>1. vals = Zipped(n, 0)
  BY DEF InFull
<1>2. i \in 1 .. Len(oids) /\ oid \in Oids /\ i <= n /\ i \in Nat /\ asked \in Nat
  BY AskedTypes DEF Lesser
<1>3. ~ (0 \in at)
  BY <1>2, AskedTypes DEF Chunk, Lesser
<1>4. vals[oid] = IF at = {} THEN values[oid] ELSE IF 0 \in at THEN None ELSE Value(oid)
  BY <1>1, <1>2 DEF Zipped
<1>5. CASE at = {}
  <2>1. i \in 1 .. asked
    <3> SUFFICES ASSUME i > asked PROVE FALSE
      BY <1>2
    <3>1. i \in Chunk
      BY <1>2, AskedTypes DEF Chunk
    <3> QED
      BY <1>2, <1>5, <3>1
  <2>2. values[oid] # None
    BY <2>1 DEF PollInv, WholeSoFar
  <2> HIDE DEF at, oid
  <2> QED
    BY <1>4, <1>5, <2>2 DEF oid
<1>6. CASE at # {}
  <2>1. Value(oid) # None
    BY <1>2, ValueIsAnswer DEF PollInv
  <2> HIDE DEF at, oid
  <2> QED
    BY <1>3, <1>4, <1>6, <2>1 DEF oid
<1> QED
  BY <1>5, <1>6

LEMMA GetChunkKeeps ==
    ASSUME PollInv, GetChunk
    PROVE  PollInv'
<1> USE DEF PollInv
<1>1. UNCHANGED <<layout, pdu, stage, oids, seen, data, available>> /\ stage = "asking"
  BY DEF GetChunk, shownVars
<1>2. Oids' = Oids /\ Requested' = Requested
  BY <1>1 DEF Oids, Requested, RowOids
<1>3. /\ asked' = asked + MaxVarbinds /\ asked' < Len(oids) /\ asked' \in 0 .. Len(oids)
      /\ Lesser(asked + MaxVarbinds, Len(oids)) = asked'
  BY <1>1, AskedTypes DEF GetChunk, Lesser
<1>4. values' \in InFull \cup InPart /\ (whole' => whole /\ values' \in InFull)
      /\ whole' \in BOOLEAN
  <2>1. CASE values' \in InFull /\ UNCHANGED <<whole, troubles>>
    <3>1. whole' = whole /\ values' \in InFull /\ values' \in InFull \cup InPart
      BY <2>1
    <3> QED
      BY <3>1, Zenon DEF TypeOK
  <2>2. CASE values' \in InPart /\ whole' = FALSE
    <3>1. ~ whole' /\ whole' \in BOOLEAN /\ values' \in InFull \cup InPart
      BY <2>2, Zenon
    <3> QED
      BY <3>1
  <2> QED
    BY <2>1, <2>2, Zenon DEF GetChunk
<1>5. Filled(values')
  BY <1>1, <1>4, AnsweredFilled
<1>6. \A oid \in Oids : Answers(oid)' = Answers(oid)
  BY <1>1 DEF Answers
<1>7. \A oid \in Oids : seen[oid] \subseteq 0 .. 2
  BY DEF TypeOK
<1>8. \A oid \in Oids : values'[oid] = None \/ values'[oid].at \in 0 .. 2
  BY <1>5, <1>7, AnswersTyped DEF Filled
<1>9. TypeOK'
  BY <1>1, <1>2, <1>3, <1>4, <1>5, <1>8 DEF TypeOK, Filled
<1>10. PduPossible' /\ PollAsks'
  BY <1>1, <1>2 DEF PduPossible, PollAsks
<1>11. AnswersSeen'
  BY <1>1, <1>2, <1>5, <1>6 DEF AnswersSeen, Filled
<1>12. WholeSoFar'
  <2> SUFFICES ASSUME whole', NEW i \in 1 .. asked' PROVE values'[oids[i]] # None
    BY <1>1 DEF WholeSoFar
  <2> QED
    BY <1>1, <1>3, <1>4, FullLeavesNothing
<1> QED
  BY <1>9, <1>10, <1>11, <1>12

LEMMA PollInvStep == PollInv /\ [Next]_vars => PollInv'
<1> SUFFICES ASSUME PollInv, [Next]_vars PROVE PollInv'
  OBVIOUS
<1>1. stage # "asking" => oids = << >>
  BY DEF PollInv, PollAsks
<1>2. stage # "asking" => asked = 0
  <2>1. Len(<< >>) = 0 /\ \A i \in 0 .. 0 : i = 0
    OBVIOUS
  <2> QED
    BY <1>1, <2>1 DEF PollInv, TypeOK
<1>3. available \in BOOLEAN /\ whole \in BOOLEAN
  BY DEF PollInv, TypeOK
<1>4. CASE ReadIdentity
  BY <1>1, <1>2, <1>3, <1>4, IdleInv DEF ReadIdentity
<1>5. CASE Reload
  BY <1>1, <1>2, <1>3, <1>5, IdleInv DEF Reload
<1>6. CASE StartPoll
  BY <1>6, StartPollKeeps
<1>7. CASE GetChunk
  BY <1>7, GetChunkKeeps
<1>8. CASE LastChunk
  <2>1. \E vals : Publish(vals)
    BY <1>8 DEF LastChunk
  <2>2. (\E vals : data' = Snapshot(vals)) /\ available' \in BOOLEAN
    BY <2>1 DEF Publish
  <2>3. whole' \in BOOLEAN
    BY <1>3, <1>8 DEF LastChunk
  <2> QED
    BY <1>8, <2>2, <2>3, IdleInv DEF LastChunk, PollOver
<1>9. CASE GetFails
  BY <1>9, IdleInv DEF GetFails, PollOver
<1>10. ASSUME NEW oid \in Oids, Change(oid) PROVE PollInv'
  BY <1>10, ChangeKeeps
<1>11. CASE UNCHANGED vars
  <2> USE <1>11 DEF vars, pollVars, shownVars
  <2>1. TypeOK'
    BY DEF PollInv, TypeOK, OidsOf, Oids, Nothing
  <2>2. PduPossible' /\ PollAsks'
    BY DEF PollInv, PduPossible, PollAsks, Requested, RowOids, Oids
  <2>3. AnswersSeen' /\ WholeSoFar'
    BY DEF PollInv, AnswersSeen, WholeSoFar, Answers, Oids
  <2> QED
    BY <2>1, <2>2, <2>3 DEF PollInv
<1> QED
  BY <1>4, <1>5, <1>6, <1>7, <1>8, <1>9, <1>10, <1>11 DEF Next, Step

\* A poll has asked for all that the entities show, and each value it has is what
\* the PDU had at that OID since it began (coordinator.py, _async_update_data;
\* snmp.py, get).
THEOREM PollInvHolds == Spec => []PollInv
  BY PollInvInit, PollInvStep, PTL DEF Spec

\* The types of a poll and of what it publishes (coordinator.py,
\* _async_update_data).
THEOREM PollTypes == Spec => []TypeOK
<1>1. PollInv => TypeOK
  BY DEF PollInv
<1> QED
  BY <1>1, PollInvHolds, PTL

-----------------------------------------------------------------------------
(* What a poll publishes.                                                   *)

\* What was seen of an OID is not the text of another, a number or nothing.
LEMMA AnswerParts ==
    ASSUME PollInv, NEW vals, Filled(vals), NEW oid \in Oids
    PROVE  \/ vals[oid] = None /\ None.at = 0
           \/ vals[oid] # None /\ vals[oid].oid = oid /\ Had(oid, vals[oid].at)
<1>1. seen[oid] \subseteq 0 .. 2 /\ vals[oid] \in Answers(oid)
  BY DEF PollInv, TypeOK, Filled
<1>2. vals[oid] = None \/ (vals[oid].oid = oid /\ vals[oid].at \in seen[oid])
  BY <1>1, AnswersTyped
<1> QED
  BY <1>2 DEF None, Had

\* The last answer completes the values; if all were whole, so are the values.
Complete(vals) == \A x : Has(Requested, x) => vals[x] # None

LEMMA LastChunkAnswers ==
    ASSUME PollInv, LastChunk
    PROVE  \E vals : data' = Snapshot(vals) /\ Filled(vals) /\ (whole' => Complete(vals))
<1>1. stage = "asking" /\ Lesser(asked + MaxVarbinds, Len(oids)) = Len(oids)
      /\ oids = Requested
  BY AskedTypes DEF LastChunk, Lesser
<1>2. CASE (\E vals \in InFull : Publish(vals)) /\ UNCHANGED <<whole, troubles>>
  <2>1. PICK vals \in InFull : Publish(vals)
    BY <1>2
  <2>2. Filled(vals) /\ data' = Snapshot(vals)
    BY <1>1, <2>1, AnsweredFilled DEF Publish
  <2>3. ASSUME whole', NEW x, Has(Requested, x) PROVE vals[x] # None
    <3>1. whole
      BY <1>2, <2>3
    <3>2. PICK i \in 1 .. Len(oids) : oids[i] = x
      BY <1>1, <2>3 DEF Has
    <3> QED
      BY <1>1, <2>1, <3>1, <3>2, FullLeavesNothing
  <2> QED
    BY <2>2, <2>3 DEF Complete
<1>3. CASE (\E vals \in InPart : Publish(vals)) /\ whole' = FALSE
  <2>1. PICK vals \in InPart : Publish(vals)
    BY <1>3
  <2>2. Filled(vals) /\ data' = Snapshot(vals)
    BY <1>1, <2>1, AnsweredFilled DEF Publish
  <2>3. ~ whole'
    BY <1>3
  <2> QED
    BY <2>2, <2>3
<1> QED
  BY <1>2, <1>3 DEF LastChunk

LEMMA SwitchTruthful ==
    ASSUME PollInv, NEW vals, Filled(vals), NEW full, full => Complete(vals),
           NEW i \in Switches
    PROVE  TruthfulSwitch(Snapshot(vals), full, i)
<1> DEFINE state == <<"state", i>>
           label == <<"label", i>>
           d == Snapshot(vals)
<1>1. PICK o \in layout.outlets : o[1] = i
  BY DEF Switches
<1>2. layout \in Layouts /\ Oids = OidsOf(layout)
  BY OidsOfLayout DEF PollInv, TypeOK
<1>3. state \in Oids /\ label \in Oids
  BY <1>1, <1>2 DEF OidsOf
<1>4. full => vals[state] # None /\ vals[label] # None
  BY <1>1, <1>2, RequestedOids DEF Complete
<1>5. d.states[i] = (vals[state].at = 1)
      /\ d.names[i] = Text(vals[label], Default("Outlet", i))
  BY DEF Snapshot, Switches
<1>6. Had(state, 1) \/ vals[state].at # 1
  BY <1>3, AnswerParts
<1>7. Had(state, 2) \/ ~full \/ vals[state].at = 1
  <2>1. Possible(state) = {1, 2}
    BY DEF Possible
  <2>2. seen[state] \subseteq {1, 2}
    BY <1>3, <2>1 DEF PollInv, AnswersSeen
  <2> QED
    BY <1>3, <1>4, <2>2, AnswerParts DEF Had
<1>8. \/ d.names[i].oid = label /\ Had(label, d.names[i].at)
      \/ d.names[i] = Default("Outlet", i) /\ (Had(label, 0) \/ ~full)
  BY <1>3, <1>4, <1>5, AnswerParts DEF Text
<1> QED
  BY <1>5, <1>6, <1>7, <1>8 DEF TruthfulSwitch

\* The raw number of a column is divided into the unit that the MIB gives it.
LEMMA UnitsRight == \A c \in TotalColumns : Divisor(c) = DeviceUnit[c]
  BY DEF Divisor, DeviceUnit, TotalColumns

\* A sensor is of a bank that has a row, and of a column that the row is asked
\* for.
LEMMA SensorRow ==
    ASSUME layout \in Layouts, NEW s \in Sensors
    PROVE  /\ s[1] \in Banks(layout.rows)
           /\ s[2] \in Columns(s[1]) /\ s[2] \in TotalColumns
           /\ \E r \in layout.rows : r[1] = RowOf(s[1])
           /\ <<s[2], RowOf(s[1])>> \in OidsOf(layout)
           /\ Has(Requested, <<s[2], RowOf(s[1])>>)
<1> DEFINE rows == layout.rows
           b == s[1]
           c == s[2]
<1>1. TotalBank(rows) \subseteq Banks(rows) /\ SensorBanks(rows) \subseteq Banks(rows)
  BY DEF TotalBank, SensorBanks, BankIds
<1>2. /\ b \in Banks(rows)
      /\ (b \in TotalBank(rows) /\ c \in TotalColumns) \/ c \in {"power", "current"}
  BY <1>1 DEF Sensors
<1>3. c \in Columns(b) /\ c \in TotalColumns
  BY <1>2, ColumnsSplit DEF Columns
<1>4. PICK r \in rows : r[2] = b /\ r[1] = RowOf(b)
  <2>1. \E r \in rows : r[2] = b
    BY <1>2 DEF Banks
  <2> QED
    BY <2>1 DEF RowOf
<1>5. <<c, RowOf(b)>> \in OidsOf(layout)
  BY <1>3, <1>4 DEF OidsOf
<1>6. Has(Requested, <<c, r[1]>>)
  <2>1. c \in BankColumns \/ (r[2] \in TotalBank(rows) /\ c \in TotalColumns)
    BY <1>2, <1>4, ColumnsSplit
  <2> QED
    BY <2>1, RequestedOids
<1> QED
  BY <1>2, <1>3, <1>4, <1>5, <1>6

LEMMA SensorTruthful ==
    ASSUME PollInv, NEW vals, Filled(vals), NEW full, full => Complete(vals),
           NEW s \in Sensors
    PROVE  TruthfulSensor(Snapshot(vals), full, s)
<1> DEFINE c == s[2]
           oid == <<c, RowOf(s[1])>>
           shown == NativeValue(Snapshot(vals), s)
<1>1. layout \in Layouts /\ Oids = OidsOf(layout)
  BY OidsOfLayout DEF PollInv, TypeOK
<1>2. oid \in Oids /\ Has(Requested, oid) /\ c \in TotalColumns
  BY <1>1, SensorRow
<1>3. shown = Reading(c, vals[oid])
  <2>1. Snapshot(vals).banks[s[1]] = Measured(s[1], RowOf(s[1]), vals)
    BY <1>1, SensorRow DEF Snapshot, RowOf
  <2>2. Measured(s[1], RowOf(s[1]), vals)[c] = Reading(c, vals[oid])
    BY <1>1, SensorRow DEF Measured
  <2> QED
    BY <2>1, <2>2 DEF NativeValue
<1> HIDE DEF oid, shown
<1>4. CASE vals[oid] = None
  <2>1. shown = None /\ ~full
    BY <1>2, <1>3, <1>4 DEF Reading, Complete
  <2> QED
    BY <2>1 DEF TruthfulSensor, shown
<1>5. CASE vals[oid] # None
  <2>1. vals[oid].oid = oid /\ Had(oid, vals[oid].at)
    BY <1>2, <1>5, AnswerParts
  <2>2. shown = [oid |-> oid, at |-> vals[oid].at, over |-> DeviceUnit[c]]
    BY <1>2, <1>3, <1>5, <2>1, UnitsRight DEF Reading
  <2>3. shown # None
    <3>1. DOMAIN shown # DOMAIN None
      BY <2>2 DEF None
    <3> QED
      BY <3>1
  <2> QED
    BY <2>1, <2>2, <2>3 DEF TruthfulSensor, shown, oid
<1> QED
  BY <1>4, <1>5

\* However the PDU changes and whatever its answers lack: what a poll publishes
\* for every switch and sensor is what the PDU had in that place while the poll
\* ran, and only what was absent is off, a number or unknown (coordinator.py,
\* _async_update_data).
THEOREM PublishedIsTruthful == Spec => PollsTruthful
<1> DEFINE Truthful == LastChunk => /\ \A i \in Switches : TruthfulSwitch(data', whole', i)
                                    /\ \A s \in Sensors : TruthfulSensor(data', whole', s)
<1>1. PollInv => Truthful
  <2> SUFFICES ASSUME PollInv, LastChunk
               PROVE  /\ \A i \in Switches : TruthfulSwitch(data', whole', i)
                      /\ \A s \in Sensors : TruthfulSensor(data', whole', s)
    OBVIOUS
  <2>1. PICK vals : data' = Snapshot(vals) /\ Filled(vals) /\ (whole' => Complete(vals))
    BY LastChunkAnswers
  <2>2. \A i \in Switches : TruthfulSwitch(Snapshot(vals), whole', i)
    BY <2>1, SwitchTruthful
  <2>3. \A s \in Sensors : TruthfulSensor(Snapshot(vals), whole', s)
    BY <2>1, SensorTruthful
  <2> QED
    BY <2>1, <2>2, <2>3
<1>2. PollInv /\ [Next]_vars => [Truthful]_vars
  BY <1>1
<1> QED
  BY <1>2, PollInvHolds, PTL DEF PollsTruthful, Spec
=============================================================================
