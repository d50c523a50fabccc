-------------------------- MODULE DiscoveryProofs --------------------------
(***************************************************************************)
(* What TLAPS proves of Discovery for any hosts, PDUs, pool and bounds:    *)
(* permits, engines and progress of a sweep in step with its probes, and   *)
(* that a sweep without troubles misses no PDU.                            *)
(***************************************************************************)
EXTENDS Discovery, FiniteSetTheorems, NumberLemmas

Flight(s) == {h \in InFlight : Slot(h) = s}
Finished  == {h \in Hosts : task[h] = "over"}

Unstarted ==
    stage \in {"start", "building"} => done = 0 /\ task = [h \in Hosts |-> "idle"]

\* Only what is listed is probed.
ProbesListed ==
    stage \in {"probing", "returned", "raised"} =>
        \A h \in Hosts : task[h] # "idle" => h \in Listed

\* The pool is open as long as the sweep waits for its probes, ...
PoolOpen == stage = "probing" => engines = 0 .. Pool - 1

\* ... which a sweep that raised alone leaves behind.
NoneLeft == stage \in {"returned", "cancelled"} => \A h \in Hosts : task[h] \in {"idle", "over"}

\* The session of a probe that runs has the engine of its slot, lent.
SessionsLent == \A h \in InFlight : session[h] = [engine |-> Slot(h), owns |-> FALSE]

TypeAndList == TypeOK /\ Total \in Nat

SweepInv ==
    /\ TypeAndList
    /\ PermitsConserved /\ PoolOpen /\ NoneLeft /\ SessionsLent /\ ProgressExact
    /\ Unstarted /\ ProbesListed

-----------------------------------------------------------------------------
(* Lists, slots and counts.                                                 *)

LEMMA EmptyList ==
    ASSUME order = << >>
    PROVE  Total = 0 /\ Listed = {} /\ order \in [1 .. Total -> Hosts]
<1>1. DOMAIN order = {} /\ 1 .. 0 = {}
  OBVIOUS
<1>2. Total = 0 /\ Listed = {}
  BY <1>1, FS_EmptySet DEF Total, Listed
<1>3. order \in [{} -> Hosts]
  OBVIOUS
<1> QED
  BY <1>1, <1>2, <1>3

LEMMA ModRange ==
    ASSUME NEW a \in Int, NEW n \in Nat \ {0}
    PROVE  a % n \in 0 .. n - 1
  OBVIOUS

\* The list of a finite set lists each of its members once.
LEMMA ListOfSet ==
    ASSUME NEW S, S \subseteq Hosts, NEW s \in [1 .. Cardinality(S) -> S],
           \A i, j \in DOMAIN s : s[i] = s[j] => i = j
    PROVE  LET range == {h \in Hosts : \E i \in DOMAIN s : s[i] = h} IN
           /\ Cardinality(S) \in Nat
           /\ Cardinality(DOMAIN s) = Cardinality(S)
           /\ Cardinality(range) = Cardinality(S)
<1> DEFINE n == Cardinality(S)
           range == {h \in Hosts : \E i \in DOMAIN s : s[i] = h}
<1>1. n \in Nat
  BY DiscoveryAssumption, FS_Subset, FS_CardinalityType
<1>2. DOMAIN s = 1 .. n
  OBVIOUS
<1>3. IsFiniteSet(1 .. n) /\ Cardinality(1 .. n) = n
  BY <1>1, FS_Interval
<1>4. s \in Bijection(1 .. n, range)
  BY <1>2 DEF Bijection, Injection, Surjection, IsInjective
<1>5. Cardinality(range) = n
  BY <1>3, <1>4, FS_Bijection DEF ExistsBijection
<1> QED
  BY <1>1, <1>2, <1>3, <1>5

\* The semaphore and engine of a listed host.
LEMMA SlotOfListed ==
    ASSUME TypeAndList, NEW h \in Listed
    PROVE  /\ Pool \in 1 .. PoolSize
           /\ Slot(h) \in 0 .. Pool - 1 /\ Slot(h) \in Slots
<1>1. DOMAIN order = 1 .. Total /\ Total \in Nat
  BY DEF TypeAndList, TypeOK
<1>2. Index(h) \in 1 .. Total
  BY <1>1 DEF Listed, Index
<1>3. Pool \in 1 .. PoolSize
  <2>1. Total \in Nat \ {0} /\ PoolSize \in Nat \ {0}
    BY <1>1, <1>2, DiscoveryAssumption
  <2> HIDE DEF Total
  <2> QED
    BY <2>1 DEF Pool
<1>4. (Index(h) - 1) % Pool \in 0 .. Pool - 1
  <2>1. Index(h) - 1 \in Int /\ Pool \in Nat \ {0}
    BY <1>2, <1>3, DiscoveryAssumption
  <2> QED
    BY <2>1, ModRange
<1>5. Slot(h) \in 0 .. Pool - 1
  BY <1>4 DEF Slot
<1>6. PoolSize \in Nat
  BY DiscoveryAssumption
<1> QED
  BY <1>3, <1>5, <1>6 DEF Slots

LEMMA FlightCounts ==
    ASSUME NEW s
    PROVE  IsFiniteSet(Flight(s)) /\ Cardinality(Flight(s)) \in Nat
  BY DiscoveryAssumption, FS_Subset, FS_CardinalityType DEF Flight, InFlight

LEMMA FinishedCounts == IsFiniteSet(Finished) /\ Cardinality(Finished) \in Nat
  BY DiscoveryAssumption, FS_Subset, FS_CardinalityType DEF Finished

LEMMA SameSlots ==
    ASSUME UNCHANGED order
    PROVE  UNCHANGED <<Total, Pool, Listed>> /\ \A h \in Hosts : Slot(h)' = Slot(h)
  BY DEF Total, Pool, Listed, Slot, Index

\* A permit of the slot of a probe that runs is out.
LEMMA PermitOut ==
    ASSUME SweepInv, stage \in {"probing", "raised"}, NEW h \in InFlight
    PROVE  h \in Listed /\ permits[Slot(h)] \in 0 .. PerEngine - 1
<1>1. h \in Listed
  BY DEF SweepInv, ProbesListed, InFlight
<1>2. Slot(h) \in 0 .. Pool - 1 /\ Slot(h) \in Slots
  BY <1>1, SlotOfListed DEF SweepInv
<1>3. permits[Slot(h)] + Cardinality(Flight(Slot(h))) = PerEngine
  BY <1>2 DEF SweepInv, PermitsConserved, Flight
<1>4. h \in Flight(Slot(h))
  BY DEF Flight
<1>5. Cardinality(Flight(Slot(h))) \in Nat /\ Cardinality(Flight(Slot(h))) # 0
  BY <1>4, FlightCounts, FS_EmptySet
<1>6. permits[Slot(h)] \in 0 .. PerEngine
  BY <1>2 DEF SweepInv, TypeAndList, TypeOK
<1> QED
  BY <1>1, <1>3, <1>5, <1>6, DiscoveryAssumption

-----------------------------------------------------------------------------
(* The steps.                                                               *)

LEMMA SweepInvInit == Init => SweepInv
<1> SUFFICES ASSUME Init PROVE SweepInv
  OBVIOUS
<1>1. Total = 0 /\ Listed = {} /\ order \in [1 .. Total -> Hosts]
  BY EmptyList DEF Init
<1>2. TypeAndList
  <2>1. session \in [Hosts -> [engine : Slots \cup {None}, owns : BOOLEAN]]
    BY DEF Init, Session
  <2> QED
    BY <1>1, <2>1, FS_EmptySet, DiscoveryAssumption DEF Init, TypeAndList, TypeOK
<1>3. SessionsLent
  BY DEF Init, SessionsLent, InFlight
<1> QED
  BY <1>2, <1>3 DEF Init, SweepInv, PermitsConserved, PoolOpen, NoneLeft, ProgressExact,
                    Unstarted, ProbesListed

LEMMA StartKeeps ==
    ASSUME SweepInv, Start
    PROVE  SweepInv'
<1> USE DEF SweepInv, TypeAndList
<1>1. Candidates \subseteq Hosts
  BY DEF Candidates, InArp
<1>2. PICK s \in [1 .. Cardinality(Candidates) -> Candidates] :
        /\ \A i, j \in DOMAIN s : s[i] = s[j] => i = j
        /\ order' = s
  BY DEF Start
<1>3. /\ stage = "start" /\ stage' \in {"returned", "building"}
      /\ UNCHANGED <<purpose, where, arp, task, session, got, permits, engines, done>>
  BY DEF Start, probeVars, envVars
<1>4. Total' = Cardinality(Candidates) /\ Total' \in Nat /\ Cardinality(Listed') = Total'
  <2> DEFINE range == {h \in Hosts : \E i \in DOMAIN s : s[i] = h}
  <2>1. /\ Cardinality(Candidates) \in Nat
        /\ Cardinality(DOMAIN s) = Cardinality(Candidates)
        /\ Cardinality(range) = Cardinality(Candidates)
    BY <1>1, <1>2, ListOfSet
  <2>2. Total' = Cardinality(DOMAIN s) /\ Listed' = range
    BY <1>2 DEF Total, Listed
  <2> QED
    BY <2>1, <2>2
<1>5. order' \in [1 .. Total' -> Hosts]
  BY <1>1, <1>2, <1>4
<1>6. TypeAndList'
  BY <1>3, <1>4, <1>5 DEF TypeOK
<1>7. done = 0 /\ task = [h \in Hosts |-> "idle"]
  BY <1>3 DEF Unstarted
<1>8. Finished' = {}
  BY <1>3, <1>7 DEF Finished
<1>9. ProgressExact'
  BY <1>3, <1>7, <1>8, FS_EmptySet DEF ProgressExact, Finished
<1>10. InFlight' = {}
  BY <1>3, <1>7 DEF InFlight
<1>11. PermitsConserved'
  <2> SUFFICES ASSUME stage' = "returned" PROVE Pool' = 0
    BY <1>3 DEF PermitsConserved
  <2>1. Candidates = {}
    BY DEF Start
  <2>2. Total' = 0
    BY <1>4, <2>1, FS_EmptySet
  <2> QED
    BY <2>2, DiscoveryAssumption DEF Pool
<1>12. SessionsLent' /\ NoneLeft' /\ ProbesListed'
  BY <1>3, <1>7, <1>10 DEF SessionsLent, NoneLeft, ProbesListed
<1> QED
  BY <1>3, <1>6, <1>7, <1>9, <1>11, <1>12 DEF PoolOpen, Unstarted

LEMMA BuildKeeps ==
    ASSUME SweepInv, Build
    PROVE  SweepInv'
<1> USE DEF SweepInv, TypeAndList
<1>1. /\ stage = "building" /\ stage' = "probing"
      /\ engines' = 0 .. Pool - 1
      /\ permits' = [s \in Slots |-> IF s < Pool THEN PerEngine ELSE 0]
      /\ task' = [h \in Hosts |-> IF h \in Listed THEN "waiting" ELSE "idle"]
      /\ UNCHANGED <<purpose, order, session, got, done, where, arp, troubles>>
  BY DEF Build, envVars
<1>2. Total' = Total /\ Pool' = Pool /\ Listed' = Listed
  BY <1>1, SameSlots
<1>3. Pool \in 0 .. PoolSize /\ PoolSize \in Nat
  BY DiscoveryAssumption DEF Pool
<1>4. PerEngine \in Nat
  BY DiscoveryAssumption
<1>5. TypeAndList'
  <2>1. engines' \in SUBSET Slots
    BY <1>1, <1>3 DEF Slots
  <2>2. permits' \in [Slots -> 0 .. PerEngine]
    BY <1>1, <1>4
  <2>3. task' \in [Hosts -> {"idle", "waiting", "head", "details", "over"}]
    BY <1>1
  <2>4. order' \in [1 .. Total' -> Hosts] /\ Cardinality(Listed') = Total' /\ Total' \in Nat
    BY <1>1, <1>2 DEF TypeOK
  <2> QED
    BY <1>1, <2>1, <2>2, <2>3, <2>4 DEF TypeOK
<1>6. PermitsConserved'
  <2>1. \A s : Flight(s)' = {}
    BY <1>1 DEF Flight, InFlight
  <2>2. ASSUME NEW s \in 0 .. Pool - 1 PROVE permits'[s] = PerEngine
    BY <1>1, <1>3, <2>2 DEF Slots
  <2> QED
    BY <1>2, <1>4, <2>1, <2>2, FS_EmptySet DEF PermitsConserved, Flight
<1>7. ProgressExact'
  <2>1. done = 0 /\ Finished' = {}
    BY <1>1 DEF Unstarted, Finished
  <2> QED
    BY <1>1, <2>1, FS_EmptySet DEF ProgressExact, Finished
<1>8. PoolOpen' /\ NoneLeft' /\ Unstarted' /\ ProbesListed'
  BY <1>1, <1>2 DEF PoolOpen, NoneLeft, Unstarted, ProbesListed
<1>9. SessionsLent'
  BY <1>1 DEF SessionsLent, InFlight
<1> QED
  BY <1>5, <1>6, <1>7, <1>8, <1>9

LEMMA AcquireKeeps ==
    ASSUME SweepInv, NEW h \in Listed, Acquire(h)
    PROVE  SweepInv'
<1> USE DEF SweepInv, TypeAndList
<1>1. /\ stage \in {"probing", "raised"} /\ task[h] = "waiting" /\ permits[Slot(h)] > 0
      /\ h \in Hosts
      /\ task' = [task EXCEPT ![h] = "head"]
      /\ session' = [session EXCEPT ![h] = Session(Slot(h))]
      /\ permits' = [permits EXCEPT ![Slot(h)] = @ - 1]
      /\ UNCHANGED <<purpose, stage, order, engines, got, done, where, arp>>
  BY DEF Acquire, sweepVars, envVars, Listed
<1>2. Slot(h) \in 0 .. Pool - 1 /\ Slot(h) \in Slots /\ 0 .. Pool - 1 \subseteq Slots
  BY SlotOfListed, DiscoveryAssumption DEF Slots
<1>3. /\ UNCHANGED <<Total, Pool, Listed>> /\ \A g \in Hosts : Slot(g)' = Slot(g)
  BY <1>1, SameSlots
<1>4. /\ task \in [Hosts -> {"idle", "waiting", "head", "details", "over"}]
      /\ permits \in [Slots -> 0 .. PerEngine]
      /\ session \in [Hosts -> [engine : Slots \cup {None}, owns : BOOLEAN]]
  BY DEF TypeOK
<1>5. permits'[Slot(h)] = permits[Slot(h)] - 1 /\ permits'[Slot(h)] \in 0 .. PerEngine
      /\ \A s \in Slots \ {Slot(h)} : permits'[s] = permits[s]
  BY <1>1, <1>2, <1>4, DiscoveryAssumption
<1>6. TypeAndList'
  <2>1. permits' \in [Slots -> 0 .. PerEngine]
    BY <1>1, <1>4, <1>5
  <2>2. task' \in [Hosts -> {"idle", "waiting", "head", "details", "over"}]
    BY <1>1, <1>4
  <2>3. session' \in [Hosts -> [engine : Slots \cup {None}, owns : BOOLEAN]]
    BY <1>1, <1>2, <1>4 DEF Session
  <2> QED
    BY <1>1, <1>3, <2>1, <2>2, <2>3 DEF TypeOK
<1>7. PermitsConserved'
  <2>1. InFlight' = InFlight \cup {h} /\ h \notin InFlight
    BY <1>1, <1>4 DEF InFlight
  <2>2. SUFFICES ASSUME NEW s \in 0 .. Pool - 1
                 PROVE  permits'[s] + Cardinality(Flight(s)') = PerEngine
    BY <1>3 DEF PermitsConserved, Flight
  <2>3. s \in Slots
    BY <1>2, <2>2
  <2>4. permits[s] + Cardinality(Flight(s)) = PerEngine
    BY <1>1, <2>2 DEF PermitsConserved, Flight
  <2>5. CASE s = Slot(h)
    <3>1. Flight(s)' = Flight(s) \cup {h} /\ h \notin Flight(s)
      BY <1>1, <1>3, <2>1, <2>5 DEF Flight, InFlight
    <3>2. Cardinality(Flight(s)') = Cardinality(Flight(s)) + 1
      BY <3>1, FlightCounts, FS_AddElement
    <3> QED
      BY <1>4, <1>5, <2>3, <2>4, <2>5, <3>2, FlightCounts
  <2>6. CASE s # Slot(h)
    <3>1. Flight(s)' = Flight(s)
      BY <1>1, <1>3, <2>1, <2>6 DEF Flight, InFlight
    <3> QED
      BY <1>5, <2>3, <2>4, <2>6, <3>1
  <2> QED
    BY <2>5, <2>6
<1>8. ProgressExact'
  <2>1. Finished' = Finished
    BY <1>1, <1>4 DEF Finished
  <2> QED
    BY <1>1, <2>1 DEF ProgressExact, Finished
<1>9. PoolOpen' /\ NoneLeft' /\ Unstarted' /\ ProbesListed'
  BY <1>1, <1>3, <1>4 DEF PoolOpen, NoneLeft, Unstarted, ProbesListed
<1>10. SessionsLent'
  <2>1. Session(Slot(h)) = [engine |-> Slot(h), owns |-> FALSE]
    BY <1>2, DiscoveryAssumption DEF Session, Slots
  <2>2. InFlight' = InFlight \cup {h} /\ InFlight \subseteq Hosts
    BY <1>1, <1>4 DEF InFlight
  <2> QED
    BY <1>1, <1>3, <1>4, <2>1, <2>2 DEF SessionsLent
<1> QED
  BY <1>6, <1>7, <1>8, <1>9, <1>10

\* The session of a probe leaves the engine that it was lent.
LEMMA LentStays ==
    ASSUME SweepInv, NEW h \in InFlight, SessionClosed(h)
    PROVE  engines' = engines
<1>1. session[h] = [engine |-> Slot(h), owns |-> FALSE]
  BY DEF SweepInv, SessionsLent
<1>2. session[h].owns = FALSE
  BY <1>1
<1> QED
  BY <1>2 DEF SessionClosed

\* What the end of a probe does to the permits, whether it ends the sweep or
\* not.
LEMMA GivesBack ==
    ASSUME SweepInv, stage \in {"probing", "raised"}, NEW h \in InFlight,
           task' = [task EXCEPT ![h] = "over"],
           permits' = [permits EXCEPT ![Slot(h)] = @ + 1],
           UNCHANGED <<order, session>>
    PROVE  /\ task' \in [Hosts -> {"idle", "waiting", "head", "details", "over"}]
           /\ permits' \in [Slots -> 0 .. PerEngine]
           /\ PermitsConserved' /\ SessionsLent' /\ ProbesListed'
<1> USE DEF SweepInv, TypeAndList
<1>1. h \in Hosts /\ h \in Listed /\ permits[Slot(h)] \in 0 .. PerEngine - 1
  BY PermitOut DEF InFlight
<1>2. Slot(h) \in 0 .. Pool - 1 /\ Slot(h) \in Slots /\ 0 .. Pool - 1 \subseteq Slots
  BY <1>1, SlotOfListed, DiscoveryAssumption DEF Slots
<1>3. UNCHANGED <<Total, Pool, Listed>> /\ \A g \in Hosts : Slot(g)' = Slot(g)
  BY SameSlots
<1>4. /\ task \in [Hosts -> {"idle", "waiting", "head", "details", "over"}]
      /\ permits \in [Slots -> 0 .. PerEngine]
  BY DEF TypeOK
<1>5. permits'[Slot(h)] = permits[Slot(h)] + 1 /\ permits'[Slot(h)] \in 0 .. PerEngine
      /\ \A s \in Slots \ {Slot(h)} : permits'[s] = permits[s]
  BY <1>1, <1>2, <1>4, DiscoveryAssumption
<1>6. permits' \in [Slots -> 0 .. PerEngine]
  BY <1>4, <1>5
<1>7. task' \in [Hosts -> {"idle", "waiting", "head", "details", "over"}]
  BY <1>4
<1>8. InFlight' = InFlight \ {h} /\ InFlight \subseteq Hosts
  BY <1>1, <1>4 DEF InFlight
<1>9. PermitsConserved'
  <2>1. SUFFICES ASSUME NEW s \in 0 .. Pool - 1
                 PROVE  permits'[s] + Cardinality(Flight(s)') = PerEngine
    BY <1>3 DEF PermitsConserved, Flight
  <2>2. s \in Slots
    BY <1>2, <2>1
  <2>3. permits[s] + Cardinality(Flight(s)) = PerEngine
    BY <2>1 DEF PermitsConserved, Flight
  <2>4. CASE s = Slot(h)
    <3>1. Flight(s)' = Flight(s) \ {h} /\ h \in Flight(s)
      BY <1>3, <1>8, <2>4 DEF Flight
    <3>2. Cardinality(Flight(s)') = Cardinality(Flight(s)) - 1
      BY <3>1, FlightCounts, FS_RemoveElement
    <3> QED
      BY <1>1, <1>5, <2>2, <2>3, <2>4, <3>2, FlightCounts
  <2>5. CASE s # Slot(h)
    <3>1. Flight(s)' = Flight(s)
      BY <1>3, <1>8, <2>5 DEF Flight
    <3> QED
      BY <1>5, <2>2, <2>3, <2>5, <3>1
  <2> QED
    BY <2>4, <2>5
<1>10. SessionsLent'
  BY <1>3, <1>8 DEF SessionsLent
<1>11. ProbesListed'
  BY <1>1, <1>3, <1>4 DEF ProbesListed
<1> QED
  BY <1>6, <1>7, <1>9, <1>10, <1>11

\* The end of a probe for which the sweep waits.
LEMMA OverCounts ==
    ASSUME SweepInv, NEW h \in InFlight, NEW p \in Pdus \cup {None}, Over(h, p),
           stage = "probing", UNCHANGED <<purpose, stage, order, session, where, arp>>
    PROVE  SweepInv'
<1> USE DEF SweepInv, TypeAndList
<1>1. /\ h \in Hosts /\ task[h] \in {"head", "details"}
      /\ task' = [task EXCEPT ![h] = "over"]
      /\ got' = [got EXCEPT ![h] = p]
      /\ permits' = [permits EXCEPT ![Slot(h)] = @ + 1]
      /\ done' = done + 1
  BY DEF Over, InFlight
<1>2. engines' = engines
  BY LentStays DEF Over
<1>3. /\ task' \in [Hosts -> {"idle", "waiting", "head", "details", "over"}]
      /\ permits' \in [Slots -> 0 .. PerEngine]
      /\ PermitsConserved' /\ SessionsLent' /\ ProbesListed'
  BY <1>1, GivesBack
<1>4. UNCHANGED <<Total, Pool, Listed>> /\ \A g \in Hosts : Slot(g)' = Slot(g)
  BY SameSlots
<1>5. task \in [Hosts -> {"idle", "waiting", "head", "details", "over"}]
  BY DEF TypeOK
<1>6. TypeAndList'
  <2>1. got' \in [Hosts -> Pdus \cup {None}] /\ done' \in Nat
    BY <1>1 DEF TypeOK
  <2> QED
    BY <1>2, <1>3, <1>4, <2>1 DEF TypeOK
<1>7. ProgressExact'
  <2>1. Finished' = Finished \cup {h} /\ h \notin Finished
    BY <1>1, <1>5 DEF Finished
  <2>2. Cardinality(Finished') = Cardinality(Finished) + 1
    BY <2>1, FinishedCounts, FS_AddElement
  <2>3. done = Cardinality(Finished)
    BY DEF ProgressExact, Finished
  <2> QED
    BY <1>1, <2>2, <2>3 DEF ProgressExact, Finished
<1>8. PoolOpen' /\ NoneLeft' /\ Unstarted'
  BY <1>2, <1>4 DEF PoolOpen, NoneLeft, Unstarted
<1> QED
  BY <1>3, <1>6, <1>7, <1>8

LEMMA HeadAnsweredKeeps ==
    ASSUME SweepInv, NEW h \in Listed, HeadAnswered(h)
    PROVE  SweepInv'
<1> USE DEF SweepInv, TypeAndList
<1>1. /\ stage = "probing" /\ task[h] = "head" /\ h \in Hosts
      /\ task' = [task EXCEPT ![h] = "details"]
      /\ UNCHANGED <<purpose, stage, order, engines, session, got, permits, done, where, arp>>
  BY DEF HeadAnswered, Probing, sweepVars, envVars, Listed
<1>2. UNCHANGED <<Total, Pool, Listed>> /\ \A g \in Hosts : Slot(g)' = Slot(g)
  BY <1>1, SameSlots
<1>3. task \in [Hosts -> {"idle", "waiting", "head", "details", "over"}]
  BY DEF TypeOK
<1>4. TypeAndList'
  <2>1. task' \in [Hosts -> {"idle", "waiting", "head", "details", "over"}]
    BY <1>1, <1>3
  <2> QED
    BY <1>1, <1>2, <2>1 DEF TypeOK
<1>5. InFlight' = InFlight /\ Finished' = Finished /\ InFlight \subseteq Hosts
  BY <1>1, <1>3 DEF InFlight, Finished
<1>6. \A s : Flight(s)' = Flight(s)
  BY <1>2, <1>5 DEF Flight, InFlight
<1>7. PermitsConserved'
  BY <1>1, <1>2, <1>6 DEF PermitsConserved, Flight
<1>8. ProgressExact'
  BY <1>1, <1>5 DEF ProgressExact, Finished
<1>9. SessionsLent'
  BY <1>1, <1>2, <1>5 DEF SessionsLent
<1>10. PoolOpen' /\ NoneLeft' /\ Unstarted' /\ ProbesListed'
  BY <1>1, <1>2, <1>3 DEF PoolOpen, NoneLeft, Unstarted, ProbesListed
<1> QED
  BY <1>4, <1>7, <1>8, <1>9, <1>10

\* A probe that raises ends the sweep; one that goes on after it does not.
LEMMA RaisedKeeps ==
    ASSUME SweepInv, NEW h \in Listed, Raises(h) \/ Abandoned(h)
    PROVE  SweepInv'
<1> USE DEF SweepInv, TypeAndList
<1>1. /\ stage \in {"probing", "raised"} /\ stage' = "raised"
      /\ h \in InFlight
      /\ task' = [task EXCEPT ![h] = "over"]
      /\ permits' = [permits EXCEPT ![Slot(h)] = @ + 1]
      /\ done' \in {done, done + 1}
      /\ UNCHANGED <<purpose, order, session, got, where, arp>>
  BY DEF Raises, Abandoned, Probing, InFlight, Listed, envVars
<1>2. engines' \in {engines, {}}
  BY <1>1, LentStays DEF Raises, Abandoned
<1>3. /\ task' \in [Hosts -> {"idle", "waiting", "head", "details", "over"}]
      /\ permits' \in [Slots -> 0 .. PerEngine]
      /\ PermitsConserved' /\ SessionsLent' /\ ProbesListed'
  BY <1>1, GivesBack
<1>4. TypeAndList'
  <2>1. done' \in Nat
    BY <1>1 DEF TypeOK
  <2>2. engines' \in SUBSET Slots
    BY <1>2 DEF TypeOK
  <2>3. UNCHANGED <<Total, Listed>>
    BY <1>1, SameSlots
  <2> QED
    BY <1>1, <1>3, <2>1, <2>2, <2>3 DEF TypeOK
<1> QED
  BY <1>1, <1>3, <1>4 DEF PoolOpen, NoneLeft, ProgressExact, Unstarted

LEMMA CancelledKeeps ==
    ASSUME SweepInv, Cancelled
    PROVE  SweepInv'
<1> USE DEF SweepInv, TypeAndList
<1>1. /\ task' = [h \in Hosts |-> IF task[h] = "idle" THEN "idle" ELSE "over"]
      /\ permits' = [s \in Slots |-> permits[s] + Cardinality(Flight(s))]
      /\ stage \in {"building", "probing"} /\ stage' = "cancelled" /\ engines' = {}
      /\ UNCHANGED <<purpose, order, session, got, done, where, arp>>
  BY DEF Cancelled, Flight
<1>2. PerEngine \in Nat /\ permits \in [Slots -> 0 .. PerEngine]
  BY DiscoveryAssumption DEF TypeOK
<1>3. ASSUME NEW s \in Slots PROVE permits[s] + Cardinality(Flight(s)) \in 0 .. PerEngine
  <2>1. CASE Flight(s) = {}
    BY <1>2, <2>1, FS_EmptySet
  <2>2. CASE Flight(s) # {}
    <3>1. PICK h \in InFlight : Slot(h) = s
      BY <2>2 DEF Flight
    <3>2. stage = "probing"
      BY <1>1, <3>1 DEF Unstarted, InFlight
    <3>3. s \in 0 .. Pool - 1
      BY <3>1, <3>2, PermitOut, SlotOfListed
    <3>4. permits[s] + Cardinality(Flight(s)) = PerEngine
      BY <3>2, <3>3 DEF PermitsConserved, Flight
    <3> QED
      BY <1>2, <3>4
  <2> QED
    BY <2>1, <2>2
<1>4. TypeAndList'
  <2>1. permits' \in [Slots -> 0 .. PerEngine]
    BY <1>1, <1>3
  <2>2. task' \in [Hosts -> {"idle", "waiting", "head", "details", "over"}]
    BY <1>1
  <2> QED
    BY <1>1, <2>1, <2>2, SameSlots DEF TypeOK
<1>5. \A h \in Hosts : task'[h] \in {"idle", "over"}
  BY <1>1
<1> QED
  BY <1>1, <1>4, <1>5 DEF PermitsConserved, PoolOpen, NoneLeft, SessionsLent, InFlight,
                          ProgressExact, Unstarted, ProbesListed

LEMMA ReturnsKeeps ==
    ASSUME SweepInv, Returns
    PROVE  SweepInv'
<1> USE DEF SweepInv, TypeAndList
<1>1. /\ stage = "probing" /\ stage' = "returned" /\ engines' = {}
      /\ \A h \in Listed : task[h] = "over"
      /\ UNCHANGED <<purpose, order, task, session, got, permits, done, where, arp>>
  BY DEF Returns, probeVars, envVars
<1>2. UNCHANGED <<Total, Pool, Listed>> /\ \A g \in Hosts : Slot(g)' = Slot(g)
  BY <1>1, SameSlots
<1>3. TypeAndList'
  BY <1>1, <1>2 DEF TypeOK
<1>4. \A s : Flight(s)' = Flight(s)
  BY <1>1, <1>2 DEF Flight, InFlight
<1>5. PermitsConserved'
  BY <1>1, <1>2, <1>4 DEF PermitsConserved, Flight
<1>6. NoneLeft'
  BY <1>1 DEF NoneLeft, ProbesListed
<1>7. SessionsLent'
  BY <1>1, <1>2 DEF SessionsLent, InFlight
<1>8. ProgressExact'
  BY <1>1 DEF ProgressExact
<1> QED
  BY <1>1, <1>2, <1>3, <1>5, <1>6, <1>7, <1>8 DEF PoolOpen, Unstarted, ProbesListed

LEMMA MoveKeeps ==
    ASSUME SweepInv, NEW p \in Pdus, NEW h \in Hosts \cup {None}, Move(p, h)
    PROVE  SweepInv'
<1> USE DEF SweepInv, TypeAndList
<1>1. /\ where' = [where EXCEPT ![p] = h]
      /\ UNCHANGED <<purpose, stage, order, engines, task, session, got, permits, done, arp>>
  BY DEF Move, sweepVars, probeVars
<1>2. UNCHANGED <<Total, Pool, Listed>> /\ \A g \in Hosts : Slot(g)' = Slot(g)
  BY <1>1, SameSlots
<1>3. TypeAndList'
  BY <1>1, <1>2 DEF TypeOK
<1>4. \A s : Flight(s)' = Flight(s)
  BY <1>1, <1>2 DEF Flight, InFlight
<1>5. PermitsConserved'
  BY <1>1, <1>2, <1>4 DEF PermitsConserved, Flight
<1>6. PoolOpen' /\ NoneLeft' /\ SessionsLent' /\ ProgressExact' /\ Unstarted' /\ ProbesListed'
  BY <1>1, <1>2 DEF PoolOpen, NoneLeft, SessionsLent, InFlight, ProgressExact, Unstarted,
                    ProbesListed
<1> QED
  BY <1>3, <1>5, <1>6

LEMMA ProbeKeeps ==
    ASSUME SweepInv, NEW h \in Listed, Probe(h)
    PROVE  SweepInv'
<1>1. CASE DetailsAnswered(h)
  <2>1. PICK p \in Pdus : Over(h, p)
    BY <1>1 DEF DetailsAnswered, Occupant
  <2>2. h \in InFlight /\ stage = "probing"
        /\ UNCHANGED <<purpose, stage, order, session, where, arp>>
    BY <1>1 DEF DetailsAnswered, Probing, InFlight, Listed, envVars
  <2> QED
    BY <2>1, <2>2, OverCounts
<1>2. CASE Unanswered(h)
  <2>1. Over(h, None)
    BY <1>2 DEF Unanswered
  <2>2. h \in InFlight /\ stage = "probing"
        /\ UNCHANGED <<purpose, stage, order, session, where, arp>>
    BY <1>2 DEF Unanswered, Probing, InFlight, Listed
  <2> QED
    BY <2>1, <2>2, OverCounts
<1> QED
  BY <1>1, <1>2, AcquireKeeps, HeadAnsweredKeeps, RaisedKeeps DEF Probe

LEMMA SweepInvStep == SweepInv /\ [Next]_vars => SweepInv'
<1> SUFFICES ASSUME SweepInv, [Next]_vars PROVE SweepInv'
  OBVIOUS
<1>1. CASE Sweep
  BY <1>1, StartKeeps, BuildKeeps, ReturnsKeeps, ProbeKeeps DEF Sweep
<1>2. CASE Cancelled
  BY <1>2, CancelledKeeps
<1>3. ASSUME NEW p \in Pdus, NEW h \in Hosts \cup {None}, Move(p, h) PROVE SweepInv'
  BY <1>3, MoveKeeps
<1>4. ASSUME NEW h \in Listed, Abandoned(h) PROVE SweepInv'
  BY <1>4, RaisedKeeps
<1>5. CASE UNCHANGED vars
  <2> USE DEF SweepInv, TypeAndList
  <2>1. UNCHANGED <<purpose, stage, order, engines, task, session, got, permits, done, where, arp>>
    BY <1>5 DEF vars, sweepVars, probeVars, envVars
  <2>2. UNCHANGED <<Total, Pool, Listed>> /\ \A g \in Hosts : Slot(g)' = Slot(g)
    BY <2>1, SameSlots
  <2>3. TypeAndList'
    BY <2>1, <2>2 DEF TypeOK
  <2>4. \A s : Flight(s)' = Flight(s)
    BY <2>1, <2>2 DEF Flight, InFlight
  <2>5. PermitsConserved'
    BY <2>1, <2>2, <2>4 DEF PermitsConserved, Flight
  <2>6. PoolOpen' /\ NoneLeft' /\ SessionsLent' /\ ProgressExact' /\ Unstarted' /\ ProbesListed'
    BY <2>1, <2>2 DEF PoolOpen, NoneLeft, SessionsLent, InFlight, ProgressExact, Unstarted,
                      ProbesListed
  <2> QED
    BY <2>3, <2>5, <2>6
<1> QED
  BY <1>1, <1>2, <1>3, <1>4, <1>5 DEF Next

THEOREM SweepInvHolds == Spec => []SweepInv
  BY SweepInvInit, SweepInvStep, PTL DEF Spec

-----------------------------------------------------------------------------
(* What follows from it.                                                    *)

\* The types of a sweep; the list names every candidate once, so that a host is
\* probed once (discovery.py, async_discover_pdus).
THEOREM SweepTypes == Spec => []TypeOK
<1>1. SweepInv => TypeOK
  BY DEF SweepInv, TypeAndList
<1> QED
  BY <1>1, SweepInvHolds, PTL

\* However the probes of an engine end, its permits and its running probes add
\* up (discovery.py, _probe_hosts): never too many probes on an engine, and
\* never a semaphore that stays shut.
THEOREM NoPermitLost == Spec => []PermitsConserved
<1>1. SweepInv => PermitsConserved
  BY DEF SweepInv
<1> QED
  BY <1>1, SweepInvHolds, PTL

\* Until a sweep raises, each probe that runs has the engine of its session
\* open, and each that waits the engine of its slot: neither the sessions of
\* other probes close it, nor the sweep itself before its last probe is over or
\* cancelled (discovery.py, _probe_hosts; snmp.py, close).
THEOREM EnginesStayOpen == Spec => []EnginesOutliveProbes
<1>1. SweepInv => EnginesOutliveProbes
  <2> SUFFICES ASSUME SweepInv, stage # "raised", NEW h \in Hosts,
                      task[h] \in {"waiting", "head", "details"}
               PROVE  /\ Slot(h) \in engines
                      /\ h \in InFlight => session[h].engine \in engines
    BY DEF EnginesOutliveProbes, InFlight
  <2>1. stage = "probing"
    BY DEF SweepInv, TypeAndList, TypeOK, Unstarted, NoneLeft
  <2>2. h \in Listed
    BY <2>1 DEF SweepInv, ProbesListed
  <2>3. Slot(h) \in engines
    BY <2>1, <2>2, SlotOfListed DEF SweepInv, PoolOpen
  <2>4. ASSUME h \in InFlight PROVE session[h].engine \in engines
    <3>1. session[h] = [engine |-> Slot(h), owns |-> FALSE]
      BY <2>4 DEF SweepInv, SessionsLent
    <3>2. session[h].engine = Slot(h)
      BY <3>1
    <3> QED
      BY <2>3, <3>2
  <2> QED
    BY <2>3, <2>4
<1> QED
  BY <1>1, SweepInvHolds, PTL

\* The progress told is the number of probes that are over, in any order of
\* their ends (discovery.py, _bounded).
THEOREM ProgressCounts == Spec => []ProgressExact
<1>1. SweepInv => ProgressExact
  BY DEF SweepInv
<1> QED
  BY <1>1, SweepInvHolds, PTL

-----------------------------------------------------------------------------
(* Nothing is missed.                                                       *)

\* Two PDUs are never at one address.
Apart == \A p, q \in Pdus : where[p] # None /\ where[p] = where[q] => p = q

\* Without troubles, the probe of an address returns the PDU that is there.
Faithful ==
    troubles = 0 =>
        \A p \in Pdus, h \in Hosts : where[p] = h /\ task[h] = "over" => got[h] = p

AllListed == stage \in {"building", "probing", "returned"} => Candidates \subseteq Listed

AllOver == stage = "returned" => \A h \in Listed : task[h] = "over"

\* Nothing raises by itself.
RaiseIsTrouble == stage = "raised" => troubles # 0

Thorough == troubles \in Nat /\ RaiseIsTrouble /\ Apart /\ Faithful /\ AllListed /\ AllOver

LEMMA ThoroughInit == Init => Thorough
<1> SUFFICES ASSUME Init PROVE Thorough
  OBVIOUS
<1>1. Apart
  <2> SUFFICES ASSUME NEW p \in Pdus, NEW q \in Pdus, where[p] # None,
                      where[p] = where[q], p # q
               PROVE  FALSE
    BY DEF Apart
  <2> DEFINE h == where[p]
  <2>1. h \in Hosts /\ {p} \subseteq Occupant(h) /\ {p} \cup {q} \subseteq Occupant(h)
    BY DEF Init, Occupant
  <2>2. IsFiniteSet(Occupant(h))
    BY DiscoveryAssumption, FS_Subset DEF Occupant
  <2>3. IsFiniteSet({p}) /\ Cardinality({p}) = 1
    BY FS_Singleton
  <2>4. Cardinality({p} \cup {q}) = 2
    <3>1. q \notin {p}
      OBVIOUS
    <3>2. Cardinality({p} \cup {q}) = Cardinality({p}) + 1
      BY <2>3, <3>1, FS_AddElement, Zenon
    <3> QED
      BY <2>3, <3>2
  <2>5. Cardinality({p} \cup {q}) <= Cardinality(Occupant(h))
    BY <2>1, <2>2, FS_Subset
  <2>6. Cardinality(Occupant(h)) <= 1 /\ Cardinality(Occupant(h)) \in Nat
    BY <2>1, <2>2, FS_CardinalityType DEF Init
  <2> QED
    BY <2>4, <2>5, <2>6
<1> QED
  BY <1>1 DEF Init, Thorough, RaiseIsTrouble, Faithful, AllListed, AllOver

LEMMA StartThorough ==
    ASSUME SweepInv, Thorough, Start, SweepInv'
    PROVE  Thorough'
<1>1. /\ stage = "start" /\ (stage' = "returned" => Candidates = {})
      /\ UNCHANGED <<purpose, where, arp, task, got, troubles>>
  BY DEF Start, probeVars, envVars
<1>2. PICK s \in [1 .. Cardinality(Candidates) -> Candidates] :
        /\ \A i, j \in DOMAIN s : s[i] = s[j] => i = j
        /\ order' = s
  BY DEF Start
<1>3. Candidates \subseteq Hosts
  BY DEF Candidates, InArp
<1>4. Listed' \subseteq Candidates /\ Cardinality(Listed') = Cardinality(Candidates)
  <2> DEFINE range == {h \in Hosts : \E i \in DOMAIN s : s[i] = h}
  <2>1. Cardinality(range) = Cardinality(Candidates)
    BY <1>2, <1>3, ListOfSet
  <2> QED
    BY <1>2, <2>1 DEF Listed
<1>5. Listed' = Candidates
  BY <1>3, <1>4, DiscoveryAssumption, FS_Subset
<1>6. AllListed'
  BY <1>1, <1>5 DEF AllListed, Candidates, InArp
<1>7. AllOver'
  BY <1>1, <1>5 DEF AllOver
<1> QED
  BY <1>1, <1>6, <1>7 DEF Start, Thorough, RaiseIsTrouble, Apart, Faithful

LEMMA ProbeThorough ==
    ASSUME SweepInv, Thorough, NEW h \in Listed, Probe(h)
    PROVE  Thorough'
<1> USE DEF Thorough
<1>1. /\ h \in Hosts
      /\ \/ stage = "probing" /\ stage' \in {"probing", "raised"}
         \/ stage = "raised" /\ stage' = "raised"
      /\ UNCHANGED <<purpose, order, where, arp>>
  BY DEF Listed, Probe, Acquire, HeadAnswered, DetailsAnswered, Unanswered, Raises,
         Probing, sweepVars, envVars
<1>2. Apart' /\ AllListed' /\ AllOver'
  BY <1>1, SameSlots DEF Apart, AllListed, AllOver, Candidates, InArp
<1> USE DEF RaiseIsTrouble
<1>3. /\ task \in [Hosts -> {"idle", "waiting", "head", "details", "over"}]
      /\ got \in [Hosts -> Pdus \cup {None}]
  BY DEF SweepInv, TypeAndList, TypeOK
<1>4. CASE Acquire(h) \/ HeadAnswered(h)
  <2>1. /\ UNCHANGED <<stage, got, troubles>>
        /\ \E t \in {"head", "details"} : task' = [task EXCEPT ![h] = t]
    BY <1>4 DEF Acquire, HeadAnswered, sweepVars, envVars
  <2> QED
    BY <1>1, <1>2, <1>3, <2>1 DEF Faithful
<1>5. CASE DetailsAnswered(h)
  <2>1. PICK p \in Pdus : where[p] = h /\ Over(h, p)
    BY <1>5 DEF DetailsAnswered, Occupant
  <2>2. \A q \in Pdus : where[q] = h => q = p
    BY <1>1, <2>1, DiscoveryAssumption DEF Apart
  <2>3. /\ UNCHANGED <<stage, troubles>>
        /\ task' = [task EXCEPT ![h] = "over"] /\ got' = [got EXCEPT ![h] = p]
    BY <1>5, <2>1 DEF DetailsAnswered, envVars, Over
  <2> QED
    BY <1>1, <1>2, <1>3, <2>2, <2>3 DEF Faithful
<1>6. CASE Unanswered(h)
  <2>1. /\ task' = [task EXCEPT ![h] = "over"] /\ got' = [got EXCEPT ![h] = None]
        /\ \/ Occupant(h) = {} /\ troubles' = troubles
           \/ troubles' = troubles + 1
        /\ UNCHANGED stage
    BY <1>6 DEF Unanswered, Over, Trouble
  <2>2. troubles' = 0 => troubles = 0 /\ \A q \in Pdus : where[q] # h
    BY <2>1 DEF Occupant
  <2> QED
    BY <1>1, <1>2, <1>3, <2>1, <2>2 DEF Faithful
<1>7. CASE Raises(h)
  BY <1>2, <1>7 DEF Raises, Trouble, Faithful
<1> QED
  BY <1>4, <1>5, <1>6, <1>7 DEF Probe

LEMMA ThoroughStep == SweepInv /\ SweepInv' /\ Thorough /\ [Next]_vars => Thorough'
<1> SUFFICES ASSUME SweepInv, SweepInv', Thorough, [Next]_vars PROVE Thorough'
  OBVIOUS
<1>1. CASE Build
  <2>1. /\ stage = "building" /\ stage' = "probing" /\ UNCHANGED <<purpose, order, where, arp, got, troubles>>
        /\ task' = [h \in Hosts |-> IF h \in Listed THEN "waiting" ELSE "idle"]
    BY <1>1 DEF Build, envVars
  <2> QED
    BY <2>1, SameSlots
    DEF Thorough, RaiseIsTrouble, Apart, Faithful, AllListed, AllOver, Candidates, InArp
<1>2. CASE Returns
  BY <1>2, SameSlots
  DEF Returns, Thorough, RaiseIsTrouble, Apart, Faithful, AllListed, AllOver, Candidates,
      InArp, probeVars, envVars
<1>3. CASE Cancelled
  BY <1>3 DEF Cancelled, Trouble, Thorough, RaiseIsTrouble, Apart, Faithful, AllListed, AllOver
<1>4. ASSUME NEW h \in Listed, Abandoned(h) PROVE Thorough'
  <2>1. stage = "raised" /\ UNCHANGED <<stage, where, troubles>>
    BY <1>4 DEF Abandoned, envVars
  <2> QED
    BY <2>1 DEF Thorough, RaiseIsTrouble, Apart, Faithful, AllListed, AllOver
<1>5. ASSUME NEW p \in Pdus, NEW h \in Hosts \cup {None}, Move(p, h) PROVE Thorough'
  <2>1. /\ where' = [where EXCEPT ![p] = h] /\ troubles' = troubles + 1
        /\ h = None \/ Occupant(h) = {}
        /\ UNCHANGED <<purpose, stage, order, arp, task>>
    BY <1>5 DEF Move, Trouble, sweepVars, probeVars
  <2>2. where \in [Pdus -> Hosts \cup {None}]
    BY DEF SweepInv, TypeAndList, TypeOK
  <2>3. h # None => \A q \in Pdus : where[q] # h
    BY <2>1 DEF Occupant
  <2>4. Apart'
    BY <2>1, <2>2, <2>3 DEF Thorough, Apart
  <2> QED
    BY <2>1, <2>4, SameSlots
    DEF Thorough, RaiseIsTrouble, Faithful, AllListed, AllOver, Candidates, InArp
<1>6. CASE UNCHANGED vars
  BY <1>6, SameSlots
  DEF vars, sweepVars, probeVars, envVars, Thorough, RaiseIsTrouble, Apart, Faithful, AllListed, AllOver,
      Candidates, InArp
<1> QED
  BY <1>1, <1>2, <1>3, <1>4, <1>5, <1>6, StartThorough, ProbeThorough DEF Next, Sweep

\* While nothing moves or gets lost, a sweep returns every PDU at an address that
\* it was told or that the ARP table lists, and every PDU of the network if the
\* table lists no address (discovery.py, async_discover_pdus, async_scan_hosts).
THEOREM NothingMissed == Spec => []SweepComplete
<1>1. SweepInv /\ Thorough => SweepComplete
  <2> SUFFICES ASSUME SweepInv, Thorough, stage = "returned", troubles = 0,
                      NEW p \in Pdus, where[p] # None,
                      purpose = "scan" \/ InArp = {} \/ where[p] \in InArp
               PROVE  where[p] \in Found /\ got[where[p]] = p
    BY DEF SweepComplete
  <2>1. where[p] \in Hosts
    BY DEF SweepInv, TypeAndList, TypeOK
  <2>2. where[p] \in Candidates
    BY <2>1 DEF Candidates
  <2>3. where[p] \in Listed /\ task[where[p]] = "over"
    BY <2>2 DEF Thorough, AllListed, AllOver
  <2>4. got[where[p]] = p
    BY <2>1, <2>3 DEF Thorough, Faithful
  <2> QED
    BY <2>3, <2>4, DiscoveryAssumption DEF Found
<1> QED
  BY <1>1, SweepInvHolds, SweepInvInit, SweepInvStep, ThoroughInit, ThoroughStep, PTL DEF Spec

-----------------------------------------------------------------------------
(* The search for one PDU.                                                  *)

\* The host that async_find_host_for_device returns is one that was found and
\* matches.
LEMMA HostMatches ==
    ASSUME TypeAndList, NEW p, HostFor(p) # None
    PROVE  HostFor(p) \in Found /\ Matches(p, HostFor(p))
<1> DEFINE matching == {h \in Found : Matches(p, h)}
           places   == {Index(h) : h \in matching}
<1>1. matching # {}
  BY DEF HostFor
<1>2. \A h \in matching : Index(h) \in Nat
  <2>1. DOMAIN order = 1 .. Total
    BY DEF TypeAndList, TypeOK
  <2>2. ASSUME NEW h \in Listed PROVE Index(h) \in DOMAIN order
    BY <2>2 DEF Listed, Index
  <2> QED
    BY <2>1, <2>2 DEF TypeAndList, Found
<1>3. PICK n \in places : \A m \in places : n <= m
  <2>1. places \subseteq Nat /\ places # {}
    BY <1>1, <1>2
  <2> HIDE DEF places
  <2> QED
    BY <2>1, LeastNumber
<1>4. \E h \in matching : \A g \in matching : Index(h) <= Index(g)
  BY <1>3
<1>5. HostFor(p) = CHOOSE h \in matching : \A g \in matching : Index(h) <= Index(g)
  BY <1>1 DEF HostFor
<1>6. HostFor(p) \in matching
  <2> HIDE DEF matching
  <2> QED
    BY <1>4, <1>5
<1> QED
  BY <1>6

\* A self-heal never moves an entry to another PDU, except one without a MAC of
\* its own to which the ARP table lends that of the entry's (discovery.py,
\* async_find_host_for_device).
THEOREM NeverHealsToAnother == Spec => []HealsToItself
<1>1. SweepInv => HealsToItself
  <2> SUFFICES ASSUME SweepInv, NEW p \in Pdus, HostFor(p) # None
               PROVE  \/ got[HostFor(p)] = p
                      \/ /\ got[HostFor(p)] \notin WithMac /\ p \in WithMac
                         /\ arp[HostFor(p)] = p
    BY DEF HealsToItself
  <2>1. Matches(p, HostFor(p))
    BY HostMatches DEF SweepInv
  <2> QED
    BY <2>1 DEF Matches, Mac
<1> QED
  BY <1>1, SweepInvHolds, PTL
=============================================================================
