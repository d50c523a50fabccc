----------------------------- MODULE Discovery -----------------------------
(***************************************************************************)
(* One sweep for PDUs (discovery.py): the candidates, the pool of shared   *)
(* engines, the concurrent probes and what is made of their results.       *)
(* async_discover_pdus picks its candidates from the ARP table;            *)
(* async_scan_hosts is given them; async_find_host_for_device searches     *)
(* what async_discover_pdus returns for one PDU.                           *)
(*                                                                         *)
(* A PDU stands for its own serial number and MAC.  At an address without  *)
(* a PDU there may be nothing, or other gear: a probe makes no difference. *)
(***************************************************************************)
EXTENDS Naturals, FiniteSets

CONSTANTS
    Hosts,         \* the addresses of the local networks, or those to scan
    Pdus,
    None,          \* no host, no PDU, no ARP entry, no engine
    WithSerial,    \* the PDUs that report a serial number
    WithMac,       \* those that report a MAC
    PoolSize,      \* DISCOVERY_POOL_SIZE
    PerEngine,     \* DISCOVERY_PER_ENGINE
    MaxStale,      \* bound: entries of the ARP table that are out of date
    MaxTroubles    \* bound: moves, lost answers, errors and cancellations

ASSUME DiscoveryAssumption ==
    /\ None \notin Hosts \cup Pdus
    /\ IsFiniteSet(Hosts) /\ IsFiniteSet(Pdus)
    /\ WithSerial \subseteq Pdus /\ WithMac \subseteq Pdus
    /\ PoolSize \in Nat \ {0} /\ PerEngine \in Nat \ {0}
    /\ None \notin 0 .. PoolSize - 1
    /\ {MaxStale, MaxTroubles} \subseteq Nat

VARIABLES
    purpose,  \* async_discover_pdus or async_scan_hosts
    where,    \* where[p]: the address of PDU p
    arp,      \* arp[h]: whose MAC the ARP table lists for address h
    stage,    \* where the sweep has come to
    order,    \* the list of candidates, and so of the results
    task,     \* task[h]: where the probe of h has come to
    session,  \* session[h]: the SNMP session of that probe
    got,      \* got[h]: the PDU that the probe of h returned
    permits,  \* the semaphores, one for each engine
    engines,  \* the engines that are open
    done,     \* the probes reported to progress_cb
    troubles  \* what the bound counts

sweepVars == <<purpose, stage, order, engines>>
probeVars == <<task, session, got, permits, done>>
envVars   == <<where, arp, troubles>>
vars == <<sweepVars, probeVars, envVars>>

Total == Cardinality(DOMAIN order)
Slots == 0 .. PoolSize - 1
Pool  == IF Total < PoolSize THEN Total ELSE PoolSize

Index(h) == CHOOSE i \in DOMAIN order : order[i] = h

\* The engine of a probe; the list is numbered from 1.
Slot(h) == (Index(h) - 1) % Pool

Listed == {h \in Hosts : \E i \in DOMAIN order : order[i] = h}
InFlight == {h \in Hosts : task[h] \in {"head", "details"}}

\* A session with the engine e that it is given; it owns the one it has to
\* build when it is given none.
Session(e) == [engine |-> e, owns |-> e = None]

TypeOK ==
    /\ purpose \in {"discover", "scan"}
    /\ where \in [Pdus -> Hosts \cup {None}]
    /\ arp \in [Hosts -> Pdus \cup {None}]
    /\ stage \in {"start", "building", "probing", "returned", "raised", "cancelled"}
    /\ order \in [1 .. Total -> Hosts] /\ Cardinality(Listed) = Total
    /\ task \in [Hosts -> {"idle", "waiting", "head", "details", "over"}]
    /\ session \in [Hosts -> [engine : Slots \cup {None}, owns : BOOLEAN]]
    /\ got \in [Hosts -> Pdus \cup {None}]
    /\ permits \in [Slots -> 0 .. PerEngine]
    /\ engines \in SUBSET Slots
    /\ done \in Nat

Occupant(h) == {p \in Pdus : where[p] = h}

\* The ARP table lists the PDUs or leaves them out; some entries are stale.
\* async_scan_hosts does not read it.
Init ==
    /\ purpose \in {"discover", "scan"}
    /\ where \in [Pdus -> Hosts \cup {None}]
    /\ \A h \in Hosts : Cardinality(Occupant(h)) <= 1
    /\ arp \in [Hosts -> Pdus \cup {None}]
    /\ Cardinality({h \in Hosts : arp[h] # None /\ arp[h] \notin Occupant(h)}) <= MaxStale
    /\ purpose = "scan" => arp = [h \in Hosts |-> None]
    /\ stage = "start" /\ order = <<>> /\ engines = {}
    /\ task = [h \in Hosts |-> "idle"]
    /\ session = [h \in Hosts |-> Session(None)]
    /\ got = [h \in Hosts |-> None]
    /\ permits = [s \in Slots |-> 0]
    /\ done = 0
    /\ troubles = 0

-----------------------------------------------------------------------------

Trouble == troubles < MaxTroubles /\ troubles' = troubles + 1

\* A PDU gets another address, or leaves, in the middle of the sweep.
Move(p, h) ==
    /\ Trouble
    /\ h # where[p] /\ (h = None \/ Occupant(h) = {})
    /\ where' = [where EXCEPT ![p] = h]
    /\ UNCHANGED <<sweepVars, probeVars, arp>>

-----------------------------------------------------------------------------
(* The candidates.                                                          *)

InArp == {h \in Hosts : arp[h] # None}

CandidatesInArp == IF purpose = "discover" THEN InArp ELSE Hosts

\* The addresses known to be alive, or all of them when none is known.
Candidates == IF purpose = "discover" /\ InArp # {} THEN InArp ELSE Hosts

\* The list of a set comes in any order.  Without candidates there is no sweep.
Start ==
    /\ stage = "start"
    /\ \E s \in [1 .. Cardinality(Candidates) -> Candidates] :
          /\ \A i, j \in DOMAIN s : s[i] = s[j] => i = j
          /\ order' = s
    /\ stage' = IF Candidates = {} THEN "returned" ELSE "building"
    /\ UNCHANGED <<purpose, engines, probeVars, envVars>>

\* The engines are built together, then every probe is started.
Build ==
    /\ stage = "building"
    /\ stage' = "probing"
    /\ engines' = 0 .. Pool - 1
    /\ permits' = [s \in Slots |-> IF s < Pool THEN PerEngine ELSE 0]
    /\ task' = [h \in Hosts |-> IF h \in Listed THEN "waiting" ELSE "idle"]
    /\ UNCHANGED <<purpose, order, session, got, done, envVars>>

-----------------------------------------------------------------------------
(* The probes: _bounded around _probe_host.                                 *)

\* A semaphore serves its waiters in the order of the list, also after a
\* raise; the probe then makes its session with the engine of its slot.
Acquire(h) ==
    /\ stage \in {"probing", "raised"} /\ task[h] = "waiting"
    /\ permits[Slot(h)] > 0
    /\ \A g \in Listed : task[g] = "waiting" /\ Slot(g) = Slot(h) => Index(h) <= Index(g)
    /\ task' = [task EXCEPT ![h] = "head"]
    /\ session' = [session EXCEPT ![h] = Session(Slot(h))]
    /\ permits' = [permits EXCEPT ![Slot(h)] = @ - 1]
    /\ UNCHANGED <<sweepVars, got, done, envVars>>

\* close() of the session of a probe: the engine goes with it if it is owned.
ClosedWithSession(h) == engines' = engines \ {session[h].engine}
SessionClosed(h) ==
    engines' = IF session[h].engine # None /\ session[h].owns
               THEN engines \ {session[h].engine} ELSE engines

\* The probe is over: its session is closed, the next one may run, and the
\* progress is told.
OverHoldingPermit(h, p) ==
    /\ task' = [task EXCEPT ![h] = "over"]
    /\ got' = [got EXCEPT ![h] = p]
    /\ SessionClosed(h)
    /\ permits' = IF p = None THEN permits ELSE [permits EXCEPT ![Slot(h)] = @ + 1]
    /\ done' = done + 1
OverTwiceReleased(h, p) ==
    /\ task' = [task EXCEPT ![h] = "over"]
    /\ got' = [got EXCEPT ![h] = p]
    /\ SessionClosed(h)
    /\ permits' = [permits EXCEPT ![Slot(h)] = @ + 2]
    /\ done' = done + 1
Over(h, p) ==
    /\ task' = [task EXCEPT ![h] = "over"]
    /\ got' = [got EXCEPT ![h] = p]
    /\ SessionClosed(h)
    /\ permits' = [permits EXCEPT ![Slot(h)] = @ + 1]
    /\ done' = done + 1

Probing(h) == stage = "probing" /\ session[h].engine \in engines

\* sysObjectID: only an ePDU is asked for its details.
HeadAnswered(h) ==
    /\ Probing(h) /\ task[h] = "head"
    /\ Occupant(h) # {}
    /\ task' = [task EXCEPT ![h] = "details"]
    /\ UNCHANGED <<sweepVars, session, got, permits, done, envVars>>

\* Model, serial and MAC, of the PDU that is there by now.
DetailsAnswered(h) ==
    /\ Probing(h) /\ task[h] = "details"
    /\ \E p \in Occupant(h) : Over(h, p)
    /\ UNCHANGED <<purpose, stage, order, session, envVars>>

\* No PDU answers: nobody is there, or other gear, or the answer is lost.
Unanswered(h) ==
    /\ Probing(h) /\ task[h] \in {"head", "details"}
    /\ \/ Occupant(h) = {} /\ troubles' = troubles
       \/ Occupant(h) # {} /\ Trouble
    /\ Over(h, None)
    /\ UNCHANGED <<purpose, stage, order, session, where, arp>>

\* An error that is no SnmpError ends the sweep: gather() raises at once, and
\* the engines are closed under the other probes, which go on.
Raises(h) ==
    /\ Probing(h) /\ task[h] \in {"head", "details"}
    /\ Trouble
    /\ task' = [task EXCEPT ![h] = "over"]
    /\ permits' = [permits EXCEPT ![Slot(h)] = @ + 1]
    /\ stage' = "raised"
    /\ engines' = {}
    /\ UNCHANGED <<purpose, order, session, got, done, where, arp>>

\* One of those may end, with or without an error, or never: nobody waits for
\* its result any more, but it gives its permit back.
Abandoned(h) ==
    /\ stage = "raised" /\ task[h] \in {"head", "details"}
    /\ task' = [task EXCEPT ![h] = "over"]
    /\ SessionClosed(h)
    /\ permits' = [permits EXCEPT ![Slot(h)] = @ + 1]
    /\ done' \in {done, done + 1}
    /\ UNCHANGED <<purpose, stage, order, session, got, envVars>>

\* The flow is closed or the entry unloaded: the task that waits for the sweep
\* is cancelled.  gather() cancels the probes and waits for them to end, each
\* giving back what it holds; then the engines are closed.
Cancelled ==
    /\ stage \in {"building", "probing"}
    /\ Trouble
    /\ task' = [h \in Hosts |-> IF task[h] = "idle" THEN "idle" ELSE "over"]
    /\ permits' = [s \in Slots |->
                      permits[s] + Cardinality({h \in InFlight : Slot(h) = s})]
    /\ stage' = "cancelled"
    /\ engines' = {}
    /\ UNCHANGED <<purpose, order, session, got, done, where, arp>>

Returns ==
    /\ stage = "probing"
    /\ \A h \in Listed : task[h] = "over"
    /\ stage' = "returned"
    /\ engines' = {}
    /\ UNCHANGED <<purpose, order, probeVars, envVars>>

-----------------------------------------------------------------------------
(* What is returned.                                                        *)

Found == {h \in Listed : got[h] # None}

\* Backfilled from the ARP table where SNMP did not provide one.
MacOfArp(h) == IF arp[h] # None THEN arp[h] ELSE got[h]
Mac(h) == IF got[h] \in WithMac THEN got[h] ELSE arp[h]

\* async_find_host_for_device: the serial, or else the MAC, that the
\* coordinator has read of its PDU.
Matches(p, h) ==
    \/ p \in WithSerial /\ got[h] = p
    \/ p \in WithMac /\ Mac(h) = p

HostFor(p) ==
    LET matching == {h \in Found : Matches(p, h)} IN
    IF matching = {} THEN None
    ELSE CHOOSE h \in matching : \A g \in matching : Index(h) <= Index(g)

-----------------------------------------------------------------------------

Probe(h) ==
    \/ Acquire(h)
    \/ HeadAnswered(h) \/ DetailsAnswered(h) \/ Unanswered(h)
    \/ Raises(h)

Sweep ==
    \/ Start \/ Build \/ Returns
    \/ \E h \in Listed : Probe(h)

Next ==
    \/ Sweep
    \/ Cancelled
    \/ \E h \in Listed : Abandoned(h)
    \/ \E p \in Pdus, h \in Hosts \cup {None} : Move(p, h)

\* The event loop runs the tasks; a probe is answered or times out.
Spec == Init /\ [][Next]_vars /\ WF_vars(Sweep)

-----------------------------------------------------------------------------
(* Properties.                                                              *)

\* The semaphores bound the probes of an engine and lose no permit, whatever
\* way the probes end, those that go on after a raise included.
PermitsConserved ==
    stage \in {"probing", "returned", "raised"} =>
        \A s \in 0 .. Pool - 1 :
            permits[s] + Cardinality({h \in InFlight : Slot(h) = s}) = PerEngine

\* A probe always has its engine open under it, and one that waits has it open
\* for its turn: no session closes an engine that it was lent, and the sweep
\* closes none before the last probe, be it cancelled.  The exception is a
\* sweep that raised: its engines are closed under the probes that go on.
EnginesOutliveProbes ==
    stage # "raised" =>
        \A h \in Hosts :
            /\ task[h] = "waiting" => Slot(h) \in engines
            /\ task[h] \in {"head", "details"} => session[h].engine \in engines

\* The progress bar is at its end exactly when no probe runs or waits.
ProgressExact ==
    stage \in {"probing", "returned"} =>
        done = Cardinality({h \in Hosts : task[h] = "over"})

\* Without losses and moves, a sweep returns every PDU at an address that it was
\* told or that the ARP table lists, and every PDU there is if the table lists
\* no address; each at its address.
SweepComplete ==
    stage = "returned" /\ troubles = 0 =>
        \A p \in Pdus :
            /\ where[p] # None
            /\ purpose = "scan" \/ InArp = {} \/ where[p] \in InArp
            => where[p] \in Found /\ got[where[p]] = p

\* The self-heal takes no other PDU for its own, except one that reports no MAC
\* at an address for which the ARP table still lists the MAC of its own.
HealsToItself ==
    stage = "returned" /\ purpose = "discover" =>
        \A p \in Pdus : HostFor(p) # None =>
            LET found == got[HostFor(p)] IN
            \/ found = p
            \/ found \notin WithMac /\ p \in WithMac /\ arp[HostFor(p)] = p

\* A sweep ends, by returning, raising or being cancelled.
SweepEnds == <>(stage \in {"returned", "raised", "cancelled"})
=============================================================================
