--------------------------- MODULE EntryLifecycle ---------------------------
(***************************************************************************)
(* One config entry from setup to removal (__init__.py), the backoff and   *)
(* the self-heal of its coordinator (coordinator.py), and the PDU, which   *)
(* may be switched off or come back under another address.                 *)
(*                                                                         *)
(* The entry's data outlive its coordinator: host, the interval option and *)
(* the stored topology.  Each setup makes a new session and a new          *)
(* coordinator; unloading closes the one and drops the other.  Home        *)
(* Assistant's part (setup_lock, retry of a setup that was not ready,      *)
(* update listeners, cancelling of an entry's background tasks) is         *)
(* modelled from how the integration uses it.                              *)
(***************************************************************************)
EXTENDS FiniteSets, PowersOfTwo

CONSTANTS
    Addresses,     \* where the PDU may be
    Nowhere,       \* it is switched off; also: the scan found nothing
    Scanned,       \* where a scan looks: the addresses in the ARP table, or all
    Intervals,     \* the scan intervals a user may set, in seconds
    MaxBackoff,    \* MAX_BACKOFF_INTERVAL
    HostsByName,   \* the hosts that are names, which may fail to resolve
    MaxFailures,   \* bound: failures are counted up to here
    MaxOrphans,    \* bound: orphaned sessions are counted up to here
    MaxMoves, MaxLosses, MaxOptions, MaxRestarts   \* bounds of the environment

Setting == {"identity", "topology", "first"}
States  == Setting \cup {"loaded", "retry", "error", "removed"}

ASSUME EntryAssumption ==
    /\ Addresses # {} /\ Nowhere \notin Addresses
    /\ Scanned \subseteq Addresses
    /\ Intervals \subseteq Nat \ {0} /\ Intervals # {}
    /\ MaxBackoff \in Nat
    /\ HostsByName \subseteq Addresses
    /\ MaxFailures \in Nat \ {0} /\ MaxOrphans \in Nat \ {0}
    /\ {MaxMoves, MaxLosses, MaxOptions, MaxRestarts} \subseteq Nat

VARIABLES
    state,      \* where setup has come to, or what became of the entry
    host,       \* entry.data[CONF_HOST]
    option,     \* entry.options[CONF_SCAN_INTERVAL]
    cached,     \* the topology has been stored
    listening,  \* the update listener is registered
    reloads,    \* reloads asked for by the listener, waiting for setup_lock
    chost,      \* coordinator.host
    base,       \* coordinator._base_interval
    failures,   \* coordinator._failures
    interval,   \* coordinator.update_interval
    healing,    \* coordinator._healing
    heal,       \* the self-heal task: none, scanning, or back from the scan
    found,      \* what its scan returned
    old,        \* what an earlier coordinator still does: see NoOld
    unheard,    \* the entry was updated with nobody to hear of it (a history)
    orphans,    \* sessions with an open engine that nobody holds any more
    addr,       \* where the PDU is
    moves, losses, changes, restarts    \* what the bounds count

entryVars == <<state, host, option, cached, listening, reloads>>
coordVars == <<chost, base, failures, interval>>
healVars  == <<healing, heal, found>>
envVars   == <<moves, losses, changes, restarts>>
restVars  == <<old, unheard, orphans>>
vars == <<entryVars, coordVars, healVars, restVars, addr, envVars>>

\* A debounced poll outlives the unloading of its entry.  If it fails at the
\* ceiling it starts a self-heal for a coordinator that nobody holds any more,
\* but which has the entry.
NoOld == [stage |-> "none", host |-> Nowhere, found |-> Nowhere]
OldPoll == [stage |-> "poll", host |-> chost, found |-> Nowhere]

Lesser(a, b) == IF a <= b THEN a ELSE b

\* _next_backoff, after n failures.
NextBackoff(n) == Lesser(base * PowerOfTwo[n], MaxBackoff)

TypeOK ==
    /\ state \in States
    /\ host \in Addresses
    /\ option \in Intervals
    /\ cached \in BOOLEAN
    /\ listening \in BOOLEAN
    /\ reloads \in Nat
    /\ chost \in Addresses
    /\ base \in Intervals
    /\ failures \in 0 .. MaxFailures
    /\ interval \in Intervals \cup {NextBackoff(n) : n \in 0 .. MaxFailures}
    /\ healing \in BOOLEAN
    /\ heal \in {"none", "scan", "back"}
    /\ found \in Addresses \cup {Nowhere}
    /\ old \in [stage : {"none", "poll", "scan", "back"},
               host : Addresses \cup {Nowhere}, found : Addresses \cup {Nowhere}]
    /\ unheard \in BOOLEAN
    /\ orphans \in 0 .. MaxOrphans
    /\ addr \in Addresses \cup {Nowhere}

\* The first setup of an entry that the config flow has just validated.
Init ==
    /\ host \in Addresses /\ addr = host
    /\ option \in Intervals
    /\ state = "identity" /\ cached = FALSE /\ listening = FALSE /\ reloads = 0
    /\ chost = host /\ base = option /\ failures = 0 /\ interval = option
    /\ healing = FALSE /\ heal = "none" /\ found = Nowhere
    /\ old = NoOld /\ unheard = FALSE /\ orphans = 0
    /\ moves = 0 /\ losses = 0 /\ changes = 0 /\ restarts = 0

-----------------------------------------------------------------------------
(* The environment.                                                         *)

\* It goes off, and comes on again at some address, or moves without a pause.
Move(a) ==
    /\ a # addr
    /\ addr' = a
    /\ IF a = Nowhere THEN moves' = moves
                     ELSE moves < MaxMoves /\ moves' = moves + 1
    /\ UNCHANGED <<entryVars, coordVars, healVars, restVars, losses, changes, restarts>>

Lose == losses < MaxLosses /\ losses' = losses + 1

\* The PDU does not answer at host h, or its answer is lost.
NoAnswerAt(h) ==
    /\ \/ addr # h /\ losses' = losses
       \/ addr = h /\ Lose
    /\ UNCHANGED <<addr, moves, changes, restarts>>

NoAnswer == NoAnswerAt(chost)

\* A scan finds the PDU where it is, unless its address is not looked at, it is
\* off, or its answer is lost.
ScanFinds(h) ==
    /\ \/ h = (IF addr \in Scanned THEN addr ELSE Nowhere) /\ losses' = losses
       \/ h = Nowhere /\ Lose
    /\ UNCHANGED <<addr, moves, changes, restarts>>

-----------------------------------------------------------------------------
(* hass.config_entries.async_update_entry, with data or options that differ *)
(* from what the entry has.                                                 *)

\* The listener asks for a reload.  While setup runs there is none yet, and the
\* setup has read the entry already.
Updated ==
    /\ reloads' = IF listening THEN reloads + 1 ELSE reloads
    /\ unheard' = (unheard \/ state \in Setting)

WriteHost(h) ==
    IF h # host THEN host' = h /\ Updated
                ELSE UNCHANGED <<host, reloads, unheard>>

-----------------------------------------------------------------------------
(* async_setup_entry.                                                       *)

\* A new session and a new coordinator, from the entry's data and options as
\* they are now; the old coordinator's task is gone.
BeginSetupAtOldHost ==
    /\ state' = "identity"
    /\ listening' = FALSE
    /\ chost' = chost
    /\ base' = option
    /\ failures' = 0
    /\ interval' = option
    /\ healing' = FALSE /\ heal' = "none" /\ found' = Nowhere
    /\ unheard' = FALSE

BeginSetup ==
    /\ state' = "identity"
    /\ listening' = FALSE
    /\ chost' = host
    /\ base' = option
    /\ failures' = 0
    /\ interval' = option
    /\ healing' = FALSE /\ heal' = "none" /\ found' = Nowhere
    /\ unheard' = FALSE

\* Unloading, and a setup that is not ready, cancel the self-heals of the entry;
\* unloading may leave a debounced poll of its coordinator behind.
CancelOldHeal == old' = IF old.stage = "poll" THEN old ELSE NoOld

LeaveOldPoll ==
    \/ CancelOldHeal
    \/ /\ state = "loaded" /\ NextBackoff(Lesser(failures + 1, MaxFailures)) = MaxBackoff
       /\ old' = OldPoll

ReadIdentity ==
    /\ state = "identity" /\ addr = chost
    /\ state' = IF cached THEN "first" ELSE "topology"
    /\ UNCHANGED <<host, option, cached, listening, reloads, coordVars, healVars,
                   restVars, addr, envVars>>

ReadTopology ==
    /\ state = "topology" /\ addr = chost
    /\ cached' = TRUE
    /\ state' = "first"
    /\ UNCHANGED <<host, option, listening, reloads, coordVars, healVars, restVars,
                   addr, envVars>>

\* The first poll succeeds, the platforms are set up and only then is the
\* listener registered.
FirstPoll ==
    /\ state = "first" /\ addr = chost
    /\ state' = "loaded"
    /\ listening' = TRUE
    /\ UNCHANGED <<host, option, cached, reloads, coordVars, healVars, restVars, addr,
                   envVars>>

\* ConfigEntryNotReady.  The session is dropped with its engine open; a self-heal
\* that the first poll may have started is cancelled with the entry's tasks.
SetupNotReady ==
    /\ state \in Setting
    /\ NoAnswer
    /\ state' = "retry"
    /\ orphans' = Lesser(orphans + 1, MaxOrphans)
    /\ CancelOldHeal
    /\ UNCHANGED <<host, option, cached, listening, reloads, coordVars, healVars, unheard>>

\* The host name does not resolve: pysnmp's error is no SnmpError, so this is
\* no ConfigEntryNotReady either.
SetupRaises ==
    /\ state = "identity" /\ chost \in HostsByName
    /\ Lose
    /\ state' = "error"
    /\ UNCHANGED <<host, option, cached, listening, reloads, coordVars, healVars,
                   restVars, addr, moves, changes, restarts>>

SetupAgain ==
    /\ state = "retry"
    /\ BeginSetup
    /\ UNCHANGED <<host, option, cached, reloads, old, orphans, addr, envVars>>

-----------------------------------------------------------------------------
(* Polls of a loaded entry, the backoff and the self-heal.                  *)

\* The counter goes back to zero and the interval to its base.
PollSucceedsKeepingCount ==
    /\ state = "loaded" /\ addr = chost
    /\ failures # 0
    /\ interval' = base
    /\ UNCHANGED <<entryVars, chost, base, failures, healVars, restVars, addr, envVars>>

PollSucceeds ==
    /\ state = "loaded" /\ addr = chost
    /\ failures # 0
    /\ failures' = 0
    /\ interval' = base
    /\ UNCHANGED <<entryVars, chost, base, healVars, restVars, addr, envVars>>

\* _maybe_self_heal: one task at a time, and only at the ceiling.
MaybeSelfHealOnce ==
    IF interval' = MaxBackoff /\ interval # MaxBackoff /\ ~healing
    THEN healing' = TRUE /\ heal' = "scan" /\ found' = Nowhere
    ELSE UNCHANGED healVars

MaybeSelfHeal ==
    IF interval' = MaxBackoff /\ ~healing
    THEN healing' = TRUE /\ heal' = "scan" /\ found' = Nowhere
    ELSE UNCHANGED healVars

PollFailsStartingOver ==
    /\ state = "loaded"
    /\ NoAnswer
    /\ failures' = IF interval = MaxBackoff THEN 0 ELSE Lesser(failures + 1, MaxFailures)
    /\ interval' = NextBackoff(failures')
    /\ MaybeSelfHeal
    /\ UNCHANGED <<entryVars, chost, base, restVars>>

PollFails ==
    /\ state = "loaded"
    /\ NoAnswer
    /\ failures' = Lesser(failures + 1, MaxFailures)
    /\ interval' = NextBackoff(failures')
    /\ MaybeSelfHeal
    /\ UNCHANGED <<entryVars, chost, base, restVars>>

HealScan ==
    /\ heal = "scan"
    /\ heal' = "back"
    /\ \E h \in Addresses \cup {Nowhere} : ScanFinds(h) /\ found' = h
    /\ UNCHANGED <<entryVars, coordVars, healing, restVars>>

\* An exception leaves the scan; the flag is reset all the same.
HealRaisesLeavingFlag ==
    /\ heal = "scan" /\ Lose
    /\ heal' = "none"
    /\ UNCHANGED <<entryVars, coordVars, healing, found, restVars, addr, moves, changes,
                   restarts>>

HealRaises ==
    /\ heal = "scan" /\ Lose
    /\ heal' = "none" /\ healing' = FALSE
    /\ UNCHANGED <<entryVars, coordVars, found, restVars, addr, moves, changes, restarts>>

HealEndsWithoutReload ==
    /\ heal = "back"
    /\ heal' = "none" /\ healing' = FALSE /\ found' = Nowhere
    /\ host' = IF found # Nowhere THEN found ELSE host
    /\ UNCHANGED <<state, option, cached, listening, reloads, coordVars, restVars, addr,
                   envVars>>

HealEndsWithNothing ==
    /\ heal = "back"
    /\ heal' = "none" /\ healing' = FALSE /\ found' = Nowhere
    /\ WriteHost(found)
    /\ UNCHANGED <<state, option, cached, listening, coordVars, old, orphans, addr,
                   envVars>>

HealEnds ==
    /\ heal = "back"
    /\ heal' = "none" /\ healing' = FALSE /\ found' = Nowhere
    /\ IF found # Nowhere /\ found # chost
       THEN WriteHost(found) ELSE UNCHANGED <<host, reloads, unheard>>
    /\ UNCHANGED <<state, option, cached, listening, coordVars, old, orphans, addr,
                   envVars>>

-----------------------------------------------------------------------------
(* The same of an earlier coordinator.                                      *)

OldPollEnds ==
    /\ old.stage = "poll"
    /\ old' = NoOld
    /\ UNCHANGED <<entryVars, coordVars, healVars, unheard, orphans, addr, envVars>>

OldPollFails ==
    /\ old.stage = "poll"
    /\ NoAnswerAt(old.host)
    /\ old' = [old EXCEPT !.stage = "scan"]
    /\ UNCHANGED <<entryVars, coordVars, healVars, unheard, orphans>>

OldHealScan ==
    /\ old.stage = "scan"
    /\ \E h \in Addresses \cup {Nowhere} :
          ScanFinds(h) /\ old' = [old EXCEPT !.stage = "back", !.found = h]
    /\ UNCHANGED <<entryVars, coordVars, healVars, unheard, orphans>>

\* It compares what it found with the host it once had.
OldHealEnds ==
    /\ old.stage = "back"
    /\ old' = NoOld
    /\ IF old.found \notin {Nowhere, old.host} /\ state # "removed"
       THEN WriteHost(old.found) ELSE UNCHANGED <<host, reloads, unheard>>
    /\ UNCHANGED <<state, option, cached, listening, coordVars, healVars, orphans, addr,
                   envVars>>

-----------------------------------------------------------------------------
(* Options, reload, removal, restart.                                       *)

\* The options flow.
ChangeOption(s) ==
    /\ state # "removed"
    /\ changes < MaxOptions /\ s # option
    /\ changes' = changes + 1
    /\ option' = s
    /\ Updated
    /\ UNCHANGED <<state, host, cached, listening, coordVars, healVars, old, orphans, addr,
                   moves, losses, restarts>>

\* A dialog of the config flow meets the PDU of this entry at another host and
\* updates the entry (_abort_if_unique_id_configured); Home Assistant reloads one
\* that is loaded or waits for its retry, besides what the listener asks for.
DialogUpdatesHost ==
    /\ state # "removed" /\ addr \in Addresses \ {host}
    /\ changes < MaxOptions
    /\ changes' = changes + 1
    /\ host' = addr
    /\ reloads' = CASE state = "loaded" -> reloads + 2
                    [] state = "retry"  -> reloads + 1
                    [] OTHER            -> reloads
    /\ unheard' = (unheard \/ state \in Setting)
    /\ UNCHANGED <<state, option, cached, listening, coordVars, healVars, old, orphans,
                   addr, moves, losses, restarts>>

\* Unload, closing the session of a loaded entry, and set up again under
\* setup_lock, which a setup in progress holds.
Reload ==
    /\ reloads > 0
    /\ state \in {"loaded", "retry", "error"}
    /\ reloads' = reloads - 1
    /\ LeaveOldPoll
    /\ BeginSetup
    /\ UNCHANGED <<host, option, cached, orphans, addr, envVars>>

\* The entry is unloaded and its stored topology deleted.
Remove ==
    /\ state \in {"loaded", "retry", "error"}
    /\ state' = "removed"
    /\ cached' = FALSE
    /\ listening' = FALSE
    /\ reloads' = 0
    /\ healing' = FALSE /\ heal' = "none" /\ found' = Nowhere
    /\ LeaveOldPoll
    /\ UNCHANGED <<host, option, coordVars, unheard, orphans, addr, envVars>>

\* Home Assistant stops at any moment and starts again.
Restart ==
    /\ state # "removed"
    /\ restarts < MaxRestarts
    /\ restarts' = restarts + 1
    /\ reloads' = 0
    /\ old' = NoOld /\ orphans' = 0
    /\ BeginSetup
    /\ UNCHANGED <<host, option, cached, addr, moves, losses, changes>>

-----------------------------------------------------------------------------

SetupStep == ReadIdentity \/ ReadTopology \/ FirstPoll \/ SetupNotReady
Poll      == PollSucceeds \/ PollFails
HealStep  == HealScan \/ HealRaises \/ HealEnds
OldStep   == OldPollEnds \/ OldPollFails \/ OldHealScan \/ OldHealEnds

Next ==
    \/ SetupStep \/ SetupRaises \/ SetupAgain
    \/ Poll
    \/ HealStep \/ OldStep
    \/ Reload \/ Remove \/ Restart
    \/ \E s \in Intervals : ChangeOption(s)
    \/ DialogUpdatesHost
    \/ \E a \in Addresses \cup {Nowhere} : Move(a)

\* Home Assistant runs setups, retries, reloads and the tasks of the entry, and
\* polls are made as long as it is loaded.
Fairness ==
    /\ WF_vars(SetupStep)
    /\ WF_vars(SetupAgain)
    /\ WF_vars(Poll)
    /\ WF_vars(HealStep)
    /\ WF_vars(OldStep)
    /\ WF_vars(Reload)

Spec == Init /\ [][Next]_vars /\ Fairness

-----------------------------------------------------------------------------
(* Properties.                                                              *)

\* Whatever the order of failures, recoveries and reloads, the interval is the
\* configured one without failures and else its doubling up to the ceiling.
IntervalFollowsFailures ==
    interval = IF failures = 0 THEN base ELSE NextBackoff(failures)

\* _healing says whether a self-heal runs; it is never left set, which would
\* end self-healing for good, and a heal runs only for a loaded entry.
HealingIffRunning ==
    /\ healing <=> heal # "none"
    /\ heal # "none" => state = "loaded" /\ listening

\* A loaded entry polls the host and at the interval it is configured with, or is
\* about to reload, unless an update fell into its setup: whoever writes them
\* (heals, dialogs, the user), and in whatever order the reloads run.
ConfigurationApplied ==
    state = "loaded" /\ reloads = 0 /\ ~unheard => chost = host /\ base = option

\* "After a failed poll the interval doubles ... up to a 60 s ceiling": no
\* failure makes the next poll come sooner, unless the interval chosen by the
\* user is longer than the ceiling.
BackoffNeverSpeedsUp == [][PollFails /\ base <= MaxBackoff => interval' >= interval]_vars

\* Setup is retried until a PDU that is at the entry's host has been set up,
\* whatever the entry went through before.
ReachableEntryLoads ==
    <>[](addr = host /\ state \notin {"error", "removed"}) => <>[](state = "loaded")

\* When the PDU, the user and Home Assistant leave a loaded entry alone, its
\* self-heal finds the PDU, although polls and scans get lost on the way.  (The
\* setup after it may still meet a host name that does not resolve.)
LeftAlone ==
    /\ moves = MaxMoves /\ changes = MaxOptions /\ restarts = MaxRestarts
    /\ reloads = 0 /\ old = NoOld

SelfHealReaches ==
    (state = "loaded" /\ heal = "none" /\ LeftAlone /\ ~unheard)
        ~> (addr \notin Scanned \/ state \in {"error", "removed"}
              \/ (state = "loaded" /\ chost = addr))

\* "Reload the entry when options change" (__init__.py): a loaded entry polls at
\* the interval that the user chose, or is about to reload.
OptionsApplied == state = "loaded" /\ reloads = 0 => base = option

\* What the README claims ("This replaces DHCP for IP-change recovery"): a PDU
\* that stays somewhere is served there in the end.
MovedPduReached ==
    <>[](addr = Nowhere \/ state = "removed" \/ (state = "loaded" /\ chost = addr))
=============================================================================
