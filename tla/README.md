# Verification of the CyberPower PDU integration

TLA+ models of `src/custom_components/cyberpower_pdu`, a Home Assistant
integration that polls CyberPower PDUs over SNMP, switches their outlets, finds
them on the network and follows them when their address changes. The modules
are checked with TLC on small instances. Every safety property that a passing run
checks, three refinements of abstract specifications among them, is also proved
with TLAPS for every value of the constants; liveness is left to TLC.

## 1. The system

Everything runs in one asyncio event loop. Two pieces of code interleave only
at an `await`, so an action of a module runs from one suspension to the next.

| Part | State | Operations | Talks to |
| --- | --- | --- | --- |
| SNMP session (`snmp.py`, `CyberPowerSnmp`) | lock, engine, whether it owns it, transport target | `get`, `walk`, `set_int`, `_ensure`, `close` | the PDU; called by coordinator, switches, probes, validation |
| Coordinator (`coordinator.py`) | `info`, `data`, failures, interval, `_healing`, stored topology | `async_setup`, `_async_topology`, `_async_update_data`, `_maybe_self_heal`, `_async_self_heal` | session, discovery, the entry, Home Assistant's `DataUpdateCoordinator` and `Debouncer` |
| Entry (`__init__.py`) | setup state, update listener, entry data and options | setup, unload, reload, remove | makes session and coordinator, closes the session |
| Switches (`switch.py`) | none of their own; write `coordinator.data` | turn on, turn off, reconcile three seconds later | session, coordinator |
| Sensors, base entity (`sensor.py`, `entity.py`) | unique ids | created once per setup | coordinator |
| Discovery (`discovery.py`) | pool of engines, semaphores, progress | sweep, scan of given hosts, search for one PDU | many sessions on shared engines |
| Config flow (`config_flow.py`) | step, offered and chosen hosts | menus, scans, validation, fan-out | discovery, sessions, entries |
| Options flow (`config_flow.py`) | the interval option | save | the entry's listener |
| Diagnostics, constants, translations | none | | |

What makes it hard:

- one session serves polls and commands, a poll takes several exchanges, and
  `close()` takes no lock;
- a command shows its result at once, the relay follows a second later, and a
  poll may read in between; the confirming poll goes through a debouncer that
  drops and defers requests;
- a SET may be carried out and reported as failed, or arrive again after a later
  one; after a reload commands of the old session go on beside the new one;
- a poll is several GETs between which the PDU changes, and an answer may lack
  values;
- failures, backoff, a self-heal that takes seconds, reloads and restarts happen
  in any order, while the PDU is off or moves;
- walks may be cut short, and what they read is stored for good;
- sweeps probe many hosts at once on shared engines and may fail or be
  cancelled in the middle;
- dialogs and import tasks add entries side by side.

Correctness, part by part:

- *Session*: one exchange at a time; one live engine; no exchange on a closed
  engine before `close()`; an engine lent to a session survives it; those who
  wait are served in order; calls return.
- *Outlets*: nothing out of date is published; the display follows the
  commands; it comes to agree with the relays; polling never stops while the
  entry is loaded, and never begins again afterwards.
- *Polling*: all that is published was read in that place while the poll ran; a
  poll answered in full leaves no sensor unknown; the device registry has the
  coordinator's name; renames arrive.
- *Entry*: interval and failure count agree; one self-heal at a time and never
  a stuck flag; a host or interval written by anybody reaches a coordinator; a
  reachable PDU is set up in the end; a PDU that moved within reach of a scan is
  found.
- *Topology*: no truncated set of outlets; what is in use is what is stored;
  entities are never dropped by a reload.
- *Discovery*: permits are conserved; engines outlive the probes that the sweep
  waits for; a sweep ends and finds what is in its reach; no PDU that tells its
  MAC is taken for another.
- *Config flow*: one entry for a PDU, at a host where it answered; every
  validated PDU gets one; only addresses that the user meant are scanned.

## 2. Modules

| Module | Models | Composed with |
| --- | --- | --- |
| `SnmpSession` | one `CyberPowerSnmp` and its callers | implements `CallLine` |
| `OutletControl` | switches, polls, debouncer and relays of a loaded entry | extends `SnmpSession`: its steps are the session's steps joined with what caller and PDU do; implements `OutletDisplay` |
| `EntryLifecycle` | setup, backoff, self-heal, reload, removal, restart, options | |
| `PduLayout` | `PduInfo`: outlets, metering rows, total bank, bank ids | extended by the next two: what `Topology` makes is what `Polling` starts from |
| `Topology` | identity, walks, stored layout, entities | |
| `Polling` | OIDs, GETs and answers of a poll; names, states and measurements | |
| `Discovery` | one sweep and the search for one PDU | |
| `ScanTargets` | `parse_scan_targets` | extended by `ConfigFlow` |
| `PowersOfTwo` | powers of two and the bits of a number | extended by `EntryLifecycle` (backoff) and `ScanTargets` (networks) |
| `ConfigFlow` | the dialogs and the entries they make | implements `EntryRegistry` |
| `CallLine`, `OutletDisplay`, `EntryRegistry` | abstract specifications | instantiated with a refinement mapping |
| `MC...` | constants for TLC | extends the module |
| `...Proofs` | theorems about the module of that name | extends the module and `TLAPS`; `OutletControlProofs` uses `SnmpSessionProofs` |
| `NumberLemmas` | numbers, induction over them, powers of two | extended by the proofs of `Polling`, `Discovery`, `EntryLifecycle` and `ConfigFlow` |

Definitions that end a comment block right before another of nearly the same
name (`OverTwiceReleased` before `Over`) are altered versions of the definition
that follows. They are used nowhere: each stands for a plausible mistake in the
code and is there to be put in place of the right one, to see that a property
notices.

### SnmpSession and the code

`stage[c]` is the `await` at which caller `c` is suspended: in the queue of the
lock, in `_ensure` building the engine or the target, or on an exchange that is
sent or has just been answered. `left[c]` counts the exchanges of the call: the
chunks of a `get`, the rows of a `walk`, one for a SET. The lock is
`asyncio.Lock`: first come, first served. `ahead[c]` holds who came before `c`
and still waits, which says the same as the queue and is easier to reason about.
`Leave` is the end of `async with`, by return or by exception. `Close` is
`close()` together with the cancelling of the background tasks that Home
Assistant does in the same step when an entry unloads. An exchange on a closed
engine may raise or never return (`Broken`, which fairness does not force).

*Abstract specification.* `CallLine` is a line that serves one call at a time in
the order they came: no engine, target, retry or exchange. The holder of the
lock who has begun is `inside`; whoever is in the queue, or has been handed the
lock and not yet run, is `waiting`, and `before` says who came first.

### OutletControl and the code

`Polls` are the scheduled refresh and the debounced one, `Commands` the calls of
`_async_command`. `seen[c]` is what a call has read so far and `sets` numbers the
SETs carried out at the PDU, so `shown[o].sets` tells from before or after
which SET the display of an outlet is. The relay takes its new state in a step of its own
(`Settle`). After the lock is released a call returns and publishes without
another `await`, hence in the same action (`PollFinish`, `CommandFinish`).
`timer`, `cooldown`, `atEnd` and `due` are the timers of `DataUpdateCoordinator`,
`Debouncer` and `async_call_later`. Home Assistant's own code is not in the
repository; it is modelled from how this integration uses it and marked external.

What the network and others do to the outlets: a SET that got no reply was lost,
was carried out, or left a copy in the network (`late`) that arrives at any later
time, after its call has failed or been followed by others. `SwitchedElsewhere`
is a hand at the PDU's panel, and equally a command of the session before a
reload, which the lock of this session does not hold back. An outlet whose state
is absent from an answer is read as off.

*Abstract specification.* `OutletDisplay` has a version of each outlet, which a
SET moves on, and a display, which is only ever brought up to the version of that
moment. `version` is `sets`, `display` is `shown[o].sets`. What it leaves out, the
session, the chunks, the debouncer and the timers, is what could make a
publication late.

### EntryLifecycle and the code

`state` follows `async_setup_entry` through its awaits (identity, topology, first
poll), then loaded, waiting for a retry, in error, or removed. `host`, `option`
and `cached` are what survives a reload; `chost`, `base`, `failures`, `interval`
and `healing` belong to the coordinator that `BeginSetup` makes anew. `reloads`
are the reloads that the update listener has asked for. The PDU is at `addr`;
`Scanned` are the addresses a self-heal looks at: those in the ARP table, or all
of the local networks when the table lists none of them. A PDU that a scan
cannot see at all (SNMPv3, another port) is one whose addresses are not in
`Scanned`.

`old` is what a coordinator leaves behind when its entry is unloaded. Its
debounced poll belongs to no entry task and goes on; if it fails at the ceiling,
the old coordinator starts a self-heal, compares what that finds with the host
*it* had, and writes the entry, which by then has another coordinator or is
removed. `DialogUpdatesHost` is the other writer: a config flow that meets the
PDU of this entry at another host. `unheard` records that an update fell into a
setup: the update listener is registered after the last await of
`async_setup_entry`, which has read the entry at its beginning.

### Topology, Polling and the code

`Topology` reads the tables row by row from whatever PDU is at the host at that
moment. A table is a set of pairs; `LoadRows`, `TotalBank`, `BankIds`,
`SensorBanks` (all in `PduLayout`) and `Entities` are the code's derivations.

`Polling` starts from a layout and takes one poll apart. An OID is a pair of a
column and the index of an outlet or row. `Requested` builds the list the way
`_async_update_data` does, from tables in the order of their index, in which
walks read them (`Sorted`); `GetChunk` and `LastChunk` are the GETs of `get`, each
answered in full, with one value absent, or cut short, and put together with
what was asked by position (`Zipped`, the code's `zip(strict=False)`). Between
them the PDU changes. Every value names the OID it was read from, so that
`Snapshot` and the sensors' columns can be held against what they ought to show.
Two histories serve the properties only: `seen`, what the PDU had at each OID
since the poll began, and `whole`, whether everything was answered.
`SyncName` is `_async_update_device_name`; `registry` is the name in the device
registry, set when the entities are added and changed only by `SyncName`.

### Discovery, ScanTargets, ConfigFlow and the code

`Discovery` has one task per candidate; the list of candidates is any permutation
of the set, as in the code, and decides engine and order of results. PDUs leave
and change address in the middle of the sweep. `async_scan_hosts` does not read
the ARP table, which is empty for it.

A probe makes its session when it gets its permit (`Session`): it holds the engine
of its slot and does not own it, for `__init__` owns an engine only if it is given
none. `SessionClosed` is the test in `close()`, so that engines outlive the probes
because of what sessions and sweep do. A sweep ends in one of three ways:

- it returns, after the last probe;
- the task that waits for it is cancelled: `gather()` cancels the probes and ends
  after them (`Cancelled`);
- a probe raises: `gather()` raises at once and cancels nothing. The engines are
  closed under the other probes, which go on, and those that wait get their
  permits and start; on a closed engine a probe ends in any way, or never
  (`Acquire`, `Abandoned`). `EnginesOutliveProbes` is false of such a sweep, as
  the code is, and leaves it out; `PermitsConserved` holds of it too.

`SweepComplete` is about the addresses in reach: those told, those in the ARP
table, or all if the table has none. That others are not looked at is what the
code means to do (`discovery.py:200`).

`ScanTargets` works on numbers: a target is a record of what the text says
(`ReadTargets`: `ipaddress` has refused what is no address or prefix), and
`Expand` is the list that `parse_scan_targets` makes. `Meant` is the reference
definition next to it, in terms of bits and octets: the addresses that agree
with the one given in all bits of the prefix and are neither all zeros nor all
ones after it, or that lie between the two ends.

`ConfigFlow` has one state per dialog; every form is answered in every way it
accepts, and a dialog that closes forgets what it knew. The imports of a dialog
may run before or after its own last step, which covers eager and lazy tasks.

*Abstract specification.* `EntryRegistry` knows pairs of an identity and a host
that have been found, and entries, one per identity. `pending` are the pairs that
dialogs have validated together with those in import tasks; `hostOf` reads the
entries as a function. It says that pairs are entered one by one, that entering
one touches no other entry, and that none is dropped before it is entered.

## 3. Runs

| Run | Question | Bounds |
| --- | --- | --- |
| `session` | Do exclusion, queue and engines stay right, is the session a line, and do calls return, with `close()` at any await? | four callers (one holds, three wait in order; one is cancelled), two exchanges a call, one retry |
| `outlets` | Is what is shown never older than what was shown, does it come to show the relays, is it an `OutletDisplay`, and does polling go on until unloading and not after? | two commands, both kinds of poll, two outlets read in different chunks, one fault of any kind (loss, late copy, refusal, absent state, switching by others) |
| `outlet_unload` (fails) | Does unloading close the session for good? | as above, no fault |
| `entry` | Are interval, flag, host and option consistent, is a reachable PDU set up, is a moved one found, does a failure never speed polling up? | three addresses of which one is outside the scan and one is a name, intervals 15 and 60 (a course of backoff, and the ceiling at once), two moves, one loss, one update by user or dialog, one restart, one earlier coordinator |
| `entry_moved` (fails) | Is a moved PDU always found? | one move, one restart |
| `entry_missed` (fails) | Is a changed interval always applied? | one option change |
| `topology` | Are outlets whole, is the store what is used, are entities kept, does setup complete? | three PDUs (serial and count; neither; serial only), two short walks, two swaps, one loss, one restart |
| `topology_rows` (fails) | Are the metering rows whole? | one short walk |
| `topology_owner` (fails) | Does an entry serve its own PDU? | one swap |
| `polling` | Is every state, name and measurement one the PDU had in that place, is no sensor unknown unless something was missing, do registry and names follow? | three layouts (a device row and a bank; two banks and no device row; a single bank), GETs of six OIDs so that a poll takes two or more, two changes, one trouble, one reload |
| `discovery` | Are permits, engines and progress right, is a sweep complete, does it end, does it confuse PDUs? | three hosts on two engines with one permit each (so two probes share one), three PDUs, one stale ARP entry, one trouble of any kind |
| `flow` | One entry per PDU, at its host, for each that was validated, is it an `EntryRegistry`, and is only scanned what was meant? | two dialogs, two hosts, three PDUs of which one has no identity; addresses of four bits, targets 6/1, 10/3 and 9-3, and 0/0 and 11..9, which the form refuses, at most six hosts; one trouble, one removal |

The bounds are small and each has a reason: what a property tells apart needs
two of a kind (two waiters, two chunks, two PDUs at one host), and a second
trouble only after the first has been dealt with. Deadlock is not checked
where the system may rightly stop: an unloaded or removed entry, a finished
sweep, a closed dialog.

`BackoffNeverSpeedsUp` is stated for intervals up to the ceiling. With an interval
above 60 s the first failure makes polling *faster*, since the doubling is cut at
the ceiling (`coordinator.py:159`); the comment there speaks of the ceiling, so
this is said here and not claimed as a divergence.

Runs that fail show where the code does not do what its documentation says:

1. `outlet_unload`: a command waiting for the lock when the entry is unloaded
   builds a new engine that nothing closes (`snmp.py:182`, `:262`).
2. `entry_missed`: an interval saved while setup runs is not applied, because the
   listener is registered at the end of it (`__init__.py:67`, against the comment
   at `:82`).
3. `entry_moved`: self-heal needs a loaded coordinator; a PDU that moves while
   Home Assistant is down stays lost (`coordinator.py:165`).
4. `topology_rows`: the guard against partial walks looks at the outlets only; a
   short table of metering rows is accepted and stored (`coordinator.py:283`).
5. `topology_owner`: identity is read at setup and not compared with the entry's
   unique id (`coordinator.py:218`).

### Fairness

Weak fairness is given to what the event loop does by itself: a task that can
run runs, a timer fires, an exchange is answered or times out (pysnmp always
ends a request on an open engine), Home Assistant retries a setup that was not
ready and performs a reload it was asked for, import tasks run, and a loaded
entry is polled. Of the world outside two things are assumed: relays settle, and
a delayed copy of a SET arrives in the end. (One that never did would be a lost
one.) Nothing is assumed of users, of the PDU's being on, of moves, or of a
request on a closed engine. No strong fairness is used. Losses, changes and moves
are bounded by constants: a network that loses every packet would refute every
liveness property and say nothing about the code.

## 4. Proofs

The proofs assume only what the modules' `ASSUME`s say of the constants, and TLC
evaluates these on every run. What they say is what the code or the world gives:
targets are such as `ipaddress` accepts (`FlowAssumption`), an octet is a power of
two and no wider than an address (`TargetAssumption`), the tables of a PDU are
finite. That a layout to poll has one row of an index, one row of a bank and
something to meter (`PollingAssumption`) is not left at that: `LayoutsFitPolls`
proves of `Topology` that every setup, however its walks were cut short, hands on
such a layout. Each proof module has an inductive invariant, one lemma or step
per action, and reads its theorems off the invariant.

| Module | Theorems | Inductive invariant |
| --- | --- | --- |
| `SnmpSessionProofs` | `SessionTypes`, `SessionExclusion`, `SessionEngines`, `SessionSharing`, `SessionExchanges`, `WaitersKeepTheLine`, `LineImplemented` | `SessionInv`; the line is a second, smaller one on top |
| `OutletControlProofs` | `EntryTypes`, `SnapshotsAreFresh`, `DisplayFollowsCommands`, `DisplayImplemented`, `PollingGoesOn`, `CooldownsIdle`, `UnloadedStaysQuiet` | `DisplayInv`; timers and polls have one of their own |
| `EntryLifecycleProofs` | `EntryTypesKept`, `IntervalsFollowFailures`, `SelfHealSingle`, `EveryUpdateApplied`, `FailuresSlowDown` | `EntryInv` |
| `TopologyProofs` | `LayoutTypes`, `OutletsNeverTruncated`, `StoredInUse`, `NoEntityLost`, `LayoutsFitPolls` | `LayoutInv`; `TablesInv` on top of it |
| `PollingProofs` | `RegistryFollowsName`, `PollInvHolds`, `PollTypes`, `PublishedIsTruthful` | `NameInv`; `PollInv` |
| `DiscoveryProofs` | `SweepTypes`, `NoPermitLost`, `EnginesStayOpen`, `ProgressCounts`, `NothingMissed`, `NeverHealsToAnother` | `SweepInv`, and `Thorough` for completeness |
| `ConfigFlowProofs` | `FlowTypes`, `NeverAddedTwice`, `NoHostMistaken`, `RegistryImplemented`, `ExpandedAsMeant`, `OnlyMeantOffered` | `FlowInv`; `OffersInv` |
| `NumberLemmas` | induction, existence of functions defined step by step, powers of two, division, bits | |

*Session.* `SessionInv` adds to the properties what `_ensure` relies on
(`EngineKnown`): `_engine` is None or names an engine that is open, and a caller
that is between the test `if self._engine is None` and the assignment still
finds it None. For the line, every step of the session is one of six shapes
(`LineShapes`), each of which keeps the order and maps to a step of `CallLine` or
to a stutter.

*Outlets.* A loaded entry's steps are session steps (`StepOfSession`), so the
session's exclusion carries over; on top of it the invariant says that only the
holder of the lock has read anything, that what it read carries the PDU's present
number of SETs, and that the display is never ahead of that number. From
these, publication can only move the display forward, and up to the present
version, which is the refinement. That polling never stops needs both halves at
once: the debouncer's cooldown implies that its poll is not running, so the end
of a cooldown can start one, and every poll that ends arms the timer.

*Entry.* The strengthening is that the coordinator of a setup in progress has the
entry's host and option unless an update went unheard (`SettingUpHost`), and that
the listener is registered exactly while the entry is loaded (`ListenerWhileLoaded`); without the second a host written
by a self-heal, old or new, could be missed. That a failure never speeds polling
up (`FailuresSlowDown`) joins the invariant, by which the interval is the one that
belongs to the failures so far, with `BackoffGrows`: `min(base * 2^n, 60)` does not
fall as `n` rises, and does not lie below a base of up to 60.

*Topology.* The rows read so far are part of the owner's table as long as only
the entry's own PDU was at its host (`Walked`), so a set with the reported number
of outlets is the whole table; what is stored is what was once whole (`KeptWhole`,
`Stored`), and what was registered before came from it (`Remembered`). A row that
is read lies behind all others, so a walk is a table (`TablesInv`), even one that
two PDUs answered in turn, and of the rows of one bank the last stays.

*Polls.* `PollInv` says what a poll knows at each of its GETs: its list of OIDs is
`Requested`; each value it holds is absent or names the OID it is kept under and is
one of the values that the PDU had there since the poll began (`AnswersSeen`), all
of which are possible ones; and as long as no answer lacked anything, no OID asked
so far is without a value (`WholeSoFar`). A change at the PDU only adds to what was
seen. The last answer completes the third part to the whole list
(`LastChunkAnswers`), and the list has the OIDs of every switch and every sensor
(`RequestedOids`, `SensorRow`), which is where the three places meet that decide
which row is metered by which columns. For this the proofs go through the making
of the list: a finite table has a sorted list of all its pairs (`SortedMembers`),
and flattening loses no member (`FlattenMembers`).

*Sweep.* Permits and probes of an engine are counted as finite sets that lose or
gain one element in each step (`PermitOut`, `GivesBack`, for every way a probe
ends); the list has as many places as there are candidates, so every candidate has
one slot. That engines stay open takes three parts of `SweepInv`: a session in use
is one that was lent the engine of its slot (`SessionsLent`), so that `close()`
leaves the engine (`LentStays`); the pool is open while probes are waited for
(`PoolOpen`); and a sweep that returned or was cancelled has no probe left
(`NoneLeft`). `Thorough` says
that without troubles a probe that is over has what is at its address, and that
all candidates are listed. That the search for one PDU takes no other needs the
least index of a match to exist (`LeastNumber`).

*Dialogs.* Adding an entry keeps one per identity. For the host, what was
validated, is to be imported, or is entered, is at its host while nothing moved.
The refinement needs the first: `HostOf` is a function because identities are
unique. That only is offered what was meant needs `ExpandedAsMeant`: the addresses
between the ends of a network, found by division, are those that agree in the bits
of the prefix, without the two whose other bits are all alike (`SameHighBits`,
`LowBits`); `OffersInv` carries it from the form through the scan to the list.

*Numbers.* The library's induction theorems take an operator as a parameter, which
the provers cannot instantiate. `SetInduction` says the same of a set of numbers,
and is proved by least counterexample (`LeastNumber`). `InductiveFunction` builds
the function that a start and a step determine, from its finite runs; with it
recursive functions (`PowerOfTwo`, and `FlattenSeq` of the community modules) are
shown to exist and to satisfy their equations.

Some of these theorems are about invariants that no run lists, because a run
checks something that implies or contains them: `SessionTypeOK` is part of
`TypeOK` of `OutletControl`; `WaitersInLine` is what the order of `CallLine`
amounts to; `SnapshotFresh` and `CooldownMeansIdle` are the reasons for
`ImplementsDisplay` and `PollingNeverStops`; `ProgressExact` is a part of
`SweepInv`.

Only model-checked is liveness: `CallsReturn`, `DisplayConverges`,
`ReachableEntryLoads`, `SelfHealReaches`, `SetupCompletes`, `RenamesArrive`,
`SweepEnds`, `ValidOnesAdded`. Liveness under fairness, and `ENABLED`, are outside
what the provers can do. The runs that fail are counterexamples and have nothing
to prove.

## 5. What is not modelled

- *Credentials, port and SNMP version.* A host update of a configured PDU keeps
  the entry's old port and credentials, whatever the dialog was given
  (`config_flow.py:455`): no state of `ConfigFlow` tells it apart.
- *An identity answered in part.* What `Topology` reads of a PDU at setup is whole
  or not there; a serial number or a count that is absent from one answer only
  (`coordinator.py:212-236`) is not modelled.
- *A dialog closed while it validates*, in the middle of `_validate`: a dialog
  of `ConfigFlow` closes between its steps.
- *What the ARP table cannot give.* Where it lists hosts, a PDU at another address
  is not looked for (`discovery.py:201`); and an old entry lends the MAC of a PDU to
  another that tells none, which the self-heal then takes for the first
  (`discovery.py:213`). Both are in `Discovery`, and no property denies them.
- *The throttling of the progress bar* (`config_flow.py:186-195`, `:309-315`): its
  mark is reset after a subnet scan but not after the automatic one, so the bar
  of the scan that follows shows nothing but its end.
- *Sessions left open by setups that are not ready* are counted (`orphans` of
  `EntryLifecycle`), but no property says that there are none: there is no
  `close()` on that path (`__init__.py:62`).
- *The order in which rows are asked for* when two rows have one bank id: the code
  asks for the row that stays at the place of the first, `Polling` at its own. It
  decides only which OIDs share a GET.
- *Malformed values* in the coercion helpers, and text that is no address in
  `parse_scan_targets`: pure functions on text.
- *Diagnostics*, a read-only dump; translations, brand images, packaging; units,
  classes and precision of sensors; manufacturer, firmware and link of the device.
- *Home Assistant and pysnmp* beyond what the code relies on.

## 6. Plan

Done in the order of importance: session; outlets on top of it; the entry;
topology; discovery; dialogs; then the abstract specifications and their
refinements, polls in detail, scan targets, and the proofs about all of them.

What is left:

1. *Port and credentials* as state of an entry and of a dialog, to state what a
   host update ought to carry over, together with a PDU that answers only to them.
2. *An entry with its outlets*: `EntryLifecycle` driving two instances of
   `OutletControl`, instead of `SwitchedElsewhere` for the commands of the old
   session and `old` for its polls.
3. *Progress of a flow*: the throttle and the two scans that share it.
4. *Proofs towards liveness*: what is left of the liveness properties without
   fairness, as action properties: that an exchange brings a call nearer to its
   return, a probe a sweep nearer to its end, and a setup nearer to being loaded.
