--------------------------- MODULE OutletControl ---------------------------
(***************************************************************************)
(* One loaded config entry: the outlet switches (switch.py), the polls     *)
(* that the coordinator runs (coordinator.py, on Home Assistant's          *)
(* DataUpdateCoordinator and Debouncer), the session they share            *)
(* (SnmpSession) and the PDU's relays.                                     *)
(*                                                                         *)
(* Callers of the session are the switch commands, the scheduled polls     *)
(* (the Background callers) and the debounced poll, of which the           *)
(* debouncer's lock lets one run at a time.  What get() returns and what   *)
(* set_int() changes is used by the caller without another await, so the   *)
(* step that releases the session's lock also publishes.                   *)
(***************************************************************************)
EXTENDS SnmpSession

CONSTANTS
    Outlets,
    Chunk,        \* Chunk[o]: the exchange of a poll that reads outlet o
    Debounced,    \* the poll behind async_request_refresh
    MaxCommands,  \* bound: switch commands given
    MaxFaults     \* bound: requests that get no proper answer, or a late one,
                  \* and outlets that somebody else switches

Polls    == Background \cup {Debounced}
Commands == Callers \ Polls

ASSUME OutletAssumption ==
    /\ Debounced \in Callers \ Background
    /\ Outlets # {}
    /\ Chunk \in [Outlets -> 1 .. MaxParts]
    /\ {MaxCommands, MaxFaults} \subseteq Nat

VARIABLES
    pending,    \* the state each outlet was last told to take
    relay,      \* the state its relay has, and the PDU reports
    sets,       \* how many SETs the PDU has carried out on each outlet
    late,       \* copies of SETs that are still in the network, unawaited
    request,    \* the outlet and state each command asks for
    got,        \* the outlets whose state a call has read or set
    seen,       \* that state, and sets at the moment the PDU answered
    shown,      \* coordinator.data.outlet_states, with the sets it is from
    available,  \* last_update_success
    timer,      \* the next scheduled poll is armed
    cooldown,   \* the debouncer's timer runs
    atEnd,      \* and a poll is due when it ends
    due,        \* due[o]: reconcile timers running after commands to o
    issued, faults    \* what the bounds count

pduVars   == <<pending, relay, sets, late>>
readVars  == <<request, got, seen>>
showVars  == <<shown, available>>
timerVars == <<timer, cooldown, atEnd, due>>
countVars == <<issued, faults>>
vars == <<sessionVars, pduVars, readVars, showVars, timerVars, countVars>>

Sample == [on : BOOLEAN, sets : Nat]
Unread == [o \in Outlets |-> [on |-> FALSE, sets |-> 0]]
NothingLate == [o \in Outlets |-> [on \in BOOLEAN |-> 0]]
NoRequest == [outlet |-> CHOOSE o \in Outlets : TRUE, on |-> FALSE]

TypeOK ==
    /\ SessionTypeOK
    /\ pending \in [Outlets -> BOOLEAN]
    /\ relay \in [Outlets -> BOOLEAN]
    /\ sets \in [Outlets -> Nat]
    /\ late \in [Outlets -> [BOOLEAN -> Nat]]
    /\ request \in [Commands -> [outlet : Outlets, on : BOOLEAN]]
    /\ got \in [Callers -> SUBSET Outlets]
    /\ seen \in [Callers -> [Outlets -> Sample]]
    /\ shown \in [Outlets -> Sample]
    /\ available \in BOOLEAN
    /\ timer \in BOOLEAN
    /\ cooldown \in BOOLEAN
    /\ atEnd \in BOOLEAN
    /\ due \in [Outlets -> Nat]
    /\ issued \in 0 .. MaxCommands
    /\ faults \in 0 .. MaxFaults

\* The entry has just been set up: identity, topology and the first poll have
\* been read on the session's own engine.
Init ==
    /\ holder = Nobody
    /\ ahead = [c \in Callers |-> {}]
    /\ stage = [c \in Callers |-> "idle"]
    /\ left = [c \in Callers |-> 0]
    /\ tries = [c \in Callers |-> 0]
    /\ using = [c \in Callers |-> NoEngine]
    /\ engine = 1 /\ built = 1 /\ alive = {1}
    /\ owned = TRUE /\ target = TRUE /\ closed = FALSE
    /\ pending \in [Outlets -> BOOLEAN]
    /\ relay = pending
    /\ sets = [o \in Outlets |-> 0]
    /\ late = NothingLate
    /\ request = [c \in Commands |-> NoRequest]
    /\ got = [c \in Callers |-> {}]
    /\ seen = [c \in Callers |-> Unread]
    /\ shown = [o \in Outlets |-> [on |-> relay[o], sets |-> 0]]
    /\ available = TRUE
    /\ timer = TRUE /\ cooldown = FALSE /\ atEnd = FALSE
    /\ due = [o \in Outlets |-> 0]
    /\ issued = 0 /\ faults = 0

-----------------------------------------------------------------------------
(* The PDU.                                                                 *)

CarryOut(o, on) ==
    /\ pending' = [pending EXCEPT ![o] = on]
    /\ sets' = [sets EXCEPT ![o] = @ + 1]
    /\ UNCHANGED <<relay, late>>

Delay(o, on) ==
    /\ late' = [late EXCEPT ![o][on] = @ + 1]
    /\ UNCHANGED <<pending, relay, sets>>

\* A SET that gets no reply in time was lost on its way to the PDU or on the
\* way back, or a copy of it is delayed, whatever becomes of the next one.
MayCarryOut(c) ==
    \/ CarryOut(request[c].outlet, request[c].on)
    \/ Delay(request[c].outlet, request[c].on)
    \/ UNCHANGED pduVars

\* The delayed copy arrives when its call has gone on, failed or been followed
\* by others: to the entry it is one more hand at the PDU.
LateArrives(o, on) ==
    /\ late[o][on] > 0
    /\ late' = [late EXCEPT ![o][on] = @ - 1]
    /\ pending' = [pending EXCEPT ![o] = on]
    /\ UNCHANGED <<sessionVars, relay, sets, readVars, showVars, timerVars,
                   countVars>>

\* The relay takes the state it was told to, a second or two later.
Settle(o) ==
    /\ relay[o] # pending[o]
    /\ relay' = [relay EXCEPT ![o] = pending[o]]
    /\ UNCHANGED <<sessionVars, pending, sets, late, readVars, showVars,
                   timerVars, countVars>>

Fault == faults < MaxFaults /\ faults' = faults + 1

\* A request that gets no reply is one fault, however often it is sent again.
NoReply(c) == IF tries[c] = 0 THEN Fault ELSE faults' = faults

\* The outlet is switched at the PDU itself, or, after a reload, by a command
\* that the predecessor's session had in flight or in its queue: the lock of
\* this session does not hold it back.
SwitchedElsewhere(o) ==
    /\ Fault
    /\ pending' = [pending EXCEPT ![o] = ~@]
    /\ UNCHANGED <<sessionVars, relay, sets, late, readVars, showVars, timerVars,
                   issued>>

\* The steps of a call that nobody but the session sees.
Inner(c) ==
    /\ Grant(c) \/ EngineBuilt(c) \/ TargetBuilt(c) \/ NextPart(c)
    /\ UNCHANGED <<pduVars, readVars, showVars, timerVars, countVars>>

Forget(c) ==
    /\ got' = [got EXCEPT ![c] = {}]
    /\ seen' = [seen EXCEPT ![c] = Unread]
    /\ request' = IF c \in Commands THEN [request EXCEPT ![c] = NoRequest]
                                    ELSE request

\* The data a call leaves in coordinator.data.
PublishNewerOnly(c) ==
    shown' = [o \in Outlets |->
                 IF o \in got[c] /\ seen[c][o].sets > shown[o].sets
                 THEN seen[c][o] ELSE shown[o]]

Publish(c) ==
    shown' = [o \in Outlets |-> IF o \in got[c] THEN seen[c][o] ELSE shown[o]]

-----------------------------------------------------------------------------
(* Polls: DataUpdateCoordinator._async_refresh around _async_update_data.   *)

\* A refresh begins by cancelling the timer of the next one and whatever the
\* debouncer had planned.
StartPoll(p) ==
    /\ Call(p, MaxParts)
    /\ timer' = FALSE
    /\ cooldown' = FALSE
    /\ atEnd' = FALSE
    /\ UNCHANGED <<pduVars, readVars, showVars, countVars>>

TimerFires(p) ==
    /\ timer
    /\ StartPoll(p)
    /\ UNCHANGED due

\* The PDU answers for the outlets of the current chunk.  An outlet whose state
\* is absent from the answer is taken for one that is off.
PollAnswer(p) ==
    LET read == {o \in Outlets : Chunk[o] = MaxParts - left[p] + 1} IN
    \E absent \in SUBSET read :
        /\ Answer(p)
        /\ IF absent = {} THEN faults' = faults ELSE Fault
        /\ got' = [got EXCEPT ![p] = @ \cup read]
        /\ seen' = [seen EXCEPT ![p] =
              [o \in Outlets |->
                  IF o \in read THEN [on |-> relay[o] /\ o \notin absent,
                                     sets |-> sets[o]]
                                ELSE seen[p][o]]]
        /\ UNCHANGED <<request, pduVars, showVars, timerVars, issued>>

PollRetry(p) ==
    /\ Resend(p)
    /\ NoReply(p)
    /\ UNCHANGED <<pduVars, readVars, showVars, timerVars, issued>>

\* A refresh ends by arming the next one while the entry is loaded; the
\* debounced one also starts the debouncer's cooldown.
PlanNextAfterSuccess(p) ==
    /\ timer' = (available' /\ ~closed)
    /\ cooldown' = IF p = Debounced THEN ~closed ELSE cooldown
    /\ UNCHANGED <<atEnd, due>>

PlanNext(p) ==
    /\ timer' = ~closed
    /\ cooldown' = IF p = Debounced THEN ~closed ELSE cooldown
    /\ UNCHANGED <<atEnd, due>>

PollFinish(p) ==
    /\ Finish(p)
    /\ Publish(p)
    /\ available' = TRUE
    /\ PlanNext(p)
    /\ Forget(p)
    /\ UNCHANGED <<pduVars, countVars>>

\* UpdateFailed, or another exception: the last data stays.  (The session has
\* its engine and target until it is closed, and closes once: _ensure never
\* comes back here without an engine.)
PollFails(p) ==
    /\ \/ TimeOut(p) /\ NoReply(p)
       \/ Refused(p) /\ Fault
       \/ (TargetFails(p) \/ Broken(p)) /\ faults' = faults
    /\ available' = FALSE
    /\ PlanNext(p)
    /\ Forget(p)
    /\ UNCHANGED <<shown, pduVars, issued>>

-----------------------------------------------------------------------------
(* Commands: CyberPowerOutletSwitch._async_command.                         *)

CommandStartOptimistic(c, o, on) ==
    /\ ~closed /\ available
    /\ issued < MaxCommands
    /\ issued' = issued + 1
    /\ Call(c, 1)
    /\ request' = [request EXCEPT ![c] = [outlet |-> o, on |-> on]]
    /\ shown' = [shown EXCEPT ![o] = [on |-> on, sets |-> sets[o] + 1]]
    /\ UNCHANGED <<got, seen, pduVars, available, timerVars, faults>>

\* Home Assistant calls the service of an available entity only.
CommandStart(c, o, on) ==
    /\ ~closed /\ available
    /\ issued < MaxCommands
    /\ issued' = issued + 1
    /\ Call(c, 1)
    /\ request' = [request EXCEPT ![c] = [outlet |-> o, on |-> on]]
    /\ UNCHANGED <<got, seen, pduVars, showVars, timerVars, faults>>

CommandAnswer(c) ==
    LET o == request[c].outlet IN
    /\ Answer(c)
    /\ CarryOut(o, request[c].on)
    /\ got' = [got EXCEPT ![c] = {o}]
    /\ seen' = [seen EXCEPT ![c][o] = [on |-> request[c].on, sets |-> sets'[o]]]
    /\ UNCHANGED <<request, showVars, timerVars, countVars>>

CommandRetry(c) ==
    /\ Resend(c)
    /\ NoReply(c)
    /\ MayCarryOut(c)
    /\ UNCHANGED <<readVars, showVars, timerVars, issued>>

\* set_int returns, the new state is shown and the reconcile timer starts.
CommandFinish(c) ==
    /\ Finish(c)
    /\ Publish(c)
    /\ due' = [due EXCEPT ![request[c].outlet] = @ + 1]
    /\ Forget(c)
    /\ UNCHANGED <<pduVars, available, timer, cooldown, atEnd, countVars>>

\* HomeAssistantError, or another exception: nothing is shown or planned.
CommandFails(c) ==
    /\ \/ TimeOut(c) /\ NoReply(c) /\ MayCarryOut(c)
       \/ Refused(c) /\ Fault /\ UNCHANGED pduVars
       \/ (TargetFails(c) \/ Broken(c)) /\ UNCHANGED <<faults, pduVars>>
    /\ Forget(c)
    /\ UNCHANGED <<showVars, timerVars, issued>>

-----------------------------------------------------------------------------
(* _reconcile, three seconds after a command, when the relay has settled:   *)
(* async_request_refresh through the debouncer.                             *)

ReconcileAnyTime(o) ==
    /\ relay[o] = pending[o]
    /\ due' = [due EXCEPT ![o] = @ - 1]

Reconcile(o) ==
    /\ due[o] > 0
    /\ relay[o] = pending[o]
    /\ due' = [due EXCEPT ![o] = @ - 1]

Quiet == UNCHANGED <<sessionVars, pduVars, readVars, showVars, countVars>>

\* The reconcile timer outlives the entry: the debouncer has been shut down.
ReconcileTooLate(o) ==
    /\ Reconcile(o)
    /\ closed
    /\ Quiet /\ UNCHANGED <<timer, cooldown, atEnd>>

ReconcileDeferred(o) ==
    /\ Reconcile(o)
    /\ ~closed /\ cooldown
    /\ atEnd' = TRUE
    /\ Quiet /\ UNCHANGED <<timer, cooldown>>

\* A debounced poll is running: this request is dropped in its favour.
ReconcileDropped(o) ==
    /\ Reconcile(o)
    /\ ~closed /\ ~cooldown /\ stage[Debounced] # "idle"
    /\ Quiet /\ UNCHANGED <<timer, cooldown, atEnd>>

ReconcilePollsUnguarded(o) ==
    /\ Reconcile(o)
    /\ ~cooldown
    /\ StartPoll(Debounced)

ReconcilePolls(o) ==
    /\ Reconcile(o)
    /\ ~closed /\ ~cooldown
    /\ StartPoll(Debounced)

CooldownEnds ==
    /\ cooldown
    /\ \/ ~atEnd /\ cooldown' = FALSE /\ Quiet /\ UNCHANGED <<timer, atEnd>>
       \/ atEnd /\ StartPoll(Debounced)
    /\ UNCHANGED due

-----------------------------------------------------------------------------
(* async_unload_entry: entities and timers go, the session is closed, the   *)
(* scheduled poll is cancelled.  A command in flight goes on, and so does   *)
(* its reconcile timer.                                                     *)

Unload ==
    /\ Close
    /\ IF holder \in Commands /\ stage[holder] = "sent"
       THEN MayCarryOut(holder) ELSE UNCHANGED pduVars
    /\ timer' = FALSE /\ cooldown' = FALSE /\ atEnd' = FALSE
    /\ got' = [c \in Callers |-> IF c \in Background THEN {} ELSE got[c]]
    /\ seen' = [c \in Callers |-> IF c \in Background THEN Unread ELSE seen[c]]
    /\ UNCHANGED <<request, showVars, due, countVars>>

-----------------------------------------------------------------------------

PollStep(p) == PollAnswer(p) \/ PollRetry(p) \/ PollFinish(p) \/ PollFails(p)

CommandStep(c) ==
    CommandAnswer(c) \/ CommandRetry(c) \/ CommandFinish(c) \/ CommandFails(c)

ReconcileStep(o) ==
    \/ ReconcileTooLate(o) \/ ReconcileDeferred(o)
    \/ ReconcileDropped(o) \/ ReconcilePolls(o)

Next ==
    \/ \E c \in Callers : Inner(c)
    \/ \E p \in Background : TimerFires(p)
    \/ \E p \in Polls : PollStep(p)
    \/ \E c \in Commands :
          \/ \E o \in Outlets, on \in BOOLEAN : CommandStart(c, o, on)
          \/ CommandStep(c)
    \/ \E o \in Outlets :
          \/ ReconcileStep(o) \/ Settle(o) \/ SwitchedElsewhere(o)
          \/ \E on \in BOOLEAN : LateArrives(o, on)
    \/ CooldownEnds
    \/ Unload

\* The event loop runs what is ready, timers fire, relays settle, and an
\* exchange is answered or times out.  Nobody has to give a command or unload
\* the entry, and nothing is owed to a request on a closed engine.
Fairness ==
    /\ \A c \in Callers : WF_vars(Inner(c))
    /\ \A p \in Polls : WF_vars(PollStep(p))
    /\ \A c \in Commands : WF_vars(CommandStep(c))
    /\ WF_vars(\E p \in Background : TimerFires(p))
    /\ \A o \in Outlets : WF_vars(ReconcileStep(o)) /\ WF_vars(Settle(o))
    /\ WF_vars(CooldownEnds)
    /\ \A o \in Outlets, on \in BOOLEAN : WF_vars(LateArrives(o, on))

Spec == Init /\ [][Next]_vars /\ Fairness

-----------------------------------------------------------------------------
(* Properties.                                                              *)

\* Nothing a call has read is out of date when it is published: between the
\* first chunk of a poll and the end of its get(), and between a SET and its
\* optimistic write, the PDU carries out no other SET of this entry.
SnapshotFresh ==
    \A c \in Callers : \A o \in got[c] : seen[c][o].sets = sets[o]

\* The display follows the commands: what it shows of an outlet is never
\* replaced by something read before the last SET it already reflects.
DisplayInCommandOrder ==
    [][\A o \in Outlets : shown'[o].sets >= shown[o].sets]_vars

\* For its readers the whole of it, session, chunks, debouncer and retries,
\* behaves like OutletDisplay: a SET and a publication are each one step, and
\* every publication is up to date.
Display == INSTANCE OutletDisplay
              WITH version <- sets, display <- [o \in Outlets |-> shown[o].sets]
ImplementsDisplay == Display!Spec

\* However reconciles, cooldowns and timers cancel one another, a loaded entry
\* always has a poll running or armed.
PollingNeverStops ==
    ~closed => timer \/ \E p \in Polls : stage[p] # "idle"

\* A debouncer that waits has no poll of its own running, so the poll at the
\* end of a cooldown is never dropped.
CooldownMeansIdle == cooldown => stage[Debounced] = "idle"

\* No poll begins once the entry is unloaded, not even one that a reconcile
\* timer started earlier asks for.
NoPollAfterUnload ==
    [][closed => \A p \in Polls : stage[p] = "idle" => stage'[p] = "idle"]_vars

\* When commands, faults and other switching cease, every switch comes to show
\* its relay, also where a SET was reported as failed but carried out, arrived
\* again after a later one, came from before a reload, was overtaken at the
\* PDU's panel, was read before its relay settled, or was absent from an answer.
DisplayConverges ==
    <>[](closed \/ \A o \in Outlets : shown[o].on = relay[o])

\* What the tests of removal say (tests/test_discovery.py): it closes the SNMP
\* session.  Once the last call has returned, no engine is open.
UnloadClosesSession ==
    closed /\ (\A c \in Callers : stage[c] = "idle") => alive = {}
=============================================================================
