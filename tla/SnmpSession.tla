---------------------------- MODULE SnmpSession ----------------------------
(***************************************************************************)
(* One CyberPowerSnmp object (src/custom_components/cyberpower_pdu/        *)
(* snmp.py) and the coroutines that call it.  get(), walk() and set_int()  *)
(* hold the session's asyncio.Lock over _ensure() and over every exchange  *)
(* with the PDU; close() takes no lock and may run between any two of      *)
(* their awaits.  An action runs from one suspension of the event loop to  *)
(* the next.                                                               *)
(*                                                                         *)
(* A call makes left[c] exchanges: the chunks of a get, the rows of a      *)
(* walk, or the single SET.  What the exchanges carry is left to the       *)
(* modules that extend this one.                                           *)
(***************************************************************************)
EXTENDS Naturals

CONSTANTS
    Callers,      \* the coroutines that may call the session
    Background,   \* those that the unloading of the entry cancels
    Retries,      \* SNMP_RETRIES: how often a lost request is sent again
    MaxParts,     \* bound: the exchanges of one call
    Nobody        \* the lock is free

ASSUME SessionAssumption ==
    /\ Background \subseteq Callers
    /\ Nobody \notin Callers
    /\ Retries \in Nat
    /\ MaxParts \in Nat \ {0}

VARIABLES
    holder,   \* who holds _lock
    ahead,    \* ahead[c]: those that asked for the lock before c and still wait
    stage,    \* the await at which each caller is suspended
    left,     \* exchanges the call has still to make, the current one included
    tries,    \* how often the current request was sent again
    using,    \* the engine that _ensure returned to the caller
    engine,   \* _engine
    owned,    \* _owns_engine
    target,   \* _target is not None
    built,    \* the number of engines made so far: engines are 1, 2, ...
    alive,    \* the engines whose dispatcher has not been closed
    closed    \* close() has run

lockVars    == <<holder, ahead>>
callVars    == <<stage, left, tries, using>>
engineVars  == <<engine, owned, target, built, alive, closed>>
sessionVars == <<lockVars, callVars, engineVars>>

NoEngine == 0

Stages  == {"idle", "queued", "engine", "target", "sent", "answered"}
Holding == {"engine", "target", "sent", "answered"}   \* inside async with _lock

Waiting == {c \in Callers : stage[c] = "queued"}

SessionTypeOK ==
    /\ holder \in Callers \cup {Nobody}
    /\ ahead \in [Callers -> SUBSET Callers]
    /\ stage \in [Callers -> Stages]
    /\ left \in [Callers -> 0 .. MaxParts]
    /\ tries \in [Callers -> 0 .. Retries]
    /\ using \in [Callers -> Nat]
    /\ engine \in Nat
    /\ owned \in BOOLEAN
    /\ target \in BOOLEAN
    /\ built \in Nat
    /\ alive \in SUBSET Nat
    /\ closed \in BOOLEAN

\* A session is made without an engine, which it then owns, or with engine 1,
\* which it shares with other sessions.
SessionInit ==
    /\ holder = Nobody
    /\ ahead = [c \in Callers |-> {}]
    /\ stage = [c \in Callers |-> "idle"]
    /\ left = [c \in Callers |-> 0]
    /\ tries = [c \in Callers |-> 0]
    /\ using = [c \in Callers |-> NoEngine]
    /\ owned \in BOOLEAN
    /\ engine = (IF owned THEN NoEngine ELSE 1)
    /\ built = engine
    /\ alive = {engine} \ {NoEngine}
    /\ target = FALSE
    /\ closed = FALSE

-----------------------------------------------------------------------------
(* The lock: asyncio.Lock serves its waiters in the order they came, and a  *)
(* newcomer takes a free lock at once only when nobody waits.               *)

FreeIgnoringHolder == Waiting = {}
Free == holder = Nobody /\ Waiting = {}

FirstInLineAnyway(c) == stage[c] = "queued" /\ ahead[c] = {}
AnyoneInLine(c) == stage[c] = "queued" /\ holder = Nobody
FirstInLine(c) == stage[c] = "queued" /\ holder = Nobody /\ ahead[c] = {}

\* c stops holding the lock, returning or raising.
Return(c) ==
    /\ stage' = [stage EXCEPT ![c] = "idle"]
    /\ left' = [left EXCEPT ![c] = 0]
    /\ tries' = [tries EXCEPT ![c] = 0]
    /\ using' = [using EXCEPT ![c] = NoEngine]

LeaveWithoutRelease(c) == Return(c) /\ UNCHANGED lockVars

Leave(c) ==
    /\ Return(c)
    /\ holder' = Nobody
    /\ UNCHANGED ahead

\* c runs on with engine e and, if t, a target: the exchange starts, or c
\* awaits what _ensure still misses.
RunOn(c, e, t) ==
    /\ stage' = [stage EXCEPT ![c] = CASE e = NoEngine -> "engine"
                                       [] e # NoEngine /\ ~t -> "target"
                                       [] e # NoEngine /\ t -> "sent"]
    /\ using' = [using EXCEPT ![c] = IF t THEN e ELSE NoEngine]

-----------------------------------------------------------------------------
(* The beginning of get, walk and set_int.                                  *)

\* The lock is free: no suspension before the first await of _ensure, or
\* before the first exchange when engine and target exist.
CallAtOnce(c, n) ==
    /\ stage[c] = "idle"
    /\ c \in Background => ~closed
    /\ Free
    /\ holder' = c
    /\ left' = [left EXCEPT ![c] = n]
    /\ tries' = [tries EXCEPT ![c] = 0]
    /\ RunOn(c, engine, target)
    /\ UNCHANGED <<ahead, engineVars>>

CallQueued(c, n) ==
    /\ stage[c] = "idle"
    /\ c \in Background => ~closed
    /\ ~Free
    /\ stage' = [stage EXCEPT ![c] = "queued"]
    /\ ahead' = [ahead EXCEPT ![c] = Waiting]
    /\ left' = [left EXCEPT ![c] = n]
    /\ tries' = [tries EXCEPT ![c] = 0]
    /\ UNCHANGED <<holder, using, engineVars>>

Call(c, n) == CallAtOnce(c, n) \/ CallQueued(c, n)

\* The waiter that the last release woke runs.
Grant(c) ==
    /\ FirstInLine(c)
    /\ holder' = c
    /\ ahead' = [d \in Callers |-> ahead[d] \ {c}]
    /\ RunOn(c, engine, target)
    /\ UNCHANGED <<left, tries, engineVars>>

-----------------------------------------------------------------------------
(* _ensure: the two awaits between the tests of _engine and _target and the *)
(* assignments to them.                                                     *)

EngineBuilt(c) ==
    /\ stage[c] = "engine"
    /\ built' = built + 1
    /\ engine' = built + 1
    /\ alive' = alive \cup {built + 1}
    /\ owned' = TRUE
    /\ RunOn(c, built + 1, target)
    /\ UNCHANGED <<lockVars, left, tries, target, closed>>

TargetBuilt(c) ==
    /\ stage[c] = "target"
    /\ engine # NoEngine
    /\ target' = TRUE
    /\ RunOn(c, engine, TRUE)
    /\ UNCHANGED <<lockVars, left, tries, engine, owned, built, alive, closed>>

\* close() ran during the await: _ensure returns None for the engine and the
\* command generator raises on it.
TargetBuiltForNothing(c) ==
    /\ stage[c] = "target"
    /\ engine = NoEngine
    /\ target' = TRUE
    /\ Leave(c)
    /\ UNCHANGED <<engine, owned, built, alive, closed>>

\* The host name does not resolve: the error leaves through the lock.
TargetFailsForgetting(c) ==
    /\ stage[c] = "target"
    /\ Leave(c)
    /\ engine' = NoEngine
    /\ UNCHANGED <<owned, target, built, alive, closed>>

TargetFails(c) ==
    /\ stage[c] = "target"
    /\ Leave(c)
    /\ UNCHANGED engineVars

-----------------------------------------------------------------------------
(* The exchanges.  The timers and the socket are the engine's: on an engine *)
(* that was closed no reply and no timeout comes any more.                  *)

OnTheWire(c) == stage[c] = "sent" /\ using[c] \in alive

Answer(c) ==
    /\ OnTheWire(c)
    /\ stage' = [stage EXCEPT ![c] = "answered"]
    /\ UNCHANGED <<lockVars, left, tries, using, engineVars>>

Resend(c) ==
    /\ OnTheWire(c)
    /\ tries[c] < Retries
    /\ tries' = [tries EXCEPT ![c] = @ + 1]
    /\ UNCHANGED <<lockVars, stage, left, using, engineVars>>

TimeOut(c) ==
    /\ OnTheWire(c)
    /\ tries[c] = Retries
    /\ Leave(c)
    /\ UNCHANGED engineVars

\* The PDU answers with an error status.
Refused(c) ==
    /\ OnTheWire(c)
    /\ Leave(c)
    /\ UNCHANGED engineVars

\* The next chunk goes out on the engine that _ensure returned at the start,
\* whatever _engine has become.
NextPart(c) ==
    /\ stage[c] = "answered"
    /\ left[c] > 1
    /\ stage' = [stage EXCEPT ![c] = "sent"]
    /\ left' = [left EXCEPT ![c] = @ - 1]
    /\ tries' = [tries EXCEPT ![c] = 0]
    /\ UNCHANGED <<lockVars, using, engineVars>>

Finish(c) ==
    /\ stage[c] = "answered"
    /\ left[c] = 1
    /\ Leave(c)
    /\ UNCHANGED engineVars

\* A request on a closed engine may raise; it may as well wait for ever.
Broken(c) ==
    /\ stage[c] = "sent"
    /\ using[c] \notin alive
    /\ Leave(c)
    /\ UNCHANGED engineVars

-----------------------------------------------------------------------------
(* close(), and the cancelling of background calls that goes with it when   *)
(* the entry unloads.                                                       *)

CloseAnyEngine ==
    /\ alive' = alive \ {engine}
    /\ engine' = NoEngine

CloseOwnEngine ==
    /\ alive' = IF owned THEN alive \ {engine} ELSE alive
    /\ engine' = IF owned THEN NoEngine ELSE engine

Close ==
    /\ ~closed
    /\ CloseOwnEngine
    /\ target' = FALSE
    /\ closed' = TRUE
    /\ holder' = IF holder \in Background THEN Nobody ELSE holder
    /\ ahead' = [c \in Callers |-> ahead[c] \ Background]
    /\ stage' = [c \in Callers |-> IF c \in Background THEN "idle" ELSE stage[c]]
    /\ left' = [c \in Callers |-> IF c \in Background THEN 0 ELSE left[c]]
    /\ tries' = [c \in Callers |-> IF c \in Background THEN 0 ELSE tries[c]]
    /\ using' = [c \in Callers |-> IF c \in Background THEN NoEngine ELSE using[c]]
    /\ UNCHANGED <<owned, built>>

-----------------------------------------------------------------------------

\* The steps that end an await of c which must end.
Progress(c) ==
    \/ Grant(c)
    \/ EngineBuilt(c)
    \/ TargetBuilt(c) \/ TargetBuiltForNothing(c) \/ TargetFails(c)
    \/ Answer(c) \/ Resend(c) \/ TimeOut(c) \/ Refused(c)
    \/ NextPart(c) \/ Finish(c)

SessionNext ==
    \/ \E c \in Callers :
          \/ \E n \in 1 .. MaxParts : Call(c, n)
          \/ Progress(c)
          \/ Broken(c)
    \/ Close

SessionSpec ==
    /\ SessionInit
    /\ [][SessionNext]_sessionVars
    /\ \A c \in Callers : WF_sessionVars(Progress(c))

-----------------------------------------------------------------------------
(* Properties.                                                              *)

\* The lock excludes: a caller inside async with _lock is its only holder, so
\* one request is outstanding at a time (the comment at snmp.py:177-178).
OneRequestAtATime ==
    \A c \in Callers : stage[c] \in Holding <=> holder = c

\* _ensure tests _engine, awaits, and assigns it.  Even so two engines are
\* never alive in one session, and none is alive that close() could not reach.
OneLiveEngine == alive \subseteq {engine}

\* A session given a shared engine never closes it (snmp.py:171-176): the
\* other sessions of a sweep still use it.
SharedEngineSurvives == ~owned => engine \in alive

\* Until close(), every exchange runs on the session's engine, which is open:
\* the engine that _ensure returned is not stale when it is used.
ExchangeOnOpenEngine ==
    \A c \in Callers : stage[c] \in {"sent", "answered"} /\ ~closed =>
        using[c] = engine /\ using[c] \in alive

\* Waiters form a line, whoever is granted the lock or cancelled in it: of two
\* of them one is ahead, with all that are ahead of it, and nobody waits for one
\* that has gone.  So a release always finds somebody to wake.
WaitersInLine ==
    \A c, d \in Waiting :
        /\ ahead[c] \subseteq Waiting \ {c}
        /\ c # d => (c \in ahead[d] <=> d \notin ahead[c])
        /\ c \in ahead[d] => ahead[c] \subseteq ahead[d]

\* To its callers the session is a line that serves one call at a time, in the
\* order they came, each from its first exchange to its last.
Line == INSTANCE CallLine
           WITH inside <- {c \in Callers : stage[c] \in Holding},
                waiting <- Waiting,
                before <- [c \in Waiting |-> ahead[c]]
ImplementsLine == Line!Spec

\* Every call returns or raises, unless the session is closed.
CallsReturn ==
    \A c \in Callers : stage[c] # "idle" ~> (stage[c] = "idle" \/ closed)
=============================================================================
