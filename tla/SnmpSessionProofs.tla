------------------------- MODULE SnmpSessionProofs -------------------------
(***************************************************************************)
(* What TLAPS proves of SnmpSession for any callers, any number of retries *)
(* and calls of any length.                                                *)
(***************************************************************************)
EXTENDS SnmpSession, TLAPS

\* What the engine properties need to be inductive: _engine names an open
\* engine or none, and who builds one found none.
EngineKnown ==
    /\ NoEngine \notin alive
    /\ engine # NoEngine => engine \in alive
    /\ \A c \in Callers : stage[c] = "engine" => engine = NoEngine

SessionInv ==
    /\ SessionTypeOK
    /\ OneRequestAtATime
    /\ OneLiveEngine
    /\ SharedEngineSurvives
    /\ ExchangeOnOpenEngine
    /\ EngineKnown

-----------------------------------------------------------------------------

\* The invariant holds of a new session, shared engine or not.
LEMMA SessionInvInit == SessionInit => SessionInv
<1> SUFFICES ASSUME SessionInit PROVE SessionInv
  OBVIOUS
<1> USE SessionAssumption DEF SessionInit, NoEngine
<1>1. SessionTypeOK
  <2>1. engine \in Nat /\ built \in Nat /\ alive \in SUBSET Nat
    OBVIOUS
  <2>2. 0 \in 0 .. MaxParts /\ 0 \in 0 .. Retries
    OBVIOUS
  <2> QED
    BY <2>1, <2>2 DEF SessionTypeOK, Stages
<1>2. OneRequestAtATime
  BY DEF OneRequestAtATime, Holding
<1>3. OneLiveEngine /\ SharedEngineSurvives /\ ExchangeOnOpenEngine /\ EngineKnown
  BY DEF OneLiveEngine, SharedEngineSurvives, ExchangeOnOpenEngine, EngineKnown
<1> QED
  BY <1>1, <1>2, <1>3 DEF SessionInv

\* Running on keeps the types, for any engine and target _ensure may hold.
LEMMA RunOnType ==
    ASSUME SessionTypeOK, NEW c \in Callers, NEW e \in Nat, NEW t \in BOOLEAN,
           RunOn(c, e, t)
    PROVE  /\ stage' \in [Callers -> Stages]
           /\ using' \in [Callers -> Nat]
           /\ stage'[c] \in Holding
           /\ stage'[c] = "engine" <=> e = NoEngine
           /\ stage'[c] \in {"sent", "answered"} => using'[c] = e /\ e # NoEngine
           /\ \A d \in Callers \ {c} : stage'[d] = stage[d] /\ using'[d] = using[d]
  BY DEF SessionTypeOK, RunOn, Stages, Holding, NoEngine

LEMMA TypeStep ==
    ASSUME SessionTypeOK, SessionNext
    PROVE  SessionTypeOK'
<1> USE SessionAssumption DEF SessionTypeOK, lockVars, engineVars
<1>1. ASSUME NEW c \in Callers, NEW n \in 1 .. MaxParts, Call(c, n)
      PROVE  SessionTypeOK'
  <2>1. CASE CallAtOnce(c, n)
    <3>1. stage' \in [Callers -> Stages] /\ using' \in [Callers -> Nat]
      BY <2>1, RunOnType DEF CallAtOnce
    <3>2. n \in 0 .. MaxParts /\ 0 \in 0 .. Retries
      OBVIOUS
    <3> QED
      BY <2>1, <3>1, <3>2 DEF CallAtOnce
  <2>2. CASE CallQueued(c, n)
    <3>1. n \in 0 .. MaxParts /\ 0 \in 0 .. Retries
      OBVIOUS
    <3>2. stage' \in [Callers -> Stages] /\ ahead' \in [Callers -> SUBSET Callers]
      BY <2>2 DEF CallQueued, Stages, Waiting
    <3> QED
      BY <2>2, <3>1, <3>2 DEF CallQueued
  <2> QED
    BY <1>1, <2>1, <2>2 DEF Call
<1>2. ASSUME NEW c \in Callers, Grant(c)
      PROVE  SessionTypeOK'
  <2>1. stage' \in [Callers -> Stages] /\ using' \in [Callers -> Nat]
    BY <1>2, RunOnType DEF Grant
  <2> QED
    BY <1>2, <2>1 DEF Grant
<1>3. ASSUME NEW c \in Callers, EngineBuilt(c)
      PROVE  SessionTypeOK'
  <2>1. stage' \in [Callers -> Stages] /\ using' \in [Callers -> Nat]
    BY <1>3, RunOnType DEF EngineBuilt
  <2> QED
    BY <1>3, <2>1 DEF EngineBuilt
<1>4. ASSUME NEW c \in Callers, TargetBuilt(c)
      PROVE  SessionTypeOK'
  <2>1. stage' \in [Callers -> Stages] /\ using' \in [Callers -> Nat]
    BY <1>4, RunOnType DEF TargetBuilt
  <2> QED
    BY <1>4, <2>1 DEF TargetBuilt
<1>5. ASSUME NEW c \in Callers,
             \/ TargetBuiltForNothing(c) \/ TargetFails(c) \/ TimeOut(c)
             \/ Refused(c) \/ Finish(c) \/ Broken(c)
      PROVE  SessionTypeOK'
  <2>1. Leave(c)
    BY <1>5 DEF TargetBuiltForNothing, TargetFails, TimeOut, Refused, Finish, Broken
  <2>2. /\ holder' \in Callers \cup {Nobody}
        /\ stage' \in [Callers -> Stages]
        /\ using' \in [Callers -> Nat]
        /\ left' \in [Callers -> 0 .. MaxParts]
        /\ tries' \in [Callers -> 0 .. Retries]
        /\ UNCHANGED ahead
    BY <2>1, 0 \in 0 .. MaxParts, 0 \in 0 .. Retries DEF Leave, Return, Stages, NoEngine
  <2>3. UNCHANGED <<engine, owned, built, alive, closed>> /\ target' \in BOOLEAN
    BY <1>5 DEF TargetBuiltForNothing, TargetFails, TimeOut, Refused, Finish, Broken
  <2> QED
    BY <2>2, <2>3
<1>6. ASSUME NEW c \in Callers, Answer(c) \/ Resend(c) \/ NextPart(c)
      PROVE  SessionTypeOK'
  <2>1. CASE Answer(c)
    BY <2>1 DEF Answer, Stages
  <2>2. CASE Resend(c)
    BY <2>2 DEF Resend
  <2>3. CASE NextPart(c)
    <3>1. left[c] - 1 \in 0 .. MaxParts /\ 0 \in 0 .. Retries
      BY <2>3 DEF NextPart
    <3>2. stage' \in [Callers -> Stages]
      BY <2>3 DEF NextPart, Stages
    <3> QED
      BY <2>3, <3>1, <3>2 DEF NextPart
  <2> QED
    BY <1>6, <2>1, <2>2, <2>3
<1>7. ASSUME Close
      PROVE  SessionTypeOK'
  BY <1>7, 0 \in 0 .. MaxParts, 0 \in 0 .. Retries
     DEF Close, CloseOwnEngine, Stages, NoEngine
<1> QED
  BY <1>1, <1>2, <1>3, <1>4, <1>5, <1>6, <1>7 DEF SessionNext, Progress

\* A step keeps the lock's exclusion.
LEMMA LockStep ==
    ASSUME SessionTypeOK, OneRequestAtATime, SessionNext
    PROVE  OneRequestAtATime'
<1> USE SessionAssumption DEF SessionTypeOK, OneRequestAtATime, Holding, lockVars
<1>1. ASSUME NEW c \in Callers, NEW n \in 1 .. MaxParts, CallAtOnce(c, n)
      PROVE  OneRequestAtATime'
  <2>1. stage'[c] \in Holding /\ \A d \in Callers \ {c} : stage'[d] = stage[d]
    BY <1>1, RunOnType DEF CallAtOnce
  <2> QED
    BY <1>1, <2>1 DEF CallAtOnce, Free
<1>2. ASSUME NEW c \in Callers, NEW n \in 1 .. MaxParts, CallQueued(c, n)
      PROVE  OneRequestAtATime'
  BY <1>2 DEF CallQueued
<1>3. ASSUME NEW c \in Callers, Grant(c)
      PROVE  OneRequestAtATime'
  <2>1. stage'[c] \in Holding /\ \A d \in Callers \ {c} : stage'[d] = stage[d]
    BY <1>3, RunOnType DEF Grant
  <2> QED
    BY <1>3, <2>1 DEF Grant, FirstInLine
<1>4. ASSUME NEW c \in Callers, EngineBuilt(c)
      PROVE  OneRequestAtATime'
  <2>1. stage'[c] \in Holding /\ \A d \in Callers \ {c} : stage'[d] = stage[d]
    BY <1>4, RunOnType DEF EngineBuilt
  <2> QED
    BY <1>4, <2>1 DEF EngineBuilt
<1>5. ASSUME NEW c \in Callers, TargetBuilt(c)
      PROVE  OneRequestAtATime'
  <2>1. stage'[c] \in Holding /\ \A d \in Callers \ {c} : stage'[d] = stage[d]
    BY <1>5, RunOnType DEF TargetBuilt
  <2> QED
    BY <1>5, <2>1 DEF TargetBuilt
<1>6. ASSUME NEW c \in Callers,
             \/ TargetBuiltForNothing(c) \/ TargetFails(c) \/ TimeOut(c)
             \/ Refused(c) \/ Finish(c) \/ Broken(c)
      PROVE  OneRequestAtATime'
  <2>1. stage[c] \in Holding /\ Leave(c)
    BY <1>6 DEF TargetBuiltForNothing, TargetFails, TimeOut, Refused, Finish, Broken,
                OnTheWire
  <2> QED
    BY <2>1 DEF Leave, Return
<1>7. ASSUME NEW c \in Callers, Answer(c) \/ Resend(c) \/ NextPart(c)
      PROVE  OneRequestAtATime'
  BY <1>7 DEF Answer, Resend, NextPart, OnTheWire
<1>8. ASSUME Close
      PROVE  OneRequestAtATime'
  BY <1>8 DEF Close
<1> QED
  BY <1>1, <1>2, <1>3, <1>4, <1>5, <1>6, <1>7, <1>8 DEF SessionNext, Progress, Call

\* A step keeps what is known of the engines, given the lock's exclusion.
LEMMA EngineStep ==
    ASSUME SessionInv, SessionNext
    PROVE  /\ OneLiveEngine'
           /\ SharedEngineSurvives'
           /\ ExchangeOnOpenEngine'
           /\ EngineKnown'
<1> DEFINE EngineInv == /\ OneLiveEngine
                       /\ SharedEngineSurvives
                       /\ ExchangeOnOpenEngine
                       /\ EngineKnown
<1> SUFFICES EngineInv'
  OBVIOUS
<1> USE SessionAssumption
    DEF SessionInv, SessionTypeOK, OneRequestAtATime, OneLiveEngine,
        SharedEngineSurvives, ExchangeOnOpenEngine, EngineKnown, lockVars, engineVars
<1>1. ASSUME NEW c \in Callers, NEW n \in 1 .. MaxParts, CallAtOnce(c, n)
      PROVE  EngineInv'
  BY <1>1, RunOnType DEF CallAtOnce
<1>2. ASSUME NEW c \in Callers, NEW n \in 1 .. MaxParts, CallQueued(c, n)
      PROVE  EngineInv'
  BY <1>2 DEF CallQueued
<1>3. ASSUME NEW c \in Callers, Grant(c)
      PROVE  EngineInv'
  BY <1>3, RunOnType DEF Grant
<1>4. ASSUME NEW c \in Callers, EngineBuilt(c)
      PROVE  EngineInv'
  <2>1. \A d \in Callers \ {c} : stage[d] \notin Holding
    BY <1>4 DEF EngineBuilt, Holding
  <2>2. alive = {}
    BY <1>4 DEF EngineBuilt
  <2>3. /\ stage'[c] # "engine"
        /\ stage'[c] \in {"sent", "answered"} => using'[c] = built + 1
        /\ \A d \in Callers \ {c} : stage'[d] = stage[d]
    BY <1>4, RunOnType DEF EngineBuilt, NoEngine
  <2> QED
    BY <1>4, <2>1, <2>2, <2>3 DEF EngineBuilt, Holding, NoEngine
<1>5. ASSUME NEW c \in Callers, TargetBuilt(c)
      PROVE  EngineInv'
  BY <1>5, RunOnType DEF TargetBuilt
<1>6. ASSUME NEW c \in Callers,
             \/ TargetBuiltForNothing(c) \/ TargetFails(c) \/ TimeOut(c)
             \/ Refused(c) \/ Finish(c) \/ Broken(c)
      PROVE  EngineInv'
  <2>1. Leave(c) /\ UNCHANGED <<engine, owned, built, alive, closed>>
    BY <1>6 DEF TargetBuiltForNothing, TargetFails, TimeOut, Refused, Finish, Broken
  <2> QED
    BY <2>1 DEF Leave, Return
<1>7. ASSUME NEW c \in Callers, Answer(c) \/ Resend(c) \/ NextPart(c)
      PROVE  EngineInv'
  BY <1>7 DEF Answer, Resend, NextPart, OnTheWire
<1>8. ASSUME Close
      PROVE  EngineInv'
  BY <1>8 DEF Close, CloseOwnEngine, NoEngine
<1> QED
  BY <1>1, <1>2, <1>3, <1>4, <1>5, <1>6, <1>7, <1>8 DEF SessionNext, Progress, Call

\* Every step keeps the whole invariant.
LEMMA SessionInvStep == SessionInv /\ [SessionNext]_sessionVars => SessionInv'
<1> SUFFICES ASSUME SessionInv, [SessionNext]_sessionVars
             PROVE  SessionInv'
  OBVIOUS
<1>1. CASE SessionNext
  BY <1>1, TypeStep, LockStep, EngineStep DEF SessionInv
<1>2. CASE UNCHANGED sessionVars
  BY <1>2 DEF SessionInv, SessionTypeOK, OneRequestAtATime, OneLiveEngine,
              SharedEngineSurvives, ExchangeOnOpenEngine, EngineKnown,
              sessionVars, lockVars, callVars, engineVars
<1> QED
  BY <1>1, <1>2

\* The session's variables keep their types (the state CyberPowerSnmp.__init__
\* makes, and the awaits of its methods).
THEOREM SessionTypes == SessionSpec => []SessionTypeOK
<1>1. SessionInv => SessionTypeOK
  BY DEF SessionInv
<1> QED
  BY <1>1, SessionInvInit, SessionInvStep, PTL DEF SessionSpec

\* One request is outstanding at a time on a session, whoever calls, whoever
\* is cancelled and whenever close() runs.
THEOREM SessionExclusion == SessionSpec => []OneRequestAtATime
<1>1. SessionInv => OneRequestAtATime
  BY DEF SessionInv
<1> QED
  BY <1>1, SessionInvInit, SessionInvStep, PTL DEF SessionSpec

\* _ensure never leaves two engines alive, though it awaits between its test of
\* _engine and the assignment, and close() may run there.
THEOREM SessionEngines == SessionSpec => []OneLiveEngine
<1>1. SessionInv => OneLiveEngine
  BY DEF SessionInv
<1> QED
  BY <1>1, SessionInvInit, SessionInvStep, PTL DEF SessionSpec

\* close() never takes an engine that other sessions share.
THEOREM SessionSharing == SessionSpec => []SharedEngineSurvives
<1>1. SessionInv => SharedEngineSurvives
  BY DEF SessionInv
<1> QED
  BY <1>1, SessionInvInit, SessionInvStep, PTL DEF SessionSpec

\* Until close(), the engine that _ensure returned is the session's and open
\* at every exchange made with it.
THEOREM SessionExchanges == SessionSpec => []ExchangeOnOpenEngine
<1>1. SessionInv => ExchangeOnOpenEngine
  BY DEF SessionInv
<1> QED
  BY <1>1, SessionInvInit, SessionInvStep, PTL DEF SessionSpec

-----------------------------------------------------------------------------
(* The line of those who wait for the lock.                                 *)

\* What a step does to the line, whichever step of the code it is.
Stays    == Waiting' = Waiting /\ ahead' = ahead
Joins(c) ==
    /\ c \notin Waiting
    /\ Waiting' = Waiting \cup {c}
    /\ ahead' = [ahead EXCEPT ![c] = Waiting]
Served(c) ==
    /\ c \in Waiting /\ ahead[c] = {}
    /\ Waiting' = Waiting \ {c}
    /\ ahead' = [d \in Callers |-> ahead[d] \ {c}]
CalledOff ==
    /\ Waiting' = Waiting \ Background
    /\ ahead' = [d \in Callers |-> ahead[d] \ Background]

Inside == {c \in Callers : stage[c] \in Holding}

\* Every step is one of the line's, and changes who is inside accordingly.
LEMMA LineShapes ==
    ASSUME SessionInv, SessionNext
    PROVE  \/ Stays /\ Inside' = Inside
           \/ \E c \in Callers : Stays /\ Inside' = {c} /\ Inside = {} /\ Waiting = {}
           \/ \E c \in Callers : Stays /\ Inside' = {} /\ Inside = {c}
           \/ \E c \in Callers : /\ Joins(c) /\ Inside' = Inside
                                 /\ c \notin Inside /\ Inside \cup Waiting # {}
           \/ \E c \in Callers : Served(c) /\ Inside = {} /\ Inside' = {c}
           \/ CalledOff /\ Inside' = Inside \ Background
<1> DEFINE Goal ==
      \/ Stays /\ Inside' = Inside
      \/ \E c \in Callers : Stays /\ Inside' = {c} /\ Inside = {} /\ Waiting = {}
      \/ \E c \in Callers : Stays /\ Inside' = {} /\ Inside = {c}
      \/ \E c \in Callers : /\ Joins(c) /\ Inside' = Inside
                            /\ c \notin Inside /\ Inside \cup Waiting # {}
      \/ \E c \in Callers : Served(c) /\ Inside = {} /\ Inside' = {c}
      \/ CalledOff /\ Inside' = Inside \ Background
<1> SUFFICES Goal
  OBVIOUS
<1>0. /\ SessionTypeOK /\ SessionTypeOK'
      /\ stage \in [Callers -> Stages] /\ ahead \in [Callers -> SUBSET Callers]
      /\ stage' \in [Callers -> Stages]
      /\ engine \in Nat /\ built + 1 \in Nat /\ target \in BOOLEAN
      /\ Inside = IF holder = Nobody THEN {} ELSE {holder}
  BY TypeStep, SessionAssumption
     DEF SessionInv, SessionTypeOK, OneRequestAtATime, Inside, Holding
<1> USE SessionAssumption DEF lockVars
<1>1. ASSUME NEW c \in Callers, NEW n \in 1 .. MaxParts, CallAtOnce(c, n)
      PROVE  Goal
  <2>1. /\ stage'[c] \in Holding
        /\ \A d \in Callers \ {c} : stage'[d] = stage[d]
    BY <1>0, <1>1, RunOnType DEF CallAtOnce
  <2>2. /\ Waiting = {} /\ Inside = {} /\ ahead' = ahead
        /\ stage[c] = "idle"
    BY <1>0, <1>1 DEF CallAtOnce, Free
  <2>3. Inside' = {c} /\ Waiting' = Waiting
    BY <2>1, <2>2 DEF Inside, Waiting, Holding
  <2> QED
    BY <2>2, <2>3 DEF Stays
<1>2. ASSUME NEW c \in Callers, NEW n \in 1 .. MaxParts, CallQueued(c, n)
      PROVE  Goal
  <2>1. /\ stage' = [stage EXCEPT ![c] = "queued"] /\ stage[c] = "idle"
        /\ ahead' = [ahead EXCEPT ![c] = Waiting]
        /\ holder # Nobody \/ Waiting # {}
    BY <1>2 DEF CallQueued, Free
  <2>2. /\ c \notin Waiting /\ Waiting' = Waiting \cup {c}
        /\ Inside' = Inside /\ c \notin Inside
    BY <1>0, <2>1 DEF Waiting, Inside, Holding
  <2>3. Inside \cup Waiting # {}
    BY <1>0, <2>1
  <2> QED
    BY <2>1, <2>2, <2>3 DEF Joins
<1>3. ASSUME NEW c \in Callers, Grant(c) PROVE Goal
  <2>1. /\ stage'[c] \in Holding
        /\ \A d \in Callers \ {c} : stage'[d] = stage[d]
    BY <1>0, <1>3, RunOnType DEF Grant
  <2>2. /\ stage[c] = "queued" /\ holder = Nobody /\ ahead[c] = {} /\ Inside = {}
        /\ ahead' = [d \in Callers |-> ahead[d] \ {c}]
    BY <1>0, <1>3 DEF Grant, FirstInLine
  <2>3. c \in Waiting /\ Waiting' = Waiting \ {c} /\ Inside' = {c}
    BY <2>1, <2>2 DEF Waiting, Inside, Holding
  <2> QED
    BY <2>2, <2>3 DEF Served
<1>4. ASSUME NEW c \in Callers, ahead' = ahead, stage[c] \in Holding,
             stage'[c] \in Holding, \A d \in Callers \ {c} : stage'[d] = stage[d]
      PROVE  Goal
  <2>1. Inside' = Inside /\ Waiting' = Waiting
    BY <1>4 DEF Inside, Waiting, Holding
  <2> QED
    BY <1>4, <2>1 DEF Stays
<1>5. ASSUME NEW c \in Callers, EngineBuilt(c) PROVE Goal
  <2>1. stage'[c] \in Holding /\ \A d \in Callers \ {c} : stage'[d] = stage[d]
    BY <1>0, <1>5, RunOnType DEF EngineBuilt
  <2> QED
    BY <1>4, <1>5, <2>1 DEF EngineBuilt, Holding
<1>6. ASSUME NEW c \in Callers, TargetBuilt(c) PROVE Goal
  <2>1. stage'[c] \in Holding /\ \A d \in Callers \ {c} : stage'[d] = stage[d]
    BY <1>0, <1>6, RunOnType DEF TargetBuilt
  <2> QED
    BY <1>4, <1>6, <2>1 DEF TargetBuilt, Holding
<1>7. ASSUME NEW c \in Callers, Answer(c) \/ Resend(c) \/ NextPart(c) PROVE Goal
  BY <1>0, <1>4, <1>7 DEF Answer, Resend, NextPart, OnTheWire, Holding
<1>8. ASSUME NEW c \in Callers,
             \/ TargetBuiltForNothing(c) \/ TargetFails(c) \/ TimeOut(c)
             \/ Refused(c) \/ Finish(c) \/ Broken(c)
      PROVE  Goal
  <2>1. stage[c] \in Holding /\ Leave(c)
    BY <1>8 DEF TargetBuiltForNothing, TargetFails, TimeOut, Refused, Finish, Broken,
                OnTheWire, Holding
  <2>2. stage' = [stage EXCEPT ![c] = "idle"] /\ ahead' = ahead /\ holder' = Nobody
    BY <2>1 DEF Leave, Return
  <2>3. Inside = {c}
    BY <1>0, <2>1 DEF Inside
  <2>4. Inside' = {} /\ Waiting' = Waiting
    BY <1>0, <2>1, <2>2, <2>3 DEF Inside, Waiting, Holding
  <2> QED
    BY <2>2, <2>3, <2>4 DEF Stays
<1>9. ASSUME Close PROVE Goal
  <2>1. /\ ahead' = [c \in Callers |-> ahead[c] \ Background]
        /\ stage' = [c \in Callers |-> IF c \in Background THEN "idle" ELSE stage[c]]
    BY <1>9 DEF Close
  <2>2. Waiting' = Waiting \ Background /\ Inside' = Inside \ Background
    BY <2>1 DEF Waiting, Inside, Holding
  <2> QED
    BY <2>1, <2>2 DEF CalledOff
<1> QED
  BY <1>1, <1>2, <1>3, <1>5, <1>6, <1>7, <1>8, <1>9 DEF SessionNext, Progress, Call

\* A step keeps the line a line.
LEMMA WaitersStep ==
    ASSUME SessionInv, WaitersInLine, [SessionNext]_sessionVars
    PROVE  WaitersInLine'
<1>0. ahead \in [Callers -> SUBSET Callers] /\ Waiting \subseteq Callers
  BY DEF SessionInv, SessionTypeOK, Waiting
<1>1. CASE Stays
  BY <1>1 DEF Stays, WaitersInLine
<1>2. ASSUME NEW c \in Callers, Joins(c) PROVE WaitersInLine'
  BY <1>0, <1>2 DEF Joins, WaitersInLine
<1>3. ASSUME NEW c \in Callers, Served(c) PROVE WaitersInLine'
  BY <1>0, <1>3 DEF Served, WaitersInLine
<1>4. CASE CalledOff
  BY <1>0, <1>4 DEF CalledOff, WaitersInLine
<1>5. CASE UNCHANGED sessionVars
  BY <1>1, <1>5 DEF Stays, Waiting, sessionVars, lockVars, callVars
<1> QED
  BY <1>1, <1>2, <1>3, <1>4, <1>5, LineShapes

\* Whoever waits for the lock has a place in one line, through every grant,
\* cancellation and close(): a release always finds somebody to wake.
THEOREM WaitersKeepTheLine == SessionSpec => []WaitersInLine
<1>1. SessionInit => WaitersInLine
  BY DEF SessionInit, WaitersInLine, Waiting
<1> QED
  BY <1>1, SessionInvInit, SessionInvStep, WaitersStep, PTL DEF SessionSpec

\* The session implements CallLine: calls are served one at a time and in the
\* order they came, each with all its exchanges.
THEOREM LineImplemented == SessionSpec => ImplementsLine
<1> DEFINE Before == [c \in Waiting |-> ahead[c]]
<1>1. SessionInit => Line!Init
  BY DEF SessionInit, Line!Init, Waiting, Holding
<1>2. SessionInv /\ [SessionNext]_sessionVars => [Line!Next]_(Line!lineVars)
  <2> SUFFICES ASSUME SessionInv, [SessionNext]_sessionVars
               PROVE  \/ Line!Next
                      \/ Inside' = Inside /\ Waiting' = Waiting /\ Before' = Before
    BY DEF Line!lineVars, Inside
  <2>0. ahead \in [Callers -> SUBSET Callers] /\ Waiting \subseteq Callers
    BY DEF SessionInv, SessionTypeOK, Waiting
  <2>1. ASSUME Stays PROVE Waiting' = Waiting /\ Before' = Before
    BY <2>1 DEF Stays
  <2>2. ASSUME NEW c \in Callers, Stays, Inside' = {c}, Inside = {}, Waiting = {}
        PROVE  Line!Next
    BY <2>1, <2>2 DEF Line!Next, Line!Enter, Inside, Stays
  <2>3. ASSUME NEW c \in Callers, Stays, Inside' = {}, Inside = {c}
        PROVE  Line!Next
    BY <2>1, <2>3 DEF Line!Next, Line!End, Inside, Stays
  <2>4. ASSUME NEW c \in Callers, Joins(c), Inside' = Inside, c \notin Inside,
               Inside \cup Waiting # {}
        PROVE  Line!Next
    <3>1. Before' = [d \in Waiting' |-> IF d = c THEN Waiting ELSE Before[d]]
      BY <2>0, <2>4 DEF Joins
    <3> QED
      BY <2>4, <3>1 DEF Line!Next, Line!Join, Inside, Joins
  <2>5. ASSUME NEW c \in Callers, Served(c), Inside = {}, Inside' = {c}
        PROVE  Line!Next
    <3>1. Before' = [d \in Waiting' |-> Before[d] \ {c}] /\ Before[c] = {}
      BY <2>0, <2>5 DEF Served
    <3> QED
      BY <2>5, <3>1 DEF Line!Next, Line!Serve, Inside, Served
  <2>6. ASSUME CalledOff, Inside' = Inside \ Background
        PROVE  Line!Next
    <3>1. Before' = [d \in Waiting' |-> Before[d] \ Background]
      BY <2>0, <2>6 DEF CalledOff
    <3> QED
      BY <2>6, <3>1 DEF Line!Next, Line!CallOff, Inside, CalledOff
  <2>7. CASE UNCHANGED sessionVars
    BY <2>7 DEF Inside, Waiting, sessionVars, lockVars, callVars
  <2> QED
    BY <2>1, <2>2, <2>3, <2>4, <2>5, <2>6, <2>7, LineShapes DEF Stays
<1> QED
  BY <1>1, <1>2, SessionInvInit, SessionInvStep, PTL
     DEF SessionSpec, ImplementsLine, Line!Spec
=============================================================================
