------------------------ MODULE OutletControlProofs ------------------------
(***************************************************************************)
(* What TLAPS proves of OutletControl for any outlets, chunks, commands    *)
(* and bounds.  The lock's exclusion comes from SnmpSessionProofs: every   *)
(* step of the entry is a step of its session or leaves it alone.          *)
(***************************************************************************)
EXTENDS OutletControl, SnmpSessionProofs

\* Only a call inside the lock has read anything, and a command has done so
\* only when its single exchange has been answered.
ReadByHolder ==
    /\ \A c \in Callers : got[c] # {} => stage[c] \in Holding
    /\ \A c \in Commands : stage[c] # "answered" => got[c] = {}
    /\ \A c \in Commands : stage[c] # "idle" => left[c] = 1

\* The display reflects no more SETs than the PDU has carried out.
ShownCarriedOut == \A o \in Outlets : shown[o].sets <= sets[o]

DisplayInv ==
    /\ TypeOK
    /\ SessionInv
    /\ ReadByHolder
    /\ SnapshotFresh
    /\ ShownCarriedOut

-----------------------------------------------------------------------------

LEMMA CallersSplit ==
    /\ Polls \subseteq Callers
    /\ Commands \subseteq Callers
    /\ Polls \cap Commands = {}
    /\ Background \subseteq Polls
    /\ Debounced \in Polls
  BY SessionAssumption, OutletAssumption DEF Polls, Commands

\* NoRequest names an outlet, since there is one.
LEMMA NoRequestType == NoRequest \in [outlet : Outlets, on : BOOLEAN]
  BY OutletAssumption DEF NoRequest

LEMMA DisplayInvInit == Init => DisplayInv
<1> SUFFICES ASSUME Init PROVE DisplayInv
  OBVIOUS
<1> USE SessionAssumption, OutletAssumption, CallersSplit, NoRequestType DEF Init, NoEngine
<1>1. SessionTypeOK
  <2>1. engine \in Nat /\ built \in Nat /\ alive \in SUBSET Nat
    OBVIOUS
  <2> QED
    BY <2>1, 0 \in 0 .. MaxParts, 0 \in 0 .. Retries DEF SessionTypeOK, Stages
<1>2. TypeOK
  <2>1. shown \in [Outlets -> Sample] /\ seen \in [Callers -> [Outlets -> Sample]]
    BY DEF Sample, Unread
  <2>2. 0 \in 0 .. MaxCommands /\ 0 \in 0 .. MaxFaults
    OBVIOUS
  <2>3. late \in [Outlets -> [BOOLEAN -> Nat]]
    BY DEF NothingLate
  <2> QED
    BY <1>1, <2>1, <2>2, <2>3 DEF TypeOK
<1>3. SessionInv
  BY <1>1 DEF SessionInv, OneRequestAtATime, Holding, OneLiveEngine,
              SharedEngineSurvives, ExchangeOnOpenEngine, EngineKnown
<1>4. ReadByHolder /\ SnapshotFresh /\ ShownCarriedOut
  BY DEF ReadByHolder, SnapshotFresh, ShownCarriedOut
<1> QED
  BY <1>2, <1>3, <1>4 DEF DisplayInv

\* A poll that starts is a call of get with all its chunks.
LEMMA StartPollIsCall ==
    ASSUME NEW p \in Polls, StartPoll(p)
    PROVE  SessionNext
<1>1. Call(p, MaxParts) /\ MaxParts \in 1 .. MaxParts
  BY SessionAssumption DEF StartPoll
<1> QED
  BY <1>1, CallersSplit DEF SessionNext

\* Every step of the entry is a step of its session, or none.
LEMMA StepOfSession == [Next]_vars => [SessionNext]_sessionVars
<1> SUFFICES ASSUME [Next]_vars PROVE [SessionNext]_sessionVars
  OBVIOUS
<1> USE CallersSplit, SessionAssumption
<1>1. ASSUME NEW c \in Callers, Inner(c) PROVE SessionNext
  BY <1>1 DEF Inner, SessionNext, Progress
<1>2. ASSUME NEW p \in Background, TimerFires(p) PROVE SessionNext
  BY <1>2, StartPollIsCall DEF TimerFires
<1>3. ASSUME NEW p \in Polls, PollStep(p) PROVE SessionNext
  BY <1>3 DEF PollStep, PollAnswer, PollRetry, PollFinish, PollFails,
              SessionNext, Progress
<1>4. ASSUME NEW c \in Commands, NEW o \in Outlets, NEW on \in BOOLEAN,
             CommandStart(c, o, on)
      PROVE  SessionNext
  <2>1. Call(c, 1) /\ 1 \in 1 .. MaxParts
    BY <1>4 DEF CommandStart
  <2> QED
    BY <2>1 DEF SessionNext
<1>5. ASSUME NEW c \in Commands, CommandStep(c) PROVE SessionNext
  BY <1>5 DEF CommandStep, CommandAnswer, CommandRetry, CommandFinish, CommandFails,
              SessionNext, Progress
<1>6. ASSUME NEW o \in Outlets, ReconcileStep(o) PROVE [SessionNext]_sessionVars
  BY <1>6, StartPollIsCall
     DEF ReconcileStep, ReconcileTooLate, ReconcileDeferred, ReconcileDropped,
         ReconcilePolls, Quiet
<1>7. ASSUME NEW o \in Outlets, NEW on \in BOOLEAN,
             Settle(o) \/ SwitchedElsewhere(o) \/ LateArrives(o, on)
      PROVE  UNCHANGED sessionVars
  BY <1>7 DEF Settle, SwitchedElsewhere, LateArrives
<1>8. ASSUME CooldownEnds PROVE [SessionNext]_sessionVars
  BY <1>8, StartPollIsCall DEF CooldownEnds, Quiet
<1>9. ASSUME Unload PROVE SessionNext
  BY <1>9 DEF Unload, SessionNext
<1>10. ASSUME UNCHANGED vars PROVE UNCHANGED sessionVars
  BY <1>10 DEF vars
<1> QED
  BY <1>1, <1>2, <1>3, <1>4, <1>5, <1>6, <1>7, <1>8, <1>9, <1>10 DEF Next

\* Carrying out a SET keeps the PDU's types and moves its counter on by one.
LEMMA CarryOutEffect ==
    ASSUME TypeOK, NEW o \in Outlets, NEW on \in BOOLEAN, CarryOut(o, on)
    PROVE  /\ pending' \in [Outlets -> BOOLEAN]
           /\ relay' \in [Outlets -> BOOLEAN]
           /\ sets' \in [Outlets -> Nat]
           /\ late' \in [Outlets -> [BOOLEAN -> Nat]]
           /\ sets'[o] = sets[o] + 1
           /\ \A x \in Outlets \ {o} : sets'[x] = sets[x]
  BY DEF TypeOK, CarryOut

LEMMA MayCarryOutEffect ==
    ASSUME TypeOK, NEW c \in Commands, MayCarryOut(c)
    PROVE  /\ pending' \in [Outlets -> BOOLEAN]
           /\ relay' \in [Outlets -> BOOLEAN]
           /\ sets' \in [Outlets -> Nat]
           /\ late' \in [Outlets -> [BOOLEAN -> Nat]]
           /\ \A x \in Outlets : sets'[x] >= sets[x]
<1>1. request[c].outlet \in Outlets /\ request[c].on \in BOOLEAN
  BY DEF TypeOK
<1>2. CASE CarryOut(request[c].outlet, request[c].on)
  <2>1. \A x \in Outlets : sets[x] \in Nat
    BY DEF TypeOK
  <2> QED
    BY <1>1, <1>2, <2>1, CarryOutEffect
<1>3. CASE UNCHANGED pduVars
  BY <1>3 DEF pduVars, TypeOK
<1>4. CASE Delay(request[c].outlet, request[c].on)
  BY <1>1, <1>4 DEF Delay, TypeOK
<1> QED
  BY <1>2, <1>3, <1>4 DEF MayCarryOut

\* Forgetting a call, and publishing it, keep the types.
LEMMA ForgetType ==
    ASSUME TypeOK, NEW c \in Callers, Forget(c)
    PROVE  /\ got' \in [Callers -> SUBSET Outlets]
           /\ seen' \in [Callers -> [Outlets -> Sample]]
           /\ request' \in [Commands -> [outlet : Outlets, on : BOOLEAN]]
<1>1. Unread \in [Outlets -> Sample]
  BY DEF Unread, Sample
<1> QED
  BY <1>1, NoRequestType DEF Forget, TypeOK

LEMMA PublishEffect ==
    ASSUME TypeOK, SnapshotFresh, ShownCarriedOut, NEW c \in Callers, Publish(c)
    PROVE  /\ shown' \in [Outlets -> Sample]
           /\ \A o \in Outlets : shown'[o].sets >= shown[o].sets
           /\ \A o \in Outlets : shown'[o].sets <= sets[o]
<1>1. shown' \in [Outlets -> Sample]
  BY DEF TypeOK, Publish
<1>2. ASSUME NEW o \in Outlets
      PROVE  shown'[o].sets >= shown[o].sets /\ shown'[o].sets <= sets[o]
  <2>1. shown[o].sets <= sets[o] /\ shown[o].sets \in Nat /\ sets[o] \in Nat
    BY DEF ShownCarriedOut, TypeOK, Sample
  <2>2. CASE o \in got[c]
    <3>1. shown'[o] = seen[c][o] /\ seen[c][o].sets = sets[o]
      BY <2>2 DEF Publish, SnapshotFresh
    <3> QED
      BY <2>1, <3>1
  <2>3. CASE o \notin got[c]
    BY <2>1, <2>3 DEF Publish
  <2> QED
    BY <2>2, <2>3
<1> QED
  BY <1>1, <1>2

LEMMA TypeOKStep ==
    ASSUME DisplayInv, Next, SessionTypeOK'
    PROVE  TypeOK'
<1> USE CallersSplit, SessionAssumption, OutletAssumption DEF DisplayInv
<1>1. ASSUME NEW c \in Callers, Inner(c) PROVE TypeOK'
  BY <1>1 DEF Inner, TypeOK, pduVars, readVars, showVars, timerVars, countVars
<1>2. ASSUME NEW p \in Polls, StartPoll(p), due' \in [Outlets -> Nat]
      PROVE  TypeOK'
  BY <1>2 DEF StartPoll, TypeOK, pduVars, readVars, showVars, countVars
<1>3. ASSUME NEW p \in Polls, PollStep(p) PROVE TypeOK'
  <2>1. CASE PollAnswer(p)
    <3> DEFINE read == {o \in Outlets : Chunk[o] = MaxParts - left[p] + 1}
    <3>1. got' \in [Callers -> SUBSET Outlets]
      BY <2>1 DEF PollAnswer, TypeOK
    <3>0. PICK absent \in SUBSET read :
             seen' = [seen EXCEPT ![p] =
                [o \in Outlets |->
                   IF o \in read THEN [on |-> relay[o] /\ o \notin absent,
                                      sets |-> sets[o]]
                                 ELSE seen[p][o]]]
      BY <2>1 DEF PollAnswer
    <3>2. \A o \in Outlets :
             [on |-> relay[o] /\ o \notin absent, sets |-> sets[o]] \in Sample
      BY DEF TypeOK, Sample
    <3>3. seen' \in [Callers -> [Outlets -> Sample]]
      BY <3>0, <3>2 DEF TypeOK
    <3>4. faults' \in 0 .. MaxFaults
      BY <2>1 DEF PollAnswer, Fault, TypeOK
    <3> QED
      BY <2>1, <3>1, <3>3, <3>4 DEF PollAnswer, TypeOK, pduVars, showVars, timerVars
  <2>2. CASE PollRetry(p)
    BY <2>2 DEF PollRetry, NoReply, Fault, TypeOK, pduVars, readVars, showVars, timerVars
  <2>3. CASE PollFinish(p)
    <3>1. shown' \in [Outlets -> Sample]
      BY <2>3, PublishEffect DEF PollFinish
    <3> QED
      BY <2>3, <3>1, ForgetType
         DEF PollFinish, PlanNext, TypeOK, SessionTypeOK, pduVars, countVars
  <2>4. CASE PollFails(p)
    <3>1. faults' \in 0 .. MaxFaults
      BY <2>4 DEF PollFails, NoReply, Fault, TypeOK
    <3> QED
      BY <2>4, <3>1, ForgetType
         DEF PollFails, PlanNext, TypeOK, SessionTypeOK, pduVars
  <2> QED
    BY <1>3, <2>1, <2>2, <2>3, <2>4 DEF PollStep
<1>4. ASSUME NEW c \in Commands, NEW o \in Outlets, NEW on \in BOOLEAN,
             CommandStart(c, o, on)
      PROVE  TypeOK'
  <2>1. request' \in [Commands -> [outlet : Outlets, on : BOOLEAN]]
    BY <1>4 DEF CommandStart, TypeOK
  <2> QED
    BY <1>4, <2>1 DEF CommandStart, TypeOK, pduVars, showVars, timerVars
<1>5. ASSUME NEW c \in Commands, CommandStep(c) PROVE TypeOK'
  <2>0. request[c].outlet \in Outlets /\ request[c].on \in BOOLEAN
    BY DEF TypeOK
  <2>1. CASE CommandAnswer(c)
    <3>1. /\ pending' \in [Outlets -> BOOLEAN]
          /\ relay' \in [Outlets -> BOOLEAN]
          /\ sets' \in [Outlets -> Nat]
          /\ late' \in [Outlets -> [BOOLEAN -> Nat]]
      BY <2>0, <2>1, CarryOutEffect DEF CommandAnswer
    <3>2. got' \in [Callers -> SUBSET Outlets]
      BY <2>0, <2>1 DEF CommandAnswer, TypeOK
    <3>3. [on |-> request[c].on, sets |-> sets'[request[c].outlet]] \in Sample
      BY <2>0, <3>1 DEF Sample
    <3>4. seen' \in [Callers -> [Outlets -> Sample]]
      BY <2>0, <2>1, <3>3 DEF CommandAnswer, TypeOK
    <3> QED
      BY <2>1, <3>1, <3>2, <3>4 DEF CommandAnswer, TypeOK, showVars, timerVars, countVars
  <2>2. CASE CommandRetry(c)
    BY <2>2, MayCarryOutEffect
       DEF CommandRetry, NoReply, Fault, TypeOK, readVars, showVars, timerVars
  <2>3. CASE CommandFinish(c)
    <3>1. shown' \in [Outlets -> Sample]
      BY <2>3, PublishEffect DEF CommandFinish
    <3>2. due' \in [Outlets -> Nat]
      BY <2>0, <2>3 DEF CommandFinish, TypeOK
    <3> QED
      BY <2>3, <3>1, <3>2, ForgetType DEF CommandFinish, TypeOK, pduVars, countVars
  <2>4. CASE CommandFails(c)
    <3>1. faults' \in 0 .. MaxFaults
      BY <2>4 DEF CommandFails, NoReply, Fault, TypeOK
    <3>2. /\ pending' \in [Outlets -> BOOLEAN]
          /\ relay' \in [Outlets -> BOOLEAN]
          /\ sets' \in [Outlets -> Nat]
          /\ late' \in [Outlets -> [BOOLEAN -> Nat]]
      BY <2>4, MayCarryOutEffect DEF CommandFails, MayCarryOut
    <3> QED
      BY <2>4, <3>1, <3>2, ForgetType DEF CommandFails, TypeOK, showVars, timerVars
  <2> QED
    BY <1>5, <2>1, <2>2, <2>3, <2>4 DEF CommandStep
<1>6. ASSUME NEW o \in Outlets, ReconcileStep(o) PROVE TypeOK'
  <2>0. Reconcile(o)
    BY <1>6 DEF ReconcileStep, ReconcileTooLate, ReconcileDeferred, ReconcileDropped,
                ReconcilePolls
  <2>1. due' \in [Outlets -> Nat]
    <3>1. due \in [Outlets -> Nat] /\ due[o] - 1 \in Nat
      BY <2>0 DEF Reconcile, TypeOK
    <3> QED
      BY <2>0, <3>1 DEF Reconcile
  <2>2. CASE ReconcilePolls(o)
    BY <1>2, <2>1, <2>2 DEF ReconcilePolls
  <2> QED
    BY <1>6, <2>1, <2>2
       DEF ReconcileStep, ReconcileTooLate, ReconcileDeferred, ReconcileDropped, Quiet,
           TypeOK, pduVars, readVars, showVars, countVars
<1>7. ASSUME NEW o \in Outlets, NEW on \in BOOLEAN,
             Settle(o) \/ SwitchedElsewhere(o) \/ LateArrives(o, on)
      PROVE  TypeOK'
  <2>1. CASE Settle(o)
    BY <2>1 DEF Settle, TypeOK, readVars, showVars, timerVars, countVars
  <2>2. CASE SwitchedElsewhere(o)
    BY <2>2 DEF SwitchedElsewhere, Fault, TypeOK, readVars, showVars, timerVars
  <2>3. CASE LateArrives(o, on)
    BY <2>3 DEF LateArrives, TypeOK, readVars, showVars, timerVars, countVars
  <2> QED
    BY <1>7, <2>1, <2>2, <2>3
<1>8. ASSUME CooldownEnds PROVE TypeOK'
  <2>1. due' \in [Outlets -> Nat]
    BY <1>8 DEF CooldownEnds, TypeOK
  <2>2. CASE StartPoll(Debounced)
    BY <1>2, <2>1, <2>2
  <2> QED
    BY <1>8, <2>1, <2>2
       DEF CooldownEnds, Quiet, TypeOK, pduVars, readVars, showVars, countVars
<1>9. ASSUME Unload PROVE TypeOK'
  <2>1. /\ pending' \in [Outlets -> BOOLEAN]
        /\ relay' \in [Outlets -> BOOLEAN]
        /\ sets' \in [Outlets -> Nat]
        /\ late' \in [Outlets -> [BOOLEAN -> Nat]]
    BY <1>9, MayCarryOutEffect DEF Unload, TypeOK, pduVars
  <2>2. Unread \in [Outlets -> Sample]
    BY DEF Unread, Sample
  <2>3. got' \in [Callers -> SUBSET Outlets] /\ seen' \in [Callers -> [Outlets -> Sample]]
    BY <1>9, <2>2 DEF Unload, TypeOK
  <2> QED
    BY <1>9, <2>1, <2>3 DEF Unload, TypeOK, showVars, countVars
<1>10. ASSUME NEW p \in Background, TimerFires(p) PROVE TypeOK'
  BY <1>2, <1>10 DEF TimerFires, TypeOK
<1> QED
  BY <1>1, <1>3, <1>4, <1>5, <1>6, <1>7, <1>8, <1>9, <1>10 DEF Next

\* While one call holds the lock, no other has anything read.
LEMMA OthersHaveNothing ==
    ASSUME DisplayInv, NEW c \in Callers, stage[c] \in Holding
    PROVE  \A d \in Callers \ {c} : got[d] = {}
  BY DEF DisplayInv, SessionInv, OneRequestAtATime, ReadByHolder

\* What a command gives up or retries leaves the reads of every call fresh:
\* nobody has read anything, whether or not the PDU carried out the SET.
LEMMA UnheardSet ==
    ASSUME DisplayInv, NEW c \in Commands, stage[c] = "sent", MayCarryOut(c)
    PROVE  /\ \A d \in Callers : got[d] = {}
           /\ \A o \in Outlets : shown[o].sets <= sets'[o]
<1>1. \A d \in Callers \ {c} : got[d] = {}
  BY OthersHaveNothing, CallersSplit DEF Holding
<1>2. got[c] = {}
  BY DEF DisplayInv, ReadByHolder
<1>3. \A o \in Outlets : sets'[o] >= sets[o] /\ sets'[o] \in Nat /\ sets[o] \in Nat
                        /\ shown[o].sets \in Nat
  BY MayCarryOutEffect DEF DisplayInv, TypeOK, Sample
<1>4. \A o \in Outlets : shown[o].sets <= sets'[o]
  BY <1>3 DEF DisplayInv, ShownCarriedOut
<1> QED
  BY <1>1, <1>2, <1>4

\* A caller that gets on with _ensure stays inside the lock.
LEMMA EnsureHolds ==
    ASSUME SessionTypeOK, NEW c \in Callers,
           Grant(c) \/ EngineBuilt(c) \/ TargetBuilt(c)
    PROVE  stage'[c] \in Holding /\ \A d \in Callers \ {c} : stage'[d] = stage[d]
<1>1. engine \in Nat /\ built + 1 \in Nat /\ target \in BOOLEAN
  BY DEF SessionTypeOK
<1>2. PICK e \in Nat, t \in BOOLEAN : RunOn(c, e, t)
  BY <1>1 DEF Grant, EngineBuilt, TargetBuilt
<1> QED
  BY <1>2, RunOnType

\* The part of the invariant that says who has read what.
LEMMA ReadByHolderStep ==
    ASSUME DisplayInv, Next
    PROVE  ReadByHolder'
<1>0. ASSUME NEW c \in Callers, Grant(c) \/ EngineBuilt(c) \/ TargetBuilt(c)
      PROVE  stage'[c] \in Holding /\ \A d \in Callers \ {c} : stage'[d] = stage[d]
  BY <1>0, EnsureHolds DEF DisplayInv, SessionInv
<1>11. ASSUME NEW c \in Callers, NextPart(c) PROVE c \notin Commands
  BY <1>11 DEF DisplayInv, ReadByHolder, NextPart
<1> USE CallersSplit, SessionAssumption
    DEF DisplayInv, SessionInv, TypeOK, SessionTypeOK, OneRequestAtATime, ReadByHolder,
        Holding, lockVars, callVars, engineVars
<1>1. ASSUME NEW c \in Callers, Inner(c) PROVE ReadByHolder'
  <2>1. got' = got
    BY <1>1 DEF Inner, readVars
  <2>2. CASE Grant(c) \/ EngineBuilt(c) \/ TargetBuilt(c)
    <3>1. stage'[c] \in Holding /\ \A d \in Callers \ {c} : stage'[d] = stage[d]
      BY <1>0, <2>2
    <3>2. left' = left /\ stage[c] \in {"queued", "engine", "target"}
      BY <2>2 DEF Grant, FirstInLine, EngineBuilt, TargetBuilt
    <3>3. c \in Commands => got[c] = {} /\ left[c] = 1
      BY <3>2
    <3>4. \A d \in Callers \ {c} : stage'[d] = stage[d] /\ left'[d] = left[d]
      BY <3>1, <3>2
    <3>5. /\ \A d \in Callers : got'[d] # {} => stage'[d] \in Holding
          /\ \A d \in Commands : stage'[d] # "answered" => got'[d] = {}
          /\ \A d \in Commands : stage'[d] # "idle" => left'[d] = 1
      BY <2>1, <3>1, <3>2, <3>3, <3>4
    <3> QED
      BY <3>5
  <2>3. CASE NextPart(c)
    <3>1. /\ stage[c] = "answered" /\ left[c] > 1 /\ stage'[c] = "sent"
          /\ \A d \in Callers \ {c} : stage'[d] = stage[d] /\ left'[d] = left[d]
      BY <2>3 DEF NextPart
    <3>2. c \notin Commands
      BY <1>11, <2>3
    <3>3. /\ \A d \in Callers : got'[d] # {} => stage'[d] \in Holding
          /\ \A d \in Commands : stage'[d] # "answered" => got'[d] = {}
          /\ \A d \in Commands : stage'[d] # "idle" => left'[d] = 1
      BY <2>1, <3>1, <3>2
    <3> QED
      BY <3>3
  <2> QED
    BY <1>1, <2>2, <2>3 DEF Inner
<1>2. ASSUME NEW p \in Polls, StartPoll(p) PROVE ReadByHolder'
  <2>1. got' = got /\ got[p] = {}
    BY <1>2 DEF StartPoll, readVars, Call, CallAtOnce, CallQueued
  <2>2. \A d \in Callers \ {p} : stage'[d] = stage[d] /\ left'[d] = left[d]
    BY <1>2, RunOnType DEF StartPoll, Call, CallAtOnce, CallQueued
  <2> QED
    BY <2>1, <2>2
<1>3. ASSUME NEW p \in Polls, PollStep(p) PROVE ReadByHolder'
  <2>1. CASE PollAnswer(p)
    BY <2>1 DEF PollAnswer, Answer, OnTheWire
  <2>2. CASE PollRetry(p)
    BY <2>2 DEF PollRetry, Resend, readVars
  <2>3. CASE Leave(p) /\ Forget(p)
    BY <2>3 DEF Leave, Return, Forget
  <2> QED
    BY <1>3, <2>1, <2>2, <2>3
       DEF PollStep, PollFinish, PollFails, Finish, TimeOut, Refused, TargetFails, Broken
<1>4. ASSUME NEW c \in Commands, NEW o \in Outlets, NEW on \in BOOLEAN,
             CommandStart(c, o, on)
      PROVE  ReadByHolder'
  <2>1. got' = got /\ got[c] = {} /\ left'[c] = 1
    BY <1>4 DEF CommandStart, Call, CallAtOnce, CallQueued
  <2>2. \A d \in Callers \ {c} : stage'[d] = stage[d] /\ left'[d] = left[d]
    BY <1>4, RunOnType DEF CommandStart, Call, CallAtOnce, CallQueued
  <2> QED
    BY <2>1, <2>2
<1>5. ASSUME NEW c \in Commands, CommandStep(c) PROVE ReadByHolder'
  <2>1. CASE CommandAnswer(c)
    BY <2>1 DEF CommandAnswer, Answer, OnTheWire
  <2>2. CASE CommandRetry(c)
    BY <2>2 DEF CommandRetry, Resend, readVars
  <2>3. CASE Leave(c) /\ Forget(c)
    BY <2>3 DEF Leave, Return, Forget
  <2> QED
    BY <1>5, <2>1, <2>2, <2>3
       DEF CommandStep, CommandFinish, CommandFails, Finish, TimeOut, Refused,
           TargetFails, Broken
<1>6. ASSUME NEW o \in Outlets, ReconcileStep(o) PROVE ReadByHolder'
  <2>1. CASE ReconcilePolls(o)
    BY <1>2, <2>1 DEF ReconcilePolls
  <2> QED
    BY <1>6, <2>1
       DEF ReconcileStep, ReconcileTooLate, ReconcileDeferred, ReconcileDropped, Quiet,
           readVars, sessionVars
<1>7. ASSUME NEW o \in Outlets, NEW on \in BOOLEAN,
             Settle(o) \/ SwitchedElsewhere(o) \/ LateArrives(o, on)
      PROVE  ReadByHolder'
  BY <1>7 DEF Settle, SwitchedElsewhere, LateArrives, readVars, sessionVars
<1>8. ASSUME CooldownEnds PROVE ReadByHolder'
  <2>1. CASE StartPoll(Debounced)
    BY <1>2, <2>1
  <2> QED
    BY <1>8, <2>1 DEF CooldownEnds, Quiet, readVars, sessionVars
<1>9. ASSUME Unload PROVE ReadByHolder'
  BY <1>9 DEF Unload, Close
<1>10. ASSUME NEW p \in Background, TimerFires(p) PROVE ReadByHolder'
  BY <1>2, <1>10 DEF TimerFires
<1> QED
  BY <1>1, <1>3, <1>4, <1>5, <1>6, <1>7, <1>8, <1>9, <1>10 DEF Next

\* Snapshots stay fresh and the display stays behind the PDU.
LEMMA DisplayStep ==
    ASSUME DisplayInv, Next
    PROVE  /\ SnapshotFresh'
           /\ ShownCarriedOut'
           /\ \A o \in Outlets : shown'[o].sets >= shown[o].sets
<1> DEFINE Goal == /\ SnapshotFresh'
                  /\ ShownCarriedOut'
                  /\ \A o \in Outlets : shown'[o].sets >= shown[o].sets
<1> SUFFICES Goal
  OBVIOUS
<1> USE CallersSplit, SessionAssumption
<1>0. /\ TypeOK /\ SnapshotFresh /\ ShownCarriedOut
      /\ \A o \in Outlets : shown[o].sets \in Nat /\ sets[o] \in Nat
  BY DEF DisplayInv, TypeOK, Sample
<1>1. ASSUME UNCHANGED <<got, seen, sets, shown>> PROVE Goal
  BY <1>0, <1>1 DEF SnapshotFresh, ShownCarriedOut
<1>2. ASSUME NEW p \in Polls, StartPoll(p) PROVE Goal
  BY <1>1, <1>2 DEF StartPoll, pduVars, readVars, showVars
<1>3. ASSUME NEW c \in Callers, Forget(c), UNCHANGED <<sets, shown>> PROVE Goal
  BY <1>0, <1>3 DEF Forget, SnapshotFresh, ShownCarriedOut, TypeOK
<1>4. ASSUME NEW c \in Callers, Forget(c), Publish(c), UNCHANGED sets PROVE Goal
  <2>1. SnapshotFresh'
    BY <1>0, <1>4 DEF Forget, SnapshotFresh, TypeOK
  <2> QED
    BY <1>0, <1>4, <2>1, PublishEffect DEF ShownCarriedOut
<1>5. ASSUME NEW p \in Polls, PollStep(p) PROVE Goal
  <2>1. CASE PollAnswer(p)
    <3> DEFINE read == {o \in Outlets : Chunk[o] = MaxParts - left[p] + 1}
    <3>1. UNCHANGED <<sets, shown>>
      BY <2>1 DEF PollAnswer, pduVars, showVars
    <3>2. \A c \in Callers \ {p} : got'[c] = got[c] /\ seen'[c] = seen[c]
      BY <1>0, <2>1 DEF PollAnswer, TypeOK
    <3>3. /\ got'[p] = got[p] \cup read
          /\ \A o \in Outlets : o \notin read => seen'[p][o] = seen[p][o]
          /\ \A o \in read : seen'[p][o].sets = sets[o]
      <4>1. PICK absent \in SUBSET read :
               /\ got' = [got EXCEPT ![p] = @ \cup read]
               /\ seen' = [seen EXCEPT ![p] =
                    [o \in Outlets |->
                       IF o \in read THEN [on |-> relay[o] /\ o \notin absent,
                                          sets |-> sets[o]]
                                     ELSE seen[p][o]]]
        BY <2>1 DEF PollAnswer
      <4> QED
        BY <1>0, <4>1 DEF TypeOK
    <3>4. ASSUME NEW o \in Outlets, o \in got'[p] PROVE seen'[p][o].sets = sets[o]
      <4>1. CASE o \in read
        BY <3>3, <4>1
      <4>2. CASE o \notin read
        BY <1>0, <3>3, <3>4, <4>2 DEF SnapshotFresh
      <4> QED
        BY <4>1, <4>2
    <3>5. got'[p] \subseteq Outlets
      BY <1>0, <3>3 DEF TypeOK
    <3>6. SnapshotFresh'
      BY <1>0, <3>1, <3>2, <3>4, <3>5 DEF SnapshotFresh
    <3> QED
      BY <1>0, <3>1, <3>6 DEF ShownCarriedOut
  <2>2. CASE PollRetry(p)
    BY <1>1, <2>2 DEF PollRetry, pduVars, readVars, showVars
  <2>3. CASE PollFinish(p)
    BY <1>4, <2>3 DEF PollFinish, pduVars
  <2>4. CASE PollFails(p)
    BY <1>3, <2>4 DEF PollFails, pduVars
  <2> QED
    BY <1>5, <2>1, <2>2, <2>3, <2>4 DEF PollStep
<1>6. ASSUME NEW c \in Commands, CommandStep(c) PROVE Goal
  <2>1. CASE CommandAnswer(c)
    <3> DEFINE o == request[c].outlet
    <3>0. o \in Outlets /\ request[c].on \in BOOLEAN
      BY <1>0 DEF TypeOK
    <3>1. \A d \in Callers \ {c} : got[d] = {}
      BY <2>1, OthersHaveNothing DEF CommandAnswer, Answer, OnTheWire, Holding
    <3>2. /\ sets'[o] = sets[o] + 1
          /\ \A x \in Outlets \ {o} : sets'[x] = sets[x]
      BY <1>0, <2>1, <3>0, CarryOutEffect DEF CommandAnswer
    <3>3. /\ got'[c] = {o} /\ \A d \in Callers \ {c} : got'[d] = {}
          /\ seen'[c][o] = [on |-> request[c].on, sets |-> sets'[o]]
      BY <1>0, <2>1, <3>0, <3>1 DEF CommandAnswer, TypeOK
    <3>4. SnapshotFresh'
      BY <3>3 DEF SnapshotFresh
    <3>5. shown' = shown
      BY <2>1 DEF CommandAnswer, showVars
    <3> QED
      BY <1>0, <3>2, <3>4, <3>5 DEF ShownCarriedOut
  <2>2. CASE CommandRetry(c)
    <3>1. stage[c] = "sent" /\ MayCarryOut(c) /\ UNCHANGED <<got, shown>>
      BY <2>2 DEF CommandRetry, Resend, OnTheWire, readVars, showVars
    <3> QED
      BY <1>0, <3>1, UnheardSet DEF SnapshotFresh, ShownCarriedOut
  <2>3. CASE CommandFinish(c)
    BY <1>4, <2>3 DEF CommandFinish, pduVars
  <2>4. CASE CommandFails(c)
    <3>1. Forget(c) /\ shown' = shown
      BY <2>4 DEF CommandFails, showVars
    <3>2. CASE sets' = sets
      BY <1>3, <3>1, <3>2
    <3>3. CASE TimeOut(c) /\ MayCarryOut(c)
      <4>1. stage[c] = "sent"
        BY <3>3 DEF TimeOut, OnTheWire
      <4>2. \A d \in Callers : got'[d] = {}
        BY <1>0, <3>1, <3>3, <4>1, UnheardSet DEF Forget, TypeOK
      <4> QED
        BY <1>0, <3>1, <3>3, <4>1, <4>2, UnheardSet DEF SnapshotFresh, ShownCarriedOut
    <3> QED
      BY <2>4, <3>2, <3>3 DEF CommandFails, pduVars
  <2> QED
    BY <1>6, <2>1, <2>2, <2>3, <2>4 DEF CommandStep
<1>7. ASSUME NEW o \in Outlets, ReconcileStep(o) PROVE Goal
  BY <1>1, <1>2, <1>7
     DEF ReconcileStep, ReconcileTooLate, ReconcileDeferred, ReconcileDropped,
         ReconcilePolls, Quiet, pduVars, readVars, showVars
<1>8. ASSUME CooldownEnds PROVE Goal
  BY <1>1, <1>2, <1>8 DEF CooldownEnds, Quiet, pduVars, readVars, showVars
<1>9. ASSUME Unload PROVE Goal
  <2>1. shown' = shown
    BY <1>9 DEF Unload, showVars
  <2>2. \A c \in Callers : \A o \in got'[c] : o \in got[c] /\ seen'[c] = seen[c]
    BY <1>0, <1>9 DEF Unload, TypeOK
  <2>3. CASE sets' = sets
    BY <1>0, <2>1, <2>2, <2>3 DEF SnapshotFresh, ShownCarriedOut
  <2>4. CASE holder \in Commands /\ stage[holder] = "sent" /\ MayCarryOut(holder)
    <3>1. \A d \in Callers : got[d] = {}
      BY <2>4, UnheardSet
    <3> QED
      BY <1>0, <2>1, <2>2, <2>4, <3>1, UnheardSet DEF SnapshotFresh, ShownCarriedOut
  <2> QED
    BY <1>9, <2>3, <2>4 DEF Unload, pduVars
<1>10. ASSUME NEW p \in Background, TimerFires(p) PROVE Goal
  BY <1>2, <1>10 DEF TimerFires
<1> QED
  BY <1>1, <1>5, <1>6, <1>7, <1>8, <1>9, <1>10
     DEF Next, Inner, CommandStart, Settle, SwitchedElsewhere, LateArrives, pduVars,
         readVars, showVars

-----------------------------------------------------------------------------

LEMMA DisplayInvStep == DisplayInv /\ [Next]_vars => DisplayInv'
<1> SUFFICES ASSUME DisplayInv, [Next]_vars PROVE DisplayInv'
  OBVIOUS
<1>1. SessionInv'
  BY StepOfSession, SessionInvStep DEF DisplayInv
<1>2. CASE Next
  <2>1. TypeOK'
    BY <1>1, <1>2, TypeOKStep DEF SessionInv
  <2> QED
    BY <1>1, <1>2, <2>1, ReadByHolderStep, DisplayStep DEF DisplayInv
<1>3. CASE UNCHANGED vars
  <2>1. TypeOK'
    BY <1>1, <1>3 DEF DisplayInv, SessionInv, TypeOK, vars, pduVars, readVars, showVars,
                      timerVars, countVars
  <2>2. ReadByHolder' /\ SnapshotFresh' /\ ShownCarriedOut'
    BY <1>3 DEF DisplayInv, ReadByHolder, SnapshotFresh, ShownCarriedOut, vars,
                sessionVars, callVars, pduVars, readVars, showVars
  <2> QED
    BY <1>1, <2>1, <2>2 DEF DisplayInv
<1> QED
  BY <1>2, <1>3

\* The variables of a loaded entry keep their types.
THEOREM EntryTypes == Spec => []TypeOK
<1>1. DisplayInv => TypeOK
  BY DEF DisplayInv
<1> QED
  BY <1>1, DisplayInvInit, DisplayInvStep, PTL DEF Spec

\* get() is atomic with respect to the entry's SETs: what a poll read in its
\* first chunk is as recent as the last SET when the poll is published.
THEOREM SnapshotsAreFresh == Spec => []SnapshotFresh
<1>1. DisplayInv => SnapshotFresh
  BY DEF DisplayInv
<1> QED
  BY <1>1, DisplayInvInit, DisplayInvStep, PTL DEF Spec

\* No poll and no optimistic write of async_turn_on or async_turn_off takes the
\* display of an outlet back behind a SET it already reflects.
THEOREM DisplayFollowsCommands == Spec => DisplayInCommandOrder
<1>1. DisplayInv /\ [Next]_vars
        => [\A o \in Outlets : shown'[o].sets >= shown[o].sets]_vars
  BY DisplayStep
<1> QED
  BY <1>1, DisplayInvInit, DisplayInvStep, PTL DEF Spec, DisplayInCommandOrder

\* A step switches one outlet, publishes what one call has read, or does
\* neither.
LEMMA StepShapes ==
    ASSUME DisplayInv, Next
    PROVE  \/ UNCHANGED <<sets, shown>>
           \/ /\ shown' = shown
              /\ \E o \in Outlets, on \in BOOLEAN : CarryOut(o, on)
           \/ sets' = sets /\ \E c \in Callers : Publish(c)
<1> DEFINE Goal ==
      \/ UNCHANGED <<sets, shown>>
      \/ /\ shown' = shown
         /\ \E o \in Outlets, on \in BOOLEAN : CarryOut(o, on)
      \/ sets' = sets /\ \E c \in Callers : Publish(c)
<1> SUFFICES Goal
  OBVIOUS
<1> USE CallersSplit
<1>1. ASSUME NEW c \in Commands
      PROVE  request[c].outlet \in Outlets /\ request[c].on \in BOOLEAN
  BY DEF DisplayInv, TypeOK
<1>2. ASSUME NEW c \in Commands, MayCarryOut(c), shown' = shown PROVE Goal
  BY <1>1, <1>2 DEF MayCarryOut, Delay, pduVars
<1>3. ASSUME NEW p \in Polls, PollStep(p) PROVE Goal
  BY <1>3 DEF PollStep, PollAnswer, PollRetry, PollFinish, PollFails, pduVars, showVars
<1>4. ASSUME NEW c \in Commands, CommandStep(c) PROVE Goal
  <2>1. CASE CommandAnswer(c)
    BY <1>1, <2>1 DEF CommandAnswer, showVars
  <2>2. CASE CommandRetry(c)
    BY <1>2, <2>2 DEF CommandRetry, showVars
  <2>3. CASE CommandFinish(c)
    BY <2>3 DEF CommandFinish, pduVars
  <2>4. CASE CommandFails(c)
    BY <1>2, <2>4 DEF CommandFails, pduVars, showVars
  <2> QED
    BY <1>4, <2>1, <2>2, <2>3, <2>4 DEF CommandStep
<1>5. ASSUME Unload PROVE Goal
  BY <1>2, <1>5 DEF Unload, pduVars, showVars
<1>6. ASSUME NEW p \in Polls, StartPoll(p) PROVE Goal
  BY <1>6 DEF StartPoll, pduVars, showVars
<1> QED
  BY <1>3, <1>4, <1>5, <1>6
     DEF Next, Inner, TimerFires, CommandStart, ReconcileStep, ReconcileTooLate,
         ReconcileDeferred, ReconcileDropped, ReconcilePolls, Quiet, Settle,
         SwitchedElsewhere, LateArrives, CooldownEnds, pduVars, showVars

\* The entry with its session, chunks, retries and debouncer implements
\* OutletDisplay: SETs and publications are atomic, publications up to date.
THEOREM DisplayImplemented == Spec => ImplementsDisplay
<1> DEFINE View == [o \in Outlets |-> shown[o].sets]
<1>1. Init => Display!Init
  BY DEF Init, Display!Init
<1>2. DisplayInv /\ [Next]_vars => [Display!Next]_(Display!displayVars)
  <2> SUFFICES ASSUME DisplayInv, [Next]_vars
               PROVE  Display!Next \/ (sets' = sets /\ View' = View)
    BY DEF Display!displayVars
  <2>1. CASE UNCHANGED <<sets, shown>>
    BY <2>1
  <2>2. ASSUME NEW o \in Outlets, NEW on \in BOOLEAN, CarryOut(o, on), shown' = shown
        PROVE  Display!Next
    <3>1. Display!Switch(o)
      BY <2>2 DEF CarryOut, Display!Switch
    <3> QED
      BY <3>1 DEF Display!Next
  <2>3. ASSUME NEW c \in Callers, Publish(c), sets' = sets
        PROVE  Display!Next
    <3>1. \A o \in Outlets : shown'[o].sets = IF o \in got[c] THEN sets[o]
                                                            ELSE shown[o].sets
      BY <2>3 DEF Publish, DisplayInv, SnapshotFresh
    <3>2. View' = [o \in Outlets |-> IF o \in got[c] THEN sets[o] ELSE View[o]]
      BY <3>1
    <3>3. got[c] \in SUBSET Outlets
      BY DEF DisplayInv, TypeOK
    <3> QED
      BY <2>3, <3>2, <3>3 DEF Display!Next, Display!Refresh
  <2>4. CASE Next
    BY <2>1, <2>2, <2>3, <2>4, StepShapes
  <2>5. CASE UNCHANGED vars
    BY <2>1, <2>5 DEF vars, pduVars, showVars
  <2> QED
    BY <2>4, <2>5
<1> QED
  BY <1>1, <1>2, DisplayInvInit, DisplayInvStep, PTL
     DEF Spec, ImplementsDisplay, Display!Spec

\* Timers, cooldown and running polls stay in step.
LEMMA PollsInStep == Spec => [](PollingNeverStops /\ CooldownMeansIdle)
<1> DEFINE Goes == PollingNeverStops /\ CooldownMeansIdle
<1>1. Init => Goes
  BY DEF Init, PollingNeverStops, CooldownMeansIdle
<1>2. DisplayInv /\ Goes /\ [Next]_vars => Goes'
  <2> SUFFICES ASSUME DisplayInv, Goes, [Next]_vars PROVE Goes'
    OBVIOUS
  <2> USE CallersSplit, SessionAssumption, OutletAssumption
  <2>0. TypeOK /\ SessionTypeOK /\ stage \in [Callers -> Stages]
    BY DEF DisplayInv, TypeOK, SessionTypeOK
  <2>1. ASSUME NEW p \in Polls, StartPoll(p) PROVE Goes'
    <3>1. stage'[p] # "idle"
      BY <2>0, <2>1, RunOnType
         DEF StartPoll, Call, CallAtOnce, CallQueued, Holding, SessionTypeOK
    <3>2. cooldown' = FALSE
      BY <2>1 DEF StartPoll
    <3> QED
      BY <3>1, <3>2 DEF PollingNeverStops, CooldownMeansIdle
  <2>2. ASSUME NEW c \in Callers, UNCHANGED <<timer, cooldown, closed>>,
               stage[c] # "idle", c \in Polls => stage'[c] # "idle",
               \A d \in Callers \ {c} : stage'[d] = stage[d]
        PROVE  Goes'
    BY <2>2 DEF PollingNeverStops, CooldownMeansIdle
  <2>3. ASSUME NEW p \in Polls, Leave(p), PlanNext(p), closed' = closed
        PROVE  Goes'
    BY <2>0, <2>3 DEF PlanNext, Leave, Return, PollingNeverStops, CooldownMeansIdle
  <2>4. ASSUME NEW c \in Callers, Inner(c) PROVE Goes'
    <3>1. CASE NextPart(c)
      BY <2>0, <2>2, <2>4, <3>1 DEF NextPart, Inner, timerVars, engineVars
    <3>2. CASE Grant(c) \/ EngineBuilt(c) \/ TargetBuilt(c)
      <4>1. stage'[c] # "idle" /\ \A d \in Callers \ {c} : stage'[d] = stage[d]
        BY <2>0, <3>2, EnsureHolds DEF Holding
      <4>2. stage[c] # "idle" /\ closed' = closed
        BY <3>2 DEF Grant, FirstInLine, EngineBuilt, TargetBuilt, engineVars
      <4> QED
        BY <2>2, <2>4, <4>1, <4>2 DEF Inner, timerVars
    <3> QED
      BY <2>4, <3>1, <3>2 DEF Inner
  <2>5. ASSUME NEW p \in Polls, PollStep(p) PROVE Goes'
    <3>1. CASE PollAnswer(p)
      BY <2>0, <2>2, <3>1 DEF PollAnswer, Answer, OnTheWire, timerVars, engineVars
    <3>2. CASE PollRetry(p)
      BY <2>0, <2>2, <3>2 DEF PollRetry, Resend, OnTheWire, timerVars, engineVars
    <3>3. CASE PollFinish(p) \/ PollFails(p)
      BY <2>3, <3>3 DEF PollFinish, PollFails, Finish, TimeOut, Refused, TargetFails,
                        Broken, engineVars
    <3> QED
      BY <2>5, <3>1, <3>2, <3>3 DEF PollStep
  <2>6. ASSUME NEW c \in Commands, NEW o \in Outlets, NEW on \in BOOLEAN,
               CommandStart(c, o, on)
        PROVE  Goes'
    <3>1. \A d \in Polls : stage'[d] = stage[d]
      BY <2>0, <2>6, RunOnType DEF CommandStart, Call, CallAtOnce, CallQueued, SessionTypeOK
    <3>2. UNCHANGED <<timer, cooldown, closed>>
      BY <2>6 DEF CommandStart, Call, CallAtOnce, CallQueued, timerVars, engineVars
    <3> QED
      BY <3>1, <3>2 DEF PollingNeverStops, CooldownMeansIdle
  <2>7. ASSUME NEW c \in Commands, CommandStep(c) PROVE Goes'
    <3>1. \A d \in Polls : stage'[d] = stage[d]
      BY <2>0, <2>7
         DEF CommandStep, CommandAnswer, CommandRetry, CommandFinish, CommandFails,
             Answer, Resend, Finish, TimeOut, Refused, TargetFails, Broken, Leave, Return
    <3>2. UNCHANGED <<timer, cooldown, closed>>
      BY <2>7
         DEF CommandStep, CommandAnswer, CommandRetry, CommandFinish, CommandFails,
             Answer, Resend, Finish, TimeOut, Refused, TargetFails, Broken, timerVars,
             engineVars
    <3> QED
      BY <3>1, <3>2 DEF PollingNeverStops, CooldownMeansIdle
  <2>8. ASSUME UNCHANGED <<stage, closed, timer>>, cooldown' = FALSE \/ cooldown' = cooldown
        PROVE  Goes'
    BY <2>8 DEF PollingNeverStops, CooldownMeansIdle
  <2>9. ASSUME NEW o \in Outlets, ReconcileStep(o) PROVE Goes'
    BY <2>1, <2>8, <2>9
       DEF ReconcileStep, ReconcileTooLate, ReconcileDeferred, ReconcileDropped,
           ReconcilePolls, Quiet, sessionVars, callVars, engineVars
  <2>10. ASSUME CooldownEnds PROVE Goes'
    BY <2>1, <2>8, <2>10 DEF CooldownEnds, Quiet, sessionVars, callVars, engineVars
  <2>11. ASSUME Unload PROVE Goes'
    BY <2>11 DEF Unload, Close, PollingNeverStops, CooldownMeansIdle
  <2>12. ASSUME NEW p \in Background, TimerFires(p) PROVE Goes'
    BY <2>1, <2>12 DEF TimerFires
  <2> QED
    BY <2>4, <2>5, <2>6, <2>7, <2>8, <2>9, <2>10, <2>11, <2>12
       DEF Next, Settle, SwitchedElsewhere, LateArrives, vars, sessionVars, callVars,
           engineVars, timerVars
<1> QED
  BY <1>1, <1>2, DisplayInvInit, DisplayInvStep, PTL DEF Spec

\* A loaded entry always has a poll running or armed, whatever cancels what
\* (coordinator.py on DataUpdateCoordinator; switch.py, _reconcile).
THEOREM PollingGoesOn == Spec => []PollingNeverStops
  BY PollsInStep, PTL

\* The debounced poll at the end of a cooldown finds no other one running, so
\* it is not dropped (switch.py, _reconcile, through the Debouncer).
THEOREM CooldownsIdle == Spec => []CooldownMeansIdle
  BY PollsInStep, PTL

\* Neither the coordinator's timer nor the debouncer's survives unloading.
TimersStopped == closed => ~timer /\ ~cooldown

\* A step of the unloaded entry arms no timer and starts no poll.
LEMMA ClosedStep ==
    ASSUME DisplayInv, TimersStopped, closed, Next
    PROVE  /\ TimersStopped'
           /\ \A p \in Polls : stage[p] = "idle" => stage'[p] = "idle"
<1> DEFINE Goal == /\ TimersStopped'
                   /\ \A p \in Polls : stage[p] = "idle" => stage'[p] = "idle"
<1> SUFFICES Goal
  OBVIOUS
<1> USE CallersSplit, SessionAssumption
<1>0. ~timer /\ ~cooldown /\ TypeOK /\ SessionTypeOK /\ stage \in [Callers -> Stages]
  BY DEF TimersStopped, DisplayInv, TypeOK, SessionTypeOK
<1>1. ASSUME NEW c \in Callers, timer' = FALSE, cooldown' = FALSE, stage[c] # "idle",
             \A d \in Callers \ {c} : stage'[d] = stage[d]
      PROVE  Goal
  BY <1>1 DEF TimersStopped
<1>2. ASSUME NEW c \in Callers, Inner(c) PROVE Goal
  <2>1. timer' = FALSE /\ cooldown' = FALSE
    BY <1>0, <1>2 DEF Inner, timerVars, TypeOK
  <2>2. CASE NextPart(c)
    BY <1>0, <1>1, <2>1, <2>2 DEF NextPart
  <2>3. CASE Grant(c) \/ EngineBuilt(c) \/ TargetBuilt(c)
    <3>1. \A d \in Callers \ {c} : stage'[d] = stage[d]
      BY <1>0, <2>3, EnsureHolds
    <3>2. stage[c] # "idle"
      BY <2>3 DEF Grant, FirstInLine, EngineBuilt, TargetBuilt
    <3> QED
      BY <1>1, <2>1, <3>1, <3>2
  <2> QED
    BY <1>2, <2>2, <2>3 DEF Inner
<1>3. ASSUME NEW p \in Polls, PollStep(p) PROVE Goal
  <2>1. timer' = FALSE /\ cooldown' = FALSE
    BY <1>0, <1>3
       DEF PollStep, PollAnswer, PollRetry, PollFinish, PollFails, PlanNext, timerVars,
           TypeOK
  <2>2. /\ stage[p] # "idle"
        /\ \A d \in Callers \ {p} : stage'[d] = stage[d]
    BY <1>0, <1>3
       DEF PollStep, PollAnswer, PollRetry, PollFinish, PollFails, Answer, Resend, Finish,
           TimeOut, Refused, TargetFails, Broken, OnTheWire, Leave, Return
  <2> QED
    BY <1>1, <2>1, <2>2
<1>4. ASSUME NEW c \in Commands, CommandStep(c) PROVE Goal
  <2>1. timer' = FALSE /\ cooldown' = FALSE
    BY <1>0, <1>4
       DEF CommandStep, CommandAnswer, CommandRetry, CommandFinish, CommandFails,
           timerVars, TypeOK
  <2>2. /\ stage[c] # "idle"
        /\ \A d \in Callers \ {c} : stage'[d] = stage[d]
    BY <1>0, <1>4
       DEF CommandStep, CommandAnswer, CommandRetry, CommandFinish, CommandFails, Answer,
           Resend, Finish, TimeOut, Refused, TargetFails, Broken, OnTheWire, Leave, Return
  <2> QED
    BY <1>1, <2>1, <2>2
<1>5. ASSUME UNCHANGED <<stage, timer, cooldown>> PROVE Goal
  BY <1>0, <1>5 DEF TimersStopped
<1>6. ASSUME NEW o \in Outlets, ReconcileStep(o) PROVE Goal
  BY <1>0, <1>5, <1>6
     DEF ReconcileStep, ReconcileTooLate, ReconcileDeferred, ReconcileDropped,
         ReconcilePolls, Quiet, sessionVars, callVars
<1> QED
  BY <1>0, <1>2, <1>3, <1>4, <1>5, <1>6
     DEF Next, TimerFires, CommandStart, Settle, SwitchedElsewhere, LateArrives,
         CooldownEnds, Unload, Close, sessionVars, callVars, timerVars

\* Unloading is final: no poll begins after it, whatever reconcile timers and
\* commands are left over (async_unload_entry, __init__.py:71-76).
THEOREM UnloadedStaysQuiet == Spec => NoPollAfterUnload
<1>1. Init => TimersStopped
  BY DEF Init, TimersStopped
<1>2. DisplayInv /\ TimersStopped /\ [Next]_vars => TimersStopped'
  <2> SUFFICES ASSUME DisplayInv, TimersStopped, [Next]_vars PROVE TimersStopped'
    OBVIOUS
  <2>1. CASE Next /\ closed
    BY <2>1, ClosedStep
  <2>2. CASE Unload
    BY <2>2 DEF Unload, TimersStopped
  <2>3. CASE Next /\ ~closed /\ ~Unload
    <3>1. closed' = closed
      BY <2>3
         DEF Next, Inner, TimerFires, StartPoll, CommandStart, PollStep, PollAnswer,
             PollRetry, PollFinish, PollFails, CommandStep, CommandAnswer, CommandRetry,
             CommandFinish, CommandFails, ReconcileStep, ReconcileTooLate,
             ReconcileDeferred, ReconcileDropped, ReconcilePolls, Quiet, Settle,
             SwitchedElsewhere, LateArrives, CooldownEnds, Call, CallAtOnce, CallQueued,
             Grant, EngineBuilt, TargetBuilt, NextPart, Answer, Resend, Finish, TimeOut,
             Refused, TargetFails, Broken, sessionVars, engineVars
    <3> QED
      BY <2>3, <3>1 DEF TimersStopped
  <2>4. CASE UNCHANGED vars
    BY <2>4 DEF TimersStopped, vars, sessionVars, engineVars, timerVars
  <2> QED
    BY <2>1, <2>2, <2>3, <2>4
<1>3. DisplayInv /\ TimersStopped /\ [Next]_vars
        => [closed => \A p \in Polls : stage[p] = "idle" => stage'[p] = "idle"]_vars
  BY ClosedStep
<1> QED
  BY <1>1, <1>2, <1>3, DisplayInvInit, DisplayInvStep, PTL DEF Spec, NoPollAfterUnload
=============================================================================
