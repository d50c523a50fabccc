------------------------ MODULE EntryLifecycleProofs ------------------------
(***************************************************************************)
(* What TLAPS proves of EntryLifecycle for any addresses, scan intervals,  *)
(* ceiling and bounds.                                                     *)
(***************************************************************************)
EXTENDS EntryLifecycle, NumberLemmas

\* The listener is there exactly while the entry is loaded, and a setup works
\* with the entry's data unless they were updated under it.
ListenerWhileLoaded == listening <=> state = "loaded"
SettingUpHost == state \in Setting /\ ~unheard => chost = host /\ base = option

EntryInv ==
    /\ TypeOK
    /\ IntervalFollowsFailures
    /\ HealingIffRunning
    /\ ListenerWhileLoaded
    /\ SettingUpHost
    /\ ConfigurationApplied

-----------------------------------------------------------------------------

LEMMA EntryInvInit == Init => EntryInv
<1> SUFFICES ASSUME Init PROVE EntryInv
  OBVIOUS
<1> USE EntryAssumption DEF Init
<1>1. TypeOK
  BY 0 \in 0 .. MaxFailures, 0 \in 0 .. MaxOrphans DEF TypeOK, States, Setting, NoOld
<1>2. IntervalFollowsFailures /\ HealingIffRunning /\ ConfigurationApplied
  BY DEF IntervalFollowsFailures, HealingIffRunning, ConfigurationApplied
<1>3. ListenerWhileLoaded /\ SettingUpHost
  BY DEF ListenerWhileLoaded, SettingUpHost
<1> QED
  BY <1>1, <1>2, <1>3 DEF EntryInv

LEMMA LesserInRange ==
    ASSUME NEW m \in Nat \ {0}, NEW n \in 0 .. m
    PROVE  Lesser(n + 1, m) \in 1 .. m
  BY DEF Lesser

OldRecords == [stage : {"none", "poll", "scan", "back"},
               host : Addresses \cup {Nowhere}, found : Addresses \cup {Nowhere}]

LEMMA OldRecordsKept ==
    ASSUME TypeOK
    PROVE  /\ NoOld \in OldRecords /\ OldPoll \in OldRecords
           /\ LeaveOldPoll \/ CancelOldHeal => old' \in OldRecords
           /\ OldStep => old' \in OldRecords
<1>1. old \in OldRecords /\ chost \in Addresses
  BY DEF TypeOK, OldRecords
<1>2. NoOld \in OldRecords /\ OldPoll \in OldRecords
  BY <1>1 DEF OldRecords, NoOld, OldPoll
<1>3. LeaveOldPoll \/ CancelOldHeal => old' \in OldRecords
  BY <1>1, <1>2 DEF LeaveOldPoll, CancelOldHeal
<1>4. OldPollEnds \/ OldHealEnds => old' \in OldRecords
  BY <1>2 DEF OldPollEnds, OldHealEnds
<1>5. OldPollFails \/ OldHealScan => old' \in OldRecords
  <2>1. /\ [old EXCEPT !.stage = "scan"] \in OldRecords
        /\ \A h \in Addresses \cup {Nowhere} :
             [old EXCEPT !.stage = "back", !.found = h] \in OldRecords
    BY <1>1 DEF OldRecords
  <2> QED
    BY <2>1 DEF OldPollFails, OldHealScan
<1> QED
  BY <1>2, <1>3, <1>4, <1>5 DEF OldStep

\* An update of the entry reaches its coordinator, or is one that nobody heard.
LEMMA UpdateApplied ==
    ASSUME EntryInv, UNCHANGED <<state, chost, base>>,
           \/ Updated
           \/ UNCHANGED <<host, option, reloads, unheard>>
    PROVE  /\ reloads' \in Nat /\ unheard' \in BOOLEAN
           /\ SettingUpHost' /\ ConfigurationApplied'
<1>1. reloads \in Nat /\ unheard \in BOOLEAN /\ listening \in BOOLEAN
  BY DEF EntryInv, TypeOK
<1>2. CASE Updated
  <2>1. reloads' = (IF listening THEN reloads + 1 ELSE reloads)
    BY <1>2 DEF Updated
  <2>2. unheard' = (unheard \/ state \in Setting)
    BY <1>2 DEF Updated
  <2>3. reloads' \in Nat /\ (state = "loaded" => reloads' # 0)
    BY <1>1, <2>1 DEF EntryInv, ListenerWhileLoaded
  <2>4. unheard' \in BOOLEAN
    BY <1>1, <2>2
  <2>5. SettingUpHost'
    BY <2>2 DEF SettingUpHost
  <2>6. ConfigurationApplied'
    BY <2>3 DEF ConfigurationApplied
  <2> QED
    BY <2>3, <2>4, <2>5, <2>6
<1>3. CASE UNCHANGED <<host, option, reloads, unheard>>
  BY <1>1, <1>3 DEF EntryInv, SettingUpHost, ConfigurationApplied
<1> QED
  BY <1>2, <1>3

\* Setting up anew establishes the invariant, whatever went before.
LEMMA BeginSetupInv ==
    ASSUME EntryInv, BeginSetup, UNCHANGED <<host, option, cached>>,
           reloads' \in Nat, orphans' \in 0 .. MaxOrphans, old' \in OldRecords,
           addr' \in Addresses \cup {Nowhere}
    PROVE  EntryInv'
<1> USE EntryAssumption DEF BeginSetup, EntryInv
<1>1. TypeOK'
  BY 0 \in 0 .. MaxFailures DEF TypeOK, States, Setting, OldRecords
<1>2. IntervalFollowsFailures' /\ HealingIffRunning' /\ ConfigurationApplied'
  BY DEF IntervalFollowsFailures, HealingIffRunning, ConfigurationApplied
<1>3. ListenerWhileLoaded' /\ SettingUpHost'
  BY DEF ListenerWhileLoaded, SettingUpHost, Setting
<1> QED
  BY <1>1, <1>2, <1>3

LEMMA SetupKeepsInv ==
    ASSUME EntryInv, SetupStep \/ SetupRaises \/ SetupAgain
    PROVE  EntryInv'
<1> USE EntryAssumption DEF coordVars, healVars, envVars
<1>1. CASE SetupAgain
  BY <1>1, BeginSetupInv DEF SetupAgain, EntryInv, TypeOK, OldRecords
<1>2. CASE SetupStep \/ SetupRaises
  <2> DEFINE Kept == /\ UNCHANGED <<host, option, reloads, unheard, addr>>
                     /\ old' \in OldRecords
                     /\ UNCHANGED <<coordVars, healVars>>
  <2>0. ~listening /\ heal = "none"
    BY <1>2 DEF SetupStep, SetupRaises, ReadIdentity, ReadTopology, FirstPoll,
                SetupNotReady, EntryInv, ListenerWhileLoaded, HealingIffRunning, Setting
  <2>1. /\ state \in Setting
        /\ state' \in States \ {"removed"}
        /\ state' = "loaded" <=> listening'
        /\ cached' \in BOOLEAN
        /\ Kept
    <3>1. state \in Setting /\ cached' \in BOOLEAN /\ Kept
      BY <1>2, OldRecordsKept
         DEF SetupStep, SetupRaises, ReadIdentity, ReadTopology, FirstPoll, SetupNotReady,
             NoAnswer, NoAnswerAt, EntryInv, TypeOK, Setting, restVars, OldRecords
    <3>2. CASE FirstPoll
      BY <3>1, <3>2 DEF FirstPoll, States
    <3>3. CASE ~FirstPoll
      <4>1. state' \in {"topology", "first", "retry", "error"} /\ listening' = listening
        BY <1>2, <3>3 DEF SetupStep, SetupRaises, ReadIdentity, ReadTopology,
                          SetupNotReady
      <4> QED
        BY <2>0, <3>1, <4>1 DEF States, Setting
    <3> QED
      BY <3>2, <3>3
  <2>2. orphans' \in 0 .. MaxOrphans
    BY <1>2, LesserInRange
       DEF SetupStep, SetupRaises, ReadIdentity, ReadTopology, FirstPoll,
           SetupNotReady, EntryInv, TypeOK, restVars
  <2>3. listening' \in BOOLEAN
    BY <1>2 DEF SetupStep, SetupRaises, ReadIdentity, ReadTopology, FirstPoll,
                SetupNotReady, EntryInv, TypeOK
  <2>4. TypeOK' /\ IntervalFollowsFailures'
    BY <2>1, <2>2, <2>3
       DEF EntryInv, TypeOK, IntervalFollowsFailures, NextBackoff, OldRecords
  <2>5. HealingIffRunning' /\ ListenerWhileLoaded'
    BY <2>1 DEF EntryInv, HealingIffRunning, ListenerWhileLoaded, Setting
  <2>6. SettingUpHost' /\ ConfigurationApplied'
    BY <2>1 DEF EntryInv, SettingUpHost, ConfigurationApplied
  <2> QED
    BY <2>4, <2>5, <2>6 DEF EntryInv
<1> QED
  BY <1>1, <1>2

LEMMA PollKeepsInv ==
    ASSUME EntryInv, Poll
    PROVE  EntryInv'
<1> USE EntryAssumption DEF EntryInv, entryVars, healVars, envVars, restVars
<1>1. CASE PollSucceeds
  <2>1. TypeOK'
    BY <1>1, 0 \in 0 .. MaxFailures DEF PollSucceeds, TypeOK, NextBackoff
  <2>2. IntervalFollowsFailures'
    BY <1>1 DEF PollSucceeds, IntervalFollowsFailures
  <2>3. HealingIffRunning' /\ ListenerWhileLoaded' /\ SettingUpHost' /\ ConfigurationApplied'
    BY <1>1 DEF PollSucceeds, HealingIffRunning, ListenerWhileLoaded, SettingUpHost,
                ConfigurationApplied
  <2> QED
    BY <2>1, <2>2, <2>3
<1>2. CASE PollFails
  <2>1. failures' \in 1 .. MaxFailures
    BY <1>2, LesserInRange DEF PollFails, TypeOK
  <2>2. interval' = NextBackoff(failures') /\ UNCHANGED <<entryVars, chost, base, restVars>>
    BY <1>2 DEF PollFails
  <2>3. /\ healing' \in BOOLEAN /\ heal' \in {"none", "scan", "back"}
        /\ found' \in Addresses \cup {Nowhere}
        /\ healing' <=> heal' # "none"
    BY <1>2 DEF PollFails, MaybeSelfHeal, HealingIffRunning, TypeOK
  <2>4. addr' = addr /\ state = "loaded"
    BY <1>2 DEF PollFails, NoAnswer, NoAnswerAt
  <2>5. interval' \in {NextBackoff(n) : n \in 0 .. MaxFailures}'
    BY <2>1, <2>2 DEF NextBackoff
  <2>6. TypeOK'
    BY <2>1, <2>2, <2>3, <2>4, <2>5 DEF TypeOK
  <2>7. IntervalFollowsFailures'
    BY <2>1, <2>2 DEF IntervalFollowsFailures, NextBackoff
  <2>8. HealingIffRunning' /\ ListenerWhileLoaded' /\ SettingUpHost' /\ ConfigurationApplied'
    BY <2>2, <2>3, <2>4 DEF HealingIffRunning, ListenerWhileLoaded, SettingUpHost,
                            ConfigurationApplied
  <2> QED
    BY <2>6, <2>7, <2>8
<1> QED
  BY <1>1, <1>2 DEF Poll

LEMMA HealKeepsInv ==
    ASSUME EntryInv, HealStep
    PROVE  EntryInv'
<1> USE EntryAssumption DEF EntryInv
<1>0. /\ state = "loaded" /\ listening /\ heal # "none"
      /\ UNCHANGED <<state, option, cached, listening, coordVars, old, orphans, addr>>
  BY DEF HealStep, HealScan, HealRaises, HealEnds, HealingIffRunning, entryVars,
         ScanFinds, restVars
<1>1. /\ healing' \in BOOLEAN /\ heal' \in {"none", "scan", "back"}
      /\ found' \in Addresses \cup {Nowhere}
      /\ healing' <=> heal' # "none"
  BY DEF HealStep, HealScan, HealRaises, HealEnds, HealingIffRunning, TypeOK
<1>2. /\ host' \in Addresses
      /\ Updated \/ UNCHANGED <<host, option, reloads, unheard>>
  BY <1>0 DEF HealStep, HealScan, HealRaises, HealEnds, WriteHost, TypeOK, entryVars,
              restVars
<1>3. /\ reloads' \in Nat /\ unheard' \in BOOLEAN
      /\ SettingUpHost' /\ ConfigurationApplied'
  BY <1>0, <1>2, UpdateApplied DEF coordVars
<1>4. TypeOK' /\ IntervalFollowsFailures'
  BY <1>0, <1>1, <1>2, <1>3 DEF TypeOK, IntervalFollowsFailures, NextBackoff, coordVars
<1>5. HealingIffRunning' /\ ListenerWhileLoaded'
  BY <1>0, <1>1 DEF HealingIffRunning, ListenerWhileLoaded
<1> QED
  BY <1>3, <1>4, <1>5

\* What an earlier coordinator still does changes nothing but the entry's host.
LEMMA OldKeepsInv ==
    ASSUME EntryInv, OldStep
    PROVE  EntryInv'
<1> USE EntryAssumption DEF EntryInv
<1>0. /\ UNCHANGED <<state, option, cached, listening, coordVars, healVars, orphans, addr>>
      /\ old' \in OldRecords
  BY OldRecordsKept DEF OldStep, OldPollEnds, OldPollFails, OldHealScan, OldHealEnds,
                        entryVars, ScanFinds, NoAnswerAt
<1>1. /\ host' \in Addresses
      /\ Updated \/ UNCHANGED <<host, option, reloads, unheard>>
  BY <1>0 DEF OldStep, OldPollEnds, OldPollFails, OldHealScan, OldHealEnds, WriteHost,
              TypeOK, entryVars
<1>2. /\ reloads' \in Nat /\ unheard' \in BOOLEAN
      /\ SettingUpHost' /\ ConfigurationApplied'
  BY <1>0, <1>1, UpdateApplied DEF coordVars
<1>3. TypeOK' /\ IntervalFollowsFailures'
  BY <1>0, <1>1, <1>2 DEF TypeOK, IntervalFollowsFailures, NextBackoff, coordVars,
                          healVars, OldRecords
<1>4. HealingIffRunning' /\ ListenerWhileLoaded'
  BY <1>0 DEF HealingIffRunning, ListenerWhileLoaded, healVars
<1> QED
  BY <1>2, <1>3, <1>4

LEMMA EntryInvStep == EntryInv /\ [Next]_vars => EntryInv'
<1> SUFFICES ASSUME EntryInv, [Next]_vars PROVE EntryInv'
  OBVIOUS
<1> USE EntryAssumption
<1>1. CASE SetupStep \/ SetupRaises \/ SetupAgain
  BY <1>1, SetupKeepsInv
<1>2. CASE Poll
  BY <1>2, PollKeepsInv
<1>3. CASE HealStep
  BY <1>3, HealKeepsInv
<1>4. CASE Reload
  BY <1>4, BeginSetupInv, OldRecordsKept DEF Reload, EntryInv, TypeOK
<1>5. CASE Restart
  BY <1>5, BeginSetupInv, OldRecordsKept, 0 \in 0 .. MaxOrphans
     DEF Restart, EntryInv, TypeOK
<1>6. CASE Remove
  <2>0. old' \in OldRecords
    BY <1>6, OldRecordsKept DEF Remove, EntryInv
  <2>1. TypeOK' /\ IntervalFollowsFailures'
    BY <1>6, <2>0 DEF Remove, EntryInv, TypeOK, IntervalFollowsFailures, NextBackoff,
                      States, coordVars, OldRecords
  <2>2. /\ HealingIffRunning' /\ ListenerWhileLoaded'
        /\ SettingUpHost' /\ ConfigurationApplied'
    BY <1>6 DEF Remove, HealingIffRunning, ListenerWhileLoaded, SettingUpHost,
                ConfigurationApplied, Setting
  <2> QED
    BY <2>1, <2>2 DEF EntryInv
<1>7. ASSUME NEW s \in Intervals, ChangeOption(s) PROVE EntryInv'
  <2>1. /\ UNCHANGED <<state, host, cached, listening, coordVars, healVars, old, orphans,
                       addr>>
        /\ option' \in Intervals /\ Updated
    BY <1>7 DEF ChangeOption
  <2>2. /\ reloads' \in Nat /\ unheard' \in BOOLEAN
        /\ SettingUpHost' /\ ConfigurationApplied'
    BY <2>1, UpdateApplied DEF coordVars
  <2>3. TypeOK' /\ IntervalFollowsFailures'
    BY <2>1, <2>2 DEF EntryInv, TypeOK, IntervalFollowsFailures, NextBackoff, coordVars,
                      healVars
  <2>4. HealingIffRunning' /\ ListenerWhileLoaded'
    BY <2>1 DEF EntryInv, HealingIffRunning, ListenerWhileLoaded, healVars
  <2> QED
    BY <2>2, <2>3, <2>4 DEF EntryInv
<1>8. ASSUME NEW a \in Addresses \cup {Nowhere}, Move(a) PROVE EntryInv'
  BY <1>8 DEF Move, EntryInv, TypeOK, IntervalFollowsFailures, NextBackoff,
              HealingIffRunning, ListenerWhileLoaded, SettingUpHost, ConfigurationApplied,
              entryVars, coordVars, healVars, restVars
<1>9. CASE DialogUpdatesHost
  <2>1. /\ UNCHANGED <<state, option, cached, listening, coordVars, healVars, old, orphans,
                       addr>>
        /\ host' \in Addresses /\ reloads' \in Nat
        /\ unheard' = (unheard \/ state \in Setting)
        /\ state = "loaded" => reloads' # 0
    BY <1>9 DEF DialogUpdatesHost, EntryInv, TypeOK
  <2>2. TypeOK' /\ IntervalFollowsFailures'
    BY <2>1 DEF EntryInv, TypeOK, IntervalFollowsFailures, NextBackoff, coordVars, healVars
  <2>3. HealingIffRunning' /\ ListenerWhileLoaded' /\ SettingUpHost' /\ ConfigurationApplied'
    BY <2>1 DEF EntryInv, HealingIffRunning, ListenerWhileLoaded, SettingUpHost,
                ConfigurationApplied, coordVars, healVars
  <2> QED
    BY <2>2, <2>3 DEF EntryInv
<1>10. CASE OldStep
  BY <1>10, OldKeepsInv
<1>11. CASE UNCHANGED vars
  BY <1>11 DEF vars, EntryInv, TypeOK, IntervalFollowsFailures, NextBackoff,
              HealingIffRunning, ListenerWhileLoaded, SettingUpHost, ConfigurationApplied,
              entryVars, coordVars, healVars, restVars
<1> QED
  BY <1>1, <1>2, <1>3, <1>4, <1>5, <1>6, <1>7, <1>8, <1>9, <1>10,
     <1>11 DEF Next

\* The types of the entry, its coordinator and its self-heal.
THEOREM EntryTypesKept == Spec => []TypeOK
<1>1. EntryInv => TypeOK
  BY DEF EntryInv
<1> QED
  BY <1>1, EntryInvInit, EntryInvStep, PTL DEF Spec

\* _failures and update_interval stay in step (coordinator.py, _next_backoff and
\* the reset after a success).
THEOREM IntervalsFollowFailures == Spec => []IntervalFollowsFailures
<1>1. EntryInv => IntervalFollowsFailures
  BY DEF EntryInv
<1> QED
  BY <1>1, EntryInvInit, EntryInvStep, PTL DEF Spec

\* _healing is set exactly while a self-heal runs, and only then is one running.
THEOREM SelfHealSingle == Spec => []HealingIffRunning
<1>1. EntryInv => HealingIffRunning
  BY DEF EntryInv
<1> QED
  BY <1>1, EntryInvInit, EntryInvStep, PTL DEF Spec

\* What a heal, a dialog or the user writes to the entry reaches a coordinator,
\* unless it fell into a setup.
THEOREM EveryUpdateApplied == Spec => []ConfigurationApplied
<1>1. EntryInv => ConfigurationApplied
  BY DEF EntryInv
<1> QED
  BY <1>1, EntryInvInit, EntryInvStep, PTL DEF Spec

-----------------------------------------------------------------------------
(* The backoff.                                                             *)

LEMMA BackoffGrows ==
    ASSUME base \in Nat, NEW n \in Nat
    PROVE  /\ Lesser(base, MaxBackoff) <= NextBackoff(n)
           /\ NextBackoff(n) <= NextBackoff(n + 1)
           /\ NextBackoff(n) \in Nat
<1> DEFINE p == PowerOfTwo[n]
<1>1. p \in Nat \ {0} /\ PowerOfTwo[n + 1] = 2 * p
  BY PowersDefined, PowersPositive
<1> HIDE DEF p
<1>2. /\ base * p \in Nat /\ base * (2 * p) = base * p + base * p
      /\ base * p = base + base * (p - 1) /\ base * (p - 1) \in Nat
  BY <1>1
<1>3. base <= base * p /\ base * p <= base * (2 * p)
  BY <1>2
<1>4. NextBackoff(n) = Lesser(base * p, MaxBackoff)
  BY DEF NextBackoff, p
<1>5. NextBackoff(n + 1) = Lesser(base * (2 * p), MaxBackoff)
  BY <1>1 DEF NextBackoff
<1>6. MaxBackoff \in Nat
  BY EntryAssumption
<1> QED
  BY <1>2, <1>3, <1>4, <1>5, <1>6 DEF Lesser

\* A failed poll never makes the next one come sooner, unless the user's own
\* interval is longer than the ceiling (coordinator.py, _next_backoff and
\* _async_update_data).
THEOREM FailuresSlowDown == Spec => BackoffNeverSpeedsUp
<1>1. EntryInv /\ [Next]_vars =>
        [PollFails /\ base <= MaxBackoff => interval' >= interval]_vars
  <2> SUFFICES ASSUME EntryInv, PollFails, base <= MaxBackoff PROVE interval' >= interval
    OBVIOUS
  <2>1. /\ base \in Nat /\ failures \in 0 .. MaxFailures
        /\ interval = IF failures = 0 THEN base ELSE NextBackoff(failures)
    BY EntryAssumption DEF EntryInv, TypeOK, IntervalFollowsFailures
  <2>2. failures' \in {failures, failures + 1} /\ failures' # 0
    BY <2>1, EntryAssumption DEF PollFails, Lesser
  <2>3. interval' = NextBackoff(failures') /\ failures' \in Nat
    BY <2>1, <2>2, EntryAssumption DEF PollFails
  <2>4. MaxBackoff \in Nat /\ Lesser(base, MaxBackoff) = base
    BY <2>1, EntryAssumption DEF Lesser
  <2>5. CASE failures = 0
    <3>1. base <= NextBackoff(failures')
      BY <2>1, <2>3, <2>4, BackoffGrows
    <3> QED
      BY <2>1, <2>3, <2>5, <3>1, BackoffGrows
  <2>6. CASE failures # 0
    <3>1. failures \in Nat /\ interval = NextBackoff(failures)
      BY <2>1, <2>6, EntryAssumption
    <3>2. /\ NextBackoff(failures) \in Nat
          /\ NextBackoff(failures) <= NextBackoff(failures + 1)
      BY <2>1, <3>1, BackoffGrows
    <3>3. CASE failures' = failures
      <4>1. interval' = interval
        BY <2>3, <3>1, <3>3
      <4> QED
        BY <3>1, <3>2, <4>1
    <3>4. CASE failures' = failures + 1
      <4>1. interval' = NextBackoff(failures + 1)
        BY <2>3, <3>4
      <4>2. NextBackoff(failures + 1) \in Nat
        BY <2>1, <3>1, BackoffGrows
      <4> QED
        BY <3>1, <3>2, <4>1, <4>2
    <3> QED
      BY <2>2, <3>3, <3>4
  <2> QED
    BY <2>5, <2>6
<1> QED
  BY <1>1, EntryInvInit, EntryInvStep, PTL DEF Spec, BackoffNeverSpeedsUp
=============================================================================
