-------------------------- MODULE ConfigFlowProofs --------------------------
(***************************************************************************)
(* What TLAPS proves of ConfigFlow for any dialogs, hosts, targets, PDUs   *)
(* and bounds: the entries that dialogs and imports make side by side are  *)
(* one for a PDU, each at its PDU, and those of EntryRegistry.             *)
(***************************************************************************)
EXTENDS ConfigFlow, FiniteSetTheorems, NumberLemmas

TypeAndBound == TypeOK /\ troubles \in Nat

\* The dialog has left all hosts but one to imports when it makes its entry.
OneLeft == \A f \in Flows : step[f] = "finish" => \E v \in valid[f] : valid[f] = {v}

\* Until something moves, everything on its way to an entry is what answers
\* at its host.
AllAtTheirPdu ==
    troubles = 0 =>
        /\ \A f \in Flows : \A v \in valid[f] : reach[v[1]] = v[2]
        /\ \A i \in imports : reach[i[3]] = i[2]
        /\ \A e \in entries : reach[e[2]] = e[1]

FlowInv == TypeAndBound /\ OneLeft /\ OneEntryPerPdu /\ AllAtTheirPdu

\* The steps of a dialog that touch neither what was found nor the entries.
Aside(f) ==
    \/ User(f) \/ Discovered(f) \/ SubnetScanned(f)
    \/ Choose(f) \/ ScanSubnet(f) \/ Pick(f) \/ Manual(f) \/ Credentials(f)
    \/ ValidationRaises(f)

-----------------------------------------------------------------------------

LEMMA FlowInvInit == Init => FlowInv
<1> SUFFICES ASSUME Init PROVE FlowInv
  OBVIOUS
<1>1. TypeAndBound
  BY DEF Init, TypeAndBound, TypeOK, Steps, Forms
<1>2. OneLeft /\ OneEntryPerPdu /\ AllAtTheirPdu
  BY DEF Init, OneLeft, OneEntryPerPdu, AllAtTheirPdu
<1> QED
  BY <1>1, <1>2 DEF FlowInv

LEMMA TroubleCounts ==
    ASSUME troubles \in Nat, troubles' = troubles \/ Trouble
    PROVE  troubles' \in Nat /\ (troubles' = 0 => troubles = 0)
  BY DEF Trouble

\* What a scan offers is hosts.
LEMMA ScannedType ==
    ASSUME TypeOK, NEW f \in Flows, NEW hosts, Scanned(f, hosts)
    PROVE  offered' \in [Flows -> SUBSET Hosts] /\ (troubles' = troubles \/ Trouble)
<1>1. offered \in [Flows -> SUBSET Hosts] /\ Answering \subseteq Hosts
  BY DEF TypeOK, Answering
<1> QED
  BY <1>1 DEF Scanned

LEMMA AsideSteps ==
    ASSUME TypeAndBound, NEW f \in Flows, Aside(f)
    PROVE  /\ UNCHANGED <<valid, entries, imports, reach>>
           /\ troubles' = troubles \/ Trouble
           /\ step[f] \notin {"create", "finish"}
           /\ \E s \in Steps \ {"create", "finish"} : Go(f, s)
<1> USE DEF TypeAndBound, Steps, Forms
<1>1. CASE User(f)
  BY <1>1 DEF User
<1>2. CASE Discovered(f)
  BY <1>2, ScannedType DEF Discovered
<1>3. CASE SubnetScanned(f)
  BY <1>3, ScannedType DEF SubnetScanned
<1>4. CASE Choose(f)
  BY <1>4 DEF Choose
<1>5. CASE ScanSubnet(f)
  BY <1>5 DEF ScanSubnet
<1>6. CASE Pick(f) \/ Manual(f)
  BY <1>6 DEF Pick, Manual, Take
<1>7. CASE Credentials(f)
  BY <1>7 DEF Credentials
<1>8. CASE ValidationRaises(f)
  BY <1>8 DEF ValidationRaises
<1> QED
  BY <1>1, <1>2, <1>3, <1>4, <1>5, <1>6, <1>7, <1>8 DEF Aside

\* The types that a dialog's own steps can disturb.
FormTypes ==
    /\ target \in [Flows -> Targets \cup {NoTarget}]
    /\ \A f \in Flows : step[f] = "scanning" => target[f] # NoTarget
    /\ offered \in [Flows -> SUBSET Hosts]
    /\ chosen \in [Flows -> SUBSET Hosts]
    /\ \A f \in Flows : step[f] \in {"credentials", "validating"} => chosen[f] # {}

LEMMA AsideForms ==
    ASSUME TypeAndBound, NEW f \in Flows, Aside(f)
    PROVE  FormTypes'
<1> USE DEF TypeAndBound, FormTypes
<1>1. /\ step \in [Flows -> Steps]
      /\ target \in [Flows -> Targets \cup {NoTarget}]
      /\ \A g \in Flows : step[g] = "scanning" => target[g] # NoTarget
      /\ offered \in [Flows -> SUBSET Hosts]
      /\ chosen \in [Flows -> SUBSET Hosts]
      /\ \A g \in Flows : step[g] \in {"credentials", "validating"} => chosen[g] # {}
  BY DEF TypeOK
<1>2. CASE User(f)
  BY <1>1, <1>2 DEF User, Go
<1>3. CASE Discovered(f)
  BY <1>1, <1>3, ScannedType DEF Discovered, Go
<1>4. CASE SubnetScanned(f)
  BY <1>1, <1>4, ScannedType DEF SubnetScanned, Go
<1>5. CASE Choose(f)
  BY <1>1, <1>5 DEF Choose, Go
<1>6. CASE ScanSubnet(f)
  BY <1>1, <1>6, FlowAssumption DEF ScanSubnet, Go
<1>7. CASE Pick(f) \/ Manual(f)
  <2>1. PICK hosts \in SUBSET Hosts : Take(f, hosts)
    BY <1>1, <1>7 DEF Pick, Manual
  <2> QED
    BY <1>1, <2>1 DEF Take, Go
<1>8. CASE Credentials(f)
  BY <1>1, <1>8 DEF Credentials, Go
<1>9. CASE ValidationRaises(f)
  BY <1>1, <1>9 DEF ValidationRaises, Go
<1> QED
  BY <1>2, <1>3, <1>4, <1>5, <1>6, <1>7, <1>8, <1>9 DEF Aside

LEMMA AsideKeeps ==
    ASSUME FlowInv, NEW f \in Flows, Aside(f)
    PROVE  FlowInv'
<1>1. /\ UNCHANGED <<valid, entries, imports, reach>>
      /\ troubles' \in Nat /\ (troubles' = 0 => troubles = 0)
  BY AsideSteps, TroubleCounts DEF FlowInv, TypeAndBound
<1>2. PICK s \in Steps \ {"create", "finish"} : step' = [step EXCEPT ![f] = s]
  BY AsideSteps DEF FlowInv, Go
<1>3. step \in [Flows -> Steps]
  BY DEF FlowInv, TypeAndBound, TypeOK
<1>4. TypeAndBound'
  <2>1. FormTypes'
    BY AsideForms DEF FlowInv
  <2>2. step' \in [Flows -> Steps]
    BY <1>2, <1>3
  <2> QED
    BY <1>1, <2>1, <2>2 DEF FlowInv, TypeAndBound, TypeOK, FormTypes
<1>5. OneLeft'
  BY <1>1, <1>2, <1>3 DEF FlowInv, OneLeft
<1>6. OneEntryPerPdu' /\ AllAtTheirPdu'
  BY <1>1 DEF FlowInv, OneEntryPerPdu, AllAtTheirPdu
<1> QED
  BY <1>4, <1>5, <1>6 DEF FlowInv

-----------------------------------------------------------------------------
(* The steps that concern what was found and the entries.                   *)

LEMMA ValidatedValues ==
    ASSUME TypeAndBound, NEW f \in Flows, Validated(f)
    PROVE  /\ step[f] = "validating"
           /\ \E found \in SUBSET (Hosts \X Pdus) :
                 /\ valid' = [valid EXCEPT ![f] = found]
                 /\ \A v \in found : reach[v[1]] = v[2]
                 /\ step' = [step EXCEPT ![f] = IF found = {} THEN "credentials" ELSE "create"]
           /\ troubles' = troubles \/ Trouble
           /\ UNCHANGED <<target, offered, chosen, entries, imports, reach, removed>>
<1>1. step[f] = "validating"
      /\ UNCHANGED <<target, offered, chosen, entries, imports, reach, removed>>
  BY DEF Validated
<1>2. PICK lost \in SUBSET (chosen[f] \cap Answering) :
        /\ IF lost = {} THEN troubles' = troubles ELSE Trouble
        /\ valid' = [valid EXCEPT ![f] =
              {<<h, reach[h]>> : h \in {g \in (chosen[f] \cap Answering) \ lost :
                                          reach[g] \notin Anonymous}}]
  BY DEF Validated, Identities
<1> DEFINE found == {<<h, reach[h]>> : h \in {g \in (chosen[f] \cap Answering) \ lost :
                                                reach[g] \notin Anonymous}}
<1>3. \A h \in Answering : h \in Hosts /\ reach[h] \in Pdus
  BY DEF Answering, TypeAndBound, TypeOK
<1>4. found \in SUBSET (Hosts \X Pdus) /\ \A v \in found : reach[v[1]] = v[2]
  BY <1>3
<1>5. valid'[f] = found
  BY <1>2 DEF TypeAndBound, TypeOK
<1>6. step' = [step EXCEPT ![f] = IF found = {} THEN "credentials" ELSE "create"]
  BY <1>5 DEF Validated, Go
<1> QED
  BY <1>1, <1>2, <1>4, <1>6

LEMMA ValidatedKeeps ==
    ASSUME FlowInv, NEW f \in Flows, Validated(f)
    PROVE  FlowInv'
<1> USE DEF FlowInv
<1>1. /\ step[f] = "validating"
      /\ UNCHANGED <<target, offered, chosen, entries, imports, reach>>
      /\ troubles' \in Nat /\ (troubles' = 0 => troubles = 0)
  BY ValidatedValues, TroubleCounts DEF TypeAndBound
<1>2. PICK found \in SUBSET (Hosts \X Pdus) :
        /\ valid' = [valid EXCEPT ![f] = found]
        /\ \A v \in found : reach[v[1]] = v[2]
        /\ step' = [step EXCEPT ![f] = IF found = {} THEN "credentials" ELSE "create"]
  BY ValidatedValues
<1>3. /\ step \in [Flows -> Steps] /\ valid \in [Flows -> SUBSET (Hosts \X Pdus)]
  BY DEF TypeAndBound, TypeOK
<1>4. TypeAndBound'
  <2>1. step' \in [Flows -> Steps]
    BY <1>2, <1>3 DEF Steps, Forms
  <2>2. valid' \in [Flows -> SUBSET (Hosts \X Pdus)]
    BY <1>2, <1>3
  <2>3. FormTypes'
    BY <1>1, <1>2, <1>3 DEF FormTypes, TypeAndBound, TypeOK
  <2> QED
    BY <1>1, <2>1, <2>2, <2>3 DEF TypeAndBound, TypeOK, FormTypes
<1>5. OneLeft'
  BY <1>2, <1>3 DEF OneLeft
<1>6. OneEntryPerPdu'
  BY <1>1 DEF OneEntryPerPdu
<1>7. AllAtTheirPdu'
  BY <1>1, <1>2, <1>3 DEF AllAtTheirPdu
<1> QED
  BY <1>4, <1>5, <1>6, <1>7

LEMMA FanOutKeeps ==
    ASSUME FlowInv, NEW f \in Flows, FanOut(f)
    PROVE  FlowInv'
<1> USE DEF FlowInv
<1>1. /\ step[f] = "create" /\ step' = [step EXCEPT ![f] = "finish"]
      /\ UNCHANGED <<target, offered, chosen, entries, reach, troubles>>
  BY DEF FanOut, Go
<1>2. PICK v \in valid[f] :
        /\ valid' = [valid EXCEPT ![f] = {v}]
        /\ imports' = imports \cup {<<f, u[2], u[1]>> : u \in valid[f] \ {v}}
  BY DEF FanOut
<1>3. /\ step \in [Flows -> Steps] /\ valid \in [Flows -> SUBSET (Hosts \X Pdus)]
      /\ imports \in SUBSET (Flows \X Pdus \X Hosts)
  BY DEF TypeAndBound, TypeOK
<1>4. valid[f] \subseteq Hosts \X Pdus
  BY <1>3
<1>5. TypeAndBound'
  <2>1. step' \in [Flows -> Steps]
    BY <1>1, <1>3 DEF Steps
  <2>2. valid' \in [Flows -> SUBSET (Hosts \X Pdus)]
    BY <1>2, <1>3
  <2>3. {<<f, u[2], u[1]>> : u \in valid[f] \ {v}} \subseteq Flows \X Pdus \X Hosts
    BY <1>4
  <2>4. FormTypes'
    BY <1>1, <1>3 DEF FormTypes, TypeAndBound, TypeOK
  <2> QED
    BY <1>1, <1>2, <1>3, <2>1, <2>2, <2>3, <2>4 DEF TypeAndBound, TypeOK, FormTypes
<1>6. OneLeft'
  BY <1>1, <1>2, <1>3 DEF OneLeft
<1>7. OneEntryPerPdu'
  BY <1>1 DEF OneEntryPerPdu
<1>8. AllAtTheirPdu'
  <2> SUFFICES ASSUME troubles = 0 PROVE AllAtTheirPdu'
    BY <1>1 DEF AllAtTheirPdu
  <2>1. \A u \in valid[f] : reach[u[1]] = u[2]
    BY DEF AllAtTheirPdu
  <2>2. \A i \in imports' : reach[i[3]] = i[2]
    BY <1>2, <1>4, <2>1 DEF AllAtTheirPdu
  <2>3. \A g \in Flows : \A u \in valid'[g] : reach[u[1]] = u[2]
    BY <1>2, <1>3 DEF AllAtTheirPdu
  <2> QED
    BY <1>1, <2>2, <2>3 DEF AllAtTheirPdu
<1> QED
  BY <1>5, <1>6, <1>7, <1>8

\* Both branches of AddEntry leave one entry for the identity.
LEMMA EntryAdded ==
    ASSUME NEW p, NEW h, AddEntry(p, h)
    PROVE  entries' = {e \in entries : e[1] # p} \cup {<<p, h>>}
  BY DEF AddEntry

LEMMA AddedKeeps ==
    ASSUME FlowInv, NEW p \in Pdus, NEW h \in Hosts, AddEntry(p, h),
           troubles = 0 => reach[h] = p
    PROVE  /\ entries' \in SUBSET (Pdus \X Hosts)
           /\ OneEntryPerPdu'
           /\ troubles = 0 => \A e \in entries' : reach[e[2]] = e[1]
<1>1. entries' = {e \in entries : e[1] # p} \cup {<<p, h>>}
  BY EntryAdded
<1>2. entries \in SUBSET (Pdus \X Hosts)
  BY DEF FlowInv, TypeAndBound, TypeOK
<1> QED
  BY <1>1, <1>2 DEF FlowInv, OneEntryPerPdu, AllAtTheirPdu

LEMMA ClosedForms ==
    ASSUME TypeAndBound, NEW f \in Flows, Close(f)
    PROVE  /\ FormTypes'
           /\ step' \in [Flows -> Steps] /\ step'[f] = "closed"
           /\ valid' \in [Flows -> SUBSET (Hosts \X Pdus)] /\ valid'[f] = {}
           /\ \A g \in Flows \ {f} : step'[g] = step[g] /\ valid'[g] = valid[g]
<1>1. /\ step \in [Flows -> Steps]
      /\ target \in [Flows -> Targets \cup {NoTarget}]
      /\ offered \in [Flows -> SUBSET Hosts]
      /\ chosen \in [Flows -> SUBSET Hosts]
      /\ valid \in [Flows -> SUBSET (Hosts \X Pdus)]
      /\ \A g \in Flows : step[g] = "scanning" => target[g] # NoTarget
      /\ \A g \in Flows : step[g] \in {"credentials", "validating"} => chosen[g] # {}
  BY DEF TypeAndBound, TypeOK
<1>2. /\ step' = [step EXCEPT ![f] = "closed"]
      /\ target' = [target EXCEPT ![f] = NoTarget]
      /\ offered' = [offered EXCEPT ![f] = {}]
      /\ chosen' = [chosen EXCEPT ![f] = {}]
      /\ valid' = [valid EXCEPT ![f] = {}]
  BY DEF Close, Go
<1>3. FormTypes'
  BY <1>1, <1>2 DEF FormTypes
<1> QED
  BY <1>1, <1>2, <1>3 DEF Steps

LEMMA CloseKeeps ==
    ASSUME FlowInv, NEW f \in Flows, CloseDialog(f)
    PROVE  FlowInv'
<1> USE DEF FlowInv
<1>1. Close(f) /\ UNCHANGED <<entries, imports, reach, troubles>>
  BY DEF CloseDialog
<1>2. TypeAndBound'
  BY <1>1, ClosedForms DEF TypeAndBound, TypeOK, FormTypes
<1>3. OneLeft' /\ OneEntryPerPdu' /\ AllAtTheirPdu'
  BY <1>1, ClosedForms DEF OneLeft, OneEntryPerPdu, AllAtTheirPdu
<1> QED
  BY <1>2, <1>3

LEMMA FinishKeeps ==
    ASSUME FlowInv, NEW f \in Flows, Finish(f)
    PROVE  FlowInv'
<1> USE DEF FlowInv
<1>1. Close(f) /\ UNCHANGED <<imports, reach, troubles>>
  BY DEF Finish
<1>2. PICK v \in valid[f] : AddEntry(v[2], v[1])
  BY DEF Finish
<1>3. v[2] \in Pdus /\ v[1] \in Hosts /\ (troubles = 0 => reach[v[1]] = v[2])
  BY DEF TypeAndBound, TypeOK, AllAtTheirPdu
<1>4. /\ entries' \in SUBSET (Pdus \X Hosts) /\ OneEntryPerPdu'
      /\ troubles = 0 => \A e \in entries' : reach[e[2]] = e[1]
  BY <1>2, <1>3, AddedKeeps
<1>5. TypeAndBound'
  BY <1>1, <1>4, ClosedForms DEF TypeAndBound, TypeOK, FormTypes
<1>6. OneLeft' /\ AllAtTheirPdu'
  BY <1>1, <1>4, ClosedForms DEF OneLeft, AllAtTheirPdu
<1> QED
  BY <1>4, <1>5, <1>6

LEMMA ImportKeeps ==
    ASSUME FlowInv, Import
    PROVE  FlowInv'
<1> USE DEF FlowInv
<1>1. UNCHANGED <<step, target, offered, chosen, valid, reach, troubles>>
  BY DEF Import, flowVars
<1>2. PICK i \in imports : AddEntry(i[2], i[3]) /\ imports' = imports \ {i}
  BY DEF Import
<1>3. i[2] \in Pdus /\ i[3] \in Hosts /\ (troubles = 0 => reach[i[3]] = i[2])
  BY DEF TypeAndBound, TypeOK, AllAtTheirPdu
<1>4. /\ entries' \in SUBSET (Pdus \X Hosts) /\ OneEntryPerPdu'
      /\ troubles = 0 => \A e \in entries' : reach[e[2]] = e[1]
  BY <1>2, <1>3, AddedKeeps
<1>5. TypeAndBound'
  BY <1>1, <1>2, <1>4 DEF TypeAndBound, TypeOK
<1>6. OneLeft' /\ AllAtTheirPdu'
  BY <1>1, <1>2, <1>4 DEF OneLeft, AllAtTheirPdu
<1> QED
  BY <1>4, <1>5, <1>6

LEMMA RemoveKeeps ==
    ASSUME FlowInv, RemoveEntry
    PROVE  FlowInv'
<1> USE DEF FlowInv
<1>1. UNCHANGED <<step, target, offered, chosen, valid, imports, reach, troubles>>
      /\ entries' \subseteq entries
  BY DEF RemoveEntry, flowVars
<1>2. TypeAndBound'
  BY <1>1 DEF TypeAndBound, TypeOK
<1>3. OneLeft' /\ OneEntryPerPdu' /\ AllAtTheirPdu'
  BY <1>1 DEF OneLeft, OneEntryPerPdu, AllAtTheirPdu
<1> QED
  BY <1>2, <1>3

LEMMA MoveKeeps ==
    ASSUME FlowInv, NEW h \in Hosts, NEW p \in Pdus \cup {None}, Move(h, p)
    PROVE  FlowInv'
<1> USE DEF FlowInv
<1>1. /\ UNCHANGED <<step, target, offered, chosen, valid, entries, imports>>
      /\ reach' = [reach EXCEPT ![h] = p] /\ troubles' = troubles + 1
  BY DEF Move, Trouble, flowVars
<1>2. TypeAndBound' /\ troubles' # 0
  BY <1>1 DEF TypeAndBound, TypeOK
<1>3. OneLeft' /\ OneEntryPerPdu' /\ AllAtTheirPdu'
  BY <1>1, <1>2 DEF OneLeft, OneEntryPerPdu, AllAtTheirPdu
<1> QED
  BY <1>2, <1>3

\* Next, by what a step concerns.
LEMMA StepKinds ==
    ASSUME Next
    PROVE  \/ \E f \in Flows : \/ Aside(f) \/ CloseDialog(f)
                               \/ Validated(f) \/ FanOut(f) \/ Finish(f)
           \/ Import \/ RemoveEntry
           \/ \E h \in Hosts, p \in Pdus \cup {None} : Move(h, p)
  BY DEF Next, Scan, Answer, Create, Aside

LEMMA FlowInvStep == FlowInv /\ [Next]_vars => FlowInv'
<1> SUFFICES ASSUME FlowInv, [Next]_vars PROVE FlowInv'
  OBVIOUS
<1>1. CASE Next
  BY <1>1, StepKinds, AsideKeeps, CloseKeeps, ValidatedKeeps, FanOutKeeps, FinishKeeps,
     ImportKeeps, RemoveKeeps, MoveKeeps
<1>2. CASE UNCHANGED vars
  BY <1>2 DEF vars, flowVars, FlowInv, TypeAndBound, TypeOK, OneLeft, OneEntryPerPdu,
              AllAtTheirPdu
<1> QED
  BY <1>1, <1>2

THEOREM FlowInvHolds == Spec => []FlowInv
  BY FlowInvInit, FlowInvStep, PTL DEF Spec

\* The types of dialogs, imports and entries (config_flow.py).
THEOREM FlowTypes == Spec => []TypeOK
<1>1. FlowInv => TypeOK
  BY DEF FlowInv, TypeAndBound
<1> QED
  BY <1>1, FlowInvHolds, PTL

\* However many dialogs and imports lead to a PDU, by whatever hosts, there is
\* one entry for it (config_flow.py, async_set_unique_id and
\* _abort_if_unique_id_configured).
THEOREM NeverAddedTwice == Spec => []OneEntryPerPdu
<1>1. FlowInv => OneEntryPerPdu
  BY DEF FlowInv
<1> QED
  BY <1>1, FlowInvHolds, PTL

\* From the validation of several hosts to the entries made of them no host is
\* taken for another (config_flow.py, _async_create_for_hosts).
THEOREM NoHostMistaken == Spec => []EntriesAtTheirPdu
<1>1. FlowInv => EntriesAtTheirPdu
  BY DEF FlowInv, AllAtTheirPdu, EntriesAtTheirPdu
<1> QED
  BY <1>1, FlowInvHolds, PTL

-----------------------------------------------------------------------------
(* The entries are those of EntryRegistry.                                  *)

Found(f) == IF step[f] \in {"create", "finish"} THEN valid[f] ELSE {}

\* What is pending, pair by pair.
OnItsWay(p, h) ==
    \/ \E f \in Flows : <<f, p, h>> \in imports
    \/ \E f \in Flows : <<h, p>> \in Found(f)

PendingMeans ==
    /\ Pending \subseteq Pdus \X Hosts
    /\ \A p \in Pdus, h \in Hosts : <<p, h>> \in Pending <=> OnItsWay(p, h)

LEMMA PendingMembers == TypeOK => PendingMeans
<1> SUFFICES ASSUME TypeOK PROVE PendingMeans
  OBVIOUS
<1>1. valid \in [Flows -> SUBSET (Hosts \X Pdus)] /\ imports \in SUBSET (Flows \X Pdus \X Hosts)
  BY DEF TypeOK
<1>2. \A i \in imports : \E f \in Flows, p \in Pdus, h \in Hosts : i = <<f, p, h>>
  BY <1>1
<1>3. \A f \in Flows : \A v \in Found(f) : \E p \in Pdus, h \in Hosts : v = <<h, p>>
  BY <1>1 DEF Found
<1>4. \A x : x \in Pending <=> \/ \E i \in imports : x = <<i[2], i[3]>>
                               \/ \E f \in Flows : \E v \in Found(f) : x = <<v[2], v[1]>>
  BY DEF Pending, Found
<1>5. Pending \subseteq Pdus \X Hosts
  BY <1>2, <1>3, <1>4
<1>6. ASSUME NEW p \in Pdus, NEW h \in Hosts
      PROVE  <<p, h>> \in Pending <=> OnItsWay(p, h)
  <2>1. (\E i \in imports : <<p, h>> = <<i[2], i[3]>>)
           <=> \E f \in Flows : <<f, p, h>> \in imports
    <3>1. ASSUME NEW i \in imports, <<p, h>> = <<i[2], i[3]>>
          PROVE  \E f \in Flows : <<f, p, h>> \in imports
      <4>1. PICK f \in Flows, q \in Pdus, g \in Hosts : i = <<f, q, g>>
        BY <1>2
      <4>2. q = p /\ g = h
        BY <3>1, <4>1
      <4> QED
        BY <4>1, <4>2
    <3>2. ASSUME NEW f \in Flows, <<f, p, h>> \in imports
          PROVE  \E i \in imports : <<p, h>> = <<i[2], i[3]>>
      <4> DEFINE i == <<f, p, h>>
      <4>1. i[2] = p /\ i[3] = h
        OBVIOUS
      <4> QED
        BY <3>2, <4>1
    <3> QED
      BY <3>1, <3>2
  <2>2. ASSUME NEW f \in Flows
        PROVE  (\E v \in Found(f) : <<p, h>> = <<v[2], v[1]>>) <=> <<h, p>> \in Found(f)
    <3>1. ASSUME NEW v \in Found(f), <<p, h>> = <<v[2], v[1]>> PROVE v = <<h, p>>
      BY <1>3, <3>1
    <3>2. ASSUME <<h, p>> \in Found(f) PROVE \E v \in Found(f) : <<p, h>> = <<v[2], v[1]>>
      <4> DEFINE v == <<h, p>>
      <4>1. v[2] = p /\ v[1] = h
        OBVIOUS
      <4> QED
        BY <3>2, <4>1
    <3> QED
      BY <3>1, <3>2
  <2> QED
    BY <1>4, <2>1, <2>2 DEF OnItsWay
<1> QED
  BY <1>5, <1>6 DEF PendingMeans

\* Steps after which the same pairs are on their way stutter.
LEMMA SamePending ==
    ASSUME TypeOK, TypeOK',
           \A p \in Pdus, h \in Hosts : OnItsWay(p, h)' <=> OnItsWay(p, h)
    PROVE  Pending' = Pending
<1>1. PendingMeans /\ PendingMeans'
  BY PendingMembers, PTL
<1>2. Pending \subseteq Pdus \X Hosts /\ Pending' \subseteq Pdus \X Hosts
  BY <1>1 DEF PendingMeans
<1>3. \A p \in Pdus, h \in Hosts : <<p, h>> \in Pending <=> <<p, h>> \in Pending'
  BY <1>1 DEF PendingMeans
<1> QED
  BY <1>2, <1>3

\* HostOf is the entries, read by identity.
HostsRead ==
    /\ DOMAIN HostOf = Registered
    /\ \A e \in entries : e[1] \in Registered /\ HostOf[e[1]] = e[2]
    /\ \A p \in Registered : p \in Pdus

LEMMA HostOfMembers == TypeOK /\ OneEntryPerPdu => HostsRead
<1> SUFFICES ASSUME TypeOK, OneEntryPerPdu PROVE HostsRead
  OBVIOUS
<1>1. ASSUME NEW e \in entries
      PROVE  e[1] \in Registered /\ HostOf[e[1]] = e[2]
  <2>1. e[1] \in Registered
    BY DEF Registered
  <2>2. (CHOOSE d \in entries : d[1] = e[1]) = e
    BY DEF OneEntryPerPdu
  <2> QED
    BY <2>1, <2>2 DEF HostOf
<1>2. \A p \in Registered : p \in Pdus
  BY DEF Registered, TypeOK
<1>3. DOMAIN HostOf = Registered
  BY DEF HostOf
<1> QED
  BY <1>1, <1>2, <1>3 DEF HostsRead

\* An entry for an identity, seen as EntryRegistry sees it.
LEMMA AddedIsEntered ==
    ASSUME FlowInv, FlowInv', NEW p \in Pdus, NEW h \in Hosts, AddEntry(p, h)
    PROVE  HostOf' = [j \in DOMAIN HostOf \cup {p} |-> IF j = p THEN h ELSE HostOf[j]]
<1>1. HostsRead /\ HostsRead'
  BY HostOfMembers, PTL DEF FlowInv, TypeAndBound
<1>2. entries' = {e \in entries : e[1] # p} \cup {<<p, h>>}
  BY EntryAdded
<1> DEFINE new == <<p, h>>
<1>3. new \in entries' /\ new[1] = p /\ new[2] = h
  BY <1>2
<1>4. p \in Registered' /\ HostOf'[p] = h
  BY <1>1, <1>3 DEF HostsRead
<1> HIDE DEF new
<1>5. ASSUME NEW j \in Registered, j # p
      PROVE  j \in Registered' /\ HostOf'[j] = HostOf[j]
  <2>1. PICK e \in entries : e[1] = j
    BY DEF Registered
  <2>2. e \in entries'
    BY <1>2, <1>5, <2>1
  <2> QED
    BY <1>1, <2>1, <2>2 DEF HostsRead
<1>6. ASSUME NEW j \in Registered', j # p PROVE j \in Registered
  <2>1. PICK e \in entries' : e[1] = j
    BY DEF Registered
  <2>2. e \in entries
    BY <1>2, <1>3, <1>6, <2>1 DEF new
  <2> QED
    BY <2>1, <2>2 DEF Registered
<1>7. Registered' = Registered \cup {p}
  BY <1>4, <1>5, <1>6
<1>8. DOMAIN HostOf = Registered /\ DOMAIN HostOf' = Registered'
  BY <1>1 DEF HostsRead
<1>9. HostOf' = [j \in Registered' |-> HostOf'[j]]
  BY DEF HostOf
<1> QED
  BY <1>4, <1>5, <1>7, <1>8, <1>9

LEMMA RemovedIsForgotten ==
    ASSUME FlowInv, FlowInv', RemoveEntry
    PROVE  \E i \in Pdus : HostOf' = [j \in DOMAIN HostOf \ {i} |-> HostOf[j]]
<1>1. HostsRead /\ HostsRead'
  BY HostOfMembers, PTL DEF FlowInv, TypeAndBound
<1>2. PICK e \in entries : entries' = entries \ {e}
  BY DEF RemoveEntry
<1>3. e[1] \in Pdus
  BY <1>1, <1>2 DEF HostsRead
<1>4. ASSUME NEW j \in Registered'
      PROVE  j \in Registered \ {e[1]} /\ HostOf'[j] = HostOf[j]
  <2>1. PICK d \in entries' : d[1] = j
    BY DEF Registered
  <2>2. d \in entries /\ d # e
    BY <1>2, <2>1
  <2>3. d[1] # e[1]
    BY <2>2 DEF FlowInv, OneEntryPerPdu
  <2> QED
    BY <1>1, <2>1, <2>2, <2>3 DEF HostsRead
<1>5. ASSUME NEW j \in Registered \ {e[1]} PROVE j \in Registered'
  <2>1. PICK d \in entries : d[1] = j
    BY DEF Registered
  <2>2. d \in entries'
    BY <1>2, <1>5, <2>1
  <2> QED
    BY <2>1, <2>2 DEF Registered
<1>6. Registered' = Registered \ {e[1]}
  BY <1>4, <1>5
<1>7. DOMAIN HostOf = Registered
  BY <1>1 DEF HostsRead
<1>8. HostOf' = [j \in Registered' |-> HostOf'[j]]
  BY DEF HostOf
<1>9. HostOf' = [j \in DOMAIN HostOf \ {e[1]} |-> HostOf[j]]
  BY <1>4, <1>6, <1>7, <1>8
<1> QED
  BY <1>3, <1>9

LEMMA SameHosts == ASSUME UNCHANGED entries PROVE UNCHANGED HostOf
  BY DEF HostOf, Registered

\* Entering a pair takes away at most this pair.
LEMMA EnteredFromPending ==
    ASSUME FlowInv, FlowInv', NEW p \in Pdus, NEW h \in Hosts, AddEntry(p, h),
           OnItsWay(p, h),
           \A q \in Pdus, g \in Hosts : OnItsWay(q, g)' => OnItsWay(q, g),
           \A q \in Pdus, g \in Hosts : OnItsWay(q, g) => OnItsWay(q, g)' \/ <<q, g>> = <<p, h>>
    PROVE  Registry!Enter(p, h)
<1>1. PendingMeans /\ PendingMeans'
  BY PendingMembers, PTL DEF FlowInv, TypeAndBound
<1>2. <<p, h>> \in Pending
  BY <1>1 DEF PendingMeans
<1>3. Pending' \subseteq Pending
  BY <1>1 DEF PendingMeans
<1>4. Pending \subseteq Pending' \cup {<<p, h>>}
  BY <1>1 DEF PendingMeans
<1>5. Pending' \in {Pending, Pending \ {<<p, h>>}}
  <2>1. CASE <<p, h>> \in Pending'
    BY <1>3, <1>4, <2>1
  <2>2. CASE <<p, h>> \notin Pending'
    BY <1>3, <1>4, <2>2
  <2> QED
    BY <2>1, <2>2
<1> QED
  BY <1>2, <1>5, AddedIsEntered DEF Registry!Enter

LEMMA FinishEnters ==
    ASSUME FlowInv, FlowInv', NEW f \in Flows, Finish(f)
    PROVE  \E p \in Pdus, h \in Hosts : Registry!Enter(p, h)
<1>1. step[f] = "finish" /\ Close(f) /\ imports' = imports
  BY DEF Finish
<1>2. PICK v \in valid[f] : AddEntry(v[2], v[1])
  BY DEF Finish
<1>3. v \in Hosts \X Pdus /\ valid[f] = {v}
  BY <1>1 DEF FlowInv, TypeAndBound, TypeOK, OneLeft
<1>4. PICK h \in Hosts, p \in Pdus : v = <<h, p>>
  BY <1>3
<1>5. AddEntry(p, h)
  BY <1>2, <1>4
<1>6. Found(f) = {<<h, p>>} /\ Found(f)' = {}
  BY <1>1, <1>3, <1>4, ClosedForms DEF Found, FlowInv
<1>7. \A g \in Flows \ {f} : Found(g)' = Found(g)
  BY <1>1, ClosedForms DEF Found, FlowInv
<1>8. OnItsWay(p, h)
  BY <1>6 DEF OnItsWay
<1>9. \A q \in Pdus, g \in Hosts : OnItsWay(q, g)' => OnItsWay(q, g)
  BY <1>1, <1>6, <1>7 DEF OnItsWay
<1>10. ASSUME NEW q \in Pdus, NEW g \in Hosts, OnItsWay(q, g)
       PROVE  OnItsWay(q, g)' \/ <<q, g>> = <<p, h>>
  <2>1. CASE \E e \in Flows : <<e, q, g>> \in imports
    BY <1>1, <2>1 DEF OnItsWay
  <2>2. CASE \E e \in Flows \ {f} : <<g, q>> \in Found(e)
    BY <1>7, <2>2 DEF OnItsWay
  <2>3. CASE <<g, q>> \in Found(f)
    BY <1>6, <2>3
  <2> QED
    BY <1>10, <2>1, <2>2, <2>3 DEF OnItsWay
<1> QED
  BY <1>5, <1>8, <1>9, <1>10, EnteredFromPending

LEMMA ImportEnters ==
    ASSUME FlowInv, FlowInv', Import
    PROVE  \E p \in Pdus, h \in Hosts : Registry!Enter(p, h)
<1>1. UNCHANGED <<step, valid>>
  BY DEF Import, flowVars
<1>2. PICK i \in imports : AddEntry(i[2], i[3]) /\ imports' = imports \ {i}
  BY DEF Import
<1>3. PICK f \in Flows, p \in Pdus, h \in Hosts : i = <<f, p, h>>
  BY <1>2 DEF FlowInv, TypeAndBound, TypeOK
<1>4. AddEntry(p, h)
  BY <1>2, <1>3
<1>5. \A g \in Flows : Found(g)' = Found(g)
  BY <1>1 DEF Found
<1>6. OnItsWay(p, h)
  BY <1>2, <1>3 DEF OnItsWay
<1>7. \A q \in Pdus, g \in Hosts : OnItsWay(q, g)' => OnItsWay(q, g)
  BY <1>2, <1>5 DEF OnItsWay
<1>8. ASSUME NEW q \in Pdus, NEW g \in Hosts, OnItsWay(q, g)
      PROVE  OnItsWay(q, g)' \/ <<q, g>> = <<p, h>>
  <2>1. ASSUME NEW e \in Flows, <<e, q, g>> \in imports
        PROVE  OnItsWay(q, g)' \/ <<q, g>> = <<p, h>>
    <3>1. CASE <<e, q, g>> = i
      BY <1>3, <3>1
    <3>2. CASE <<e, q, g>> # i
      BY <1>2, <2>1, <3>2 DEF OnItsWay
    <3> QED
      BY <3>1, <3>2
  <2>2. CASE \E e \in Flows : <<g, q>> \in Found(e)
    BY <1>5, <2>2 DEF OnItsWay
  <2> QED
    BY <1>8, <2>1, <2>2 DEF OnItsWay
<1> QED
  BY <1>4, <1>6, <1>7, <1>8, EnteredFromPending

\* The dialog that validates a host has nothing on its way yet.
LEMMA ValidatedFinds ==
    ASSUME FlowInv, FlowInv', NEW f \in Flows, Validated(f)
    PROVE  \E found \in SUBSET (Pdus \X Hosts) : Registry!Find(found)
<1>1. PendingMeans /\ PendingMeans'
  BY PendingMembers, PTL DEF FlowInv, TypeAndBound
<1>2. step[f] = "validating" /\ UNCHANGED <<entries, imports>>
  BY ValidatedValues DEF FlowInv
<1>3. \A g \in Flows \ {f} : step'[g] = step[g] /\ valid'[g] = valid[g]
  <2>1. step \in [Flows -> Steps] /\ valid \in [Flows -> SUBSET (Hosts \X Pdus)]
    BY DEF FlowInv, TypeAndBound, TypeOK
  <2> QED
    BY <2>1, ValidatedValues DEF FlowInv
<1>4. Found(f) = {} /\ \A g \in Flows \ {f} : Found(g)' = Found(g)
  BY <1>2, <1>3 DEF Found
<1>5. \A p \in Pdus, h \in Hosts : OnItsWay(p, h) => OnItsWay(p, h)'
  BY <1>2, <1>4 DEF OnItsWay
<1>6. Pending \subseteq Pending' /\ Pending' \in SUBSET (Pdus \X Hosts)
  BY <1>1, <1>5 DEF PendingMeans
<1>7. Pending' = Pending \cup Pending' /\ UNCHANGED HostOf
  BY <1>2, <1>6, SameHosts
<1>8. Registry!Find(Pending')
  BY <1>7 DEF Registry!Find
<1> QED
  BY <1>6, <1>8

LEMMA FanOutStutters ==
    ASSUME FlowInv, FlowInv', NEW f \in Flows, FanOut(f)
    PROVE  UNCHANGED <<Pending, HostOf>>
<1>1. step[f] = "create" /\ step' = [step EXCEPT ![f] = "finish"] /\ UNCHANGED entries
  BY DEF FanOut, Go
<1>2. PICK v \in valid[f] :
        /\ valid' = [valid EXCEPT ![f] = {v}]
        /\ imports' = imports \cup {<<f, u[2], u[1]>> : u \in valid[f] \ {v}}
  BY DEF FanOut
<1>3. step \in [Flows -> Steps] /\ valid \in [Flows -> SUBSET (Hosts \X Pdus)]
  BY DEF FlowInv, TypeAndBound, TypeOK
<1>4. Found(f) = valid[f] /\ Found(f)' = {v} /\ \A g \in Flows \ {f} : Found(g)' = Found(g)
  BY <1>1, <1>2, <1>3 DEF Found
<1>5. \A u \in valid[f] : \E p \in Pdus, h \in Hosts : u = <<h, p>>
  BY <1>3
<1>6. ASSUME NEW p \in Pdus, NEW h \in Hosts, OnItsWay(p, h)
      PROVE  OnItsWay(p, h)'
  <2>1. CASE \E g \in Flows : <<g, p, h>> \in imports
    BY <1>2, <2>1 DEF OnItsWay
  <2>2. CASE \E g \in Flows \ {f} : <<h, p>> \in Found(g)
    BY <1>4, <2>2 DEF OnItsWay
  <2>3. CASE <<h, p>> \in valid[f]
    <3> DEFINE u == <<h, p>>
    <3>1. u[1] = h /\ u[2] = p
      OBVIOUS
    <3>2. CASE u = v
      BY <1>4, <3>2 DEF OnItsWay
    <3>3. CASE u # v
      <4>1. <<f, u[2], u[1]>> \in imports'
        BY <1>2, <2>3, <3>3
      <4>2. <<f, p, h>> \in imports'
        BY <3>1, <4>1
      <4> QED
        BY <4>2 DEF OnItsWay
    <3> QED
      BY <3>2, <3>3
  <2> QED
    BY <1>4, <1>6, <2>1, <2>2, <2>3 DEF OnItsWay
<1>7. ASSUME NEW p \in Pdus, NEW h \in Hosts, OnItsWay(p, h)'
      PROVE  OnItsWay(p, h)
  <2>1. CASE \E g \in Flows : <<g, p, h>> \in imports
    BY <2>1 DEF OnItsWay
  <2>2. ASSUME NEW u \in valid[f], NEW g \in Flows, <<g, p, h>> = <<f, u[2], u[1]>>
        PROVE  OnItsWay(p, h)
    <3>1. u = <<h, p>>
      BY <1>5, <2>2
    <3> QED
      BY <1>4, <3>1 DEF OnItsWay
  <2>3. CASE \E g \in Flows : <<h, p>> \in Found(g)'
    BY <1>4, <2>3 DEF OnItsWay
  <2>4. \/ \E g \in Flows : <<g, p, h>> \in imports
        \/ \E u \in valid[f], g \in Flows : <<g, p, h>> = <<f, u[2], u[1]>>
        \/ \E g \in Flows : <<h, p>> \in Found(g)'
    BY <1>2, <1>7 DEF OnItsWay
  <2> QED
    BY <2>1, <2>2, <2>3, <2>4
<1>8. Pending' = Pending
  BY <1>6, <1>7, SamePending DEF FlowInv, TypeAndBound
<1> QED
  BY <1>1, <1>8, SameHosts

\* Steps of a dialog that has nothing on its way, before and after.
LEMMA OthersStutter ==
    ASSUME FlowInv, FlowInv', NEW f \in Flows, Aside(f) \/ CloseDialog(f)
    PROVE  UNCHANGED <<Pending, HostOf>>
<1>1. UNCHANGED <<entries, imports>> /\ step[f] \notin {"create", "finish"}
  BY AsideSteps DEF FlowInv, CloseDialog, Forms
<1>2. Found(f) = {} /\ Found(f)' = {} /\ \A g \in Flows \ {f} : Found(g)' = Found(g)
  <2>1. step \in [Flows -> Steps]
    BY DEF FlowInv, TypeAndBound, TypeOK
  <2>2. CASE Aside(f)
    <3>1. valid' = valid
          /\ \E s \in Steps \ {"create", "finish"} : step' = [step EXCEPT ![f] = s]
      BY <2>2, AsideSteps DEF FlowInv, Go
    <3> QED
      BY <1>1, <2>1, <3>1 DEF Found
  <2>3. CASE CloseDialog(f)
    BY <1>1, <2>3, ClosedForms DEF Found, FlowInv, CloseDialog
  <2> QED
    BY <2>2, <2>3
<1>3. \A p \in Pdus, h \in Hosts : OnItsWay(p, h)' <=> OnItsWay(p, h)
  BY <1>1, <1>2 DEF OnItsWay
<1>4. Pending' = Pending
  BY <1>3, SamePending DEF FlowInv, TypeAndBound
<1> QED
  BY <1>1, <1>4, SameHosts

LEMMA RegistryInit == Init => Registry!Init
<1> SUFFICES ASSUME Init PROVE Registry!Init
  OBVIOUS
<1>1. Pending = {}
  BY DEF Init, Pending
<1>2. Registered = {}
  BY DEF Init, Registered
<1>3. HostOf = [i \in {} |-> {}]
  BY <1>2 DEF HostOf
<1> QED
  BY <1>1, <1>3 DEF Registry!Init

LEMMA RegistryStep ==
    FlowInv /\ FlowInv' /\ [Next]_vars => [Registry!Next]_<<Pending, HostOf>>
<1> SUFFICES ASSUME FlowInv, FlowInv', [Next]_vars
             PROVE  Registry!Next \/ UNCHANGED <<Pending, HostOf>>
  OBVIOUS
<1>1. ASSUME NEW f \in Flows, Aside(f) \/ CloseDialog(f) \/ FanOut(f)
      PROVE  UNCHANGED <<Pending, HostOf>>
  BY <1>1, OthersStutter, FanOutStutters
<1>2. ASSUME NEW f \in Flows, Validated(f) PROVE Registry!Next
  BY <1>2, ValidatedFinds DEF Registry!Next
<1>3. ASSUME NEW f \in Flows, Finish(f) PROVE Registry!Next
  BY <1>3, FinishEnters DEF Registry!Next
<1>4. CASE Import
  BY <1>4, ImportEnters DEF Registry!Next
<1>5. CASE RemoveEntry
  <2>1. UNCHANGED Pending
    BY <1>5 DEF RemoveEntry, flowVars, Pending
  <2> QED
    BY <1>5, <2>1, RemovedIsForgotten DEF Registry!Next, Registry!Forget
<1>6. ASSUME NEW h \in Hosts, NEW p \in Pdus \cup {None}, Move(h, p)
      PROVE  UNCHANGED <<Pending, HostOf>>
  <2>1. UNCHANGED <<step, valid, imports, entries>>
    BY <1>6 DEF Move, flowVars
  <2> QED
    BY <2>1, SameHosts DEF Pending
<1>7. CASE UNCHANGED vars
  <2>1. UNCHANGED <<step, valid, imports, entries>>
    BY <1>7 DEF vars, flowVars
  <2> QED
    BY <2>1, SameHosts DEF Pending
<1> QED
  BY <1>1, <1>2, <1>3, <1>4, <1>5, <1>6, <1>7, StepKinds

\* For the config entries all of config_flow.py, with its dialogs, scans,
\* validations and imports in any order, is EntryRegistry: nothing found is lost
\* or entered twice, and no step touches the entry of another PDU.
THEOREM RegistryImplemented == Spec => ImplementsRegistry
  BY RegistryInit, RegistryStep, FlowInvHolds, PTL
     DEF Spec, ImplementsRegistry, Registry!Spec, Registry!registryVars

-----------------------------------------------------------------------------
(* Scan targets.                                                            *)

\* A network lies in the space of addresses when one of its addresses does.
LEMMA NetworkInSpace ==
    ASSUME NEW k \in 0 .. Width, NEW b \in AddressSpace, NEW a \in Nat,
           a \div PowerOfTwo[k] = b \div PowerOfTwo[k]
    PROVE  a \in AddressSpace
<1> DEFINE s == PowerOfTwo[k]
           q == b \div s
           m == PowerOfTwo[Width - k]
<1>1. Width \in Nat /\ k \in Nat /\ Width - k \in Nat /\ k + (Width - k) = Width
  BY TargetAssumption
<1>2. s \in Nat \ {0} /\ m \in Nat \ {0} /\ PowerOfTwo[Width] = m * s
  BY <1>1, PowersPositive, PowersMultiply
<1>3. b \in 0 .. m * s - 1
  BY <1>2 DEF AddressSpace
<1> HIDE DEF s, m
<1>4. q \in Nat /\ b \in q * s .. q * s + s - 1 /\ a \in q * s .. q * s + s - 1
  <2>1. b \in Nat
    BY <1>2, <1>3
  <2>2. q \in Nat
    BY <1>2, <2>1, Division
  <2>3. a \div s = q
    BY DEF s
  <2> HIDE DEF q
  <2>4. b \div s = q
    BY DEF q
  <2> QED
    BY <1>2, <2>1, <2>2, <2>3, <2>4, SameQuotient
<1> HIDE DEF q
<1>5. q * s \in Nat /\ m * s \in Nat /\ (q + 1) * s = q * s + s
  BY <1>2, <1>4
<1>6. q + 1 <= m
  <2> SUFFICES ASSUME m <= q PROVE FALSE
    BY <1>2, <1>4
  <2>1. m * s <= q * s
    BY <1>2, <1>4, ProductsOrdered
  <2> QED
    BY <1>2, <1>3, <1>4, <1>5, <2>1
<1>7. (q + 1) * s <= m * s
  BY <1>2, <1>4, <1>6, ProductsOrdered
<1> QED
  BY <1>2, <1>4, <1>5, <1>7 DEF AddressSpace

\* The size of a network tells whether its first and last hosts are left out.
LEMMA SmallNetworks ==
    ASSUME NEW h \in Nat
    PROVE  PowerOfTwo[h] <= 2 <=> h <= 1
<1>1. PowerOfTwo[0] = 1 /\ PowerOfTwo[1] = 2 /\ PowerOfTwo[2] = 4
  <2>1. PowerOfTwo[0 + 1] = 2 * PowerOfTwo[0] /\ PowerOfTwo[1 + 1] = 2 * PowerOfTwo[1]
    BY PowersDefined
  <2> QED
    BY <2>1, PowersDefined
<1>2. CASE h <= 1
  BY <1>1, <1>2
<1>3. CASE h > 1
  <2>1. h - 2 \in Nat /\ 2 + (h - 2) = h
    BY <1>3
  <2> DEFINE n == h - 2
  <2>2. n \in Nat /\ 2 \in Nat /\ 2 + n = h
    BY <2>1
  <2>3. PowerOfTwo[2 + n] = PowerOfTwo[n] * PowerOfTwo[2] /\ PowerOfTwo[n] \in Nat \ {0}
    <3> HIDE DEF n
    <3> QED
      BY <2>2, PowersMultiply, PowersPositive
  <2> HIDE DEF n
  <2>4. PowerOfTwo[h] = PowerOfTwo[n] * 4
    BY <1>1, <2>2, <2>3
  <2> QED
    BY <1>3, <2>3, <2>4
<1> QED
  BY <1>2, <1>3

LEMMA NetworkAsMeant ==
    ASSUME NEW t \in [kind : {"network"}, address : AddressSpace, prefix : 0 .. Width]
    PROVE  Expand(t) = {a \in AddressSpace : Meant(t, a)}
<1> DEFINE h == Width - t.prefix
           s == PowerOfTwo[h]
           q == t.address \div s
           Mixed(a) == \E i, j \in 0 .. h - 1 : Bit(a, i) # Bit(a, j)
<1>1. /\ Width \in Nat /\ h \in 0 .. Width /\ t.kind = "network"
      /\ t.address \in AddressSpace /\ AddressSpace \subseteq Nat
  <2>1. PowerOfTwo[Width] \in Nat
    BY TargetAssumption, PowersPositive
  <2> QED
    BY <2>1, TargetAssumption DEF AddressSpace
<1>2. s \in Nat \ {0}
  BY <1>1, PowersPositive
<1>3. ASSUME NEW a \in Nat
      PROVE  /\ a \div s = q => a \in AddressSpace
             /\ a \div s = q <=> a \in q * s .. q * s + s - 1
             /\ a \div s = q => (a \in q * s + 1 .. q * s + s - 2
                                    <=> a % s # 0 /\ a % s # s - 1)
  <2>1. q \in Nat
    BY <1>1, <1>2, Division
  <2>2. a \div s = q => a \in AddressSpace
    BY <1>1, NetworkInSpace
  <2>3. a \div s = q <=> a \in q * s .. q * s + s - 1
    <3> HIDE DEF q, s
    <3> QED
      BY <1>2, <2>1, SameQuotient
  <2>4. a % s \in 0 .. s - 1 /\ a = (a \div s) * s + (a % s)
    <3> HIDE DEF s
    <3> QED
      BY <1>2, Division
  <2>5. ASSUME a \div s = q
        PROVE  a \in q * s + 1 .. q * s + s - 2 <=> a % s # 0 /\ a % s # s - 1
    <3> DEFINE r == a % s
    <3>1. a = q * s + r /\ r \in 0 .. s - 1
      BY <2>4, <2>5
    <3> HIDE DEF q, s, r
    <3>3. q * s \in Nat
      BY <1>2, <2>1
    <3>2. a \in q * s + 1 .. q * s + s - 2 <=> r # 0 /\ r # s - 1
      BY <1>2, <3>1, <3>3
    <3> QED
      BY <3>2 DEF r
  <2> QED
    BY <2>2, <2>3, <2>5
<1>4. ASSUME NEW a \in AddressSpace
      PROVE  a \div s = q <=> \A i \in h .. Width - 1 : Bit(a, i) = Bit(t.address, i)
  BY <1>1, SameHighBits DEF AddressSpace
<1>5. ASSUME NEW a \in Nat, h > 1
      PROVE  Mixed(a) <=> a % s # 0 /\ a % s # s - 1
  <2>1. \A i \in 0 .. h - 1 : Bit(a, i) \in {0, 1}
    BY <1>1, NextQuotient
  <2>2. /\ a % s = 0 <=> \A i \in 0 .. h - 1 : Bit(a, i) = 0
        /\ a % s = s - 1 <=> \A i \in 0 .. h - 1 : Bit(a, i) = 1
    BY <1>1, LowBits
  <2>3. 0 \in 0 .. h - 1
    BY <1>1, <1>5
  <2> HIDE DEF s, h
  <2> QED
    BY <2>1, <2>2, <2>3
<1>6. Expand(t) = IF h <= 1 THEN q * s .. q * s + s - 1 ELSE q * s + 1 .. q * s + s - 2
  <2>1. s <= 2 <=> h <= 1
    BY <1>1, SmallNetworks
  <2> QED
    BY <1>1, <2>1 DEF Expand, NetworkHosts
<1>7. ASSUME NEW a
      PROVE  Meant(t, a) <=> /\ \A i \in h .. Width - 1 : Bit(a, i) = Bit(t.address, i)
                             /\ h > 1 => Mixed(a)
  BY <1>1 DEF Meant
<1>8. q * s \in Nat
  <2>1. q \in Nat
    BY <1>1, <1>2, Division
  <2> HIDE DEF q, s
  <2> QED
    BY <1>2, <2>1
<1> HIDE DEF h, s, q, Mixed
<1>9. Expand(t) \subseteq Nat
  BY <1>2, <1>6, <1>8
<1>10. ASSUME NEW a \in Nat
       PROVE  a \in Expand(t) <=> /\ a \div s = q
                                  /\ h > 1 => a % s # 0 /\ a % s # s - 1
  <2>1. CASE h <= 1
    BY <1>1, <1>3, <1>6, <2>1
  <2>2. CASE h > 1
    <3>1. a \in q * s + 1 .. q * s + s - 2 => a \in q * s .. q * s + s - 1
      BY <1>2, <1>8
    <3> QED
      BY <1>1, <1>3, <1>6, <2>2, <3>1
  <2> QED
    BY <1>1, <2>1, <2>2
<1>11. ASSUME NEW a \in AddressSpace
       PROVE  Meant(t, a) <=> /\ a \div s = q
                              /\ h > 1 => a % s # 0 /\ a % s # s - 1
  BY <1>1, <1>4, <1>5, <1>7
<1> QED
  BY <1>1, <1>3, <1>9, <1>10, <1>11

\* Every target but a wrong one expands to the addresses that the user means
\* (discovery.py, parse_scan_targets).
THEOREM ExpandedAsMeant ==
    ASSUME NEW t \in ReadTargets, Expand(t) # {}
    PROVE  Expand(t) = {a \in AddressSpace : Meant(t, a)}
<1>1. AddressSpace \subseteq Nat /\ \A a, b \in AddressSpace : a .. b \subseteq AddressSpace
  <2>1. PowerOfTwo[Width] \in Nat
    BY TargetAssumption, PowersPositive
  <2> QED
    BY <2>1 DEF AddressSpace
<1>2. CASE t \in [kind : {"network"}, address : AddressSpace, prefix : 0 .. Width]
  BY <1>2, NetworkAsMeant
<1>3. CASE t \in [kind : {"range"}, address : AddressSpace, end : AddressSpace]
  <2>1. t.kind = "range" /\ t.address \in AddressSpace /\ t.end \in AddressSpace
    BY <1>3
  <2>2. Expand(t) = t.address .. t.end
    BY <2>1 DEF Expand
  <2>3. ASSUME NEW a PROVE Meant(t, a) <=> t.address <= a /\ a <= t.end
    BY <2>1 DEF Meant
  <2>4. t.address .. t.end = {a \in AddressSpace : t.address <= a /\ a <= t.end}
    <3>1. t.address \in Nat /\ t.end \in Nat /\ t.address .. t.end \subseteq AddressSpace
      BY <1>1, <2>1
    <3>2. \A a \in AddressSpace : a \in t.address .. t.end <=> t.address <= a /\ a <= t.end
      BY <1>1, <3>1
    <3> QED
      BY <3>1, <3>2
  <2> QED
    BY <2>2, <2>3, <2>4
<1>4. CASE t \in [kind : {"octets"}, address : AddressSpace, last : Nat]
  <2> DEFINE start == t.address
             last == t.last
             o == OctetSize
             q == start \div o
  <2>1. t.kind = "octets" /\ start \in AddressSpace /\ last \in Nat
    BY <1>4
  <2>2. PICK k \in 0 .. Width : o = PowerOfTwo[k]
    BY TargetAssumption
  <2>3. o \in Nat \ {0} /\ start \in Nat
    <3>1. k \in Nat
      BY <2>2, TargetAssumption
    <3> QED
      BY <1>1, <2>1, <2>2, <3>1, PowersPositive
  <2>4. Expand(t) = start .. q * o + last /\ last < o
    BY <2>1 DEF Expand, Shorthand
  <2>5. \A a : Meant(t, a) <=> a \div o = q /\ start <= a /\ a % o <= last
    BY <2>1 DEF Meant
  <2>6. q \in Nat /\ q * o \in Nat /\ q * o <= start
    <3> HIDE DEF o, start
    <3>1. q \in Nat /\ start % o \in 0 .. o - 1 /\ start = q * o + (start % o)
      BY <2>3, Division
    <3> HIDE DEF q
    <3>2. q * o \in Nat
      BY <2>3, <3>1
    <3> QED
      BY <2>3, <3>1, <3>2
  <2>7. ASSUME NEW a \in Nat PROVE a \div o = q => a \in AddressSpace
    BY <2>1, <2>2, <2>7, NetworkInSpace
  <2>8. ASSUME NEW a \in Nat
        PROVE  /\ a \div o = q <=> a \in q * o .. q * o + o - 1
               /\ a \div o = q => a = q * o + (a % o) /\ a % o \in 0 .. o - 1
    <3> HIDE DEF o, q
    <3> QED
      BY <2>3, <2>6, Division, SameQuotient
  <2> HIDE DEF o, q, start, last
  <2>9. ASSUME NEW a \in Nat, start <= a
        PROVE  a <= q * o + last <=> a \div o = q /\ a % o <= last
    <3>1. CASE a \div o = q
      <4>1. a = q * o + (a % o) /\ a % o \in 0 .. o - 1
        BY <2>8, <3>1
      <4> QED
        BY <2>1, <2>3, <2>6, <3>1, <4>1
    <3>2. CASE a \div o # q
      <4>1. ~ (a \in q * o .. q * o + o - 1)
        BY <2>8, <3>2
      <4> QED
        BY <2>1, <2>3, <2>4, <2>6, <2>9, <3>2, <4>1
    <3> QED
      BY <3>1, <3>2
  <2>10. ASSUME NEW a \in Nat
         PROVE  a \in Expand(t) <=> a \in AddressSpace /\ Meant(t, a)
    <3>1. a \in Expand(t) <=> start <= a /\ a <= q * o + last
      BY <2>1, <2>3, <2>4, <2>6
    <3>2. a \in Expand(t) <=> start <= a /\ a \div o = q /\ a % o <= last
      BY <2>9, <3>1
    <3> QED
      BY <2>5, <2>7, <3>2
  <2>11. Expand(t) \subseteq Nat
    BY <2>3, <2>4, <2>6
  <2> QED
    BY <1>1, <2>10, <2>11
<1>5. CASE t \in [kind : {"single"}, address : AddressSpace]
  <2>1. t.kind = "single" /\ t.address \in AddressSpace
    BY <1>5
  <2> QED
    BY <2>1 DEF Expand, Meant
<1> QED
  BY <1>2, <1>3, <1>4, <1>5 DEF ReadTargets

-----------------------------------------------------------------------------
(* The scan of a subnet.                                                    *)

\* A scan runs over what was accepted, a list that follows a scan shows what
\* that scan found, and until the user has named one there is no target.
OffersOf(st, t, list) ==
    /\ st = "scanning" => Expand(t) # {} /\ Cardinality(Expand(t)) <= MaxHosts
    /\ st = "pick" /\ t # NoTarget => Expand(t) # {} /\ list \subseteq Expand(t)
    /\ st \in {"user", "discovering", "discovered", "fallback"} => t = NoTarget

OffersInv == \A f \in Flows : OffersOf(step[f], target[f], offered[f])

LEMMA OffersInvInit == Init => OffersInv
  BY DEF Init, OffersInv, OffersOf

\* A step of one dialog leaves the others alone.
LEMMA DialogSteps ==
    ASSUME TypeOK, OffersInv, NEW f \in Flows, NEW st, NEW t, NEW list,
           step' = [step EXCEPT ![f] = st],
           target' = [target EXCEPT ![f] = t],
           offered' = [offered EXCEPT ![f] = list],
           OffersOf(st, t, list)
    PROVE  OffersInv'
<1>1. ASSUME NEW g \in Flows PROVE OffersOf(step[g]', target[g]', offered[g]')
  <2>1. CASE g = f
    <3>1. step'[g] = st /\ target'[g] = t /\ offered'[g] = list
      BY <2>1 DEF TypeOK
    <3> QED
      BY <3>1
  <2>2. CASE g # f
    <3>1. step'[g] = step[g] /\ target'[g] = target[g] /\ offered'[g] = offered[g]
      BY <2>2 DEF TypeOK
    <3> QED
      BY <3>1 DEF OffersInv
  <2> QED
    BY <2>1, <2>2
<1> QED
  BY <1>1 DEF OffersInv, OffersOf

\* The same of a step that goes on without a new target or list.
LEMMA DialogGoesOn ==
    ASSUME TypeOK, OffersInv, NEW f \in Flows, NEW st, Go(f, st),
           UNCHANGED <<target, offered>>, OffersOf(st, target[f], offered[f])
    PROVE  OffersInv'
<1>1. target' = [target EXCEPT ![f] = target[f]] /\ offered' = [offered EXCEPT ![f] = offered[f]]
  BY DEF TypeOK
<1> QED
  BY <1>1, DialogSteps DEF Go

LEMMA ScanOffers ==
    ASSUME TypeOK, OffersInv, NEW f \in Flows, NEW hosts, Scanned(f, hosts), NEW st,
           Go(f, st), UNCHANGED target,
           \A list \in SUBSET hosts : (list # {} <=> offered'[f] # {}) =>
               OffersOf(st, target[f], list)
    PROVE  OffersInv'
<1>1. PICK list \in SUBSET hosts : offered' = [offered EXCEPT ![f] = list]
  BY DEF Scanned
<1>2. offered'[f] = list
  BY <1>1 DEF TypeOK
<1>3. target' = [target EXCEPT ![f] = target[f]]
  BY DEF TypeOK
<1> QED
  BY <1>1, <1>2, <1>3, DialogSteps DEF Go

LEMMA DialogOffers ==
    ASSUME TypeOK, OffersInv, NEW f \in Flows, Scan(f) \/ Answer(f) \/ Create(f)
    PROVE  OffersInv'
<1>1. OffersOf(step[f], target[f], offered[f])
  BY DEF OffersInv
<1>2. CASE User(f)
  <2>1. PICK st \in {"discovering", "fallback"} : Go(f, st)
    BY <1>2 DEF User
  <2>2. OffersOf(st, target[f], offered[f])
    BY <1>1, <1>2, <2>1 DEF User, OffersOf
  <2> QED
    BY <1>2, <2>1, <2>2, DialogGoesOn DEF User
<1>3. CASE Discovered(f)
  <2> DEFINE st == IF offered'[f] # {} THEN "discovered" ELSE "fallback"
  <2>1. \A list : OffersOf(st, target[f], list)
    BY <1>1, <1>3 DEF Discovered, OffersOf
  <2>2. Scanned(f, Hosts) /\ Go(f, st) /\ UNCHANGED target
    BY <1>3 DEF Discovered
  <2> HIDE DEF st
  <2> QED
    BY <2>1, <2>2, ScanOffers
<1>4. CASE SubnetScanned(f)
  <2> DEFINE st == IF offered'[f] # {} THEN "pick" ELSE "scan_subnet"
             hosts == Expand(target[f])
  <2>1. \A list \in SUBSET hosts : (list # {} <=> offered'[f] # {}) =>
            OffersOf(st, target[f], list)
    BY <1>1, <1>4 DEF SubnetScanned, OffersOf
  <2>2. Scanned(f, hosts) /\ Go(f, st) /\ UNCHANGED target
    BY <1>4 DEF SubnetScanned
  <2> HIDE DEF st, hosts
  <2> QED
    BY <2>1, <2>2, ScanOffers
<1>5. CASE Choose(f)
  <2>1. PICK st \in {"pick", "scan_subnet", "manual"} : Go(f, st)
    BY <1>5 DEF Choose
  <2>2. OffersOf(st, target[f], offered[f])
    BY <1>1, <1>5, <2>1 DEF Choose, OffersOf
  <2> QED
    BY <1>5, <2>1, <2>2, DialogGoesOn DEF Choose
<1>6. CASE ScanSubnet(f)
  <2>1. PICK t \in Targets : /\ Expand(t) # {} /\ Cardinality(Expand(t)) <= MaxHosts
                             /\ target' = [target EXCEPT ![f] = t]
    BY <1>6 DEF ScanSubnet
  <2>2. offered' = [offered EXCEPT ![f] = offered[f]]
    BY <1>6 DEF ScanSubnet, TypeOK
  <2>3. OffersOf("scanning", t, offered[f])
    BY <2>1 DEF OffersOf
  <2> QED
    BY <1>6, <2>1, <2>2, <2>3, DialogSteps DEF ScanSubnet, Go
<1>7. CASE Pick(f) \/ Manual(f)
  <2>1. PICK hosts : Take(f, hosts)
    BY <1>7 DEF Pick, Manual
  <2>2. offered' = [offered EXCEPT ![f] = offered[f]]
    BY <2>1 DEF Take, TypeOK
  <2>3. OffersOf("credentials", NoTarget, offered[f])
    BY DEF OffersOf
  <2> QED
    BY <2>1, <2>2, <2>3, DialogSteps DEF Take, Go
<1>8. CASE Credentials(f) \/ ValidationRaises(f) \/ Validated(f) \/ FanOut(f)
  <2>1. \E st \in {"validating", "credentials", "create", "finish"} : Go(f, st)
    BY <1>8 DEF Credentials, ValidationRaises, Validated, FanOut
  <2>2. PICK st \in {"validating", "credentials", "create", "finish"} : Go(f, st)
    BY <2>1
  <2>3. OffersOf(st, target[f], offered[f])
    BY <2>2 DEF OffersOf
  <2>4. UNCHANGED <<target, offered>>
    BY <1>8 DEF Credentials, ValidationRaises, Validated, FanOut
  <2> QED
    BY <2>2, <2>3, <2>4, DialogGoesOn
<1>9. CASE Finish(f)
  BY <1>9, DialogSteps DEF Finish, Close, Go, OffersOf
<1> QED
  BY <1>2, <1>3, <1>4, <1>5, <1>6, <1>7, <1>8, <1>9 DEF Scan, Answer, Create

LEMMA OffersInvStep == TypeOK /\ OffersInv /\ [Next]_vars => OffersInv'
<1> SUFFICES ASSUME TypeOK, OffersInv, [Next]_vars PROVE OffersInv'
  OBVIOUS
<1>1. ASSUME NEW f \in Flows, CloseDialog(f) PROVE OffersInv'
  BY <1>1, DialogSteps DEF CloseDialog, Close, Go, OffersOf
<1>2. CASE UNCHANGED flowVars
  BY <1>2 DEF flowVars, OffersInv, OffersOf
<1>3. CASE Import \/ RemoveEntry \/ \E h \in Hosts, p \in Pdus \cup {None} : Move(h, p)
  BY <1>2, <1>3 DEF Import, RemoveEntry, Move
<1>4. CASE UNCHANGED vars
  BY <1>2, <1>4 DEF vars
<1> QED
  BY <1>1, <1>3, <1>4, DialogOffers DEF Next

\* Only hosts that the user meant are offered after the scan of a subnet, and no
\* scan is started of more than may be scanned (config_flow.py,
\* async_step_scan_subnet; discovery.py, parse_scan_targets).
THEOREM OnlyMeantOffered == Spec => []OffersAsMeant
<1>1. TypeOK /\ OffersInv => OffersAsMeant
  <2> SUFFICES ASSUME TypeOK, OffersInv, NEW f \in Flows
               PROVE  /\ step[f] = "pick" /\ target[f] # NoTarget =>
                            \A h \in offered[f] : Meant(target[f], h)
                      /\ step[f] = "scanning" =>
                            Cardinality({h \in AddressSpace : Meant(target[f], h)}) <= MaxHosts
    BY DEF OffersAsMeant
  <2>1. OffersOf(step[f], target[f], offered[f])
    BY DEF OffersInv
  <2>2. target[f] # NoTarget => target[f] \in ReadTargets
    BY FlowAssumption DEF TypeOK
  <2>3. step[f] = "scanning" => target[f] # NoTarget
    BY DEF TypeOK
  <2>4. target[f] # NoTarget /\ Expand(target[f]) # {} =>
            Expand(target[f]) = {h \in AddressSpace : Meant(target[f], h)}
    BY <2>2, ExpandedAsMeant
  <2> QED
    BY <2>1, <2>3, <2>4 DEF OffersOf
<1>2. Spec => []OffersInv
  <2>1. FlowInv => TypeOK
    BY DEF FlowInv, TypeAndBound
  <2> QED
    BY <2>1, FlowInvHolds, OffersInvInit, OffersInvStep, PTL DEF Spec
<1> QED
  BY <1>1, <1>2, FlowTypes, PTL
=============================================================================
