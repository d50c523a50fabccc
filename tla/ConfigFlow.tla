----------------------------- MODULE ConfigFlow -----------------------------
(***************************************************************************)
(* Dialogs that add PDUs (config_flow.py): the automatic scan, the scan of *)
(* a subnet, manual entry, the credentials, the validation of every host   *)
(* and the entries made of the valid ones, the first by the dialog itself  *)
(* and each other by an import task.  Several dialogs may be open at once. *)
(*                                                                         *)
(* A PDU stands for its unique id; it may be reached at several hosts (a   *)
(* name and an address).  Forms are answered in any way the form allows.   *)
(***************************************************************************)
EXTENDS FiniteSets, ScanTargets

CONSTANTS
    Flows,         \* the dialogs
    Hosts,         \* the addresses of some PDUs
    Targets,       \* what users enter to have scanned (see ScanTargets)
    NoTarget,
    MaxHosts,      \* MAX_DISCOVERY_HOSTS
    Pdus,
    None,          \* no PDU
    Anonymous,     \* the PDUs that report neither serial nor MAC
    MaxTroubles,   \* bound: lost answers, failed scans, PDUs that move
    MaxRemoved     \* bound: entries that the user removes

ASSUME FlowAssumption ==
    /\ None \notin Pdus
    /\ Anonymous \subseteq Pdus
    /\ Hosts \subseteq AddressSpace
    /\ Targets \subseteq ReadTargets /\ NoTarget \notin Targets
    /\ MaxHosts \in Nat
    /\ MaxTroubles \in Nat /\ MaxRemoved \in Nat

VARIABLES
    step,      \* what each dialog shows or does
    target,    \* _scan_hosts, as the user put it
    offered,   \* _discovered
    chosen,    \* _hosts
    valid,     \* what validation found out: pairs of a host and its PDU
    entries,   \* the config entries: pairs of a unique id and a host
    imports,   \* the import tasks not yet run: such pairs, of a dialog
    reach,     \* reach[h]: the PDU that answers at host h
    troubles, removed    \* what the bounds count

flowVars == <<step, target, offered, chosen, valid>>
vars == <<flowVars, entries, imports, reach, troubles, removed>>

\* The steps at which a dialog waits for its user.
Forms == {"discovered", "fallback", "pick", "scan_subnet", "manual", "credentials"}
Steps == Forms \cup {"user", "discovering", "scanning", "validating", "create",
                     "finish", "closed"}

TypeOK ==
    /\ step \in [Flows -> Steps]
    /\ target \in [Flows -> Targets \cup {NoTarget}]
    /\ \A f \in Flows : step[f] = "scanning" => target[f] # NoTarget
    /\ offered \in [Flows -> SUBSET Hosts]
    /\ chosen \in [Flows -> SUBSET Hosts]
    /\ valid \in [Flows -> SUBSET (Hosts \X Pdus)]
    /\ entries \in SUBSET (Pdus \X Hosts)
    /\ imports \in SUBSET (Flows \X Pdus \X Hosts)
    /\ reach \in [Hosts -> Pdus \cup {None}]
    /\ \A f \in Flows : step[f] \in {"credentials", "validating"} => chosen[f] # {}

Init ==
    /\ step = [f \in Flows |-> "user"]
    /\ target = [f \in Flows |-> NoTarget]
    /\ offered = [f \in Flows |-> {}]
    /\ chosen = [f \in Flows |-> {}]
    /\ valid = [f \in Flows |-> {}]
    /\ entries = {} /\ imports = {}
    /\ reach \in [Hosts -> Pdus \cup {None}]
    /\ troubles = 0 /\ removed = 0

Go(f, s) == step' = [step EXCEPT ![f] = s]
Trouble == troubles < MaxTroubles /\ troubles' = troubles + 1

-----------------------------------------------------------------------------
(* The environment.                                                         *)

Move(h, p) ==
    /\ Trouble
    /\ p # reach[h]
    /\ reach' = [reach EXCEPT ![h] = p]
    /\ UNCHANGED <<flowVars, entries, imports, removed>>

RemoveEntry ==
    /\ removed < MaxRemoved /\ removed' = removed + 1
    /\ \E e \in entries : entries' = entries \ {e}
    /\ UNCHANGED <<flowVars, imports, reach, troubles>>

\* A dialog ends, and what it knew goes with it.
Close(f) ==
    /\ Go(f, "closed")
    /\ target' = [target EXCEPT ![f] = NoTarget]
    /\ offered' = [offered EXCEPT ![f] = {}]
    /\ chosen' = [chosen EXCEPT ![f] = {}]
    /\ valid' = [valid EXCEPT ![f] = {}]

\* A dialog may be closed when it waits for its user or shows its progress.
CloseDialog(f) ==
    /\ step[f] \in Forms \cup {"discovering", "scanning"}
    /\ Close(f)
    /\ UNCHANGED <<entries, imports, reach, troubles, removed>>

-----------------------------------------------------------------------------
(* async_step_user, async_step_scan_run.                                    *)

\* Whether there are networks to scan depends on Home Assistant's adapters.
User(f) ==
    /\ step[f] = "user"
    /\ \E s \in {"discovering", "fallback"} : Go(f, s)
    /\ UNCHANGED <<target, offered, chosen, valid, entries, imports, reach,
                   troubles, removed>>

\* What a scan may return: the hosts where a PDU answers.
Answering == {h \in Hosts : reach[h] # None}

NotConfigured(h) == reach[h] \in Anonymous \/ \A e \in entries : e[1] # reach[h]

\* The scan of some hosts is over: what it found goes to the list, without the
\* PDUs that are configured.  A failed scan has found nothing.
Scanned(f, hosts) ==
    \/ /\ \E lost \in SUBSET (Answering \cap hosts) :
             /\ offered' = [offered EXCEPT ![f] =
                              {h \in (Answering \cap hosts) \ lost : NotConfigured(h)}]
             /\ IF lost = {} THEN troubles' = troubles ELSE Trouble
    \/ /\ Trouble
       /\ offered' = [offered EXCEPT ![f] = {}]

Discovered(f) ==
    /\ step[f] = "discovering"
    /\ Scanned(f, Hosts)
    /\ Go(f, IF offered'[f] # {} THEN "discovered" ELSE "fallback")
    /\ UNCHANGED <<target, chosen, valid, entries, imports, reach, removed>>

SubnetScanned(f) ==
    /\ step[f] = "scanning"
    /\ Scanned(f, Expand(target[f]))
    /\ Go(f, IF offered'[f] # {} THEN "pick" ELSE "scan_subnet")
    /\ UNCHANGED <<target, chosen, valid, entries, imports, reach, removed>>

-----------------------------------------------------------------------------
(* The menus and forms.  Input that the form refuses shows it again.        *)

Choose(f) ==
    /\ \/ step[f] = "discovered" /\ \E s \in {"pick", "scan_subnet", "manual"} : Go(f, s)
       \/ step[f] = "fallback" /\ \E s \in {"scan_subnet", "manual"} : Go(f, s)
    /\ UNCHANGED <<target, offered, chosen, valid, entries, imports, reach,
                   troubles, removed>>

\* A target that can be parsed and is small enough.
ScanSubnet(f) ==
    /\ step[f] = "scan_subnet"
    /\ \E t \in Targets :
          /\ Expand(t) # {} /\ Cardinality(Expand(t)) <= MaxHosts
          /\ target' = [target EXCEPT ![f] = t]
    /\ Go(f, "scanning")
    /\ UNCHANGED <<offered, chosen, valid, entries, imports, reach, troubles, removed>>

TakeAny(f, hosts) ==
    /\ chosen' = [chosen EXCEPT ![f] = hosts]
    /\ Go(f, "credentials")
    /\ UNCHANGED <<target, offered, valid, entries, imports, reach, troubles, removed>>

\* Hosts ticked in the list, or entered by hand; at least one.
Take(f, hosts) ==
    /\ hosts # {}
    /\ target' = [target EXCEPT ![f] = NoTarget]
    /\ chosen' = [chosen EXCEPT ![f] = hosts]
    /\ Go(f, "credentials")
    /\ UNCHANGED <<offered, valid, entries, imports, reach, troubles, removed>>

Pick(f) == step[f] = "pick" /\ \E hosts \in SUBSET offered[f] : Take(f, hosts)

Manual(f) == step[f] = "manual" /\ \E hosts \in SUBSET Hosts : Take(f, hosts)

Credentials(f) ==
    /\ step[f] = "credentials"
    /\ Go(f, "validating")
    /\ UNCHANGED <<target, offered, chosen, valid, entries, imports, reach, troubles, removed>>

-----------------------------------------------------------------------------
(* _async_create_for_hosts.                                                 *)

\* _validate, of hosts that answer: a PDU without serial and MAC has no identity.
Identities(hosts) ==
    {<<h, reach[h]>> : h \in {g \in hosts : reach[g] \notin Anonymous}}

ValidatedMisaligned(f) ==
    /\ step[f] = "validating"
    /\ \E lost \in SUBSET (chosen[f] \cap Answering) :
          /\ IF lost = {} THEN troubles' = troubles ELSE Trouble
          /\ \E first \in chosen[f] :
                valid' = [valid EXCEPT ![f] =
                    {<<first, reach[h]>> : h \in {g \in (chosen[f] \cap Answering) \ lost :
                                                   reach[g] \notin Anonymous}}]
    /\ Go(f, IF valid'[f] = {} THEN "credentials" ELSE "create")
    /\ UNCHANGED <<target, offered, chosen, entries, imports, reach, removed>>

\* Every host has been asked for its identity.  Hosts without a PDU, or whose
\* PDU says nothing that identifies it, are left out; with none left the form
\* comes again.
Validated(f) ==
    /\ step[f] = "validating"
    /\ \E lost \in SUBSET (chosen[f] \cap Answering) :
          /\ IF lost = {} THEN troubles' = troubles ELSE Trouble
          /\ valid' = [valid EXCEPT ![f] = Identities((chosen[f] \cap Answering) \ lost)]
    /\ Go(f, IF valid'[f] = {} THEN "credentials" ELSE "create")
    /\ UNCHANGED <<target, offered, chosen, entries, imports, reach, removed>>

\* An error other than CannotConnect and NotCyberPower leaves gather(): the
\* request fails for all hosts, and the form stays.
ValidationRaises(f) ==
    /\ step[f] = "validating"
    /\ Trouble
    /\ Go(f, "credentials")
    /\ UNCHANGED <<target, offered, chosen, valid, entries, imports, reach, removed>>

\* The first valid host is left to the dialog itself, every other one to an
\* import task, which may run at once or after the dialog has finished.
FanOutFromThird(f) ==
    /\ step[f] = "create"
    /\ \E v \in valid[f] :
          /\ valid' = [valid EXCEPT ![f] = {v}]
          /\ \E w \in valid[f] :
                imports' = imports \cup {<<f, u[2], u[1]>> : u \in valid[f] \ {v, w}}
    /\ Go(f, "finish")
    /\ UNCHANGED <<target, offered, chosen, entries, reach, troubles, removed>>

FanOut(f) ==
    /\ step[f] = "create"
    /\ \E v \in valid[f] :
          /\ valid' = [valid EXCEPT ![f] = {v}]
          /\ imports' = imports \cup {<<f, u[2], u[1]>> : u \in valid[f] \ {v}}
    /\ Go(f, "finish")
    /\ UNCHANGED <<target, offered, chosen, entries, reach, troubles, removed>>

\* async_set_unique_id and _abort_if_unique_id_configured: an entry with this
\* identity gets the host, otherwise a new entry is made.
AddEntryForHost(p, h) ==
    IF \E e \in entries : e = <<p, h>>
    THEN entries' = entries
    ELSE entries' = entries \cup {<<p, h>>}

AddEntry(p, h) ==
    LET same == {e \in entries : e[1] = p} IN
    IF same # {} THEN entries' = (entries \ same) \cup {<<p, h>>}
    ELSE entries' = entries \cup {<<p, h>>}

Finish(f) ==
    /\ step[f] = "finish"
    /\ \E v \in valid[f] : AddEntry(v[2], v[1])
    /\ Close(f)
    /\ UNCHANGED <<imports, reach, troubles, removed>>

Import ==
    /\ \E i \in imports : AddEntry(i[2], i[3]) /\ imports' = imports \ {i}
    /\ UNCHANGED <<flowVars, reach, troubles, removed>>

-----------------------------------------------------------------------------

Scan(f) == User(f) \/ Discovered(f) \/ SubnetScanned(f)
Answer(f) == Choose(f) \/ ScanSubnet(f) \/ Pick(f) \/ Manual(f) \/ Credentials(f)
Create(f) == Validated(f) \/ ValidationRaises(f) \/ FanOut(f) \/ Finish(f)

Next ==
    \/ \E f \in Flows : Scan(f) \/ Answer(f) \/ Create(f) \/ CloseDialog(f)
    \/ Import
    \/ RemoveEntry
    \/ \E h \in Hosts, p \in Pdus \cup {None} : Move(h, p)

\* The event loop runs scans, validations and imports; the user does as he likes.
Spec ==
    /\ Init /\ [][Next]_vars
    /\ \A f \in Flows : WF_vars(Scan(f)) /\ WF_vars(Create(f))
    /\ WF_vars(Import)

-----------------------------------------------------------------------------
(* Properties.                                                              *)

\* "The same unit is never added twice" (README.md): whatever dialogs, imports
\* and hosts lead to it, there is one entry for a PDU.
OneEntryPerPdu == \A d, e \in entries : d[1] = e[1] => d = e

\* An entry is for the PDU that answered at its host: no host is mistaken for
\* another on the way from the dialog's list to the entry.
EntriesAtTheirPdu ==
    troubles = 0 => \A e \in entries : reach[e[2]] = e[1]

\* "Scan a specific subnet" (README.md): only hosts that the user meant are
\* offered, and no scan of more than a /22 is started (const.py).
OffersAsMeant ==
    \A f \in Flows :
        /\ step[f] = "pick" /\ target[f] # NoTarget =>
              \A h \in offered[f] : Meant(target[f], h)
        /\ step[f] = "scanning" =>
              Cardinality({h \in AddressSpace : Meant(target[f], h)}) <= MaxHosts

\* For the entries, dialogs and imports, in whatever order they run, behave
\* like EntryRegistry: pairs are found, and entered one by one.
Pending ==
    {<<i[2], i[3]>> : i \in imports}
        \cup UNION {{<<v[2], v[1]>> : v \in valid[f]} :
                     f \in {g \in Flows : step[g] \in {"create", "finish"}}}

Registered == {e[1] : e \in entries}

HostOf == [p \in Registered |-> (CHOOSE e \in entries : e[1] = p)[2]]

Registry == INSTANCE EntryRegistry WITH Ids <- Pdus, pending <- Pending, hostOf <- HostOf
ImplementsRegistry == Registry!Spec

\* Every PDU that validation found comes to have an entry, also when the dialog
\* itself ends as "already configured" and when imports overtake one another.
ValidOnesAdded ==
    \A p \in Pdus \ Anonymous : (\E i \in Pending : i[1] = p) ~> p \in Registered
=============================================================================
