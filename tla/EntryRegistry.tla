--------------------------- MODULE EntryRegistry ---------------------------
(***************************************************************************)
(* What adding PDUs promises, without dialogs, forms, scans or imports:    *)
(* identities that were found at a host are entered one by one.  A new     *)
(* identity gets an entry, a known one gets its host changed, no other     *)
(* entry is touched, and what was found stays pending until it is entered. *)
(***************************************************************************)
CONSTANTS Ids, Hosts

VARIABLES
    pending,   \* pairs of an identity and the host where it was found
    hostOf     \* hostOf[i]: the host of the entry of identity i

registryVars == <<pending, hostOf>>

Init == pending = {} /\ hostOf = [i \in {} |-> {}]

Find(found) == pending' = pending \cup found /\ UNCHANGED hostOf

\* The same pair may be pending twice: then it stays.
Enter(i, h) ==
    /\ <<i, h>> \in pending
    /\ pending' \in {pending, pending \ {<<i, h>>}}
    /\ hostOf' = [j \in DOMAIN hostOf \cup {i} |-> IF j = i THEN h ELSE hostOf[j]]

Forget(i) ==
    /\ hostOf' = [j \in DOMAIN hostOf \ {i} |-> hostOf[j]]
    /\ UNCHANGED pending

Next ==
    \/ \E found \in SUBSET (Ids \X Hosts) : Find(found)
    \/ \E i \in Ids, h \in Hosts : Enter(i, h)
    \/ \E i \in Ids : Forget(i)

Spec == Init /\ [][Next]_registryVars
=============================================================================
