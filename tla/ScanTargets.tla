---------------------------- MODULE ScanTargets ----------------------------
(***************************************************************************)
(* What a user may type to have scanned (discovery.py,                     *)
(* parse_scan_targets): a network, a range, a range that shares all but    *)
(* the last octet, or one address.  An address is a number; a target is a  *)
(* record of what the text says.                                           *)
(***************************************************************************)
EXTENDS PowersOfTwo

CONSTANTS
    Width,       \* the bits of an address: 32
    OctetSize    \* the values of its last octet: 256

ASSUME TargetAssumption ==
    Width \in Nat \ {0} /\ OctetSize \in {PowerOfTwo[k] : k \in 0 .. Width}

AddressSpace == 0 .. PowerOfTwo[Width] - 1

\* What can be read as a target: ipaddress has checked addresses and prefixes.
ReadTargets ==
    [kind : {"network"}, address : AddressSpace, prefix : 0 .. Width]
        \cup [kind : {"range"}, address : AddressSpace, end : AddressSpace]
        \cup [kind : {"octets"}, address : AddressSpace, last : Nat]
        \cup [kind : {"single"}, address : AddressSpace]

\* ip_network(text, strict=False) takes any address of the network, and hosts()
\* leaves out the first and the last, except of one or two addresses.
HostsAfterAddress(address, prefix) ==
    LET size == PowerOfTwo[Width - prefix] IN
    IF size <= 2 THEN address .. address + size - 1
    ELSE address + 1 .. address + size - 2

NetworkHosts(address, prefix) ==
    LET size == PowerOfTwo[Width - prefix]
        first == (address \div size) * size IN
    IF size <= 2 THEN first .. first + size - 1
    ELSE first + 1 .. first + size - 2

\* "192.168.3.10-50"
Shorthand(start, last) == start .. (start \div OctetSize) * OctetSize + last

\* The addresses of a target; none for what raises ValueError.
Expand(t) ==
    CASE t.kind = "network" -> NetworkHosts(t.address, t.prefix)
      [] t.kind = "range"   -> t.address .. t.end
      [] t.kind = "octets"  -> IF t.last < OctetSize THEN Shorthand(t.address, t.last)
                               ELSE {}
      [] t.kind = "single"  -> {t.address}

-----------------------------------------------------------------------------

\* What the user means: every address that agrees with the one given in all bits
\* of the prefix (but for its all-zeros and all-ones host), or that lies between
\* the two ends and, in the short form, in their common network.
Meant(t, a) ==
    CASE t.kind = "network" ->
            LET hostBits == 0 .. Width - t.prefix - 1 IN
            /\ \A i \in Width - t.prefix .. Width - 1 : Bit(a, i) = Bit(t.address, i)
            /\ Width - t.prefix > 1 => \E i, j \in hostBits : Bit(a, i) # Bit(a, j)
      [] t.kind = "range"   -> t.address <= a /\ a <= t.end
      [] t.kind = "octets"  -> /\ a \div OctetSize = t.address \div OctetSize
                               /\ t.address <= a /\ a % OctetSize <= t.last
      [] t.kind = "single"  -> a = t.address
=============================================================================
