------------------------------- MODULE Router -------------------------------
(***************************************************************************)
(* The Router of src/router.{hh,cc}: its table, the choice of a route, and *)
(* what becomes of a datagram.  Addresses are numbers of Width bits.       *)
(***************************************************************************)
EXTENDS NetworkInterface

CONSTANTS Width,        \* bits of an address: 32 in the code
          NumInterfaces

\* How many addresses have a prefix of a length in common.
Span[length \in 0 .. Width] == IF length = Width THEN 1 ELSE 2 * Span[length + 1]

ASSUME WidthAssumption == Width \in Nat /\ IPAddresses = 0 .. Span[0] - 1

\* next_hop is Absent for a network the router is attached to.
RouterEntries == [ipv4 : IPAddresses, netmask : 0 .. Width,
                  next_hop : IPAddresses \union {Absent}, interface_idx : 1 .. NumInterfaces]

\* What a shift of a 32-bit number by 32 bits leaves of it: undefined, so a build
\* may have all of them (x86, ARM64) or none.
ZeroShifts == {"unshifted", "cleared"}

(***************************************************************************)
(* The address and the mask of a length: the high-order bits.  The mask is *)
(* 0xFFFFFFFF << (32 - length), undefined for length 0.                    *)
(***************************************************************************)
NetAddr(address, length, zero_shift) ==
    IF length = 0 THEN IF zero_shift = "cleared" THEN 0 ELSE address
    ELSE address - (address % Span[length])

Matches(entry, dst, zero_shift) ==
    NetAddr(entry.ipv4, entry.netmask, zero_shift) = NetAddr(dst, entry.netmask, zero_shift)

\* Wrong choice, for the mutation checks: the last of the entries that match.
LastMatch(router_map, dst, zero_shift) ==
    LET matching == {n \in DOMAIN router_map : Matches(router_map[n], dst, zero_shift)}
    IN  IF matching = {} THEN 0 ELSE CHOOSE n \in matching : \A k \in matching : k <= n

\* The loop over the table: the index of the best match so far, 0 for none.
BestMatch(router_map, dst, zero_shift) ==
    LET best[n \in 0 .. Len(router_map)] ==
            IF n = 0 THEN 0
            ELSE IF /\ Matches(router_map[n], dst, zero_shift)
                    /\ \/ best[n - 1] = 0
                       \/ router_map[n].netmask > router_map[best[n - 1]].netmask
            THEN n ELSE best[n - 1]
    IN  best[Len(router_map)]

\* ttl-- <= 0: the old value is tested, so a datagram may leave with 0.
Expires(d) == d.ttl = 0

\* The TTL is an 8-bit number; the checksum is not recomputed.
Decremented(d) == [d EXCEPT !.ttl = (@ + MaxTTL) % (MaxTTL + 1)]

NextHop(entry, d) == IF entry.next_hop # Absent THEN entry.next_hop ELSE d.dst
=============================================================================
