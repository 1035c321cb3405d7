-------------------------------- MODULE Ipam --------------------------------
(***************************************************************************)
(* The IP address management of the SLS scripts: sls_utils/ipam.py, and    *)
(* what sls_utils/Networks.py and Reservations.py make of a subnet of SLS. *)
(*                                                                         *)
(* An IPv4 address is its offset in a range that holds the networks of     *)
(* interest; a block is an aligned range with its prefix length.  A subnet *)
(* is a record of its block, gateway, DHCP range and reservations; both a  *)
(* Python dict and a list of SLS are sequences, for IPs are handed out in  *)
(* that order.                                                             *)
(***************************************************************************)
EXTENDS Integers, Sequences, FiniteSets, SequencesExt, FiniteSetsExt, Functions

Nil == -1                         \* Python's None
NoRange == <<Nil, Nil>>

\* ipaddress.IPv4Network.
Cidr(n, p)  == [base |-> n, len |-> p]
Size(b)      == 2^(32 - b.len)
Addresses(b) == b.base .. b.base + Size(b) - 1
hosts(b)     == IF b.len >= 31 THEN Addresses(b)
                ELSE b.base + 1 .. b.base + Size(b) - 2
subnet_of(a, b) == a.len >= b.len /\ a.base \in Addresses(b)
overlaps(a, b)  == subnet_of(a, b) \/ subnet_of(b, a)
IsBlock(b) == /\ b = Cidr(b.base, b.len) /\ b.len \in 0..32
              /\ b.base \in Nat /\ b.base % Size(b) = 0
Halves(b) == <<Cidr(b.base, b.len + 1), Cidr(b.base + Size(b) \div 2, b.len + 1)>>
FirstOf(b, p)   == Cidr(b.base, p)        \* list(b.subnets(p - b.len))[0]
Around(a, p)    == Cidr(a - (a % 2^(32 - p)), p)
Sibling(b) == Cidr(IF (b.base \div Size(b)) % 2 = 0 THEN b.base + Size(b) ELSE b.base - Size(b),
                    b.len)

\* Mutant: the largest of them is left out.
address_excludeAllButHalf(b, u) == {Sibling(Around(u.base, p)) : p \in b.len + 2 .. u.len}
\* What is left of b around its part u: the sibling of every block between them.
address_exclude(b, u) == {Sibling(Around(u.base, p)) : p \in b.len + 1 .. u.len}

\* The smallest block for n hosts (fewer than 2^30); its network and broadcast
\* addresses are counted, its gateway is not.
prefixlength_from_hosts(n) == Max({0} \cup {p \in 2..31 : 2^(32 - p) >= n + 2})

-----------------------------------------------------------------------------
(* Subnets.                                                                *)

\* The elements of a list that are in a set, in their order.  (A fold, because the
\* provers know nothing of SelectSeq.)
Those(list, S) == FoldLeft(LAMBDA l, x : IF x \in S THEN Append(l, x) ELSE l, <<>>, list)

\* Python dicts: an entry keeps its place when its key is there already.
Has(dict, k) == \E i \in DOMAIN dict : dict[i].key = k
Get(dict, k) == Those(dict, {r \in ToSet(dict) : r.key = k})[1]
Put(dict, r) == IF Has(dict, r.key)
                THEN [i \in DOMAIN dict |-> IF dict[i].key = r.key THEN r ELSE dict[i]]
                ELSE Append(dict, r)
Without(dict, keys) == Those(dict, {r \in ToSet(dict) : r.key \notin keys})
ByName(r) == [r EXCEPT !.key = r.name]
Keyed(list) == FoldLeft(LAMBDA dict, r : Put(dict, ByName(r)), <<>>, list)

Reservation(n, i) == [key |-> n, name |-> n, ip |-> i]
Ips(s) == {s.reservations[i].ip : i \in DOMAIN s.reservations}

\* Subnet.to_sls: a range with one end is not written, and no dict's keys are.
Whole(range) == IF Nil \in ToSet(range) THEN NoRange ELSE range
SubnetToSls(s) ==
    [s EXCEPT !.dhcp = Whole(@), !.range = Whole(@), !.key = s.name,
              !.reservations = [i \in DOMAIN s.reservations |-> ByName(s.reservations[i])]]
subnet_from_sls_data(d) == [d EXCEPT !.key = d.name, !.reservations = Keyed(@)]
Clone(s) == subnet_from_sls_data(SubnetToSls(s))

-----------------------------------------------------------------------------
(* Free addresses and free blocks.                                         *)

\* Mutant: the gateway is not excluded.
free_ipv4_addressesGateway(s) == hosts(s.cidr) \ Ips(s)
free_ipv4_addresses(s) == hosts(s.cidr) \ (Ips(s) \cup {s.gateway})
\* Nil is the IndexError of both when no address is free.
next_free_ipv4_address(s) ==
    LET free == free_ipv4_addresses(s) IN IF free = {} THEN Nil ELSE Min(free)
last_free_ipv4_address(s) == Max(free_ipv4_addresses(s) \cup {Nil})

\* The block that a subnet with the prefix of its network had before the
\* supernet hack, guessed from the addresses in use; the subnet's own when none
\* is found, or where cray-site-init does not apply the hack.
HackPrefix == [name \in {<<"bootstrap_dhcp">>, <<"network_hardware">>, <<"can", "metallb_static_pool">>,
                          <<"can", "metallb_address_pool">>} |->
    CASE name = <<"can", "metallb_static_pool">> -> 28
      [] name = <<"can", "metallb_address_pool">> -> 27
      [] OTHER -> 24]
is_supernet_hacked(network, s) ==
    LET used == (Ips(s) \cup ToSet(s.dhcp)) \ {Nil}
        fit == {p \in network.len + 1 .. HackPrefix[s.name] :
                    used \subseteq Addresses(Around(Min(used), p)) \cap Addresses(network)}
    IN  IF s.cidr.len # network.len \/ used = {} \/ s.name \notin DOMAIN HackPrefix \/ fit = {}
        THEN s.cidr ELSE Around(Min(used), Max(fit))

\* free_ipv4_subnets: the used blocks are cut out of the network one by one;
\* a block that is in none of those that are left raises an exception.
Raised == Cidr(Nil, 32)
CutOut(free, u) ==
    LET around == {b \in free : b # Raised /\ subnet_of(u, b)}
    IN  (free \ around) \cup (UNION {address_exclude(b, u) : b \in around})
                        \cup {x \in {Raised} : around = {}}
free_ipv4_subnets(network, subnets) ==
    FoldLeft(LAMBDA free, s : CutOut(free, is_supernet_hacked(network, s)),
             {network}, subnets)

-----------------------------------------------------------------------------
(* Names are sequences of words; str.replace replaces one word by others.  *)

Renamed(name, w, by) == FlattenSeq([i \in DOMAIN name |-> IF name[i] = w THEN by ELSE <<name[i]>>])
NamesReplaced(reservations, w, by) ==
    [i \in DOMAIN reservations |-> [reservations[i] EXCEPT !.name = Renamed(@, w, by)]]
=============================================================================
