------------------------------ MODULE CanToChn ------------------------------
(***************************************************************************)
(* can_to_chn/: the scripts and the procedure (chn_enable.md) that take    *)
(* the users of an upgraded system from the CAN to the CHN.  SLS is dumped *)
(* once; every script makes a new file of an earlier one, and files are    *)
(* loaded into SLS, in an order the administrator is told to keep.         *)
(*                                                                         *)
(* sls_can_to_chn.py makes the CHN and points BICAN to it,                 *)
(* add_computes_to_chn.py gives the nodes of the HSN addresses of it,      *)
(* sls_del_can.py removes the CAN, and bss_remove_can.py does so in BSS.   *)
(*                                                                         *)
(* Nobody else changes SLS meanwhile (what they changed would be lost: the *)
(* files all come of the first dump).  The CHN that CSM 1.2 was upgraded   *)
(* with is taken as it is.                                                 *)
(***************************************************************************)
EXTENDS SlsUpgrade

CONSTANTS
    ChnBlocks,      \* blocks of addresses for the CHN
    HsnInterface,   \* HsnInterface[x]: which interface of its node is x, "h0" to "h3"
    HsnReservations,\* possible reservations of the HSN
    BssHosts        \* possible entries of the boot parameters

ASSUME ChnBlocksAssumption == \A block \in ChnBlocks : block.base \in Nat
ASSUME HsnReservationsAssumption ==
    \A rs \in HsnReservations : rs \in Seq(ToSet(rs)) /\ \A r \in ToSet(rs) : r = Reservation(r.name, r.ip)

VARIABLES
    chnSls,         \* the networks in SLS
    chnFiles,       \* the files that the procedure made
    chnPc,          \* what the procedure does next
    bssHost         \* the entry of the boot parameters, as written last

chnVars == <<chnSls, chnFiles, chnPc, bssHost>>

NoFile == [n \in SlsNetwork |-> NoNetwork]
ChnFile == {"dump", "chn", "computes", "noCan"}
HsnBase == <<"hsn_base_subnet">>
Interfaces(s, which) == {r.name : r \in {q \in ToSet(s.reservations) :
                                            q.name \in DOMAIN HsnInterface /\ HsnInterface[q.name] \in which}}
Loaded(file) == [n \in SlsNetwork |-> network_from_sls_data(chnFiles[file][n])]
HasSubnet(nets, n, k) == Has(nets[n].subnets, k)

ChnInit == /\ chnSls = NoFile /\ chnFiles = [f \in ChnFile |-> NoFile]
           /\ chnPc = "idle" /\ bssHost = [ipam |-> {}, ntp |-> <<>>, host_records |-> <<>>]

\* A script reads one file and writes another; when it fails none is written.
Makes(file, nets) == /\ chnFiles' = [chnFiles EXCEPT ![file] = NetworksToSls(nets)]
                     /\ UNCHANGED <<chnSls, bssHost>>
LoadFile(file) == /\ chnSls' = chnFiles[file]
                  /\ UNCHANGED <<chnFiles, bssHost>>

\* sls_can_to_chn.py.  Masters and storage nodes get no address of the CHN, and
\* MetalLB has the upper half of it.
chn_network(nets, block, edge) ==
    LET gone == {n \in UNION {{r.key : r \in ToSet(s.reservations)} : s \in SubnetsOf(nets["CAN"])} :
                     n[1] \in {"ncn-m001", "ncn-s001"}}
    IN  Chn(nets["CAN"], block, 5, edge, gone, <<Halves(block)[2]>>)
OverlapsOthers(nets, block) == \E n \in {"CAN", "CMN"} : overlaps(nets[n].cidr, block)
remove_uai_nmn_dhcp_ranges(nets) ==
    [nets EXCEPT !["NMN"] = OnSubnet(@, Uai, LAMBDA s : [s EXCEPT !.dhcp = NoRange])]
create_metallb_pool(net) ==
    [OnSubnets(net, LAMBDA s : IF s.name = Pool("chn") THEN [s EXCEPT !.pool = s.name] ELSE s)
        EXCEPT !.bgp = TRUE]
SlsCanToChn ==
    /\ chnPc = "chn"
    /\ \E block \in ChnBlocks, edge \in {1, 2} :
        LET nets == Loaded("dump")
            chn  == IF nets["CHN"] # NoNetwork THEN nets["CHN"]
                    ELSE create_metallb_pool(chn_network(nets, block, edge))
        IN  IF \/ OverlapsOthers(nets, block)
               \/ nets["CHN"] = NoNetwork /\ ChnFails(chn)
            THEN chnPc' = "failed" /\ UNCHANGED <<chnSls, chnFiles, bssHost>>
            ELSE /\ Makes("chn", remove_uai_nmn_dhcp_ranges([nets EXCEPT !["CHN"] = chn, !["BICAN"].route = "CHN"]))
                 /\ chnPc' = "load"
LoadChn == chnPc = "load" /\ LoadFile("chn") /\ chnPc' = "computes"

\* add_computes_to_chn.py: the first interface of every node of the HSN gets the
\* next free address, interfaces that the HSN has no more lose theirs.
\* Mutant: those stay.
RemovedComputesNone(hsn, b) == {}
RemovedComputes(hsn, b) == Interfaces(b, {"h0", "h1", "h2", "h3"}) \ Interfaces(hsn, {"h0"})
AddedComputes(hsn, b)   == Interfaces(hsn, {"h0"}) \ Interfaces(b, {"h0", "h1", "h2", "h3"})
TooSmall(hsn, b) ==
    Size(b.cidr) - (Len(b.reservations) + 1) + Cardinality(RemovedComputes(hsn, b))
        < Cardinality(AddedComputes(hsn, b)) - Cardinality(RemovedComputes(hsn, b))
WithComputes(hsn, b) ==
    LET added == Those(hsn.reservations, {r \in ToSet(hsn.reservations) : r.name \in AddedComputes(hsn, b)})
        all == Addressed([b EXCEPT !.reservations = Without(@, RemovedComputes(hsn, b))], ByNames(added))
    IN  [all EXCEPT !.dhcp[1] = next_free_ipv4_address(all)]
\* The upgraded SLS, with the nodes that were added to the HSN since; it is dumped.
\* A CHN may have addresses for nodes that the HSN had earlier.  The users have the
\* CAN: sls_can_to_chn.py ends with an exception if a rerun of the upgrade removed it.
DumpSls ==
    /\ chnPc = "idle" /\ slsPc = "written" /\ slsFile.nets["BICAN"].route = "CAN" /\ slsFile.nets["CAN"] # NoNetwork
    /\ \E before, now \in HsnReservations :
        LET Hsn(rs) == OnSubnet(slsFile.nets["HSN"], HsnBase, LAMBDA s : [s EXCEPT !.reservations = rs])
            given == OnSubnet(slsFile.nets["CHN"], Bootstrap, LAMBDA s :
                                  WithComputes([reservations |-> before], s))
        IN  /\ \A s \in SubnetsOf(given) : ~IndexError(s)
            /\ chnSls' = [slsFile.nets EXCEPT !["HSN"] = Hsn(now), !["CHN"] = given]
    /\ chnFiles' = [chnFiles EXCEPT !["dump"] = chnSls']
    /\ chnPc' = "chn"
    /\ UNCHANGED bssHost

AddComputes ==
    /\ chnPc = "computes"
    /\ LET nets == Loaded("chn")
           hsn == Get(nets["HSN"].subnets, HsnBase)
           b   == Get(nets["CHN"].subnets, Bootstrap)
           new == WithComputes(hsn, b)
       IN  IF \/ nets["BICAN"].route # "CHN" \/ nets["CHN"] = NoNetwork \/ ~Has(nets["HSN"].subnets, HsnBase)
              \/ TooSmall(hsn, b) \/ IndexError(new) \/ new.dhcp[1] = Nil
           THEN UNCHANGED <<chnSls, chnFiles, bssHost>> /\ chnPc' = "delete"
           ELSE /\ Makes("computes", [nets EXCEPT !["CHN"].subnets = Put(@, new)])
                /\ chnPc' = "load computes"
LoadComputes == chnPc = "load computes" /\ LoadFile("computes") /\ chnPc' = "delete"
SkipComputes == chnPc = "computes" /\ chnPc' = "delete" /\ UNCHANGED <<chnSls, chnFiles, bssHost>>

\* sls_del_can.py, on the file with the computes if there is one, or by mistake on
\* another.
\* Mutant: the CAN may be removed while users have it.
MayDeleteCanAnyway(nets) == TRUE
MayDeleteCan(nets) == nets["CHN"] # NoNetwork /\ (nets["BICAN"] # NoNetwork => nets["BICAN"].route = "CHN")
DeleteCan ==
    /\ chnPc = "delete"
    /\ \E file \in {f \in ChnFile : chnFiles[f] # NoFile} :
        IF MayDeleteCan(Loaded(file))
        THEN Makes("noCan", [Loaded(file) EXCEPT !["CAN"] = NoNetwork]) /\ chnPc' = "load noCan"
        ELSE chnPc' = "failed" /\ UNCHANGED <<chnSls, chnFiles, bssHost>>
LoadNoCan == chnPc = "load noCan" /\ LoadFile("noCan") /\ chnPc' = "bss"

-----------------------------------------------------------------------------
(* bss_remove_can.py.  It removes from the lists that it iterates over: the *)
(* entry after a removed one is not looked at.                              *)

IsCan(entry) == entry.can
FirstRemoved(list, x) ==
    LET i == CHOOSE k \in DOMAIN list : list[k] = x /\ \A j \in 1..k-1 : list[j] # x
    IN  RemoveAt(list, i)
WithoutCan(list) ==
    FoldLeft(LAMBDA l, i : IF i \in DOMAIN l /\ IsCan(l[i]) THEN FirstRemoved(l, l[i]) ELSE l,
             list, [i \in DOMAIN list |-> i])
bss_remove_can(h) ==
    [ipam |-> h.ipam \ {"can"},
     ntp  |-> IF "can" \in h.ipam THEN WithoutCan(h.ntp) ELSE h.ntp,
     host_records |-> WithoutCan(h.host_records)]
DumpBss == /\ chnPc = "bss" /\ bssHost' \in BssHosts
           /\ chnPc' = "bss file" /\ UNCHANGED <<chnSls, chnFiles>>
\* A record with two aliases on the CAN is removed twice: ValueError.
BssRemoveCan ==
    /\ chnPc = "bss file"
    /\ IF \E i \in DOMAIN bssHost.host_records : bssHost.host_records[i].twice
       THEN chnPc' = "failed" /\ UNCHANGED <<chnSls, chnFiles, bssHost>>
       ELSE bssHost' = bss_remove_can(bssHost) /\ chnPc' = "done" /\ UNCHANGED <<chnSls, chnFiles>>

ChnNext == \/ DumpSls \/ SlsCanToChn \/ LoadChn \/ AddComputes \/ LoadComputes \/ SkipComputes
           \/ DeleteCan \/ LoadNoCan \/ DumpBss \/ BssRemoveCan

-----------------------------------------------------------------------------
(* Properties.                                                             *)

ChnTypeOK ==
    /\ chnPc \in {"idle", "chn", "load", "computes", "load computes", "delete", "load noCan", "bss",
                  "bss file", "done", "failed"}
    /\ \A nets \in {chnSls} \cup Range(chnFiles) : \A n \in SlsNetwork :
        \A i \in DOMAIN nets[n].subnets : ~IndexError(nets[n].subnets[i])
    /\ bssHost.ipam \subseteq {"can", "nmn"}

\* In SLS, at every moment, the users have the network that BICAN routes them to.
ChnUserNetworkExists == RouteExists(chnSls)

\* The CHN that a script writes has no address twice; as long as its lower half
\* has room for all reservations, none of them is an address that MetalLB gives out.
ChnAddressesApart ==
    \A f \in {"chn", "computes"} : chnFiles[f] # NoFile =>
        LET chn == chnFiles[f]["CHN"]
            b == Get(chn.subnets, Bootstrap)
        IN  /\ AddressesUnique(chn)
            /\ Len(b.reservations) + 1 < Size(b.cidr) \div 2 =>
                 \A s \in SubnetsOf(chn) : IsPool(s) => Addresses(s.cidr) \cap Ips(b) = {}

\* When add_computes_to_chn.py has written a file, the interfaces with an address
\* of the CHN are the first ones of the nodes of the HSN.
ComputesAdded ==
    chnFiles["computes"] # NoFile =>
        Interfaces(Get(chnFiles["computes"]["CHN"].subnets, Bootstrap), {"h0", "h1", "h2", "h3"})
            = Interfaces(Get(chnFiles["computes"]["HSN"].subnets, HsnBase), {"h0"})

\* A step of bss_remove_can.py: it removes nothing but what belongs to the CAN, and
\* all of that where no two such entries are next to each other.
Adjacent(list) == \E i \in 2..Len(list) : IsCan(list[i - 1]) /\ IsCan(list[i])
Others(list) == SelectSeq(list, LAMBDA e : ~IsCan(e))
BssLosesOnlyCan ==
    chnPc = "bss file" /\ chnPc' = "done" =>
        \A l \in {"ntp", "host_records"} :
            /\ Others(bssHost'[l]) = Others(bssHost[l])
            /\ ~Adjacent(bssHost[l]) /\ "can" \in bssHost.ipam => bssHost'[l] = Others(bssHost[l])
=============================================================================
