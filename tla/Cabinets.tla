------------------------------ MODULE Cabinets ------------------------------
(***************************************************************************)
(* add_liquid_cooled_cabinet.py: adds a cabinet to a dump of SLS, with its *)
(* compute nodes and a /22 subnet of each of HMN_MTN and NMN_MTN.  Every   *)
(* check but the first is made on the changed dump, and only a dump that   *)
(* passes all of them is written; one run handles one cabinet, and runs    *)
(* follow each other on the same file.                                     *)
(*                                                                         *)
(* A chassis has NodesPerChassis nodes (32 in the code); the chassis and   *)
(* their controllers come and go with their cabinet.                       *)
(***************************************************************************)
EXTENDS Ipam

CONSTANTS
    CabinetFiles,    \* dumps of SLS
    CabinetCommands, \* command lines
    NodesPerChassis,
    MaxCabinets      \* bound on the cabinets added

VARIABLES
    cabinetFile,     \* the SLS file
    cabinetDump,     \* the file that the first run found
    cabinetsAdded    \* the command lines of the runs that wrote it

cabinetVars == <<cabinetFile, cabinetDump, cabinetsAdded>>

CabinetNetwork == {"HMN_MTN", "NMN_MTN"}
NoMountain == [cidr |-> Raised, subnets |-> <<>>]
IsMountain(net) == /\ net = [cidr |-> net.cidr, subnets |-> net.subnets] /\ net.subnets \in Seq(ToSet(net.subnets))
                   /\ IsBlock(net.cidr) /\ net.cidr.len <= 22
                   /\ \A s \in ToSet(net.subnets) : IsBlock(s.cidr)
SubnetsApart(net) == \A i, j \in DOMAIN net.subnets :
                         i # j => ~overlaps(net.subnets[i].cidr, net.subnets[j].cidr)

\* A dump has networks of at least one cabinet, with their subnets apart.
ASSUME CabinetFilesAssumption ==
    \A file \in CabinetFiles :
        /\ \A n \in CabinetNetwork :
              file.nets[n] = NoMountain \/ (IsMountain(file.nets[n]) /\ SubnetsApart(file.nets[n]))
        /\ IsFiniteSet(file.nodes)
ASSUME CabinetCommandsAssumption ==
    /\ NodesPerChassis \in Nat
    /\ \A command \in CabinetCommands :
        command.type \in {"Mountain", "Hill", "EX2500"} /\ command.chassis \in Int /\ command.startingNid \in Int
DefaultCidr == [n \in CabinetNetwork |-> IF n = "HMN_MTN" THEN Cidr(2^15, 17) ELSE Cidr(0, 17)]

\* hardware: the cabinets and the nodes; a node is its NID and its role.
CabinetInit ==
    /\ cabinetDump \in CabinetFiles
    /\ cabinetFile = cabinetDump
    /\ cabinetsAdded = <<>>

\* The chassis c0 to c7, c1 and c3, or as many as the command line says.
Chassis(command) ==
    CASE command.type = "Mountain" -> 8
      [] command.type = "Hill" -> 2
      [] OTHER -> command.chassis
NewNids(command) == command.startingNid .. command.startingNid + Chassis(command) * NodesPerChassis - 1
BadCommand(command) == command.type = "EX2500" /\ command.chassis \notin 1..3

\* A new node has a NID that another compute node has, before or among the new ones.
DuplicateNids(file, command) ==
    \E n \in file.nodes : n.role = "Compute" /\ n.nid \in NewNids(command)

\* netaddr: all of the block is in the union of the existing subnets, none of
\* which is smaller than a /24.
Covered(b, subnets) ==
    \A i \in 0..3 : \E s \in ToSet(subnets) : subnet_of(Cidr(b.base + 256 * i, 24), s.cidr)
Available(net) ==
    LET blocks == [i \in 1..2^(22 - net.cidr.len) |-> Cidr(net.cidr.base + 1024 * (i - 1), 22)]
    IN  Those(blocks, {b \in ToSet(blocks) : ~Covered(b, net.subnets)})

CabinetSubnet(cabinet, block, vlan) ==
    [name |-> cabinet, cidr |-> block, vlan |-> vlan, gateway |-> block.base + 1,
     dhcp |-> <<block.base + 10, block.base + Size(block) - 2>>]
Mountain(file, n) == IF file.nets[n] = NoMountain THEN [NoMountain EXCEPT !.cidr = DefaultCidr[n]]
                     ELSE file.nets[n]

\* Mutant: VLANs are compared within one network only.
DuplicateVlansWithin(nets) ==
    \E n \in CabinetNetwork : \E i, j \in DOMAIN nets[n].subnets :
        i # j /\ nets[n].subnets[i].vlan = nets[n].subnets[j].vlan
DuplicateVlans(nets) ==
    LET all == nets["HMN_MTN"].subnets \o nets["NMN_MTN"].subnets
    IN  \E i, j \in DOMAIN all : i # j /\ all[i].vlan = all[j].vlan

AddCabinet ==
    /\ Len(cabinetsAdded) < MaxCabinets
    /\ \E command \in CabinetCommands :
        LET full == [n \in CabinetNetwork |-> Available(Mountain(cabinetFile, n))]
            vlan == [n \in CabinetNetwork |-> IF n = "HMN_MTN" THEN command.hmnVlan ELSE command.nmnVlan]
            nets == [n \in CabinetNetwork |->
                       [Mountain(cabinetFile, n) EXCEPT
                           !.subnets = Append(@, CabinetSubnet(command.cabinet, full[n][1], vlan[n]))]]
        IN  /\ ~BadCommand(command)
            /\ command.cabinet \notin cabinetFile.cabinets
            /\ ~DuplicateNids(cabinetFile, command)
            /\ \A n \in CabinetNetwork : full[n] # <<>>       \* None has no gateway
            /\ ~DuplicateVlans(nets)
            /\ cabinetFile' = [cabinets |-> cabinetFile.cabinets \cup {command.cabinet},
                               nodes |-> cabinetFile.nodes
                                         \cup {[nid |-> i, role |-> "Compute"] : i \in NewNids(command)},
                               nets |-> nets]
            /\ cabinetsAdded' = Append(cabinetsAdded, command)
    /\ UNCHANGED cabinetDump

CabinetSpec == CabinetInit /\ [][AddCabinet]_cabinetVars

-----------------------------------------------------------------------------
(* Properties.                                                             *)

CabinetTypeOK ==
    /\ \A n \in CabinetNetwork : \A s \in ToSet(cabinetFile.nets[n].subnets) :
          subnet_of(s.cidr, cabinetFile.nets[n].cidr) /\ s.gateway \in hosts(s.cidr)
    /\ cabinetDump.cabinets \subseteq cabinetFile.cabinets /\ cabinetDump.nodes \subseteq cabinetFile.nodes

\* However cabinets are added, their subnets are apart from each other and from
\* those that were there -- provided that none of the latter is smaller than a
\* /22: of such a one the rest is taken for free, and given away as a whole.
CabinetSubnetsApart ==
    (\A n \in CabinetNetwork : \A s \in ToSet(cabinetDump.nets[n].subnets) : s.cidr.len <= 22) =>
        \A n \in CabinetNetwork : SubnetsApart(cabinetFile.nets[n])

NodesOf(commands) == FoldLeft(LAMBDA sum, c : sum + Chassis(c) * NodesPerChassis, 0, commands)
\* No two subnets of the cabinets have one VLAN, in whichever of the two networks;
\* and every added cabinet has all of its nodes, none of which is another's.
CabinetsApart ==
    /\ cabinetsAdded # <<>> => ~\E m, n \in CabinetNetwork : \E s \in ToSet(cabinetFile.nets[m].subnets),
                                        t \in ToSet(cabinetFile.nets[n].subnets) :
                                   <<m, s>> # <<n, t>> /\ s.vlan = t.vlan
    /\ Cardinality(cabinetFile.nodes) = Cardinality(cabinetDump.nodes) + NodesOf(cabinetsAdded)
=============================================================================
