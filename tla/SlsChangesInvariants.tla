------------------------ MODULE SlsChangesInvariants ------------------------
(***************************************************************************)
(* The inductive invariants of the scripts that change SLS: what is proved *)
(* about them in SlsChangesProofs follows from these.                      *)
(***************************************************************************)
EXTENDS MCSlsChanges

-----------------------------------------------------------------------------
(* NID defragmentation.                                                    *)

\* What the plan promises stays true while the run lasts: the nodes that it was
\* not given have no NID of the block.
PlanHolds ==
    pc # "idle" =>
        /\ startingNID \in Nid /\ Block(startingNID, workingNodeList) \subseteq Nid
        /\ BlockIsFree(startingNID, allowedNodes, workingNodeList)
Shape ==
    /\ TypeOK /\ PlanHolds
    /\ pc = "delete_sls" => call = 1
    /\ pc = "remove" => todo \subseteq hsmDeleteList
    /\ pc = "put_sls" => todo \subseteq workingNodeList

\* The NIDs that have been written.
Written ==
    /\ pc = "put_sls" => \A n \in workingNodeList \ todo : slsNid[n] = NewNID(n)
    /\ pc \in {"patch", "post", "done"} => \A n \in workingNodeList : slsNid[n] = NewNID(n)
    /\ pc \in {"post", "done"} => \A n \in workingNodeList : hsmNid[n] = NewNID(n)
\* NID defragmentation: the type invariant, the plan and what is written of it.
IInv == Shape /\ Written

\* A leftover whose turn is over has no NID; when the writing begins, none has.
LeftoversRemoved ==
    /\ pc = "remove" => \A n \in hsmDeleteList \ todo : hsmNid[n] = NoNid
    /\ pc = "remove" /\ call > 1 =>
          \A n \in todo : (\A m \in todo : ~Before(m, n)) => hsmNid[n] = NoNid
    /\ pc \in {"put_sls", "patch"} => \A n \in hsmDeleteList : hsmNid[n] = NoNid

\* NIDs are unique, if deletions do not fail.
UInv == HsmNidsUnique /\ LeftoversRemoved

-----------------------------------------------------------------------------
(* Networks and routes: the upgrade, the move to the CHN, and UANs.        *)

\* Networks as the scripts hold them: one without a block is no network.
NetsKnown(nets) ==
    /\ nets = [n \in SlsNetwork |-> nets[n]]
    /\ \A n \in SlsNetwork : IsNet(nets[n]) /\ Known(nets[n])

\* The steps of the upgrade.
Resting == {"load", "written", "failed"}
AfterChn == {"can", "CAN subnets", "bgp", "uai", "remove"}
BeforeBican == {"switches", "lb", "cmn", "CMN subnets", "static pool", "kubeapi", "chn"} \cup AfterChn
SlsSteps == Resting \cup BeforeBican \cup {"bican", "write"}

\* What a run holds before the function that it calls next: BICAN routes to the
\* network that the first run was asked for, or this is the first run and the networks
\* that BICAN may route to are there.
RoutedTo(nets, commands) ==
    nets["BICAN"].route = commands[1].bican /\ (RouteRemoved(commands) \/ nets[commands[1].bican] # NoNetwork)
NetsReady(nets, step, commands, options) ==
    IF nets["BICAN"] # NoNetwork THEN RoutedTo(nets, commands)
    ELSE /\ options = commands[1] /\ step # "write" /\ nets["HSN"] # NoNetwork
         /\ step # "bican" => nets["CAN"] # NoNetwork
         /\ step \in AfterChn => nets["CHN"] # NoNetwork
         /\ step = "bican" => nets[options.bican] # NoNetwork
FileReady(nets, commands, options) ==
    IF nets["BICAN"] # NoNetwork THEN RoutedTo(nets, commands)
    ELSE options = commands[1] /\ nets["HSN"] # NoNetwork /\ nets["CMN"] = NoNetwork
IsClone(clone) == clone = [cidr |-> clone.cidr, made |-> clone.made, todo |-> clone.todo]

\* The upgrade.
UpgradeRoutes ==
    /\ slsCommands \in Seq(UpgradeOptions) /\ slsOptions \in ToSet(slsCommands)
    /\ slsPc \in SlsSteps /\ (slsPc = "written" => slsFile.nets["BICAN"] # NoNetwork)
    /\ NetsKnown(slsFile.nets) /\ FileReady(slsFile.nets, slsCommands, slsOptions)
    /\ NetsKnown(slsNets)
    /\ slsPc \notin Resting => NetsReady(slsNets, slsPc, slsCommands, slsOptions)
    /\ IsClone(slsClone)
    /\ slsPc \in DOMAIN CloneTo => slsClone.cidr # Raised

\* Networks in SLS and in files, and those that a run is to write.
Routed(nets) ==
    nets["BICAN"] # NoNetwork =>
        nets["BICAN"].route \in SlsNetwork /\ nets[nets["BICAN"].route] # NoNetwork
Sent(nets) == NetsKnown(nets) /\ Routed(nets)
TodoFor(copy, list) ==
    /\ list # <<>>
    /\ \E T : list \in Seq(T) /\ \A t \in T : t.net \in {"CAN", "CHN"} /\ copy[t.net] # NoNetwork

\* The move to the CHN, and a run for a UAN.
MoveRoutes ==
    /\ Sent(chnSls)
    /\ chnFiles = [f \in ChnFile |-> chnFiles[f]]
    /\ \A f \in ChnFile : Sent(chnFiles[f])
    /\ chnPc = "chn" => chnFiles["dump"]["BICAN"] # NoNetwork
UanRoutes ==
    /\ NetsKnown(uanCopy)
    /\ uanPc \notin Ended => TodoFor(uanCopy, uanTodo)

\* All of them together.
ChangesRoutes ==
    IF InUpgrade THEN UpgradeRoutes /\ MoveRoutes /\ UanRoutes
    ELSE RouteExists(slsFile.nets) /\ RouteExists(chnSls)

-----------------------------------------------------------------------------
(* Cabinets.                                                               *)

\* The networks as a run of the script leaves them.
CabinetNetsGood == \A n \in CabinetNetwork : cabinetFile.nets[n] = NoMountain \/ IsMountain(cabinetFile.nets[n])
LargeIn(nets) == \A n \in CabinetNetwork : \A s \in ToSet(nets[n].subnets) : s.cidr.len <= 22
CabinetNetsApart ==
    LargeIn(cabinetDump.nets) =>
        LargeIn(cabinetFile.nets) /\ \A n \in CabinetNetwork : SubnetsApart(cabinetFile.nets[n])

\* The commands that the script carries out.
Carried == {c \in CabinetCommands : ~BadCommand(c)}
CabinetVlansApart ==
    cabinetsAdded # <<>> => ~\E m, n \in CabinetNetwork : \E s \in ToSet(cabinetFile.nets[m].subnets),
                                        t \in ToSet(cabinetFile.nets[n].subnets) :
                                   <<m, s>> # <<n, t>> /\ s.vlan = t.vlan
CabinetNodesCounted ==
    /\ IsFiniteSet(cabinetFile.nodes) /\ Cardinality(cabinetDump.nodes) \in Nat
    /\ cabinetsAdded \in Seq(Carried)
    /\ Cardinality(cabinetFile.nodes) = Cardinality(cabinetDump.nodes) + NodesOf(cabinetsAdded)
CabinetsInv == CabinetNetsGood /\ CabinetNetsApart /\ CabinetVlansApart /\ CabinetNodesCounted

-----------------------------------------------------------------------------
(* The blocks of a network that is being cloned.                           *)

BlocksIn(nets) == \A n \in {"CAN", "HMN"} : InBlocks(nets[n])

\* As long as no block is missing, whatever seed is taken is a block.
CloneInBlocks(clone) ==
    /\ IsBlock(clone.cidr) /\ HaveBlocks(clone.made)
    /\ Raised \notin free_ipv4_subnets(clone.cidr, clone.made)
UpgradeInBlocks ==
    /\ BlocksIn(slsNets) /\ BlocksIn(slsFile.nets)
    /\ slsPc \in {"CMN subnets", "CAN subnets"} => CloneInBlocks(slsClone)

\* The same among all changes.
BlocksInChanges ==
    IF InUpgrade THEN UpgradeRoutes /\ UpgradeInBlocks
    ELSE slsPc = "load"

-----------------------------------------------------------------------------
(* The VLANs of customer networks.                                         *)

\* Lists of reservations, or of subnets, with names; those of a list without UANs.
Entries(list) == list \in Seq(ToSet(list)) /\ \A i \in DOMAIN list : {"key", "name"} \subseteq DOMAIN list[i]
Bare(rs) == Entries(rs) /\ \A i \in DOMAIN rs : "comment" \notin DOMAIN rs[i]
Filled(s) == Labelled(s) /\ Bare(s.reservations)
OnVlans(list, W) == list \in Seq(ToSet(list)) /\ \A s \in ToSet(list) : Filled(s) /\ s.vlan \in W
Booted(list) == \E i \in DOMAIN list : list[i].key = Bootstrap /\ list[i].name = Bootstrap

\* Dicts as they are read: the keys are the names.
Named(list) == \A i \in DOMAIN list : list[i].key = list[i].name
UserNets == {"CAN", "CMN", "CHN"}

\* The VLANs of the dump, and of the first command line; a CHN may be of another run.
OldVlans == {s.vlan : s \in ToSet(slsDump.nets["CAN"].subnets)}
NewVlans == {FirstCommand.canVlan}
HmnVlans == {s.vlan : s \in ToSet(slsDump.nets["HMN"].subnets)}
NetsOnVlans(nets, canVlans) ==
    /\ OnVlans(nets["CAN"].subnets, canVlans) /\ OnVlans(nets["CMN"].subnets, OldVlans)
    /\ OnVlans(nets["HMN"].subnets, HmnVlans)
    /\ (\E v : OnVlans(nets["CHN"].subnets, {v})) /\ (\E W : OnVlans(nets["HSN"].subnets, W))
NetsBooted(nets) == \A n \in UserNets : nets[n] # NoNetwork => Booted(nets[n].subnets)

\* The dump has none of the new networks; what a run wrote has the CMN, on the VLAN
\* of the old CAN, and all of its networks have a bootstrap_dhcp.
FileOnVlans ==
    IF slsFile.nets["BICAN"] = NoNetwork
    THEN /\ slsFile.nets["CMN"] = NoNetwork /\ slsFile.nets["CHN"] = NoNetwork
         /\ NetsOnVlans(slsFile.nets, OldVlans) /\ slsPc # "written"
    ELSE /\ slsFile.nets["CMN"] # NoNetwork /\ OldVlans \cap NewVlans = {}
         /\ NetsOnVlans(slsFile.nets, NewVlans) /\ NetsBooted(slsFile.nets)

\* A run that is before the function `step'.  From the cloning of the CAN on, and in
\* a rerun, the CAN is on the new VLAN.
WithNewCan == {"CAN subnets", "bgp", "uai", "remove", "bican", "write"}
WithoutCmn == {"switches", "lb", "cmn", "CMN subnets"}
CanVlans(nets, step) == IF nets["BICAN"] # NoNetwork \/ step \in WithNewCan THEN NewVlans ELSE OldVlans
RunOnVlans(nets, step) ==
    /\ NetsOnVlans(nets, CanVlans(nets, step)) /\ NetsBooted(nets) /\ OldVlans \cap NewVlans = {}
    /\ nets["BICAN"] # NoNetwork \/ step \notin WithoutCmn => nets["CMN"] # NoNetwork
    /\ step \in {"CMN subnets", "CAN subnets"} => nets["BICAN"] = NoNetwork

\* What clone_subnet_and_pivot has made is on one VLAN; bootstrap_dhcp is made, or is
\* still to be.
CloneNames == {"bootstrap_dhcp", "metallb_address_pool", "metallb_static_pool", "network_hardware"}
CloneOnVlans(clone, W) ==
    /\ OnVlans(clone.made, W) /\ clone.todo \in Seq(CloneNames)
    /\ Booted(clone.made) \/ "bootstrap_dhcp" \in ToSet(clone.todo)

\* The file, the networks of a run, and what it clones.
UpgradeOnVlans ==
    /\ slsDump \in SlsInputs /\ FileOnVlans
    /\ slsPc \notin Resting => RunOnVlans(slsNets, slsPc)
    /\ slsPc = "CMN subnets" => CloneOnVlans(slsClone, OldVlans)
    /\ slsPc = "CAN subnets" => CloneOnVlans(slsClone, NewVlans)

\* The same among all changes.
VlansInChanges ==
    IF InUpgrade THEN UpgradeRoutes /\ UpgradeOnVlans
    ELSE slsPc = "load"

-----------------------------------------------------------------------------
(* The addresses that the CMN is to keep.                                  *)

InCmn(name) == Renamed(name, "can", <<"cmn">>)

\* A list of reservations whose names are in N: one name has one address.
Reserved(rs, N) ==
    /\ Entries(rs) /\ \A j \in DOMAIN rs : "ip" \in DOMAIN rs[j] /\ rs[j].name \in N
    /\ \A i, j \in DOMAIN rs : rs[i].name = rs[j].name => rs[i].ip = rs[j].ip

\* It has a reservation with a name, an address and one of some keys.
Carries(rs, x) == \E j \in DOMAIN rs : rs[j].key \in x.keys /\ rs[j].name = x.name /\ rs[j].ip = x.ip

\* A subnet with the reservations T.
Holds(s, N, T) == "reservations" \in DOMAIN s /\ Reserved(s.reservations, N) /\ \A x \in T : Carries(s.reservations, x)

\* A subnet with key or name k has both and holds them; there is one.
KeptIfAny(list, k, N, T) ==
    \A i \in DOMAIN list : k \in {list[i].key, list[i].name} => list[i].key = list[i].name /\ Holds(list[i], N, T)
Kept(list, k, N, T) == KeptIfAny(list, k, N, T) /\ \E i \in DOMAIN list : list[i].key = k

\* The subnet whose addresses are kept, its name in the old CAN and in the CMN, and its
\* reservations.
KeptName == PreservedSubnet(FirstCommand.preserve)
KeptFrom == NameIn("can", KeptName)
KeptTo == NameIn("cmn", KeptName)
Was == Get(slsDump.nets["CAN"].subnets, KeptFrom).reservations
WasKept == {r \in ToSet(Was) : r.name # KubeApi}
OldNames == {r.name : r \in ToSet(Was)}
NewNames == {InCmn(n) : n \in OldNames}

\* As the old CAN has them, as a clone has them before they are written, and after that.
OldTerm(r) == [keys |-> {r.name}, name |-> r.name, ip |-> r.ip]
FreshTerm(r) == [keys |-> {r.name}, name |-> InCmn(r.name), ip |-> r.ip]
NewTerm(r) == [keys |-> {r.name, InCmn(r.name)}, name |-> InCmn(r.name), ip |-> r.ip]
OldTerms == {OldTerm(r) : r \in WasKept}
FreshTerms == {FreshTerm(r) : r \in WasKept}
NewTerms == {NewTerm(r) : r \in WasKept}
Asked == FirstCommand.preserve \in DOMAIN Preserved /\ Has(slsDump.nets["CAN"].subnets, KeptFrom)

\* They are in the old CAN until the CMN has them.
NetsKeep(nets) ==
    IF nets["CMN"] = NoNetwork THEN Kept(nets["CAN"].subnets, KeptFrom, OldNames, OldTerms)
    ELSE Kept(nets["CMN"].subnets, KeptTo, NewNames, NewTerms)
CloneKeeps ==
    /\ slsNets["CMN"] = NoNetwork /\ KeptIfAny(slsClone.made, KeptTo, NewNames, FreshTerms)
    /\ (\E i \in DOMAIN slsClone.made : slsClone.made[i].key = KeptTo) \/ KeptName \in ToSet(slsClone.todo)
UpgradeKeeps ==
    Asked =>
      /\ NetsKeep(slsFile.nets) /\ (slsPc \notin Resting => NetsKeep(slsNets))
      /\ slsPc = "CMN subnets" => CloneKeeps

\* The same among all changes.
KeepsInChanges ==
    IF InUpgrade THEN UpgradeRoutes /\ UpgradeOnVlans /\ UpgradeKeeps
    ELSE slsPc = "load"

-----------------------------------------------------------------------------
(* A UAN has an address of all networks, or of none.                       *)

\* The networks of users before UANs have addresses.
Formed(nets) ==
    /\ \A n \in {"CAN", "CHN", "HSN"} : \E W : OnVlans(nets[n].subnets, W)
    /\ \A n \in {"CAN", "CHN"} : nets[n] # NoNetwork => Booted(nets[n].subnets)
MoveFormed == uanRuns = 0 => Formed(chnSls) /\ \A f \in ChnFile : Formed(chnFiles[f])

\* A dict of reservations, and whether the UAN x is in it.
Dict(rs) == Entries(rs) /\ Named(rs) /\ \A i, j \in DOMAIN rs : rs[i].key = rs[j].key => rs[i] = rs[j]
HasHis(rs, x) == \E r \in ToSet(rs) : IsHis(r, x)

\* Lists of subnets with one bootstrap_dhcp, which is a dict of reservations.
Listing(s) == {"key", "name", "reservations"} \subseteq DOMAIN s /\ Entries(s.reservations)
Shaped(list) == list \in Seq(ToSet(list)) /\ \A i \in DOMAIN list : Listing(list[i])
TidyAt(list, i) ==
    /\ Shaped(list) /\ i \in DOMAIN list
    /\ list[i].key = Bootstrap /\ list[i].name = Bootstrap /\ Dict(list[i].reservations)
    /\ \A j \in DOMAIN list : Bootstrap \in {list[j].key, list[j].name} => j = i
Tidy(list) == \E i : TidyAt(list, i)
Fresh(list) == (\E W : OnVlans(list, W)) /\ Booted(list)
OfUan(list, x) == HasHis(Get(list, Bootstrap).reservations, x)

\* A run reads lists where the UAN is found if it is in SLS; what it has not written
\* yet, it is to write.
Live == {n \in {"CAN", "CHN"} : chnSls[n] # NoNetwork}
Served(c, n) == OfUan(chnSls[n].subnets, c.node) <=> c.command # "deallocate"
Underway(c, copy, work) ==
    /\ \A t \in ToSet(work) : Tidy(copy[t.net].subnets)
    /\ \A n \in Live : Served(c, n) \/ \E t \in ToSet(work) : t.net = n

\* A run that ended well leaves no network out.
UanServed ==
    /\ MoveFormed
    /\ uanRuns \in Nat /\ (uanRuns = 0 => uanPc = "idle" /\ uanCall = NoCall)
    /\ \A n \in Live : Fresh(chnSls[n].subnets) \/ Tidy(chnSls[n].subnets)
    /\ uanCall = NoCall \/ (uanCall.command \in {"allocate", "deallocate"} /\ uanCall.node \in UanNode)
    /\ uanPc \notin Ended => uanCall # NoCall /\ Underway(uanCall, uanCopy, uanTodo)
    /\ uanPc = "ok" /\ uanCall # NoCall => \A n \in Live : Served(uanCall, n)

\* The same among all changes.
UansInChanges ==
    IF InUpgrade THEN UpgradeRoutes /\ UpgradeOnVlans /\ MoveRoutes /\ UanRoutes /\ UanServed
    ELSE uanCall = NoCall
=============================================================================
