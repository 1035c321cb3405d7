----------------------------- MODULE SlsUpgrade -----------------------------
(***************************************************************************)
(* upgrade/scripts/sls/sls_updater_csm_1.2.py: rewrites a dump of SLS of   *)
(* CSM 1.0 for CSM 1.2.  The CAN becomes the CMN, a CHN is made after it,  *)
(* the CAN gets new addresses, switches are renamed, and BICAN routes      *)
(* users to one of them.  The script may be run again on what it wrote,    *)
(* with the same command line or another.                                  *)
(*                                                                         *)
(* One action per function that main() calls, and one per subnet that      *)
(* clone_subnet_and_pivot gives addresses to.  An exception or an exit     *)
(* ends the run with the file as it was: to run again after that is to run *)
(* another time on the same file.                                          *)
(*                                                                         *)
(* Abstractions: aliases, comments, full names, MTUs and ASNs are left out *)
(* (a network has BGP peering or not); the schemas are taken to accept the *)
(* file; one of the free blocks of equal size is taken, whichever is first *)
(* in the list.                                                            *)
(***************************************************************************)
EXTENDS Ipam

CONSTANTS
    SlsInputs,      \* dumps of SLS: networks and the aliases of switches
    UpgradeOptions, \* command lines
    UnboundIp,      \* the addresses of unbound in NMNLB and HMNLB
    MaxUpgradeRuns  \* bound on the runs

VARIABLES
    slsFile,     \* the SLS file: first the dump, then what a run wrote
    slsNets,     \* networks, as main() holds them
    slsHardware, \* the aliases of the switches in the hardware, likewise
    slsOptions,  \* command line of the run
    slsClone,    \* what clone_subnet_and_pivot has made so far
    slsPc,       \* the function that main() calls next, or how the run ended
    slsStale,    \* networks that a run gave a subnet without new DHCP range
    slsDump,     \* the dump of CSM 1.0
    slsRuns,     \* runs ended
    slsCommands  \* history: the command lines of all runs, in order

slsLoaded == <<slsNets, slsHardware>>
slsVars == <<slsFile, slsNets, slsHardware, slsOptions, slsClone, slsPc, slsStale, slsDump, slsRuns, slsCommands>>

SlsNetwork == {"CAN", "CMN", "CHN", "HSN", "NMN", "HMN", "NMNLB", "HMNLB", "BICAN"}
NoNetwork == [cidr |-> Raised, subnets |-> <<>>, bgp |-> FALSE, route |-> ""]
Net(cidr, subnets) == [NoNetwork EXCEPT !.cidr = cidr, !.subnets = subnets]
IsNet(net) == net = [cidr |-> net.cidr, subnets |-> net.subnets, bgp |-> net.bgp, route |-> net.route]
Known(net) == net # NoNetwork => net.cidr # Raised
HasBlock(s) == "cidr" \in DOMAIN s /\ IsBlock(s.cidr)
HaveBlocks(subnets) == subnets \in Seq(ToSet(subnets)) /\ \A s \in ToSet(subnets) : HasBlock(s)
InBlocks(net) == (net.cidr = Raised \/ IsBlock(net.cidr)) /\ HaveBlocks(net.subnets)
Labelled(s) == {"key", "name", "vlan", "cidr", "reservations"} \subseteq DOMAIN s
NoUans(rs) == /\ rs \in Seq(ToSet(rs))
              /\ \A r \in ToSet(rs) : {"key", "name"} \subseteq DOMAIN r /\ "comment" \notin DOMAIN r
ArePlain(s) ==
    \A r, q \in ToSet(s.reservations) :
          /\ r = Reservation(r.name, r.ip) /\ r.name \in Seq(ToSet(r.name)) /\ "cmn" \notin ToSet(r.name)
          /\ r.name = q.name => r = q
SubnetsIn(dump, n) == ToSet(dump.nets[n].subnets)
In(nets) == {n \in SlsNetwork : nets[n] # NoNetwork}
NotCloning == [cidr |-> Raised, made |-> <<>>, todo |-> <<>>]

Bootstrap == <<"bootstrap_dhcp">>
Switches  == <<"network_hardware">>
Uai       == <<"uai_macvlan">>
KubeApi   == <<"kubeapi", "vip">>
Unbound   == <<"unbound">>
Pool(word) == <<word, "metallb_address_pool">>
Static(word) == <<word, "metallb_static_pool">>
IsPool(s) == s.name[Len(s.name)] \in {"metallb_address_pool", "metallb_static_pool"}

\* A dump of CSM 1.0 has an HSN and a CAN on one VLAN, but none of the networks that
\* the script makes, nor a name of one, nor addresses of UANs; names of subnets and
\* reservations of the CAN are distinct.  The blocks on the command line are blocks of
\* addresses.
ASSUME SlsInputsAssumption ==
    \A dump \in SlsInputs :
        /\ dump.nets = [n \in SlsNetwork |-> dump.nets[n]]
        /\ \A n \in SlsNetwork : IsNet(dump.nets[n]) /\ Known(dump.nets[n])
        /\ \A n \in {"CAN", "HMN"} : InBlocks(dump.nets[n])
        /\ dump.nets["HSN"] # NoNetwork /\ dump.nets["HSN"].subnets \in Seq(SubnetsIn(dump, "HSN"))
        /\ \A n \in {"CMN", "CHN", "BICAN"} : dump.nets[n] = NoNetwork
        /\ \A n \in {"CAN", "HMN", "HSN"} : \A s \in SubnetsIn(dump, n) : Labelled(s) /\ NoUans(s.reservations)
        /\ \A s, t \in SubnetsIn(dump, "CAN") : s.vlan = t.vlan /\ (s.name = t.name => s = t)
        /\ \A s \in SubnetsIn(dump, "CAN") : s.key = s.name /\ ArePlain(s)
ASSUME UpgradeOptionsAssumption ==
    \A options \in UpgradeOptions :
        /\ options.bican \in {"CAN", "CHN", "HSN"}
        /\ IsBlock(options.can) /\ IsBlock(options.chn)
        /\ \A overrides \in {options.canOverrides, options.cmnOverrides} :
              \A name \in DOMAIN overrides : IsBlock(overrides[name])

-----------------------------------------------------------------------------
(* Networks.                                                               *)

OnSubnets(net, f(_)) == [net EXCEPT !.subnets = [i \in DOMAIN @ |-> f(@[i])]]
OnSubnet(net, k, f(_)) == OnSubnets(net, LAMBDA s : IF s.key = k THEN f(s) ELSE s)

\* Network.to_sls and NetworkManager.to_sls.
NetworksToSls(nets) == [n \in SlsNetwork |-> OnSubnets(nets[n], SubnetToSls)]
network_from_sls_data(d) ==
    [d EXCEPT !.subnets = Keyed([i \in DOMAIN @ |-> subnet_from_sls_data(@[i])])]

\* The functions of sls_updates.py that take networks to networks.

\* Mutant: the names that leaf switches get are replaced once more.
SwitchNameAggFirst(name) == Renamed(Renamed(name, "agg", <<"leaf">>), "leaf", <<"leaf", "bmc">>)
SwitchName(name) == Renamed(Renamed(name, "leaf", <<"leaf", "bmc">>), "agg", <<"leaf">>)
SwitchesRenamed(rs) == Keyed([i \in DOMAIN rs |-> [rs[i] EXCEPT !.name = SwitchName(@)]])
migrate_switch_names(nets) ==
    [n \in SlsNetwork |->
        OnSubnet(nets[n], Switches, LAMBDA s :
            [s EXCEPT !.reservations = SwitchesRenamed(@)])]

remove_api_gw_from_hmnlb_reservations(nets) ==
    [nets EXCEPT !["HMNLB"] = OnSubnet(@, Pool("hmn"), LAMBDA s :
        [s EXCEPT !.reservations = Without(@, {<<"istio", "ingressgateway">>,
                                               <<"istio", "ingressgateway", "local">>})])]

correct_unbound_dns_address(nets) ==
    LET corrected(rs, ip) == Put(rs, IF Has(rs, Unbound) THEN [Get(rs, Unbound) EXCEPT !.ip = ip]
                                     ELSE Reservation(Unbound, ip))
        On(n, pool) == OnSubnet(nets[n], pool, LAMBDA s :
                           [s EXCEPT !.reservations = corrected(@, UnboundIp[n])])
    IN  [nets EXCEPT !["HMNLB"] = On("HMNLB", Pool("hmn")), !["NMNLB"] = On("NMNLB", Pool("nmn"))]

remove_can_static_pool(nets) ==
    [nets EXCEPT !["CAN"].subnets = Without(@, {Static("can")})]

remove_kube_api_reservations(nets) ==
    [n \in SlsNetwork |->
        IF n = "NMN" THEN nets[n]
        ELSE OnSubnets(nets[n], LAMBDA s : [s EXCEPT !.reservations = Without(@, {KubeApi})])]

create_metallb_pools_and_asns(nets) ==
    LET named == {Pool(w) : w \in {"can", "chn", "cmn", "hmn", "nmn"}} \cup {Static("cmn")}
    IN  [n \in SlsNetwork |->
            [OnSubnets(nets[n], LAMBDA s : IF s.name \in named THEN [s EXCEPT !.pool = s.name]
                                           ELSE s)
                EXCEPT !.bgp = @ \/ (n \in {"CHN", "CMN", "NMN"} /\ nets[n] # NoNetwork)]]

update_nmn_uai_macvlan_dhcp_ranges(nets) ==
    [nets EXCEPT !["NMN"] = OnSubnet(@, Uai, LAMBDA s :
        [s EXCEPT !.range = <<Max(Ips(s)) + 1, last_free_ipv4_address(s)>>,
                  !.vlan = Get(nets["NMN"].subnets, Bootstrap).vlan])]

rename_uai_bridge_reservation(nets) ==
    [nets EXCEPT !["NMN"] = OnSubnet(@, Uai, LAMBDA s :
        [s EXCEPT !.reservations = NamesReplaced(@, "macvlan_bridge", <<"nmn_blackhole">>)])]

create_bican_network(nets, route) ==
    IF nets["BICAN"] # NoNetwork THEN nets
    ELSE [nets EXCEPT !["BICAN"] = [Net(Cidr(0, 0), <<>>) EXCEPT !.route = route]]

-----------------------------------------------------------------------------
(* The addresses of the new networks.                                      *)

\* The reservations of s with those of a list, each of which gets the next free
\* address in turn; those that still have their old one count as in use.
Addressed(s, list) ==
    LET given(rs, r) == Put(rs, [r EXCEPT !.ip = next_free_ipv4_address([s EXCEPT !.reservations = rs])])
    IN  [s EXCEPT !.reservations = FoldLeft(given, @, list)]
ByNames(list) == [i \in DOMAIN list |-> Reservation(list[i].name, Nil)]
ReAddressed(s) == Addressed(s, s.reservations)

\* The CHN is the CAN with other names and addresses: bootstrap_dhcp takes all
\* of the block, with its DHCP range in the lower half, and the MetalLB pools
\* take parts of the upper half.  `gone' are reservations that it does not get.
Chn(can, cidr, vlan, edge, gone, pools) ==
    LET subnets == [i \in DOMAIN can.subnets |->
            [Clone(can.subnets[i]) EXCEPT
                !.name = Renamed(@, "can", <<"chn">>), !.vlan = vlan,
                !.reservations = NamesReplaced(Without(@, gone), "can", <<"chn">>)]]
        At(s, block) == ReAddressed([s EXCEPT !.cidr = block, !.gateway = block.base + 1])
        place(i) == Cardinality({j \in 1..i : subnets[j].name # Bootstrap})
        bootstrap(s) ==
            LET whole == At(s, cidr)
                lower == [whole EXCEPT !.cidr = Halves(cidr)[1]]
            IN  [whole EXCEPT
                    !.dhcp = <<next_free_ipv4_address(lower), last_free_ipv4_address(lower)>>,
                    !.reservations = Without(@, {<<"can", "switch", x>> : x \in
                                         (CASE edge = 0 -> {"1", "2"} [] edge = 1 -> {"2"}
                                            [] OTHER -> {})})]
    IN  Net(cidr, [i \in DOMAIN subnets |->
                      IF subnets[i].name = Bootstrap THEN bootstrap(subnets[i])
                      ELSE At(subnets[i], IF place(i) \in DOMAIN pools THEN pools[place(i)] ELSE Raised)])
create_chn_network(nets, options) ==
    Chn(nets["CAN"], options.chn, options.chnVlan, options.edge, {},
        Halves(Halves(options.chn)[2]))

\* An IndexError on the way: an address is missing, or a block for a pool.
IndexError(s) == s.cidr = Raised \/ Nil \in Ips(s) \cup {s.gateway}
ChnFails(chn) == \/ \E i \in DOMAIN chn.subnets : IndexError(chn.subnets[i])
                 \/ \A i \in DOMAIN chn.subnets :
                        chn.subnets[i].name = Bootstrap => Nil \in ToSet(chn.subnets[i].dhcp)

\* clone_subnet_and_pivot(): the order of the subnets, the template of a subnet,
\* the block that it gets, and its new addresses there.
SubnetOrder(names, preserve) ==
    CASE preserve = "external-dns" ->
            <<"metallb_static_pool", "metallb_address_pool">>
                \o Those(names, ToSet(names) \ {"metallb_static_pool", "metallb_address_pool"})
      [] preserve = "ncns" -> <<"bootstrap_dhcp">> \o Those(names, ToSet(names) \ {"bootstrap_dhcp"})
      [] OTHER -> names
\* Mutant: no subnet is preserved, though one comes first.
PreservedSubnetNone(preserve) == ""
PreservedSubnet(preserve) == CASE preserve = "external-dns" -> "metallb_static_pool"
                               [] preserve = "ncns" -> "bootstrap_dhcp"
                               [] OTHER -> ""
NameIn(word, n) == IF n \in {"metallb_static_pool", "metallb_address_pool"} THEN <<word, n>> ELSE <<n>>

Template(nets, n) ==
    LET own == nets["CAN"].subnets
        hmn == nets["HMN"].subnets
    IN  IF Has(own, NameIn("can", n)) THEN <<Clone(Get(own, NameIn("can", n)))>>
        ELSE IF Has(hmn, NameIn("can", n)) THEN <<[Clone(Get(hmn, NameIn("can", n))) EXCEPT !.vlan = own[1].vlan]>>
        ELSE <<>>                        \* None.to_sls()

\* The seeds that may be taken; none where the code raises an exception.
Seeds(clone, s, overrides) ==
    LET free    == free_ipv4_subnets(clone.cidr, clone.made)
        largest == {b \in free : \A c \in free : b.len <= c.len}
        prefix  == prefixlength_from_hosts(Len(s.reservations))
    IN  IF s.name \in DOMAIN overrides THEN {overrides[s.name]}
        ELSE IF Cardinality(free) >= Len(clone.todo) THEN largest
        ELSE {FirstOf(b, prefix) : b \in {l \in largest : l.len <= prefix}}

ReIp(s, block) ==
    LET empty == [s EXCEPT !.cidr = block, !.gateway = 0, !.reservations = <<>>]
        own   == [empty EXCEPT !.gateway = next_free_ipv4_address(empty)]
        new   == Addressed(own, ByNames(s.reservations))
    IN  IF s.dhcp = NoRange \/ free_ipv4_addresses(new) = {} THEN new
        ELSE [new EXCEPT !.dhcp = <<next_free_ipv4_address(new), last_free_ipv4_address(new)>>]

-----------------------------------------------------------------------------
(* A run.                                                                  *)

SlsInit ==
    /\ slsDump \in SlsInputs
    /\ slsOptions \in UpgradeOptions /\ slsCommands = <<slsOptions>>
    /\ slsFile = slsDump
    /\ slsNets = [n \in SlsNetwork |-> NoNetwork] /\ slsHardware = <<>>
    /\ slsClone = NotCloning /\ slsStale = {}
    /\ slsPc = "load" /\ slsRuns = 0

SlsCalls(step) ==
    /\ slsPc' = step
    /\ UNCHANGED <<slsFile, slsDump>>
    /\ slsRuns' = slsRuns + (IF step = "failed" THEN 1 ELSE 0)
SlsGoTo(step) == SlsCalls(step) /\ UNCHANGED <<slsOptions, slsCommands>>
\* One function of main(): networks to networks.
Does(step, nets, next) ==
    /\ slsPc = step
    /\ slsNets' = nets
    /\ SlsGoTo(next)
    /\ UNCHANGED <<slsHardware, slsClone, slsStale>>
Fails(step) == Does(step, slsNets, "failed")

\* The file is read and the command line is checked against it: without a CMN,
\* the CAN is to become the CMN, apart from the new CAN.  A rerun on what was
\* written may have another command line.
InputError(nets, options) ==
    /\ nets["CMN"] = NoNetwork
    /\ \/ ~Has(nets["CAN"].subnets, Bootstrap)
       \/ LET old == Get(nets["CAN"].subnets, Bootstrap)
          IN  old.vlan = options.canVlan \/ overlaps(old.cidr, options.can)
LoadSls ==
    /\ slsRuns < MaxUpgradeRuns
    /\ \/ slsPc = "load" /\ UNCHANGED <<slsOptions, slsCommands>>
       \/ slsPc = "written" /\ slsOptions' \in UpgradeOptions /\ slsCommands' = Append(slsCommands, slsOptions')
    /\ slsNets' = [n \in SlsNetwork |-> network_from_sls_data(slsFile.nets[n])]
    /\ slsHardware' = slsFile.hardware
    /\ SlsCalls(IF InputError(slsNets', slsOptions') THEN "failed" ELSE "switches")
    /\ UNCHANGED <<slsClone, slsStale>>

\* What was done by an earlier run, or has nothing to work on.
SwitchesDone(nets) == nets["BICAN"] # NoNetwork
CmnDone(nets)      == nets["CAN"] = NoNetwork \/ nets["CMN"] # NoNetwork
ChnDone(nets)      == nets["CHN"] # NoNetwork
CanDone(nets)      == nets["CAN"] = NoNetwork \/ nets["BICAN"] # NoNetwork

MigrateSwitchNames ==
    /\ slsPc = "switches"
    /\ IF SwitchesDone(slsNets) THEN UNCHANGED slsLoaded
       ELSE /\ slsNets' = migrate_switch_names(slsNets)
            /\ slsHardware' = [i \in DOMAIN slsHardware |-> SwitchName(slsHardware[i])]
    /\ SlsGoTo("lb") /\ UNCHANGED <<slsClone, slsStale>>

CorrectLoadBalancers ==
    Does("lb", correct_unbound_dns_address(remove_api_gw_from_hmnlb_reservations(slsNets)), "cmn")

\* migrate_can_to_cmn() and convert_can_ips() up to the first subnet.
StartsClone(nets, names, next) ==
    /\ slsNets' = nets
    /\ slsClone' = [cidr |-> nets["CAN"].cidr, made |-> <<>>, todo |-> names]
    /\ SlsGoTo(next) /\ UNCHANGED <<slsHardware, slsStale>>
StartCmn ==
    /\ slsPc = "cmn"
    /\ IF CmnDone(slsNets) THEN Does("cmn", slsNets, "static pool")
       ELSE StartsClone(slsNets, SubnetOrder(<<"bootstrap_dhcp", "metallb_address_pool",
                "metallb_static_pool", "network_hardware">>, slsOptions.preserve), "CMN subnets")
StartCan ==
    /\ slsPc = "can"
    /\ IF CanDone(slsNets) THEN Does("can", slsNets, "bgp")
       ELSE StartsClone([slsNets EXCEPT !["CAN"] =
                            [OnSubnets(@, LAMBDA s : [s EXCEPT !.vlan = slsOptions.canVlan])
                                EXCEPT !.cidr = slsOptions.can]],
                        <<"bootstrap_dhcp", "metallb_address_pool">>, "CAN subnets")

\* The two networks that clone_subnet_and_pivot makes.
CloneTo == [pc \in {"CMN subnets", "CAN subnets"} |->
              IF pc = "CMN subnets" THEN [net |-> "CMN", word |-> "cmn", preserve |-> slsOptions.preserve,
                                          overrides |-> slsOptions.cmnOverrides, next |-> "static pool"]
              ELSE [net |-> "CAN", word |-> "can", preserve |-> "",
                    overrides |-> slsOptions.canOverrides, next |-> "bgp"]]

\* The next subnet, in the block `seed'.
NewSubnet(to, n, template, seed) ==
    LET s == [template EXCEPT !.key = NameIn(to.word, n), !.name = NameIn(to.word, n),
                              !.reservations = NamesReplaced(@, "can", <<to.word>>)]
    IN  IF n # PreservedSubnet(to.preserve) THEN ReIp(s, seed)
        ELSE IF s.cidr = slsClone.cidr THEN [s EXCEPT !.cidr = seed] ELSE s
CloneSubnet ==
    /\ slsPc \in DOMAIN CloneTo /\ slsClone.todo # <<>>
    /\ LET to    == CloneTo[slsPc]
           n     == Head(slsClone.todo)
           found == Template(slsNets, n)
           seeds == UNION {Seeds(slsClone, [t EXCEPT !.name = NameIn(to.word, n)], to.overrides) : t \in ToSet(found)}
           Fail  == SlsGoTo("failed") /\ UNCHANGED <<slsClone, slsStale>>
       IN  \/ seeds = {} /\ Fail
           \/ \E seed \in seeds :
                LET s    == NewSubnet(to, n, found[1], seed)
                    made == Put(slsClone.made, s)
                IN  IF IndexError(s) \/ Raised \in free_ipv4_subnets(slsClone.cidr, made) THEN Fail
                    ELSE /\ slsClone' = [slsClone EXCEPT !.made = made, !.todo = Tail(@)]
                         /\ slsStale' = IF n # PreservedSubnet(to.preserve) /\ s.dhcp # NoRange
                                           /\ free_ipv4_addresses(s) = {}
                                        THEN slsStale \cup {to.net} ELSE slsStale
                         /\ SlsGoTo(slsPc)
    /\ UNCHANGED slsLoaded

\* The supernet hack, and the switches that the CMN has no more in bootstrap_dhcp.
SupernetHack(s, network) == IF IsPool(s) THEN s
                            ELSE [s EXCEPT !.cidr = network, !.gateway = network.base + 1]
EndClone ==
    /\ slsPc \in DOMAIN CloneTo /\ slsClone.todo = <<>>
    /\ LET to   == CloneTo[slsPc]
           net  == OnSubnets(Net(slsClone.cidr, slsClone.made), LAMBDA s : SupernetHack(s, slsClone.cidr))
           gone == IF to.net = "CAN" THEN {} ELSE {<<"cmn", "switch", "1">>, <<"cmn", "switch", "2">>}
       IN  /\ slsNets' = [slsNets EXCEPT ![to.net] =
                             OnSubnet(net, Bootstrap, LAMBDA s :
                                 [s EXCEPT !.reservations = Without(@, gone)])]
           /\ SlsGoTo(to.next)
    /\ slsClone' = NotCloning
    /\ UNCHANGED <<slsHardware, slsStale>>

RemoveStaticPool == Does("static pool", remove_can_static_pool(slsNets), "kubeapi")
RemoveKubeApi    == Does("kubeapi", remove_kube_api_reservations(slsNets), "chn")
CreateChn ==
    /\ slsPc = "chn"
    /\ IF ChnDone(slsNets) THEN Does("chn", slsNets, "can")
       ELSE IF slsNets["CAN"] = NoNetwork \/ ChnFails(create_chn_network(slsNets, slsOptions))
       THEN Fails("chn")
       ELSE Does("chn", [slsNets EXCEPT !["CHN"] = create_chn_network(slsNets, slsOptions)], "can")
AddBgp == Does("bgp", create_metallb_pools_and_asns(slsNets), "uai")

\* Without uai_macvlan there is no range to update, and renaming in it fails.
UpdateUai ==
    /\ slsPc = "uai"
    /\ IF ~Has(slsNets["NMN"].subnets, Uai) THEN Fails("uai")
       ELSE LET s == Get(slsNets["NMN"].subnets, Uai)
            IN  IF Ips(s) = {} \/ last_free_ipv4_address(s) = Nil THEN Fails("uai")
                ELSE Does("uai", rename_uai_bridge_reservation(update_nmn_uai_macvlan_dhcp_ranges(slsNets)),
                          "remove")

\* The user networks that are not asked for go, and BICAN routes to the one that is.
Unused(options) == IF options.retain THEN {}
                   ELSE CASE options.bican = "CAN" -> {"CHN"} [] options.bican = "CHN" -> {"CAN"}
                          [] OTHER -> {"CAN", "CHN"}
RemoveUnused == Does("remove", [n \in SlsNetwork |-> IF n \in Unused(slsOptions) THEN NoNetwork
                                                     ELSE slsNets[n]], "bican")
CreateBican == Does("bican", create_bican_network(slsNets, slsOptions.bican), "write")

WriteSls ==
    /\ slsPc = "write"
    /\ slsFile' = [nets |-> NetworksToSls(slsNets), hardware |-> slsHardware]
    /\ slsPc' = "written" /\ slsRuns' = slsRuns + 1
    /\ UNCHANGED <<slsLoaded, slsOptions, slsCommands, slsClone, slsStale, slsDump>>

SlsNext ==
    \/ LoadSls \/ MigrateSwitchNames \/ CorrectLoadBalancers
    \/ StartCmn \/ StartCan \/ CloneSubnet \/ EndClone
    \/ RemoveStaticPool \/ RemoveKubeApi \/ CreateChn \/ AddBgp \/ UpdateUai
    \/ RemoveUnused \/ CreateBican \/ WriteSls
SlsSpec == SlsInit /\ [][SlsNext]_slsVars

-----------------------------------------------------------------------------
(* Properties.                                                             *)

\* Networks in memory, the file and the partly cloned network stay well-formed:
\* no address is missing in a network that the run goes on with.
SlsTypeOK ==
    /\ slsPc \in {"load", "switches", "lb", "cmn", "static pool", "kubeapi", "chn", "can", "bgp",
                  "uai", "remove", "bican", "write", "written", "failed"} \cup DOMAIN CloneTo
    /\ slsRuns \in 0..MaxUpgradeRuns /\ slsStale \subseteq {"CAN", "CMN"}
    /\ \A nets \in {slsNets, slsFile.nets} : \A n \in SlsNetwork :
        \A i, j \in DOMAIN nets[n].subnets :
            /\ ~IndexError(nets[n].subnets[i])
            /\ nets[n].subnets[i].key = nets[n].subnets[j].key => i = j
    /\ \A i \in DOMAIN slsClone.made : ~IndexError(slsClone.made[i])

\* The first run made the CMN and BICAN; what later ones are asked for is in the CHN
\* at most.
FirstCommand == slsCommands[1]
CustomerNetworks(nets) == {nets[n] : n \in {"CAN", "CMN", "CHN"} \cap In(nets)}
SubnetsOf(net) == ToSet(net.subnets)
Leases(s) == IF s.dhcp = NoRange THEN {} ELSE s.dhcp[1] .. s.dhcp[2]

\* The NCNs of the CMN keep their old addresses although bootstrap_dhcp gets a
\* small block of its own, around which the other subnets are laid out.
KeptInAnotherBlock(net) ==
    /\ net = slsFile.nets["CMN"] /\ FirstCommand.preserve = "ncns"
    /\ \E s \in SubnetsOf(slsDump.nets["CAN"]) : s.name = Bootstrap /\ s.cidr = net.cidr
Sound(net) == ~KeptInAnotherBlock(net)

AddressesUnique(net) ==
    \A s, t \in SubnetsOf(net) : \A i \in DOMAIN s.reservations, j \in DOMAIN t.reservations :
        /\ s.reservations[i].ip \in hosts(net.cidr) \ {s.gateway, t.gateway}
        /\ s.reservations[i].ip = t.reservations[j].ip => s.name = t.name /\ i = j
\* In a customer network that a run writes, no two reservations of any of its
\* subnets have one address, and none has the address of a gateway or lies
\* outside.
SlsAddressesUnique ==
    slsPc = "written" => \A net \in CustomerNetworks(slsFile.nets) : Sound(net) => AddressesUnique(net)

PoolsApart(net) ==
    \A s, t \in SubnetsOf(net) :
        /\ IsPool(s) /\ s # t => Addresses(s.cidr) \cap (Ips(t) \cup Leases(t)) = {}
        /\ IsPool(s) /\ IsPool(t) /\ s # t => ~overlaps(s.cidr, t.cidr)
        /\ Leases(s) \cap Ips(t) = {}
\* The addresses that MetalLB gives out, those that DHCP gives out and the
\* reservations are apart, unless the run warned that it has no new DHCP range.
SlsPoolsApart ==
    slsPc = "written" =>
        \A n \in ({"CAN", "CMN", "CHN"} \cap In(slsFile.nets)) \ slsStale :
            Sound(slsFile.nets[n]) => PoolsApart(slsFile.nets[n])

\* Asked to keep them, the first run gives the CMN the addresses that the NCNs,
\* or the services of the static pool, have in the old CAN, and reruns leave them
\* there, whatever they are asked for.
Preserved == [option \in {"ncns", "external-dns"} |->
                IF option = "ncns" THEN <<Bootstrap, Bootstrap>> ELSE <<Static("can"), Static("cmn")>>]
PreservedIpsKept ==
    (slsPc = "written" /\ slsDump.nets["CMN"] = NoNetwork /\ FirstCommand.preserve \in DOMAIN Preserved) =>
        LET subnet == Preserved[FirstCommand.preserve]
            was == Get(slsDump.nets["CAN"].subnets, subnet[1]).reservations
            now == Get(slsFile.nets["CMN"].subnets, subnet[2]).reservations
        IN  Has(slsDump.nets["CAN"].subnets, subnet[1]) =>
            \A i \in DOMAIN was : was[i].name # KubeApi =>
                \E j \in DOMAIN now : /\ now[j].ip = was[i].ip
                                      /\ now[j].name = Renamed(was[i].name, "can", <<"cmn">>)

\* A step of a run on its own output: what it writes is the same file again if all
\* runs have one command line; whatever the command line, the switches, the CMN and
\* BICAN, and the CAN as long as it is kept, are the same.
RerunKeepsFile ==
    slsPc = "write" /\ slsRuns > 0 =>
        /\ (\A c \in ToSet(slsCommands) : c = slsOptions) => slsFile' = slsFile
        /\ slsFile'.hardware = slsFile.hardware
        /\ \A n \in {"CMN", "BICAN"} \cup ({"CAN"} \ Unused(slsOptions)) : slsFile'.nets[n] = slsFile.nets[n]

\* However often the script runs, every switch is renamed once, in the hardware
\* and in the networks alike; the new CMN has the switches of the HMN.
Role(word) == CASE word = "leaf" -> <<"leaf", "bmc">> [] word = "agg" -> <<"leaf">> [] OTHER -> <<word>>
SwitchesRenamedOnce ==
    slsPc = "written" =>
        LET named == [i \in DOMAIN slsDump.hardware |->
                         FlattenSeq([w \in DOMAIN slsDump.hardware[i] |-> Role(slsDump.hardware[i][w])])]
            of(net) == {r.name : r \in ToSet(Get(slsFile.nets[net].subnets, Switches).reservations)}
        IN  slsFile.hardware = named /\ of("HMN") = ToSet(named) /\ of("CMN") = of("HMN")

\* BICAN routes the users to a network that the file has, unless a rerun is asked
\* for another user network and takes the first one for unused.
RouteExists(nets) == nets["BICAN"] # NoNetwork => nets[nets["BICAN"].route] # NoNetwork
RouteRemoved(commands) == \E c \in ToSet(commands) : commands[1].bican \in Unused(c)
UserNetworkExists == RouteRemoved(slsCommands) \/ RouteExists(slsFile.nets)

\* What the script says of itself: the user networks that it removes are unused ones,
\* so the one that BICAN routes the users to stays in the file.
OnlyUnusedRemoved == RouteExists(slsFile.nets)

\* The subnets made so far and the free blocks are apart and make up the network.
FreeBlocksPartition ==
    slsPc \in DOMAIN CloneTo =>
        LET blocks == {is_supernet_hacked(slsClone.cidr, s) : s \in ToSet(slsClone.made)}
                      \cup free_ipv4_subnets(slsClone.cidr, slsClone.made)
        IN  /\ UNION {Addresses(b) : b \in blocks} = Addresses(slsClone.cidr)
            /\ \A a, b \in blocks : a # b => ~overlaps(a, b)

\* All subnets of a customer network have one VLAN, wherever they were copied
\* from, and the CMN keeps that of the old CAN.
Vlans(net) == {s.vlan : s \in SubnetsOf(net)}
VlansAgree ==
    slsPc = "written" =>
        /\ \A net \in CustomerNetworks(slsFile.nets) : Cardinality(Vlans(net)) = 1
        /\ Vlans(slsFile.nets["CMN"]) \cap Vlans(slsFile.nets["CAN"]) = {}
=============================================================================
