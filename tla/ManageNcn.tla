----------------------------- MODULE ManageNcn -----------------------------
(***************************************************************************)
(* Adding and removing management NCNs, as done by                         *)
(* scripts/operations/node_management/Add_Remove_Replace_NCNs:             *)
(* `add_management_ncn.py allocate-ips', `add_management_ncn.py ncn-data'  *)
(* and `remove_management_ncn.py'.                                         *)
(*                                                                         *)
(* What is known of an NCN is spread over four services that share no      *)
(* transaction: SLS (hardware and the IP reservations of the networks),    *)
(* BSS (the host_records of the Global boot parameters and the boot        *)
(* parameters of each xname) and HSM (Ethernet interfaces, components,     *)
(* Redfish endpoints).  Each script reads them, validates, and then issues *)
(* one HTTP request after the other; it may be interrupted between two of  *)
(* them, and the operator runs the next script by hand.  The procedures    *)
(* run one script at a time, so the state of the running script is a       *)
(* handful of variables.                                                   *)
(*                                                                         *)
(* Abstractions: the networks NMN and HMN stand for all (the others carry  *)
(* neither BMCs nor the virtual IPs of fabric managers); an IP is its      *)
(* offset in the bootstrap_dhcp subnet; a BMC goes by the xname of its     *)
(* node; of several MACs of a node only mgmt0, the one with IPs, is kept;  *)
(* validation reads that no step of another actor can separate are one     *)
(* step.  Left out: DHCP leases, /etc/hosts, the ipmitool calls, dry runs. *)
(***************************************************************************)
EXTENDS Integers, Sequences, FiniteSets

CONSTANTS
    Alias,           \* hostnames: ncn-m001, ncn-w004, fmn001, ...
    Fixed,           \* those matching ncn-[mws]00[1-3]: their IPs never change
    Fmn,             \* those matching fmn[0-9]+: fabric managers
    FirstMaster,     \* first-master-hostname in the Global boot parameters
    Xname,           \* slots that can hold an NCN
    InstalledAt,     \* [Fixed -> Xname]: where the first NCNs are installed
    InstalledIp,     \* [Network -> [Fixed -> IP]]: with which NCN IPs
    InstalledBmcIp,  \* [Fixed -> IP]: which BMC IPs
    InstalledNid,    \* [Fixed -> Nid]: and which NIDs
    Sites            \* where the scripts run: see "What the site is like"

None      == "none"
Vip       == "fmn-vip"
M001      == "ncn-m001"
Network   == {"NMN", "HMN"}
Gateway   == 1
Unset     == 0               \* no IP
StartNid  == 100001
LastIp    == CHOOSE i \in UNION {{t.broadcast[n] : n \in Network} : t \in Sites} :
                 \A t \in Sites, n \in Network : t.broadcast[n] <= i
IP        == 0..LastIp

\* Names of IP reservations: NCN aliases, BMC xnames, the virtual IP.
Name == Alias \cup Xname \cup {Vip}
Nid  == StartNid..(StartNid + Cardinality(Xname))

ASSUME ManageNcnAssumption ==
    /\ IsFiniteSet(Xname)
    /\ Fixed \subseteq Alias /\ Fmn \subseteq Alias \ Fixed
    /\ Alias \cap Xname = {} /\ {None, Vip} \cap (Alias \cup Xname) = {}
    /\ InstalledAt \in [Fixed -> Xname]
    /\ \A a, b \in Fixed : a # b => InstalledAt[a] # InstalledAt[b]
    /\ InstalledIp \in [Network -> [Fixed -> IP \ {Unset, Gateway}]]
    /\ InstalledBmcIp \in [Fixed -> IP \ {Unset, Gateway}]
    /\ \A a, b \in Fixed, n \in Network : a # b => InstalledIp[n][a] # InstalledIp[n][b]
    /\ \A a, b \in Fixed : /\ a # b => InstalledBmcIp[a] # InstalledBmcIp[b]
                           /\ InstalledIp["HMN"][a] # InstalledBmcIp[b]
    /\ InstalledNid \in [Fixed -> Nid]
    /\ \A a, b \in Fixed : a # b => InstalledNid[a] # InstalledNid[b]
    /\ \A t \in Sites :
        /\ Fixed \subseteq t.aliases /\ t.aliases \subseteq Alias
        /\ \A a \in Fixed : InstalledAt[a] \in t.xnames
        /\ t.xnames \subseteq Xname
        /\ t.vip \in [Network -> IP \ {Gateway}]
        /\ t.dhcpStart \in [Network -> Nat] /\ t.broadcast \in [Network -> Nat \ {0}]
        /\ \A n \in Network, a \in Fixed : t.vip[n] # InstalledIp[n][a]
        /\ \A a \in Fixed : t.vip["HMN"] # InstalledBmcIp[a]
        /\ \A n \in Network : t.vip[n] < t.broadcast[n]
        /\ \A n \in Network, a \in Fixed : InstalledIp[n][a] < t.broadcast[n]
        /\ \A a \in Fixed : InstalledBmcIp[a] < t.broadcast["HMN"]
        /\ t.allowed \subseteq Network
        /\ t.faults \subseteq {"interrupt", "http"}
        /\ t.runs \in Nat

\* One of the subnets is the largest.
ASSUME LastIpAssumption ==
    \E t \in Sites, n \in Network : \A u \in Sites, m \in Network : u.broadcast[m] <= t.broadcast[n]

VARIABLES
    site,         \* where the scripts run
    slsNode,      \* slsNode[x]: alias of the node that SLS has at x, or None
    slsNid,       \* slsNid[x]: its NID
    connector,    \* xnames whose BMC has a MgmtSwitchConnector in SLS
    reservations, \* reservations[n][name]: IP reserved in network n of SLS
    hostRecords,  \* host_records of the Global boot parameters in BSS
    bootparams,   \* bootparams[x]: alias and IPs in the boot parameters of x
    nodeEi,       \* nodeEi[x]: addresses of the node's Ethernet interface in HSM
    bmcEi,        \* bmcEi[x]: addresses of its BMC's Ethernet interface
    staleEi,      \* addresses of interfaces of HSM without a ComponentID
    hsmNid,       \* hsmNid[x]: NID of the node in HSM State Components
    bmcComp,      \* xnames whose BMC and enclosure are State Components
    redfish,      \* xnames whose BMC is a RedfishEndpoint
    pc,           \* where the running script is
    alias, xname, \* its arguments
    reuse,        \* state.use_existing_ip_addresses
    nets,         \* state.sls_networks: its copy of the reservations
    global,       \* state.global_bootparameters: its copy of host_records
    ncn_ips,      \* state.ncn_ips
    bmc_ip,       \* state.bmc_ip
    nid,          \* NID chosen by ncn-data
    put,          \* index in Keys of the next network to PUT
    runs          \* scripts started

slsVars    == <<slsNode, slsNid, connector, reservations>>
bssVars    == <<hostRecords, bootparams>>
hsmVars    == <<nodeEi, bmcEi, staleEi, hsmNid, bmcComp, redfish>>
argVars    == <<alias, xname, reuse>>
planVars   == <<nets, global, ncn_ips, bmc_ip, nid>>
vars == <<site, slsVars, bssVars, hsmVars, pc, argVars, planVars, put, runs>>

\* What the site is like.
SiteAlias     == site.aliases    \* the hostnames and slots that are in use there
SiteXname     == site.xnames
InstalledVip  == site.vip        \* virtual IPs by network, or Unset
DhcpStart     == site.dhcpStart  \* first IP of the dynamic range of each bootstrap_dhcp
Broadcast     == site.broadcast  \* last IP of each subnet
AllowedInDhcp == site.allowed    \* networks given as --network-allowed-in-dhcp-range
Faults        == site.faults     \* which of "interrupt" and "http" may happen
MaxRuns       == site.runs       \* bound on the scripts started

\* Keys of state.ncn_ips, in the order in which it is filled.
Keys == <<"NMN", "NMN-fmn-vip", "HMN", "HMN-fmn-vip">>
Key  == {"NMN", "NMN-fmn-vip", "HMN", "HMN-fmn-vip"}
NetworkOf(k) == IF k \in {"NMN", "NMN-fmn-vip"} THEN "NMN" ELSE "HMN"
VipKey(n)    == IF n = "NMN" THEN "NMN-fmn-vip" ELSE "HMN-fmn-vip"

\* A host record: the name it is for, what follows the name (`.nmn', `.hmn',
\* or `-mgmt' for the BMC, which is on the HMN) and the IP.
HostRecord == [who : Alias \cup {Vip}, for : Network \cup {"mgmt"}, ip : IP]

Address == Network \X IP
BootParams == [alias : Alias \cup {None}, ips : [Network -> IP]]

ScriptStep ==
    {"idle", "traceback",
     "alloc_validate", "alloc_put", "alloc_global",
     "data_validate", "data_node", "data_connector", "data_put", "data_ei",
     "data_bmc_ei", "data_component", "data_bootparams",
     "rm_global", "rm_bootparams", "rm_ei", "rm_redfish", "rm_component",
     "rm_bmc_component", "rm_connector", "rm_node", "rm_put", "rm_report"}

NoReservations == [n \in Network |-> [m \in Name |-> Unset]]
NoIps == [k \in Key |-> Unset]
NoBootParams == [alias |-> None, ips |-> [n \in Network |-> Unset]]
CanBoot(x) == bootparams[x].alias # None

TypeOK ==
    /\ site \in Sites
    /\ slsNode \in [Xname -> Alias \cup {None}] /\ slsNid \in [Xname -> Nid \cup {Unset}]
    /\ connector \subseteq Xname
    /\ \A n \in Network : reservations[n] \in [Name -> 0..Broadcast[n] - 1]
    /\ hostRecords \subseteq HostRecord
    /\ bootparams \in [Xname -> BootParams]
    /\ nodeEi \in [Xname -> SUBSET Address] /\ bmcEi \in [Xname -> SUBSET Address]
    /\ staleEi \subseteq Address
    /\ hsmNid \in [Xname -> Nid \cup {Unset}]
    /\ bmcComp \subseteq Xname /\ redfish \subseteq Xname
    /\ pc \in ScriptStep
    /\ alias \in Alias \cup {None} /\ xname \in Xname \cup {None} /\ reuse \in BOOLEAN
    /\ nets \in [Network -> [Name -> IP]] /\ global \subseteq HostRecord
    /\ ncn_ips \in [Key -> IP] /\ bmc_ip \in IP /\ nid \in Nid \cup {Unset}
    /\ put \in 1..Len(Keys) /\ runs \in 0..MaxRuns

\* The system after installation: the first NCNs are in all four services.
Init ==
    LET at(x) == {a \in Fixed : InstalledAt[a] = x}
        onHmn == {x \in Xname : at(x) \ {M001} # {}}
    IN
    /\ site \in Sites
    /\ slsNode = [x \in Xname |-> IF at(x) = {} THEN None ELSE CHOOSE a \in at(x) : TRUE]
    /\ slsNid = [x \in Xname |-> IF at(x) = {} THEN Unset ELSE InstalledNid[slsNode[x]]]
    /\ connector = onHmn
    /\ reservations = [n \in Network |-> [m \in Name |->
            IF m \in Fixed THEN InstalledIp[n][m]
            ELSE IF m = Vip THEN InstalledVip[n]
            ELSE IF n = "HMN" /\ m \in Xname /\ slsNode[m] # None
                 THEN InstalledBmcIp[slsNode[m]]
                 ELSE Unset]]
    /\ hostRecords =
            {[who |-> a, for |-> n, ip |-> InstalledIp[n][a]] : a \in Fixed, n \in Network}
            \cup {[who |-> a, for |-> "mgmt", ip |-> InstalledBmcIp[a]] : a \in Fixed}
            \cup {[who |-> Vip, for |-> n, ip |-> InstalledVip[n]] :
                    n \in {m \in Network : InstalledVip[m] # Unset}}
    /\ bootparams = [x \in Xname |->
            IF at(x) = {} THEN NoBootParams
            ELSE [alias |-> slsNode[x], ips |-> [n \in Network |-> InstalledIp[n][slsNode[x]]]]]
    /\ nodeEi = [x \in Xname |-> {<<n, InstalledIp[n][a]>> : n \in Network, a \in at(x)}]
    /\ bmcEi = [x \in Xname |-> {<<"HMN", InstalledBmcIp[a]>> : a \in at(x) \ {M001}}]
    /\ staleEi = {}
    /\ hsmNid = slsNid
    /\ bmcComp = onHmn /\ redfish = onHmn
    /\ pc = "idle" /\ alias = None /\ xname = None /\ reuse = FALSE
    /\ nets = NoReservations /\ global = {} /\ ncn_ips = NoIps /\ bmc_ip = Unset
    /\ nid = Unset /\ put = 1 /\ runs = 0

-----------------------------------------------------------------------------
(* The script starts, goes on and ends.                                    *)

Start(p, a, x) ==
    /\ pc = "idle" /\ runs < MaxRuns /\ runs' = runs + 1
    /\ pc' = p /\ alias' = a /\ xname' = x /\ put' = 1

Goto(p) == pc' = p /\ UNCHANGED <<argVars, put, runs>>

\* The script ends; its variables are forgotten.
Exit ==
    /\ pc' = "idle" /\ alias' = None /\ xname' = None /\ reuse' = FALSE
    /\ nets' = NoReservations /\ global' = {} /\ ncn_ips' = NoIps /\ bmc_ip' = Unset
    /\ nid' = Unset /\ put' = 1 /\ UNCHANGED runs

\* Interrupted between two requests.  In add_management_ncn.py this is also
\* what a request that fails does: every one of them ends in sys.exit(1).
Interrupt ==
    /\ "interrupt" \in Faults /\ pc # "idle" /\ Exit
    /\ UNCHANGED <<slsVars, bssVars, hsmVars>>

-----------------------------------------------------------------------------
(* Choosing the IPs: State.retrieve_existing_ncn_ips and allocate_ncn_ips. *)

Reserved(n, ns) == {ns[n][m] : m \in Name} \ {Unset}
Freed(res, ips) == [m \in Name |-> IF res[m] \in ips THEN Unset ELSE res[m]]

\* IPs that the host records gl give to w; Unset when there is none.
RecordIps(gl, w, f) ==
    LET ips == {r.ip : r \in {h \in gl : h.who = w /\ h.for = f}}
    IN  IF ips = {} THEN {Unset} ELSE ips

\* The IPs come from the host records and must be reserved in SLS, under
\* whatever name: those reservations are dropped from the copy, to be replaced.
retrieve_existing_ncn_ips(a) ==
    \E nmn \in RecordIps(hostRecords, a, "NMN"),
       hmn \in RecordIps(hostRecords, a, "HMN"),
       bmc \in RecordIps(hostRecords, a, "mgmt") :
        /\ nmn \in Reserved("NMN", reservations) \cup {Unset}
        /\ hmn \in Reserved("HMN", reservations) \cup {Unset}
        /\ bmc \in Reserved("HMN", reservations) \ {hmn}
        /\ ncn_ips' = [NoIps EXCEPT !["NMN"] = nmn, !["HMN"] = hmn]
        /\ bmc_ip' = bmc
        /\ nets' = [n \in Network |->
                        Freed(reservations[n], IF n = "NMN" THEN {nmn} ELSE {hmn, bmc})]

\* find_next_available_ip: one above the highest IP in use, two above for a VIP.
Highest(ips) == CHOOSE i \in ips \cup {Gateway} : \A j \in ips \cup {Gateway} : j <= i
find_next_available_ip(ips, isVip) == Highest(ips) + (IF isVip THEN 2 ELSE 1)

\* Mutant: the bounds of the subnet are not looked at.
AllocatableUnbounded(n, ip, allowed) == TRUE

\* allocate_ip_address_in_subnet raises unless the IP is in the subnet and in
\* its static range, which some networks are allowed to leave.
Allocatable(n, ip, allowed) ==
    ip < Broadcast[n] /\ (ip < DhcpStart[n] \/ n \in allowed)

\* A fabric manager gets VIPs too, unless one exists: the flag that says so is
\* set by the NMN and still set when the HMN is reached.
fmn_vip_exists(a) == a \in Fmn /\ \E n \in Network : reservations[n][Vip] # Unset
NeedsVip(a, n) ==
    /\ a \in Fmn /\ reservations[n][Vip] = Unset
    /\ n = "HMN" => reservations["NMN"][Vip] = Unset

\* IPs that allocate_ncn_ips finds: the BMC's is reserved in the copy while the
\* others are looked for.
NewBmcIp == find_next_available_ip(Reserved("HMN", reservations), FALSE)
\* Mutant of InUse: the BMC's IP is not reserved meanwhile.
InUseWithoutBmc(n) == Reserved(n, reservations)
InUse(n) == Reserved(n, reservations) \cup (IF n = "HMN" THEN {NewBmcIp} ELSE {})
NewIps(a) == [k \in Key |->
    IF k = NetworkOf(k) THEN find_next_available_ip(InUse(k), FALSE)
    ELSE IF NeedsVip(a, NetworkOf(k)) THEN find_next_available_ip(InUse(NetworkOf(k)), TRUE)
    ELSE Unset]

\* The check of the reservations reads ncn_ips["NMN-fmn-vip"] of an NCN that is
\* not a fabric manager, and raises KeyError at the first reservation.
RaisesKeyError(a) ==
    /\ ~fmn_vip_exists(a)
    /\ \E n \in Network : Reserved(n, reservations) # {} /\ NewIps(a)[VipKey(n)] = Unset

allocate_ncn_ips(a, x) ==
    /\ Allocatable("HMN", NewBmcIp, {})
    /\ \A k \in Key : NewIps(a)[k] # Unset => Allocatable(NetworkOf(k), NewIps(a)[k], AllowedInDhcp)
    /\ \A n \in Network : reservations[n][a] = Unset /\ reservations[n][x] = Unset
    /\ ncn_ips' = NewIps(a) /\ bmc_ip' = NewBmcIp /\ nets' = reservations

-----------------------------------------------------------------------------
(* Validation against HSM and BSS.                                         *)

Claimed == {<<NetworkOf(k), ncn_ips[k]>> : k \in {j \in Key : ncn_ips[j] # Unset}}
Owned   == UNION {nodeEi[x] \cup bmcEi[x] : x \in Xname}

\* validate_hsm_inventory(addresses): nothing of the NCN may be in HSM, and no
\* component may have its addresses; interfaces of no component that have them
\* are deleted.  Passes iff ok.
validate_hsm_inventory(addresses, ok) ==
    LET unknown == nodeEi[xname] = {} /\ bmcEi[xname] = {}
        unused  == addresses \cap Owned = {}
    IN  /\ \/ unknown /\ unused /\ staleEi' = staleEi \ addresses
           \/ unknown /\ ~unused /\ \E d \in SUBSET (staleEi \cap addresses) : staleEi' = staleEi \ d
           \/ ~unknown /\ UNCHANGED staleEi
        /\ ok <=> /\ unknown /\ unused
                  /\ hsmNid[xname] = Unset /\ xname \notin bmcComp /\ xname \notin redfish

\* validate_global_bss_bootparameters(gl).  For new IPs only the alias is looked
\* for: the comparisons of IPs are between a string and an object, and false.
RecordNetwork(r) == IF r.for = "mgmt" THEN "HMN" ELSE r.for
validate_global_bss_bootparameters(gl) ==
    /\ alias # FirstMaster
    /\ ~reuse => \A r \in gl : r.who # alias
    /\ reuse => \A r \in gl :
        /\ \A n \in Network : ncn_ips[n] # Unset =>
              ((RecordNetwork(r) = n /\ r.ip = ncn_ips[n]) <=> (r.who = alias /\ r.for = n))
        /\ (RecordNetwork(r) = "HMN" /\ r.ip = bmc_ip) <=> (r.who = alias /\ r.for = "mgmt")

\* What the operator is asked for: a slot that is free and not promised to
\* another NCN (allocate-ips and ncn-data of an NCN get the same xname).
NotPromised(a, x) ==
    reservations["HMN"][x] \in {Unset} \cup RecordIps(hostRecords, a, "mgmt")

\* SLS must not know the xname, nor another node with the alias.
NotInSls(a, x) ==
    /\ NotPromised(a, x)
    /\ slsNode[x] = None
    /\ \A y \in Xname : slsNode[y] # a
    /\ \E y \in Xname : slsNode[y] # None

-----------------------------------------------------------------------------
(* add_management_ncn.py allocate-ips.  A check that fails ends the script *)
(* with nothing changed: when it is the first step, no step is taken.      *)

AllocateIps(a, x) ==
    /\ Start("alloc_validate", a, x)
    /\ NotInSls(a, x)
    /\ reuse' = (a \in Fixed)
    /\ IF a \in Fixed THEN retrieve_existing_ncn_ips(a)
       ELSE ~RaisesKeyError(a) /\ allocate_ncn_ips(a, x)
    /\ global' = hostRecords
    /\ UNCHANGED <<slsVars, bssVars, hsmVars, nid>>

\* The same, up to an exception that nothing catches.
AllocateIpsRaises(a, x) ==
    /\ Start("traceback", a, x)
    /\ NotInSls(a, x)
    /\ a \notin Fixed /\ RaisesKeyError(a)
    /\ Allocatable("HMN", NewBmcIp, {})
    /\ \A k \in Key : NewIps(a)[k] # Unset => Allocatable(NetworkOf(k), NewIps(a)[k], AllowedInDhcp)
    /\ reuse' = FALSE
    /\ UNCHANGED <<slsVars, bssVars, hsmVars, planVars>>

Traceback ==
    /\ pc = "traceback" /\ Exit
    /\ UNCHANGED <<slsVars, bssVars, hsmVars>>

\* Mutant: BSS is updated before SLS is.
AllocateValidateBssFirst ==
    /\ pc = "alloc_validate"
    /\ \E ok \in BOOLEAN :
        /\ validate_hsm_inventory(Claimed, ok)
        /\ IF ok /\ ~CanBoot(xname) /\ validate_global_bss_bootparameters(hostRecords)
           THEN Goto("alloc_global") /\ global' = hostRecords /\ UNCHANGED <<nets, ncn_ips, bmc_ip, nid>>
           ELSE Exit
    /\ UNCHANGED <<slsVars, bssVars, nodeEi, bmcEi, hsmNid, bmcComp, redfish>>

AllocateValidate ==
    /\ pc = "alloc_validate"
    /\ \E ok \in BOOLEAN :
        /\ validate_hsm_inventory(Claimed, ok)
        /\ IF /\ ok /\ ~CanBoot(xname)
              /\ validate_global_bss_bootparameters(hostRecords)
           THEN /\ Goto("alloc_put") /\ global' = hostRecords
                /\ UNCHANGED <<nets, ncn_ips, bmc_ip, nid>>
           ELSE Exit
    /\ UNCHANGED <<slsVars, bssVars, nodeEi, bmcEi, hsmNid, bmcComp, redfish>>

\* update_sls_networking, one key of ncn_ips: its reservation, and for the HMN
\* that of the BMC, are added to the copy of the network, and all of it is PUT.
WithReservations(k) ==
    LET n  == NetworkOf(k)
        ns == [nets EXCEPT ![n][IF k = n THEN alias ELSE Vip] = ncn_ips[k]]
    IN  IF n = "HMN" THEN [ns EXCEPT !["HMN"][xname] = bmc_ip] ELSE ns

PutNetwork ==
    LET k == Keys[put]
        afterPuts == IF pc = "data_put" THEN "data_ei" ELSE "alloc_global"
    IN
    /\ pc \in {"alloc_put", "data_put"}
    /\ IF ncn_ips[k] = Unset THEN UNCHANGED <<reservations, nets>>
       ELSE /\ nets' = WithReservations(k)
            /\ reservations' = [reservations EXCEPT ![NetworkOf(k)] = nets'[NetworkOf(k)]]
    /\ IF put < Len(Keys) THEN put' = put + 1 /\ pc' = pc
                          ELSE put' = 1 /\ pc' = afterPuts
    /\ UNCHANGED <<slsNode, slsNid, connector, bssVars, hsmVars, argVars,
                   global, ncn_ips, bmc_ip, nid, runs>>

\* update_global_bss_host_records: appends to the copy of the host records.
NewHostRecords ==
    {[who |-> IF k = NetworkOf(k) THEN alias ELSE Vip, for |-> NetworkOf(k), ip |-> ncn_ips[k]] :
        k \in {j \in Key : ncn_ips[j] # Unset}}
    \cup {[who |-> alias, for |-> "mgmt", ip |-> bmc_ip]}

UpdateGlobal ==
    /\ pc = "alloc_global"
    /\ hostRecords' = IF reuse THEN hostRecords ELSE global \cup NewHostRecords
    /\ Exit
    /\ UNCHANGED <<slsVars, bootparams, hsmVars>>

-----------------------------------------------------------------------------
(* add_management_ncn.py ncn-data.                                         *)

\* The lowest NID that no management NCN has.
FreeNids == {i \in Nid : \A y \in Xname : slsNid[y] # i}

NcnData(a, x) ==
    /\ Start("data_validate", a, x)
    /\ NotInSls(a, x)
    /\ a # M001 => x \notin connector
    /\ reuse' = TRUE
    /\ \E i \in FreeNids : (\A j \in FreeNids : i <= j) /\ nid' = i
    /\ retrieve_existing_ncn_ips(a)
    /\ global' = hostRecords
    /\ UNCHANGED <<slsVars, bssVars, hsmVars>>

\* Mutant: HSM is not asked.
NidNotAskedOfHsm == TRUE

\* search_hsm_state_components(nid) finds nothing.
NidUnknownToHsm == \A y \in Xname : hsmNid[y] # nid

\* The BMC's address is not looked for when Kea says the BMC already leases it.
NcnDataValidate ==
    /\ pc = "data_validate"
    /\ \E ok \in BOOLEAN, leased \in {{}, {<<"HMN", bmc_ip>>} \cap staleEi} :
        /\ validate_hsm_inventory(Claimed \cup ({<<"HMN", bmc_ip>>} \ leased), ok)
        /\ IF /\ ok /\ NidUnknownToHsm
              /\ ~CanBoot(xname)
              /\ validate_global_bss_bootparameters(global)
              /\ \E donor \in Xname : slsNode[donor] # None /\ CanBoot(donor)
           THEN Goto("data_node") /\ UNCHANGED planVars
           ELSE Exit
    /\ UNCHANGED <<slsVars, bssVars, nodeEi, bmcEi, hsmNid, bmcComp, redfish>>

CreateNode ==
    /\ pc = "data_node"
    /\ slsNode' = [slsNode EXCEPT ![xname] = alias]
    /\ slsNid' = [slsNid EXCEPT ![xname] = nid]
    /\ Goto(IF alias = M001 THEN "data_put" ELSE "data_connector")
    /\ UNCHANGED <<connector, reservations, bssVars, hsmVars, planVars>>

CreateConnector ==
    /\ pc = "data_connector"
    /\ connector' = connector \cup {xname}
    /\ Goto("data_put")
    /\ UNCHANGED <<slsNode, slsNid, reservations, bssVars, hsmVars, planVars>>

CreateNodeEi ==
    /\ pc = "data_ei"
    /\ nodeEi' = [nodeEi EXCEPT ![xname] =
            {<<n, ncn_ips[n]>> : n \in {m \in Network : ncn_ips[m] # Unset}}]
    /\ Goto(IF alias = M001 THEN "data_component" ELSE "data_bmc_ei")
    /\ UNCHANGED <<slsVars, bssVars, bmcEi, staleEi, hsmNid, bmcComp, redfish, planVars>>

\* POST, or PATCH of the interface that Kea has created for the BMC's MAC.
CreateBmcEi ==
    /\ pc = "data_bmc_ei"
    /\ bmcEi' = [bmcEi EXCEPT ![xname] = {<<"HMN", bmc_ip>>}]
    /\ \E patched \in {{}} \cup {{address} : address \in staleEi} : staleEi' = staleEi \ patched
    /\ Goto("data_bootparams")
    /\ UNCHANGED <<slsVars, bssVars, nodeEi, hsmNid, bmcComp, redfish, planVars>>

\* The BMC of ncn-m001 is not on the HMN: HSM will not discover it.
CreateComponent ==
    /\ pc = "data_component"
    /\ hsmNid' = [hsmNid EXCEPT ![xname] = nid]
    /\ Goto("data_bootparams")
    /\ UNCHANGED <<slsVars, bssVars, nodeEi, bmcEi, staleEi, bmcComp, redfish, planVars>>

PutBootparameters ==
    /\ pc = "data_bootparams"
    /\ bootparams' = [bootparams EXCEPT ![xname] =
            [alias |-> alias, ips |-> [n \in Network |-> ncn_ips[n]]]]
    /\ Exit
    /\ UNCHANGED <<slsVars, hostRecords, hsmVars>>

-----------------------------------------------------------------------------
(* remove_management_ncn.py.  All reads come first; then the requests are  *)
(* issued in a fixed order, and one that fails is printed and passed over. *)

Fails == "http" \in Faults

\* Mutants of the reads: the requests to SLS are issued before those to BSS, the
\* IPs of the first NCNs are not spared, the reservation of the BMC is missed.
RemoveNcnVariant(x, first, spared, names) ==
    LET keep == slsNode[x] \in spared IN
    /\ slsNode[x] \notin {None, FirstMaster}
    /\ CanBoot(x)
    /\ Start(first, slsNode[x], x)
    /\ nets' = IF keep THEN reservations
               ELSE [n \in Network |-> [m \in Name |->
                        IF m \in names THEN Unset ELSE reservations[n][m]]]
    /\ global' = IF keep THEN hostRecords ELSE {r \in hostRecords : r.who # slsNode[x]}
    /\ reuse' = keep
    /\ UNCHANGED <<slsVars, bssVars, hsmVars, ncn_ips, bmc_ip, nid>>
RemoveNcnSlsFirst(x) == RemoveNcnVariant(x, "rm_connector", Fixed, {slsNode[x], x})
RemoveNcnSparesNone(x) == RemoveNcnVariant(x, "rm_global", {}, {slsNode[x], x})
RemoveNcnForgetsBmc(x) == RemoveNcnVariant(x, "rm_global", Fixed, {slsNode[x]})

\* The reads.  Without hardware in SLS, without boot parameters in BSS or for
\* the first master, the script exits.
RemoveNcn(x) ==
    LET names == {slsNode[x], x} IN
    /\ slsNode[x] \notin {None, FirstMaster}
    /\ CanBoot(x)
    /\ Start("rm_global", slsNode[x], x)
    /\ nets' = IF slsNode[x] \in Fixed THEN reservations
               ELSE [n \in Network |-> [m \in Name |->
                        IF m \in names THEN Unset ELSE reservations[n][m]]]
    /\ global' = IF slsNode[x] \in Fixed THEN hostRecords
                 ELSE {r \in hostRecords : r.who # slsNode[x]}
    /\ reuse' = (slsNode[x] \in Fixed)       \* not state.remove_ips
    /\ UNCHANGED <<slsVars, bssVars, hsmVars, ncn_ips, bmc_ip, nid>>

RemoveHostRecords ==
    /\ pc = "rm_global"
    /\ hostRecords' = global \/ (Fails /\ hostRecords' = hostRecords)
    /\ Goto("rm_bootparams")
    /\ UNCHANGED <<slsVars, bootparams, hsmVars, planVars>>

RemoveBootparameters ==
    /\ pc = "rm_bootparams"
    /\ \/ bootparams' = [bootparams EXCEPT ![xname] = NoBootParams]
       \/ Fails /\ UNCHANGED bootparams
    /\ Goto("rm_ei")
    /\ UNCHANGED <<slsVars, hostRecords, hsmVars, planVars>>

\* One request per interface.
RemoveEthernetInterfaces ==
    /\ pc = "rm_ei"
    /\ nodeEi' = [nodeEi EXCEPT ![xname] = {}] \/ (Fails /\ UNCHANGED nodeEi)
    /\ bmcEi' = [bmcEi EXCEPT ![xname] = {}] \/ (Fails /\ UNCHANGED bmcEi)
    /\ Goto("rm_redfish")
    /\ UNCHANGED <<slsVars, bssVars, staleEi, hsmNid, bmcComp, redfish, planVars>>

RemoveRedfishEndpoint ==
    /\ pc = "rm_redfish"
    /\ redfish' = redfish \ {xname} \/ (Fails /\ UNCHANGED redfish)
    /\ Goto("rm_component")
    /\ UNCHANGED <<slsVars, bssVars, nodeEi, bmcEi, staleEi, hsmNid, bmcComp, planVars>>

RemoveComponent ==
    /\ pc = "rm_component"
    /\ hsmNid' = [hsmNid EXCEPT ![xname] = Unset] \/ (Fails /\ UNCHANGED hsmNid)
    /\ Goto("rm_bmc_component")
    /\ UNCHANGED <<slsVars, bssVars, nodeEi, bmcEi, staleEi, bmcComp, redfish, planVars>>

RemoveBmcComponent ==
    /\ pc = "rm_bmc_component"
    /\ bmcComp' = bmcComp \ {xname} \/ (Fails /\ UNCHANGED bmcComp)
    /\ Goto("rm_connector")
    /\ UNCHANGED <<slsVars, bssVars, nodeEi, bmcEi, staleEi, hsmNid, redfish, planVars>>

RemoveConnector ==
    /\ pc = "rm_connector"
    /\ connector' = connector \ {xname} \/ (Fails /\ UNCHANGED connector)
    /\ Goto("rm_node")
    /\ UNCHANGED <<slsNode, slsNid, reservations, bssVars, hsmVars, planVars>>

RemoveNode ==
    /\ pc = "rm_node"
    /\ \/ /\ slsNode' = [slsNode EXCEPT ![xname] = None]
          /\ slsNid' = [slsNid EXCEPT ![xname] = Unset]
       \/ Fails /\ UNCHANGED <<slsNode, slsNid>>
    /\ Goto("rm_put")
    /\ UNCHANGED <<connector, reservations, bssVars, hsmVars, planVars>>

\* PUT of each network with the reservations read at the start, less those of
\* the NCN; nothing is PUT when the IPs are kept.
RemoveReservations ==
    LET n == <<"NMN", "HMN">>[put] IN
    /\ pc = "rm_put"
    /\ \/ reservations' = [reservations EXCEPT ![n] = nets[n]]
       \/ Fails /\ UNCHANGED reservations
    /\ IF put = 1 THEN put' = 2 /\ pc' = pc ELSE put' = 1 /\ pc' = "rm_report"
    /\ UNCHANGED <<slsNode, slsNid, connector, bssVars, hsmVars, argVars, planVars, runs>>

\* The script prints `Successfully removed' and ends.
ReportRemoved ==
    /\ pc = "rm_report" /\ Exit
    /\ UNCHANGED <<slsVars, bssVars, hsmVars>>

-----------------------------------------------------------------------------
(* External: hms-discovery and Kea.                                        *)

Removing == pc \in {"rm_global", "rm_bootparams", "rm_ei", "rm_redfish", "rm_component",
                    "rm_bmc_component", "rm_connector", "rm_node", "rm_put", "rm_report"}

\* Discovery reaches the BMCs that have an address and takes what it finds from
\* SLS; the procedure suspends it while an NCN is removed.
Discover(x) ==
    /\ ~Removing
    /\ slsNode[x] # None /\ bmcEi[x] # {} /\ x \notin redfish
    /\ redfish' = redfish \cup {x} /\ bmcComp' = bmcComp \cup {x}
    /\ hsmNid' = [hsmNid EXCEPT ![x] = slsNid[x]]
    /\ UNCHANGED <<slsVars, bssVars, nodeEi, bmcEi, staleEi, pc, argVars, planVars, put, runs>>

\* Kea leases an address of the dynamic range and HSM records the interface.
Lease(address) ==
    /\ address[2] >= DhcpStart[address[1]] /\ address[2] < Broadcast[address[1]]
    /\ address \notin Owned \cup staleEi
    /\ \A m \in Name : reservations[address[1]][m] # address[2]
    /\ staleEi' = staleEi \cup {address}
    /\ UNCHANGED <<slsVars, bssVars, nodeEi, bmcEi, hsmNid, bmcComp, redfish,
                   pc, argVars, planVars, put, runs>>

Step ==
    \/ \E a \in SiteAlias, x \in SiteXname :
          AllocateIps(a, x) \/ AllocateIpsRaises(a, x) \/ NcnData(a, x)
    \/ Traceback \/ AllocateValidate \/ PutNetwork \/ UpdateGlobal
    \/ NcnDataValidate \/ CreateNode \/ CreateConnector \/ CreateNodeEi \/ CreateBmcEi
    \/ CreateComponent \/ PutBootparameters
    \/ \E x \in SiteXname : RemoveNcn(x) \/ Discover(x)
    \/ RemoveHostRecords \/ RemoveBootparameters \/ RemoveEthernetInterfaces
    \/ RemoveRedfishEndpoint \/ RemoveComponent \/ RemoveBmcComponent
    \/ RemoveConnector \/ RemoveNode \/ RemoveReservations \/ ReportRemoved
    \/ Interrupt
    \/ \E address \in Address : Lease(address)

Next == Step /\ UNCHANGED site

Spec == Init /\ [][Next]_vars

-----------------------------------------------------------------------------
(* Properties.                                                             *)

\* No two names share an IP of a network and none has the gateway's: the next
\* IP is looked for with everything that is already promised in view.
ReservationsUnique ==
    \A n \in Network, l, m \in Name :
        /\ reservations[n][l] # Gateway
        /\ (l # m /\ reservations[n][l] # Unset) => reservations[n][l] # reservations[n][m]

\* An IP that BSS gives to a host is reserved in SLS for that host: the scripts
\* write SLS before BSS when they add and BSS before SLS when they remove, so
\* that an interruption never leaves in BSS an IP that SLS would hand out again.
\* A removal passes over a request that fails: then nothing of this holds.
NamesOf(r) == IF r.for = "mgmt" THEN Xname ELSE {r.who}
HostRecordsAreReserved ==
    ~Fails => \A r \in hostRecords : \E m \in NamesOf(r) : reservations[RecordNetwork(r)][m] = r.ip

\* A node that can boot (it has boot parameters) boots with IPs that SLS
\* reserves for it, unless a request of a removal failed.
BootsWithReservedIps ==
    ~Fails => \A x \in Xname : CanBoot(x) =>
        \A n \in Network : reservations[n][bootparams[x].alias] = bootparams[x].ips[n]

\* SLS and HSM never know two nodes with one NID: ncn-data looks at both.
NidsUnique ==
    \A x, y \in Xname : x # y =>
        /\ slsNid[x] # Unset => slsNid[x] \notin {slsNid[y], hsmNid[y]}
        /\ hsmNid[x] # Unset => hsmNid[x] # hsmNid[y]

\* The first NCNs keep their IPs, and their BMCs' IP stays reserved, through
\* any removal and addition (the Ceph monitors and chrony.conf rely on them).
FixedIpsKept ==
    \A a \in Fixed :
        /\ \A n \in Network : reservations[n][a] = InstalledIp[n][a]
        /\ InstalledBmcIp[a] \in Reserved("HMN", reservations)

\* When the script reports that an NCN was removed and no request failed, no
\* service knows it, but for the IPs of the first NCNs.
ReportedMeansRemoved ==
    (pc = "rm_report" /\ ~Fails) =>
        /\ slsNode[xname] = None /\ xname \notin connector
        /\ ~CanBoot(xname)
        /\ nodeEi[xname] = {} /\ bmcEi[xname] = {} /\ hsmNid[xname] = Unset
        /\ xname \notin bmcComp /\ xname \notin redfish
        /\ alias \notin Fixed =>
              /\ \A n \in Network : reservations[n][alias] = Unset /\ reservations[n][xname] = Unset
              /\ \A r \in hostRecords : r.who # alias

\* Two host records never give one IP.
HostRecordIpsUnique ==
    \A r, q \in hostRecords :
        (RecordNetwork(r) = RecordNetwork(q) /\ r.ip = q.ip) => r = q
=============================================================================
