---------------------------- MODULE MCSlsChanges ----------------------------
(* The scripts that change SLS, one at a time: the upgrade to CSM 1.2 with  *)
(* the move to the CHN and the addresses of UANs, NID defragmentation, and  *)
(* the addition of cabinets.                                                *)
EXTENDS MCDefragmentNids, UanIps, Cabinets

VARIABLE changed        \* what is changed

changesVars == <<vars, slsVars, chnVars, uanVars, cabinetVars, changed>>

(* A CAN with addresses from 64, an HMN with three switches, and so on.     *)
Old == Cidr(64, 26)
S(n, cidr, gw, vlan, dhcp, rs) ==
    [key |-> n, name |-> n, cidr |-> cidr, gateway |-> gw, vlan |-> vlan, dhcp |-> dhcp,
     range |-> NoRange, pool |-> <<>>, reservations |-> rs]
Listed(names, first) == [i \in DOMAIN names |-> Reservation(names[i], first + i - 1)]

CanNames == <<<<"can", "switch", "1">>, <<"can", "switch", "2">>, <<"ncn-w001">>, KubeApi, <<"ncn-m001", "can">>,
              <<"ncn-w002">>>>
\* The bootstrap_dhcp of an old CAN: in all of its network or in its lower half,
\* with a hole among the addresses of n devices.
OldBootstrap(cidr, n) ==
    S(Bootstrap, cidr, 65, 7, <<80, 90>>, Listed(SubSeq(CanNames, 1, 2), 66) \o Listed(SubSeq(CanNames, 3, n), 69))
MCDump(cidr, n, uai) ==
    [hardware |-> <<<<"sw", "leaf", "001">>, <<"sw", "agg", "001">>, <<"sw", "spine", "001">>>>,
     nets |-> [x \in SlsNetwork |->
       CASE x = "CAN" -> Net(Old, <<OldBootstrap(cidr, n),
              S(Pool("can"), Cidr(96, 28), 97, 7, NoRange, Listed(<<<<"istio", "ingressgateway">>>>, 98)),
              S(Static("can"), Cidr(112, 28), 113, 7, NoRange, Listed(<<<<"external", "dns">>>>, 114))>>)
         [] x = "HMN" -> Net(Cidr(256, 26), <<S(Switches, Cidr(256, 26), 257, 4, NoRange,
              Listed(<<<<"sw", "leaf", "001">>, <<"sw", "agg", "001">>, <<"sw", "spine", "001">>>>, 258))>>)
         [] x = "NMN" -> Net(Cidr(320, 26), <<S(Bootstrap, Cidr(320, 26), 321, 2, <<330, 340>>,
                                              Listed(<<KubeApi>>, 322))>>
              \o IF uai THEN <<S(Uai, Cidr(352, 28), 353, 3, NoRange, Listed(<<<<"uai", "macvlan_bridge">>>>, 354))>>
                 ELSE <<>>)
         [] x = "NMNLB" -> Net(Cidr(384, 27), <<S(Pool("nmn"), Cidr(384, 27), 385, 2, NoRange,
                                                   Listed(<<<<"istio", "ingressgateway">>>>, 386))>>)
         [] x = "HMNLB" -> Net(Cidr(416, 27), <<S(Pool("hmn"), Cidr(416, 27), 417, 4, NoRange,
                Listed(<<<<"istio", "ingressgateway">>, Unbound>>, 418))>>)
         [] x = "HSN" -> Net(Cidr(448, 27), <<S(HsnBase, Cidr(448, 27), 449, 9, NoRange, <<>>)>>)
         [] OTHER -> NoNetwork]]
MCSlsInputs == {MCDump(c, n, TRUE) : c \in {Old, Cidr(64, 27)}, n \in 4..6} \cup {MCDump(Old, 4, FALSE)}
MCUnboundIp == [NMNLB |-> 409, HMNLB |-> 441]

Command == [bican |-> "CAN", retain |-> FALSE, preserve |-> "", edge |-> 2, can |-> Cidr(128, 27), canVlan |-> 6,
            chn |-> Cidr(192, 27), chnVlan |-> 5, canOverrides |-> <<>>, cmnOverrides |-> <<>>]
MCUpgradeOptions ==
    {[Command EXCEPT !.bican = b, !.retain = r] : b \in {"CAN", "CHN", "HSN"}, r \in BOOLEAN}
    \cup {[Command EXCEPT !.preserve = p, !.edge = e, !.retain = e = 1] :
             p \in {"", "external-dns", "ncns"}, e \in {1, 2}}
    \cup {[Command EXCEPT !.can = Cidr(64, 27)], [Command EXCEPT !.canVlan = 7], [Command EXCEPT !.chn = Cidr(192, 29)],
          [Command EXCEPT !.cmnOverrides = (Bootstrap :> Cidr(64, 26))],
          [Command EXCEPT !.cmnOverrides = (Bootstrap :> Cidr(96, 28))],
          [Command EXCEPT !.can = Cidr(128, 28)]}

MCChnBlocks == {Cidr(480, 28), Cidr(480, 27), Cidr(128, 28)}
MCHsnInterface == <<"x1", "h0">> :> "h0" @@ <<"x1", "h1">> :> "h1" @@ <<"x2", "h0">> :> "h0"
MCHsnReservations == {<<>>, Listed(<<<<"x1", "h0">>, <<"x1", "h1">>>>, 450), Listed(<<<<"x2", "h0">>, <<"x1", "h0">>>>, 450)}
Entry(b) == [can |-> b, id |-> 1]
HostRecord(b, t, i) == [can |-> b, twice |-> t, id |-> i]
MCBssHosts == {[ipam |-> i, ntp |-> n, host_records |-> h] :
     i \in {{"can", "nmn"}, {"nmn"}},
     n \in {<<Entry(TRUE), Entry(FALSE)>>, <<Entry(FALSE), Entry(TRUE), Entry(TRUE)>>},
     h \in {<<HostRecord(FALSE, FALSE, 1), HostRecord(TRUE, FALSE, 2), HostRecord(FALSE, FALSE, 3)>>,
            <<HostRecord(TRUE, TRUE, 1), HostRecord(FALSE, FALSE, 2)>>}}
MCUanNode == {"x8", "x9"}
MCUanAliases == {[x \in MCUanNode |-> IF x = "x8" THEN <<a>> ELSE <<b>>] : a, b \in {"uan01", "uan02"}} \
    {[x \in MCUanNode |-> <<a>>] : a \in {"uan01", "uan02"}}

(* Two blocks of each network are free, or one and a half.                  *)
Mtn(base, lens) == [cidr |-> Cidr(base, 20),
                    subnets |-> [i \in DOMAIN lens |->
                        [name |-> <<"x1000", "x1000 second">>[i], cidr |-> Cidr(base + 1024 * (2 * i - 2), lens[i]),
                         vlan |-> 10 * base + i, gateway |-> base + 1024 * (2 * i - 2) + 1, dhcp |-> NoRange]]]
MCCabinetFiles ==
    {[cabinets |-> {}, nodes |-> {}, nets |-> [n \in CabinetNetwork |-> NoMountain]]}
    \cup {[cabinets |-> {"x1000"}, nodes |-> {[nid |-> 1, role |-> "Compute"], [nid |-> 5, role |-> "Application"]},
           nets |-> ("HMN_MTN" :> Mtn(4096, l) @@ "NMN_MTN" :> Mtn(0, l))] : l \in {<<22>>, <<22, 21>>, <<22, 23>>}}
MCCabinetCommands ==
    [cabinet : {"x1000", "x1001", "x1002"}, type : {"Hill", "EX2500"}, chassis : {3, 4},
     hmnVlan : {11, 12}, nmnVlan : {12, 21, 22}, startingNid : {2, 3, 5}]

Changes == {"user networks", "NIDs", "cabinets"}
InUpgrade == changed = "user networks"
UpgradeAtRest ==
    /\ slsDump = MCDump(Old, 4, TRUE) /\ slsOptions = Command /\ slsCommands = <<Command>> /\ slsFile = slsDump
    /\ slsNets = [n \in SlsNetwork |-> NoNetwork] /\ slsHardware = <<>>
    /\ slsClone = NotCloning /\ slsStale = {} /\ slsPc = "load" /\ slsRuns = 0
NidsAtRest ==
    /\ model \in MCInventories /\ disabled = {} /\ slsNid = [n \in Node |-> NoNid] /\ hsmNid = slsNid
    /\ \A n \in Node : model[n] = "A"
    /\ endpoint = {} /\ eth = {}
    /\ pc = "idle" /\ startingNID = NoNid /\ allowedNodes = {} /\ workingNodeList = {}
    /\ todo = {} /\ call = 1 /\ runs = 0
CabinetsAtRest ==
    /\ cabinetDump = [cabinets |-> {}, nodes |-> {}, nets |-> [n \in CabinetNetwork |-> NoMountain]]
    /\ cabinetFile = cabinetDump /\ cabinetsAdded = <<>>
ChangesInit ==
    /\ changed \in Changes
    /\ IF InUpgrade THEN SlsInit ELSE UpgradeAtRest
    /\ IF changed = "NIDs" THEN Init ELSE NidsAtRest
    /\ IF changed = "cabinets" THEN CabinetInit ELSE CabinetsAtRest
    /\ ChnInit
    /\ UanInit /\ uanAlias["x8"] = <<"uan01">>

\* The CHN is enabled after upgrades without further options, and UANs get their
\* addresses when there are two networks, or when the computes have got theirs.
EnablesChn ==
    \A c \in ToSet(slsCommands) :
        c = FirstCommand /\ c.edge = 2 /\ c.preserve = "" /\ c.cmnOverrides = <<>>
ServesUans ==
    /\ slsDump = MCDump(Old, 5, TRUE) /\ slsRuns = 1 /\ slsOptions.can = Command.can
    /\ \/ chnPc = "computes" /\ chnSls["HSN"] = slsFile.nets["HSN"]
       \/ chnPc = "bss" /\ chnFiles["computes"] # NoFile /\ chnFiles["dump"]["CHN"] = slsFile.nets["CHN"]
UpgradeChanges ==
    /\ InUpgrade
    /\ \/ chnPc = "idle" /\ SlsNext /\ UNCHANGED <<chnVars, uanVars>>
       \/ EnablesChn /\ uanRuns = 0 /\ uanHsm = {} /\ ChnNext /\ UNCHANGED <<slsVars, uanVars>>
       \/ ServesUans /\ UanNext /\ UNCHANGED <<slsVars, chnFiles, chnPc, bssHost>>
    /\ UNCHANGED <<vars, cabinetVars>>
ChangesNext ==
    /\ UNCHANGED changed
    /\ \/ UpgradeChanges
       \/ changed = "NIDs" /\ Next /\ UNCHANGED <<slsVars, chnVars, uanVars, cabinetVars>>
       \/ changed = "cabinets" /\ AddCabinet /\ UNCHANGED <<vars, slsVars, chnVars, uanVars>>
ChangesSpec == ChangesInit /\ [][ChangesNext]_changesVars

\* The upgrade for two user networks, one after the other.
OtherInputs == {MCDump(Old, 4, TRUE)}
OtherOptions == {Command, [Command EXCEPT !.bican = "CHN"]}
UpgradeSpec == ChangesInit /\ InUpgrade /\ [][ChangesNext]_changesVars

-----------------------------------------------------------------------------
(* The properties of the modules together; what an upgrade wrote stays as it  *)
(* is while the CHN is enabled.                                               *)

\* All of the scripts keep their state well-formed (see the modules).
ChangesTypeOK == TypeOK /\ (chnPc = "idle" => SlsTypeOK) /\ ChnTypeOK /\ UanTypeOK /\ CabinetTypeOK

\* No script gives an address away twice: in the customer networks of CSM 1.2,
\* in the CHN, to a UAN, or to a cabinet.
NoAddressTwice ==
    /\ chnPc = "idle" => SlsAddressesUnique /\ SlsPoolsApart
    /\ ChnAddressesApart /\ UanAddressesOwn /\ CabinetSubnetsApart

\* Users are never routed to a network that is not in SLS: neither by the upgrade, if
\* no rerun takes their network for unused, nor by the move to the CHN.
UsersHaveANetwork == UserNetworkExists /\ ChnUserNetworkExists

\* VLANs are one per customer network and one per subnet of a cabinet; no node is
\* in two cabinets.
VlansApart == (chnPc = "idle" => VlansAgree) /\ CabinetsApart

\* When a run of the upgrade writes the file: on what it wrote before, it changes
\* nothing that it is not asked to change, above all not the names of the switches.
RerunIsSafe == [][slsPc = "write" => SwitchesRenamedOnce' /\ RerunKeepsFile]_changesVars

\* The scripts that follow the upgrade add and remove what they are for, and that
\* only: the computes in the CHN, the CAN in the boot parameters.
ChnMoveIsExact == [][ComputesAdded' /\ BssLosesOnlyCan]_changesVars
=============================================================================
