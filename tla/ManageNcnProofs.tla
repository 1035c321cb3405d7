--------------------------- MODULE ManageNcnProofs ---------------------------
(***************************************************************************)
(* Proofs about ManageNcn: for any hostnames, slots, networks of any size, *)
(* any number of scripts and interruptions anywhere.                       *)
(*                                                                         *)
(* What a script changes depends on copies that it read before, so most of *)
(* the invariant says how the copies and the plan of the running script    *)
(* relate to what the services hold.                                       *)
(***************************************************************************)
EXTENDS ManageNcn, FiniteSetTheorems, WellFoundedInduction, TLAPS

-----------------------------------------------------------------------------
(* The invariant: where the script is.                                     *)

\* Until the last PUT of an addition.
Adding   == pc \in {"alloc_validate", "alloc_put", "data_validate", "data_node", "data_connector",
                    "data_put"}
HasNoNode == pc \in {"alloc_validate", "alloc_put", "alloc_global", "data_validate", "data_node"}
HasNode  == pc \in {"data_connector", "data_put", "data_ei", "data_bmc_ei", "data_component",
                    "data_bootparams", "rm_global", "rm_bootparams"}
InData   == pc \in {"data_validate", "data_node", "data_connector", "data_put", "data_ei",
                    "data_bmc_ei", "data_component", "data_bootparams"}
InAlloc  == pc \in {"alloc_validate", "alloc_put", "alloc_global"}

\* The types, in the form in which the steps keep them.
Types ==
    /\ TypeOK
    /\ reservations \in [Network -> [Name -> IP]]
    /\ \A n \in Network : nets[n] \in [Name -> 0..Broadcast[n] - 1]
    /\ \A k \in Key : ncn_ips[k] < Broadcast[NetworkOf(k)]
    /\ bmc_ip < Broadcast["HMN"]
    /\ pc # "idle" => alias \in Alias /\ xname \in Xname
    /\ pc \notin {"alloc_put", "data_put", "rm_put"} => put = 1
    /\ pc = "rm_put" => put \in 1..2
    /\ InData => nid \in Nid

\* No node is twice in SLS; the script works on a slot that is free, or on that of
\* its node.
SlotsFollowScript ==
    /\ \A x, y \in Xname : x # y /\ slsNode[x] # None => slsNode[x] # slsNode[y]
    /\ HasNoNode => slsNode[xname] = None /\ \A y \in Xname : slsNode[y] # alias
    /\ HasNode => slsNode[xname] = alias
    /\ pc = "alloc_validate" \/ pc = "alloc_put" \/ pc = "alloc_global" => reuse = (alias \in Fixed)
    /\ InData => reuse

\* The copies that a script writes back are those of the present state.
CopiesAreCurrent ==
    /\ pc \in {"alloc_put", "alloc_global"} => global = hostRecords
    /\ pc = "rm_global" => global = IF alias \in Fixed THEN hostRecords
                                    ELSE {r \in hostRecords : r.who # alias}
    /\ Adding => \A n \in Network, m \in Name \ {alias, xname, Vip} :
                    nets[n][m] \in {reservations[n][m], Unset}
    /\ Removing => \A n \in Network, m \in Name :
                      nets[n][m] = IF alias \notin Fixed /\ m \in {alias, xname} THEN Unset
                                   ELSE reservations[n][m]

-----------------------------------------------------------------------------
(* The invariant: IPs and NIDs are unique.                                 *)

Distinct(f) == \A l, m \in Name : f[l] # Gateway /\ (l # m /\ f[l] # Unset => f[l] # f[m])

\* An IP that is to be reserved for the name m is nobody else's in the copy.
Fits(n, m, ip) == ip # Gateway /\ (ip # Unset => \A l \in Name \ {m} : nets[n][l] # ip)
PlanFits ==
    /\ Adding => /\ \A n \in Network : /\ Fits(n, alias, ncn_ips[n])
                                       /\ Fits(n, Vip, ncn_ips[VipKey(n)])
                 /\ Fits("HMN", xname, bmc_ip)
    /\ Adding \/ pc = "alloc_global" =>
          /\ \A n \in Network : ncn_ips[n] # Unset => ncn_ips[n] # ncn_ips[VipKey(n)]
          /\ bmc_ip \notin {Unset, ncn_ips["HMN"], ncn_ips["HMN-fmn-vip"]}
          /\ reuse => \A n \in Network : ncn_ips[VipKey(n)] = Unset
          /\ ~reuse => \A n \in Network : ncn_ips[n] # Unset

IpsDistinct ==
    /\ \A n \in Network : Distinct(reservations[n]) /\ Distinct(nets[n])
    /\ PlanFits

\* The NID that was chosen is nobody's, until the node has it.
NidIsNew ==
    /\ pc = "data_validate" => \A y \in Xname : slsNid[y] # nid
    /\ pc = "data_node" => \A y \in Xname : nid \notin {slsNid[y], hsmNid[y]}
    /\ InData /\ HasNode => slsNid[xname] = nid

-----------------------------------------------------------------------------
(* The invariant: the first NCNs.                                          *)

FixedIps(n) == {InstalledIp[n][a] : a \in Fixed}
               \cup (IF n = "HMN" THEN {InstalledBmcIp[a] : a \in Fixed} ELSE {})

\* The host records of the first NCNs are those of the installation, and nobody
\* else's have their IPs.
FixedRecordsKept ==
    /\ \A a \in Fixed : /\ \A n \in Network : [who |-> a, for |-> n, ip |-> InstalledIp[n][a]] \in hostRecords
                        /\ [who |-> a, for |-> "mgmt", ip |-> InstalledBmcIp[a]] \in hostRecords
    /\ \A r \in hostRecords :
          IF r.who \in Fixed
          THEN r.ip = IF r.for = "mgmt" THEN InstalledBmcIp[r.who] ELSE InstalledIp[r.for][r.who]
          ELSE r.ip \notin FixedIps(RecordNetwork(r))

\* The IPs of their BMCs are reserved under names of slots, and never under that of
\* a slot where another NCN is, or is to be.
FixedBmcsKept ==
    /\ \A a \in Fixed : \E x \in Xname : reservations["HMN"][x] = InstalledBmcIp[a]
    /\ \A x \in Xname : slsNode[x] \notin Fixed \cup {None} => reservations["HMN"][x] \notin FixedIps("HMN")
    /\ (pc \in {"data_validate", "data_node"} \/ Removing) /\ alias \notin Fixed =>
          reservations["HMN"][xname] \notin FixedIps("HMN")

\* An addition writes their IPs back, or leaves them alone.
PlanKeepsFixed ==
    /\ Adding => \A a \in Fixed \ {alias} :
          /\ \A n \in Network : nets[n][a] = InstalledIp[n][a]
          /\ \E x \in Xname \ {xname} : nets["HMN"][x] = InstalledBmcIp[a]
    /\ Adding /\ alias \in Fixed =>
          bmc_ip = InstalledBmcIp[alias] /\ \A n \in Network : ncn_ips[n] = InstalledIp[n][alias]
    /\ (Adding \/ pc = "alloc_global") /\ alias \notin Fixed =>
          /\ bmc_ip \notin FixedIps("HMN")
          /\ \A k \in Key : ncn_ips[k] \notin FixedIps(NetworkOf(k))

FixedInv == FixedIpsKept /\ FixedRecordsKept /\ FixedBmcsKept /\ PlanKeepsFixed

-----------------------------------------------------------------------------
(* The invariant: without failing requests, the services agree.            *)

\* BSS has all records of an NCN or none, one of each kind, and no IP twice.
RecordsAreSound ==
    /\ HostRecordIpsUnique
    /\ \A r, q \in hostRecords : r.who = q.who /\ r.for = q.for => r = q
    /\ \A r \in hostRecords :
          /\ r.ip # Unset
          /\ r.for = "mgmt" => /\ r.who # Vip
                               /\ \A n \in Network : \E q \in hostRecords : q.who = r.who /\ q.for = n

\* The IP of the BMC in a slot is that of the node that is there, or is to be there.
SlotsOwnIps ==
    \A r \in hostRecords : r.for = "mgmt" =>
        /\ \A x \in Xname : slsNode[x] # None /\ reservations["HMN"][x] = r.ip => r.who = slsNode[x]
        /\ /\ pc \in {"data_validate", "data_node"} \/ (Removing /\ alias \notin Fixed)
           /\ reservations["HMN"][xname] = r.ip
           => r.who = alias

\* A node that can boot is in SLS.
BootsAreInSls ==
    \A x \in Xname : CanBoot(x) =>
        slsNode[x] = bootparams[x].alias /\ \A n \in Network : bootparams[x].ips[n] # Unset

\* What an addition writes leaves what BSS has given out where it was, or moves
\* the IP of a BMC to the slot where the NCN is to be.
PlanKeepsRecords ==
    Adding =>
        /\ \A r \in hostRecords :
              CASE r.for = "mgmt" -> \/ reuse /\ bmc_ip = r.ip
                                     \/ \E x \in Xname \ {xname} : nets["HMN"][x] = r.ip
                [] r.for # "mgmt" /\ r.who = alias -> ncn_ips[r.for] = r.ip
                [] OTHER -> nets[r.for][r.who] = r.ip
        /\ \A x \in Xname : CanBoot(x) => \A n \in Network :
              IF bootparams[x].alias = alias THEN ncn_ips[n] = bootparams[x].ips[n]
              ELSE nets[n][bootparams[x].alias] = bootparams[x].ips[n]

\* IPs that are used again are reserved for the NCN all the time; new ones are not in BSS.
PlanIsNew ==
    /\ reuse /\ (Adding \/ InData) =>
          /\ \A n \in Network : ncn_ips[n] # Unset /\ reservations[n][alias] = ncn_ips[n]
          /\ Adding => [who |-> alias, for |-> "mgmt", ip |-> bmc_ip] \in hostRecords
    /\ ~reuse /\ (Adding \/ pc = "alloc_global") => \A r \in hostRecords :
          /\ r.who # alias /\ (RecordNetwork(r) = "HMN" => r.ip # bmc_ip)
          /\ \A k \in Key : RecordNetwork(r) = NetworkOf(k) /\ ncn_ips[k] # Unset => r.ip # ncn_ips[k]
          /\ r.who = Vip => ncn_ips[VipKey(r.for)] = Unset

\* What was PUT is in SLS and in the copy.
Written ==
    pc \in {"alloc_put", "alloc_global"} =>
        \A i \in 1..Len(Keys) : (pc = "alloc_global" \/ i < put) /\ ncn_ips[Keys[i]] # Unset =>
            LET n == NetworkOf(Keys[i])
            IN  \A f \in {reservations, nets} :
                    /\ f[n][IF Keys[i] = n THEN alias ELSE Vip] = ncn_ips[Keys[i]]
                    /\ n = "HMN" => f["HMN"][xname] = bmc_ip

\* How far a removal has come.
RmRank == CASE pc = "rm_global" -> 1        [] pc = "rm_bootparams" -> 2    [] pc = "rm_ei" -> 3
            [] pc = "rm_redfish" -> 4       [] pc = "rm_component" -> 5     [] pc = "rm_bmc_component" -> 6
            [] pc = "rm_connector" -> 7     [] pc = "rm_node" -> 8          [] pc = "rm_put" -> 9
            [] pc = "rm_report" -> 10       [] OTHER -> 0
RemovedSoFar ==
    /\ RmRank > 1 /\ alias \notin Fixed => \A r \in hostRecords : r.who # alias
    /\ RmRank > 2 => \A x \in Xname : CanBoot(x) => x # xname /\ bootparams[x].alias # alias
    /\ RmRank > 3 => nodeEi[xname] = {} /\ bmcEi[xname] = {}
    /\ RmRank > 4 => xname \notin redfish
    /\ RmRank > 5 => hsmNid[xname] = Unset
    /\ RmRank > 6 => xname \notin bmcComp
    /\ RmRank > 7 => xname \notin connector
    /\ RmRank > 8 => slsNode[xname] = None
    /\ alias \notin Fixed =>
          \A n \in Network : (RmRank = 10 \/ (RmRank = 9 /\ n = "NMN" /\ put = 2)) =>
              reservations[n][alias] = Unset /\ reservations[n][xname] = Unset

ServicesAgree ==
    ~Fails =>
        /\ HostRecordsAreReserved /\ BootsWithReservedIps
        /\ RecordsAreSound /\ SlotsOwnIps /\ BootsAreInSls
        /\ PlanKeepsRecords /\ PlanIsNew /\ Written /\ RemovedSoFar

IInv == /\ Types /\ SlotsFollowScript /\ CopiesAreCurrent /\ IpsDistinct
        /\ NidsUnique /\ NidIsNew /\ FixedInv /\ ServicesAgree

-----------------------------------------------------------------------------
(* Constants, and the choice of IPs.                                       *)

\* The names are apart, and every IP of a site is in IP.
LEMMA Sorts ==
    /\ Alias \subseteq Name /\ Xname \subseteq Name /\ Vip \in Name
    /\ \A a \in Alias : a # Vip /\ a # None /\ a \notin Xname
    /\ \A x \in Xname : x # Vip /\ x # None /\ x \notin Alias
    /\ Network \subseteq Key
    /\ \A n \in Network : VipKey(n) \in Key \ Network /\ NetworkOf(n) = n /\ NetworkOf(VipKey(n)) = n
    /\ \A k \in Key : NetworkOf(k) \in Network /\ (k = NetworkOf(k) \/ k = VipKey(NetworkOf(k)))
    /\ Nid \subseteq Nat \ {Unset}
<1>1. Cardinality(Xname) \in Nat
  BY ManageNcnAssumption, FS_CardinalityType
<1>2. Nid \subseteq Nat \ {Unset}
  BY <1>1 DEF Nid, StartNid, Unset
<1>. QED BY <1>2, ManageNcnAssumption DEF Name, Network, Key, VipKey, NetworkOf

LEMMA SiteFacts ==
    ASSUME site \in Sites
    PROVE  /\ LastIp \in Nat /\ IP = 0..LastIp
           /\ \A n \in Network : Broadcast[n] \in Nat \ {0} /\ Broadcast[n] <= LastIp
           /\ MaxRuns \in Nat
           /\ SiteAlias \subseteq Alias /\ SiteXname \subseteq Xname
           /\ InstalledVip \in [Network -> IP \ {Gateway}]
           /\ \A n \in Network, a \in Fixed : InstalledIp[n][a] < Broadcast[n]
           /\ \A n \in Network : InstalledVip[n] < Broadcast[n]
           /\ \A a \in Fixed : InstalledBmcIp[a] < Broadcast["HMN"]
<1>. DEFINE All == UNION {{t.broadcast[n] : n \in Network} : t \in Sites}
            IsLast(i) == \A t \in Sites, n \in Network : t.broadcast[n] <= i
<1>1. PICK u \in Sites, m \in Network : IsLast(u.broadcast[m])
  BY LastIpAssumption
<1>2. u.broadcast[m] \in All
  OBVIOUS
<1>3. LastIp \in All /\ IsLast(LastIp)
  BY <1>1, <1>2 DEF LastIp
<1>4. All \subseteq Nat
  BY ManageNcnAssumption
<1>. QED BY <1>3, <1>4, ManageNcnAssumption DEF IP, Broadcast, MaxRuns, SiteAlias, SiteXname, InstalledVip

\* Among IPs below a bound there is a highest one: the range from it to the
\* bound has no other such range in it.
LEMMA HighestIsMax ==
    ASSUME NEW bound \in Nat, NEW ips \in SUBSET (0..bound)
    PROVE  /\ Highest(ips) \in ips \cup {Gateway}
           /\ \A i \in ips \cup {Gateway} : i <= Highest(ips)
<1>. DEFINE all == ips \cup {Gateway}
            above(i) == i..(bound + 1)
            ranges == {above(i) : i \in all}
<1>1. all \subseteq above(0)
  BY DEF Gateway
<1>2. ranges # {} /\ ranges \subseteq FiniteSubsetsOf(above(0))
  <2>. SUFFICES ASSUME NEW i \in all  PROVE above(i) \in FiniteSubsetsOf(above(0))
    OBVIOUS
  <2>1. IsFiniteSet(above(i))
    BY <1>1, FS_Interval
  <2>. QED BY <1>1, <2>1 DEF FiniteSubsetsOf
<1>3. PICK g \in ranges : \A h \in ranges : <<h, g>> \notin StrictSubsetOrdering(above(0))
  <2>. HIDE DEF ranges
  <2>. QED BY <1>2, FS_StrictSubsetOrderingWellFounded, WFMin
<1>4. PICK i \in all : g = above(i)
  OBVIOUS
<1>5. \A j \in all : j <= i
  <2>. SUFFICES ASSUME NEW j \in all, i < j  PROVE FALSE
    BY <1>1
  <2>1. above(j) \subseteq above(i) /\ above(j) # above(i)
    BY <1>1
  <2>2. above(i) \subseteq above(0)
    BY <1>1
  <2>3. <<above(j), above(i)>> \in StrictSubsetOrdering(above(0))
    <3>. HIDE DEF above
    <3>. QED BY <2>1, <2>2 DEF StrictSubsetOrdering
  <2>. QED BY <1>3, <1>4, <2>3
<1>. QED BY <1>4, <1>5 DEF Highest

\* The IPs of a new NCN are above all that are reserved, and apart.
LEMMA NewIpsAreNew ==
    ASSUME Types, NEW a
    PROVE  /\ NewBmcIp \in Nat /\ NewBmcIp > Gateway
           /\ \A i \in Reserved("HMN", reservations) : i < NewBmcIp
           /\ NewIps(a) \in [Key -> Nat]
           /\ \A n \in Network :
                 /\ NewIps(a)[n] > Gateway
                 /\ \A i \in Reserved(n, reservations) : i < NewIps(a)[n]
                 /\ NewIps(a)[VipKey(n)] \in {Unset, NewIps(a)[n] + 1}
                 /\ NewIps(a)[VipKey(n)] # Unset => reservations[n][Vip] = Unset
           /\ NewBmcIp < NewIps(a)["HMN"]
<1>. USE Sorts
<1>1. LastIp \in Nat /\ IP = 0..LastIp
  BY SiteFacts DEF Types, TypeOK
<1>2. \A n \in Network : Reserved(n, reservations) \in SUBSET (0..LastIp)
  <2>. SUFFICES ASSUME NEW n \in Network, NEW m \in Name  PROVE reservations[n][m] \in 0..LastIp
    BY DEF Reserved
  <2>. QED BY <1>1 DEF Types
<1>3. /\ NewBmcIp \in 2..(LastIp + 2)
      /\ \A i \in Reserved("HMN", reservations) : i < NewBmcIp
  <2>. DEFINE ips == Reserved("HMN", reservations)
              h == Highest(ips)
  <2>1. ips \in SUBSET (0..LastIp)
    BY <1>2 DEF Network
  <2>2. NewBmcIp = h + 1
    BY DEF NewBmcIp, find_next_available_ip
  <2>. HIDE DEF ips
  <2>3. h \in ips \cup {Gateway} /\ \A i \in ips \cup {Gateway} : i <= h
    BY <1>1, <2>1, HighestIsMax
  <2>. HIDE DEF h
  <2>4. (h \in Nat /\ h >= 1 /\ h <= LastIp) \/ h = 1
    BY <1>1, <2>1, <2>3 DEF Gateway
  <2>5. \A i \in ips : i < h + 1
    BY <1>1, <2>1, <2>3, <2>4
  <2>. QED BY <1>1, <2>2, <2>4, <2>5 DEF ips
<1>4. \A n \in Network : InUse(n) \in SUBSET (0..(LastIp + 2))
  <2>. SUFFICES ASSUME NEW n \in Network, NEW i \in InUse(n)  PROVE i \in 0..(LastIp + 2)
    OBVIOUS
  <2>1. i \in Reserved(n, reservations) \/ i = NewBmcIp
    BY DEF InUse
  <2>. QED BY <1>1, <1>2, <1>3, <2>1
<1>5. ASSUME NEW n \in Network
      PROVE  /\ Highest(InUse(n)) \in Nat /\ Highest(InUse(n)) >= Gateway
             /\ \A i \in InUse(n) : i <= Highest(InUse(n))
  <2>1. LastIp + 2 \in Nat /\ InUse(n) \in SUBSET (0..(LastIp + 2))
    BY <1>1, <1>4
  <2>2. /\ Highest(InUse(n)) \in InUse(n) \cup {Gateway}
        /\ \A i \in InUse(n) \cup {Gateway} : i <= Highest(InUse(n))
    BY <2>1, HighestIsMax
  <2>. QED BY <2>1, <2>2 DEF Gateway
<1>6. \A n \in Network : /\ NewIps(a)[n] = Highest(InUse(n)) + 1
                         /\ NewIps(a)[VipKey(n)] \in {Unset, Highest(InUse(n)) + 2}
                         /\ NewIps(a)[VipKey(n)] # Unset => reservations[n][Vip] = Unset
  BY DEF NewIps, find_next_available_ip, NeedsVip
<1>7. NewIps(a) \in [Key -> Nat]
  <2>. SUFFICES ASSUME NEW k \in Key  PROVE NewIps(a)[k] \in Nat
    BY DEF NewIps
  <2>. QED BY <1>5, <1>6 DEF Unset
<1>8. ASSUME NEW n \in Network
      PROVE  /\ NewIps(a)[n] > Gateway
             /\ \A i \in InUse(n) : i < NewIps(a)[n]
             /\ NewIps(a)[VipKey(n)] \in {Unset, NewIps(a)[n] + 1}
  <2>1. /\ NewIps(a)[n] = Highest(InUse(n)) + 1
        /\ NewIps(a)[VipKey(n)] \in {Unset, Highest(InUse(n)) + 2}
    BY <1>6
  <2>2. \A i \in InUse(n) : i \in Nat
    BY <1>4
  <2>. QED BY <1>5, <2>1, <2>2 DEF Gateway, Unset
<1>9. \A n \in Network : Reserved(n, reservations) \subseteq InUse(n)
  BY DEF InUse
<1>10. NewBmcIp \in InUse("HMN") /\ "HMN" \in Network
  BY DEF InUse, Network
<1>11. NewBmcIp \in Nat /\ NewBmcIp > Gateway
  BY <1>1, <1>3 DEF Gateway
<1>12. NewBmcIp < NewIps(a)["HMN"]
  BY <1>8, <1>10
<1>. QED BY <1>3, <1>6, <1>7, <1>8, <1>9, <1>11, <1>12

-----------------------------------------------------------------------------
(* The types.                                                              *)

SlsTypes ==
    /\ slsNode \in [Xname -> Alias \cup {None}] /\ slsNid \in [Xname -> Nid \cup {Unset}]
    /\ connector \subseteq Xname
    /\ reservations \in [Network -> [Name -> IP]]
    /\ \A n \in Network : reservations[n] \in [Name -> 0..Broadcast[n] - 1]
BssTypes ==
    /\ hostRecords \subseteq HostRecord
    /\ bootparams \in [Xname -> BootParams]
HsmTypes ==
    /\ nodeEi \in [Xname -> SUBSET Address] /\ bmcEi \in [Xname -> SUBSET Address]
    /\ staleEi \subseteq Address
    /\ hsmNid \in [Xname -> Nid \cup {Unset}]
    /\ bmcComp \subseteq Xname /\ redfish \subseteq Xname
ArgTypes ==
    /\ pc \in ScriptStep
    /\ alias \in Alias \cup {None} /\ xname \in Xname \cup {None} /\ reuse \in BOOLEAN
    /\ pc # "idle" => alias \in Alias /\ xname \in Xname
    /\ put \in 1..Len(Keys) /\ runs \in 0..MaxRuns
    /\ pc \notin {"alloc_put", "data_put", "rm_put"} => put = 1
    /\ pc = "rm_put" => put \in 1..2
PlanTypes ==
    /\ nets \in [Network -> [Name -> IP]] /\ global \subseteq HostRecord
    /\ \A n \in Network : nets[n] \in [Name -> 0..Broadcast[n] - 1]
    /\ ncn_ips \in [Key -> IP] /\ \A k \in Key : ncn_ips[k] < Broadcast[NetworkOf(k)]
    /\ bmc_ip \in IP /\ bmc_ip < Broadcast["HMN"]
    /\ nid \in Nid \cup {Unset} /\ (InData => nid \in Nid)

LEMMA TypesParts == Types <=> site \in Sites /\ SlsTypes /\ BssTypes /\ HsmTypes /\ ArgTypes /\ PlanTypes
BY DEF Types, TypeOK, SlsTypes, BssTypes, HsmTypes, ArgTypes, PlanTypes

\* What every step of the proofs below starts from.
LEMMA Typed ==
    ASSUME Types
    PROVE  /\ site \in Sites
           /\ LastIp \in Nat /\ IP = 0..LastIp /\ MaxRuns \in Nat
           /\ \A n \in Network : Broadcast[n] \in Nat \ {0} /\ Broadcast[n] <= LastIp
           /\ SiteAlias \subseteq Alias /\ SiteXname \subseteq Xname
           /\ SlsTypes /\ BssTypes /\ HsmTypes /\ ArgTypes /\ PlanTypes
BY TypesParts, SiteFacts

LEMMA NothingTyped ==
    ASSUME Types
    PROVE  /\ NoReservations \in [Network -> [Name -> IP]] /\ NoIps \in [Key -> IP]
           /\ NoBootParams \in BootParams /\ Unset \in IP
           /\ \A n \in Network : NoReservations[n] \in [Name -> 0..Broadcast[n] - 1]
           /\ \A k \in Key : NoIps[k] < Broadcast[NetworkOf(k)]
<1>1. Unset \in IP /\ \A n \in Network : Unset \in 0..Broadcast[n] - 1
  BY Typed DEF Unset
<1>. QED BY <1>1, Typed, Sorts DEF NoReservations, NoIps, NoBootParams, BootParams, Unset

\* A script that ends is at rest.
LEMMA ExitTypes ==
    ASSUME Types, Exit, UNCHANGED site
    PROVE  ArgTypes' /\ PlanTypes'
<1>1. Broadcast' = Broadcast /\ MaxRuns' = MaxRuns
  BY DEF Broadcast, MaxRuns
<1>2. ArgTypes'
  <2>1. ArgTypes /\ Len(Keys) = 4
    BY Typed DEF Keys
  <2>2. /\ pc' = "idle" /\ alias' = None /\ xname' = None /\ reuse' = FALSE /\ put' = 1 /\ runs' = runs
    BY DEF Exit
  <2>3. put' \in 1..Len(Keys)
    BY <2>1, <2>2
  <2>4. (runs \in 0..MaxRuns)'
    BY <1>1, <2>1, <2>2 DEF ArgTypes
  <2>5. pc' \in ScriptStep
    BY <2>2 DEF ScriptStep
  <2>. QED BY <2>2, <2>3, <2>4, <2>5 DEF ArgTypes
<1>3. Broadcast["HMN"] \in Nat \ {0}
  BY Typed DEF Network
<1>4. PlanTypes'
  BY <1>1, <1>3, Typed, NothingTyped DEF Exit, PlanTypes, InData, Unset
<1>. QED BY <1>2, <1>4

\* A script that goes on keeps its arguments and, when it does, its plan.
LEMMA GotoTypes ==
    ASSUME Types, UNCHANGED site, NEW p \in ScriptStep, Goto(p), pc # "idle"
    PROVE  /\ (pc \notin {"alloc_put", "data_put", "rm_put"} \/ p = pc) => ArgTypes'
           /\ UNCHANGED planVars /\ (InData' => InData) => PlanTypes'
<1>1. Broadcast' = Broadcast /\ MaxRuns' = MaxRuns
  BY DEF Broadcast, MaxRuns
<1>2. ASSUME pc \notin {"alloc_put", "data_put", "rm_put"} \/ p = pc  PROVE ArgTypes'
  <2>1. ArgTypes
    BY Typed
  <2>2. pc' = p /\ alias' = alias /\ xname' = xname /\ reuse' = reuse /\ put' = put /\ runs' = runs
    BY DEF Goto, argVars
  <2>. QED BY <1>1, <1>2, <2>1, <2>2 DEF ArgTypes
<1>3. ASSUME UNCHANGED planVars, InData' => InData  PROVE PlanTypes'
  BY <1>1, <1>3, Typed DEF planVars, PlanTypes
<1>. QED BY <1>2, <1>3

LEMMA SameServicesTypes ==
    ASSUME Types, UNCHANGED site
    PROVE  /\ UNCHANGED slsVars => SlsTypes'
           /\ UNCHANGED bssVars => BssTypes'
           /\ UNCHANGED hsmVars => HsmTypes'
<1>1. Broadcast' = Broadcast
  BY DEF Broadcast
<1>. QED BY <1>1, Typed DEF slsVars, bssVars, hsmVars, SlsTypes, BssTypes, HsmTypes

LEMMA StartTypes ==
    ASSUME Types, UNCHANGED site, NEW p \in ScriptStep, NEW a \in Alias, NEW x \in Xname,
           Start(p, a, x), reuse' \in BOOLEAN, p # "idle"
    PROVE  ArgTypes'
<1>1. MaxRuns' = MaxRuns
  BY DEF MaxRuns
<1>2. ArgTypes /\ Len(Keys) = 4 /\ MaxRuns \in Nat
  BY Typed DEF Keys
<1>3. put' \in 1..Len(Keys) /\ put' \in 1..2
  BY <1>2 DEF Start
<1>4. runs' \in 0..MaxRuns
  BY <1>2 DEF Start, ArgTypes
<1>. QED BY <1>1, <1>3, <1>4 DEF ArgTypes, Start

\* What a reservation can be, and that freeing some keeps the type.
LEMMA FreedTypes ==
    ASSUME Types, NEW n \in Network, NEW ips
    PROVE  /\ Freed(reservations[n], ips) \in [Name -> 0..Broadcast[n] - 1]
           /\ Freed(reservations[n], ips) \in [Name -> IP]
           /\ Reserved(n, reservations) \subseteq 0..Broadcast[n] - 1
<1>1. /\ reservations[n] \in [Name -> 0..Broadcast[n] - 1] /\ reservations[n] \in [Name -> IP]
      /\ Broadcast[n] \in Nat \ {0} /\ Unset \in 0..Broadcast[n] - 1 /\ Unset \in IP
  BY Typed DEF SlsTypes, Unset
<1>. QED BY <1>1 DEF Freed, Reserved

LEMMA RetrievedTypes ==
    ASSUME Types, UNCHANGED site, NEW a, retrieve_existing_ncn_ips(a), global' = hostRecords,
           nid' \in Nid \cup {Unset}, InData' => nid' \in Nid
    PROVE  PlanTypes'
<1>1. Broadcast' = Broadcast /\ LastIp \in Nat /\ IP = 0..LastIp /\ Network = {"NMN", "HMN"}
      /\ \A n \in Network : Broadcast[n] \in Nat \ {0} /\ Broadcast[n] <= LastIp
  BY Typed DEF Broadcast, Network
<1>2. PICK nmn \in RecordIps(hostRecords, a, "NMN"), hmn \in RecordIps(hostRecords, a, "HMN"),
           bmc \in RecordIps(hostRecords, a, "mgmt") :
        /\ nmn \in Reserved("NMN", reservations) \cup {Unset}
        /\ hmn \in Reserved("HMN", reservations) \cup {Unset}
        /\ bmc \in Reserved("HMN", reservations) \ {hmn}
        /\ ncn_ips' = [NoIps EXCEPT !["NMN"] = nmn, !["HMN"] = hmn]
        /\ bmc_ip' = bmc
        /\ nets' = [n \in Network |->
                        Freed(reservations[n], IF n = "NMN" THEN {nmn} ELSE {hmn, bmc})]
  BY DEF retrieve_existing_ncn_ips
<1>3. /\ nmn \in 0..Broadcast["NMN"] - 1 /\ hmn \in 0..Broadcast["HMN"] - 1
      /\ bmc \in 0..Broadcast["HMN"] - 1
  BY <1>1, <1>2, FreedTypes DEF Unset
<1>4. bmc_ip' \in IP /\ bmc_ip' < Broadcast["HMN"]
  BY <1>1, <1>2, <1>3
<1>5. ncn_ips' \in [Key -> IP] /\ \A k \in Key : ncn_ips'[k] < Broadcast[NetworkOf(k)]
  BY <1>1, <1>2, <1>3 DEF NoIps, Key, NetworkOf, Unset
<1>6. nets' \in [Network -> [Name -> IP]] /\ \A n \in Network : nets'[n] \in [Name -> 0..Broadcast[n] - 1]
  BY <1>1, <1>2, FreedTypes
<1>7. hostRecords \subseteq HostRecord
  BY Typed DEF BssTypes
<1>. QED BY <1>1, <1>4, <1>5, <1>6, <1>7 DEF PlanTypes

LEMMA AllocatedTypes ==
    ASSUME Types, UNCHANGED site, UNCHANGED nid, NEW a, NEW x, allocate_ncn_ips(a, x),
           global' = hostRecords, ~InData'
    PROVE  PlanTypes'
<1>1. Broadcast' = Broadcast /\ LastIp \in Nat /\ IP = 0..LastIp /\ Network = {"NMN", "HMN"}
      /\ \A n \in Network : Broadcast[n] \in Nat \ {0} /\ Broadcast[n] <= LastIp
  BY Typed DEF Broadcast, Network
<1>2. bmc_ip' \in IP /\ bmc_ip' < Broadcast["HMN"]
  BY <1>1, NewIpsAreNew DEF allocate_ncn_ips, Allocatable
<1>3. ASSUME NEW k \in Key
      PROVE  ncn_ips'[k] \in IP /\ ncn_ips'[k] < Broadcast[NetworkOf(k)]
  <2>1. NetworkOf(k) \in Network /\ NewIps(a)[k] \in Nat
    BY Sorts, NewIpsAreNew
  <2>2. NewIps(a)[k] = 0 \/ NewIps(a)[k] < Broadcast[NetworkOf(k)]
    BY DEF allocate_ncn_ips, Allocatable, Unset
  <2>. QED BY <1>1, <2>1, <2>2 DEF allocate_ncn_ips
<1>4. ncn_ips' \in [Key -> IP]
  BY <1>3, NewIpsAreNew DEF allocate_ncn_ips
<1>5. /\ nets' = reservations /\ reservations \in [Network -> [Name -> IP]]
      /\ \A n \in Network : reservations[n] \in [Name -> 0..Broadcast[n] - 1]
      /\ hostRecords \subseteq HostRecord /\ nid \in Nid \cup {Unset}
  BY Typed DEF allocate_ncn_ips, SlsTypes, BssTypes, PlanTypes
<1>. QED BY <1>1, <1>2, <1>3, <1>4, <1>5 DEF PlanTypes

\* Reading of HSM only deletes interfaces of no component.
LEMMA ValidateTypes ==
    ASSUME Types, UNCHANGED <<site, nodeEi, bmcEi, hsmNid, bmcComp, redfish>>,
           NEW addresses, NEW ok, validate_hsm_inventory(addresses, ok)
    PROVE  HsmTypes' /\ staleEi' \subseteq staleEi
<1>1. staleEi' \subseteq staleEi
  BY DEF validate_hsm_inventory
<1>. QED BY <1>1, Typed DEF HsmTypes

LEMMA TypesStep ==
    ASSUME Types, Next
    PROVE  Types'
<1>1. UNCHANGED site /\ site' \in Sites /\ Step
  BY Typed DEF Next
<1>2. SiteAlias \subseteq Alias /\ SiteXname \subseteq Xname
  BY Typed
<1>3. SlsTypes' /\ BssTypes' /\ HsmTypes' /\ ArgTypes' /\ PlanTypes' => Types'
  BY <1>1 DEF Types, TypeOK, SlsTypes, BssTypes, HsmTypes, ArgTypes, PlanTypes
<1>4. /\ UNCHANGED slsVars => SlsTypes'
      /\ UNCHANGED bssVars => BssTypes'
      /\ UNCHANGED hsmVars => HsmTypes'
  BY <1>1, SameServicesTypes
<1>5. Exit => ArgTypes' /\ PlanTypes'
  BY <1>1, ExitTypes
<1>6. ASSUME NEW p, Goto(p), pc # "idle", p \in ScriptStep,
             pc \notin {"alloc_put", "data_put", "rm_put"} \/ p = pc
      PROVE  ArgTypes' /\ (UNCHANGED planVars /\ (InData' => InData) => PlanTypes')
  BY <1>1, <1>6, GotoTypes
<1>7. /\ Network = {"NMN", "HMN"} /\ Len(Keys) = 4 /\ LastIp \in Nat /\ IP = 0..LastIp
      /\ Broadcast' = Broadcast /\ MaxRuns' = MaxRuns
      /\ SlsTypes /\ BssTypes /\ HsmTypes /\ ArgTypes /\ PlanTypes
      /\ NoBootParams \in BootParams /\ Unset \in IP
  BY <1>1, Typed, NothingTyped DEF Network, Keys, Broadcast, MaxRuns
<1>8. ASSUME NEW a \in SiteAlias, NEW x \in SiteXname, AllocateIps(a, x)  PROVE Types'
  <2>. USE <1>8 DEF AllocateIps
  <2>1. ArgTypes'
    BY <1>1, <1>2, StartTypes DEF ScriptStep
  <2>2. pc' = "alloc_validate" /\ ~InData' /\ UNCHANGED nid /\ nid \in Nid \cup {Unset}
    BY <1>7 DEF Start, InData, PlanTypes
  <2>3. PlanTypes'
    BY <1>1, <2>2, RetrievedTypes, AllocatedTypes
  <2>. QED BY <1>3, <1>4, <2>1, <2>3
<1>9. ASSUME NEW a \in SiteAlias, NEW x \in SiteXname, AllocateIpsRaises(a, x)  PROVE Types'
  <2>. USE <1>9 DEF AllocateIpsRaises
  <2>1. ArgTypes'
    BY <1>1, <1>2, StartTypes DEF ScriptStep
  <2>2. PlanTypes'
    BY <1>7 DEF Start, InData, planVars, PlanTypes
  <2>. QED BY <1>3, <1>4, <2>1, <2>2
<1>10. ASSUME NEW a \in SiteAlias, NEW x \in SiteXname, NcnData(a, x)  PROVE Types'
  <2>. USE <1>10 DEF NcnData
  <2>1. ArgTypes'
    BY <1>1, <1>2, StartTypes DEF ScriptStep
  <2>2. nid' \in Nid
    BY DEF FreeNids
  <2>3. PlanTypes'
    BY <1>1, <2>2, RetrievedTypes
  <2>. QED BY <1>3, <1>4, <2>1, <2>3
<1>11. CASE Traceback
  BY <1>3, <1>4, <1>5, <1>11 DEF Traceback
<1>12. CASE AllocateValidate
  <2>. USE <1>12 DEF AllocateValidate
  <2>1. SlsTypes' /\ BssTypes' /\ HsmTypes'
    BY <1>1, <1>4, ValidateTypes
  <2>2. CASE Goto("alloc_put") /\ global' = hostRecords /\ UNCHANGED <<nets, ncn_ips, bmc_ip, nid>>
    <3>1. ArgTypes'
      BY <1>6, <2>2 DEF ScriptStep
    <3>2. PlanTypes'
      BY <1>7, <2>2 DEF Goto, InData, PlanTypes, BssTypes
    <3>. QED BY <1>3, <2>1, <3>1, <3>2
  <2>3. CASE Exit
    BY <1>3, <1>5, <2>1, <2>3
  <2>. QED BY <2>2, <2>3
<1>13. CASE PutNetwork
  <2>. DEFINE k == Keys[put]
              n == NetworkOf(k)
  <2>1. /\ put \in 1..4 /\ k \in Key /\ n \in Network /\ n \in Key
        /\ alias \in Name /\ xname \in Name /\ Vip \in Name
    BY <1>7, <1>13, Sorts DEF PutNetwork, ArgTypes, Keys, Key
  <2>2. ArgTypes'
    BY <1>7, <1>13, <2>1 DEF PutNetwork, ArgTypes, argVars, ScriptStep
  <2>3. /\ nets' \in [Network -> [Name -> IP]]
        /\ \A m \in Network : nets'[m] \in [Name -> 0..Broadcast[m] - 1]
    <3>. HIDE DEF k, n
    <3>1. /\ nets \in [Network -> [Name -> IP]] /\ \A m \in Network : nets[m] \in [Name -> 0..Broadcast[m] - 1]
          /\ ncn_ips \in [Key -> IP] /\ ncn_ips[k] < Broadcast[n] /\ bmc_ip \in IP /\ bmc_ip < Broadcast["HMN"]
      BY <1>7, <2>1 DEF PlanTypes, n
    <3>2. Broadcast[n] \in Nat \ {0} /\ Broadcast["HMN"] \in Nat \ {0}
      BY <1>7, <2>1, Typed
    <3>3. /\ ncn_ips[k] \in IP /\ ncn_ips[k] \in 0..Broadcast[n] - 1
          /\ bmc_ip \in IP /\ bmc_ip \in 0..Broadcast["HMN"] - 1
      BY <1>7, <2>1, <3>1, <3>2
    <3>. DEFINE m1 == IF k = n THEN alias ELSE Vip
                ns == [nets EXCEPT ![n][m1] = ncn_ips[k]]
    <3>4. m1 \in Name /\ (nets' = nets \/ nets' = ns \/ nets' = [ns EXCEPT !["HMN"][xname] = bmc_ip])
      BY <1>13, <2>1 DEF PutNetwork, WithReservations, k, n
    <3>. HIDE DEF m1
    <3>5. ns \in [Network -> [Name -> IP]]
      BY <2>1, <3>1, <3>3, <3>4
    <3>6. \A m \in Network : ns[m] \in [Name -> 0..Broadcast[m] - 1]
      BY <2>1, <3>1, <3>3, <3>4
    <3>. HIDE DEF ns
    <3>7. CASE nets' = [ns EXCEPT !["HMN"][xname] = bmc_ip]
      <4>1. nets' \in [Network -> [Name -> IP]]
        BY <2>1, <3>3, <3>5, <3>7
      <4>2. ASSUME NEW m \in Network  PROVE nets'[m] \in [Name -> 0..Broadcast[m] - 1]
        <5>1. nets'[m] = IF m = "HMN" THEN [ns[m] EXCEPT ![xname] = bmc_ip] ELSE ns[m]
          BY <3>5, <3>7
        <5>. QED BY <2>1, <3>3, <3>6, <5>1
      <4>. QED BY <4>1, <4>2
    <3>. QED BY <3>1, <3>4, <3>5, <3>6, <3>7
  <2>4. PlanTypes'
    BY <1>7, <1>13, <2>3 DEF PutNetwork, PlanTypes, InData
  <2>5. SlsTypes'
    <3>1. reservations' = reservations \/ reservations' = [reservations EXCEPT ![n] = nets'[n]]
      BY <1>13 DEF PutNetwork
    <3>2. nets'[n] \in [Name -> IP] /\ nets'[n] \in [Name -> 0..Broadcast[n] - 1]
      BY <2>1, <2>3
    <3>3. UNCHANGED <<slsNode, slsNid, connector>>
      BY <1>13 DEF PutNetwork
    <3>. HIDE DEF n
    <3>. QED BY <1>7, <2>1, <3>1, <3>2, <3>3 DEF SlsTypes
  <2>6. BssTypes' /\ HsmTypes'
    BY <1>4, <1>13 DEF PutNetwork
  <2>. QED BY <1>3, <2>2, <2>4, <2>5, <2>6
<1>14. CASE UpdateGlobal
  <2>. USE <1>14 DEF UpdateGlobal
  <2>1. NewHostRecords \subseteq HostRecord
    <3>1. alias \in Alias /\ ncn_ips \in [Key -> IP] /\ bmc_ip \in IP
      BY <1>7 DEF ArgTypes, PlanTypes
    <3>. QED BY <3>1, Sorts DEF NewHostRecords, HostRecord
  <2>2. BssTypes'
    BY <1>7, <2>1 DEF BssTypes, PlanTypes
  <2>. QED BY <1>3, <1>4, <1>5, <2>2
<1>15. CASE NcnDataValidate
  <2>. USE <1>15 DEF NcnDataValidate
  <2>1. SlsTypes' /\ BssTypes' /\ HsmTypes'
    BY <1>1, <1>4, ValidateTypes
  <2>2. CASE Goto("data_node") /\ UNCHANGED planVars
    BY <1>3, <1>6, <2>1, <2>2 DEF ScriptStep, InData
  <2>3. CASE Exit
    BY <1>3, <1>5, <2>1, <2>3
  <2>. QED BY <2>2, <2>3
<1>16. CASE CreateNode
  <2>. USE <1>16 DEF CreateNode
  <2>1. ArgTypes' /\ PlanTypes'
    BY <1>6 DEF ScriptStep, InData
  <2>2. SlsTypes'
    BY <1>7 DEF SlsTypes, ArgTypes, PlanTypes, InData
  <2>. QED BY <1>3, <1>4, <2>1, <2>2
<1>17. CASE CreateConnector
  <2>. USE <1>17 DEF CreateConnector
  <2>1. ArgTypes' /\ PlanTypes'
    BY <1>6 DEF ScriptStep, InData
  <2>2. SlsTypes'
    BY <1>7 DEF SlsTypes, ArgTypes
  <2>. QED BY <1>3, <1>4, <2>1, <2>2
<1>18. CASE CreateNodeEi
  <2>. USE <1>18 DEF CreateNodeEi
  <2>1. ArgTypes' /\ PlanTypes'
    BY <1>6 DEF ScriptStep, InData
  <2>2. HsmTypes'
    <3>1. ncn_ips \in [Key -> IP] /\ Network \subseteq Key
      BY <1>7, Sorts DEF PlanTypes
    <3>2. {<<n, ncn_ips[n]>> : n \in {m \in Network : ncn_ips[m] # Unset}} \subseteq Address
      BY <3>1 DEF Address
    <3>. QED BY <1>7, <3>2 DEF HsmTypes
  <2>. QED BY <1>3, <1>4, <2>1, <2>2
<1>19. CASE CreateBmcEi
  <2>. USE <1>19 DEF CreateBmcEi
  <2>1. ArgTypes' /\ PlanTypes'
    BY <1>6 DEF ScriptStep, InData
  <2>2. HsmTypes'
    <3>1. <<"HMN", bmc_ip>> \in Address
      BY <1>7 DEF PlanTypes, Address
    <3>2. bmcEi' \in [Xname -> SUBSET Address]
      BY <1>7, <3>1 DEF HsmTypes
    <3>3. staleEi' \subseteq staleEi
      OBVIOUS
    <3>. QED BY <1>7, <3>2, <3>3 DEF HsmTypes
  <2>. QED BY <1>3, <1>4, <2>1, <2>2
<1>20. CASE CreateComponent
  <2>. USE <1>20 DEF CreateComponent
  <2>1. ArgTypes' /\ PlanTypes'
    BY <1>6 DEF ScriptStep, InData
  <2>2. HsmTypes'
    BY <1>7 DEF HsmTypes, PlanTypes
  <2>. QED BY <1>3, <1>4, <2>1, <2>2
<1>21. CASE PutBootparameters
  <2>. USE <1>21 DEF PutBootparameters
  <2>1. [alias |-> alias, ips |-> [n \in Network |-> ncn_ips[n]]] \in BootParams
    <3>1. alias \in Alias /\ ncn_ips \in [Key -> IP] /\ Network \subseteq Key
      BY <1>7, Sorts DEF ArgTypes, PlanTypes
    <3>. QED BY <3>1 DEF BootParams
  <2>2. BssTypes'
    BY <1>7, <2>1 DEF BssTypes
  <2>. QED BY <1>3, <1>4, <1>5, <2>2
<1>22. ASSUME NEW x \in SiteXname, RemoveNcn(x)  PROVE Types'
  <2>. USE <1>22 DEF RemoveNcn
  <2>1. slsNode[x] \in Alias /\ x \in Xname
    BY <1>2, <1>7 DEF SlsTypes
  <2>2. ArgTypes'
    BY <1>1, <2>1, StartTypes DEF ScriptStep
  <2>3. PlanTypes'
    <3>1. \A n \in Network : Unset \in 0..Broadcast[n] - 1
      BY Typed DEF Unset
    <3>2. nets' \in [Network -> [Name -> IP]] /\ \A n \in Network : nets'[n] \in [Name -> 0..Broadcast[n] - 1]
      BY <1>7, <3>1 DEF SlsTypes
    <3>3. global' \subseteq HostRecord
      BY <1>7 DEF BssTypes
    <3>. QED BY <1>7, <3>2, <3>3 DEF PlanTypes, InData, Start
  <2>. QED BY <1>3, <1>4, <2>2, <2>3
<1>23. ASSUME NEW x \in SiteXname, Discover(x)  PROVE Types'
  <2>. USE <1>23 DEF Discover
  <2>1. ArgTypes' /\ PlanTypes'
    BY <1>7 DEF argVars, planVars, ArgTypes, PlanTypes, InData
  <2>2. HsmTypes'
    BY <1>2, <1>7 DEF HsmTypes, SlsTypes
  <2>. QED BY <1>3, <1>4, <2>1, <2>2
<1>24. CASE RemoveHostRecords
  <2>. USE <1>24 DEF RemoveHostRecords
  <2>1. ArgTypes' /\ PlanTypes'
    BY <1>6 DEF ScriptStep, InData, Goto
  <2>2. BssTypes'
    BY <1>7 DEF BssTypes, PlanTypes
  <2>. QED BY <1>3, <1>4, <2>1, <2>2
<1>25. CASE RemoveBootparameters
  <2>. USE <1>25 DEF RemoveBootparameters
  <2>1. ArgTypes' /\ PlanTypes'
    BY <1>6 DEF ScriptStep, InData, Goto
  <2>2. BssTypes'
    BY <1>7 DEF BssTypes
  <2>. QED BY <1>3, <1>4, <2>1, <2>2
<1>26. CASE RemoveEthernetInterfaces
  <2>. USE <1>26 DEF RemoveEthernetInterfaces
  <2>1. ArgTypes' /\ PlanTypes'
    BY <1>6 DEF ScriptStep, InData, Goto
  <2>2. HsmTypes'
    BY <1>7 DEF HsmTypes
  <2>. QED BY <1>3, <1>4, <2>1, <2>2
<1>27. CASE RemoveRedfishEndpoint
  <2>. USE <1>27 DEF RemoveRedfishEndpoint
  <2>1. ArgTypes' /\ PlanTypes'
    BY <1>6 DEF ScriptStep, InData, Goto
  <2>2. HsmTypes'
    BY <1>7 DEF HsmTypes
  <2>. QED BY <1>3, <1>4, <2>1, <2>2
<1>28. CASE RemoveComponent
  <2>. USE <1>28 DEF RemoveComponent
  <2>1. ArgTypes' /\ PlanTypes'
    BY <1>6 DEF ScriptStep, InData, Goto
  <2>2. HsmTypes'
    BY <1>7 DEF HsmTypes
  <2>. QED BY <1>3, <1>4, <2>1, <2>2
<1>29. CASE RemoveBmcComponent
  <2>. USE <1>29 DEF RemoveBmcComponent
  <2>1. ArgTypes' /\ PlanTypes'
    BY <1>6 DEF ScriptStep, InData, Goto
  <2>2. HsmTypes'
    BY <1>7 DEF HsmTypes
  <2>. QED BY <1>3, <1>4, <2>1, <2>2
<1>30. CASE RemoveConnector
  <2>. USE <1>30 DEF RemoveConnector
  <2>1. ArgTypes' /\ PlanTypes'
    BY <1>6 DEF ScriptStep, InData, Goto
  <2>2. SlsTypes'
    BY <1>7 DEF SlsTypes
  <2>. QED BY <1>3, <1>4, <2>1, <2>2
<1>31. CASE RemoveNode
  <2>. USE <1>31 DEF RemoveNode
  <2>1. ArgTypes' /\ PlanTypes'
    <3>1. pc' = "rm_put" /\ ArgTypes /\ pc = "rm_node" /\ put = 1
      BY <1>7 DEF Goto, ArgTypes
    <3>. QED BY <1>6 DEF ScriptStep, InData, Goto
  <2>2. SlsTypes'
    BY <1>7 DEF SlsTypes
  <2>. QED BY <1>3, <1>4, <2>1, <2>2
<1>32. CASE RemoveReservations
  <2>. USE <1>32 DEF RemoveReservations
  <2>. DEFINE n == <<"NMN", "HMN">>[put]
  <2>1. put \in 1..2 /\ n \in Network
    BY <1>7 DEF ArgTypes
  <2>2. ArgTypes'
    BY <1>7, <2>1 DEF ArgTypes, argVars, ScriptStep
  <2>3. PlanTypes'
    BY <1>7 DEF PlanTypes, planVars, InData
  <2>4. nets[n] \in [Name -> IP] /\ nets[n] \in [Name -> 0..Broadcast[n] - 1]
    BY <1>7, <2>1 DEF PlanTypes
  <2>5. SlsTypes'
    BY <1>7, <2>1, <2>4 DEF SlsTypes
  <2>. QED BY <1>3, <1>4, <2>2, <2>3, <2>5
<1>33. CASE ReportRemoved
  BY <1>3, <1>4, <1>5, <1>33 DEF ReportRemoved
<1>34. CASE Interrupt
  BY <1>3, <1>4, <1>5, <1>34 DEF Interrupt
<1>35. ASSUME NEW address \in Address, Lease(address)  PROVE Types'
  <2>. USE <1>35 DEF Lease
  <2>1. ArgTypes' /\ PlanTypes'
    BY <1>7 DEF argVars, planVars, ArgTypes, PlanTypes, InData
  <2>2. HsmTypes'
    BY <1>7 DEF HsmTypes
  <2>. QED BY <1>3, <1>4, <2>1, <2>2
<1>. QED
  BY <1>1, <1>8, <1>9, <1>10, <1>11, <1>12, <1>13, <1>14, <1>15, <1>16, <1>17, <1>18, <1>19, <1>20,
     <1>21, <1>22, <1>23, <1>24, <1>25, <1>26, <1>27, <1>28, <1>29, <1>30, <1>31, <1>32, <1>33, <1>34,
     <1>35 DEF Step

-----------------------------------------------------------------------------
(* The steps, by what they change of what the invariant is about.          *)

\* A script ends and leaves the services as they are.
Ends == Exit /\ UNCHANGED <<slsVars, bssVars, nodeEi, bmcEi, hsmNid, bmcComp, redfish>>

\* Only interfaces of no component change.
Waits == UNCHANGED <<slsVars, bssVars, nodeEi, bmcEi, hsmNid, bmcComp, redfish,
                     pc, argVars, planVars, put>>

\* An addition goes on after the validation.
AllocateValidated ==
    /\ pc = "alloc_validate" /\ pc' = "alloc_put" /\ ~CanBoot(xname)
    /\ validate_global_bss_bootparameters(hostRecords) /\ global' = hostRecords
    /\ UNCHANGED <<slsVars, bssVars, nodeEi, bmcEi, hsmNid, bmcComp, redfish,
                   argVars, nets, ncn_ips, bmc_ip, nid, put>>
NcnDataValidated ==
    /\ pc = "data_validate" /\ pc' = "data_node" /\ ~CanBoot(xname)
    /\ NidUnknownToHsm /\ hsmNid[xname] = Unset
    /\ UNCHANGED <<slsVars, bssVars, nodeEi, bmcEi, hsmNid, bmcComp, redfish,
                   argVars, planVars, put>>

\* Connectors, interfaces, components and endpoints are added or removed.
Adds ==
    /\ \/ pc = "data_connector" /\ pc' = "data_put"
       \/ pc = "data_ei" /\ pc' \in {"data_component", "data_bmc_ei"}
       \/ pc = "data_bmc_ei" /\ pc' = "data_bootparams"
    /\ UNCHANGED <<slsNode, slsNid, reservations, bssVars, hsmNid, argVars, planVars, put>>
Removes ==
    /\ RemoveEthernetInterfaces \/ RemoveRedfishEndpoint \/ RemoveBmcComponent \/ RemoveConnector
    /\ pc \in {"rm_ei", "rm_redfish", "rm_bmc_component", "rm_connector"}
    /\ pc' \in {"rm_redfish", "rm_component", "rm_connector", "rm_node"}
    /\ UNCHANGED <<slsNode, slsNid, reservations, bssVars, hsmNid, argVars, planVars, put>>

LEMMA Steps ==
    ASSUME [Next]_vars
    PROVE  /\ UNCHANGED site
           /\ \/ Ends \/ Waits
              \/ \E a \in SiteAlias, x \in SiteXname :
                    AllocateIps(a, x) \/ AllocateIpsRaises(a, x) \/ NcnData(a, x)
              \/ AllocateValidated \/ NcnDataValidated
              \/ PutNetwork \/ UpdateGlobal \/ CreateNode \/ CreateComponent \/ PutBootparameters
              \/ \E x \in SiteXname : RemoveNcn(x) \/ Discover(x)
              \/ RemoveHostRecords \/ RemoveBootparameters \/ RemoveComponent
              \/ RemoveNode \/ RemoveReservations
              \/ Adds \/ Removes
<1>. USE DEF slsVars, bssVars, hsmVars, argVars, planVars
<1>1. UNCHANGED site /\ (Step \/ UNCHANGED vars)
  BY DEF Next, vars
<1>2. UNCHANGED vars => Waits
  BY DEF vars, Waits
<1>3. Traceback \/ Interrupt \/ ReportRemoved => Ends
  BY DEF Traceback, Interrupt, ReportRemoved, Ends
<1>4. AllocateValidate => Ends \/ AllocateValidated
  BY Zenon DEF AllocateValidate, AllocateValidated, Goto, Ends
<1>5. NcnDataValidate => Ends \/ NcnDataValidated
  <2>. SUFFICES ASSUME NcnDataValidate, ~Exit  PROVE NcnDataValidated
    BY DEF NcnDataValidate, Ends
  <2>1. PICK ok \in BOOLEAN, leased \in {{}, {<<"HMN", bmc_ip>>} \cap staleEi} :
          /\ validate_hsm_inventory(Claimed \cup ({<<"HMN", bmc_ip>>} \ leased), ok)
          /\ IF /\ ok /\ NidUnknownToHsm
                /\ ~CanBoot(xname)
                /\ validate_global_bss_bootparameters(global)
                /\ \E donor \in Xname : slsNode[donor] # None /\ CanBoot(donor)
             THEN Goto("data_node") /\ UNCHANGED planVars
             ELSE Exit
    BY Zenon DEF NcnDataValidate
  <2>2. ok => hsmNid[xname] = Unset
    BY <2>1, Zenon DEF validate_hsm_inventory
  <2>3. ok /\ NidUnknownToHsm /\ ~CanBoot(xname) /\ Goto("data_node") /\ UNCHANGED planVars
    BY <2>1, Zenon
  <2>. QED BY <2>2, <2>3 DEF NcnDataValidate, NcnDataValidated, Goto
<1>6. CreateConnector \/ CreateNodeEi \/ CreateBmcEi => Adds
  BY DEF CreateConnector, CreateNodeEi, CreateBmcEi, Adds, Goto
<1>7. RemoveEthernetInterfaces \/ RemoveRedfishEndpoint \/ RemoveBmcComponent \/ RemoveConnector => Removes
  BY DEF RemoveEthernetInterfaces, RemoveRedfishEndpoint, RemoveBmcComponent, RemoveConnector, Removes, Goto
<1>8. (\E address \in Address : Lease(address)) => Waits
  BY DEF Lease, Waits
<1>. QED BY <1>1, <1>2, <1>3, <1>4, <1>5, <1>6, <1>7, <1>8, Zenon DEF Step

\* Each service is changed by few steps.
LEMMA Changes ==
    ASSUME [Next]_vars
    PROVE  /\ UNCHANGED hostRecords \/ UpdateGlobal \/ RemoveHostRecords
           /\ UNCHANGED bootparams \/ PutBootparameters \/ RemoveBootparameters
           /\ UNCHANGED <<slsNode, slsNid>> \/ CreateNode \/ RemoveNode
           /\ UNCHANGED reservations \/ PutNetwork \/ RemoveReservations
<1>. USE DEF Ends, Waits, AllocateIps, AllocateIpsRaises, NcnData, AllocateValidated, NcnDataValidated,
       PutNetwork, UpdateGlobal, CreateNode, CreateComponent, PutBootparameters, RemoveNcn, Discover,
       RemoveHostRecords, RemoveBootparameters, RemoveComponent, RemoveNode, RemoveReservations,
       Adds, Removes, bssVars, slsVars
<1>1. UNCHANGED hostRecords \/ UpdateGlobal \/ RemoveHostRecords
  BY Steps
<1>2. UNCHANGED bootparams \/ PutBootparameters \/ RemoveBootparameters
  BY Steps
<1>3. UNCHANGED <<slsNode, slsNid>> \/ CreateNode \/ RemoveNode
  BY Steps
<1>4. UNCHANGED reservations \/ PutNetwork \/ RemoveReservations
  BY Steps
<1>. QED BY <1>1, <1>2, <1>3, <1>4

-----------------------------------------------------------------------------
(* No IP is reserved twice.                                                *)

\* Less is reserved: still nothing twice.
LEMMA DistinctLess ==
    ASSUME NEW f, NEW g, Distinct(f), \A m \in Name : g[m] \in {f[m], Unset}
    PROVE  Distinct(g)
BY DEF Distinct, Unset, Gateway

\* One more reservation, of an IP that nobody else has.
LEMMA DistinctMore ==
    ASSUME NEW f \in [Name -> IP], NEW m \in Name, NEW ip, Distinct(f), ip # Gateway,
           ip # Unset => \A l \in Name \ {m} : f[l] # ip
    PROVE  Distinct([f EXCEPT ![m] = ip])
BY DEF Distinct, Unset, Gateway

\* IPs that are used again were reserved, and are free in the copy.
LEMMA RetrievedFits ==
    ASSUME Types, NEW a, retrieve_existing_ncn_ips(a), \A n \in Network : Distinct(reservations[n])
    PROVE  /\ \A n \in Network, m \in Name : nets'[n][m] \in {reservations[n][m], Unset}
           /\ \A n \in Network, m \in Name : /\ ncn_ips'[n] # Unset => nets'[n][m] # ncn_ips'[n]
                                             /\ nets'["HMN"][m] # bmc_ip'
           /\ \A n \in Network : /\ ncn_ips'[n] \in Reserved(n, reservations) \cup {Unset}
                                 /\ ncn_ips'[VipKey(n)] = Unset
                                 /\ ncn_ips'[n] # Gateway
           /\ bmc_ip' \in Reserved("HMN", reservations) \ {Unset, Gateway, ncn_ips'["HMN"]}
<1>1. PICK nmn \in RecordIps(hostRecords, a, "NMN"), hmn \in RecordIps(hostRecords, a, "HMN"),
           bmc \in RecordIps(hostRecords, a, "mgmt") :
        /\ nmn \in Reserved("NMN", reservations) \cup {Unset}
        /\ hmn \in Reserved("HMN", reservations) \cup {Unset}
        /\ bmc \in Reserved("HMN", reservations) \ {hmn}
        /\ ncn_ips' = [NoIps EXCEPT !["NMN"] = nmn, !["HMN"] = hmn]
        /\ bmc_ip' = bmc
        /\ nets' = [n \in Network |->
                        Freed(reservations[n], IF n = "NMN" THEN {nmn} ELSE {hmn, bmc})]
  BY DEF retrieve_existing_ncn_ips
<1>2. \A n \in Network : Gateway \notin Reserved(n, reservations) /\ Unset \notin Reserved(n, reservations)
  BY DEF Distinct, Reserved
<1>3. Network = {"NMN", "HMN"} /\ Gateway # Unset
  BY DEF Network, Gateway, Unset
<1>4. \A k \in Key : ncn_ips'[k] = IF k = "NMN" THEN nmn ELSE IF k = "HMN" THEN hmn ELSE Unset
  BY <1>1, Zenon DEF NoIps, Key
<1>5. /\ \A n \in Network : VipKey(n) \in Key /\ VipKey(n) \notin Network
      /\ Network \subseteq Key
  BY Sorts
<1>6. \A m \in Name : /\ nets'["NMN"][m] = IF reservations["NMN"][m] = nmn THEN Unset ELSE reservations["NMN"][m]
                      /\ nets'["HMN"][m] = IF reservations["HMN"][m] \in {hmn, bmc} THEN Unset
                                           ELSE reservations["HMN"][m]
  BY <1>1, <1>3 DEF Freed
<1>7. bmc # Unset /\ bmc # Gateway
  BY <1>1, <1>2, <1>3
<1>8. ncn_ips'["NMN"] = nmn /\ ncn_ips'["HMN"] = hmn
  BY <1>3, <1>4, <1>5
<1>9. \A n \in Network : ncn_ips'[VipKey(n)] = Unset
  BY <1>3, <1>4, <1>5
<1>10. \A n \in Network, m \in Name : nets'[n][m] \in {reservations[n][m], Unset}
  BY <1>3, <1>6
<1>11. \A n \in Network, m \in Name : /\ ncn_ips'[n] # Unset => nets'[n][m] # ncn_ips'[n]
                                      /\ nets'["HMN"][m] # bmc_ip'
  <2>. TAKE n \in Network, m \in Name
  <2>1. nets'["HMN"][m] # bmc /\ (hmn # Unset => nets'["HMN"][m] # hmn)
    BY <1>6, <1>7
  <2>2. nmn # Unset => nets'["NMN"][m] # nmn
    BY <1>6
  <2>. QED BY <1>1, <1>3, <1>8, <2>1, <2>2
<1>12. \A n \in Network : /\ ncn_ips'[n] \in Reserved(n, reservations) \cup {Unset}
                          /\ ncn_ips'[n] # Gateway
  BY <1>1, <1>2, <1>3, <1>8
<1>. QED BY <1>1, <1>7, <1>8, <1>9, <1>10, <1>11, <1>12

LEMMA AllocatedFits ==
    ASSUME Types, NEW a, NEW x, allocate_ncn_ips(a, x), \A n \in Network : Distinct(reservations[n])
    PROVE  /\ nets' = reservations
           /\ \A n \in Network, m \in Name : /\ nets'[n][m] # ncn_ips'[n]
                                             /\ nets'[n][m] # ncn_ips'[VipKey(n)] \/ ncn_ips'[VipKey(n)] = Unset
                                             /\ nets'["HMN"][m] # bmc_ip'
           /\ \A n \in Network : /\ ncn_ips'[n] \notin {Gateway, Unset, ncn_ips'[VipKey(n)]}
                                 /\ ncn_ips'[VipKey(n)] # Gateway
           /\ bmc_ip' \notin {Unset, Gateway, ncn_ips'["HMN"], ncn_ips'["HMN-fmn-vip"]}
<1>1. ncn_ips' = NewIps(a) /\ bmc_ip' = NewBmcIp /\ nets' = reservations
  BY DEF allocate_ncn_ips
<1>2. /\ Network = {"NMN", "HMN"} /\ VipKey("HMN") = "HMN-fmn-vip" /\ Gateway = 1 /\ Unset = 0
      /\ LastIp \in Nat /\ IP = 0..LastIp /\ reservations \in [Network -> [Name -> IP]]
  BY Typed DEF Network, VipKey, Gateway, Unset, SlsTypes
<1>3. ASSUME NEW n \in Network, NEW m \in Name, NEW ip \in Nat, ip > Gateway,
             \A i \in Reserved(n, reservations) : i < ip
      PROVE  reservations[n][m] # ip
  <2>1. ip \notin Reserved(n, reservations) /\ ip # Unset
    BY <1>2, <1>3
  <2>. QED BY <2>1 DEF Reserved
<1>4. ASSUME NEW n \in Network
      PROVE  /\ NewIps(a)[n] \in Nat /\ NewIps(a)[n] > Gateway
             /\ \A i \in Reserved(n, reservations) : i < NewIps(a)[n]
             /\ NewIps(a)[VipKey(n)] \in {Unset, NewIps(a)[n] + 1}
  <2>1. Network \subseteq Key
    BY Sorts
  <2>. QED BY <2>1, NewIpsAreNew
<1>5. NewBmcIp \in Nat /\ NewBmcIp > Gateway /\ NewBmcIp < NewIps(a)["HMN"]
      /\ \A i \in Reserved("HMN", reservations) : i < NewBmcIp
  BY NewIpsAreNew
<1>6. ASSUME NEW n \in Network, NEW m \in Name
      PROVE  /\ reservations[n][m] # NewIps(a)[n]
             /\ reservations[n][m] # NewIps(a)[VipKey(n)] \/ NewIps(a)[VipKey(n)] = Unset
             /\ reservations["HMN"][m] # NewBmcIp
  <2>1. reservations[n][m] # NewIps(a)[n] /\ reservations["HMN"][m] # NewBmcIp
    BY <1>2, <1>3, <1>4, <1>5
  <2>2. CASE NewIps(a)[VipKey(n)] = NewIps(a)[n] + 1
    <3>1. \A i \in Reserved(n, reservations) : i \in Nat
      BY <1>2 DEF Reserved
    <3>2. \A i \in Reserved(n, reservations) : i < NewIps(a)[n] + 1
      BY <1>4, <3>1
    <3>3. reservations[n][m] # NewIps(a)[n] + 1
      BY <1>2, <1>3, <1>4, <3>2
    <3>. QED BY <2>1, <2>2, <3>3
  <2>. QED BY <1>4, <2>1, <2>2
<1>. QED BY <1>1, <1>2, <1>4, <1>5, <1>6

\* What is PUT: one reservation, and with one on the HMN that of the BMC.
PutKey  == Keys[put]
PutNet  == NetworkOf(PutKey)
PutName == IF PutKey = PutNet THEN alias ELSE Vip

LEMMA PutsReservations ==
    ASSUME Types, PutNetwork
    PROVE  /\ PutKey \in Key /\ PutNet \in Network /\ PutName \in Name /\ xname \in Xname /\ alias \in Alias
           /\ PutName # xname /\ put \in 1..Len(Keys)
           /\ pc \in {"alloc_put", "data_put"} /\ pc' \in {pc, "alloc_global", "data_ei"}
           /\ pc' \in {"alloc_global", "data_ei"} => put = Len(Keys)
           /\ pc' = pc => put' = put + 1
           /\ pc' = "alloc_global" => pc = "alloc_put"
           /\ pc' = "data_ei" => pc = "data_put"
           /\ ncn_ips[PutKey] = Unset => UNCHANGED <<reservations, nets>>
           /\ ncn_ips[PutKey] # Unset => \A i \in Network, l \in Name :
                /\ nets'[i][l] = IF i # PutNet THEN nets[i][l]
                                 ELSE IF l = PutName THEN ncn_ips[PutKey]
                                 ELSE IF i = "HMN" /\ l = xname THEN bmc_ip ELSE nets[i][l]
                /\ reservations'[i][l] = IF i = PutNet THEN nets'[i][l] ELSE reservations[i][l]
           /\ UNCHANGED <<slsNode, slsNid, connector, bssVars, hsmVars, argVars,
                          global, ncn_ips, bmc_ip, nid>>
<1>1. SlsTypes /\ ArgTypes /\ PlanTypes /\ Len(Keys) = 4
  BY Typed DEF Keys
<1>2. pc \in {"alloc_put", "data_put"} /\ put \in 1..4 /\ xname \in Xname /\ alias \in Alias
  BY <1>1 DEF PutNetwork, ArgTypes
<1>3. PutKey \in Key
  BY <1>2 DEF PutKey, Keys, Key
<1>4. PutNet \in Network /\ PutName \in Name /\ PutName # xname
  BY <1>2, <1>3, Sorts DEF PutNet, PutName
<1>5. /\ pc' \in {pc, "alloc_global", "data_ei"}
      /\ pc' \in {"alloc_global", "data_ei"} => put = Len(Keys)
      /\ pc' = pc => put' = put + 1
      /\ pc' = "alloc_global" => pc = "alloc_put"
      /\ pc' = "data_ei" => pc = "data_put"
  BY <1>1, <1>2 DEF PutNetwork
<1>6. ASSUME ncn_ips[PutKey] # Unset, NEW i \in Network, NEW l \in Name
      PROVE  /\ nets'[i][l] = IF i # PutNet THEN nets[i][l]
                              ELSE IF l = PutName THEN ncn_ips[PutKey]
                              ELSE IF i = "HMN" /\ l = xname THEN bmc_ip ELSE nets[i][l]
             /\ reservations'[i][l] = IF i = PutNet THEN nets'[i][l] ELSE reservations[i][l]
  <2>1. nets' = WithReservations(PutKey) /\ reservations' = [reservations EXCEPT ![PutNet] = nets'[PutNet]]
    BY <1>6 DEF PutNetwork, PutKey, PutNet
  <2>. DEFINE ns == [nets EXCEPT ![PutNet][PutName] = ncn_ips[PutKey]]
  <2>2. ns \in [Network -> [Name -> IP \cup {ncn_ips[PutKey]}]]
    BY <1>1, <1>4 DEF PlanTypes
  <2>3. ns[i][l] = IF i = PutNet /\ l = PutName THEN ncn_ips[PutKey] ELSE nets[i][l]
    BY <1>1, <1>4 DEF PlanTypes
  <2>4. nets' = IF PutNet = "HMN" THEN [ns EXCEPT !["HMN"][xname] = bmc_ip] ELSE ns
    BY <2>1 DEF WithReservations, PutNet, PutName
  <2>. HIDE DEF ns
  <2>5. nets'[i][l] = IF PutNet = "HMN" /\ i = "HMN" /\ l = xname THEN bmc_ip ELSE ns[i][l]
    BY <1>2, <2>2, <2>4, Sorts
  <2>6. reservations'[i][l] = IF i = PutNet THEN nets'[i][l] ELSE reservations[i][l]
    BY <1>1, <1>4, <2>1 DEF SlsTypes
  <2>. QED BY <1>4, <2>3, <2>5, <2>6
<1>7. ncn_ips[PutKey] = Unset => UNCHANGED <<reservations, nets>>
  BY DEF PutNetwork, PutKey
<1>8. UNCHANGED <<slsNode, slsNid, connector, bssVars, hsmVars, argVars, global, ncn_ips, bmc_ip, nid>>
  BY DEF PutNetwork
<1>. QED BY <1>1, <1>2, <1>3, <1>4, <1>5, <1>6, <1>7, <1>8

LEMMA IpsStep ==
    ASSUME Types, Types', IpsDistinct, [Next]_vars
    PROVE  IpsDistinct'
<1>. DEFINE Chosen == Adding \/ pc = "alloc_global"
<1>1. /\ Network = {"NMN", "HMN"} /\ NetworkOf("NMN") = "NMN" /\ NetworkOf("HMN") = "HMN"
      /\ VipKey("NMN") = "NMN-fmn-vip" /\ VipKey("HMN") = "HMN-fmn-vip" /\ Network \subseteq Key
      /\ \A n \in Network : VipKey(n) \in Key
      /\ \A k \in Key : NetworkOf(k) \in Network /\ (k = NetworkOf(k) \/ k = VipKey(NetworkOf(k)))
  BY Sorts DEF Network, NetworkOf, VipKey
<1>2. /\ \A n \in Network : Distinct(reservations[n]) /\ Distinct(nets[n])
      /\ PlanFits /\ SlsTypes /\ ArgTypes /\ PlanTypes
  BY Typed DEF IpsDistinct
<1>3. ASSUME UNCHANGED <<nets, ncn_ips, bmc_ip, alias, xname, reuse>>, Adding' => Adding, Chosen' => Chosen
      PROVE  PlanFits'
  BY <1>2, <1>3 DEF PlanFits, Fits
<1>4. ASSUME Exit, UNCHANGED reservations  PROVE IpsDistinct'
  <2>1. ~Adding' /\ ~Chosen'
    BY <1>4 DEF Exit, Adding
  <2>2. \A n \in Network : Distinct(nets[n])'
    BY <1>4 DEF Exit, NoReservations, Distinct, Unset, Gateway
  <2>3. \A n \in Network : Distinct(reservations[n])'
    BY <1>2, <1>4 DEF Distinct
  <2>. QED BY <2>1, <2>2, <2>3 DEF IpsDistinct, PlanFits
<1>5. ASSUME UNCHANGED <<reservations, nets, ncn_ips, bmc_ip, alias, xname, reuse>>,
             Adding' => Adding, Chosen' => Chosen
      PROVE  IpsDistinct'
  BY <1>2, <1>3, <1>5 DEF IpsDistinct, Distinct
<1>6. ASSUME ~Adding', ~Chosen', UNCHANGED reservations, \A n \in Network : Distinct(nets'[n])
      PROVE  IpsDistinct'
  BY <1>2, <1>6 DEF IpsDistinct, PlanFits, Distinct
<1>7. ASSUME NEW a \in SiteAlias, NEW x \in SiteXname,
             UNCHANGED reservations, Adding', alias' = a, xname' = x, reuse', retrieve_existing_ncn_ips(a)
      PROVE  IpsDistinct'
  <2>1. \A n \in Network : Distinct(nets'[n])
    BY <1>2, <1>7, RetrievedFits, DistinctLess
  <2>2. PlanFits'
    BY <1>1, <1>2, <1>7, RetrievedFits DEF PlanFits, Fits, Unset, Gateway
  <2>. QED BY <1>2, <1>7, <2>1, <2>2 DEF IpsDistinct, Distinct
<1>8. ASSUME NEW a \in SiteAlias, NEW x \in SiteXname, AllocateIps(a, x)  PROVE IpsDistinct'
  <2>. USE <1>8 DEF AllocateIps
  <2>1. UNCHANGED reservations /\ Adding' /\ alias' = a /\ xname' = x
    BY DEF Start, Adding, slsVars
  <2>2. CASE a \in Fixed
    BY <1>7, <2>1, <2>2
  <2>3. CASE a \notin Fixed
    <3>1. allocate_ncn_ips(a, x) /\ ~reuse'
      BY <2>3
    <3>2. \A n \in Network : Distinct(nets'[n])
      BY <1>2, <3>1 DEF allocate_ncn_ips
    <3>3. PlanFits'
      BY <1>1, <1>2, <2>1, <3>1, AllocatedFits DEF PlanFits, Fits
    <3>. QED BY <1>2, <2>1, <3>2, <3>3 DEF IpsDistinct, Distinct
  <2>. QED BY <2>2, <2>3
<1>9. ASSUME NEW a \in SiteAlias, NEW x \in SiteXname, NcnData(a, x)  PROVE IpsDistinct'
  BY <1>7, <1>9 DEF NcnData, Start, Adding, slsVars
<1>10. ASSUME NEW a \in SiteAlias, NEW x \in SiteXname, AllocateIpsRaises(a, x)  PROVE IpsDistinct'
  BY <1>2, <1>6, <1>10 DEF AllocateIpsRaises, Start, Adding, slsVars, planVars
<1>11. CASE PutNetwork
  <2>. USE <1>11, PutsReservations
  <2>1. /\ Adding /\ (Chosen' => Chosen) /\ (Adding' => Adding)
        /\ UNCHANGED <<ncn_ips, bmc_ip, alias, xname, reuse>>
        /\ \A l \in Xname : l # alias /\ l # Vip
        /\ alias # Vip /\ Vip \in Name /\ alias \in Name /\ xname \in Name
    BY Sorts DEF Adding, argVars
  <2>2. CASE ncn_ips[PutKey] = Unset
    BY <1>5, <2>1, <2>2
  <2>3. CASE ncn_ips[PutKey] # Unset
    <3>1. /\ \A n \in Network : /\ Fits(n, alias, ncn_ips[n]) /\ Fits(n, Vip, ncn_ips[VipKey(n)])
                                /\ ncn_ips[n] # Unset => ncn_ips[n] # ncn_ips[VipKey(n)]
          /\ Fits("HMN", xname, bmc_ip)
          /\ bmc_ip \notin {Unset, ncn_ips["HMN"], ncn_ips["HMN-fmn-vip"]}
      BY <1>2, <2>1 DEF PlanFits
    <3>2. Fits(PutNet, PutName, ncn_ips[PutKey]) /\ (PutNet = "HMN" => bmc_ip # ncn_ips[PutKey])
      <4>1. \/ PutKey = PutNet /\ PutName = alias
            \/ PutKey = VipKey(PutNet) /\ PutName = Vip
        BY <1>1 DEF PutNet, PutName
      <4>. QED BY <1>1, <3>1, <4>1
    <3>3. ASSUME NEW n \in Network  PROVE Distinct(nets'[n])
      <4>1. Distinct(nets[n])
        BY <1>2
      <4>2. CASE n # PutNet
        BY <2>3, <4>1, <4>2 DEF Distinct
      <4>3. CASE n = PutNet /\ n # "HMN"
        BY <2>1, <2>3, <3>2, <4>1, <4>3 DEF Distinct, Fits
      <4>4. CASE n = PutNet /\ n = "HMN"
        <5>1. \A l \in Name : nets'["HMN"][l] = IF l = PutName THEN ncn_ips[PutKey]
                                                ELSE IF l = xname THEN bmc_ip ELSE nets["HMN"][l]
          BY <2>3, <4>4
        <5>. QED BY <2>1, <2>3, <3>1, <3>2, <4>1, <4>4, <5>1 DEF Distinct, Fits
      <4>. QED BY <4>2, <4>3, <4>4
    <3>4. \A n \in Network : Distinct(reservations'[n])
      BY <1>2, <2>3, <3>3 DEF Distinct
    <3>5. ASSUME Adding'
          PROVE  /\ \A n \in Network : Fits(n, alias, ncn_ips[n])' /\ Fits(n, Vip, ncn_ips[VipKey(n)])'
                 /\ Fits("HMN", xname, bmc_ip)'
      <4>1. ASSUME NEW n \in Network  PROVE Fits(n, alias, ncn_ips[n])'
        <5>1. ASSUME NEW l \in Name \ {alias}, ncn_ips[n] # Unset  PROVE nets'[n][l] # ncn_ips[n]
          <6>1. nets[n][l] # ncn_ips[n] /\ (n = "HMN" => bmc_ip # ncn_ips[n])
            BY <3>1, <5>1 DEF Fits
          <6>2. n = PutNet /\ l = PutName => PutKey = VipKey(n)
            BY <1>1, <5>1 DEF PutNet, PutName
          <6>3. n = PutNet /\ l = PutName => ncn_ips[PutKey] # ncn_ips[n]
            BY <3>1, <5>1, <6>2
          <6>. QED BY <2>3, <6>1, <6>3
        <5>. QED BY <2>1, <3>1, <5>1 DEF Fits
      <4>2. ASSUME NEW n \in Network  PROVE Fits(n, Vip, ncn_ips[VipKey(n)])'
        <5>1. ASSUME NEW l \in Name \ {Vip}, ncn_ips[VipKey(n)] # Unset  PROVE nets'[n][l] # ncn_ips[VipKey(n)]
          BY <1>1, <2>1, <2>3, <3>1, <5>1 DEF Fits, PutNet, PutName
        <5>. QED BY <2>1, <3>1, <5>1 DEF Fits
      <4>3. Fits("HMN", xname, bmc_ip)'
        <5>1. ASSUME NEW l \in Name \ {xname}  PROVE nets'["HMN"][l] # bmc_ip
          BY <1>1, <2>1, <2>3, <3>1, <3>2, <5>1 DEF Fits
        <5>. QED BY <2>1, <3>1, <5>1 DEF Fits
      <4>. QED BY <4>1, <4>2, <4>3
    <3>6. PlanFits'
      <4>1. Chosen' => PlanFits!2'
        BY <1>2, <2>1 DEF PlanFits
      <4>. QED BY <1>2, <2>1, <3>5 DEF PlanFits
    <3>. QED BY <3>3, <3>4, <3>6 DEF IpsDistinct
  <2>. QED BY <2>2, <2>3
<1>12. ASSUME NEW x \in SiteXname, RemoveNcn(x)  PROVE IpsDistinct'
  <2>. USE <1>12 DEF RemoveNcn
  <2>1. ~Adding' /\ ~Chosen' /\ UNCHANGED reservations
    BY DEF Start, Adding, slsVars
  <2>2. \A n \in Network, m \in Name : nets'[n][m] \in {reservations[n][m], Unset}
    OBVIOUS
  <2>3. \A n \in Network : Distinct(nets'[n])
    BY <1>2, <2>2, DistinctLess
  <2>. QED BY <1>6, <2>1, <2>3
<1>13. CASE RemoveReservations
  <2>. USE <1>13 DEF RemoveReservations
  <2>. DEFINE n == <<"NMN", "HMN">>[put]
  <2>1. ~Adding' /\ ~Chosen' /\ UNCHANGED nets /\ put \in 1..2 /\ n \in Network
    BY <1>1, <1>2 DEF Adding, planVars, ArgTypes
  <2>2. \A m \in Network : Distinct(reservations'[m])
    BY <1>2, <2>1 DEF SlsTypes
  <2>. QED BY <1>2, <2>1, <2>2 DEF IpsDistinct, PlanFits, Distinct
<1>14. CASE AllocateValidated \/ NcnDataValidated \/ CreateNode \/ CreateComponent \/ Adds
            \/ Waits \/ RemoveHostRecords \/ RemoveBootparameters \/ RemoveComponent \/ RemoveNode \/ Removes
  BY <1>5, <1>14 DEF AllocateValidated, NcnDataValidated, CreateNode, CreateComponent, Adds, Waits,
       RemoveHostRecords, RemoveBootparameters, RemoveComponent, RemoveNode, Removes,
       Goto, slsVars, argVars, planVars, Adding
<1>15. CASE \E x \in SiteXname : Discover(x)
  BY <1>5, <1>15 DEF Discover, slsVars, argVars, planVars, Adding
<1>16. CASE Ends \/ UpdateGlobal \/ PutBootparameters
  BY <1>4, <1>16 DEF Ends, UpdateGlobal, PutBootparameters, slsVars
<1>. QED BY <1>8, <1>9, <1>10, <1>11, <1>12, <1>13, <1>14, <1>15, <1>16, Steps

-----------------------------------------------------------------------------
(* Slots and NIDs.                                                         *)

LEMMA SlotsStep ==
    ASSUME Types, SlotsFollowScript, [Next]_vars
    PROVE  SlotsFollowScript'
<1>1. /\ SlsTypes /\ ArgTypes /\ SiteAlias \subseteq Alias /\ SiteXname \subseteq Xname
      /\ \A a \in Alias : a # None
  BY Typed, Sorts
<1>. USE <1>1 DEF SlotsFollowScript
<1>2. ASSUME UNCHANGED slsNode, Exit  PROVE SlotsFollowScript'
  BY <1>2 DEF Exit, HasNoNode, HasNode, InData
<1>3. ASSUME UNCHANGED <<slsNode, alias, xname, reuse>>, HasNoNode' => HasNoNode, HasNode' => HasNode,
             InData' => InData, InAlloc' => InAlloc
      PROVE  SlotsFollowScript'
  BY <1>3 DEF InAlloc
<1>4. ASSUME NEW a \in SiteAlias, NEW x \in SiteXname, AllocateIps(a, x) \/ NcnData(a, x)
      PROVE  SlotsFollowScript'
  BY <1>4 DEF AllocateIps, NcnData, NotInSls, Start, slsVars, HasNoNode, HasNode, InData
<1>5. ASSUME NEW a \in SiteAlias, NEW x \in SiteXname, AllocateIpsRaises(a, x)  PROVE SlotsFollowScript'
  BY <1>5 DEF AllocateIpsRaises, Start, slsVars, HasNoNode, HasNode, InData
<1>6. ASSUME NEW x \in SiteXname, RemoveNcn(x)  PROVE SlotsFollowScript'
  BY <1>6 DEF RemoveNcn, Start, slsVars, HasNoNode, HasNode, InData
<1>7. CASE CreateNode
  <2>1. xname \in Xname /\ alias \in Alias /\ reuse /\ \A y \in Xname : slsNode[y] # alias
    BY <1>7 DEF CreateNode, ArgTypes, InData, HasNoNode
  <2>. QED BY <1>7, <2>1 DEF CreateNode, Goto, argVars, SlsTypes, HasNoNode, HasNode, InData
<1>8. CASE RemoveNode
  <2>1. xname \in Xname /\ alias \in Alias /\ pc' = "rm_put"
    BY <1>8 DEF RemoveNode, ArgTypes, Goto
  <2>2. \A y \in Xname : slsNode'[y] \in {slsNode[y], None}
    BY <1>8, <2>1 DEF RemoveNode, SlsTypes
  <2>. QED BY <2>1, <2>2 DEF HasNoNode, HasNode, InData
<1>9. CASE PutNetwork
  BY <1>3, <1>9, PutsReservations DEF HasNoNode, HasNode, InData, InAlloc, argVars
<1>10. CASE AllocateValidated \/ NcnDataValidated \/ CreateComponent \/ Adds \/ Waits
  BY <1>3, <1>10 DEF AllocateValidated, NcnDataValidated, CreateComponent, Adds, Waits,
       Goto, slsVars, argVars, HasNoNode, HasNode, InData, InAlloc
<1>11. CASE RemoveHostRecords \/ RemoveBootparameters \/ RemoveComponent \/ RemoveReservations \/ Removes
  BY <1>3, <1>11 DEF RemoveHostRecords, RemoveBootparameters, RemoveComponent, RemoveReservations, Removes,
       Goto, slsVars, argVars, HasNoNode, HasNode, InData, InAlloc
<1>12. CASE \E x \in SiteXname : Discover(x)
  BY <1>3, <1>12 DEF Discover, slsVars, argVars, HasNoNode, HasNode, InData, InAlloc
<1>13. CASE Ends \/ UpdateGlobal \/ PutBootparameters
  BY <1>2, <1>13 DEF Ends, UpdateGlobal, PutBootparameters, slsVars
<1>. QED BY <1>4, <1>5, <1>6, <1>7, <1>8, <1>9, <1>10, <1>11, <1>12, <1>13, Steps

LEMMA NidsStep ==
    ASSUME Types, NidsUnique, NidIsNew, [Next]_vars
    PROVE  NidsUnique' /\ NidIsNew'
<1>1. /\ SlsTypes /\ HsmTypes /\ ArgTypes /\ PlanTypes /\ SiteXname \subseteq Xname
      /\ \A i \in Nid : i # Unset
  BY Typed, Sorts
<1>. USE <1>1 DEF NidsUnique, NidIsNew
<1>2. ASSUME UNCHANGED <<slsNid, hsmNid>>,
             Exit \/ ~InData' \/ (UNCHANGED <<xname, nid>> /\ (InData' => InData) /\ (HasNode' => HasNode)
                                  /\ (pc' \in {"data_validate", "data_node"} => pc' = pc))
      PROVE  NidsUnique' /\ NidIsNew'
  BY <1>2 DEF Exit, InData
<1>3. ASSUME NEW a, NEW x \in SiteXname, NcnData(a, x)  PROVE NidsUnique' /\ NidIsNew'
  BY <1>3 DEF NcnData, Start, slsVars, hsmVars, FreeNids, HasNode
<1>4. CASE NcnDataValidated
  BY <1>4 DEF NcnDataValidated, NidUnknownToHsm, slsVars, planVars, HasNode, InData
<1>5. CASE CreateNode
  <2>1. /\ xname \in Xname /\ nid \in Nid /\ pc' \notin {"data_validate", "data_node"}
        /\ \A y \in Xname : nid \notin {slsNid[y], hsmNid[y]}
    BY <1>5 DEF CreateNode, Goto, ArgTypes, PlanTypes, InData
  <2>2. \A y \in Xname : slsNid'[y] = IF y = xname THEN nid ELSE slsNid[y]
    BY <1>5, <2>1 DEF CreateNode, SlsTypes
  <2>3. UNCHANGED <<hsmNid, xname, nid>>
    BY <1>5 DEF CreateNode, Goto, hsmVars, argVars, planVars
  <2>. QED BY <2>1, <2>2, <2>3
<1>6. ASSUME NEW x \in Xname, \A y \in Xname : hsmNid'[y] = IF y = x THEN slsNid[x] ELSE hsmNid[y],
             UNCHANGED <<slsNid, xname, nid>>, InData' => InData, HasNode' => HasNode,
             pc' \in {"data_validate", "data_node"} => pc' = pc
      PROVE  NidsUnique' /\ NidIsNew'
  BY <1>6
<1>7. CASE CreateComponent
  <2>1. xname \in Xname /\ InData /\ HasNode /\ slsNid[xname] = nid
    BY <1>7 DEF CreateComponent, ArgTypes, InData, HasNode
  <2>2. \A y \in Xname : hsmNid'[y] = IF y = xname THEN slsNid[xname] ELSE hsmNid[y]
    BY <1>7, <2>1 DEF CreateComponent, HsmTypes
  <2>. QED BY <1>6, <1>7, <2>1, <2>2 DEF CreateComponent, Goto, slsVars, argVars, planVars
<1>8. ASSUME NEW x \in SiteXname, Discover(x)  PROVE NidsUnique' /\ NidIsNew'
  <2>1. \A y \in Xname : hsmNid'[y] = IF y = x THEN slsNid[x] ELSE hsmNid[y]
    BY <1>8 DEF Discover, HsmTypes
  <2>. QED BY <1>6, <1>8, <2>1 DEF Discover, slsVars, argVars, planVars, InData, HasNode
<1>9. CASE RemoveComponent
  <2>1. \A y \in Xname : hsmNid'[y] \in {hsmNid[y], Unset}
    BY <1>9 DEF RemoveComponent, HsmTypes
  <2>. QED BY <1>9, <2>1 DEF RemoveComponent, Goto, slsVars, InData
<1>10. CASE RemoveNode
  <2>1. \A y \in Xname : slsNid'[y] \in {slsNid[y], Unset}
    BY <1>10 DEF RemoveNode, SlsTypes
  <2>. QED BY <1>10, <2>1 DEF RemoveNode, Goto, hsmVars, InData
<1>11. CASE \E a \in SiteAlias, x \in SiteXname : AllocateIps(a, x) \/ AllocateIpsRaises(a, x)
  BY <1>2, <1>11 DEF AllocateIps, AllocateIpsRaises, Start, slsVars, hsmVars, InData
<1>12. CASE \E x \in SiteXname : RemoveNcn(x)
  BY <1>2, <1>12 DEF RemoveNcn, Start, slsVars, hsmVars, InData
<1>13. CASE PutNetwork
  BY <1>2, <1>13, PutsReservations DEF argVars, hsmVars, InData, HasNode
<1>14. CASE AllocateValidated \/ Adds \/ Waits
  BY <1>2, <1>14 DEF AllocateValidated, Adds, Waits, slsVars, argVars, planVars, InData, HasNode
<1>15. CASE RemoveHostRecords \/ RemoveBootparameters \/ RemoveReservations \/ Removes
  BY <1>2, <1>15 DEF RemoveHostRecords, RemoveBootparameters, RemoveReservations, Removes,
       Goto, slsVars, hsmVars, InData
<1>16. CASE Ends \/ UpdateGlobal \/ PutBootparameters
  BY <1>2, <1>16 DEF Ends, UpdateGlobal, PutBootparameters, slsVars, hsmVars
<1>. QED BY <1>3, <1>4, <1>5, <1>7, <1>8, <1>9, <1>10, <1>11, <1>12, <1>13, <1>14, <1>15, <1>16, Steps

-----------------------------------------------------------------------------
(* The copies.                                                             *)

LEMMA CopiesStep ==
    ASSUME Types, IpsDistinct, CopiesAreCurrent, [Next]_vars
    PROVE  CopiesAreCurrent'
<1>1. /\ SlsTypes /\ ArgTypes /\ PlanTypes /\ SiteAlias \subseteq Alias /\ SiteXname \subseteq Xname
      /\ Network = {"NMN", "HMN"}
      /\ \A n \in Network : Distinct(reservations[n])
  BY Typed DEF IpsDistinct, Network
<1>. USE <1>1 DEF CopiesAreCurrent
<1>2. ASSUME UNCHANGED <<reservations, hostRecords, nets, global, alias, xname>>,
             Adding' => Adding, Removing' => Removing,
             pc' \in {"alloc_put", "alloc_global"} => pc \in {"alloc_put", "alloc_global"},
             pc' = "rm_global" => pc = "rm_global"
      PROVE  CopiesAreCurrent'
  BY <1>2
<1>3. ASSUME ~Adding', ~Removing', pc' # "alloc_global"  PROVE CopiesAreCurrent'
  BY <1>3 DEF Adding, Removing
<1>4. ASSUME NEW a \in SiteAlias, NEW x \in SiteXname, AllocateIps(a, x) \/ NcnData(a, x)
      PROVE  CopiesAreCurrent'
  <2>1. UNCHANGED reservations /\ pc' \in {"alloc_validate", "data_validate"}
    BY <1>4 DEF AllocateIps, NcnData, Start, slsVars
  <2>2. \A n \in Network, m \in Name : nets'[n][m] \in {reservations[n][m], Unset}
    BY <1>4, RetrievedFits, AllocatedFits DEF AllocateIps, NcnData
  <2>. QED BY <2>1, <2>2 DEF Removing
<1>5. CASE AllocateValidated
  BY <1>5 DEF AllocateValidated, slsVars, bssVars, argVars, Adding, Removing
<1>6. CASE PutNetwork
  <2>. USE <1>6, PutsReservations
  <2>1. /\ UNCHANGED <<hostRecords, global, alias, xname>> /\ Adding /\ ~Removing'
        /\ pc' \in {"alloc_put", "alloc_global"} => pc = "alloc_put"
        /\ pc' # "rm_global"
    BY DEF bssVars, argVars, Adding, Removing
  <2>2. CASE ncn_ips[PutKey] = Unset
    BY <2>1, <2>2
  <2>3. CASE ncn_ips[PutKey] # Unset
    <3>1. PutName \in {alias, Vip}
      BY DEF PutName
    <3>2. ASSUME NEW n \in Network, NEW m \in Name \ {alias, xname, Vip}
          PROVE  nets'[n][m] \in {reservations'[n][m], Unset}
      BY <2>1, <2>3, <3>1
    <3>. QED BY <2>1, <3>2
  <2>. QED BY <2>2, <2>3
<1>7. ASSUME NEW x \in SiteXname, RemoveNcn(x)  PROVE CopiesAreCurrent'
  <2>1. /\ UNCHANGED <<reservations, hostRecords>> /\ alias' = slsNode[x] /\ xname' = x /\ pc' = "rm_global"
        /\ nets' = IF slsNode[x] \in Fixed THEN reservations
                   ELSE [n \in Network |-> [m \in Name |->
                            IF m \in {slsNode[x], x} THEN Unset ELSE reservations[n][m]]]
        /\ global' = IF slsNode[x] \in Fixed THEN hostRecords ELSE {r \in hostRecords : r.who # slsNode[x]}
    BY <1>7 DEF RemoveNcn, Start, slsVars, bssVars
  <2>. QED BY <2>1 DEF Adding
<1>8. CASE RemoveReservations
  <2>. DEFINE n == <<"NMN", "HMN">>[put]
  <2>1. /\ UNCHANGED <<hostRecords, nets, global, alias, xname>> /\ n \in Network
        /\ Removing /\ ~Adding' /\ pc' \notin {"alloc_put", "alloc_global", "rm_global"}
        /\ reservations' = [reservations EXCEPT ![n] = nets[n]] \/ UNCHANGED reservations
    BY <1>8 DEF RemoveReservations, bssVars, planVars, argVars, ArgTypes, Adding, Removing
  <2>2. \A m \in Network : reservations'[m] \in {reservations[m], nets[m]}
    BY <2>1 DEF SlsTypes
  <2>. QED BY <2>1, <2>2
<1>9. CASE RemoveHostRecords
  BY <1>9 DEF RemoveHostRecords, Goto, slsVars, argVars, planVars, Adding, Removing
<1>10. CASE NcnDataValidated \/ CreateNode \/ Adds \/ Waits
  BY <1>2, <1>10 DEF NcnDataValidated, CreateNode, Adds, Waits,
       Goto, slsVars, bssVars, argVars, planVars, Adding, Removing
<1>11. CASE RemoveBootparameters \/ RemoveComponent \/ RemoveNode \/ Removes
  BY <1>2, <1>11 DEF RemoveBootparameters, RemoveComponent, RemoveNode, Removes,
       Goto, slsVars, bssVars, argVars, planVars, Adding, Removing
<1>12. CASE \E x \in SiteXname : Discover(x)
  BY <1>2, <1>12 DEF Discover, slsVars, bssVars, argVars, planVars, Adding, Removing
<1>13. CASE Ends \/ UpdateGlobal \/ PutBootparameters \/ CreateComponent
  BY <1>3, <1>13 DEF Ends, UpdateGlobal, PutBootparameters, CreateComponent, Exit, Goto, Adding, Removing
<1>14. CASE \E a \in SiteAlias, x \in SiteXname : AllocateIpsRaises(a, x)
  BY <1>3, <1>14 DEF AllocateIpsRaises, Start, Adding, Removing
<1>. QED BY <1>4, <1>5, <1>6, <1>7, <1>8, <1>9, <1>10, <1>11, <1>12, <1>13, <1>14, Steps

-----------------------------------------------------------------------------
(* The first NCNs.                                                         *)

\* Their IPs are IPs, and apart.
LEMMA InstalledFacts ==
    /\ Fixed \subseteq Alias /\ Network = {"NMN", "HMN"}
    /\ \A n \in Network : Unset \notin FixedIps(n)
    /\ \A a \in Fixed, n \in Network : InstalledIp[n][a] \in FixedIps(n)
    /\ \A a \in Fixed : InstalledBmcIp[a] \in FixedIps("HMN")
    /\ \A a, b \in Fixed : a # b => /\ \A n \in Network : InstalledIp[n][a] # InstalledIp[n][b]
                                    /\ InstalledBmcIp[a] # InstalledBmcIp[b]
    /\ \A a, b \in Fixed : InstalledIp["HMN"][a] # InstalledBmcIp[b]
<1>1. /\ Fixed \subseteq Alias
      /\ InstalledIp \in [Network -> [Fixed -> IP \ {Unset, Gateway}]]
      /\ InstalledBmcIp \in [Fixed -> IP \ {Unset, Gateway}]
      /\ \A a, b \in Fixed, n \in Network : a # b => InstalledIp[n][a] # InstalledIp[n][b]
      /\ \A a, b \in Fixed : /\ a # b => InstalledBmcIp[a] # InstalledBmcIp[b]
                             /\ InstalledIp["HMN"][a] # InstalledBmcIp[b]
  BY ManageNcnAssumption
<1>. QED BY <1>1 DEF FixedIps, Network

\* The host records give the first NCNs their IPs, and no other NCN one of theirs.
LEMMA RecordIpsOfFixed ==
    ASSUME Types, FixedRecordsKept, NEW a
    PROVE  /\ a \in Fixed => /\ \A n \in Network : RecordIps(hostRecords, a, n) = {InstalledIp[n][a]}
                             /\ RecordIps(hostRecords, a, "mgmt") = {InstalledBmcIp[a]}
           /\ a \notin Fixed => /\ \A n \in Network : \A i \in RecordIps(hostRecords, a, n) : i \notin FixedIps(n)
                                /\ \A i \in RecordIps(hostRecords, a, "mgmt") : i \notin FixedIps("HMN")
<1>. DEFINE ips(f) == {r.ip : r \in {h \in hostRecords : h.who = a /\ h.for = f}}
<1>1. \A n \in Network : n # "mgmt"
  BY DEF Network
<1>2. ASSUME a \in Fixed, NEW n \in Network  PROVE RecordIps(hostRecords, a, n) = {InstalledIp[n][a]}
  <2>1. [who |-> a, for |-> n, ip |-> InstalledIp[n][a]] \in hostRecords
    BY <1>2 DEF FixedRecordsKept
  <2>2. InstalledIp[n][a] \in ips(n)
    BY <2>1
  <2>3. \A r \in hostRecords : r.who = a /\ r.for = n => r.ip = InstalledIp[n][a]
    BY <1>1, <1>2 DEF FixedRecordsKept
  <2>. QED BY <2>2, <2>3 DEF RecordIps
<1>3. ASSUME a \in Fixed  PROVE RecordIps(hostRecords, a, "mgmt") = {InstalledBmcIp[a]}
  <2>1. [who |-> a, for |-> "mgmt", ip |-> InstalledBmcIp[a]] \in hostRecords
    BY <1>3 DEF FixedRecordsKept
  <2>2. InstalledBmcIp[a] \in ips("mgmt")
    BY <2>1
  <2>3. \A r \in hostRecords : r.who = a /\ r.for = "mgmt" => r.ip = InstalledBmcIp[a]
    BY <1>3 DEF FixedRecordsKept
  <2>. QED BY <2>2, <2>3 DEF RecordIps
<1>4. ASSUME a \notin Fixed, NEW r \in hostRecords, r.who = a  PROVE r.ip \notin FixedIps(RecordNetwork(r))
  BY <1>4 DEF FixedRecordsKept
<1>5. ASSUME a \notin Fixed, NEW n \in Network, NEW i \in RecordIps(hostRecords, a, n)
      PROVE  i \notin FixedIps(n)
  <2>1. i = Unset \/ \E r \in hostRecords : r.who = a /\ r.for = n /\ i = r.ip
    BY <1>5 DEF RecordIps
  <2>. QED BY <1>1, <1>4, <1>5, <2>1, InstalledFacts DEF RecordNetwork
<1>6. ASSUME a \notin Fixed, NEW i \in RecordIps(hostRecords, a, "mgmt")
      PROVE  i \notin FixedIps("HMN")
  <2>1. i = Unset \/ \E r \in hostRecords : r.who = a /\ r.for = "mgmt" /\ i = r.ip
    BY <1>6 DEF RecordIps
  <2>. QED BY <1>4, <1>6, <2>1, InstalledFacts DEF RecordNetwork, Network
<1>. QED BY <1>2, <1>3, <1>5, <1>6

LEMMA FixedRecordsStep ==
    ASSUME Types, SlotsFollowScript, CopiesAreCurrent, FixedRecordsKept, PlanKeepsFixed, [Next]_vars
    PROVE  FixedRecordsKept'
<1>1. /\ ArgTypes /\ PlanTypes /\ Network = {"NMN", "HMN"} /\ Fixed \subseteq Alias /\ Vip \notin Alias
  BY Typed, Sorts, InstalledFacts
<1>2. UNCHANGED hostRecords => FixedRecordsKept'
  BY DEF FixedRecordsKept, FixedIps, RecordNetwork
<1>3. CASE UpdateGlobal
  <2>. SUFFICES ASSUME ~reuse  PROVE FixedRecordsKept'
    BY <1>2, <1>3 DEF UpdateGlobal
  <2>1. hostRecords' = hostRecords \cup NewHostRecords /\ alias \notin Fixed /\ pc = "alloc_global"
    BY <1>3 DEF UpdateGlobal, CopiesAreCurrent, SlotsFollowScript
  <2>2. bmc_ip \notin FixedIps("HMN") /\ \A k \in Key : ncn_ips[k] \notin FixedIps(NetworkOf(k))
    BY <2>1 DEF PlanKeepsFixed
  <2>3. ASSUME NEW r \in NewHostRecords
        PROVE  r.who \notin Fixed /\ r.ip \notin FixedIps(RecordNetwork(r))
    <3>1. CASE r = [who |-> alias, for |-> "mgmt", ip |-> bmc_ip]
      BY <2>1, <2>2, <3>1 DEF RecordNetwork
    <3>2. ASSUME NEW k \in Key,
                 r = [who |-> IF k = NetworkOf(k) THEN alias ELSE Vip, for |-> NetworkOf(k), ip |-> ncn_ips[k]]
          PROVE  r.who \notin Fixed /\ r.ip \notin FixedIps(RecordNetwork(r))
      <4>1. NetworkOf(k) \in Network /\ r.for = NetworkOf(k) /\ RecordNetwork(r) = NetworkOf(k)
        BY <1>1, <3>2, Sorts DEF RecordNetwork
      <4>. QED BY <1>1, <2>1, <2>2, <3>2, <4>1
    <3>. QED BY <3>1, <3>2 DEF NewHostRecords
  <2>4. \A r : RecordNetwork(r)' = RecordNetwork(r)
    BY DEF RecordNetwork
  <2>5. \A r \in hostRecords' : IF r.who \in Fixed
            THEN r.ip = IF r.for = "mgmt" THEN InstalledBmcIp[r.who] ELSE InstalledIp[r.for][r.who]
            ELSE r.ip \notin FixedIps(RecordNetwork(r))
    BY <2>1, <2>3 DEF FixedRecordsKept
  <2>. QED BY <2>1, <2>5 DEF FixedRecordsKept, FixedIps, RecordNetwork
<1>4. CASE RemoveHostRecords
  <2>1. global = IF alias \in Fixed THEN hostRecords ELSE {r \in hostRecords : r.who # alias}
    BY <1>4 DEF RemoveHostRecords, CopiesAreCurrent
  <2>2. hostRecords' = hostRecords \/ (alias \notin Fixed /\ hostRecords' = {r \in hostRecords : r.who # alias})
    BY <1>4, <2>1 DEF RemoveHostRecords
  <2>. SUFFICES ASSUME alias \notin Fixed, hostRecords' = {r \in hostRecords : r.who # alias}
                PROVE  FixedRecordsKept'
    BY <1>2, <2>2
  <2>. QED BY DEF FixedRecordsKept, FixedIps, RecordNetwork
<1>5. UpdateGlobal \/ RemoveHostRecords \/ UNCHANGED hostRecords
  BY Changes
<1>. QED BY <1>2, <1>3, <1>4, <1>5

\* What a script PUTs for one of the first NCNs is what is there.
LEMMA FixedPut ==
    ASSUME Types, SlotsFollowScript, IpsDistinct, FixedInv, PutNetwork, ncn_ips[PutKey] # Unset
    PROVE  /\ \A a \in Fixed, n \in Network : reservations'[n][a] = InstalledIp[n][a]
           /\ \A a \in Fixed : \E x \in Xname : reservations'["HMN"][x] = InstalledBmcIp[a]
           /\ \A a \in Fixed \ {alias} : /\ \A n \in Network : nets'[n][a] = InstalledIp[n][a]
                                         /\ \E x \in Xname \ {xname} : nets'["HMN"][x] = InstalledBmcIp[a]
<1>. USE PutsReservations
<1>1. /\ Adding /\ Fixed \subseteq Alias /\ Alias \subseteq Name /\ Xname \subseteq Name /\ "HMN" \in Network
      /\ \A a \in Fixed : a # xname /\ a # Vip /\ a \in Name
      /\ \A x \in Xname : x # alias /\ x # Vip
  BY Sorts, InstalledFacts DEF Adding, Network
<1>2. ASSUME NEW a \in Fixed \ {alias}
      PROVE  /\ \A n \in Network : nets'[n][a] = InstalledIp[n][a]
             /\ \E x \in Xname \ {xname} : nets'["HMN"][x] = InstalledBmcIp[a]
  <2>1. \A n \in Network : nets[n][a] = InstalledIp[n][a]
    BY <1>1 DEF FixedInv, PlanKeepsFixed
  <2>2. PICK x \in Xname \ {xname} : nets["HMN"][x] = InstalledBmcIp[a]
    BY <1>1 DEF FixedInv, PlanKeepsFixed
  <2>3. PutName # a /\ PutName # x
    BY <1>1 DEF PutName
  <2>. QED BY <1>1, <2>1, <2>2, <2>3
<1>3. ASSUME alias \in Fixed
      PROVE  /\ PutName = alias /\ ncn_ips[PutKey] = InstalledIp[PutNet][alias]
             /\ bmc_ip = InstalledBmcIp[alias]
  <2>1. reuse /\ \A n \in Network : ncn_ips[VipKey(n)] = Unset
    BY <1>1, <1>3 DEF SlotsFollowScript, InData, IpsDistinct, PlanFits, Adding
  <2>2. PutKey = PutNet
    BY <2>1, Sorts DEF PutNet
  <2>. QED BY <1>1, <1>3, <2>2 DEF PutName, FixedInv, PlanKeepsFixed
<1>4. ASSUME NEW a \in Fixed, NEW n \in Network  PROVE reservations'[n][a] = InstalledIp[n][a]
  <2>1. reservations[n][a] = InstalledIp[n][a]
    BY DEF FixedInv, FixedIpsKept
  <2>. QED BY <1>1, <1>2, <1>3, <2>1
<1>5. ASSUME NEW a \in Fixed  PROVE \E x \in Xname : reservations'["HMN"][x] = InstalledBmcIp[a]
  <2>1. PICK x \in Xname : reservations["HMN"][x] = InstalledBmcIp[a]
    BY DEF FixedInv, FixedBmcsKept
  <2>2. CASE PutNet # "HMN"
    BY <1>1, <2>1, <2>2
  <2>3. CASE PutNet = "HMN" /\ a # alias
    BY <1>1, <1>2, <2>3
  <2>4. CASE PutNet = "HMN" /\ a = alias
    <3>1. xname # PutName /\ nets'["HMN"][xname] = bmc_ip
      BY <1>1, <2>4
    <3>. QED BY <1>1, <1>3, <2>4, <3>1
  <2>. QED BY <2>2, <2>3, <2>4
<1>. QED BY <1>2, <1>4, <1>5

LEMMA FixedBmcsStep ==
    ASSUME Types, SlotsFollowScript, CopiesAreCurrent, IpsDistinct, FixedInv, [Next]_vars
    PROVE  FixedIpsKept' /\ FixedBmcsKept'
<1>1. /\ SlsTypes /\ ArgTypes /\ SiteXname \subseteq Xname /\ "HMN" \in Network /\ Network = {"NMN", "HMN"}
      /\ Xname \subseteq Name /\ Fixed \subseteq Alias /\ \A a \in Alias : a # None
  BY Typed, Sorts, InstalledFacts DEF Network
<1>. DEFINE Kept == \A a \in Fixed : \E x \in Xname : reservations'["HMN"][x] = InstalledBmcIp[a]
            Apart == \A x \in Xname : slsNode'[x] \notin Fixed \cup {None} =>
                        reservations'["HMN"][x] \notin FixedIps("HMN")
            OwnApart == (pc' \in {"data_validate", "data_node"} \/ Removing') /\ alias' \notin Fixed =>
                        reservations'["HMN"][xname'] \notin FixedIps("HMN")
<1>2. Kept /\ Apart /\ OwnApart => FixedBmcsKept'
  BY DEF FixedBmcsKept, FixedIps
<1>3. Kept /\ (\A a \in Fixed, n \in Network : reservations'[n][a] = InstalledIp[n][a]) => FixedIpsKept'
  <2>. SUFFICES ASSUME Kept, NEW a \in Fixed  PROVE InstalledBmcIp[a] \in Reserved("HMN", reservations')
    BY DEF FixedIpsKept, Reserved
  <2>1. InstalledBmcIp[a] # Unset
    BY InstalledFacts
  <2>. QED BY <1>1, <2>1 DEF Reserved
<1>4. ASSUME UNCHANGED reservations
      PROVE  Kept /\ \A a \in Fixed, n \in Network : reservations'[n][a] = InstalledIp[n][a]
  BY <1>4 DEF FixedInv, FixedIpsKept, FixedBmcsKept
<1>5. ASSUME UNCHANGED <<reservations, slsNode>>, OwnApart  PROVE FixedIpsKept' /\ FixedBmcsKept'
  BY <1>2, <1>3, <1>4, <1>5 DEF FixedInv, FixedBmcsKept
<1>6. ASSUME UNCHANGED <<alias, xname, reservations>>, Removing' => Removing,
             pc' \in {"data_validate", "data_node"} => pc \in {"data_validate", "data_node"}
      PROVE  OwnApart
  BY <1>6 DEF FixedInv, FixedBmcsKept
<1>7. ASSUME NEW a \in SiteAlias, NEW x \in SiteXname, NcnData(a, x)  PROVE FixedIpsKept' /\ FixedBmcsKept'
  <2>1. UNCHANGED <<reservations, slsNode>> /\ NotPromised(a, x) /\ alias' = a /\ xname' = x
    BY <1>7 DEF NcnData, NotInSls, Start, slsVars
  <2>2. a \notin Fixed => reservations["HMN"][x] \notin FixedIps("HMN")
    BY <2>1, RecordIpsOfFixed, InstalledFacts DEF NotPromised, FixedInv
  <2>. QED BY <1>5, <2>1, <2>2
<1>8. ASSUME NEW x \in SiteXname, RemoveNcn(x)  PROVE FixedIpsKept' /\ FixedBmcsKept'
  <2>1. UNCHANGED <<reservations, slsNode>> /\ alias' = slsNode[x] /\ xname' = x /\ slsNode[x] # None
    BY <1>8 DEF RemoveNcn, Start, slsVars
  <2>2. slsNode[x] \notin Fixed => reservations["HMN"][x] \notin FixedIps("HMN")
    BY <1>1, <2>1 DEF FixedInv, FixedBmcsKept
  <2>. QED BY <1>5, <2>1, <2>2
<1>9. CASE PutNetwork
  <2>. USE PutsReservations, <1>9
  <2>1. ~Removing' /\ pc' \notin {"data_validate", "data_node"} /\ UNCHANGED slsNode /\ Adding
    BY DEF Removing, Adding
  <2>2. CASE ncn_ips[PutKey] = Unset
    BY <1>5, <2>1, <2>2
  <2>3. CASE ncn_ips[PutKey] # Unset
    <3>1. ASSUME NEW x \in Xname, slsNode[x] \notin Fixed \cup {None}
          PROVE  reservations'["HMN"][x] \notin FixedIps("HMN")
      <4>1. reservations["HMN"][x] \notin FixedIps("HMN") /\ Unset \notin FixedIps("HMN")
        BY <1>1, <3>1, InstalledFacts DEF FixedInv, FixedBmcsKept
      <4>2. CASE PutNet # "HMN"
        BY <1>1, <2>3, <4>1, <4>2
      <4>3. CASE PutNet = "HMN" /\ x # xname
        <5>1. PutName # x /\ x \in Name \ {alias, xname, Vip}
          BY <1>1, <4>3, Sorts DEF PutName
        <5>2. reservations'["HMN"][x] = nets["HMN"][x]
          BY <1>1, <2>3, <4>3, <5>1
        <5>. QED BY <1>1, <2>1, <4>1, <5>1, <5>2 DEF CopiesAreCurrent
      <4>4. CASE PutNet = "HMN" /\ x = xname
        <5>1. alias \notin Fixed
          BY <3>1, <4>4 DEF SlotsFollowScript, HasNoNode, HasNode
        <5>2. reservations'["HMN"][x] = bmc_ip
          BY <1>1, <2>3, <4>4
        <5>. QED BY <2>1, <5>1, <5>2 DEF FixedInv, PlanKeepsFixed
      <4>. QED BY <4>2, <4>3, <4>4
    <3>. QED BY <1>2, <1>3, <2>1, <2>3, <3>1, FixedPut
  <2>. QED BY <2>2, <2>3
<1>10. CASE RemoveReservations
  <2>. DEFINE n == <<"NMN", "HMN">>[put]
  <2>1. /\ UNCHANGED <<slsNode, alias, xname>> /\ n \in Network /\ Removing
        /\ pc' \notin {"data_validate", "data_node"}
        /\ reservations' = [reservations EXCEPT ![n] = nets[n]] \/ UNCHANGED reservations
    BY <1>1, <1>10 DEF RemoveReservations, argVars, ArgTypes, Removing
  <2>2. alias \in Alias /\ xname \in Xname
    BY <1>1, <1>10 DEF RemoveReservations, ArgTypes
  <2>3. ASSUME NEW m \in Network, NEW l \in Name
        PROVE  \/ reservations'[m][l] = reservations[m][l]
               \/ alias \notin Fixed /\ l \in {alias, xname} /\ reservations'[m][l] = Unset
    <3>1. nets[m][l] = IF alias \notin Fixed /\ l \in {alias, xname} THEN Unset ELSE reservations[m][l]
      BY <2>1 DEF CopiesAreCurrent
    <3>2. reservations'[m] \in {reservations[m], nets[m]}
      BY <1>1, <2>1 DEF SlsTypes
    <3>. QED BY <3>1, <3>2
  <2>4. ASSUME NEW a \in Fixed, NEW m \in Network  PROVE reservations'[m][a] = InstalledIp[m][a]
    <3>1. a \in Name /\ a # xname /\ reservations[m][a] = InstalledIp[m][a]
      BY <1>1, <2>2, Sorts DEF FixedInv, FixedIpsKept
    <3>. QED BY <2>3, <3>1
  <2>5. alias \notin Fixed => reservations["HMN"][xname] \notin FixedIps("HMN")
    BY <2>1 DEF FixedInv, FixedBmcsKept
  <2>6. ASSUME NEW a \in Fixed  PROVE \E x \in Xname : reservations'["HMN"][x] = InstalledBmcIp[a]
    <3>1. PICK x \in Xname : reservations["HMN"][x] = InstalledBmcIp[a]
      BY DEF FixedInv, FixedBmcsKept
    <3>2. x # alias /\ x \in Name /\ InstalledBmcIp[a] \in FixedIps("HMN")
      BY <1>1, <2>2, Sorts, InstalledFacts
    <3>. QED BY <1>1, <2>3, <2>5, <3>1, <3>2
  <2>7. Apart
    <3>1. Unset \notin FixedIps("HMN")
      BY <1>1, InstalledFacts
    <3>2. \A x \in Xname : reservations'["HMN"][x] \in {reservations["HMN"][x], Unset}
      BY <1>1, <2>3
    <3>. QED BY <2>1, <3>1, <3>2 DEF FixedInv, FixedBmcsKept
  <2>8. OwnApart
    <3>1. Unset \notin FixedIps("HMN")
      BY <1>1, InstalledFacts
    <3>. QED BY <1>1, <2>1, <2>2, <2>3, <2>5, <3>1
  <2>. QED BY <1>2, <1>3, <2>4, <2>6, <2>7, <2>8
<1>11. CASE CreateNode
  <2>1. /\ UNCHANGED <<reservations, alias, xname>> /\ xname \in Xname /\ pc = "data_node"
        /\ pc' \notin {"data_validate", "data_node"} /\ ~Removing'
        /\ \A x \in Xname : slsNode'[x] = IF x = xname THEN alias ELSE slsNode[x]
    BY <1>1, <1>11 DEF CreateNode, Goto, argVars, ArgTypes, SlsTypes, Removing
  <2>2. Apart
    BY <2>1 DEF FixedInv, FixedBmcsKept
  <2>. QED BY <1>2, <1>3, <1>4, <2>1, <2>2
<1>12. CASE RemoveNode
  <2>1. /\ UNCHANGED <<reservations, alias, xname>> /\ Removing /\ pc' \notin {"data_validate", "data_node"}
        /\ \A x \in Xname : slsNode'[x] \in {slsNode[x], None}
    BY <1>1, <1>12 DEF RemoveNode, Goto, argVars, SlsTypes, Removing
  <2>2. Apart
    BY <2>1 DEF FixedInv, FixedBmcsKept
  <2>. QED BY <1>2, <1>3, <1>4, <1>6, <2>1, <2>2
<1>13. CASE AllocateValidated \/ NcnDataValidated \/ CreateComponent \/ Adds \/ Waits
  BY <1>5, <1>6, <1>13 DEF AllocateValidated, NcnDataValidated, CreateComponent, Adds, Waits,
       Goto, slsVars, argVars, Removing
<1>14. CASE RemoveHostRecords \/ RemoveBootparameters \/ RemoveComponent \/ Removes
  BY <1>5, <1>6, <1>14 DEF RemoveHostRecords, RemoveBootparameters, RemoveComponent, Removes,
       Goto, slsVars, argVars, Removing
<1>15. CASE \E x \in SiteXname : Discover(x)
  BY <1>5, <1>6, <1>15 DEF Discover, slsVars, argVars, Removing
<1>16. CASE Ends \/ UpdateGlobal \/ PutBootparameters
  BY <1>5, <1>16 DEF Ends, UpdateGlobal, PutBootparameters, Exit, slsVars, Removing
<1>17. CASE \E a \in SiteAlias, x \in SiteXname : AllocateIps(a, x) \/ AllocateIpsRaises(a, x)
  BY <1>5, <1>17 DEF AllocateIps, AllocateIpsRaises, Start, slsVars, Removing
<1>. QED BY <1>7, <1>8, <1>9, <1>10, <1>11, <1>12, <1>13, <1>14, <1>15, <1>16, <1>17, Steps

\* An addition that begins has the first NCNs' IPs in view.
LEMMA PlanKeepsFixedStarts ==
    ASSUME Types, IpsDistinct, FixedInv, NEW a \in SiteAlias, NEW x \in SiteXname,
           AllocateIps(a, x) \/ NcnData(a, x)
    PROVE  PlanKeepsFixed'
<1>1. /\ SlsTypes /\ "HMN" \in Network /\ Network = {"NMN", "HMN"} /\ Fixed \subseteq Alias
      /\ x \in Xname /\ Xname \subseteq Name /\ Alias \subseteq Name /\ a \in Alias
      /\ \A k \in Key : NetworkOf(k) \in Network /\ (k = NetworkOf(k) \/ k = VipKey(NetworkOf(k)))
      /\ \A n \in Network : Distinct(reservations[n])
  BY Typed, Sorts, InstalledFacts DEF Network, IpsDistinct
<1>2. /\ alias' = a /\ xname' = x /\ UNCHANGED reservations /\ NotPromised(a, x)
  BY DEF AllocateIps, NcnData, NotInSls, Start, slsVars
<1>3. /\ FixedRecordsKept /\ \A b \in Fixed, n \in Network : reservations[n][b] = InstalledIp[n][b]
      /\ \A b \in Fixed : \E y \in Xname : reservations["HMN"][y] = InstalledBmcIp[b]
  BY DEF FixedInv, FixedIpsKept, FixedBmcsKept
<1>4. SUFFICES /\ \A b \in Fixed \ {a} : /\ \A n \in Network : nets'[n][b] = InstalledIp[n][b]
                                         /\ \E y \in Xname \ {x} : nets'["HMN"][y] = InstalledBmcIp[b]
               /\ a \in Fixed => bmc_ip' = InstalledBmcIp[a] /\ \A n \in Network : ncn_ips'[n] = InstalledIp[n][a]
               /\ a \notin Fixed => /\ bmc_ip' \notin FixedIps("HMN")
                                    /\ \A k \in Key : ncn_ips'[k] \notin FixedIps(NetworkOf(k))
  BY <1>2 DEF PlanKeepsFixed, FixedIps
<1>5. CASE retrieve_existing_ncn_ips(a)
  <2>1. PICK nmn \in RecordIps(hostRecords, a, "NMN"), hmn \in RecordIps(hostRecords, a, "HMN"),
             bmc \in RecordIps(hostRecords, a, "mgmt") :
          /\ ncn_ips' = [NoIps EXCEPT !["NMN"] = nmn, !["HMN"] = hmn]
          /\ bmc_ip' = bmc
          /\ nets' = [n \in Network |->
                          Freed(reservations[n], IF n = "NMN" THEN {nmn} ELSE {hmn, bmc})]
    BY <1>5 DEF retrieve_existing_ncn_ips
  <2>2. \A k \in Key : ncn_ips'[k] = IF k = "NMN" THEN nmn ELSE IF k = "HMN" THEN hmn ELSE Unset
    BY <2>1, Zenon DEF NoIps, Key
  <2>3. /\ a \in Fixed => nmn = InstalledIp["NMN"][a] /\ hmn = InstalledIp["HMN"][a] /\ bmc = InstalledBmcIp[a]
        /\ a \notin Fixed => /\ nmn \notin FixedIps("NMN")
                             /\ hmn \notin FixedIps("HMN") /\ bmc \notin FixedIps("HMN")
    BY <1>1, <1>3, <2>1, RecordIpsOfFixed
  <2>4. \A m \in Name : /\ nets'["NMN"][m] = IF reservations["NMN"][m] = nmn THEN Unset ELSE reservations["NMN"][m]
                        /\ nets'["HMN"][m] = IF reservations["HMN"][m] \in {hmn, bmc} THEN Unset
                                             ELSE reservations["HMN"][m]
    BY <1>1, <2>1 DEF Freed
  <2>5. ASSUME NEW b \in Fixed \ {a}
        PROVE  /\ InstalledIp["NMN"][b] # nmn /\ InstalledIp["HMN"][b] \notin {hmn, bmc}
               /\ InstalledBmcIp[b] \notin {hmn, bmc}
    <3>1. CASE a \in Fixed
      BY <1>1, <2>3, <3>1, InstalledFacts
    <3>2. CASE a \notin Fixed
      BY <1>1, <2>3, <3>2, InstalledFacts
    <3>. QED BY <3>1, <3>2
  <2>6. ASSUME NEW b \in Fixed \ {a}
        PROVE  /\ \A n \in Network : nets'[n][b] = InstalledIp[n][b]
               /\ \E y \in Xname \ {x} : nets'["HMN"][y] = InstalledBmcIp[b]
    <3>1. PICK y \in Xname : reservations["HMN"][y] = InstalledBmcIp[b]
      BY <1>3
    <3>2. reservations["HMN"][x] # InstalledBmcIp[b]
      <4>1. reservations["HMN"][x] \in {Unset} \cup RecordIps(hostRecords, a, "mgmt")
        BY <1>2 DEF NotPromised
      <4>2. InstalledBmcIp[b] # Unset /\ InstalledBmcIp[b] \in FixedIps("HMN")
        BY <1>1, InstalledFacts
      <4>3. InstalledBmcIp[b] \notin RecordIps(hostRecords, a, "mgmt")
        BY <1>3, <4>2, RecordIpsOfFixed, InstalledFacts
      <4>. QED BY <4>1, <4>2, <4>3
    <3>3. nets'["HMN"][y] = InstalledBmcIp[b]
      BY <1>1, <2>4, <2>5, <3>1
    <3>4. nets'["NMN"][b] = InstalledIp["NMN"][b] /\ nets'["HMN"][b] = InstalledIp["HMN"][b]
      BY <1>1, <1>3, <2>4, <2>5
    <3>. QED BY <1>1, <3>1, <3>2, <3>3, <3>4
  <2>7. a \in Fixed => bmc_ip' = InstalledBmcIp[a] /\ \A n \in Network : ncn_ips'[n] = InstalledIp[n][a]
    BY <1>1, <2>1, <2>2, <2>3, Sorts
  <2>8. ASSUME a \notin Fixed, NEW k \in Key  PROVE ncn_ips'[k] \notin FixedIps(NetworkOf(k))
    <3>1. Unset \notin FixedIps(NetworkOf(k))
      BY <1>1, InstalledFacts
    <3>2. NetworkOf("NMN") = "NMN" /\ NetworkOf("HMN") = "HMN"
      BY DEF NetworkOf
    <3>. QED BY <2>2, <2>3, <2>8, <3>1, <3>2
  <2>. QED BY <2>1, <2>3, <2>6, <2>7, <2>8
<1>6. CASE a \notin Fixed /\ allocate_ncn_ips(a, x)
  <2>1. nets' = reservations /\ reservations["HMN"][x] = Unset
    BY <1>1, <1>6 DEF allocate_ncn_ips
  <2>2. ASSUME NEW n \in Network, NEW i \in FixedIps(n)  PROVE i # Unset /\ \E m \in Name : nets'[n][m] = i
    BY <1>1, <1>3, <2>1, <2>2, InstalledFacts DEF FixedIps
  <2>3. \A n \in Network, m \in Name :
           /\ nets'[n][m] # ncn_ips'[n]
           /\ nets'[n][m] # ncn_ips'[VipKey(n)] \/ ncn_ips'[VipKey(n)] = Unset
           /\ nets'["HMN"][m] # bmc_ip'
    BY <1>1, <1>6, AllocatedFits
  <2>4. bmc_ip' \notin FixedIps("HMN") /\ \A k \in Key : ncn_ips'[k] \notin FixedIps(NetworkOf(k))
    BY <1>1, <2>2, <2>3
  <2>5. ASSUME NEW b \in Fixed \ {a}  PROVE \E y \in Xname \ {x} : nets'["HMN"][y] = InstalledBmcIp[b]
    <3>1. InstalledBmcIp[b] # Unset
      BY <1>1, InstalledFacts
    <3>. QED BY <1>3, <2>1, <3>1
  <2>. QED BY <1>3, <1>6, <2>1, <2>4, <2>5
<1>. QED BY <1>5, <1>6 DEF AllocateIps, NcnData

LEMMA PlanKeepsFixedStep ==
    ASSUME Types, SlotsFollowScript, IpsDistinct, FixedInv, [Next]_vars
    PROVE  PlanKeepsFixed'
<1>. DEFINE Chosen == Adding \/ pc = "alloc_global"
<1>1. ASSUME UNCHANGED <<nets, ncn_ips, bmc_ip, alias, xname>>, Adding' => Adding, Chosen' => Chosen
      PROVE  PlanKeepsFixed'
  BY <1>1 DEF FixedInv, PlanKeepsFixed, FixedIps
<1>2. ASSUME ~Adding', pc' # "alloc_global"  PROVE PlanKeepsFixed'
  BY <1>2 DEF PlanKeepsFixed
<1>3. CASE PutNetwork
  <2>. USE <1>3, PutsReservations
  <2>1. Adding /\ (Chosen' => Chosen) /\ UNCHANGED <<ncn_ips, bmc_ip, alias, xname>>
    BY DEF Adding, argVars
  <2>2. CASE ncn_ips[PutKey] = Unset
    BY <1>1, <2>1, <2>2
  <2>3. CASE ncn_ips[PutKey] # Unset
    BY <2>1, <2>3, FixedPut DEF FixedInv, PlanKeepsFixed, FixedIps
  <2>. QED BY <2>2, <2>3
<1>4. CASE AllocateValidated \/ NcnDataValidated \/ CreateNode \/ CreateComponent \/ Adds \/ Waits
  BY <1>1, <1>4 DEF AllocateValidated, NcnDataValidated, CreateNode, CreateComponent, Adds, Waits,
       Goto, argVars, planVars, Adding
<1>5. CASE RemoveHostRecords \/ RemoveBootparameters \/ RemoveComponent \/ RemoveNode
            \/ RemoveReservations \/ Removes
  BY <1>2, <1>5 DEF RemoveHostRecords, RemoveBootparameters, RemoveComponent, RemoveNode,
       RemoveReservations, Removes, Goto, Adding
<1>6. CASE \E x \in SiteXname : Discover(x)
  BY <1>1, <1>6 DEF Discover, argVars, planVars, Adding
<1>7. CASE \E x \in SiteXname : RemoveNcn(x)
  BY <1>2, <1>7 DEF RemoveNcn, Start, Adding
<1>8. CASE Ends \/ UpdateGlobal \/ PutBootparameters
  BY <1>2, <1>8 DEF Ends, UpdateGlobal, PutBootparameters, Exit, Adding
<1>9. CASE \E a \in SiteAlias, x \in SiteXname : AllocateIpsRaises(a, x)
  BY <1>2, <1>9 DEF AllocateIpsRaises, Start, Adding
<1>10. CASE \E a \in SiteAlias, x \in SiteXname : AllocateIps(a, x) \/ NcnData(a, x)
  BY <1>10, PlanKeepsFixedStarts
<1>. QED BY <1>3, <1>4, <1>5, <1>6, <1>7, <1>8, <1>9, <1>10, Steps

-----------------------------------------------------------------------------
(* Without failing requests, the services agree: removals.                 *)

\* What the steps below start from.
LEMMA Agreed ==
    ASSUME IInv, ~Fails
    PROVE  /\ Types /\ SlotsFollowScript /\ CopiesAreCurrent /\ IpsDistinct /\ NidsUnique /\ NidIsNew /\ FixedInv
           /\ HostRecordsAreReserved /\ BootsWithReservedIps
           /\ RecordsAreSound /\ SlotsOwnIps /\ BootsAreInSls
           /\ PlanKeepsRecords /\ PlanIsNew /\ Written /\ RemovedSoFar
           /\ SlsTypes /\ BssTypes /\ HsmTypes /\ ArgTypes /\ PlanTypes
           /\ SiteAlias \subseteq Alias /\ SiteXname \subseteq Xname
           /\ Network = {"NMN", "HMN"} /\ "mgmt" \notin Network /\ "HMN" \in Network
           /\ \A n \in Network : Distinct(reservations[n])
BY Typed DEF IInv, ServicesAgree, Network, IpsDistinct

LEMMA RemovedSoFarStep ==
    ASSUME IInv, ~Fails, [Next]_vars
    PROVE  RemovedSoFar'
<1>. USE Agreed
<1>1. ASSUME RmRank' \in {0, 1}  PROVE RemovedSoFar'
  BY <1>1 DEF RemovedSoFar
<1>2. ASSUME ~Removing'  PROVE RemovedSoFar'
  BY <1>1, <1>2 DEF Removing, RmRank
<1>3. \A x \in SiteXname : RemoveNcn(x) => RemovedSoFar'
  BY <1>1 DEF RemoveNcn, Start, RmRank
<1>4. /\ Removing => alias \in Alias /\ xname \in Xname
      /\ HasNode => slsNode[xname] = alias
      /\ \A x, y \in Xname : x # y /\ slsNode[x] # None => slsNode[x] # slsNode[y]
  BY DEF ArgTypes, Removing, SlotsFollowScript
<1>5. CASE RemoveHostRecords
  <2>1. /\ RmRank = 1 /\ RmRank' = 2 /\ UNCHANGED alias
        /\ hostRecords' = IF alias \in Fixed THEN hostRecords ELSE {r \in hostRecords : r.who # alias}
    BY <1>5 DEF RemoveHostRecords, CopiesAreCurrent, Goto, argVars, RmRank
  <2>. QED BY <2>1 DEF RemovedSoFar
<1>6. CASE RemoveBootparameters
  <2>1. /\ RmRank = 2 /\ RmRank' = 3 /\ UNCHANGED <<alias, xname, hostRecords>> /\ HasNode /\ Removing
        /\ bootparams' = [bootparams EXCEPT ![xname] = NoBootParams]
    BY <1>6 DEF RemoveBootparameters, Goto, argVars, RmRank, HasNode, Removing
  <2>2. ASSUME NEW x \in Xname, CanBoot(x)'  PROVE x # xname /\ bootparams'[x].alias # alias
    <3>1. x # xname
      BY <1>4, <2>1, <2>2 DEF CanBoot, NoBootParams, BssTypes
    <3>2. bootparams'[x] = bootparams[x] /\ CanBoot(x)
      BY <2>1, <2>2, <3>1 DEF CanBoot, BssTypes
    <3>3. slsNode[x] = bootparams[x].alias /\ slsNode[x] # None
      BY <3>2 DEF BootsAreInSls, CanBoot
    <3>. QED BY <1>4, <2>1, <3>1, <3>2, <3>3
  <2>. QED BY <2>1, <2>2 DEF RemovedSoFar
<1>7. CASE Removes
  <2>1. UNCHANGED <<slsNode, reservations, hostRecords, bootparams, hsmNid, alias, xname>> /\ xname \in Xname
    BY <1>4, <1>7 DEF Removes, bssVars, argVars, Removing
  <2>2. CASE RemoveEthernetInterfaces
    <3>1. RmRank = 3 /\ RmRank' = 4 /\ nodeEi'[xname] = {} /\ bmcEi'[xname] = {}
      BY <2>1, <2>2 DEF RemoveEthernetInterfaces, Goto, RmRank, HsmTypes
    <3>. QED BY <2>1, <3>1 DEF RemovedSoFar, CanBoot
  <2>3. CASE RemoveRedfishEndpoint
    <3>1. RmRank = 4 /\ RmRank' = 5 /\ xname \notin redfish' /\ UNCHANGED <<nodeEi, bmcEi>>
      BY <2>1, <2>3 DEF RemoveRedfishEndpoint, Goto, RmRank
    <3>. QED BY <2>1, <3>1 DEF RemovedSoFar, CanBoot
  <2>4. CASE RemoveBmcComponent
    <3>1. RmRank = 6 /\ RmRank' = 7 /\ xname \notin bmcComp' /\ UNCHANGED <<nodeEi, bmcEi, redfish>>
      BY <2>1, <2>4 DEF RemoveBmcComponent, Goto, RmRank
    <3>. QED BY <2>1, <3>1 DEF RemovedSoFar, CanBoot
  <2>5. CASE RemoveConnector
    <3>1. RmRank = 7 /\ RmRank' = 8 /\ xname \notin connector' /\ UNCHANGED <<nodeEi, bmcEi, redfish, bmcComp>>
      BY <2>1, <2>5 DEF RemoveConnector, Goto, RmRank, hsmVars
    <3>. QED BY <2>1, <3>1 DEF RemovedSoFar, CanBoot
  <2>. QED BY <1>7, <2>2, <2>3, <2>4, <2>5 DEF Removes
<1>8. CASE RemoveComponent
  <2>1. xname \in Xname
    BY <1>4, <1>8 DEF RemoveComponent, Removing
  <2>2. /\ RmRank = 5 /\ RmRank' = 6 /\ hsmNid'[xname] = Unset
        /\ UNCHANGED <<slsNode, reservations, hostRecords, bootparams, nodeEi, bmcEi, redfish, alias, xname>>
    BY <1>8, <2>1 DEF RemoveComponent, Goto, RmRank, HsmTypes, slsVars, bssVars, argVars
  <2>. QED BY <2>2 DEF RemovedSoFar, CanBoot
<1>9. CASE RemoveNode
  <2>1. xname \in Xname
    BY <1>4, <1>9 DEF RemoveNode, Removing
  <2>2. /\ RmRank = 8 /\ RmRank' = 9 /\ slsNode'[xname] = None /\ put' = 1
        /\ UNCHANGED <<connector, reservations, hostRecords, bootparams, nodeEi, bmcEi, redfish,
                       bmcComp, hsmNid, alias, xname>>
    BY <1>9, <2>1 DEF RemoveNode, Goto, RmRank, SlsTypes, ArgTypes, bssVars, hsmVars, argVars
  <2>. QED BY <2>2 DEF RemovedSoFar, CanBoot
<1>10. CASE RemoveReservations
  <2>. DEFINE n == <<"NMN", "HMN">>[put]
  <2>1. /\ RmRank = 9 /\ put \in 1..2 /\ Removing /\ n \in Network
        /\ IF put = 1 THEN put' = 2 /\ RmRank' = 9 ELSE RmRank' = 10
        /\ reservations' = [reservations EXCEPT ![n] = nets[n]]
        /\ UNCHANGED <<slsNode, connector, hostRecords, bootparams, nodeEi, bmcEi, redfish,
                       bmcComp, hsmNid, alias, xname>>
    BY <1>10 DEF RemoveReservations, RmRank, ArgTypes, Removing, bssVars, hsmVars, argVars
  <2>2. ASSUME alias \notin Fixed
        PROVE  /\ reservations'[n][alias] = Unset /\ reservations'[n][xname] = Unset
               /\ \A m \in Network : m # n => reservations'[m] = reservations[m]
    <3>1. alias \in Name /\ xname \in Name
      BY <1>4, <2>1, Sorts
    <3>. QED BY <2>1, <2>2, <3>1 DEF CopiesAreCurrent, SlsTypes
  <2>3. ASSUME alias \notin Fixed, NEW m \in Network, RmRank' = 10 \/ (RmRank' = 9 /\ m = "NMN" /\ put' = 2)
        PROVE  reservations'[m][alias] = Unset /\ reservations'[m][xname] = Unset
    <3>1. CASE put = 1
      <4>1. m = n
        BY <2>1, <2>3, <3>1
      <4>. QED BY <2>2, <2>3, <4>1
    <3>2. CASE put = 2
      <4>1. m = n \/ m = "NMN"
        BY <2>3, <3>2
      <4>2. reservations["NMN"][alias] = Unset /\ reservations["NMN"][xname] = Unset
        BY <2>1, <2>3, <3>2 DEF RemovedSoFar
      <4>. QED BY <2>2, <2>3, <4>1, <4>2
    <3>. QED BY <2>1, <3>1, <3>2
  <2>4. RmRank' \in {9, 10}
    BY <2>1
  <2>. QED BY <2>1, <2>3, <2>4 DEF RemovedSoFar, CanBoot
<1>11. CASE Waits
  BY <1>11 DEF Waits, slsVars, bssVars, argVars, RemovedSoFar, CanBoot, RmRank
<1>12. CASE \E x \in SiteXname : Discover(x)
  BY <1>2, <1>12 DEF Discover, Removing
<1>13. CASE Ends \/ UpdateGlobal \/ PutBootparameters
  BY <1>2, <1>13 DEF Ends, UpdateGlobal, PutBootparameters, Exit, Removing
<1>14. CASE AllocateValidated \/ NcnDataValidated \/ PutNetwork \/ CreateNode \/ CreateComponent \/ Adds
  BY <1>2, <1>14, PutsReservations
     DEF AllocateValidated, NcnDataValidated, CreateNode, CreateComponent, Adds, Goto, Removing
<1>15. CASE \E a \in SiteAlias, x \in SiteXname :
                AllocateIps(a, x) \/ AllocateIpsRaises(a, x) \/ NcnData(a, x)
  BY <1>2, <1>15 DEF AllocateIps, AllocateIpsRaises, NcnData, Start, Removing
<1>. QED BY <1>3, <1>5, <1>6, <1>7, <1>8, <1>9, <1>10, <1>11, <1>12, <1>13, <1>14, <1>15, Steps

-----------------------------------------------------------------------------
(* Without failing requests, the services agree: additions.                *)

\* The records of an NCN are found, and their IPs are reserved for it.
LEMMA RetrievedAgreed ==
    ASSUME IInv, ~Fails, NEW a \in Alias, retrieve_existing_ncn_ips(a)
    PROVE  /\ [who |-> a, for |-> "mgmt", ip |-> bmc_ip'] \in hostRecords
           /\ \A n \in Network : /\ [who |-> a, for |-> n, ip |-> ncn_ips'[n]] \in hostRecords
                                 /\ ncn_ips'[n] # Unset /\ reservations[n][a] = ncn_ips'[n]
           /\ \A n \in Network, m \in Name :
                 \/ nets'[n][m] = reservations[n][m]
                 \/ reservations[n][m] = ncn_ips'[n] \/ (n = "HMN" /\ reservations[n][m] = bmc_ip')
<1>. USE Agreed
<1>1. PICK nmn \in RecordIps(hostRecords, a, "NMN"), hmn \in RecordIps(hostRecords, a, "HMN"),
           bmc \in RecordIps(hostRecords, a, "mgmt") :
        /\ nmn \in Reserved("NMN", reservations) \cup {Unset}
        /\ hmn \in Reserved("HMN", reservations) \cup {Unset}
        /\ bmc \in Reserved("HMN", reservations) \ {hmn}
        /\ ncn_ips' = [NoIps EXCEPT !["NMN"] = nmn, !["HMN"] = hmn]
        /\ bmc_ip' = bmc
        /\ nets' = [n \in Network |->
                        Freed(reservations[n], IF n = "NMN" THEN {nmn} ELSE {hmn, bmc})]
  BY DEF retrieve_existing_ncn_ips
<1>2. ncn_ips'["NMN"] = nmn /\ ncn_ips'["HMN"] = hmn
  BY <1>1, Zenon DEF NoIps, Key
<1>3. ASSUME NEW f, NEW i \in RecordIps(hostRecords, a, f), i # Unset
      PROVE  [who |-> a, for |-> f, ip |-> i] \in hostRecords
  <2>1. PICK r \in hostRecords : r.who = a /\ r.for = f /\ r.ip = i
    BY <1>3 DEF RecordIps
  <2>2. r \in HostRecord
    BY <2>1 DEF BssTypes
  <2>3. r = [who |-> a, for |-> f, ip |-> i]
    BY <2>1, <2>2 DEF HostRecord
  <2>. QED BY <2>1, <2>3
<1>4. [who |-> a, for |-> "mgmt", ip |-> bmc] \in hostRecords
  <2>1. bmc # Unset
    BY <1>1 DEF Reserved
  <2>. QED BY <1>1, <1>3, <2>1
<1>5. ASSUME NEW n \in Network, NEW i \in RecordIps(hostRecords, a, n)
      PROVE  i # Unset /\ [who |-> a, for |-> n, ip |-> i] \in hostRecords /\ reservations[n][a] = i
  <2>1. PICK q \in hostRecords : q.who = a /\ q.for = n
    BY <1>4 DEF RecordsAreSound
  <2>2. PICK r \in hostRecords : r.who = a /\ r.for = n /\ r.ip = i
    BY <1>5, <2>1 DEF RecordIps
  <2>3. i # Unset
    BY <2>2 DEF RecordsAreSound
  <2>4. n # "mgmt" /\ NamesOf(r) = {a} /\ RecordNetwork(r) = n
    BY <2>2 DEF NamesOf, RecordNetwork
  <2>5. reservations[n][a] = i
    BY <2>2, <2>4 DEF HostRecordsAreReserved
  <2>. QED BY <1>3, <1>5, <2>3, <2>5
<1>6. ASSUME NEW n \in Network
      PROVE  /\ [who |-> a, for |-> n, ip |-> ncn_ips'[n]] \in hostRecords
             /\ ncn_ips'[n] # Unset /\ reservations[n][a] = ncn_ips'[n]
  BY <1>1, <1>2, <1>5
<1>7. ASSUME NEW n \in Network, NEW m \in Name
      PROVE  \/ nets'[n][m] = reservations[n][m]
             \/ reservations[n][m] = ncn_ips'[n] \/ (n = "HMN" /\ reservations[n][m] = bmc_ip')
  BY <1>1, <1>2 DEF Freed
<1>. QED BY <1>1, <1>4, <1>6, <1>7

\* An addition that begins leaves what BSS has given out where it is.
LEMMA PlanStarts ==
    ASSUME IInv, ~Fails, NEW a \in SiteAlias, NEW x \in SiteXname, AllocateIps(a, x) \/ NcnData(a, x)
    PROVE  PlanKeepsRecords' /\ PlanIsNew'
<1>. USE Agreed
<1>1. /\ alias' = a /\ xname' = x /\ UNCHANGED <<reservations, hostRecords, bootparams>>
      /\ NotPromised(a, x) /\ \A y \in Xname : slsNode[y] # a
      /\ a \in Alias /\ x \in Xname /\ a # None /\ a # Vip
      /\ Xname \subseteq Name /\ Alias \subseteq Name /\ Vip \in Name
      /\ pc' \in {"alloc_validate", "data_validate"}
  BY Sorts DEF AllocateIps, NcnData, NotInSls, Start, slsVars, bssVars
<1>2. ASSUME NEW r \in hostRecords
      PROVE  /\ r.ip # Unset
             /\ r.for = "mgmt" => /\ RecordNetwork(r) = "HMN"
                                  /\ \E m \in Xname : reservations["HMN"][m] = r.ip
             /\ r.for # "mgmt" => /\ RecordNetwork(r) = r.for /\ r.for \in Network
                                  /\ r.who \in Alias \cup {Vip}
                                  /\ reservations[r.for][r.who] = r.ip
  <2>1. r \in HostRecord
    BY DEF BssTypes
  <2>. QED BY <2>1 DEF HostRecord, RecordsAreSound, HostRecordsAreReserved, NamesOf, RecordNetwork
<1>3. ASSUME NEW y \in Xname, CanBoot(y)
      PROVE  /\ bootparams[y].alias \in Alias \ {a}
             /\ \A n \in Network : /\ reservations[n][bootparams[y].alias] = bootparams[y].ips[n]
                                   /\ bootparams[y].ips[n] # Unset
  <2>1. bootparams[y].alias = slsNode[y] /\ slsNode[y] # None
    BY <1>3 DEF BootsAreInSls, CanBoot
  <2>. QED BY <1>1, <1>3, <2>1 DEF BootsAreInSls, BootsWithReservedIps, SlsTypes
<1>4. CanBoot(x)' = CanBoot(x) /\ \A y : CanBoot(y)' = CanBoot(y)
  BY <1>1 DEF CanBoot
<1>5. CASE retrieve_existing_ncn_ips(a) /\ reuse'
  <2>1. /\ [who |-> a, for |-> "mgmt", ip |-> bmc_ip'] \in hostRecords
        /\ \A n \in Network : /\ [who |-> a, for |-> n, ip |-> ncn_ips'[n]] \in hostRecords
                              /\ ncn_ips'[n] # Unset /\ reservations[n][a] = ncn_ips'[n]
        /\ \A n \in Network, m \in Name :
              \/ nets'[n][m] = reservations[n][m]
              \/ reservations[n][m] = ncn_ips'[n] \/ (n = "HMN" /\ reservations[n][m] = bmc_ip')
    BY <1>1, <1>5, RetrievedAgreed
  <2>2. PlanIsNew'
    BY <1>1, <1>5, <2>1 DEF PlanIsNew
  \* a record of another host, or of another kind, has another IP
  <2>3. ASSUME NEW r \in hostRecords
        PROVE  /\ ~(r.who = a /\ r.for = "mgmt") /\ RecordNetwork(r) = "HMN" => r.ip # bmc_ip'
               /\ \A n \in Network : ~(r.who = a /\ r.for = n) /\ RecordNetwork(r) = n => r.ip # ncn_ips'[n]
               /\ r.who = a /\ r.for = "mgmt" => r.ip = bmc_ip'
               /\ \A n \in Network : r.who = a /\ r.for = n => r.ip = ncn_ips'[n]
    <3>1. RecordNetwork([who |-> a, for |-> "mgmt", ip |-> bmc_ip']) = "HMN"
      BY DEF RecordNetwork
    <3>2. \A n \in Network : RecordNetwork([who |-> a, for |-> n, ip |-> ncn_ips'[n]]) = n
      BY DEF RecordNetwork
    <3>3. r.ip = bmc_ip' /\ RecordNetwork(r) = "HMN" => r = [who |-> a, for |-> "mgmt", ip |-> bmc_ip']
      BY <2>1, <3>1 DEF RecordsAreSound, HostRecordIpsUnique
    <3>4. r.who = a /\ r.for = "mgmt" => r = [who |-> a, for |-> "mgmt", ip |-> bmc_ip']
      BY <2>1 DEF RecordsAreSound
    <3>5. ASSUME NEW n \in Network
          PROVE  /\ r.ip = ncn_ips'[n] /\ RecordNetwork(r) = n => r = [who |-> a, for |-> n, ip |-> ncn_ips'[n]]
                 /\ r.who = a /\ r.for = n => r = [who |-> a, for |-> n, ip |-> ncn_ips'[n]]
      <4>. DEFINE q == [who |-> a, for |-> n, ip |-> ncn_ips'[n]]
      <4>1. q \in hostRecords /\ q.who = a /\ q.for = n /\ q.ip = ncn_ips'[n] /\ RecordNetwork(q) = n
        BY <2>1, <3>2
      <4>. HIDE DEF q
      <4>2. r.ip = q.ip /\ RecordNetwork(r) = RecordNetwork(q) => r = q
        BY <4>1 DEF RecordsAreSound, HostRecordIpsUnique
      <4>3. r.who = q.who /\ r.for = q.for => r = q
        BY <4>1 DEF RecordsAreSound
      <4>. QED BY <4>1, <4>2, <4>3 DEF q
    <3>. QED BY <3>3, <3>4, <3>5
  <2>4. ASSUME NEW r \in hostRecords, r.for = "mgmt", bmc_ip' # r.ip
        PROVE  \E y \in Xname \ {x} : nets'["HMN"][y] = r.ip
    <3>1. PICK m \in Xname : reservations["HMN"][m] = r.ip
      BY <1>2, <2>4
    <3>2. r.ip \notin {ncn_ips'["HMN"], bmc_ip'} /\ ~(r.who = a)
      BY <1>2, <2>3, <2>4
    <3>3. r.ip \notin RecordIps(hostRecords, a, "mgmt")
      <4>. SUFFICES ASSUME r.ip \in RecordIps(hostRecords, a, "mgmt")  PROVE FALSE
        OBVIOUS
      <4>1. PICK q \in hostRecords : q.who = a /\ q.for = "mgmt" /\ q.ip = r.ip
        BY <1>2 DEF RecordIps
      <4>. QED BY <2>3, <2>4, <4>1
    <3>4. m # x
      BY <1>1, <1>2, <3>1, <3>3 DEF NotPromised
    <3>. QED BY <1>1, <2>1, <3>1, <3>2, <3>4
  <2>5. ASSUME NEW r \in hostRecords, r.for # "mgmt", r.who # a  PROVE nets'[r.for][r.who] = r.ip
    <3>1. r.ip # ncn_ips'[r.for] /\ (r.for = "HMN" => r.ip # bmc_ip')
      BY <1>2, <2>3, <2>5
    <3>. QED BY <1>1, <1>2, <2>1, <2>5, <3>1
  <2>6. ASSUME NEW y \in Xname, CanBoot(y), NEW n \in Network
        PROVE  bootparams[y].alias # a /\ nets'[n][bootparams[y].alias] = bootparams[y].ips[n]
    <3>1. reservations[n][bootparams[y].alias] # ncn_ips'[n]
      <4>1. Distinct(reservations[n]) /\ reservations[n][a] = ncn_ips'[n] /\ ncn_ips'[n] # Unset
        BY <2>1
      <4>2. bootparams[y].alias # a /\ a \in Name /\ bootparams[y].alias \in Name
        BY <1>1, <1>3, <2>6
      <4>. QED BY <4>1, <4>2 DEF Distinct
    <3>2. n = "HMN" => reservations[n][bootparams[y].alias] # bmc_ip'
      <4>1. PICK m \in Xname : reservations["HMN"][m] = bmc_ip'
        BY <1>2, <2>1
      <4>2. m # bootparams[y].alias /\ m \in Name /\ bootparams[y].alias \in Name
        BY <1>1, <1>3, <2>6, Sorts
      <4>. QED BY <1>3, <2>6, <4>1, <4>2 DEF Distinct
    <3>. QED BY <1>1, <1>3, <2>1, <2>6, <3>1, <3>2
  <2>7. PlanKeepsRecords'
    <3>1. ASSUME NEW r \in hostRecords
          PROVE  CASE r.for = "mgmt" -> \/ reuse' /\ bmc_ip' = r.ip
                                        \/ \E y \in Xname \ {x} : nets'["HMN"][y] = r.ip
                   [] r.for # "mgmt" /\ r.who = a -> ncn_ips'[r.for] = r.ip
                   [] OTHER -> nets'[r.for][r.who] = r.ip
      BY <1>2, <1>5, <2>3, <2>4, <2>5
    <3>2. ASSUME NEW y \in Xname, CanBoot(y), NEW n \in Network
          PROVE  IF bootparams[y].alias = a THEN ncn_ips'[n] = bootparams[y].ips[n]
                 ELSE nets'[n][bootparams[y].alias] = bootparams[y].ips[n]
      BY <2>6, <3>2
    <3>. QED BY <1>1, <1>4, <3>1, <3>2 DEF PlanKeepsRecords
  <2>. QED BY <2>2, <2>7
<1>6. CASE allocate_ncn_ips(a, x) /\ ~reuse'
  <2>1. /\ nets' = reservations /\ ncn_ips' = NewIps(a)
        /\ \A n \in Network : reservations[n][a] = Unset /\ reservations[n][x] = Unset
    BY <1>6 DEF allocate_ncn_ips
  <2>2. \A n \in Network, m \in Name : /\ reservations[n][m] # ncn_ips'[n]
                                       /\ reservations[n][m] # ncn_ips'[VipKey(n)] \/ ncn_ips'[VipKey(n)] = Unset
                                       /\ reservations["HMN"][m] # bmc_ip'
    BY <1>6, <2>1, AllocatedFits
  <2>3. \A r \in hostRecords : r.for # "mgmt" => r.who # a
    BY <1>2, <2>1
  <2>4. \A r \in hostRecords : r.who # a
    BY <2>3 DEF RecordsAreSound
  <2>5. ASSUME NEW r \in hostRecords  PROVE \E m \in Name : reservations[RecordNetwork(r)][m] = r.ip
    BY <1>1, <1>2
  <2>6. PlanIsNew'
    <3>1. ASSUME NEW r \in hostRecords, RecordNetwork(r) = "HMN"  PROVE r.ip # bmc_ip'
      BY <2>2, <2>5, <3>1
    <3>2. ASSUME NEW r \in hostRecords, NEW k \in Key, RecordNetwork(r) = NetworkOf(k), ncn_ips'[k] # Unset
          PROVE  r.ip # ncn_ips'[k]
      <4>1. NetworkOf(k) \in Network /\ (k = NetworkOf(k) \/ k = VipKey(NetworkOf(k)))
        BY Sorts
      <4>. QED BY <2>2, <2>5, <3>2, <4>1
    <3>3. ASSUME NEW r \in hostRecords, r.who = Vip  PROVE ncn_ips'[VipKey(r.for)] = Unset
      <4>1. r.for # "mgmt"
        BY <3>3 DEF RecordsAreSound
      <4>2. r.for \in Network /\ reservations[r.for][Vip] # Unset
        BY <1>2, <3>3, <4>1
      <4>. QED BY <2>1, <4>2, NewIpsAreNew
    <3>. QED BY <1>1, <1>6, <2>4, <3>1, <3>2, <3>3 DEF PlanIsNew, RecordNetwork
  <2>7. PlanKeepsRecords'
    <3>1. ASSUME NEW r \in hostRecords, r.for = "mgmt"  PROVE \E y \in Xname \ {x} : nets'["HMN"][y] = r.ip
      BY <1>2, <2>1, <3>1
    <3>2. ASSUME NEW r \in hostRecords, r.for # "mgmt"  PROVE r.who # a /\ nets'[r.for][r.who] = r.ip
      BY <1>2, <2>1, <2>4, <3>2
    <3>3. ASSUME NEW y \in Xname, CanBoot(y), NEW n \in Network
          PROVE  bootparams[y].alias # a /\ nets'[n][bootparams[y].alias] = bootparams[y].ips[n]
      BY <1>3, <2>1, <3>3
    <3>. QED BY <1>1, <1>4, <3>1, <3>2, <3>3 DEF PlanKeepsRecords
  <2>. QED BY <2>6, <2>7
<1>. QED BY <1>5, <1>6 DEF AllocateIps, NcnData

\* A PUT of an addition moves no IP that BSS has given out, but for the IP of a
\* BMC that goes to the slot where the NCN is to be.
LEMMA PutLeaves ==
    ASSUME IInv, ~Fails, PutNetwork
    PROVE  /\ \A r \in hostRecords : r.for # "mgmt" =>
                 /\ reservations'[r.for][r.who] = r.ip
                 /\ IF r.who = alias THEN ncn_ips[r.for] = r.ip ELSE nets'[r.for][r.who] = r.ip
           /\ \A r \in hostRecords : r.for = "mgmt" =>
                 /\ \E y \in Xname : reservations'["HMN"][y] = r.ip
                 /\ (reuse /\ bmc_ip = r.ip) \/ \E y \in Xname \ {xname} : nets'["HMN"][y] = r.ip
           /\ \A y \in Xname, n \in Network : CanBoot(y) =>
                 /\ reservations'[n][bootparams[y].alias] = bootparams[y].ips[n]
                 /\ IF bootparams[y].alias = alias THEN ncn_ips[n] = bootparams[y].ips[n]
                    ELSE nets'[n][bootparams[y].alias] = bootparams[y].ips[n]
           /\ reuse => \A n \in Network : ncn_ips[n] # Unset /\ reservations'[n][alias] = ncn_ips[n]
<1>. USE Agreed, PutsReservations
<1>1. /\ Adding /\ Xname \subseteq Name /\ Alias \subseteq Name /\ Vip \in Name
      /\ \A a \in Alias : a # Vip /\ a # None /\ a \notin Xname
      /\ \A y \in Xname : y # Vip /\ y # alias
  BY Sorts DEF Adding
<1>2. ASSUME NEW i \in Network, NEW l \in Name,
             ncn_ips[PutKey] = Unset \/ i # PutNet \/ (l # PutName /\ l # xname)
      PROVE  /\ nets'[i][l] = nets[i][l]
             /\ reservations'[i][l] \in {reservations[i][l], nets[i][l]}
  BY <1>2
<1>3. PutName \in {alias, Vip} /\ (PutName = alias => PutKey = PutNet)
      /\ (PutName = Vip => PutKey = VipKey(PutNet))
  BY <1>1, Sorts DEF PutNet, PutName
<1>4. ASSUME reuse  PROVE ncn_ips[PutKey] = Unset \/ PutName = alias
  BY <1>1, <1>3, <1>4 DEF IpsDistinct, PlanFits
<1>5. ASSUME NEW n \in Network, reuse
      PROVE  ncn_ips[n] # Unset /\ reservations'[n][alias] = ncn_ips[n]
  <2>1. ncn_ips[n] # Unset /\ reservations[n][alias] = ncn_ips[n]
    BY <1>1, <1>5 DEF PlanIsNew
  <2>2. CASE ncn_ips[PutKey] = Unset \/ n # PutNet
    BY <1>1, <2>1, <2>2
  <2>3. CASE ncn_ips[PutKey] # Unset /\ n = PutNet
    BY <1>1, <1>3, <1>4, <1>5, <2>3
  <2>. QED BY <2>2, <2>3
<1>6. ASSUME NEW r \in hostRecords, r.for # "mgmt"
      PROVE  /\ reservations'[r.for][r.who] = r.ip
             /\ IF r.who = alias THEN ncn_ips[r.for] = r.ip ELSE nets'[r.for][r.who] = r.ip
  <2>1. r \in HostRecord /\ r.for \in Network /\ r.who \in Alias \cup {Vip} /\ r.ip # Unset
    BY <1>6 DEF BssTypes, HostRecord, RecordsAreSound
  <2>2. reservations[r.for][r.who] = r.ip
    BY <1>6 DEF HostRecordsAreReserved, NamesOf, RecordNetwork
  <2>3. CASE r.who = alias
    <3>1. reuse /\ ncn_ips[r.for] = r.ip
      BY <1>1, <1>6, <2>3 DEF PlanKeepsRecords, PlanIsNew
    <3>. QED BY <1>5, <2>1, <2>3, <3>1
  <2>4. CASE r.who # alias
    <3>1. nets[r.for][r.who] = r.ip
      BY <1>1, <1>6, <2>4 DEF PlanKeepsRecords
    <3>2. r.who = Vip /\ ~reuse => ncn_ips[VipKey(r.for)] = Unset
      BY <1>1, <1>6 DEF PlanIsNew
    <3>3. ncn_ips[PutKey] = Unset \/ r.for # PutNet \/ (r.who # PutName /\ r.who # xname)
      BY <1>1, <1>3, <1>4, <2>1, <2>4, <3>2
    <3>. QED BY <1>1, <1>2, <2>1, <2>2, <2>4, <3>1, <3>3
  <2>. QED BY <2>3, <2>4
<1>7. ASSUME NEW r \in hostRecords, r.for = "mgmt"
      PROVE  /\ \E y \in Xname : reservations'["HMN"][y] = r.ip
             /\ (reuse /\ bmc_ip = r.ip) \/ \E y \in Xname \ {xname} : nets'["HMN"][y] = r.ip
  <2>1. PICK z \in Xname : reservations["HMN"][z] = r.ip
    BY <1>7 DEF HostRecordsAreReserved, NamesOf, RecordNetwork
  <2>2. CASE reuse /\ bmc_ip = r.ip
    <3>1. CASE ncn_ips[PutKey] = Unset \/ PutNet # "HMN"
      BY <1>1, <2>1, <2>2, <3>1
    <3>2. CASE ncn_ips[PutKey] # Unset /\ PutNet = "HMN"
      BY <1>1, <2>2, <3>2
    <3>. QED BY <2>2, <3>1, <3>2
  <2>3. ASSUME NEW y \in Xname \ {xname}, nets["HMN"][y] = r.ip
        PROVE  nets'["HMN"][y] = r.ip /\ \E w \in Xname : reservations'["HMN"][w] = r.ip
    <3>1. y # PutName /\ y \in Name
      BY <1>1, <1>3, <2>3
    <3>2. nets'["HMN"][y] = r.ip
      BY <1>2, <2>3, <3>1
    <3>3. CASE ncn_ips[PutKey] = Unset \/ PutNet # "HMN"
      BY <1>1, <2>1, <3>2, <3>3
    <3>4. CASE ncn_ips[PutKey] # Unset /\ PutNet = "HMN"
      BY <1>1, <3>1, <3>2, <3>4
    <3>. QED BY <3>2, <3>3, <3>4
  <2>. QED BY <1>1, <1>7, <2>2, <2>3 DEF PlanKeepsRecords
<1>8. ASSUME NEW y \in Xname, NEW n \in Network, CanBoot(y)
      PROVE  /\ reservations'[n][bootparams[y].alias] = bootparams[y].ips[n]
             /\ IF bootparams[y].alias = alias THEN ncn_ips[n] = bootparams[y].ips[n]
                ELSE nets'[n][bootparams[y].alias] = bootparams[y].ips[n]
  <2>. DEFINE b == bootparams[y].alias
  <2>1. b = slsNode[y] /\ b \in Alias
    BY <1>8 DEF BootsAreInSls, CanBoot, SlsTypes
  <2>2. reservations[n][b] = bootparams[y].ips[n]
    BY <1>8 DEF BootsWithReservedIps
  <2>3. CASE b = alias
    <3>1. ncn_ips[n] = bootparams[y].ips[n]
      BY <1>1, <1>8, <2>3 DEF PlanKeepsRecords
    <3>2. reuse
      <4>1. pc = "data_put"
        BY <2>1, <2>3 DEF SlotsFollowScript, HasNoNode
      <4>. QED BY <4>1 DEF SlotsFollowScript, InData
    <3>. QED BY <1>5, <2>3, <3>1, <3>2
  <2>4. CASE b # alias
    <3>1. nets[n][b] = bootparams[y].ips[n]
      BY <1>1, <1>8, <2>4 DEF PlanKeepsRecords
    <3>2. b # PutName /\ b # xname /\ b \in Name
      BY <1>1, <1>3, <2>1, <2>4
    <3>. QED BY <1>2, <2>2, <2>4, <3>1, <3>2
  <2>. QED BY <2>3, <2>4
<1>. QED BY <1>5, <1>6, <1>7, <1>8

\* A PUT of a removal takes only the IPs of the NCN, which BSS has forgotten.
LEMMA RemovalLeaves ==
    ASSUME IInv, ~Fails, RemoveReservations
    PROVE  /\ \A r \in hostRecords : \E m \in NamesOf(r) : reservations'[RecordNetwork(r)][m] = r.ip
           /\ \A y \in Xname, n \in Network : CanBoot(y) =>
                 reservations'[n][bootparams[y].alias] = bootparams[y].ips[n]
           /\ \A n \in Network, m \in Name : reservations'[n][m] \in {reservations[n][m], Unset}
<1>. USE Agreed
<1>. DEFINE n0 == <<"NMN", "HMN">>[put]
<1>1. /\ Removing /\ RmRank = 9 /\ n0 \in Network /\ alias \in Alias /\ xname \in Xname
      /\ reservations' = [reservations EXCEPT ![n0] = nets[n0]]
      /\ Xname \subseteq Name /\ Alias \subseteq Name /\ Vip \in Name
      /\ \A a \in Alias : a # Vip /\ a # None /\ a \notin Xname
      /\ \A y \in Xname : y # Vip
  BY Sorts DEF RemoveReservations, ArgTypes, Removing, RmRank
<1>2. ASSUME NEW n \in Network, NEW m \in Name
      PROVE  \/ reservations'[n][m] = reservations[n][m]
             \/ alias \notin Fixed /\ m \in {alias, xname} /\ reservations'[n][m] = Unset
  <2>1. nets[n][m] = IF alias \notin Fixed /\ m \in {alias, xname} THEN Unset ELSE reservations[n][m]
    BY <1>1 DEF CopiesAreCurrent
  <2>2. reservations'[n] \in {reservations[n], nets[n]}
    BY <1>1 DEF SlsTypes
  <2>. QED BY <2>1, <2>2
<1>3. ASSUME NEW r \in hostRecords  PROVE \E m \in NamesOf(r) : reservations'[RecordNetwork(r)][m] = r.ip
  <2>1. r \in HostRecord /\ RecordNetwork(r) \in Network /\ r.who \in Alias \cup {Vip}
    BY DEF BssTypes, HostRecord, RecordNetwork
  <2>2. PICK m \in NamesOf(r) : reservations[RecordNetwork(r)][m] = r.ip
    BY DEF HostRecordsAreReserved
  <2>3. alias \notin Fixed => r.who # alias
    BY <1>1 DEF RemovedSoFar
  <2>4. m \in Name /\ (alias \notin Fixed => m # alias)
    BY <1>1, <2>1, <2>2, <2>3 DEF NamesOf
  <2>5. alias \notin Fixed => m # xname
    <3>1. (r.for = "mgmt" /\ m \in Xname /\ RecordNetwork(r) = "HMN") \/ m \notin Xname
      BY <1>1, <2>1, <2>2 DEF NamesOf, RecordNetwork
    <3>. QED BY <1>1, <2>2, <2>3, <3>1 DEF SlotsOwnIps
  <2>. QED BY <1>2, <2>1, <2>2, <2>4, <2>5
<1>4. ASSUME NEW y \in Xname, NEW n \in Network, CanBoot(y)
      PROVE  reservations'[n][bootparams[y].alias] = bootparams[y].ips[n]
  <2>1. bootparams[y].alias \in Alias /\ bootparams[y].alias # alias
    BY <1>1, <1>4 DEF BootsAreInSls, CanBoot, SlsTypes, RemovedSoFar
  <2>2. reservations[n][bootparams[y].alias] = bootparams[y].ips[n]
    BY <1>4 DEF BootsWithReservedIps
  <2>. QED BY <1>1, <1>2, <2>1, <2>2
<1>. QED BY <1>2, <1>3, <1>4

-----------------------------------------------------------------------------
(* Without failing requests, the services agree: every part is kept.       *)

LEMMA KeyFacts ==
    /\ \A k \in Key : \E i \in 1..Len(Keys) : Keys[i] = k
    /\ \A i \in 1..Len(Keys) : Keys[i] \in Key
    /\ \A i, j \in 1..Len(Keys) : Keys[i] = Keys[j] => i = j
    /\ Len(Keys) = 4
<1>1. Len(Keys) = 4 /\ Keys[1] = "NMN" /\ Keys[2] = "NMN-fmn-vip" /\ Keys[3] = "HMN" /\ Keys[4] = "HMN-fmn-vip"
  BY DEF Keys
<1>. QED BY <1>1 DEF Key

\* The records that allocate-ips appends: their IPs are reserved by then, and BSS
\* has none of them, nor a record of that kind.
LEMMA NewRecords ==
    ASSUME IInv, ~Fails, pc = "alloc_global", ~reuse
    PROVE  /\ \A r \in NewHostRecords :
                 /\ r.ip # Unset
                 /\ \/ /\ r.for = "mgmt" /\ r.who = alias /\ r.ip = bmc_ip /\ RecordNetwork(r) = "HMN"
                    \/ \E n \in Network : /\ r.for = n /\ RecordNetwork(r) = n
                                          /\ \/ r.who = alias /\ r.ip = ncn_ips[n]
                                             \/ r.who = Vip /\ r.ip = ncn_ips[VipKey(n)]
                 /\ \E m \in NamesOf(r) : reservations[RecordNetwork(r)][m] = r.ip
           /\ NewHostRecords \subseteq HostRecord
           /\ \A n \in Network : [who |-> alias, for |-> n, ip |-> ncn_ips[n]] \in NewHostRecords
           /\ reservations["HMN"][xname] = bmc_ip /\ bmc_ip # Unset
           /\ \A q \in NewHostRecords, r \in hostRecords :
                 /\ q.who # r.who \/ q.for # r.for
                 /\ RecordNetwork(q) # RecordNetwork(r) \/ q.ip # r.ip
           /\ \A q, r \in NewHostRecords :
                 /\ q.who = r.who /\ q.for = r.for => q = r
                 /\ RecordNetwork(q) = RecordNetwork(r) /\ q.ip = r.ip => q = r
<1>. USE Agreed
<1>1. /\ alias \in Alias /\ xname \in Xname /\ alias # Vip /\ Vip \notin Alias
      /\ \A n \in Network : VipKey(n) \in Key /\ VipKey(n) # n /\ NetworkOf(VipKey(n)) = n
      /\ \A n \in Network : n \in Key /\ NetworkOf(n) = n
      /\ \A k \in Key : NetworkOf(k) \in Network /\ (k = NetworkOf(k) \/ k = VipKey(NetworkOf(k)))
  BY Sorts DEF ArgTypes
<1>2. /\ \A n \in Network : ncn_ips[n] # Unset /\ ncn_ips[n] # ncn_ips[VipKey(n)]
      /\ bmc_ip \notin {Unset, ncn_ips["HMN"], ncn_ips["HMN-fmn-vip"]} /\ VipKey("HMN") = "HMN-fmn-vip"
      /\ \A k \in Key : ncn_ips[k] \in IP /\ bmc_ip \in IP
  BY DEF IpsDistinct, PlanFits, VipKey, PlanTypes
<1>3. ASSUME NEW k \in Key, ncn_ips[k] # Unset
      PROVE  /\ reservations[NetworkOf(k)][IF k = NetworkOf(k) THEN alias ELSE Vip] = ncn_ips[k]
             /\ NetworkOf(k) = "HMN" => reservations["HMN"][xname] = bmc_ip
  <2>1. PICK i \in 1..Len(Keys) : Keys[i] = k
    BY KeyFacts
  <2>. QED BY <1>3, <2>1 DEF Written
<1>4. reservations["HMN"][xname] = bmc_ip
  BY <1>1, <1>2, <1>3
<1>5. ASSUME NEW r \in NewHostRecords
      PROVE  \/ r = [who |-> alias, for |-> "mgmt", ip |-> bmc_ip]
             \/ \E n \in Network : r = [who |-> alias, for |-> n, ip |-> ncn_ips[n]]
             \/ \E n \in Network : /\ ncn_ips[VipKey(n)] # Unset
                                   /\ r = [who |-> Vip, for |-> n, ip |-> ncn_ips[VipKey(n)]]
  <2>1. CASE r = [who |-> alias, for |-> "mgmt", ip |-> bmc_ip]
    BY <2>1
  <2>2. CASE r # [who |-> alias, for |-> "mgmt", ip |-> bmc_ip]
    <3>1. PICK k \in {j \in Key : ncn_ips[j] # Unset} :
            r = [who |-> IF k = NetworkOf(k) THEN alias ELSE Vip, for |-> NetworkOf(k), ip |-> ncn_ips[k]]
      BY <2>2 DEF NewHostRecords
    <3>2. CASE k = NetworkOf(k)
      BY <1>1, <3>1, <3>2
    <3>3. CASE k # NetworkOf(k)
      <4>1. k = VipKey(NetworkOf(k)) /\ NetworkOf(k) \in Network
        BY <1>1, <3>3
      <4>. QED BY <3>1, <3>3, <4>1
    <3>. QED BY <3>2, <3>3
  <2>. QED BY <2>1, <2>2
<1>6. ASSUME NEW r \in NewHostRecords
      PROVE  /\ r \in HostRecord /\ r.ip # Unset
             /\ \/ /\ r.for = "mgmt" /\ r.who = alias /\ r.ip = bmc_ip /\ RecordNetwork(r) = "HMN"
                   /\ NamesOf(r) = Xname
                \/ \E n \in Network : /\ r.for = n /\ RecordNetwork(r) = n /\ NamesOf(r) = {r.who}
                                      /\ \/ r.who = alias /\ r.ip = ncn_ips[n]
                                         \/ r.who = Vip /\ r.ip = ncn_ips[VipKey(n)]
  <2>1. CASE r = [who |-> alias, for |-> "mgmt", ip |-> bmc_ip]
    BY <1>1, <1>2, <2>1 DEF HostRecord, RecordNetwork, NamesOf
  <2>2. ASSUME NEW n \in Network, r = [who |-> alias, for |-> n, ip |-> ncn_ips[n]]
        PROVE  /\ r \in HostRecord /\ r.ip # Unset /\ r.for = n /\ RecordNetwork(r) = n /\ NamesOf(r) = {r.who}
               /\ r.who = alias /\ r.ip = ncn_ips[n]
    BY <1>1, <1>2, <2>2 DEF HostRecord, RecordNetwork, NamesOf
  <2>3. ASSUME NEW n \in Network, r = [who |-> Vip, for |-> n, ip |-> ncn_ips[VipKey(n)]],
               ncn_ips[VipKey(n)] # Unset
        PROVE  /\ r \in HostRecord /\ r.ip # Unset /\ r.for = n /\ RecordNetwork(r) = n /\ NamesOf(r) = {r.who}
               /\ r.who = Vip /\ r.ip = ncn_ips[VipKey(n)]
    BY <1>1, <1>2, <2>3 DEF HostRecord, RecordNetwork, NamesOf
  <2>. QED BY <1>5, <2>1, <2>2, <2>3
<1>7. ASSUME NEW r \in NewHostRecords  PROVE \E m \in NamesOf(r) : reservations[RecordNetwork(r)][m] = r.ip
  <2>1. CASE r.for = "mgmt"
    BY <1>1, <1>4, <1>6, <2>1
  <2>2. CASE r.for # "mgmt"
    <3>1. PICK n \in Network : /\ r.for = n /\ RecordNetwork(r) = n /\ NamesOf(r) = {r.who}
                               /\ \/ r.who = alias /\ r.ip = ncn_ips[n]
                                  \/ r.who = Vip /\ r.ip = ncn_ips[VipKey(n)]
      BY <1>6, <2>2
    <3>2. reservations[n][r.who] = r.ip
      BY <1>1, <1>3, <1>6, <3>1
    <3>. QED BY <3>1, <3>2
  <2>. QED BY <2>1, <2>2
<1>8. \A n \in Network : [who |-> alias, for |-> n, ip |-> ncn_ips[n]] \in NewHostRecords
  <2>. SUFFICES ASSUME NEW n \in Network  PROVE [who |-> alias, for |-> n, ip |-> ncn_ips[n]] \in NewHostRecords
    OBVIOUS
  <2>1. n \in {j \in Key : ncn_ips[j] # Unset} /\ NetworkOf(n) = n
    BY <1>1, <1>2
  <2>. QED BY <2>1 DEF NewHostRecords
<1>9. ASSUME NEW q \in NewHostRecords, NEW r \in hostRecords
      PROVE  /\ q.who # r.who \/ q.for # r.for
             /\ RecordNetwork(q) # RecordNetwork(r) \/ q.ip # r.ip
  <2>1. /\ r.who # alias /\ (RecordNetwork(r) = "HMN" => r.ip # bmc_ip)
        /\ \A k \in Key : RecordNetwork(r) = NetworkOf(k) /\ ncn_ips[k] # Unset => r.ip # ncn_ips[k]
        /\ r.who = Vip => ncn_ips[VipKey(r.for)] = Unset
    BY DEF PlanIsNew
  <2>2. CASE q.for = "mgmt"
    BY <1>6, <2>1, <2>2
  <2>3. CASE q.for # "mgmt"
    <3>1. PICK n \in Network : /\ q.for = n /\ RecordNetwork(q) = n
                               /\ \/ q.who = alias /\ q.ip = ncn_ips[n]
                                  \/ q.who = Vip /\ q.ip = ncn_ips[VipKey(n)]
      BY <1>6, <2>3
    <3>. QED BY <1>1, <1>6, <2>1, <3>1
  <2>. QED BY <2>2, <2>3
<1>10. ASSUME NEW q \in NewHostRecords, NEW r \in NewHostRecords
       PROVE  /\ q.who = r.who /\ q.for = r.for => q.ip = r.ip
              /\ RecordNetwork(q) = RecordNetwork(r) /\ q.ip = r.ip => q.who = r.who /\ q.for = r.for
  <2>1. CASE q.for = "mgmt" \/ r.for = "mgmt"
    BY <1>1, <1>2, <1>6, <2>1
  <2>2. CASE q.for # "mgmt" /\ r.for # "mgmt"
    BY <1>1, <1>2, <1>6, <2>2
  <2>. QED BY <2>1, <2>2
<1>11. \A q, r \in HostRecord : q.who = r.who /\ q.for = r.for /\ q.ip = r.ip => q = r
  BY DEF HostRecord
<1>. QED BY <1>2, <1>4, <1>6, <1>7, <1>8, <1>9, <1>10, <1>11

LEMMA RecordsStep ==
    ASSUME IInv, ~Fails, [Next]_vars
    PROVE  HostRecordsAreReserved' /\ RecordsAreSound'
<1>. USE Agreed
<1>1. CASE UpdateGlobal
  <2>1. /\ UNCHANGED reservations /\ pc = "alloc_global" /\ global = hostRecords
        /\ IF reuse THEN hostRecords' = hostRecords ELSE hostRecords' = hostRecords \cup NewHostRecords
    BY <1>1 DEF UpdateGlobal, slsVars, CopiesAreCurrent
  <2>2. CASE reuse
    BY <2>1, <2>2 DEF HostRecordsAreReserved, RecordsAreSound, HostRecordIpsUnique
  <2>3. CASE ~reuse
    <3>1. hostRecords' = hostRecords \cup NewHostRecords
      BY <2>1, <2>3
    <3>2. /\ \A r \in NewHostRecords :
                 /\ r.ip # Unset
                 /\ r.for = "mgmt" => r.who = alias
                 /\ \E m \in NamesOf(r) : reservations[RecordNetwork(r)][m] = r.ip
          /\ \A n \in Network : [who |-> alias, for |-> n, ip |-> ncn_ips[n]] \in NewHostRecords
          /\ alias # Vip
      BY <2>1, <2>3, NewRecords, Sorts DEF ArgTypes
    <3>3. /\ \A q \in NewHostRecords, r \in hostRecords :
                 /\ q.who # r.who \/ q.for # r.for
                 /\ RecordNetwork(q) # RecordNetwork(r) \/ q.ip # r.ip
          /\ \A q, r \in NewHostRecords :
                 /\ q.who = r.who /\ q.for = r.for => q = r
                 /\ RecordNetwork(q) = RecordNetwork(r) /\ q.ip = r.ip => q = r
      BY <2>1, <2>3, NewRecords
    <3>4. HostRecordsAreReserved'
      BY <2>1, <3>1, <3>2 DEF HostRecordsAreReserved
    <3>5. HostRecordIpsUnique' /\ \A r, q \in hostRecords' : r.who = q.who /\ r.for = q.for => r = q
      <4>. SUFFICES ASSUME NEW r \in hostRecords', NEW q \in hostRecords'
                    PROVE  /\ RecordNetwork(r) = RecordNetwork(q) /\ r.ip = q.ip => r = q
                           /\ r.who = q.who /\ r.for = q.for => r = q
        BY DEF HostRecordIpsUnique
      <4>1. CASE r \in hostRecords /\ q \in hostRecords
        BY <4>1 DEF RecordsAreSound, HostRecordIpsUnique
      <4>2. CASE r \in NewHostRecords \/ q \in NewHostRecords
        BY <3>1, <3>3, <4>2
      <4>. QED BY <3>1, <4>1, <4>2
    <3>6. ASSUME NEW r \in hostRecords'
          PROVE  /\ r.ip # Unset
                 /\ r.for = "mgmt" => /\ r.who # Vip
                                      /\ \A n \in Network : \E q \in hostRecords' : q.who = r.who /\ q.for = n
      <4>1. CASE r \in hostRecords
        BY <3>1, <4>1 DEF RecordsAreSound
      <4>2. CASE r \in NewHostRecords
        <5>1. ASSUME NEW n \in Network  PROVE \E q \in hostRecords' : q.who = alias /\ q.for = n
          <6>1. [who |-> alias, for |-> n, ip |-> ncn_ips[n]] \in hostRecords'
            BY <3>1, <3>2
          <6>. QED BY <6>1
        <5>. QED BY <3>2, <4>2, <5>1
      <4>. QED BY <3>1, <4>1, <4>2
    <3>. QED BY <3>4, <3>5, <3>6 DEF RecordsAreSound
  <2>. QED BY <2>2, <2>3
<1>2. CASE RemoveHostRecords
  <2>1. /\ UNCHANGED reservations
        /\ hostRecords' = IF alias \in Fixed THEN hostRecords ELSE {r \in hostRecords : r.who # alias}
    BY <1>2 DEF RemoveHostRecords, CopiesAreCurrent, slsVars
  <2>2. hostRecords' \subseteq hostRecords
    BY <2>1
  <2>3. \A r \in hostRecords', q \in hostRecords : q.who = r.who => q \in hostRecords'
    BY <2>1
  <2>4. HostRecordsAreReserved' /\ HostRecordIpsUnique'
    BY <2>1, <2>2 DEF HostRecordsAreReserved, RecordsAreSound, HostRecordIpsUnique
  <2>5. ASSUME NEW r \in hostRecords', r.for = "mgmt", NEW n \in Network
        PROVE  \E q \in hostRecords' : q.who = r.who /\ q.for = n
    <3>1. \E q \in hostRecords : q.who = r.who /\ q.for = n
      BY <2>2, <2>5 DEF RecordsAreSound
    <3>. QED BY <2>3, <3>1
  <2>6. \A r \in hostRecords' : r.ip # Unset /\ (r.for = "mgmt" => r.who # Vip)
    BY <2>2 DEF RecordsAreSound
  <2>7. \A r, q \in hostRecords' : r.who = q.who /\ r.for = q.for => r = q
    BY <2>2 DEF RecordsAreSound
  <2>. QED BY <2>4, <2>5, <2>6, <2>7 DEF RecordsAreSound
<1>3. ASSUME UNCHANGED hostRecords  PROVE HostRecordsAreReserved' /\ RecordsAreSound'
  <2>1. RecordsAreSound'
    BY <1>3 DEF RecordsAreSound, HostRecordIpsUnique
  <2>2. CASE PutNetwork
    <3>1. ASSUME NEW r \in hostRecords, r.for = "mgmt"
          PROVE  \E m \in NamesOf(r) : reservations'[RecordNetwork(r)][m] = r.ip
      BY <2>2, <3>1, PutLeaves DEF NamesOf, RecordNetwork
    <3>2. ASSUME NEW r \in hostRecords, r.for # "mgmt"
          PROVE  \E m \in NamesOf(r) : reservations'[RecordNetwork(r)][m] = r.ip
      BY <2>2, <3>2, PutLeaves DEF NamesOf, RecordNetwork
    <3>. QED BY <1>3, <2>1, <3>1, <3>2 DEF HostRecordsAreReserved
  <2>3. CASE RemoveReservations
    BY <1>3, <2>1, <2>3, RemovalLeaves DEF HostRecordsAreReserved
  <2>4. CASE UNCHANGED reservations
    BY <1>3, <2>1, <2>4 DEF HostRecordsAreReserved
  <2>. QED BY <2>2, <2>3, <2>4, Changes
<1>. QED BY <1>1, <1>2, <1>3, Changes

LEMMA BootsStep ==
    ASSUME IInv, ~Fails, [Next]_vars
    PROVE  BootsWithReservedIps' /\ BootsAreInSls'
<1>. USE Agreed
<1>1. CASE PutBootparameters
  <2>1. /\ xname \in Xname /\ alias \in Alias /\ slsNode[xname] = alias
        /\ \A n \in Network : ncn_ips[n] # Unset /\ reservations[n][alias] = ncn_ips[n]
        /\ UNCHANGED <<slsNode, reservations>>
    BY <1>1 DEF PutBootparameters, ArgTypes, SlotsFollowScript, HasNode, InData, PlanIsNew, slsVars
  <2>2. \A y \in Xname : bootparams'[y] = IF y = xname
            THEN [alias |-> alias, ips |-> [n \in Network |-> ncn_ips[n]]] ELSE bootparams[y]
    BY <1>1, <2>1 DEF PutBootparameters, BssTypes
  <2>3. ASSUME NEW y \in Xname, CanBoot(y)', NEW n \in Network
        PROVE  /\ slsNode[y] = bootparams'[y].alias /\ bootparams'[y].ips[n] # Unset
               /\ reservations[n][bootparams'[y].alias] = bootparams'[y].ips[n]
    <3>1. CASE y = xname
      <4>1. bootparams'[y] = [alias |-> alias, ips |-> [i \in Network |-> ncn_ips[i]]]
        BY <2>1, <2>2, <3>1
      <4>2. bootparams'[y].alias = alias /\ bootparams'[y].ips[n] = ncn_ips[n]
        BY <4>1
      <4>. QED BY <2>1, <3>1, <4>2
    <3>2. CASE y # xname
      <4>1. CanBoot(y) /\ bootparams'[y] = bootparams[y]
        BY <2>2, <2>3, <3>2 DEF CanBoot
      <4>2. slsNode[y] = bootparams[y].alias /\ bootparams[y].ips[n] # Unset
        BY <4>1 DEF BootsAreInSls
      <4>3. reservations[n][bootparams[y].alias] = bootparams[y].ips[n]
        BY <4>1 DEF BootsWithReservedIps
      <4>. QED BY <4>1, <4>2, <4>3
    <3>. QED BY <3>1, <3>2
  <2>4. BootsWithReservedIps'
    BY <2>1, <2>3 DEF BootsWithReservedIps
  <2>5. BootsAreInSls'
    BY <2>1, <2>3 DEF BootsAreInSls
  <2>. QED BY <2>4, <2>5
<1>2. CASE RemoveBootparameters
  <2>1. /\ xname \in Xname /\ UNCHANGED <<slsNode, reservations>>
        /\ bootparams' = [bootparams EXCEPT ![xname] = NoBootParams]
    BY <1>2 DEF RemoveBootparameters, ArgTypes, slsVars
  <2>2. ASSUME NEW y \in Xname, CanBoot(y)'  PROVE CanBoot(y) /\ bootparams'[y] = bootparams[y]
    BY <2>1, <2>2 DEF CanBoot, NoBootParams, BssTypes
  <2>3. BootsWithReservedIps'
    BY <2>1, <2>2 DEF BootsWithReservedIps
  <2>4. BootsAreInSls'
    BY <2>1, <2>2 DEF BootsAreInSls
  <2>. QED BY <2>3, <2>4
<1>3. ASSUME UNCHANGED bootparams  PROVE BootsWithReservedIps'
  <2>1. \A y \in Xname : CanBoot(y)' = CanBoot(y)
    BY <1>3 DEF CanBoot
  <2>2. CASE PutNetwork
    BY <1>3, <2>1, <2>2, PutLeaves DEF BootsWithReservedIps
  <2>3. CASE RemoveReservations
    BY <1>3, <2>1, <2>3, RemovalLeaves DEF BootsWithReservedIps
  <2>4. CASE UNCHANGED reservations
    BY <1>3, <2>1, <2>4 DEF BootsWithReservedIps
  <2>. QED BY <2>2, <2>3, <2>4, Changes
<1>4. ASSUME UNCHANGED bootparams  PROVE BootsAreInSls'
  <2>1. \A y \in Xname : CanBoot(y)' = CanBoot(y)
    BY <1>4 DEF CanBoot
  <2>2. CASE CreateNode
    <3>1. xname \in Xname /\ slsNode[xname] = None /\ slsNode' = [slsNode EXCEPT ![xname] = alias]
      BY <2>2 DEF CreateNode, ArgTypes, SlotsFollowScript, HasNoNode
    <3>2. ~CanBoot(xname)
      BY <3>1 DEF BootsAreInSls, CanBoot
    <3>. QED BY <1>4, <2>1, <3>1, <3>2 DEF BootsAreInSls, SlsTypes
  <2>3. CASE RemoveNode
    <3>1. /\ xname \in Xname /\ slsNode' = [slsNode EXCEPT ![xname] = None] /\ RmRank = 8
      BY <2>3 DEF RemoveNode, ArgTypes, RmRank
    <3>2. ~CanBoot(xname)
      BY <3>1 DEF RemovedSoFar
    <3>. QED BY <1>4, <2>1, <3>1, <3>2 DEF BootsAreInSls, SlsTypes
  <2>4. CASE UNCHANGED slsNode
    BY <1>4, <2>1, <2>4 DEF BootsAreInSls
  <2>. QED BY <2>2, <2>3, <2>4, Changes
<1>. QED BY <1>1, <1>2, <1>3, <1>4, Changes

\* Two records of BMCs with one IP are one.
LEMMA BmcRecords ==
    ASSUME RecordsAreSound, NEW r \in hostRecords, NEW q \in hostRecords,
           r.for = "mgmt", q.for = "mgmt", r.ip = q.ip
    PROVE  r.who = q.who
BY DEF RecordsAreSound, HostRecordIpsUnique, RecordNetwork

LEMMA SlotsOwnIpsStep ==
    ASSUME IInv, ~Fails, [Next]_vars
    PROVE  SlotsOwnIps'
<1>. USE Agreed
<1>1. ASSUME hostRecords' \subseteq hostRecords,
             \A x \in Xname : reservations'["HMN"][x] \in {reservations["HMN"][x], Unset},
             \A x \in Xname : slsNode'[x] \in {slsNode[x], None},
             \/ ~Removing' /\ pc' \notin {"data_validate", "data_node"}
             \/ /\ UNCHANGED <<alias, xname>> /\ xname \in Xname
                /\ pc' \in {"data_validate", "data_node"} => pc \in {"data_validate", "data_node"}
                /\ Removing' => Removing
      PROVE  SlotsOwnIps'
  <2>1. ASSUME NEW r \in hostRecords', r.for = "mgmt", NEW x \in Xname, slsNode'[x] # None,
               reservations'["HMN"][x] = r.ip
        PROVE  r.who = slsNode'[x]
    <3>1. r \in hostRecords /\ r.ip # Unset /\ slsNode'[x] = slsNode[x] /\ reservations["HMN"][x] = r.ip
      BY <1>1, <2>1 DEF RecordsAreSound
    <3>. QED BY <2>1, <3>1 DEF SlotsOwnIps
  <2>2. ASSUME NEW r \in hostRecords', r.for = "mgmt", reservations'["HMN"][xname'] = r.ip,
               pc' \in {"data_validate", "data_node"} \/ (Removing' /\ alias' \notin Fixed)
        PROVE  r.who = alias'
    <3>1. /\ UNCHANGED <<alias, xname>> /\ xname \in Xname
          /\ pc \in {"data_validate", "data_node"} \/ (Removing /\ alias \notin Fixed)
      BY <1>1, <2>2
    <3>2. r \in hostRecords /\ r.ip # Unset /\ reservations["HMN"][xname] = r.ip
      BY <1>1, <2>2, <3>1 DEF RecordsAreSound
    <3>. QED BY <2>2, <3>1, <3>2 DEF SlotsOwnIps
  <2>. QED BY <2>1, <2>2 DEF SlotsOwnIps
<1>2. ASSUME NEW a \in SiteAlias, NEW x \in SiteXname, NcnData(a, x)  PROVE SlotsOwnIps'
  <2>1. /\ UNCHANGED <<hostRecords, reservations, slsNode>> /\ xname' = x /\ alias' = a /\ x \in Xname
        /\ NotPromised(a, x) /\ ~Removing'
    BY <1>2 DEF NcnData, Start, NotInSls, slsVars, bssVars, Removing
  <2>2. ASSUME NEW r \in hostRecords, r.for = "mgmt", reservations["HMN"][x] = r.ip
        PROVE  r.who = a
    <3>1. r.ip \in RecordIps(hostRecords, a, "mgmt") /\ r.ip # Unset
      BY <2>1, <2>2 DEF NotPromised, RecordsAreSound
    <3>2. PICK q \in hostRecords : q.who = a /\ q.for = "mgmt" /\ q.ip = r.ip
      BY <3>1 DEF RecordIps
    <3>. QED BY <2>2, <3>2, BmcRecords
  <2>. QED BY <2>1, <2>2 DEF SlotsOwnIps
<1>3. ASSUME NEW x \in SiteXname, RemoveNcn(x)  PROVE SlotsOwnIps'
  <2>1. /\ UNCHANGED <<hostRecords, reservations, slsNode>> /\ xname' = x /\ alias' = slsNode[x] /\ x \in Xname
        /\ slsNode[x] # None
    BY <1>3 DEF RemoveNcn, Start, slsVars, bssVars
  <2>. QED BY <2>1 DEF SlotsOwnIps
<1>4. CASE CreateNode
  <2>1. /\ UNCHANGED <<hostRecords, reservations, alias, xname>> /\ ~Removing'
        /\ pc = "data_node" /\ pc' \notin {"data_validate", "data_node"}
        /\ xname \in Xname /\ slsNode' = [slsNode EXCEPT ![xname] = alias]
    BY <1>4 DEF CreateNode, Goto, bssVars, argVars, Removing, ArgTypes
  <2>2. \A x \in Xname : slsNode'[x] = IF x = xname THEN alias ELSE slsNode[x]
    BY <2>1 DEF SlsTypes
  <2>. QED BY <2>1, <2>2 DEF SlotsOwnIps
<1>5. CASE UpdateGlobal
  <2>1. /\ UNCHANGED <<reservations, slsNode>> /\ pc = "alloc_global" /\ global = hostRecords
        /\ IF reuse THEN hostRecords' = hostRecords ELSE hostRecords' = hostRecords \cup NewHostRecords
        /\ pc' = "idle" /\ ~Removing' /\ xname \in Xname /\ slsNode[xname] = None
    BY <1>5 DEF UpdateGlobal, slsVars, CopiesAreCurrent, Exit, Removing, ArgTypes, SlotsFollowScript, HasNoNode
  <2>2. CASE reuse
    BY <1>1, <2>1, <2>2
  <2>3. CASE ~reuse
    <3>1. ASSUME NEW r \in NewHostRecords, r.for = "mgmt", NEW x \in Xname,
                 slsNode[x] # None, reservations["HMN"][x] = r.ip
          PROVE  FALSE
      <4>1. r.ip = bmc_ip /\ reservations["HMN"][xname] = bmc_ip /\ bmc_ip # Unset
        BY <2>1, <2>3, <3>1, NewRecords
      <4>2. x \in Name /\ xname \in Name
        BY <2>1, Sorts
      <4>3. x = xname
        BY <3>1, <4>1, <4>2 DEF Distinct
      <4>. QED BY <2>1, <3>1, <4>3
    <3>. QED BY <2>1, <2>3, <3>1 DEF SlotsOwnIps
  <2>. QED BY <2>2, <2>3
<1>6. CASE RemoveHostRecords
  <2>1. /\ hostRecords' = IF alias \in Fixed THEN hostRecords ELSE {r \in hostRecords : r.who # alias}
        /\ UNCHANGED <<reservations, slsNode, alias, xname>> /\ Removing /\ Removing' /\ xname \in Xname
        /\ pc' \notin {"data_validate", "data_node"}
    BY <1>6 DEF RemoveHostRecords, CopiesAreCurrent, slsVars, Goto, argVars, Removing, ArgTypes
  <2>. QED BY <1>1, <2>1
<1>7. CASE PutNetwork
  <2>1. /\ UNCHANGED <<hostRecords, slsNode>> /\ ~Removing' /\ pc' \notin {"data_validate", "data_node"}
        /\ Adding /\ xname \in Xname /\ alias \notin Xname /\ Vip \notin Xname /\ Xname \subseteq Name
        /\ pc \in {"alloc_put", "data_put"}
        /\ PutName \notin Xname
    BY <1>7, PutsReservations, Sorts DEF bssVars, Removing, Adding, PutName
  <2>2. ASSUME NEW r \in hostRecords, r.for = "mgmt", NEW x \in Xname, slsNode[x] # None,
               reservations'["HMN"][x] = r.ip
        PROVE  r.who = slsNode[x]
    <3>1. r.ip # Unset
      BY <2>2 DEF RecordsAreSound
    <3>2. CASE x # xname
      <4>1. nets["HMN"][x] \in {reservations["HMN"][x], Unset}
        BY <2>1, <3>2 DEF CopiesAreCurrent
      <4>2. reservations'["HMN"][x] \in {reservations["HMN"][x], nets["HMN"][x]}
        BY <1>7, <2>1, <3>2, PutsReservations
      <4>. QED BY <2>2, <3>1, <4>1, <4>2 DEF SlotsOwnIps
    <3>3. CASE x = xname
      <4>1. pc = "data_put" /\ slsNode[x] = alias /\ reuse
        BY <2>1, <2>2, <3>3 DEF SlotsFollowScript, HasNoNode, HasNode, InData
      <4>2. [who |-> alias, for |-> "mgmt", ip |-> bmc_ip] \in hostRecords
        BY <2>1, <4>1 DEF PlanIsNew
      <4>3. reservations'["HMN"][x] \in {reservations["HMN"][x], bmc_ip}
        BY <1>7, <2>1, <3>3, PutsReservations
      <4>4. r.ip = bmc_ip => r.who = alias
        <5>. DEFINE q == [who |-> alias, for |-> "mgmt", ip |-> bmc_ip]
        <5>1. q \in hostRecords /\ q.for = "mgmt" /\ q.ip = bmc_ip /\ q.who = alias
          BY <4>2
        <5>. HIDE DEF q
        <5>. QED BY <2>2, <5>1, BmcRecords
      <4>. QED BY <2>2, <4>1, <4>3, <4>4 DEF SlotsOwnIps
    <3>. QED BY <3>2, <3>3
  <2>. QED BY <2>1, <2>2 DEF SlotsOwnIps
<1>8. CASE RemoveReservations
  <2>1. /\ UNCHANGED <<hostRecords, slsNode, alias, xname>> /\ Removing /\ xname \in Xname
        /\ pc' \notin {"data_validate", "data_node"} /\ Xname \subseteq Name
    BY <1>8, Sorts DEF RemoveReservations, bssVars, argVars, Removing, ArgTypes
  <2>2. \A x \in Xname : reservations'["HMN"][x] \in {reservations["HMN"][x], Unset}
    BY <1>8, <2>1, RemovalLeaves
  <2>. QED BY <1>1, <2>1, <2>2
<1>9. CASE RemoveNode
  <2>1. /\ UNCHANGED <<hostRecords, reservations, alias, xname>> /\ Removing /\ xname \in Xname
        /\ pc' \notin {"data_validate", "data_node"}
        /\ slsNode' = [slsNode EXCEPT ![xname] = None]
    BY <1>9 DEF RemoveNode, Goto, bssVars, argVars, Removing, ArgTypes
  <2>2. \A x \in Xname : slsNode'[x] \in {slsNode[x], None}
    BY <2>1 DEF SlsTypes
  <2>. QED BY <1>1, <2>1, <2>2
<1>10. CASE AllocateValidated \/ NcnDataValidated \/ CreateComponent \/ Adds \/ Waits
            \/ \E x \in SiteXname : Discover(x)
  <2>1. /\ UNCHANGED <<hostRecords, reservations, slsNode, alias, xname>>
        /\ pc' \in {"data_validate", "data_node"} => pc \in {"data_validate", "data_node"}
        /\ Removing' => Removing
    BY <1>10 DEF AllocateValidated, NcnDataValidated, CreateComponent, Adds, Waits, Discover,
         Goto, slsVars, bssVars, argVars, Removing
  <2>2. Removing \/ pc \in {"data_validate", "data_node"} => xname \in Xname
    BY DEF Removing, ArgTypes
  <2>. QED BY <1>1, <2>1, <2>2
<1>11. CASE RemoveBootparameters \/ RemoveComponent \/ Removes
  <2>1. /\ UNCHANGED <<hostRecords, reservations, slsNode, alias, xname>> /\ Removing
        /\ pc' \notin {"data_validate", "data_node"}
    BY <1>11 DEF RemoveBootparameters, RemoveComponent, Removes, Goto, slsVars, bssVars, argVars, Removing
  <2>2. xname \in Xname
    BY <2>1 DEF Removing, ArgTypes
  <2>. QED BY <1>1, <2>1, <2>2
<1>12. CASE Ends \/ PutBootparameters
            \/ \E a \in SiteAlias, x \in SiteXname : AllocateIps(a, x) \/ AllocateIpsRaises(a, x)
  <2>1. /\ UNCHANGED <<hostRecords, reservations, slsNode>> /\ ~Removing'
        /\ pc' \notin {"data_validate", "data_node"}
    BY <1>12 DEF Ends, PutBootparameters, AllocateIps, AllocateIpsRaises, Exit, Start, slsVars, bssVars, Removing
  <2>. QED BY <1>1, <2>1
<1>. QED BY <1>2, <1>3, <1>4, <1>5, <1>6, <1>7, <1>8, <1>9, <1>10, <1>11, <1>12, Steps

LEMMA PlanStep ==
    ASSUME IInv, ~Fails, [Next]_vars
    PROVE  PlanKeepsRecords' /\ PlanIsNew'
<1>. USE Agreed
<1>1. ASSUME UNCHANGED <<reservations, hostRecords, bootparams, nets, ncn_ips, bmc_ip, alias, xname, reuse>>,
             Adding' => Adding, InData' => Adding \/ InData, pc' = "alloc_global" => pc = "alloc_global"
      PROVE  PlanKeepsRecords' /\ PlanIsNew'
  BY <1>1 DEF PlanKeepsRecords, PlanIsNew, CanBoot
<1>2. ASSUME ~Adding', ~InData', pc' # "alloc_global"  PROVE PlanKeepsRecords' /\ PlanIsNew'
  BY <1>2 DEF PlanKeepsRecords, PlanIsNew
<1>3. CASE PutNetwork
  <2>1. /\ UNCHANGED <<hostRecords, bootparams, ncn_ips, bmc_ip, alias, xname, reuse>> /\ Adding
        /\ \A y : CanBoot(y)' = CanBoot(y)
    BY <1>3, PutsReservations DEF bssVars, argVars, Adding, CanBoot
  <2>2. /\ \A r \in hostRecords : r.for # "mgmt" =>
                 IF r.who = alias THEN ncn_ips[r.for] = r.ip ELSE nets'[r.for][r.who] = r.ip
        /\ \A r \in hostRecords : r.for = "mgmt" =>
                 (reuse /\ bmc_ip = r.ip) \/ \E y \in Xname \ {xname} : nets'["HMN"][y] = r.ip
        /\ \A y \in Xname, n \in Network : CanBoot(y) =>
                 IF bootparams[y].alias = alias THEN ncn_ips[n] = bootparams[y].ips[n]
                 ELSE nets'[n][bootparams[y].alias] = bootparams[y].ips[n]
        /\ reuse => \A n \in Network : ncn_ips[n] # Unset /\ reservations'[n][alias] = ncn_ips[n]
    BY <1>3, PutLeaves
  <2>3. PlanKeepsRecords'
    <3>1. ASSUME NEW r \in hostRecords
          PROVE  CASE r.for = "mgmt" -> \/ reuse /\ bmc_ip = r.ip
                                        \/ \E y \in Xname \ {xname} : nets'["HMN"][y] = r.ip
                   [] r.for # "mgmt" /\ r.who = alias -> ncn_ips[r.for] = r.ip
                   [] OTHER -> nets'[r.for][r.who] = r.ip
      BY <2>2
    <3>2. ASSUME NEW y \in Xname, CanBoot(y), NEW n \in Network
          PROVE  IF bootparams[y].alias = alias THEN ncn_ips[n] = bootparams[y].ips[n]
                 ELSE nets'[n][bootparams[y].alias] = bootparams[y].ips[n]
      BY <2>2, <3>2
    <3>. QED BY <2>1, <3>1, <3>2 DEF PlanKeepsRecords
  <2>4. PlanIsNew'
    BY <2>1, <2>2 DEF PlanIsNew
  <2>. QED BY <2>3, <2>4
<1>4. ASSUME NEW a \in SiteAlias, NEW x \in SiteXname, AllocateIps(a, x) \/ NcnData(a, x)
      PROVE  PlanKeepsRecords' /\ PlanIsNew'
  BY <1>4, PlanStarts
<1>5. ASSUME NEW a \in SiteAlias, NEW x \in SiteXname, AllocateIpsRaises(a, x)
      PROVE  PlanKeepsRecords' /\ PlanIsNew'
  BY <1>2, <1>5 DEF AllocateIpsRaises, Start, Adding, InData
<1>6. CASE AllocateValidated \/ NcnDataValidated \/ CreateNode \/ CreateComponent \/ Adds \/ Waits
           \/ \E x \in SiteXname : Discover(x)
  <2>1. /\ UNCHANGED <<reservations, hostRecords, bootparams, nets, ncn_ips, bmc_ip, alias, xname, reuse>>
    BY <1>6 DEF AllocateValidated, NcnDataValidated, CreateNode, CreateComponent, Adds, Waits, Discover,
         Goto, slsVars, bssVars, argVars, planVars
  <2>2. Adding' => Adding
    BY <1>6 DEF AllocateValidated, NcnDataValidated, CreateNode, CreateComponent, Adds, Waits, Discover,
         Goto, Adding
  <2>3. InData' => Adding \/ InData
    BY <1>6 DEF AllocateValidated, NcnDataValidated, CreateNode, CreateComponent, Adds, Waits, Discover,
         Goto, InData, Adding
  <2>4. pc' = "alloc_global" => pc = "alloc_global"
    BY <1>6 DEF AllocateValidated, NcnDataValidated, CreateNode, CreateComponent, Adds, Waits, Discover, Goto
  <2>. QED BY <1>1, <2>1, <2>2, <2>3, <2>4
<1>7. CASE Ends \/ UpdateGlobal \/ PutBootparameters \/ \E x \in SiteXname : RemoveNcn(x)
  BY <1>2, <1>7 DEF Ends, UpdateGlobal, PutBootparameters, RemoveNcn, Exit, Start, Adding, InData
<1>8. CASE RemoveHostRecords \/ RemoveBootparameters \/ RemoveComponent \/ RemoveNode \/ RemoveReservations
           \/ Removes
  BY <1>2, <1>8 DEF RemoveHostRecords, RemoveBootparameters, RemoveComponent, RemoveNode,
       RemoveReservations, Removes, Goto, Adding, InData
<1>. QED BY <1>3, <1>4, <1>5, <1>6, <1>7, <1>8, Steps

LEMMA WrittenStep ==
    ASSUME IInv, ~Fails, [Next]_vars
    PROVE  Written'
<1>. USE Agreed
<1>1. ASSUME pc' \notin {"alloc_put", "alloc_global"}  PROVE Written'
  BY <1>1 DEF Written
<1>2. CASE PutNetwork
  <2>1. /\ UNCHANGED <<ncn_ips, bmc_ip, alias, xname>>
        /\ PutNet \in Network /\ PutName \in Name /\ xname \in Name /\ PutName # xname
        /\ put \in 1..4 /\ pc \in {"alloc_put", "data_put"}
        /\ Vip # alias /\ xname # alias /\ xname # Vip
    BY <1>2, PutsReservations, KeyFacts, Sorts DEF argVars
  <2>. SUFFICES ASSUME pc' \in {"alloc_put", "alloc_global"}, NEW i \in 1..Len(Keys),
                       pc' = "alloc_global" \/ i < put', ncn_ips[Keys[i]] # Unset,
                       NEW f \in {reservations', nets'}
                PROVE  LET n == NetworkOf(Keys[i])
                       IN  /\ f[n][IF Keys[i] = n THEN alias ELSE Vip] = ncn_ips[Keys[i]]
                           /\ n = "HMN" => f["HMN"][xname] = bmc_ip
    BY <2>1 DEF Written
  <2>. DEFINE n == NetworkOf(Keys[i])
              m == IF Keys[i] = n THEN alias ELSE Vip
  <2>2. /\ pc = "alloc_put" /\ i <= put /\ i \in 1..4
        /\ n \in Network /\ m \in Name /\ m # xname /\ (Keys[i] = n \/ Keys[i] = VipKey(n))
    BY <1>2, <2>1, PutsReservations, KeyFacts, Sorts
  <2>3. CASE i = put
    <3>1. n = PutNet /\ m = PutName /\ Keys[i] = PutKey
      BY <2>3 DEF PutKey, PutNet, PutName
    <3>2. f[n][m] = ncn_ips[Keys[i]]
      BY <1>2, <2>1, <3>1, PutsReservations
    <3>3. n = "HMN" => f["HMN"][xname] = bmc_ip
      BY <1>2, <2>1, <3>1, PutsReservations
    <3>. QED BY <3>2, <3>3
  <2>4. CASE i # put
    <3>1. i < put /\ Keys[i] # PutKey
      BY <2>1, <2>2, <2>4, KeyFacts DEF PutKey
    <3>2. \A g \in {reservations, nets} : g[n][m] = ncn_ips[Keys[i]] /\ (n = "HMN" => g["HMN"][xname] = bmc_ip)
      BY <2>2, <3>1 DEF Written
    <3>3. n = PutNet => m # PutName
      BY <2>1, <2>2, <3>1, PutsReservations, Sorts, <1>2 DEF PutNet, PutName
    <3>4. f[n][m] = ncn_ips[Keys[i]]
      BY <1>2, <2>2, <3>2, <3>3, PutsReservations
    <3>5. n = "HMN" => f["HMN"][xname] = bmc_ip
      BY <1>2, <2>1, <3>2, PutsReservations
    <3>. QED BY <3>4, <3>5
  <2>. QED BY <2>3, <2>4
<1>3. CASE AllocateValidated
  <2>1. pc' = "alloc_put" /\ put' = 1
    BY <1>3 DEF AllocateValidated, ArgTypes
  <2>. QED BY <2>1, KeyFacts DEF Written
<1>4. CASE Waits \/ \E x \in SiteXname : Discover(x)
  <2>1. UNCHANGED <<pc, put, reservations, nets, ncn_ips, bmc_ip, alias, xname>>
    BY <1>4 DEF Waits, Discover, slsVars, argVars, planVars
  <2>. QED BY <2>1 DEF Written
<1>5. CASE \E a \in SiteAlias, x \in SiteXname : AllocateIps(a, x) \/ AllocateIpsRaises(a, x) \/ NcnData(a, x)
  BY <1>1, <1>5 DEF AllocateIps, AllocateIpsRaises, NcnData, Start
<1>6. CASE NcnDataValidated \/ CreateNode \/ CreateComponent \/ Adds
  BY <1>1, <1>6 DEF NcnDataValidated, CreateNode, CreateComponent, Adds, Goto
<1>7. CASE Ends \/ UpdateGlobal \/ PutBootparameters \/ \E x \in SiteXname : RemoveNcn(x)
  BY <1>1, <1>7 DEF Ends, UpdateGlobal, PutBootparameters, RemoveNcn, Exit, Start
<1>8. CASE RemoveHostRecords \/ RemoveBootparameters \/ RemoveComponent \/ RemoveNode \/ RemoveReservations
           \/ Removes
  BY <1>1, <1>8 DEF RemoveHostRecords, RemoveBootparameters, RemoveComponent, RemoveNode,
       RemoveReservations, Removes, Goto
<1>. QED BY <1>2, <1>3, <1>4, <1>5, <1>6, <1>7, <1>8, Steps

-----------------------------------------------------------------------------
(* Init implies the invariant.                                             *)

LEMMA InstalledSlots ==
    ASSUME Init
    PROVE  /\ site \in Sites
           /\ \A a \in Fixed : InstalledAt[a] \in Xname /\ slsNode[InstalledAt[a]] = a
           /\ slsNode \in [Xname -> Fixed \cup {None}] /\ None \notin Fixed
           /\ \A x \in Xname : slsNode[x] # None => InstalledAt[slsNode[x]] = x
           /\ slsNid = [x \in Xname |-> IF slsNode[x] = None THEN Unset ELSE InstalledNid[slsNode[x]]]
           /\ bootparams = [x \in Xname |->
                IF slsNode[x] = None THEN NoBootParams
                ELSE [alias |-> slsNode[x], ips |-> [n \in Network |-> InstalledIp[n][slsNode[x]]]]]
           /\ InstalledIp \in [Network -> [Fixed -> IP \ {Unset, Gateway}]]
           /\ InstalledBmcIp \in [Fixed -> IP \ {Unset, Gateway}]
           /\ InstalledVip \in [Network -> IP \ {Gateway}]
<1>. DEFINE at(x) == {a \in Fixed : InstalledAt[a] = x}
<1>1. /\ InstalledAt \in [Fixed -> Xname] /\ None \notin Fixed
      /\ \A a, b \in Fixed : a # b => InstalledAt[a] # InstalledAt[b]
      /\ InstalledIp \in [Network -> [Fixed -> IP \ {Unset, Gateway}]]
      /\ InstalledBmcIp \in [Fixed -> IP \ {Unset, Gateway}]
  BY ManageNcnAssumption
<1>2. /\ site \in Sites
      /\ slsNode = [x \in Xname |-> IF at(x) = {} THEN None ELSE CHOOSE a \in at(x) : TRUE]
      /\ slsNid = [x \in Xname |-> IF at(x) = {} THEN Unset ELSE InstalledNid[slsNode[x]]]
      /\ bootparams = [x \in Xname |->
            IF at(x) = {} THEN NoBootParams
            ELSE [alias |-> slsNode[x], ips |-> [n \in Network |-> InstalledIp[n][slsNode[x]]]]]
  BY DEF Init
<1>3. ASSUME NEW x \in Xname
      PROVE  /\ at(x) = {} => slsNode[x] = None
             /\ at(x) # {} => slsNode[x] \in at(x)
  <2>1. at(x) # {} => (CHOOSE a \in at(x) : TRUE) \in at(x)
    OBVIOUS
  <2>2. slsNode[x] = IF at(x) = {} THEN None ELSE CHOOSE a \in at(x) : TRUE
    BY <1>2
  <2>. QED BY <2>1, <2>2
<1>4. \A x \in Xname : at(x) = {} <=> slsNode[x] = None
  BY <1>1, <1>3
<1>5. \A x \in Xname : slsNode[x] # None => slsNode[x] \in Fixed /\ InstalledAt[slsNode[x]] = x
  BY <1>3, <1>4
<1>6. \A a \in Fixed : InstalledAt[a] \in Xname /\ slsNode[InstalledAt[a]] = a
  <2>. SUFFICES ASSUME NEW a \in Fixed  PROVE InstalledAt[a] \in Xname /\ slsNode[InstalledAt[a]] = a
    OBVIOUS
  <2>1. InstalledAt[a] \in Xname /\ a \in at(InstalledAt[a])
    BY <1>1
  <2>2. slsNode[InstalledAt[a]] \in at(InstalledAt[a])
    BY <1>3, <2>1
  <2>. QED BY <1>1, <2>1, <2>2
<1>7. slsNode \in [Xname -> Fixed \cup {None}]
  <2>1. slsNode = [x \in Xname |-> slsNode[x]]
    BY <1>2
  <2>2. \A x \in Xname : slsNode[x] \in Fixed \cup {None}
    BY <1>5
  <2>. QED BY <2>1, <2>2
<1>8. slsNid = [x \in Xname |-> IF slsNode[x] = None THEN Unset ELSE InstalledNid[slsNode[x]]]
  <2>. HIDE DEF at
  <2>. QED BY <1>2, <1>4
<1>9. bootparams = [x \in Xname |->
            IF slsNode[x] = None THEN NoBootParams
            ELSE [alias |-> slsNode[x], ips |-> [n \in Network |-> InstalledIp[n][slsNode[x]]]]]
  <2>. HIDE DEF at
  <2>. QED BY <1>2, <1>4
<1>. QED BY <1>1, <1>2, <1>5, <1>6, <1>7, <1>8, <1>9, SiteFacts

\* What is reserved at first.
LEMMA InstalledReservations ==
    ASSUME Init
    PROVE  /\ reservations \in [Network -> [Name -> IP]]
           /\ \A n \in Network : reservations[n] \in [Name -> 0..Broadcast[n] - 1]
           /\ \A a \in Fixed, n \in Network : reservations[n][a] = InstalledIp[n][a]
           /\ \A n \in Network : reservations[n][Vip] = InstalledVip[n]
           /\ \A x \in Xname : reservations["HMN"][x] =
                                  IF slsNode[x] = None THEN Unset ELSE InstalledBmcIp[slsNode[x]]
           /\ \A n \in Network : Distinct(reservations[n])
           /\ \A n \in Network : InstalledVip[n] \notin FixedIps(n)
<1>. USE InstalledSlots, Sorts, InstalledFacts
<1>1. /\ reservations = [n \in Network |-> [m \in Name |->
            IF m \in Fixed THEN InstalledIp[n][m]
            ELSE IF m = Vip THEN InstalledVip[n]
            ELSE IF n = "HMN" /\ m \in Xname /\ slsNode[m] # None
                 THEN InstalledBmcIp[slsNode[m]]
                 ELSE Unset]]
      /\ LastIp \in Nat /\ IP = 0..LastIp
      /\ \A n \in Network : Broadcast[n] \in Nat \ {0} /\ InstalledVip[n] < Broadcast[n]
      /\ \A n \in Network, a \in Fixed : InstalledIp[n][a] < Broadcast[n]
      /\ \A a \in Fixed : InstalledBmcIp[a] < Broadcast["HMN"]
  BY SiteFacts DEF Init
<1>2. /\ \A n \in Network, a \in Fixed : InstalledVip[n] # InstalledIp[n][a]
      /\ \A a \in Fixed : InstalledVip["HMN"] # InstalledBmcIp[a]
  BY ManageNcnAssumption DEF InstalledVip
<1>3. ASSUME NEW n \in Network, NEW m \in Name
      PROVE  /\ reservations[n][m] = IF m \in Fixed THEN InstalledIp[n][m]
                                     ELSE IF m = Vip THEN InstalledVip[n]
                                     ELSE IF n = "HMN" /\ m \in Xname /\ slsNode[m] # None
                                          THEN InstalledBmcIp[slsNode[m]] ELSE Unset
             /\ reservations[n][m] \in IP \ {Gateway} /\ reservations[n][m] < Broadcast[n]
             /\ reservations[n][m] \in 0..Broadcast[n] - 1
  <2>1. reservations[n][m] = IF m \in Fixed THEN InstalledIp[n][m]
                                     ELSE IF m = Vip THEN InstalledVip[n]
                                     ELSE IF n = "HMN" /\ m \in Xname /\ slsNode[m] # None
                                          THEN InstalledBmcIp[slsNode[m]] ELSE Unset
    BY <1>1
  <2>2. reservations[n][m] \in IP \ {Gateway} /\ reservations[n][m] < Broadcast[n]
    BY <1>1, <2>1 DEF Unset, Gateway
  <2>3. reservations[n][m] \in 0..Broadcast[n] - 1
    BY <1>1, <2>2
  <2>. QED BY <2>1, <2>2, <2>3
<1>4. /\ reservations \in [Network -> [Name -> IP]]
      /\ \A n \in Network : reservations[n] \in [Name -> 0..Broadcast[n] - 1]
  <2>1. reservations = [n \in Network |-> [m \in Name |-> reservations[n][m]]]
    BY <1>1
  <2>. QED BY <1>3, <2>1
<1>5. /\ \A a \in Fixed, n \in Network : reservations[n][a] = InstalledIp[n][a]
      /\ \A n \in Network : reservations[n][Vip] = InstalledVip[n]
      /\ \A x \in Xname : reservations["HMN"][x] =
                             IF slsNode[x] = None THEN Unset ELSE InstalledBmcIp[slsNode[x]]
  <2>1. /\ \A a \in Fixed : a \in Name
        /\ Vip \in Name /\ Vip \notin Fixed /\ "HMN" \in Network
        /\ \A x \in Xname : x \in Name /\ x \notin Fixed /\ x # Vip
    OBVIOUS
  <2>. QED BY <1>3, <2>1
<1>6. ASSUME NEW n \in Network  PROVE Distinct(reservations[n])
  <2>. SUFFICES ASSUME NEW l \in Name, NEW m \in Name, l # m, reservations[n][l] # Unset,
                       reservations[n][l] = reservations[n][m]
                PROVE  FALSE
    BY <1>3 DEF Distinct
  <2>1. ASSUME NEW j \in Name, reservations[n][j] # Unset
        PROVE  \/ j \in Fixed /\ reservations[n][j] = InstalledIp[n][j]
               \/ j = Vip /\ reservations[n][j] = InstalledVip[n]
               \/ /\ n = "HMN" /\ j \in Xname /\ slsNode[j] \in Fixed /\ j = InstalledAt[slsNode[j]]
                  /\ reservations[n][j] = InstalledBmcIp[slsNode[j]]
    BY <1>3, <2>1
  <2>2. \/ l \in Fixed /\ reservations[n][l] = InstalledIp[n][l]
        \/ l = Vip /\ reservations[n][l] = InstalledVip[n]
        \/ /\ n = "HMN" /\ l \in Xname /\ slsNode[l] \in Fixed /\ l = InstalledAt[slsNode[l]]
           /\ reservations[n][l] = InstalledBmcIp[slsNode[l]]
    BY <2>1
  <2>3. \/ m \in Fixed /\ reservations[n][m] = InstalledIp[n][m]
        \/ m = Vip /\ reservations[n][m] = InstalledVip[n]
        \/ /\ n = "HMN" /\ m \in Xname /\ slsNode[m] \in Fixed /\ m = InstalledAt[slsNode[m]]
           /\ reservations[n][m] = InstalledBmcIp[slsNode[m]]
    BY <2>1
  <2>. QED BY <1>2, <2>2, <2>3
<1>7. \A n \in Network : InstalledVip[n] \notin FixedIps(n)
  BY <1>2 DEF FixedIps
<1>. QED BY <1>4, <1>5, <1>6, <1>7

LEMMA InstalledRecords ==
    ASSUME Init
    PROVE  /\ \A r \in hostRecords :
                 \/ \E a \in Fixed, n \in Network : r = [who |-> a, for |-> n, ip |-> InstalledIp[n][a]]
                 \/ \E a \in Fixed : r = [who |-> a, for |-> "mgmt", ip |-> InstalledBmcIp[a]]
                 \/ \E n \in Network : /\ r = [who |-> Vip, for |-> n, ip |-> InstalledVip[n]]
                                       /\ InstalledVip[n] # Unset
           /\ \A a \in Fixed : /\ \A n \in Network : [who |-> a, for |-> n, ip |-> InstalledIp[n][a]] \in hostRecords
                               /\ [who |-> a, for |-> "mgmt", ip |-> InstalledBmcIp[a]] \in hostRecords
           /\ hostRecords \subseteq HostRecord
<1>. DEFINE ofNodes == {[who |-> a, for |-> n, ip |-> InstalledIp[n][a]] : a \in Fixed, n \in Network}
            ofBmcs == {[who |-> a, for |-> "mgmt", ip |-> InstalledBmcIp[a]] : a \in Fixed}
            ofVips == {[who |-> Vip, for |-> n, ip |-> InstalledVip[n]] :
                          n \in {m \in Network : InstalledVip[m] # Unset}}
<1>1. hostRecords = ofNodes \cup ofBmcs \cup ofVips
  BY DEF Init
<1>2. ofNodes \subseteq HostRecord /\ ofBmcs \subseteq HostRecord /\ ofVips \subseteq HostRecord
  <2>1. \A a \in Fixed, n \in Network : [who |-> a, for |-> n, ip |-> InstalledIp[n][a]] \in HostRecord
    BY InstalledSlots, InstalledFacts DEF HostRecord
  <2>2. \A a \in Fixed : [who |-> a, for |-> "mgmt", ip |-> InstalledBmcIp[a]] \in HostRecord
    BY InstalledSlots, InstalledFacts DEF HostRecord
  <2>3. \A n \in Network : [who |-> Vip, for |-> n, ip |-> InstalledVip[n]] \in HostRecord
    BY InstalledSlots, InstalledFacts DEF HostRecord
  <2>. QED BY <2>1, <2>2, <2>3
<1>3. \A a \in Fixed, n \in Network : [who |-> a, for |-> n, ip |-> InstalledIp[n][a]] \in ofNodes
  OBVIOUS
<1>4. \A a \in Fixed : [who |-> a, for |-> "mgmt", ip |-> InstalledBmcIp[a]] \in ofBmcs
  OBVIOUS
<1>5. \A r \in ofNodes : \E a \in Fixed, n \in Network : r = [who |-> a, for |-> n, ip |-> InstalledIp[n][a]]
  OBVIOUS
<1>6. \A r \in ofBmcs : \E a \in Fixed : r = [who |-> a, for |-> "mgmt", ip |-> InstalledBmcIp[a]]
  OBVIOUS
<1>7. \A r \in ofVips : \E n \in Network : /\ r = [who |-> Vip, for |-> n, ip |-> InstalledVip[n]]
                                           /\ InstalledVip[n] # Unset
  OBVIOUS
<1>. HIDE DEF ofNodes, ofBmcs, ofVips
<1>8. \A r \in hostRecords : r \in ofNodes \/ r \in ofBmcs \/ r \in ofVips
  BY <1>1
<1>9. ofNodes \subseteq hostRecords /\ ofBmcs \subseteq hostRecords
  BY <1>1
<1>10. hostRecords \subseteq HostRecord
  BY <1>1, <1>2
<1>. QED BY <1>3, <1>4, <1>5, <1>6, <1>7, <1>8, <1>9, <1>10, Zenon

LEMMA InitTypes == Init => Types
<1>. SUFFICES ASSUME Init  PROVE Types
  OBVIOUS
<1>1. /\ LastIp \in Nat /\ IP = 0..LastIp /\ MaxRuns \in Nat
      /\ \A n \in Network : Broadcast[n] \in Nat \ {0} /\ Broadcast[n] <= LastIp
      /\ Network = {"NMN", "HMN"} /\ Fixed \subseteq Alias /\ site \in Sites
      /\ InstalledNid \in [Fixed -> Nid]
      /\ slsNode \in [Xname -> Fixed \cup {None}]
  BY SiteFacts, InstalledSlots, InstalledFacts, ManageNcnAssumption
<1>2. SlsTypes
  <2>1. slsNid \in [Xname -> Nid \cup {Unset}]
    BY <1>1, InstalledSlots
  <2>2. connector \subseteq Xname
    BY DEF Init
  <2>. QED BY <1>1, <2>1, <2>2, InstalledReservations DEF SlsTypes
<1>3. BssTypes
  <2>1. \A a \in Fixed : [n \in Network |-> InstalledIp[n][a]] \in [Network -> IP]
    BY InstalledSlots
  <2>2. Unset \in IP /\ [n \in Network |-> Unset] \in [Network -> IP]
    BY <1>1 DEF Unset
  <2>3. ASSUME NEW x \in Xname  PROVE bootparams[x] \in BootParams
    <3>1. bootparams[x] = IF slsNode[x] = None THEN NoBootParams
                ELSE [alias |-> slsNode[x], ips |-> [n \in Network |-> InstalledIp[n][slsNode[x]]]]
      BY InstalledSlots
    <3>. QED BY <1>1, <2>1, <2>2, <3>1 DEF BootParams, NoBootParams
  <2>4. bootparams \in [Xname -> BootParams]
    BY <2>3, InstalledSlots
  <2>. QED BY <2>4, InstalledRecords DEF BssTypes
<1>4. HsmTypes
  <2>1. \A n \in Network, a \in Fixed : <<n, InstalledIp[n][a]>> \in Address
    BY InstalledSlots DEF Address
  <2>2. \A a \in Fixed : <<"HMN", InstalledBmcIp[a]>> \in Address
    BY <1>1, InstalledSlots DEF Address
  <2>3. nodeEi \in [Xname -> SUBSET Address]
    BY <2>1 DEF Init
  <2>4. bmcEi \in [Xname -> SUBSET Address]
    BY <2>2 DEF Init
  <2>5. staleEi = {} /\ hsmNid = slsNid /\ bmcComp \subseteq Xname /\ redfish \subseteq Xname
    BY DEF Init
  <2>. QED BY <1>2, <2>3, <2>4, <2>5 DEF HsmTypes, SlsTypes
<1>5. ArgTypes
  <2>1. 1 \in 1..Len(Keys) /\ 0 \in 0..MaxRuns
    BY <1>1, KeyFacts
  <2>. QED BY <2>1 DEF Init, ArgTypes, ScriptStep
<1>6. PlanTypes
  <2>1. Unset \in IP /\ \A n \in Network : Unset \in 0..Broadcast[n] - 1 /\ Unset < Broadcast[n]
    BY <1>1 DEF Unset
  <2>2. NoReservations \in [Network -> [Name -> IP]] /\ NoIps \in [Key -> IP]
        /\ \A n \in Network : NoReservations[n] \in [Name -> 0..Broadcast[n] - 1]
    BY <2>1 DEF NoReservations, NoIps
  <2>3. \A k \in Key : NoIps[k] < Broadcast[NetworkOf(k)]
    BY <2>1, Sorts DEF NoIps
  <2>. QED BY <1>1, <2>1, <2>2, <2>3 DEF Init, PlanTypes, InData
<1>. QED BY <1>1, <1>2, <1>3, <1>4, <1>5, <1>6, TypesParts

\* Nothing runs at first, so that the parts about the running script hold.
LEMMA InitInv == Init => IInv
<1>. SUFFICES ASSUME Init  PROVE IInv
  OBVIOUS
<1>. USE InstalledSlots, InstalledReservations, InstalledFacts
<1>1. /\ pc = "idle" /\ nets = NoReservations /\ ~Adding /\ ~HasNoNode /\ ~HasNode /\ ~InData /\ ~Removing
      /\ RmRank = 0
  BY DEF Init, Adding, HasNoNode, HasNode, InData, Removing, RmRank
<1>2. SlotsFollowScript
  BY <1>1 DEF SlotsFollowScript
<1>3. CopiesAreCurrent
  BY <1>1 DEF CopiesAreCurrent
<1>4. IpsDistinct
  <2>1. \A n \in Network : Distinct(nets[n])
    BY <1>1 DEF NoReservations, Distinct, Unset, Gateway
  <2>. QED BY <1>1, <2>1 DEF IpsDistinct, PlanFits
<1>5. NidsUnique /\ NidIsNew
  <2>1. /\ InstalledNid \in [Fixed -> Nid] /\ Unset \notin Nid
        /\ \A a, b \in Fixed : a # b => InstalledNid[a] # InstalledNid[b]
    BY ManageNcnAssumption, Sorts
  <2>2. hsmNid = slsNid
    BY DEF Init
  <2>3. ASSUME NEW x \in Xname, NEW y \in Xname, x # y, slsNid[x] # Unset  PROVE slsNid[x] # slsNid[y]
    BY <2>1, <2>3
  <2>. QED BY <1>1, <2>2, <2>3 DEF NidsUnique, NidIsNew
<1>6. FixedInv
  <2>1. FixedIpsKept
    <3>1. \A a \in Fixed : reservations["HMN"][InstalledAt[a]] = InstalledBmcIp[a] /\ InstalledAt[a] \in Name
                           /\ InstalledBmcIp[a] # Unset
      BY Sorts
    <3>. QED BY <3>1 DEF FixedIpsKept, Reserved
  <2>2. FixedRecordsKept
    <3>1. /\ \A a \in Fixed, n \in Network : LET r == [who |-> a, for |-> n, ip |-> InstalledIp[n][a]]
                                              IN  r.who = a /\ r.for = n /\ r.ip = InstalledIp[n][a] /\ n # "mgmt"
          /\ \A a \in Fixed : LET r == [who |-> a, for |-> "mgmt", ip |-> InstalledBmcIp[a]]
                              IN  r.who = a /\ r.for = "mgmt" /\ r.ip = InstalledBmcIp[a]
          /\ \A n \in Network : LET r == [who |-> Vip, for |-> n, ip |-> InstalledVip[n]]
                                IN  r.who \notin Fixed /\ RecordNetwork(r) = n /\ r.ip = InstalledVip[n]
      BY Sorts DEF RecordNetwork
    <3>2. ASSUME NEW r \in hostRecords
          PROVE  IF r.who \in Fixed
                 THEN r.ip = IF r.for = "mgmt" THEN InstalledBmcIp[r.who] ELSE InstalledIp[r.for][r.who]
                 ELSE r.ip \notin FixedIps(RecordNetwork(r))
      BY <3>1, InstalledRecords
    <3>. QED BY <3>2, InstalledRecords DEF FixedRecordsKept
  <2>3. FixedBmcsKept
    <3>1. \A a \in Fixed : InstalledAt[a] \in Xname /\ reservations["HMN"][InstalledAt[a]] = InstalledBmcIp[a]
      OBVIOUS
    <3>2. \A x \in Xname : slsNode[x] \in Fixed \cup {None}
      OBVIOUS
    <3>3. pc = "idle"
      BY <1>1
    <3>. QED BY <1>1, <3>1, <3>2, <3>3, Zenon DEF FixedBmcsKept
  <2>4. PlanKeepsFixed
    BY <1>1 DEF PlanKeepsFixed
  <2>. QED BY <2>1, <2>2, <2>3, <2>4 DEF FixedInv
<1>7. ASSUME NEW r \in hostRecords
      PROVE  /\ r.ip # Unset
             /\ \/ /\ r.for \in Network /\ RecordNetwork(r) = r.for /\ NamesOf(r) = {r.who}
                   /\ r.who \in Fixed \cup {Vip} /\ reservations[r.for][r.who] = r.ip
                \/ /\ r.for = "mgmt" /\ RecordNetwork(r) = "HMN" /\ NamesOf(r) = Xname
                   /\ r.who \in Fixed /\ reservations["HMN"][InstalledAt[r.who]] = r.ip
  <2>1. ASSUME NEW a \in Fixed, NEW n \in Network, r = [who |-> a, for |-> n, ip |-> InstalledIp[n][a]]
        PROVE  /\ r.ip # Unset /\ r.for \in Network /\ RecordNetwork(r) = r.for /\ NamesOf(r) = {r.who}
               /\ r.who \in Fixed \cup {Vip} /\ reservations[r.for][r.who] = r.ip
    BY <2>1 DEF RecordNetwork, NamesOf
  <2>2. ASSUME NEW a \in Fixed, r = [who |-> a, for |-> "mgmt", ip |-> InstalledBmcIp[a]]
        PROVE  /\ r.ip # Unset /\ r.for = "mgmt" /\ RecordNetwork(r) = "HMN" /\ NamesOf(r) = Xname
               /\ r.who \in Fixed /\ reservations["HMN"][InstalledAt[r.who]] = r.ip
    BY <2>2 DEF RecordNetwork, NamesOf
  <2>3. ASSUME NEW n \in Network, r = [who |-> Vip, for |-> n, ip |-> InstalledVip[n]], InstalledVip[n] # Unset
        PROVE  /\ r.ip # Unset /\ r.for \in Network /\ RecordNetwork(r) = r.for /\ NamesOf(r) = {r.who}
               /\ r.who \in Fixed \cup {Vip} /\ reservations[r.for][r.who] = r.ip
    BY <2>3 DEF RecordNetwork, NamesOf
  <2>. QED BY <2>1, <2>2, <2>3, InstalledRecords
<1>8. HostRecordsAreReserved
  BY <1>7 DEF HostRecordsAreReserved
<1>9. \A x \in Xname : CanBoot(x) =>
         /\ slsNode[x] = bootparams[x].alias /\ slsNode[x] \in Fixed
         /\ \A n \in Network : bootparams[x].ips[n] = InstalledIp[n][slsNode[x]]
  BY DEF CanBoot, NoBootParams
<1>10. BootsWithReservedIps /\ BootsAreInSls
  BY <1>9 DEF BootsWithReservedIps, BootsAreInSls
<1>11. RecordsAreSound
  <2>1. ASSUME NEW r \in hostRecords, NEW q \in hostRecords
        PROVE  /\ r.who = q.who /\ r.for = q.for => r.ip = q.ip
               /\ RecordNetwork(r) = RecordNetwork(q) /\ r.ip = q.ip => r.who = q.who /\ r.for = q.for
    <3>. DEFINE m(h) == IF h.for = "mgmt" THEN InstalledAt[h.who] ELSE h.who
    <3>1. /\ RecordNetwork(r) \in Network /\ m(r) \in Name /\ reservations[RecordNetwork(r)][m(r)] = r.ip
          /\ RecordNetwork(q) \in Network /\ m(q) \in Name /\ reservations[RecordNetwork(q)][m(q)] = q.ip
      BY <1>7, Sorts
    <3>2. r.who = q.who /\ r.for = q.for => r.ip = q.ip
      BY <3>1 DEF RecordNetwork
    <3>3. RecordNetwork(r) = RecordNetwork(q) /\ r.ip = q.ip => m(r) = m(q)
      <4>. HIDE DEF m
      <4>. QED BY <1>7, <3>1 DEF Distinct
    <3>4. RecordNetwork(r) = RecordNetwork(q) /\ m(r) = m(q) => r.who = q.who /\ r.for = q.for
      BY <1>7, Sorts
    <3>. QED BY <3>2, <3>3, <3>4
  <2>2. \A r, q \in HostRecord : r.who = q.who /\ r.for = q.for /\ r.ip = q.ip => r = q
    BY DEF HostRecord
  <2>3. ASSUME NEW r \in hostRecords, r.for = "mgmt", NEW n \in Network
        PROVE  r.who # Vip /\ \E q \in hostRecords : q.who = r.who /\ q.for = n
    <3>1. r.who \in Fixed
      BY <1>7, <2>3
    <3>2. [who |-> r.who, for |-> n, ip |-> InstalledIp[n][r.who]] \in hostRecords
      BY <3>1, InstalledRecords
    <3>3. \E q \in hostRecords : q.who = r.who /\ q.for = n
      BY <3>2
    <3>. QED BY <3>1, <3>3, Sorts
  <2>4. HostRecordIpsUnique /\ \A r, q \in hostRecords : r.who = q.who /\ r.for = q.for => r = q
    BY <2>1, <2>2, InstalledRecords DEF HostRecordIpsUnique
  <2>. QED BY <1>7, <2>3, <2>4 DEF RecordsAreSound
<1>12. SlotsOwnIps
  <2>1. ASSUME NEW r \in hostRecords, r.for = "mgmt", NEW x \in Xname, slsNode[x] # None,
               reservations["HMN"][x] = r.ip
        PROVE  r.who = slsNode[x]
    <3>1. r.who \in Fixed /\ reservations["HMN"][InstalledAt[r.who]] = r.ip /\ r.ip # Unset
      BY <1>7, <2>1
    <3>2. x \in Name /\ InstalledAt[r.who] \in Name
      BY <3>1, Sorts
    <3>3. x = InstalledAt[r.who]
      BY <2>1, <3>1, <3>2 DEF Distinct
    <3>. QED BY <3>1, <3>3
  <2>. QED BY <1>1, <2>1 DEF SlotsOwnIps
<1>13. PlanKeepsRecords /\ PlanIsNew /\ Written /\ RemovedSoFar
  BY <1>1 DEF PlanKeepsRecords, PlanIsNew, Written, RemovedSoFar
<1>. QED
  BY <1>2, <1>3, <1>4, <1>5, <1>6, <1>8, <1>10, <1>11, <1>12, <1>13, InitTypes DEF IInv, ServicesAgree

-----------------------------------------------------------------------------
(* The invariant, and what follows from it.                                *)

LEMMA SameTypes == Types /\ UNCHANGED vars => Types'
<1>. SUFFICES ASSUME Types, UNCHANGED vars  PROVE Types'
  OBVIOUS
<1>1. UNCHANGED <<site, slsVars, bssVars, hsmVars, pc, argVars, planVars, put, runs>>
  BY DEF vars
<1>2. SlsTypes' /\ BssTypes' /\ HsmTypes'
  BY <1>1, SameServicesTypes
<1>3. ArgTypes'
  BY <1>1, Typed DEF ArgTypes, argVars, MaxRuns
<1>4. PlanTypes'
  BY <1>1, Typed DEF PlanTypes, planVars, Broadcast, InData
<1>5. (site \in Sites)'
  BY <1>1, Typed
<1>. QED BY <1>2, <1>3, <1>4, <1>5 DEF Types, TypeOK, SlsTypes, BssTypes, HsmTypes, ArgTypes, PlanTypes

LEMMA InvStep == IInv /\ [Next]_vars => IInv'
<1>. SUFFICES ASSUME IInv, [Next]_vars  PROVE IInv'
  OBVIOUS
<1>1. Types'
  <2>1. CASE Next
    BY <2>1, TypesStep DEF IInv
  <2>2. CASE UNCHANGED vars
    BY <2>2, SameTypes DEF IInv
  <2>. QED BY <2>1, <2>2
<1>2. SlotsFollowScript'
  BY SlotsStep DEF IInv
<1>3. CopiesAreCurrent'
  BY CopiesStep DEF IInv
<1>4. IpsDistinct'
  BY <1>1, IpsStep DEF IInv
<1>5. NidsUnique' /\ NidIsNew'
  BY NidsStep DEF IInv
<1>6. FixedInv'
  BY <1>1, FixedRecordsStep, FixedBmcsStep, PlanKeepsFixedStep DEF IInv, FixedInv
<1>7. ServicesAgree'
  <2>1. Fails' = Fails
    BY Steps DEF Fails, Faults
  <2>2. ASSUME ~Fails
        PROVE  /\ HostRecordsAreReserved' /\ BootsWithReservedIps'
               /\ RecordsAreSound' /\ SlotsOwnIps' /\ BootsAreInSls'
               /\ PlanKeepsRecords' /\ PlanIsNew' /\ Written' /\ RemovedSoFar'
    BY <2>2, RecordsStep, BootsStep, SlotsOwnIpsStep, PlanStep, WrittenStep, RemovedSoFarStep
  <2>. QED BY <2>1, <2>2 DEF ServicesAgree
<1>. QED BY <1>1, <1>2, <1>3, <1>4, <1>5, <1>6, <1>7 DEF IInv

LEMMA Invariant == Spec => []IInv
BY InitInv, InvStep, PTL DEF Spec

\* What the four services hold, and the copies and the plan of the script, have
\* their types in every state.
THEOREM TypeCorrect == Spec => []TypeOK
<1>1. IInv => TypeOK
  BY DEF IInv, Types
<1>. QED BY <1>1, Invariant, PTL

\* No two names ever share an IP of a network and none gets the gateway's, although
\* the script looks for free IPs in a copy of SLS, reserves them one PUT at a time
\* and may stop between two of them.
THEOREM ReservationsAreUnique == Spec => []ReservationsUnique
<1>1. IInv => ReservationsUnique
  BY DEF IInv, IpsDistinct, Distinct, ReservationsUnique
<1>. QED BY <1>1, Invariant, PTL

\* SLS and HSM never know two nodes with one NID, although ncn-data chooses it long
\* before it writes it, and hms-discovery writes HSM meanwhile.
THEOREM NidsAreUnique == Spec => []NidsUnique
<1>1. IInv => NidsUnique
  BY DEF IInv
<1>. QED BY <1>1, Invariant, PTL

\* The first NCNs keep their IPs, whatever is added or removed and wherever a script
\* stops, also when requests of a removal fail.
THEOREM FirstNcnsKeepTheirIps == Spec => []FixedIpsKept
<1>1. IInv => FixedIpsKept
  BY DEF IInv, FixedInv
<1>. QED BY <1>1, Invariant, PTL

\* The order of the writes, SLS before BSS when an NCN is added and BSS before SLS
\* when one is removed, keeps every host record of BSS reserved in SLS.
THEOREM HostRecordsStayReserved == Spec => []HostRecordsAreReserved
<1>1. IInv => HostRecordsAreReserved
  BY DEF IInv, ServicesAgree, HostRecordsAreReserved
<1>. QED BY <1>1, Invariant, PTL

\* What can boot does it with IPs that SLS reserves for it.
THEOREM BootsStayReserved == Spec => []BootsWithReservedIps
<1>1. IInv => BootsWithReservedIps
  BY DEF IInv, ServicesAgree, BootsWithReservedIps
<1>. QED BY <1>1, Invariant, PTL

\* A removal that ends with its report, and without a failed request, has left the
\* NCN in none of the services.
THEOREM RemovalsAreComplete == Spec => []ReportedMeansRemoved
<1>1. IInv => ReportedMeansRemoved
  <2>. SUFFICES ASSUME IInv, pc = "rm_report", ~Fails
                PROVE  /\ slsNode[xname] = None /\ xname \notin connector
                       /\ ~CanBoot(xname)
                       /\ nodeEi[xname] = {} /\ bmcEi[xname] = {} /\ hsmNid[xname] = Unset
                       /\ xname \notin bmcComp /\ xname \notin redfish
                       /\ alias \notin Fixed =>
                             /\ \A n \in Network : reservations[n][alias] = Unset /\ reservations[n][xname] = Unset
                             /\ \A r \in hostRecords : r.who # alias
    BY DEF ReportedMeansRemoved
  <2>1. RmRank = 10
    BY DEF RmRank
  <2>2. RemovedSoFar /\ xname \in Xname
    BY Agreed DEF ArgTypes
  <2>. QED BY <2>1, <2>2 DEF RemovedSoFar
<1>. QED BY <1>1, Invariant, PTL

\* Without failing requests no two host records ever give one IP: it takes a removal
\* that passes over a failed request to make BSS give out an IP twice.
THEOREM HostRecordIpsStayUnique == Spec => [](~Fails => HostRecordIpsUnique)
<1>1. IInv => (~Fails => HostRecordIpsUnique)
  BY DEF IInv, ServicesAgree, RecordsAreSound
<1>. QED BY <1>1, Invariant, PTL

=============================================================================
