------------------------------- MODULE UanIps -------------------------------
(***************************************************************************)
(* allocate_uan_ip.py: gives a user access node (UAN) an address of the    *)
(* CAN and of the CHN, or takes them away.  The networks are read from SLS *)
(* once and written back one by one, with a PUT of the whole network.      *)
(*                                                                         *)
(* A run can fail or be interrupted between any two requests and is then   *)
(* repeated.  Nodes have the role and an alias; the alias may move to      *)
(* another node when the hardware changes.  At any moment, also during a   *)
(* run, DHCP may give out an address, and the HSM sees the interface.      *)
(***************************************************************************)
EXTENDS CanToChn

CONSTANTS
    UanNode,        \* xnames of UANs
    UanAliases,     \* possible aliases of them: functions from UanNode to names
    MaxUanRuns,     \* bound on the runs
    MaxInterfaces   \* bound on the interfaces that HSM sees

ASSUME UanNodeAssumption == "" \notin UanNode

VARIABLES
    uanAlias,     \* the aliases of the nodes in the hardware of SLS
    uanHsm,       \* interfaces in HSM that have an address
    uanPc,        \* what the run does next, or how it ended
    uanCall,      \* the command and the node of the run
    uanCopy,      \* networks as the run holds them
    uanTodo,      \* networks with their address that are still to be checked, or written
    uanRuns,      \* runs started
    uanLate       \* history: interfaces that got a run's address after it had looked for them

uanVars == <<uanAlias, uanHsm, uanPc, uanCall, uanCopy, uanTodo, uanRuns, uanLate>>

UanNets == <<"CAN", "CHN">>
NoCall == [command |-> "none", node |-> "none"]
Ended == {"idle", "ok", "failed"}

\* The reservations of a UAN have its xname as a comment.
UanReservation(x, ip) == [key |-> uanAlias[x], name |-> uanAlias[x], ip |-> ip, comment |-> x]
Comment(r) == IF "comment" \in DOMAIN r THEN r.comment ELSE ""
SameAlias(r, x) == r.name = uanAlias[x]
SameXname(r, x) == Comment(r) = x
IsHis(r, x) == SameAlias(r, x) /\ SameXname(r, x)

UanInit ==
    /\ uanAlias \in UanAliases
    /\ uanHsm = {} /\ uanPc = "idle" /\ uanCall = NoCall
    /\ uanCopy = NoFile /\ uanTodo = <<>> /\ uanRuns = 0 /\ uanLate = {}

BootstrapOf(net) == Get(net.subnets, Bootstrap)
UanEnds(how) == /\ uanPc' = how
                /\ uanCopy' = NoFile /\ uanTodo' = <<>>
                /\ UNCHANGED <<uanAlias, uanCall, uanRuns>>
UanStarts(command, x) ==
    /\ uanPc \in Ended /\ uanRuns < MaxUanRuns
    /\ uanRuns' = uanRuns + 1
    /\ uanCall' = [command |-> command, node |-> x]
    /\ UNCHANGED <<uanAlias, uanHsm, uanLate, chnSls>>

-----------------------------------------------------------------------------
(* allocate-uan-ip.                                                        *)

\* allocate_ip_address_in_subnet(): the address after the highest one in use, if
\* it is one of the subnet's; it must be below the DHCP range.  The start of the
\* range moves up by one address to make room.
next_ip(s) == Max(Ips(s) \cup {s.gateway}) + 1
Exhausted(net, s) == next_ip(s) \notin hosts(is_supernet_hacked(net.cidr, s))
InDhcpRange(s) == s.dhcp # NoRange /\ s.dhcp[1] <= next_ip(s)
Expanded(s) == [s EXCEPT !.dhcp[1] = @ + 1]
Expandable(s) == s.cidr.base + 2 <= s.dhcp[1] + 1 /\ s.dhcp[1] + 1 <= s.cidr.base + Size(s.cidr) - 3

\* The subnet that has room for the node's address, if there is one.
RoomMade(net) ==
    LET s == BootstrapOf(net)
    IN  {t \in (IF ~InDhcpRange(s) THEN {s} ELSE IF Expandable(s) THEN {Expanded(s)} ELSE {}) :
            ~InDhcpRange(t) /\ ~Exhausted(net, t)}
\* No subnet of the network knows the alias or the xname.  (The addresses are
\* compared too, but as objects of two libraries, which are never equal.)
IsNew(net, x) ==
    \A s \in SubnetsOf(net) : \A r \in ToSet(s.reservations) : ~SameAlias(r, x) /\ ~SameXname(r, x)

\* Networks without the node; one that has it is skipped.
\* Mutant: the first network that has it ends the run.
NeedsAllocationFirstOnly(nets, x) ==
    IF \E n \in ToSet(UanNets) : nets[n] # NoNetwork /\ \E r \in ToSet(BootstrapOf(nets[n]).reservations) : IsHis(r, x)
    THEN <<>> ELSE Those(UanNets, {n \in ToSet(UanNets) : nets[n] # NoNetwork})
NeedsAllocation(nets, x) ==
    Those(UanNets, {n \in ToSet(UanNets) : nets[n] # NoNetwork
                        /\ \A r \in ToSet(BootstrapOf(nets[n]).reservations) : ~IsHis(r, x)})

AllocateUanIp(x) ==
    /\ UanStarts("allocate", x)
    /\ LET nets == [n \in SlsNetwork |-> network_from_sls_data(chnSls[n])]
           need == NeedsAllocation(nets, x)
           fits == \A n \in ToSet(need) : RoomMade(nets[n]) # {} /\ IsNew(nets[n], x)
           room == [n \in ToSet(need) |-> CHOOSE s \in RoomMade(nets[n]) : TRUE]
       IN  IF ~fits \/ need = <<>>
           THEN /\ uanPc' = IF fits THEN "ok" ELSE "failed"
                /\ uanCopy' = NoFile /\ uanTodo' = <<>>
           ELSE /\ uanCopy' = [n \in SlsNetwork |->
                                  IF n \in DOMAIN room THEN [nets[n] EXCEPT !.subnets = Put(@, room[n])] ELSE nets[n]]
                /\ uanTodo' = [i \in DOMAIN need |-> [net |-> need[i], ip |-> next_ip(room[need[i]])]]
                /\ uanPc' = "hsm 1"

\* The addresses are looked up in HSM one after the other: interfaces that are no
\* component's are deleted, any other ends the run.  Deleting may fail.
Looked == IF uanPc = "hsm 1" THEN uanTodo[1] ELSE uanTodo[2]
InTheWay == {e \in uanHsm : e.ip = Looked.ip}
CheckHsm ==
    /\ uanPc \in {"hsm 1", "hsm 2"}
    /\ \/ /\ InTheWay = {}
          /\ uanPc' = IF uanPc = "hsm 1" /\ Len(uanTodo) = 2 THEN "hsm 2" ELSE "put"
          /\ UNCHANGED <<uanAlias, uanHsm, uanCall, uanCopy, uanTodo, uanRuns>>
       \/ /\ \E e \in InTheWay : e.component = "" /\ uanHsm' = uanHsm \ {e}
          /\ UNCHANGED <<uanAlias, uanPc, uanCall, uanCopy, uanTodo, uanRuns>>
       \/ InTheWay # {} /\ UanEnds("failed") /\ UNCHANGED uanHsm
    /\ uanLate' = uanLate \ InTheWay
    /\ UNCHANGED chnSls

-----------------------------------------------------------------------------
(* deallocate-uan-ip.                                                      *)

DeallocateUanIp(x) ==
    /\ UanStarts("deallocate", x)
    /\ LET nets  == [n \in SlsNetwork |-> network_from_sls_data(chnSls[n])]
           of(n) == IF nets[n] = NoNetwork THEN {} ELSE ToSet(BootstrapOf(nets[n]).reservations)
           his   == Those(UanNets, {n \in ToSet(UanNets) : \E r \in of(n) : IsHis(r, x)})
           mixed == \E n \in ToSet(UanNets) : \E r \in of(n) :
                        (SameAlias(r, x) \/ SameXname(r, x)) /\ ~IsHis(r, x)
       IN  IF mixed \/ his = <<>>
           THEN /\ uanPc' = IF mixed THEN "failed" ELSE "ok"
                /\ uanCopy' = NoFile /\ uanTodo' = <<>>
           ELSE /\ uanCopy' = nets
                /\ uanTodo' = [i \in DOMAIN his |-> [net |-> his[i], ip |-> Nil]]
                /\ uanPc' = "put"

-----------------------------------------------------------------------------
(* Both commands end with the PUTs; a failed one ends the run.             *)

WithNode(net, x, ip) ==
    OnSubnet(net, Bootstrap, LAMBDA s :
        [s EXCEPT !.reservations = IF uanCall.command = "deallocate" THEN Without(@, {uanAlias[x]})
                                ELSE Put(@, UanReservation(x, ip))])
PutNetwork ==
    /\ uanPc = "put"
    /\ LET todo == Head(uanTodo)
           net  == WithNode(uanCopy[todo.net], uanCall.node, todo.ip)
       IN  chnSls' = [chnSls EXCEPT ![todo.net] = OnSubnets(net, SubnetToSls)]
    /\ IF Len(uanTodo) = 1 THEN UanEnds("ok")
       ELSE uanTodo' = Tail(uanTodo) /\ UNCHANGED <<uanAlias, uanPc, uanCall, uanCopy, uanRuns>>
    /\ UNCHANGED <<uanHsm, uanLate>>
\* An interruption, or a request that fails.
UanFails == uanPc \notin Ended /\ UanEnds("failed") /\ UNCHANGED <<uanHsm, uanLate, chnSls>>

\* At any moment DHCP gives the first address of its range to an interface, that
\* HSM knows a component of or not.  It comes too late for a run that has looked
\* for this address in HSM already and has not yet reserved it.
LookedFor == {uanTodo[i].ip : i \in CASE uanPc = "put" -> DOMAIN uanTodo
                                      [] uanPc = "hsm 2" -> {1}
                                      [] OTHER -> {}}
InterfaceSeen ==
    /\ Cardinality(uanHsm) < MaxInterfaces
    /\ \E n \in {m \in ToSet(UanNets) : chnSls[m] # NoNetwork}, c \in {"", "other"} :
        LET s == BootstrapOf(chnSls[n])
            e == [ip |-> s.dhcp[1], component |-> c]
        IN  /\ s.dhcp # NoRange /\ s.dhcp[1] <= s.dhcp[2]
            /\ uanHsm' = uanHsm \cup {e}
            /\ uanLate' = IF e.ip \in LookedFor THEN uanLate \cup {e} ELSE uanLate
    /\ UNCHANGED <<uanAlias, uanPc, uanCall, uanCopy, uanTodo, uanRuns, chnSls>>
\* The aliases move to other nodes.
HardwareChanges ==
    /\ uanPc \in Ended /\ uanRuns > 0
    /\ uanAlias' \in UanAliases /\ uanAlias' # uanAlias
    /\ UNCHANGED <<uanHsm, uanPc, uanCopy, uanTodo, uanRuns, uanLate, chnSls>>
    /\ uanCall' = NoCall

UanNext == \/ \E x \in UanNode : AllocateUanIp(x) \/ DeallocateUanIp(x)
           \/ CheckHsm \/ PutNetwork \/ UanFails \/ InterfaceSeen \/ HardwareChanges

-----------------------------------------------------------------------------
(* Properties.                                                             *)

UanTypeOK ==
    /\ uanAlias \in UanAliases /\ uanRuns \in 0..MaxUanRuns
    /\ uanPc \in Ended \cup {"hsm 1", "hsm 2", "put"}
    /\ uanPc = "hsm 2" => Len(uanTodo) = 2
    /\ uanPc \notin Ended => uanTodo # <<>> /\ uanCall.node \in UanNode
    /\ \A t \in ToSet(uanTodo) : t.net \in ToSet(UanNets) /\ uanCopy[t.net] # NoNetwork

\* The address of a UAN is nobody else's: of no other reservation, of no interface
\* that DHCP gave it to, nor one that MetalLB or DHCP may give out -- as long as
\* the DHCP range that makes room for the UANs is not used up.  Nothing keeps DHCP
\* from giving it out between the run's look at HSM and its PUT; such an interface
\* (uanLate) is excepted, and no other one.
UanReservations(n) == {r \in ToSet(BootstrapOf(chnSls[n]).reservations) : Comment(r) # ""}
UanAddressesOwn ==
    \A n \in {m \in ToSet(UanNets) : chnSls[m] # NoNetwork} :
        LET s == BootstrapOf(chnSls[n])
        IN  \A r \in UanReservations(n) :
                /\ \A e \in uanHsm \ uanLate : e.component # "" => e.ip # r.ip
                /\ \A q \in UNION {ToSet(t.reservations) : t \in SubnetsOf(chnSls[n])} :
                      q # r => q.ip # r.ip
                /\ s.dhcp # NoRange /\ s.dhcp[1] <= s.dhcp[2] =>
                      r.ip < s.dhcp[1] /\ \A t \in SubnetsOf(chnSls[n]) : IsPool(t) => r.ip \notin Addresses(t.cidr)

\* A run that ended well has done its work in every network: the UAN has an
\* address of each, or of none.
UanInAllNetworks ==
    (uanPc = "ok" /\ uanCall # NoCall) =>
        \A n \in {m \in ToSet(UanNets) : chnSls[m] # NoNetwork} :
            Cardinality({r \in UanReservations(n) : IsHis(r, uanCall.node)})
                = IF uanCall.command = "allocate" THEN 1 ELSE 0
=============================================================================
