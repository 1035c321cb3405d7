---------------------------- MODULE DefragmentNids ----------------------------
(***************************************************************************)
(* scripts/operations/node_management/defragment_nids.py: gives the nodes  *)
(* it is told to include consecutive NIDs, in lexicographic order of their *)
(* xnames, in HSM and in SLS.                                              *)
(*                                                                         *)
(* A run reads HSM and SLS, decides what to do, and then makes the calls   *)
(* one by one: it deletes conflicting SLS entries and HSM records of nodes *)
(* that it holds for leftovers, PUTs the SLS entries, and PATCHes the NIDs *)
(* of HSM at once.  A call may fail and a run may be interrupted between   *)
(* two calls; then it is run again.                                        *)
(*                                                                         *)
(* Abstractions: nobody else writes HSM or SLS meanwhile, which is the     *)
(* script's stated assumption 1; a read that fails ends the run with       *)
(* nothing changed and is no step; classes, aliases, discovery errors and  *)
(* the report are left out; a query for no node at all is refused.         *)
(***************************************************************************)
EXTENDS Naturals, Sequences, FiniteSets

CONSTANTS
    Order,      \* the compute nodes, as a sequence in lexicographic order
    SlotOf,     \* SlotOf[n]: slot of node n
    Lead,       \* Lead[s]: nodes of slot s that stand for it: b0n0, then b1n0
    Inventories,\* possible contents of the hardware inventory: a model, or
                \* NoModel, for every node
    DisabledIn, \* possible sets of slots whose Redfish endpoints are disabled
    MaxNid,     \* bound on NIDs
    Faults,     \* subset of {"interrupt", "delete", "write"}
    MaxRuns     \* bound on the runs of the script

Node == {Order[i] : i \in DOMAIN Order}
Slot == {SlotOf[n] : n \in Node}
NoModel == "none"
NoNid == 0
Nid == 1..MaxNid
Before(m, n) == \E i, j \in DOMAIN Order : i < j /\ Order[i] = m /\ Order[j] = n

ASSUME DefragmentNidsAssumption ==
    /\ Order \in Seq(STRING)
    /\ \A i, j \in DOMAIN Order : Order[i] = Order[j] => i = j
    /\ \A s \in Slot : \A i \in DOMAIN Lead[s] : SlotOf[Lead[s][i]] = s
    /\ \A v \in Inventories : DOMAIN v = Node
    /\ DisabledIn \subseteq SUBSET Slot
    /\ MaxNid \in Nat /\ MaxRuns \in Nat
    /\ Faults \subseteq {"interrupt", "delete", "write"}

VARIABLES
    hsmNid,    \* hsmNid[n]: NID of the State Component n, NoNid without one
    endpoint,  \* nodes with a ComponentEndpoint in HSM
    model,     \* model[n]: model in the hardware inventory of HSM, or NoModel
    eth,       \* nodes with Ethernet interfaces in HSM
    slsNid,    \* slsNid[n]: NID of the SLS entry of n, NoNid without one
    disabled,  \* slots whose Redfish endpoints are disabled
    pc,        \* the phase of the running script, or how the last run ended
    startingNID, allowedNodes, workingNodeList, \* as in main()
    todo,      \* nodes that the phase has yet to handle
    call,      \* which of the records of an HSM node is deleted next
    runs       \* runs started

hsm    == <<hsmNid, endpoint, model, eth>>
plan   == <<startingNID, allowedNodes, workingNodeList>>
vars == <<hsm, slsNid, disabled, pc, plan, todo, call, runs>>

Records == <<"component", "endpoint", "hwloc", "eth">>

TypeOK ==
    /\ hsmNid \in [Node -> Nid \cup {NoNid}] /\ slsNid \in [Node -> Nid \cup {NoNid}]
    /\ endpoint \subseteq Node /\ eth \subseteq Node /\ disabled \subseteq Slot
    /\ DOMAIN model = Node
    /\ pc \in {"idle", "delete_sls", "remove", "put_sls", "patch", "post", "done"}
    /\ startingNID \in Nid \cup {NoNid}
    /\ allowedNodes \subseteq Node /\ workingNodeList \subseteq allowedNodes
    /\ todo \subseteq Node /\ call \in DOMAIN Records /\ runs \in 0..MaxRuns

\* NIDs without duplicates, for some of the nodes.
Numbering(ns) ==
    {f \in [Node -> Nid \cup {NoNid}] :
        /\ \A n \in Node : n \notin ns => f[n] = NoNid
        /\ \A m, n \in Node : f[m] = f[n] => m = n \/ f[m] = NoNid}

\* Whatever the history of the system: HSM knows the nodes of its inventory and
\* perhaps others, and SLS any.
Init ==
    /\ model \in Inventories /\ disabled \in DisabledIn
    /\ hsmNid \in {f \in Numbering(Node) : \A n \in Node : model[n] # NoModel => f[n] # NoNid}
    /\ endpoint = {n \in Node : hsmNid[n] # NoNid} /\ eth = endpoint
    /\ slsNid \in Numbering(Node)
    /\ pc = "idle" /\ startingNID = NoNid /\ allowedNodes = {} /\ workingNodeList = {}
    /\ todo = {} /\ call = 1 /\ runs = 0

-----------------------------------------------------------------------------
(* The plan: what main() reads and decides before it changes anything.     *)

\* The inventory of a slot covers all of its nodes, included or not.
InInventory(s) == {n \in Node : SlotOf[n] = s /\ model[n] # NoModel}
mismatch(s) == \E m, n \in InInventory(s) : model[m] # model[n]

\* The model that counts in a slot with several: that of b0n0, else of b1n0.
node0Type(s) ==
    LET is == {i \in DOMAIN Lead[s] : model[Lead[s][i]] # NoModel}
    IN  IF is = {} THEN NoModel
        ELSE model[Lead[s][CHOOSE i \in is : \A j \in is : i <= j]]

\* Slots of the Redfish endpoints that are enabled.
slotSet(allowed) == {SlotOf[n] : n \in allowed} \ disabled

Matching(s) == {n \in InInventory(s) : ~mismatch(s) \/ model[n] = node0Type(s)}

\* Mutant: the nodes of a slot are not compared with the included ones.
nodeListOfSlots(allowed) == UNION {Matching(s) : s \in slotSet(allowed)}

nodeList(allowed) == allowed \cap UNION {Matching(s) : s \in slotSet(allowed)}

Block(start, working) == start..(start + Cardinality(working) - 1)

\* Mutant: the nodes that HSM has in the block are not looked at.
BlockIsFreeUnchecked(start, allowed, working) == TRUE

\* No other component has a NID of the block.
BlockIsFree(start, allowed, working) ==
    \A n \in Node \ allowed : hsmNid[n] \notin Block(start, working)

\* SLS entries to delete, and components held for leftovers.
slsDeleteList(start, allowed, working) ==
    {n \in Node \ allowed : slsNid[n] \in Block(start, working)}
hsmDeleteList == allowedNodes \ workingNodeList

\* Mutant: the counter is incremented before it is used.
NewNIDIncremented(n) == startingNID + Cardinality({m \in workingNodeList : m = n \/ Before(m, n)})

NewNID(n) == startingNID + Cardinality({m \in workingNodeList : Before(m, n)})

\* The run for the nodes of `includes' that HSM knows, and a starting NID.
Start(includes, start) ==
    LET allowed == {n \in includes : hsmNid[n] # NoNid}
        working == nodeList(allowed)
    IN
    /\ pc \in {"idle", "done"} /\ runs < MaxRuns /\ runs' = runs + 1
    /\ working # {} /\ Block(start, working) \subseteq Nid
    /\ BlockIsFree(start, allowed, working)
    /\ startingNID' = start /\ allowedNodes' = allowed /\ workingNodeList' = working
    /\ pc' = "delete_sls" /\ todo' = slsDeleteList(start, allowed, working) /\ call' = 1
    /\ UNCHANGED <<hsm, slsNid, disabled>>

-----------------------------------------------------------------------------
(* The changes.                                                            *)

\* The run ends without success; what it changed remains.
Abort ==
    /\ pc' = "idle" /\ startingNID' = NoNid /\ allowedNodes' = {} /\ workingNodeList' = {}
    /\ todo' = {} /\ call' = 1
    /\ UNCHANGED <<hsm, slsNid, disabled, runs>>

Interrupt ==
    /\ "interrupt" \in Faults /\ pc \notin {"idle", "done"}
    /\ Abort

\* Deletions that fail are reported as warnings.
DeleteFails == "delete" \in Faults

deleteSLSComp ==
    /\ pc = "delete_sls"
    /\ \E n \in todo :
        /\ todo' = todo \ {n}
        /\ \/ slsNid' = [slsNid EXCEPT ![n] = NoNid]
           \/ DeleteFails /\ UNCHANGED slsNid
    /\ UNCHANGED <<hsm, disabled, pc, plan, call, runs>>

\* The records of a leftover are deleted one by one; after a failure the
\* others are left as they are.
RemoveFromHsm ==
    /\ pc = "remove"
    /\ \E n \in todo :
        /\ \A m \in todo : ~Before(m, n)
        /\ \/ /\ hsmNid' = [hsmNid EXCEPT ![n] = IF Records[call] = "component" THEN NoNid ELSE @]
              /\ endpoint' = IF Records[call] = "endpoint" THEN endpoint \ {n} ELSE endpoint
              /\ model' = [model EXCEPT ![n] = IF Records[call] = "hwloc" THEN NoModel ELSE @]
              /\ eth' = IF Records[call] = "eth" THEN eth \ {n} ELSE eth
              /\ IF call < Len(Records) THEN call' = call + 1 /\ UNCHANGED todo
                                        ELSE call' = 1 /\ todo' = todo \ {n}
           \/ DeleteFails /\ call' = 1 /\ todo' = todo \ {n} /\ UNCHANGED hsm
    /\ UNCHANGED <<slsNid, disabled, pc, plan, runs>>

\* Mutant: an entry that cannot be PUT is reported, and the run goes on.
putSLSCompGoesOn ==
    /\ pc = "put_sls"
    /\ \E n \in todo :
        /\ \A m \in todo : ~Before(m, n)
        /\ todo' = todo \ {n}
        /\ \/ slsNid' = [slsNid EXCEPT ![n] = NewNID(n)]
           \/ "write" \in Faults /\ UNCHANGED slsNid
    /\ UNCHANGED <<hsm, disabled, pc, plan, call, runs>>

\* The entries are PUT in lexicographic order until one fails.
putSLSComp ==
    /\ pc = "put_sls"
    /\ \E n \in todo :
        /\ \A m \in todo : ~Before(m, n)
        /\ \/ /\ todo' = todo \ {n} /\ slsNid' = [slsNid EXCEPT ![n] = NewNID(n)]
              /\ UNCHANGED <<hsm, disabled, pc, plan, call, runs>>
           \/ "write" \in Faults /\ Abort

\* A loop is over.
NextPhase ==
    /\ todo = {}
    /\ \/ pc = "delete_sls" /\ pc' = "remove"  /\ todo' = hsmDeleteList
       \/ pc = "remove"     /\ pc' = "put_sls" /\ todo' = workingNodeList
       \/ pc = "put_sls"    /\ pc' = "patch"   /\ todo' = {}
    /\ UNCHANGED <<hsm, slsNid, disabled, plan, call, runs>>

patchHSMNIDs ==
    /\ pc = "patch"
    /\ \/ /\ hsmNid' = [n \in Node |-> IF n \in workingNodeList THEN NewNID(n) ELSE hsmNid[n]]
          /\ pc' = "post"
          /\ UNCHANGED <<endpoint, model, eth, slsNid, disabled, plan, todo, call, runs>>
       \/ "write" \in Faults /\ Abort

\* Sets the classes of the components, and ends the run.
postHSMComps ==
    /\ pc = "post"
    /\ \/ pc' = "done" /\ UNCHANGED <<hsm, slsNid, disabled, plan, todo, call, runs>>
       \/ "write" \in Faults /\ Abort

Next ==
    \/ \E includes \in SUBSET Node, start \in Nid : Start(includes, start)
    \/ deleteSLSComp \/ RemoveFromHsm \/ putSLSComp \/ NextPhase
    \/ patchHSMNIDs \/ postHSMComps \/ Interrupt

Spec == Init /\ [][Next]_vars

-----------------------------------------------------------------------------
(* Properties.                                                             *)

\* A run that ends well leaves the nodes it kept with consecutive NIDs from the
\* starting NID, in lexicographic order, in HSM and in SLS, whatever earlier
\* runs left behind.
Defragmented ==
    pc = "done" =>
        /\ {hsmNid[n] : n \in workingNodeList} = Block(startingNID, workingNodeList)
        /\ \A m, n \in workingNodeList : Before(m, n) => hsmNid[m] < hsmNid[n]
        /\ \A n \in workingNodeList : slsNid[n] = hsmNid[n]

\* No two components of HSM ever have the same NID.
HsmNidsUnique ==
    \A m, n \in Node : hsmNid[m] = hsmNid[n] => m = n \/ hsmNid[m] = NoNid

\* A node that was not included keeps its component and its NID, also when its
\* slot is shared with nodes that were.
OthersKeepTheirNids ==
    [][\A n \in Node : hsmNid'[n] # hsmNid[n] => n \in allowedNodes]_vars

\* The model of an HSM component that is deleted differs from that of another
\* node in its slot, and an SLS entry that is deleted is of no component in HSM.
OnlyLeftoversRemoved ==
    [][\A n \in Node :
        /\ hsmNid[n] # NoNid /\ hsmNid'[n] = NoNid =>
              \E m \in Node : SlotOf[m] = SlotOf[n] /\ NoModel # model[m] /\ model[m] # model[n]
        /\ slsNid[n] # NoNid /\ slsNid'[n] = NoNid => hsmNid[n] = NoNid]_vars
=============================================================================
